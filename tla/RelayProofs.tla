---------------------------- MODULE RelayProofs ----------------------------
(***************************************************************************)
(* What holds of one source handler for any outputs, any part counts, any  *)
(* limit on the parts and any number of messages.                          *)
(***************************************************************************)
EXTENDS Relay, TLAPS
-----------------------------------------------------------------------------
(* Sequences.                                                              *)

\* Dropping an element of a list without repetitions.
LEMMA RemoveAtProperties ==
  ASSUME NEW S, NEW s \in Seq(S), NEW i \in DOMAIN s
  PROVE  /\ RemoveAt(s, i) \in Seq(S)
         /\ Len(RemoveAt(s, i)) = Len(s) - 1
         /\ \A j \in 1..(Len(s) - 1) :
              RemoveAt(s, i)[j] = IF j < i THEN s[j] ELSE s[j + 1]
<1> DEFINE a == SubSeq(s, 1, i - 1)
           b == SubSeq(s, i + 1, Len(s))
<1>1. /\ a \in Seq(S) /\ Len(a) = i - 1
      /\ \A j \in 1..(i - 1) : a[j] = s[j]
  OBVIOUS
<1>2. /\ b \in Seq(S) /\ Len(b) = Len(s) - i
      /\ \A j \in 1..(Len(s) - i) : b[j] = s[i + j]
  OBVIOUS
<1>3. RemoveAt(s, i) = a \o b
  BY DEF RemoveAt
<1>4. i \in 1..Len(s)
  OBVIOUS
<1> HIDE DEF a, b
<1>5. a \o b \in Seq(S) /\ Len(a \o b) = Len(s) - 1
  BY <1>1, <1>2, <1>4
<1>6. \A j \in 1..(Len(s) - 1) : (a \o b)[j] = IF j < i THEN s[j] ELSE s[j + 1]
  BY <1>1, <1>2, <1>4
<1> QED BY <1>3, <1>5, <1>6

LEMMA RemoveAtRange ==
  ASSUME NEW S, NEW s \in Seq(S), NEW i \in DOMAIN s, IsInjective(s)
  PROVE  /\ Range(RemoveAt(s, i)) = Range(s) \ {s[i]}
         /\ IsInjective(RemoveAt(s, i))
<1> DEFINE r == RemoveAt(s, i)
           n == Len(s)
           up(j) == IF j < i THEN j ELSE j + 1
<1>1. /\ DOMAIN r = 1..(n - 1) /\ DOMAIN s = 1..n
      /\ n \in Nat /\ i \in 1..n
      /\ \A j \in 1..(n - 1) : r[j] = s[up(j)]
  BY RemoveAtProperties
<1> HIDE DEF r, n
<1>2. \A j \in 1..(n - 1) : up(j) \in 1..n /\ up(j) # i
  BY <1>1
<1>3. \A j, k \in 1..(n - 1) : up(j) = up(k) => j = k
  BY <1>1
<1>4. \A k \in 1..n : k # i => \E j \in 1..(n - 1) : up(j) = k
  <2> SUFFICES ASSUME NEW k \in 1..n, k # i
               PROVE  \E j \in 1..(n - 1) : up(j) = k
    OBVIOUS
  <2>1. CASE k < i
    BY <1>1, <2>1
  <2>2. CASE k > i
    <3>1. k - 1 \in 1..(n - 1) /\ up(k - 1) = k
      BY <1>1, <2>2
    <3> QED BY <3>1
  <2> QED BY <1>1, <2>1, <2>2
<1> HIDE DEF up
<1>5. IsInjective(r)
  BY <1>1, <1>2, <1>3 DEF IsInjective
<1>6. ASSUME NEW j \in 1..(n - 1)
      PROVE  r[j] \in Range(s) \ {s[i]}
  BY <1>1, <1>2 DEF Range, IsInjective
<1>7. ASSUME NEW k \in 1..n, k # i
      PROVE  s[k] \in Range(r)
  BY <1>1, <1>4, <1>7 DEF Range
<1>8. Range(r) = Range(s) \ {s[i]}
  BY <1>1, <1>6, <1>7 DEF Range
<1> QED BY <1>5, <1>8 DEF r

\* Adding an element at the end of a list.
LEMMA AppendRange ==
  ASSUME NEW S, NEW s \in Seq(S), NEW e \in S
  PROVE  /\ Range(Append(s, e)) = Range(s) \union {e}
         /\ IsInjective(s) /\ e \notin Range(s) => IsInjective(Append(s, e))
<1> DEFINE r == Append(s, e)
           n == Len(s)
<1>1. /\ DOMAIN r = 1..(n + 1) /\ DOMAIN s = 1..n /\ n \in Nat
      /\ r[n + 1] = e /\ \A j \in 1..n : r[j] = s[j]
  OBVIOUS
<1> HIDE DEF r, n
<1>2. \A j \in 1..(n + 1) : j \in 1..n \/ j = n + 1
  BY <1>1
<1>3. n + 1 \in 1..(n + 1) /\ \A j \in 1..n : j \in 1..(n + 1)
  BY <1>1
<1>4. Range(r) \subseteq Range(s) \union {e}
  BY <1>1, <1>2 DEF Range
<1>5. Range(s) \union {e} \subseteq Range(r)
  BY <1>1, <1>3 DEF Range
<1>6. IsInjective(s) /\ e \notin Range(s) => IsInjective(r)
  BY <1>1, <1>2 DEF Range, IsInjective
<1> QED BY <1>4, <1>5, <1>6 DEF r
LEMMA AppendLength ==
  ASSUME NEW S, NEW s \in Seq(S), NEW e \in S
  PROVE  /\ Append(s, e) \in Seq(S)
         /\ Len(Append(s, e)) = Len(s) + 1
         /\ Append(s, e) # <<>>
<1>1. Append(s, e) \in Seq(S) /\ Len(Append(s, e)) = Len(s) + 1
  OBVIOUS
<1>2. Len(s) \in Nat /\ Len(<<>>) = 0
  OBVIOUS
<1> QED BY <1>1, <1>2
-----------------------------------------------------------------------------
(* Types.                                                                  *)

\* The message and the frame that are read next.
LEMMA FrameType ==
  ASSUME TypeOK, inbox # <<>>
  PROVE  /\ Msg \in Message(Parts) /\ Msg.parts \in Nat /\ Msg.id \in Nat
         /\ Part \in Nat
         /\ IsMore \in BOOLEAN
         /\ Frame(Msg, Part) \in AFrame
         /\ Tail(inbox) \in Seq(Message(Parts))
         /\ Len(inbox) \in Nat /\ Len(Tail(inbox)) = Len(inbox) - 1
<1>1. inbox \in Seq(Message(Parts)) /\ rd \in Nat
  BY DEF TypeOK
<1>2. Msg \in Message(Parts)
  BY <1>1 DEF Msg
<1>3. Part \in Nat
  BY <1>1 DEF Part
<1>4. Msg.parts \in Nat /\ Msg.id \in Nat
  BY <1>2, PartsAssumption DEF Message
<1>5. Frame(Msg, Part) \in AFrame
  BY <1>2, <1>3 DEF Frame, AFrame
<1>6. IsMore \in BOOLEAN
  BY <1>3, <1>4 DEF IsMore, More
<1>7. /\ Tail(inbox) \in Seq(Message(Parts))
      /\ Len(inbox) \in Nat /\ Len(Tail(inbox)) = Len(inbox) - 1
  BY <1>1
<1> QED BY <1>2, <1>3, <1>4, <1>5, <1>6, <1>7

LEMMA AttachedType ==
  ASSUME TypeOK
  PROVE  Attached \subseteq Outputs
<1>1. socks_out \in Seq(Outputs)
  BY DEF TypeOK
<1>2. \A i \in DOMAIN socks_out : socks_out[i] \in Outputs
  BY <1>1
<1> QED BY <1>2 DEF Attached, Range

\* Handing out a frame keeps the types of what it changes.
LEMMA HandOutType ==
  ASSUME TypeOK, inbox # <<>>,
         NEW offered \in SUBSET Outputs, NEW accepted \in SUBSET offered,
         HandOut(offered, accepted)
  PROVE  /\ pipe' \in [Outputs -> Seq(AFrame)]
         /\ delivered' \in [Outputs -> Seq(Seq(AFrame))]
         /\ swallowing' \subseteq Outputs
         /\ swallowed' \in [Outputs -> Nat]
<1> DEFINE with(o) == Append(pipe[o], Frame(Msg, Part))
<1>1. \A o \in Outputs : /\ pipe[o] \in Seq(AFrame)
                         /\ delivered[o] \in Seq(Seq(AFrame))
  BY DEF TypeOK
<1>2. \A o \in Outputs : with(o) \in Seq(AFrame)
  BY <1>1, FrameType
<1> HIDE DEF with
<1>3. \A o \in Outputs : Append(delivered[o], with(o)) \in Seq(Seq(AFrame))
  BY <1>1, <1>2
<1>4. <<>> \in Seq(AFrame)
  OBVIOUS
<1>5. pipe' = [o \in Outputs |->
                 IF o \in offered
                 THEN IF IsMore /\ o \in accepted \ swallowing
                      THEN with(o) ELSE <<>>
                 ELSE pipe[o]]
  BY DEF HandOut, with
<1>6. delivered' = [o \in Outputs |->
                      IF ~IsMore /\ o \in accepted \ swallowing
                      THEN Append(delivered[o], with(o))
                      ELSE delivered[o]]
  BY DEF HandOut, with
<1>7. pipe' \in [Outputs -> Seq(AFrame)]
  BY <1>1, <1>2, <1>4, <1>5
<1>8. delivered' \in [Outputs -> Seq(Seq(AFrame))]
  BY <1>1, <1>3, <1>6
<1>9. swallowing' \subseteq Outputs
  BY DEF HandOut, TypeOK
<1>10. swallowed' \in [Outputs -> Nat]
  <2>1. \A o \in Outputs : swallowed[o] \in Nat /\ swallowed[o] + 1 \in Nat
    BY DEF TypeOK
  <2> QED BY <2>1 DEF HandOut
<1> QED BY <1>7, <1>8, <1>9, <1>10

LEMMA ServedType ==
  ASSUME TypeOK, inbox # <<>>, NEW offered, NEW accepted
  PROVE  /\ Served(offered, accepted) \in [Outputs -> SockOut]
         /\ Unblocked(Served(offered, accepted)) \in [Outputs -> SockOut]
<1> DEFINE served == Served(offered, accepted)
<1>1. \A o \in Outputs : so[o] \in SockOut
  BY DEF TypeOK
<1>2. ASSUME NEW s \in SockOut
      PROVE  Sent(s) \in SockOut
  <2>1. s.sent_count + 1 \in Nat /\ IsMore \in BOOLEAN
    BY FrameType DEF SockOut
  <2> QED BY <2>1, Zenon DEF Sent, SockOut
<1>3. ASSUME NEW s \in SockOut
      PROVE  Refused(s) \in SockOut
  <2>1. s.eagain + 1 \in Nat /\ s.eagain_multipart + 1 \in Nat
    BY DEF SockOut
  <2> QED BY <2>1, Zenon DEF Refused, SockOut
<1>4. served \in [Outputs -> SockOut]
  BY <1>1, <1>2, <1>3 DEF Served
<1> HIDE DEF served
<1>5. \A o \in Outputs :
        [served[o] EXCEPT !.block_current_multipart = FALSE] \in SockOut
  BY <1>4 DEF SockOut
<1>6. Unblocked(served) \in [Outputs -> SockOut]
  BY <1>5 DEF Unblocked
<1> QED BY <1>4, <1>6 DEF served

LEMMA TakeFrameType ==
  ASSUME TypeOK, inbox # <<>>, TakeFrame
  PROVE  /\ rd' \in Nat /\ mpc' \in Nat
         /\ inbox' \in Seq(Message(Parts))
<1>1. rd \in Nat /\ mpc \in Nat /\ inbox \in Seq(Message(Parts))
  BY DEF TypeOK
<1>2. rd' \in Nat
  BY FrameType DEF TakeFrame
<1>3. mpc' \in Nat
  BY <1>1 DEF TakeFrame, NextMpc
<1>4. inbox' \in Seq(Message(Parts))
  BY <1>1, FrameType DEF TakeFrame
<1> QED BY <1>2, <1>3, <1>4

LEMMA TypeInit == Init => TypeOK
<1>1. /\ <<>> \in Seq(Message(Parts)) /\ <<>> \in Seq(AFrame)
      /\ <<>> \in Seq(Seq(AFrame)) /\ <<>> \in Seq(Outputs)
  OBVIOUS
<1>2. NewSockOut \in SockOut
  BY DEF NewSockOut, SockOut
<1>3. "poll" \in Phases
  BY DEF Phases
<1>4. ASSUME NEW S, NEW x \in S
      PROVE  [o \in Outputs |-> x] \in [Outputs -> S]
  OBVIOUS
<1>5. Init => /\ pipe \in [Outputs -> Seq(AFrame)]
              /\ delivered \in [Outputs -> Seq(Seq(AFrame))]
              /\ so \in [Outputs -> SockOut]
  BY <1>1, <1>2, <1>4, Zenon DEF Init
<1>6. Init => /\ since \in [Outputs -> Nat] /\ lost \in [Outputs -> Nat]
              /\ swallowed \in [Outputs -> Nat]
  BY DEF Init
<1>7. Init => /\ arrived \in Nat /\ rd \in Nat /\ mpc \in Nat
              /\ mpmsgc \in Nat /\ unexpected_frames_count \in Nat
  BY DEF Init
<1>8. Init => inbox \in Seq(Message(Parts)) /\ socks_out \in Seq(Outputs)
  BY <1>1 DEF Init
<1>9. Init => /\ swallowing \subseteq Outputs /\ more_last \in BOOLEAN
              /\ phase \in Phases
  BY <1>3, Zenon DEF Init
<1> QED BY <1>5, <1>6, <1>7, <1>8, <1>9 DEF TypeOK

LEMMA TypeStep == TypeOK /\ [Next]_vars => TypeOK'
<1> SUFFICES ASSUME TypeOK, [Next]_vars
             PROVE  TypeOK'
  OBVIOUS
<1> USE DEF sockets, handler, history
<1>1. CASE Arrive
  <2>1. PICK n \in Parts : inbox' = Append(inbox, [id |-> arrived + 1, parts |-> n])
    BY <1>1 DEF Arrive
  <2>2. [id |-> arrived + 1, parts |-> n] \in Message(Parts)
    BY DEF TypeOK, Message
  <2>3. inbox' \in Seq(Message(Parts))
    BY <2>1, <2>2 DEF TypeOK
  <2> QED BY <1>1, <2>3 DEF Arrive, TypeOK
<1>2. ASSUME NEW o \in Outputs, ClientLeaves(o)
      PROVE  TypeOK'
  BY <1>2 DEF ClientLeaves, TypeOK
<1>3. CASE PollEvent
  BY <1>3 DEF PollEvent, TypeOK, Phases
<1>4. CASE Receive
  <2>1. PICK accepted \in SUBSET Targets :
               /\ HandOut(Targets, accepted)
               /\ so' = IF IsMore THEN Served(Targets, accepted)
                        ELSE Unblocked(Served(Targets, accepted))
    BY <1>4 DEF Receive
  <2>2. inbox # <<>> /\ TakeFrame
    BY <1>4 DEF Receive
  <2>3. /\ pipe' \in [Outputs -> Seq(AFrame)]
        /\ delivered' \in [Outputs -> Seq(Seq(AFrame))]
        /\ swallowing' \subseteq Outputs
        /\ swallowed' \in [Outputs -> Nat]
    BY <2>1, <2>2, AttachedType, HandOutType DEF Targets
  <2>4. so' \in [Outputs -> SockOut]
    BY <2>1, <2>2, ServedType
  <2>5. rd' \in Nat /\ mpc' \in Nat /\ inbox' \in Seq(Message(Parts))
    BY <2>2, TakeFrameType
  <2>6. /\ mpmsgc' \in Nat /\ unexpected_frames_count' \in Nat
        /\ more_last' \in BOOLEAN /\ phase' \in Phases
    BY <1>4, <2>2, FrameType DEF Receive, TypeOK, Phases, Failures
  <2> QED BY <1>4, <2>3, <2>4, <2>5, <2>6 DEF Receive, TypeOK
<1>5. CASE SendError
  <2>0. PICK i \in DOMAIN socks_out :
          LET before == {socks_out[j] : j \in 1..(i - 1)} \intersect Targets
          IN \E accepted \in SUBSET before :
               /\ HandOut(before, accepted)
               /\ so' = Served(before, accepted)
    BY <1>5 DEF SendError
  <2> DEFINE before == {socks_out[j] : j \in 1..(i - 1)} \intersect Targets
  <2>1. PICK accepted \in SUBSET before :
               /\ HandOut(before, accepted)
               /\ so' = Served(before, accepted)
    BY <2>0
  <2>2. inbox # <<>> /\ TakeFrame
    BY <1>5 DEF SendError
  <2>3. /\ pipe' \in [Outputs -> Seq(AFrame)]
        /\ delivered' \in [Outputs -> Seq(Seq(AFrame))]
        /\ swallowing' \subseteq Outputs
        /\ swallowed' \in [Outputs -> Nat]
    BY <2>1, <2>2, AttachedType, HandOutType DEF Targets
  <2>4. so' \in [Outputs -> SockOut]
    BY <2>1, <2>2, ServedType
  <2>5. rd' \in Nat /\ mpc' \in Nat /\ inbox' \in Seq(Message(Parts))
    BY <2>2, TakeFrameType
  <2> QED BY <1>5, <2>3, <2>4, <2>5 DEF SendError, TypeOK, Phases, Failures
<1>6. CASE RecvError
  BY <1>6 DEF RecvError, TypeOK, Phases, Failures
<1>7. CASE Drained
  BY <1>7 DEF Drained, TypeOK, Phases
<1>8. ASSUME NEW o \in Outputs, AddOut(o)
      PROVE  TypeOK'
  BY <1>8 DEF AddOut, TypeOK, NewSockOut, SockOut
<1>9. ASSUME NEW o \in Outputs, RemoveOut(o)
      PROVE  TypeOK'
  <2>1. PICK i \in DOMAIN socks_out : socks_out' = RemoveAt(socks_out, i)
    BY <1>9 DEF RemoveOut
  <2>2. socks_out' \in Seq(Outputs)
    BY <2>1, RemoveAtProperties DEF TypeOK
  <2>3. <<>> \in Seq(AFrame) /\ <<>> \in Seq(Seq(AFrame))
    OBVIOUS
  <2>4. /\ pipe' \in [Outputs -> Seq(AFrame)]
        /\ delivered' \in [Outputs -> Seq(Seq(AFrame))]
    BY <1>9, <2>3 DEF RemoveOut, TypeOK
  <2> QED BY <1>9, <2>2, <2>4 DEF RemoveOut, TypeOK
<1>10. CASE ReopenInput
  <2>1. <<>> \in Seq(Message(Parts))
    OBVIOUS
  <2> QED BY <1>10, <2>1 DEF ReopenInput, TypeOK
<1>11. CASE UNCHANGED vars
  BY <1>11 DEF vars, TypeOK
<1> QED BY <1>1, <1>2, <1>3, <1>4, <1>5, <1>6, <1>7, <1>8, <1>9, <1>10, <1>11
        DEF Next, Environment, HandleEvent, Command

\* Every variable keeps its type, whatever the source and the clients do.
THEOREM TypeCorrect == Spec => []TypeOK
<1>1. Init => TypeOK
  BY TypeInit
<1>2. TypeOK /\ [Next]_vars => TypeOK'
  BY TypeStep
<1> QED BY <1>1, <1>2, PTL DEF Spec
-----------------------------------------------------------------------------
(* What reading and handing out a frame does, variable by variable.        *)

LEMMA FirstFramesAppend ==
  ASSUME NEW m, NEW k \in Nat
  PROVE  Append(FirstFrames(m, k), Frame(m, k + 1)) = FirstFrames(m, k + 1)
<1> DEFINE a == FirstFrames(m, k)
           b == FirstFrames(m, k + 1)
           S == {Frame(m, i) : i \in 1..(k + 1)}
<1>1. a \in Seq(S) /\ Len(a) = k /\ \A i \in 1..k : a[i] = Frame(m, i)
  BY DEF FirstFrames
<1>2. b \in Seq(S) /\ Len(b) = k + 1 /\ \A i \in 1..(k + 1) : b[i] = Frame(m, i)
  BY DEF FirstFrames
<1>3. Frame(m, k + 1) \in S
  OBVIOUS
<1> HIDE DEF a, b, S
<1>4. Append(a, Frame(m, k + 1)) = b
  <2> DEFINE c == Append(a, Frame(m, k + 1))
  <2>1. c \in Seq(S) /\ Len(c) = k + 1
    BY <1>1, <1>3
  <2>2. \A i \in 1..(k + 1) : c[i] = Frame(m, i)
    BY <1>1, <1>3
  <2> HIDE DEF c
  <2>3. c = b
    BY <1>2, <2>1, <2>2
  <2> QED BY <2>3 DEF c
<1> QED BY <1>4 DEF a, b

LEMMA FirstFramesNone == ASSUME NEW m PROVE FirstFrames(m, 0) = <<>>
  BY DEF FirstFrames

LEMMA FirstFramesSome ==
  ASSUME NEW m, NEW k \in Nat, k > 0
  PROVE  FirstFrames(m, k) # <<>>
<1>1. DOMAIN FirstFrames(m, k) = 1..k /\ 1 \in 1..k
  BY DEF FirstFrames
<1>2. DOMAIN <<>> = {}
  OBVIOUS
<1> QED BY <1>1, <1>2

LEMMA ServedFields ==
  ASSUME TypeOK, inbox # <<>>, NEW offered, NEW accepted \in SUBSET offered,
         NEW o \in Outputs
  PROVE  LET s == Served(offered, accepted)[o]
             u == Unblocked(Served(offered, accepted))[o]
         IN /\ s.block_current_multipart
                 = (so[o].block_current_multipart \/ o \in offered \ accepted)
            /\ ~u.block_current_multipart
            /\ s.eagain + s.eagain_multipart
                 = so[o].eagain + so[o].eagain_multipart
                     + IF o \in offered \ accepted THEN 1 ELSE 0
            /\ u.eagain + u.eagain_multipart = s.eagain + s.eagain_multipart
            /\ u.eagain_multipart = s.eagain_multipart
            /\ s.eagain_multipart
                 = so[o].eagain_multipart
                     + IF o \in offered \ accepted /\ so[o].in_multipart
                       THEN 1 ELSE 0
            /\ u.in_multipart = s.in_multipart
            /\ s.in_multipart = IF o \in accepted THEN IsMore
                                ELSE so[o].in_multipart
<1> DEFINE s == Served(offered, accepted)[o]
           u == Unblocked(Served(offered, accepted))[o]
<1>1. so[o] \in SockOut /\ s \in SockOut
  BY ServedType DEF TypeOK
<1>2. s = IF o \in accepted THEN Sent(so[o])
          ELSE IF o \in offered THEN Refused(so[o])
          ELSE so[o]
  BY DEF Served
<1>3. u = [s EXCEPT !.block_current_multipart = FALSE]
  BY DEF Unblocked
<1> HIDE DEF s, u
<1>4. /\ ~u.block_current_multipart
      /\ u.eagain = s.eagain /\ u.eagain_multipart = s.eagain_multipart
      /\ u.in_multipart = s.in_multipart
  BY <1>1, <1>3, Zenon DEF SockOut
<1>5. CASE o \in accepted
  <2>1. /\ s.block_current_multipart = so[o].block_current_multipart
        /\ s.eagain = so[o].eagain
        /\ s.eagain_multipart = so[o].eagain_multipart
        /\ s.in_multipart = IsMore
    BY <1>1, <1>2, <1>5, Zenon DEF Sent, SockOut
  <2> QED BY <1>1, <1>4, <1>5, <2>1 DEF s, u, SockOut
<1>6. CASE o \in offered \ accepted
  <2>1. /\ s.block_current_multipart = TRUE
        /\ s.eagain = IF so[o].in_multipart THEN so[o].eagain
                      ELSE so[o].eagain + 1
        /\ s.eagain_multipart = IF so[o].in_multipart
                                THEN so[o].eagain_multipart + 1
                                ELSE so[o].eagain_multipart
        /\ s.in_multipart = so[o].in_multipart
    BY <1>1, <1>2, <1>6, Zenon DEF Refused, SockOut
  <2>2. s.eagain + s.eagain_multipart
          = so[o].eagain + so[o].eagain_multipart + 1
    BY <1>1, <2>1 DEF SockOut
  <2> QED BY <1>1, <1>4, <1>6, <2>1, <2>2 DEF s, u, SockOut
<1>7. CASE o \notin offered
  <2>1. s = so[o]
    BY <1>2, <1>7
  <2> QED BY <1>1, <1>4, <1>7, <2>1 DEF s, u, SockOut
<1> QED BY <1>5, <1>6, <1>7

LEMMA HandOutEffect ==
  ASSUME TypeOK, inbox # <<>>,
         NEW offered, NEW accepted \in SUBSET offered,
         HandOut(offered, accepted), NEW o \in Outputs
  PROVE  /\ pipe'[o] = IF o \in offered
                       THEN IF IsMore /\ o \in accepted \ swallowing
                            THEN Append(pipe[o], Frame(Msg, Part)) ELSE <<>>
                       ELSE pipe[o]
         /\ delivered'[o] = IF ~IsMore /\ o \in accepted \ swallowing
                            THEN Append(delivered[o],
                                        Append(pipe[o], Frame(Msg, Part)))
                            ELSE delivered[o]
         /\ o \in swallowing'
              <=> IF o \in offered
                  THEN IsMore /\ (\/ o \in swallowing
                                  \/ o \notin accepted /\ pipe[o] # <<>>)
                  ELSE o \in swallowing
         /\ swallowed'[o] = IF o \in offered \intersect swallowing /\ rd = 0
                            THEN swallowed[o] + 1 ELSE swallowed[o]
<1>1. IsMore \in BOOLEAN
  BY FrameType
<1> QED BY <1>1 DEF HandOut

\* The outputs that refuse the frame are those offered it that do not accept.
LEMMA ReceiveEffect ==
  ASSUME TypeOK, Receive
  PROVE  \E accepted \in SUBSET Targets :
           /\ Targets \intersect swallowing \subseteq accepted
           /\ HandOut(Targets, accepted)
           /\ \A o \in Outputs :
                /\ so'[o].block_current_multipart
                     = (IsMore /\ (\/ so[o].block_current_multipart
                                   \/ o \in Targets \ accepted))
                /\ so'[o].eagain + so'[o].eagain_multipart
                     = so[o].eagain + so[o].eagain_multipart
                         + IF o \in Targets \ accepted THEN 1 ELSE 0
                /\ so'[o].eagain_multipart
                     = so[o].eagain_multipart
                         + IF o \in Targets \ accepted /\ so[o].in_multipart
                           THEN 1 ELSE 0
                /\ so'[o].in_multipart = IF o \in accepted THEN IsMore
                                         ELSE so[o].in_multipart
<1>1. PICK accepted \in SUBSET Targets :
             /\ Targets \intersect swallowing \subseteq accepted
             /\ HandOut(Targets, accepted)
             /\ so' = IF IsMore THEN Served(Targets, accepted)
                      ELSE Unblocked(Served(Targets, accepted))
  BY DEF Receive
<1>2. inbox # <<>> /\ IsMore \in BOOLEAN
  BY FrameType DEF Receive
<1> DEFINE refused == Targets \ accepted
           served == Served(Targets, accepted)
           unblocked == Unblocked(served)
<1>3. ASSUME NEW o \in Outputs
      PROVE  /\ served[o].block_current_multipart
                  = (so[o].block_current_multipart \/ o \in refused)
             /\ ~unblocked[o].block_current_multipart
             /\ served[o].eagain + served[o].eagain_multipart
                  = so[o].eagain + so[o].eagain_multipart
                      + IF o \in refused THEN 1 ELSE 0
             /\ unblocked[o].eagain + unblocked[o].eagain_multipart
                  = served[o].eagain + served[o].eagain_multipart
             /\ unblocked[o].eagain_multipart = served[o].eagain_multipart
             /\ served[o].eagain_multipart
                  = so[o].eagain_multipart
                      + IF o \in refused /\ so[o].in_multipart THEN 1 ELSE 0
             /\ unblocked[o].in_multipart = served[o].in_multipart
             /\ served[o].in_multipart = IF o \in accepted THEN IsMore
                                         ELSE so[o].in_multipart
  BY <1>2, ServedFields
<1>4. unblocked \in [Outputs -> SockOut]
  BY <1>2, ServedType
<1> HIDE DEF served, unblocked, refused
<1>5. so' = IF IsMore THEN served ELSE unblocked
  BY <1>1 DEF served, unblocked
<1>6. ASSUME NEW o \in Outputs
      PROVE  /\ so'[o].block_current_multipart
                  = (IsMore /\ (so[o].block_current_multipart \/ o \in refused))
             /\ so'[o].eagain + so'[o].eagain_multipart
                  = so[o].eagain + so[o].eagain_multipart
                      + IF o \in refused THEN 1 ELSE 0
             /\ so'[o].eagain_multipart
                  = so[o].eagain_multipart
                      + IF o \in refused /\ so[o].in_multipart THEN 1 ELSE 0
             /\ so'[o].in_multipart = IF o \in accepted THEN IsMore
                                      ELSE so[o].in_multipart
  <2>1. unblocked[o].block_current_multipart = FALSE
    BY <1>3, <1>4 DEF SockOut
  <2>2. CASE IsMore
    BY <1>3, <1>5, <2>2
  <2>3. CASE ~IsMore
    BY <1>2, <1>3, <1>5, <2>1, <2>3
  <2> QED BY <2>2, <2>3
<1> QED BY <1>1, <1>6 DEF refused
-----------------------------------------------------------------------------
(* The input.                                                              *)

LEMMA InputInit == Init => InputInv
  BY DEF Init, InputInv, Failed, Failures

\* The queue after a frame is read.
LEMMA InputTake ==
  ASSUME TypeOK, InputInv, inbox # <<>>, TakeFrame, arrived' = arrived
  PROVE  /\ Len(inbox') <= arrived'
         /\ \A i \in 1..Len(inbox') : inbox'[i].id = arrived' - Len(inbox') + i
         /\ rd' > 0 <=> IsMore
         /\ rd' > 0 => inbox' # <<>> /\ Msg' = Msg /\ rd' < Msg.parts
         /\ mpc' = NextMpc
<1>1. /\ inbox \in Seq(Message(Parts)) /\ rd \in Nat /\ arrived \in Nat
      /\ IsMore \in BOOLEAN
  BY FrameType DEF TypeOK
<1>2. CASE IsMore
  <2>1. /\ inbox' = inbox /\ rd' = rd + 1
        /\ rd + 1 < Msg.parts
    BY <1>2 DEF TakeFrame, IsMore, More, Part
  <2>2. Msg' = Msg
    BY <2>1 DEF Msg
  <2> QED BY <1>1, <1>2, <2>1, <2>2 DEF InputInv, TakeFrame
<1>3. CASE ~IsMore
  <2>1. inbox' = Tail(inbox) /\ rd' = 0
    BY <1>3 DEF TakeFrame
  <2>2. Len(inbox') = Len(inbox) - 1 /\ Len(inbox) \in Nat
    BY <1>1, <2>1
  <2>3. ASSUME NEW i \in 1..Len(inbox')
        PROVE  inbox'[i].id = arrived - Len(inbox') + i
    <3>1. i + 1 \in 1..Len(inbox) /\ inbox'[i] = inbox[i + 1]
      BY <1>1, <2>1, <2>2
    <3>2. inbox[i + 1].id = arrived - Len(inbox) + (i + 1)
      BY <3>1 DEF InputInv
    <3> QED BY <1>1, <2>2, <3>1, <3>2
  <2> QED BY <1>1, <1>3, <2>1, <2>2, <2>3 DEF InputInv, TakeFrame
<1> QED BY <1>2, <1>3

LEMMA InputStep ==
  ASSUME TypeOK, InputInv, [Next]_vars
  PROVE  InputInv'
<1> USE DEF sockets, handler, history, Failed, Failures
<1>1. CASE Arrive
  <2>1. PICK n \in Parts : inbox' = Append(inbox, [id |-> arrived + 1, parts |-> n])
    BY <1>1 DEF Arrive
  <2> DEFINE m == [id |-> arrived + 1, parts |-> n]
  <2>2. /\ m \in Message(Parts) /\ m.id = arrived + 1
        /\ inbox \in Seq(Message(Parts)) /\ arrived \in Nat
    BY DEF TypeOK, Message
  <2>3. inbox' = Append(inbox, m)
    BY <2>1
  <2> HIDE DEF m
  <2>4. /\ Len(inbox') = Len(inbox) + 1 /\ arrived' = arrived + 1
        /\ \A i \in 1..Len(inbox) : inbox'[i] = inbox[i]
        /\ inbox'[Len(inbox) + 1] = m
    BY <1>1, <2>2, <2>3 DEF Arrive
  <2>5. \A i \in 1..Len(inbox') : inbox'[i].id = arrived' - Len(inbox') + i
    <3> SUFFICES ASSUME NEW i \in 1..Len(inbox')
                 PROVE  inbox'[i].id = arrived' - Len(inbox') + i
      OBVIOUS
    <3>1. CASE i \in 1..Len(inbox)
      BY <2>2, <2>4, <3>1 DEF InputInv
    <3>2. CASE i = Len(inbox) + 1
      BY <2>2, <2>4, <3>2
    <3> QED BY <2>2, <2>4, <3>1, <3>2
  <2>6. inbox # <<>> => Msg' = Msg
    BY <2>2, <2>4 DEF Msg
  <2>7. inbox' # <<>>
    BY <2>2, <2>4
  <2> QED BY <1>1, <2>2, <2>4, <2>5, <2>6, <2>7 DEF Arrive, InputInv
<1>2. ASSUME NEW o \in Outputs, ClientLeaves(o)
      PROVE  InputInv'
  BY <1>2 DEF ClientLeaves, InputInv, Msg
<1>3. CASE PollEvent
  BY <1>3 DEF PollEvent, InputInv, Msg
<1>4. CASE Receive
  <2>1. inbox # <<>> /\ TakeFrame /\ arrived' = arrived /\ more_last' = IsMore
        /\ phase = "recv" /\ phase' # "poll"
    BY <1>4 DEF Receive
  <2>2. more_last' => mpc' = rd' - 1
    <3>1. more_last' => rd' = rd + 1
      BY <2>1 DEF TakeFrame, Part
    <3>2. NextMpc = rd
      BY <2>1 DEF InputInv, NextMpc, TypeOK
    <3> QED BY <2>1, <3>1, <3>2 DEF TakeFrame, TypeOK
  <2> QED BY <2>1, <2>2, InputTake DEF InputInv
<1>5. CASE SendError
  <2>1. inbox # <<>> /\ TakeFrame /\ arrived' = arrived /\ phase' = "send_error"
    BY <1>5 DEF SendError
  <2> QED BY <2>1, InputTake DEF InputInv
<1>6. CASE RecvError
  BY <1>6 DEF RecvError, InputInv, Msg
<1>7. CASE Drained
  BY <1>7 DEF Drained, InputInv, TypeOK, Msg
<1>8. ASSUME NEW o \in Outputs, AddOut(o)
      PROVE  InputInv'
  BY <1>8 DEF AddOut, InputInv, Msg
<1>9. ASSUME NEW o \in Outputs, RemoveOut(o)
      PROVE  InputInv'
  BY <1>9 DEF RemoveOut, InputInv, Msg
<1>10. CASE ReopenInput
  <2>1. inbox' = <<>> /\ Len(inbox') = 0 /\ arrived' \in Nat
    BY <1>10 DEF ReopenInput, TypeOK
  <2> QED BY <1>10, <2>1 DEF ReopenInput, InputInv
<1>11. CASE UNCHANGED vars
  BY <1>11 DEF vars, InputInv, Msg
<1> QED BY <1>1, <1>2, <1>3, <1>4, <1>5, <1>6, <1>7, <1>8, <1>9, <1>10, <1>11
        DEF Next, Environment, HandleEvent, Command
-----------------------------------------------------------------------------
(* The outputs.                                                            *)

\* With the invariant, the frame an output takes makes the frames it holds
\* the first Part frames of the message.
LEMMA TakenFrames ==
  ASSUME TypeOK, InputInv, OutputInv, ~Failed, inbox # <<>>,
         NEW o \in Targets \ swallowing
  PROVE  Append(pipe[o], Frame(Msg, Part)) = FirstFrames(Msg, Part)
<1>1. o \in Outputs /\ rd \in Nat
  BY AttachedType DEF Targets, TypeOK
<1>2. pipe[o] = FirstFrames(Msg, rd)
  <2>1. CASE rd > 0
    <3>1. Open(o)
      BY <2>1 DEF Targets, Open
    <3> QED BY <1>1, <3>1 DEF OutputInv
  <2>2. CASE rd = 0
    <3>1. ~Open(o)
      BY <2>2 DEF Open
    <3> QED BY <1>1, <2>2, <3>1, FirstFramesNone DEF OutputInv
  <2> QED BY <1>1, <2>1, <2>2
<1> QED BY <1>1, <1>2, FirstFramesAppend DEF Part

LEMMA OutputInit == Init => OutputInv
<1> SUFFICES ASSUME Init
             PROVE  OutputInv
  OBVIOUS
<1>1. Attached = {} /\ IsInjective(socks_out)
  BY DEF Init, Attached, Range, IsInjective
<1>2. \A o \in Outputs : delivered[o] = <<>> /\ pipe[o] = <<>> /\ ~Open(o)
  BY <1>1 DEF Init, Open
<1> QED BY <1>1, <1>2 DEF OutputInv

LEMMA OutputReceive ==
  ASSUME TypeOK, InputInv, OutputInv, Receive
  PROVE  OutputInv'
<1>1. PICK accepted \in SUBSET Targets :
             /\ Targets \intersect swallowing \subseteq accepted
             /\ HandOut(Targets, accepted)
             /\ \A o \in Outputs :
                  so'[o].block_current_multipart
                    = (IsMore /\ (\/ so[o].block_current_multipart
                                  \/ o \in Targets \ accepted))
  BY ReceiveEffect
<1>2. /\ inbox # <<>> /\ TakeFrame /\ arrived' = arrived
      /\ ~Failed /\ socks_out' = socks_out /\ Attached' = Attached
      /\ mpmsgc' = IF IsMore THEN mpmsgc ELSE mpmsgc + 1
  BY DEF Receive, Failed, Failures, Attached
<1>3. /\ IsMore \in BOOLEAN /\ rd \in Nat /\ mpmsgc \in Nat /\ Part = rd + 1
      /\ Targets \subseteq Outputs /\ swallowing \subseteq Outputs
  BY <1>2, FrameType, AttachedType DEF Targets, TypeOK, Part
<1>4. \A o \in Outputs :
        /\ pipe'[o] = IF o \in Targets
                      THEN IF IsMore /\ o \in accepted \ swallowing
                           THEN Append(pipe[o], Frame(Msg, Part)) ELSE <<>>
                      ELSE pipe[o]
        /\ delivered'[o] = IF ~IsMore /\ o \in accepted \ swallowing
                           THEN Append(delivered[o],
                                       Append(pipe[o], Frame(Msg, Part)))
                           ELSE delivered[o]
  BY <1>1, <1>2, HandOutEffect
<1>5. \A o \in Outputs :
        o \in swallowing' <=> IF o \in Targets
                             THEN IsMore /\ (\/ o \in swallowing
                                             \/ /\ o \notin accepted
                                                /\ pipe[o] # <<>>)
                             ELSE o \in swallowing
  BY <1>1, <1>2, HandOutEffect
<1>6. ASSUME NEW o \in Outputs
      PROVE  Open(o) => o \in Targets
  BY DEF Open, Targets
<1>7. \A o \in Outputs : o \notin Attached' => delivered'[o] = <<>>
  BY <1>1, <1>2, <1>4 DEF OutputInv, Targets
<1>8. CASE IsMore
  <2>1. rd' = Part /\ rd' > 0 /\ mpmsgc' = mpmsgc /\ Msg' = Msg
    BY <1>2, <1>3, <1>8, InputTake DEF TakeFrame
  <2>2. ASSUME NEW o \in Outputs
        PROVE  Open(o)' <=> o \in accepted
    BY <1>1, <1>2, <1>8, <2>1, <2>2 DEF Open, Targets
  <2>4. ASSUME NEW o \in Outputs
        PROVE  pipe'[o] = IF o \in accepted /\ o \notin swallowing'
                          THEN FirstFrames(Msg, Part) ELSE <<>>
    <3>1. CASE o \in accepted \ swallowing
      BY <1>1, <1>2, <1>4, <1>5, <1>8, <3>1, TakenFrames
    <3>2. CASE o \in Targets /\ o \notin accepted \ swallowing
      BY <1>4, <1>5, <1>8, <3>2
    <3>3. CASE o \notin Targets
      <4>1. pipe[o] = <<>>
        BY <1>2, <1>6, <3>3 DEF OutputInv
      <4> QED BY <1>1, <1>4, <3>3, <4>1
    <3> QED BY <1>1, <3>1, <3>2, <3>3
  <2>5. ~(rd' > 0 /\ mpmsgc' > 0)
          => \A o \in Attached' : ~so'[o].block_current_multipart
    <3> SUFFICES ASSUME ~(mpmsgc > 0), NEW o \in Attached
                 PROVE  ~so'[o].block_current_multipart
      BY <1>2, <2>1
    <3>1. ~so[o].block_current_multipart /\ Targets = {} /\ o \in Outputs
      BY <1>2, AttachedType DEF OutputInv, Targets
    <3> QED BY <1>1, <3>1
  <2>7. \A o \in Outputs :
          pipe'[o] = IF Open(o)' /\ o \notin swallowing'
                     THEN FirstFrames(Msg', rd') ELSE <<>>
    BY <2>1, <2>2, <2>4
  <2> QED BY <1>2, <1>7, <2>5, <2>7 DEF OutputInv
<1>9. CASE ~IsMore
  <2>1. rd' = 0 /\ ~(rd' > 0)
    BY <1>2, <1>9 DEF TakeFrame
  <2>2. ASSUME NEW o \in Outputs
        PROVE  ~Open(o)' /\ pipe'[o] = <<>> /\ ~so'[o].block_current_multipart
    <3>1. ~Open(o)'
      BY <2>1 DEF Open
    <3>2. ~so'[o].block_current_multipart
      BY <1>1, <1>9
    <3>3. pipe'[o] = <<>>
      BY <1>2, <1>4, <1>6, <1>9 DEF OutputInv
    <3> QED BY <3>1, <3>2, <3>3
  <2>4. \A o \in Attached' : ~so'[o].block_current_multipart
    BY <1>2, <2>2, AttachedType
  <2> QED BY <1>2, <1>7, <2>2, <2>4 DEF OutputInv
<1> QED BY <1>3, <1>8, <1>9

\* Nothing is asked of the outputs once the handler has given up.
LEMMA OutputFailed ==
  ASSUME OutputInv, Failed', socks_out' = socks_out,
         \A o \in Outputs : o \notin Attached => delivered'[o] = delivered[o]
  PROVE  OutputInv'
<1>1. Attached' = Attached
  BY DEF Attached
<1> QED BY <1>1 DEF OutputInv

\* A step that leaves the outputs and the message being read alone.
LEMMA OutputUnchanged ==
  ASSUME OutputInv, rd' = rd, rd > 0 => Msg' = Msg, rd \in Nat,
         Failed => Failed',
         UNCHANGED <<pipe, swallowing, delivered, mpmsgc, socks_out, so>>
  PROVE  OutputInv'
<1>1. Attached' = Attached
  BY DEF Attached
<1>2. \A o : Open(o)' <=> Open(o)
  BY <1>1 DEF Open
<1>3. \A o : Open(o) => rd > 0
  BY DEF Open
<1> QED BY <1>1, <1>2, <1>3 DEF OutputInv

LEMMA OutputStep ==
  ASSUME TypeOK, InputInv, OutputInv, [Next]_vars
  PROVE  OutputInv'
<1> USE DEF sockets, handler, history
<1>0. rd \in Nat /\ Attached \subseteq Outputs
  BY AttachedType DEF TypeOK
<1>1. CASE Arrive
  <2>1. rd > 0 => Msg' = Msg
    BY <1>1 DEF Arrive, InputInv, TypeOK, Msg, Message
  <2> QED BY <1>0, <1>1, <2>1, OutputUnchanged DEF Arrive, Failed
<1>2. ASSUME NEW p \in Outputs, ClientLeaves(p)
      PROVE  OutputInv'
  <2>1. CASE Failed
    BY <1>2, <2>1, OutputFailed DEF ClientLeaves, Failed
  <2>2. CASE ~Failed
    <3>1. Open(p) /\ Msg' = Msg /\ Attached' = Attached
      BY <1>2, <2>2 DEF OutputInv, ClientLeaves, Msg, Attached
    <3>2. \A o : Open(o)' <=> Open(o)
      BY <1>2, <3>1 DEF ClientLeaves, Open
    <3>3. swallowing' = swallowing \union {p}
      BY <1>2 DEF ClientLeaves
    <3>4. \A o \in Outputs : pipe'[o] = IF o = p THEN <<>> ELSE pipe[o]
      BY <1>2 DEF ClientLeaves, TypeOK
    <3>5. /\ rd' = rd /\ mpmsgc' = mpmsgc /\ so' = so /\ Failed' = Failed
          /\ delivered' = delivered /\ socks_out' = socks_out
      BY <1>2 DEF ClientLeaves, Failed
    <3>7. \A o \in Outputs :
            pipe'[o] = IF Open(o)' /\ o \notin swallowing'
                       THEN FirstFrames(Msg', rd') ELSE <<>>
      BY <2>2, <3>1, <3>2, <3>3, <3>4, <3>5 DEF OutputInv
    <3> QED BY <2>2, <3>1, <3>5, <3>7 DEF OutputInv
  <2> QED BY <2>1, <2>2
<1>3. CASE PollEvent
  BY <1>0, <1>3, OutputUnchanged DEF PollEvent, Failed, Failures, Msg
<1>4. CASE Receive
  BY <1>4, OutputReceive
<1>5. CASE SendError
  <2>1. PICK i \in DOMAIN socks_out :
          LET before == {socks_out[j] : j \in 1..(i - 1)} \intersect Targets
          IN \E accepted \in SUBSET before : HandOut(before, accepted)
    BY <1>5 DEF SendError
  <2> DEFINE before == {socks_out[j] : j \in 1..(i - 1)} \intersect Targets
  <2>2. PICK accepted \in SUBSET before : HandOut(before, accepted)
    BY <2>1
  <2>3. before \subseteq Attached /\ inbox # <<>>
    BY <1>5 DEF Targets, SendError
  <2> HIDE DEF before
  <2>4. \A o \in Outputs : o \notin Attached => delivered'[o] = delivered[o]
    BY <2>2, <2>3, HandOutEffect
  <2>5. Failed' /\ socks_out' = socks_out
    BY <1>5 DEF SendError, Failed, Failures
  <2> QED BY <2>4, <2>5, OutputFailed
<1>6. CASE RecvError
  BY <1>6, OutputFailed DEF RecvError, Failed, Failures
<1>7. CASE Drained
  BY <1>0, <1>7, OutputUnchanged DEF Drained, Failed, Failures, Msg
<1>8. ASSUME NEW p \in Outputs, AddOut(p)
      PROVE  OutputInv'
  <2>1. rd = 0 /\ rd' = 0 /\ ~Failed /\ delivered' = delivered
        /\ pipe' = pipe /\ swallowing' = swallowing
    BY <1>8 DEF AddOut, InputInv, Failed, Failures
  <2>2. Attached' = Attached \union {p} /\ IsInjective(socks_out')
    BY <1>8, AppendRange DEF AddOut, Attached, OutputInv, TypeOK
  <2>3. \A o : ~Open(o) /\ ~Open(o)'
    BY <1>0, <2>1 DEF Open
  <2>4. ASSUME NEW o \in Attached'
        PROVE  ~so'[o].block_current_multipart
    <3>1. CASE o = p
      <4>1. so'[p] = NewSockOut
        BY <1>8 DEF AddOut, TypeOK
      <4> QED BY <3>1, <4>1 DEF NewSockOut
    <3>2. CASE o # p
      <4>1. so'[o] = so[o] /\ o \in Attached
        BY <1>0, <1>8, <2>2, <3>2 DEF AddOut, TypeOK
      <4> QED BY <2>1, <4>1 DEF OutputInv
    <3> QED BY <3>1, <3>2
  <2> QED BY <2>1, <2>2, <2>3, <2>4 DEF OutputInv
<1>9. ASSUME NEW p \in Outputs, RemoveOut(p)
      PROVE  OutputInv'
  <2>1. rd = 0 /\ rd' = 0 /\ ~Failed /\ so' = so
        /\ swallowing' = swallowing \ {p}
    BY <1>9 DEF RemoveOut, InputInv, Failed, Failures
  <2>2. PICK i \in DOMAIN socks_out :
               socks_out[i] = p /\ socks_out' = RemoveAt(socks_out, i)
    BY <1>9 DEF RemoveOut
  <2>3. Attached' = Attached \ {p} /\ IsInjective(socks_out')
    BY <2>2, RemoveAtRange DEF Attached, OutputInv, TypeOK
  <2>4. \A o : ~Open(o) /\ ~Open(o)'
    BY <1>0, <2>1 DEF Open
  <2>5. \A o \in Outputs : /\ pipe'[o] = IF o = p THEN <<>> ELSE pipe[o]
                           /\ delivered'[o] = IF o = p THEN <<>>
                                              ELSE delivered[o]
    BY <1>9 DEF RemoveOut, TypeOK
  <2>6. \A o \in Outputs : pipe'[o] = <<>>
    BY <2>1, <2>4, <2>5 DEF OutputInv
  <2>7. \A o \in Outputs : o \notin Attached' => delivered'[o] = <<>>
    BY <2>3, <2>5 DEF OutputInv
  <2>9. \A o \in Attached' : ~so'[o].block_current_multipart
    BY <2>1, <2>3 DEF OutputInv
  <2> QED BY <2>3, <2>4, <2>6, <2>7, <2>9 DEF OutputInv
<1>10. CASE ReopenInput
  <2>1. rd = 0
    BY <1>10 DEF ReopenInput, InputInv
  <2> QED BY <1>0, <1>10, <2>1, OutputUnchanged
          DEF ReopenInput, Failed
<1>11. CASE UNCHANGED vars
  BY <1>0, <1>11, OutputUnchanged DEF vars, Failed, Msg
<1> QED BY <1>1, <1>2, <1>3, <1>4, <1>5, <1>6, <1>7, <1>8, <1>9, <1>10, <1>11
        DEF Next, Environment, HandleEvent, Command
-----------------------------------------------------------------------------
(* The messages that are swallowed.                                        *)

\* What SwallowInv says of one output.
SwallowOf(o) ==
  /\ o \in swallowing => o \in Attached
  /\ pipe[o] # <<>> \/ Due(o) => so[o].in_multipart
  /\ swallowed[o] + (IF Due(o) THEN 1 ELSE 0) <= so[o].eagain_multipart

LEMMA SwallowByOutput ==
  SwallowInv <=> (~Failed => \A o \in Outputs : SwallowOf(o))
  BY DEF SwallowInv, SwallowOf

LEMMA SwallowTypes ==
  ASSUME TypeOK, NEW o \in Outputs
  PROVE  /\ swallowed[o] \in Nat /\ so[o].eagain_multipart \in Nat
         /\ so[o].in_multipart \in BOOLEAN
<1>1. swallowed[o] \in Nat /\ so[o] \in SockOut
  BY DEF TypeOK
<1> QED BY <1>1 DEF SockOut

LEMMA SwallowInit == Init => SwallowInv
<1> SUFFICES ASSUME Init, NEW o \in Outputs
             PROVE  SwallowOf(o)
  BY SwallowByOutput
<1>1. pipe[o] = <<>> /\ o \notin swallowing /\ ~Due(o)
  BY DEF Init, Due
<1>2. swallowed[o] = 0 /\ so[o].eagain_multipart = 0
  BY DEF Init, NewSockOut
<1> QED BY <1>1, <1>2 DEF SwallowOf

\* A step that leaves one output, its struct and what is read alone.
LEMMA SwallowSame ==
  ASSUME NEW o, SwallowOf(o), rd' = rd, mpmsgc' = mpmsgc,
         o \in swallowing' <=> o \in swallowing,
         o \in Attached' <=> o \in Attached,
         pipe'[o] = pipe[o], so'[o] = so[o], swallowed'[o] = swallowed[o]
  PROVE  SwallowOf(o)'
<1>1. Due(o)' <=> Due(o)
  BY DEF Due, Open
<1> QED BY <1>1 DEF SwallowOf

LEMMA SwallowReceive ==
  ASSUME TypeOK, InputInv, OutputInv, SwallowInv, Receive,
         NEW o \in Outputs
  PROVE  SwallowOf(o)'
<1>1. PICK accepted \in SUBSET Targets :
             /\ Targets \intersect swallowing \subseteq accepted
             /\ HandOut(Targets, accepted)
             /\ so'[o].block_current_multipart
                  = (IsMore /\ (\/ so[o].block_current_multipart
                                \/ o \in Targets \ accepted))
             /\ so'[o].eagain_multipart
                  = so[o].eagain_multipart
                      + IF o \in Targets \ accepted /\ so[o].in_multipart
                        THEN 1 ELSE 0
             /\ so'[o].in_multipart = IF o \in accepted THEN IsMore
                                      ELSE so[o].in_multipart
  BY ReceiveEffect
<1>2. /\ inbox # <<>> /\ TakeFrame /\ ~Failed /\ Attached' = Attached
      /\ mpmsgc' = IF IsMore THEN mpmsgc ELSE mpmsgc + 1
  BY DEF Receive, Failed, Failures, Attached
<1>3. /\ IsMore \in BOOLEAN /\ rd \in Nat /\ mpmsgc \in Nat /\ Part = rd + 1
      /\ Targets \subseteq Outputs /\ Targets \subseteq Attached
  BY <1>2, FrameType, AttachedType DEF Targets, TypeOK, Part
<1>4. rd' = IF IsMore THEN rd + 1 ELSE 0
  BY <1>2, <1>3 DEF TakeFrame
<1>5. /\ o \in swallowing'
           <=> IF o \in Targets
               THEN IsMore /\ (\/ o \in swallowing
                               \/ o \notin accepted /\ pipe[o] # <<>>)
               ELSE o \in swallowing
      /\ swallowed'[o] = IF o \in Targets \intersect swallowing /\ rd = 0
                         THEN swallowed[o] + 1 ELSE swallowed[o]
      /\ o \notin Targets => pipe'[o] = pipe[o]
      /\ pipe'[o] # <<>> => o \notin Targets \/ (IsMore /\ o \in accepted)
  BY <1>1, <1>2, HandOutEffect
<1>6. SwallowOf(o)
  BY <1>2, SwallowByOutput
<1>7. /\ swallowed[o] \in Nat /\ so[o].eagain_multipart \in Nat
      /\ so[o].in_multipart \in BOOLEAN
  BY SwallowTypes
<1>8. /\ Open(o) <=> o \in Targets /\ rd > 0
      /\ Open(o)' <=> IsMore /\ o \in accepted
  <2>1. Open(o) <=> o \in Targets /\ rd > 0
    BY <1>3 DEF Open, Targets
  <2>2. Open(o)' <=> /\ o \in Attached /\ IsMore /\ mpmsgc > 0
                     /\ ~so'[o].block_current_multipart
    BY <1>2, <1>3, <1>4 DEF Open
  <2>3. /\ o \in Targets <=> /\ o \in Attached /\ mpmsgc > 0
                              /\ ~so[o].block_current_multipart
        /\ o \in accepted => o \in Targets
    BY <1>1 DEF Targets
  <2> QED BY <1>1, <2>1, <2>2, <2>3
<1>9. CASE o \notin Targets
  \* Nothing is offered: what is due stays due.
  <2>1. pipe[o] = <<>>
    BY <1>2, <1>8, <1>9 DEF OutputInv
  <2>2. Due(o)' <=> Due(o)
    BY <1>1, <1>5, <1>8, <1>9 DEF Due
  <2>3. /\ so'[o].eagain_multipart = so[o].eagain_multipart
        /\ so'[o].in_multipart = so[o].in_multipart
        /\ swallowed'[o] = swallowed[o] /\ pipe'[o] = <<>>
    BY <1>1, <1>5, <1>7, <1>9, <2>1
  <2> QED BY <1>2, <1>5, <1>6, <1>9, <2>2, <2>3 DEF SwallowOf
<1>10. CASE o \in Targets /\ o \in accepted
  \* The frame is taken or swallowed: nothing is due after it.
  <2>1. ~Due(o)'
    BY <1>1, <1>3, <1>5, <1>8, <1>10 DEF Due
  <2>2. o \in swallowing /\ rd = 0 => Due(o)
    BY <1>8 DEF Due
  <2>3. swallowed'[o] <= so'[o].eagain_multipart
    BY <1>1, <1>5, <1>6, <1>7, <1>10, <2>2 DEF SwallowOf
  <2>4. pipe'[o] # <<>> => so'[o].in_multipart
    BY <1>1, <1>5, <1>10
  <2>5. swallowed'[o] \in Nat
    BY <1>5, <1>7
  <2> QED BY <1>2, <1>3, <1>10, <2>1, <2>3, <2>4, <2>5 DEF SwallowOf
<1>11. CASE o \in Targets /\ o \notin accepted
  \* The frame is refused, in mid-message when earlier ones were taken.
  <2>1. o \notin swallowing /\ ~Due(o)
    BY <1>1, <1>11 DEF Due
  <2>2. swallowed[o] <= so[o].eagain_multipart
    BY <1>6, <1>7, <2>1 DEF SwallowOf
  <2>3. swallowed'[o] = swallowed[o] /\ pipe'[o] = <<>>
    BY <1>5, <1>11, <2>1
  <2>4. Due(o)' => pipe[o] # <<>>
    BY <1>5, <1>11, <2>1 DEF Due
  <2>5. Due(o)' => /\ so'[o].in_multipart
                   /\ so'[o].eagain_multipart = so[o].eagain_multipart + 1
    BY <1>1, <1>6, <1>11, <2>4 DEF SwallowOf
  <2>6. so[o].eagain_multipart <= so'[o].eagain_multipart
    BY <1>1, <1>7
  <2> QED BY <1>1, <1>2, <1>3, <1>7, <1>11, <2>2, <2>3, <2>5, <2>6
          DEF SwallowOf
<1> QED BY <1>9, <1>10, <1>11

LEMMA SwallowStep ==
  ASSUME TypeOK, InputInv, OutputInv, SwallowInv, [Next]_vars
  PROVE  SwallowInv'
<1> SUFFICES ASSUME ~Failed, ~Failed', NEW o \in Outputs
             PROVE  SwallowOf(o)'
  <2>1. Failed => Failed'
    BY DEF Failed, Failures, Next, Environment, Arrive, ClientLeaves,
           HandleEvent, PollEvent, Receive, SendError, RecvError, Drained,
           Command, AddOut, RemoveOut, ReopenInput, vars, handler
  <2>2. (~Failed' => \A o \in Outputs : SwallowOf(o)') => SwallowInv'
    BY DEF SwallowInv, SwallowOf
  <2> QED BY <2>1, <2>2
<1> USE DEF sockets, handler, history
<1>0. SwallowOf(o) /\ Attached \subseteq Outputs
  BY SwallowByOutput, AttachedType
<1>1. CASE Arrive
  BY <1>0, <1>1, SwallowSame DEF Arrive, Attached
<1>2. ASSUME NEW p \in Outputs, ClientLeaves(p)
      PROVE  SwallowOf(o)'
  <2>1. CASE o = p
    <3>1. pipe[o] # <<>> /\ Open(o) /\ o \notin swallowing
      BY <1>2, <2>1 DEF ClientLeaves, OutputInv
    <3>2. Open(o)' /\ pipe'[o] = <<>> /\ Attached' = Attached
      BY <1>2, <2>1, <3>1 DEF ClientLeaves, TypeOK, Open, Attached
    <3>3. ~Due(o) /\ ~Due(o)' /\ o \in Attached
      BY <3>1, <3>2 DEF Due, Open
    <3> QED BY <1>0, <1>2, <3>2, <3>3 DEF ClientLeaves, SwallowOf
  <2>2. CASE o # p
    BY <1>0, <1>2, <2>2, SwallowSame DEF ClientLeaves, TypeOK, Attached
  <2> QED BY <2>1, <2>2
<1>3. CASE PollEvent
  BY <1>0, <1>3, SwallowSame DEF PollEvent, Attached
<1>4. CASE Receive
  BY <1>4, SwallowReceive
<1>5. CASE SendError
  BY <1>5 DEF SendError, Failed, Failures
<1>6. CASE RecvError
  BY <1>0, <1>6, SwallowSame DEF RecvError, Attached
<1>7. CASE Drained
  BY <1>0, <1>7, SwallowSame DEF Drained, Attached
<1>8. ASSUME NEW p \in Outputs, AddOut(p)
      PROVE  SwallowOf(o)'
  <2>1. Attached' = Attached \union {p} /\ p \notin Attached
    BY <1>8, AppendRange DEF AddOut, Attached, TypeOK
  <2>2. CASE o = p
    <3>1. o \notin swallowing' /\ pipe'[o] = <<>>
      BY <1>0, <1>8, <2>1, <2>2 DEF SwallowOf, AddOut, OutputInv, Open
    <3>2. swallowed'[o] = 0 /\ so'[o].eagain_multipart = 0
      BY <1>8, <2>2 DEF AddOut, TypeOK, NewSockOut
    <3> QED BY <3>1, <3>2 DEF SwallowOf, Due
  <2>3. CASE o # p
    BY <1>0, <1>8, <2>1, <2>3, SwallowSame DEF AddOut, TypeOK
  <2> QED BY <2>2, <2>3
<1>9. ASSUME NEW p \in Outputs, RemoveOut(p)
      PROVE  SwallowOf(o)'
  <2>1. Attached' = Attached \ {p}
    BY <1>9, RemoveAtRange DEF RemoveOut, Attached, OutputInv, TypeOK
  <2>2. CASE o = p
    <3>1. o \notin swallowing' /\ pipe'[o] = <<>> /\ so' = so
          /\ swallowed' = swallowed
      BY <1>9, <2>2 DEF RemoveOut, TypeOK
    <3>2. swallowed[o] <= so[o].eagain_multipart
      BY <1>0, SwallowTypes DEF SwallowOf
    <3> QED BY <3>1, <3>2, SwallowTypes DEF SwallowOf, Due
  <2>3. CASE o # p
    BY <1>0, <1>9, <2>1, <2>3, SwallowSame DEF RemoveOut, TypeOK
  <2> QED BY <2>2, <2>3
<1>10. CASE ReopenInput
  <2>1. rd' = rd
    BY <1>10 DEF ReopenInput, InputInv
  <2> QED BY <1>0, <1>10, <2>1, SwallowSame DEF ReopenInput, Attached
<1>11. CASE UNCHANGED vars
  BY <1>0, <1>11, SwallowSame DEF vars, Attached
<1> QED BY <1>1, <1>2, <1>3, <1>4, <1>5, <1>6, <1>7, <1>8, <1>9, <1>10, <1>11
        DEF Next, Environment, HandleEvent, Command
-----------------------------------------------------------------------------
(* The accounts of the outputs.                                            *)

\* Both sides of the account of one output.
Credit(o) ==
  Len(delivered[o]) + so[o].eagain + so[o].eagain_multipart + lost[o]
    + swallowed[o] + Holds(o)
Debit(o) == Offered(mpmsgc) - Offered(since[o]) + Begun

LEMMA AccountingByOutput ==
  Accounting <=> (~Failed => \A o \in Attached : Credit(o) = Debit(o))
  BY DEF Accounting, Credit, Debit

LEMMA CountTypes ==
  ASSUME TypeOK, NEW o \in Outputs
  PROVE  /\ Len(delivered[o]) \in Nat
         /\ so[o].eagain \in Nat /\ so[o].eagain_multipart \in Nat
         /\ lost[o] \in Nat /\ swallowed[o] \in Nat /\ since[o] \in Nat
         /\ mpmsgc \in Nat /\ rd \in Nat
         /\ Holds(o) \in Nat /\ Begun \in Nat
         /\ Offered(mpmsgc) \in Nat /\ Offered(since[o]) \in Nat
<1>1. /\ delivered[o] \in Seq(Seq(AFrame)) /\ lost[o] \in Nat
      /\ swallowed[o] \in Nat
      /\ since[o] \in Nat /\ mpmsgc \in Nat /\ rd \in Nat /\ so[o] \in SockOut
  BY DEF TypeOK
<1>2. so[o].eagain \in Nat /\ so[o].eagain_multipart \in Nat
  BY <1>1 DEF SockOut
<1> QED BY <1>1, <1>2 DEF Holds, Begun, Offered

\* The balance, free of the state.
LEMMA SumOfSix ==
  ASSUME NEW d \in Nat, NEW e \in Nat, NEW f \in Nat, NEW l \in Nat,
         NEW w \in Nat, NEW h \in Nat
  PROVE  /\ d + e + f + l + w + h \in Nat
         /\ d + e + f + l + w + h = d + (e + f) + l + w + h
  OBVIOUS

LEMMA CreditOf ==
  ASSUME TypeOK, NEW o \in Outputs
  PROVE  /\ Credit(o) \in Nat /\ Debit(o) \in Int
         /\ Credit(o) = Len(delivered[o])
                          + (so[o].eagain + so[o].eagain_multipart)
                          + lost[o] + swallowed[o] + Holds(o)
<1>1. /\ Len(delivered[o]) \in Nat
      /\ so[o].eagain \in Nat /\ so[o].eagain_multipart \in Nat
      /\ lost[o] \in Nat /\ swallowed[o] \in Nat
      /\ Holds(o) \in Nat /\ Begun \in Nat
      /\ Offered(mpmsgc) \in Nat /\ Offered(since[o]) \in Nat
  BY CountTypes
<1>2. Debit(o) \in Int
  BY <1>1 DEF Debit
<1> DEFINE d == Len(delivered[o])
           e == so[o].eagain
           f == so[o].eagain_multipart
           l == lost[o]
           w == swallowed[o]
           h == Holds(o)
<1>3. /\ d \in Nat /\ e \in Nat /\ f \in Nat
      /\ l \in Nat /\ w \in Nat /\ h \in Nat
  BY <1>1
<1>4. Credit(o) = d + e + f + l + w + h
  BY DEF Credit
<1> HIDE DEF d, e, f, l, w, h
<1>5. Credit(o) \in Nat /\ Credit(o) = d + (e + f) + l + w + h
  BY <1>3, <1>4, SumOfSix
<1> QED BY <1>2, <1>5 DEF d, e, f, l, w, h

LEMMA AccountingReceive ==
  ASSUME TypeOK, InputInv, OutputInv, Accounting, Receive, TypeOK',
         NEW o \in Attached
  PROVE  Credit(o)' = Debit(o)'
<1>1. PICK accepted \in SUBSET Targets :
             /\ Targets \intersect swallowing \subseteq accepted
             /\ HandOut(Targets, accepted)
             /\ \A q \in Outputs :
                  so'[q].eagain + so'[q].eagain_multipart
                     = so[q].eagain + so[q].eagain_multipart
                         + IF q \in Targets \ accepted THEN 1 ELSE 0
  BY ReceiveEffect
<1>2. /\ inbox # <<>> /\ TakeFrame /\ ~Failed
      /\ since' = since /\ lost' = lost
      /\ mpmsgc' = IF IsMore THEN mpmsgc ELSE mpmsgc + 1
  BY DEF Receive, Failed, Failures, history
<1>3. /\ IsMore \in BOOLEAN /\ rd \in Nat /\ mpmsgc \in Nat /\ Part = rd + 1
      /\ o \in Outputs /\ Frame(Msg, Part) \in AFrame
      /\ pipe[o] \in Seq(AFrame) /\ delivered[o] \in Seq(Seq(AFrame))
  BY <1>2, FrameType, AttachedType DEF TypeOK, Part
<1>4. rd' = IF IsMore THEN Part ELSE 0
  BY <1>2 DEF TakeFrame
<1> DEFINE refused == o \in Targets \ accepted
           taken == o \in accepted \ swallowing
           all == Append(pipe[o], Frame(Msg, Part))
<1>5. all \in Seq(AFrame) /\ all # <<>>
  BY <1>3, AppendLength
<1>6. pipe'[o] = IF o \in Targets
                 THEN IF IsMore /\ taken THEN all ELSE <<>>
                 ELSE pipe[o]
  BY <1>1, <1>2, <1>3, HandOutEffect
<1>7. Len(delivered'[o]) = Len(delivered[o]) + IF ~IsMore /\ taken THEN 1 ELSE 0
  <2>1. delivered'[o] = IF ~IsMore /\ taken
                        THEN Append(delivered[o], all) ELSE delivered[o]
    BY <1>1, <1>2, <1>3, HandOutEffect
  <2> HIDE DEF all, taken
  <2>2. Len(Append(delivered[o], all)) = Len(delivered[o]) + 1
    BY <1>3, <1>5, AppendLength
  <2>3. Len(delivered[o]) \in Nat
    BY <1>3
  <2>4. CASE ~IsMore /\ taken
    BY <2>1, <2>2, <2>4
  <2>5. CASE ~(~IsMore /\ taken)
    <3>1. delivered'[o] = delivered[o]
      BY <2>1, <2>5
    <3>2. Len(delivered[o]) + 0 = Len(delivered[o])
      BY <2>3
    <3> QED BY <2>5, <3>1, <3>2
  <2> QED BY <2>4, <2>5
<1>8. so'[o].eagain + so'[o].eagain_multipart
        = so[o].eagain + so[o].eagain_multipart + IF refused THEN 1 ELSE 0
  BY <1>1, <1>3
<1>9. /\ o \in Targets <=> mpmsgc > 0 /\ ~so[o].block_current_multipart
      /\ o \in swallowing /\ o \in Targets => o \in accepted
  BY <1>1 DEF Targets
<1>10. pipe[o] # <<>> <=> o \in Targets /\ o \notin swallowing /\ rd > 0
  BY <1>2, <1>3, <1>9, FirstFramesSome DEF OutputInv, Open
<1>11. mpmsgc > 0 /\ rd = 0 => o \in Targets
  BY <1>2, <1>9 DEF OutputInv
<1>12. accepted \subseteq Targets
  BY <1>1
<1>13. Credit(o) = Debit(o)
  BY <1>2, AccountingByOutput
<1> HIDE DEF all
<1>14. Holds(o) = IF o \in Targets /\ o \notin swallowing /\ rd > 0 THEN 1 ELSE 0
  BY <1>10 DEF Holds
<1>15. Holds(o)' = IF o \in Targets /\ IsMore /\ taken THEN 1 ELSE 0
  BY <1>5, <1>6, <1>9, <1>10, <1>11, <1>12 DEF Holds
<1> DEFINE served == mpmsgc > 0 /\ rd = 0
           vanishes == o \in Targets \intersect swallowing /\ rd = 0
<1>19. swallowed'[o] = swallowed[o] + IF vanishes THEN 1 ELSE 0
  <2>1. swallowed[o] \in Nat
    BY <1>3, CountTypes
  <2>2. swallowed'[o] = IF vanishes THEN swallowed[o] + 1 ELSE swallowed[o]
    BY <1>1, <1>2, <1>3, HandOutEffect
  <2> HIDE DEF vanishes
  <2> QED BY <2>1, <2>2
<1>16. Debit(o)' = Debit(o) + IF served THEN 1 ELSE 0
  <2>1. Offered(since'[o]) = Offered(since[o]) /\ Offered(since[o]) \in Nat
    BY <1>2, <1>3, CountTypes
  <2>2. Debit(o)' = Offered(mpmsgc') - Offered(since[o]) + Begun'
    BY <2>1 DEF Debit
  <2>3. Debit(o) = Offered(mpmsgc) - Offered(since[o]) + Begun
    BY DEF Debit
  <2>4. Offered(mpmsgc') + Begun'
          = Offered(mpmsgc) + Begun + IF served THEN 1 ELSE 0
    BY <1>2, <1>3, <1>4 DEF Offered, Begun
  <2>5. Offered(mpmsgc) \in Nat /\ Offered(mpmsgc') \in Nat
        /\ Begun \in Nat /\ Begun' \in Nat
    BY <1>2, <1>3 DEF Offered, Begun
  <2> HIDE DEF served
  <2> QED BY <2>1, <2>2, <2>3, <2>4, <2>5
<1>17. Credit(o)' = Credit(o) + IF served THEN 1 ELSE 0
  <2> DEFINE D == Len(delivered[o])
             E == so[o].eagain + so[o].eagain_multipart
             L == lost[o]
             W == swallowed[o]
             H == Holds(o)
             R == IF refused THEN 1 ELSE 0
             T == IF ~IsMore /\ taken THEN 1 ELSE 0
             V == IF vanishes THEN 1 ELSE 0
  <2>1. D \in Nat /\ L \in Nat /\ W \in Nat /\ H \in Nat
        /\ so[o].eagain \in Nat /\ so[o].eagain_multipart \in Nat
    BY <1>3, CountTypes
  <2>2. Credit(o) = D + E + L + W + H /\ E \in Nat
    BY <1>3, <2>1, CreditOf
  <2>3. Credit(o)' = (D + T) + (E + R) + L + (W + V) + Holds(o)'
    <3>1. /\ Len(delivered'[o]) \in Nat /\ Holds(o)' \in Nat
          /\ so'[o] \in SockOut /\ lost'[o] = lost[o]
          /\ swallowed'[o] \in Nat
      BY <1>2, <1>3 DEF TypeOK, Holds
    <3>2. so'[o].eagain \in Nat /\ so'[o].eagain_multipart \in Nat
      BY <3>1 DEF SockOut
    <3>3. Credit(o)' = Len(delivered'[o]) + so'[o].eagain
                         + so'[o].eagain_multipart + lost[o] + swallowed'[o]
                         + Holds(o)'
      BY <3>1 DEF Credit
    <3>4. Credit(o)' = Len(delivered'[o])
                         + (so'[o].eagain + so'[o].eagain_multipart)
                         + lost[o] + swallowed'[o] + Holds(o)'
      BY <2>1, <3>1, <3>2, <3>3, SumOfSix
    <3> QED BY <1>7, <1>8, <1>19, <3>4
  <2>4. T + R + V + Holds(o)' = H + IF served THEN 1 ELSE 0
    BY <1>3, <1>9, <1>11, <1>12, <1>14, <1>15
  <2> HIDE DEF D, E, L, W, H, R, T, V, served, vanishes
  <2>5. R \in Nat /\ T \in Nat /\ V \in Nat /\ Holds(o)' \in Nat
    BY <1>15 DEF R, T, V
  <2> QED BY <2>1, <2>2, <2>3, <2>4, <2>5
<1>18. Credit(o) \in Nat /\ Debit(o) \in Int
  BY <1>3, CreditOf
<1> QED BY <1>13, <1>16, <1>17, <1>18

LEMMA AccountingUnchanged ==
  ASSUME Accounting, Failed => Failed',
         UNCHANGED <<rd, pipe, delivered, mpmsgc, socks_out, so, history>>
  PROVE  Accounting'
<1>1. Attached' = Attached /\ Begun' = Begun
  BY DEF Attached, Begun
<1>2. \A o : Holds(o)' = Holds(o)
  BY DEF Holds
<1> QED BY <1>1, <1>2 DEF Accounting, history

LEMMA AccountingInit == Init => Accounting
<1>1. Init => Attached = {}
  BY DEF Init, Attached, Range
<1> QED BY <1>1 DEF Accounting

LEMMA AccountingStep ==
  ASSUME TypeOK, InputInv, OutputInv, Accounting, [Next]_vars, TypeOK'
  PROVE  Accounting'
<1> USE DEF sockets, handler, history
<1>0. Attached \subseteq Outputs
  BY AttachedType
<1>1. CASE Arrive
  BY <1>1, AccountingUnchanged DEF Arrive, Failed
<1>2. ASSUME NEW p \in Outputs, ClientLeaves(p)
      PROVE  Accounting'
  <2>1. /\ Failed' = Failed /\ Attached' = Attached /\ Begun' = Begun
        /\ delivered' = delivered /\ so' = so /\ mpmsgc' = mpmsgc
        /\ since' = since /\ swallowed' = swallowed
    BY <1>2 DEF ClientLeaves, Failed, Attached, Begun
  <2> SUFFICES ASSUME ~Failed, NEW o \in Attached
               PROVE  Credit(o)' = Debit(o)'
    BY <2>1 DEF Accounting, Credit, Debit
  <2>2. Credit(o) = Debit(o) /\ o \in Outputs
    BY <1>0, AccountingByOutput
  <2>3. Debit(o)' = Debit(o)
    BY <2>1 DEF Debit
  <2>4. lost'[o] + Holds(o)' = lost[o] + Holds(o) /\ lost'[o] \in Nat
    <3>1. CASE o = p
      BY <1>2, <2>2, <3>1 DEF ClientLeaves, TypeOK, Holds
    <3>2. CASE o # p
      BY <1>2, <2>2, <3>2 DEF ClientLeaves, TypeOK, Holds
    <3> QED BY <3>1, <3>2
  <2>5. Credit(o)' = Credit(o)
    <3> DEFINE n == Len(delivered[o]) + so[o].eagain + so[o].eagain_multipart
    <3>0. /\ Len(delivered[o]) \in Nat /\ so[o].eagain \in Nat
          /\ so[o].eagain_multipart \in Nat /\ lost[o] \in Nat
          /\ swallowed[o] \in Nat /\ Holds(o) \in Nat
      BY <2>2, CountTypes
    <3>1. /\ n \in Nat /\ lost[o] \in Nat /\ swallowed[o] \in Nat
          /\ Holds(o) \in Nat
      BY <3>0
    <3>2. /\ Credit(o) = n + lost[o] + swallowed[o] + Holds(o)
          /\ Holds(o)' \in Nat
      BY DEF Credit, Holds
    <3>3. Credit(o)' = n + lost'[o] + swallowed[o] + Holds(o)'
      BY <2>1 DEF Credit
    <3> HIDE DEF n
    <3> QED BY <2>4, <3>1, <3>2, <3>3
  <2> QED BY <2>2, <2>3, <2>5
<1>3. CASE PollEvent
  BY <1>3, AccountingUnchanged DEF PollEvent, Failed, Failures
<1>4. CASE Receive
  <2>1. Attached' = Attached
    BY <1>4 DEF Receive, Attached
  <2> QED BY <1>4, <2>1, AccountingReceive DEF Accounting, Credit, Debit
<1>5. CASE SendError
  BY <1>5 DEF SendError, Accounting, Failed, Failures
<1>6. CASE RecvError
  BY <1>6 DEF RecvError, Accounting, Failed, Failures
<1>7. CASE Drained
  BY <1>7, AccountingUnchanged DEF Drained, Failed, Failures
<1>8. ASSUME NEW p \in Outputs, AddOut(p)
      PROVE  Accounting'
  <2>1. /\ rd = 0 /\ ~Failed /\ delivered' = delivered /\ pipe' = pipe
        /\ rd' = rd /\ mpmsgc' = mpmsgc /\ p \notin Attached
    BY <1>8 DEF AddOut, InputInv, Failed, Failures
  <2>2. Attached' = Attached \union {p}
    BY <1>8, AppendRange DEF AddOut, Attached, TypeOK
  <2>3. ASSUME NEW o \in Attached
        PROVE  Credit(o)' = Debit(o)'
    <3>1. /\ so'[o] = so[o] /\ since'[o] = since[o]
          /\ lost'[o] = lost[o] /\ swallowed'[o] = swallowed[o]
      BY <1>0, <1>8, <2>1 DEF AddOut, TypeOK
    <3>2. Credit(o)' = Credit(o) /\ Debit(o)' = Debit(o)
      BY <2>1, <3>1 DEF Credit, Debit, Holds, Begun
    <3> QED BY <2>1, <3>2, AccountingByOutput
  <2>4. Credit(p)' = Debit(p)'
    <3>1. /\ so'[p] = NewSockOut /\ since'[p] = mpmsgc
          /\ lost'[p] = 0 /\ swallowed'[p] = 0
      BY <1>8 DEF AddOut, TypeOK
    <3>2. delivered[p] = <<>> /\ pipe[p] = <<>>
      BY <2>1 DEF OutputInv, Open
    <3>3. Holds(p)' = 0 /\ Begun' = 0
      BY <2>1, <3>2 DEF Holds, Begun
    <3>4. Credit(p)' = 0
      BY <2>1, <3>1, <3>2, <3>3 DEF Credit, NewSockOut
    <3>5. Offered(mpmsgc) \in Nat
      BY DEF TypeOK, Offered
    <3>6. Debit(p)' = 0
      BY <2>1, <3>1, <3>3, <3>5 DEF Debit
    <3> QED BY <3>4, <3>6
  <2> QED BY <2>2, <2>3, <2>4 DEF Accounting, Credit, Debit
<1>9. ASSUME NEW p \in Outputs, RemoveOut(p)
      PROVE  Accounting'
  <2>1. Attached' = Attached \ {p}
    BY <1>9, RemoveAtRange DEF RemoveOut, Attached, OutputInv, TypeOK
  <2>2. ~Failed /\ UNCHANGED <<rd, mpmsgc, so, since, lost, swallowed>>
    BY <1>9 DEF RemoveOut, Failed, Failures
  <2>3. ASSUME NEW o \in Attached'
        PROVE  Credit(o)' = Debit(o)'
    <3>1. delivered'[o] = delivered[o] /\ pipe'[o] = pipe[o] /\ o \in Attached
      BY <1>0, <1>9, <2>1 DEF RemoveOut, TypeOK
    <3>2. Credit(o)' = Credit(o) /\ Debit(o)' = Debit(o)
      BY <2>2, <3>1 DEF Credit, Debit, Holds, Begun
    <3> QED BY <2>2, <3>1, <3>2, AccountingByOutput
  <2> QED BY <2>3 DEF Accounting, Credit, Debit
<1>10. CASE ReopenInput
  <2>1. rd' = rd
    BY <1>10 DEF ReopenInput, InputInv
  <2> QED BY <1>10, <2>1, AccountingUnchanged DEF ReopenInput, Failed
<1>11. CASE UNCHANGED vars
  BY <1>11, AccountingUnchanged DEF vars, Failed
<1> QED BY <1>1, <1>2, <1>3, <1>4, <1>5, <1>6, <1>7, <1>8, <1>9, <1>10, <1>11
        DEF Next, Environment, HandleEvent, Command
-----------------------------------------------------------------------------
(* The theorems.                                                           *)

\* In every reachable state the variables have their types, and the invariant
\* of input, outputs and counters holds.
THEOREM Invariance == Spec => [](TypeOK /\ Inv)
<1>1. Init => TypeOK /\ Inv
  BY TypeInit, InputInit, OutputInit, SwallowInit, AccountingInit DEF Inv
<1>2. TypeOK /\ Inv /\ [Next]_vars => (TypeOK /\ Inv)'
  BY TypeStep, InputStep, OutputStep, SwallowStep, AccountingStep DEF Inv
<1> QED BY <1>1, <1>2, PTL DEF Spec

\* The accounts of every output balance: each message replayed since it was
\* added is handed over, refused, lost with its client, swallowed from its
\* first frame on, or under way.
THEOREM AccountsBalance == Spec => []Accounting
<1>1. TypeOK /\ Inv => Accounting
  BY DEF Inv
<1> QED BY <1>1, Invariance, PTL

\* A refusal in mid-message costs the message it refuses and at most one more.
THEOREM SwallowsBounded == Spec => []SwallowedPerRefusal
<1>1. TypeOK /\ Inv => SwallowedPerRefusal
  <2> SUFFICES ASSUME TypeOK, SwallowInv, ~Failed, NEW o \in Attached
               PROVE  swallowed[o] <= so[o].eagain_multipart
    BY DEF Inv, SwallowedPerRefusal
  <2>1. o \in Outputs
    BY AttachedType
  <2> QED BY <2>1, SwallowTypes DEF SwallowInv
<1> QED BY <1>1, Invariance, PTL

\* Commands, which run between two events, never find a half-read message, a
\* half-sent one or a blocked output, and in_multipart shows which output may
\* swallow the next message.
THEOREM SettledBetweenEvents == Spec => []Settled
<1>1. TypeOK /\ Inv => Settled
  <2> SUFFICES ASSUME TypeOK, InputInv, OutputInv, SwallowInv, phase = "poll"
               PROVE  /\ rd = 0 /\ ~more_last
                      /\ \A o \in Outputs : pipe[o] = <<>>
                      /\ \A o \in Attached : ~so[o].block_current_multipart
                      /\ \A o \in swallowing :
                           o \in Attached /\ so[o].in_multipart
    BY DEF Inv, Settled
  <2>1. rd = 0 /\ ~more_last /\ ~Failed
    BY DEF InputInv, Failed, Failures, TypeOK
  <2>2. \A o : ~Open(o)
    BY <2>1 DEF Open
  <2>3. ASSUME NEW o \in swallowing
        PROVE  o \in Attached /\ so[o].in_multipart
    <3>1. o \in Outputs /\ Due(o)
      BY <2>2 DEF Due, TypeOK
    <3> QED BY <2>1, <3>1 DEF SwallowInv
  <2> QED BY <2>1, <2>2, <2>3 DEF OutputInv
<1> QED BY <1>1, Invariance, PTL

\* The limit on the parts stops the handler for long messages only.
THEOREM LimitIsPerMessage == Spec => GivesUpOnlyOnOversized
<1>1. TypeOK /\ Inv /\ [Next]_vars
        => [phase' = "too_many_parts" /\ phase # phase'
              => Msg.parts > MaxPart + 1]_vars
  <2> SUFFICES ASSUME TypeOK, InputInv, [Next]_vars,
                      phase' = "too_many_parts", phase # phase'
               PROVE  Msg.parts > MaxPart + 1
    BY DEF Inv
  <2>1. Receive
    BY DEF Next, Environment, Arrive, ClientLeaves, HandleEvent, PollEvent,
           SendError, RecvError, Drained, Command, AddOut, RemoveOut,
           ReopenInput, vars, handler
  <2>2. NextMpc > MaxPart /\ phase = "recv" /\ inbox # <<>>
    BY <2>1 DEF Receive
  <2>3. rd \in Nat /\ mpc \in Nat /\ Msg.parts \in Nat
    BY <2>2, FrameType DEF TypeOK
  <2>4. NextMpc = rd
    BY <2>2, <2>3 DEF NextMpc, InputInv, TypeOK, Failed, Failures
  <2>5. rd > 0 => rd < Msg.parts
    BY DEF InputInv
  <2> QED BY <2>2, <2>3, <2>4, <2>5, MaxPartAssumption
<1> QED BY <1>1, Invariance, PTL DEF Spec, GivesUpOnlyOnOversized
-----------------------------------------------------------------------------
(* The handler implements Fanout.                                          *)

last == arrived - Len(inbox)

LEMMA RefineInit == Init => F!Init
<1>1. Init => Attached = {}
  BY DEF Init, Attached, Range
<1>2. Init => last = 0
  <2>1. Len(<<>>) = 0
    OBVIOUS
  <2>2. Init => arrived = 0 /\ inbox = <<>>
    BY DEF Init
  <2>3. 0 - 0 = 0
    OBVIOUS
  <2> QED BY <2>1, <2>2, <2>3, Zenon DEF last
<1> QED BY <1>1, <1>2 DEF Init, F!Init, last

\* Handing out the last frame is Replay; handing out another one is nothing.
LEMMA RefineHandOut ==
  ASSUME TypeOK, Inv, ~Failed, inbox # <<>>, TakeFrame,
         NEW offered \in SUBSET Targets, NEW accepted \in SUBSET offered,
         HandOut(offered, accepted), arrived' = arrived, socks_out' = socks_out
  PROVE  F!Replay \/ UNCHANGED F!vars
<1>1. Attached' = Attached /\ Attached \subseteq Outputs
  BY AttachedType DEF Attached
<1>2. /\ IsMore \in BOOLEAN /\ delivered \in [Outputs -> Seq(Seq(AFrame))]
      /\ Len(inbox) \in Nat /\ arrived \in Nat /\ Len(inbox) <= arrived
      /\ Len(Tail(inbox)) = Len(inbox) - 1 /\ Len(inbox) > 0
      /\ inbox \in Seq(Message(Parts))
  BY FrameType DEF TypeOK, Inv, InputInv
<1>3. CASE IsMore
  <2>1. inbox' = inbox
    BY <1>3 DEF TakeFrame
  <2>2. delivered' = delivered
    BY <1>2, <1>3 DEF HandOut
  <2> QED BY <1>1, <2>1, <2>2 DEF F!vars
<1>4. CASE ~IsMore
  <2> DEFINE S == accepted \ swallowing
             m == [id |-> last', parts |-> Msg.parts]
  <2>1. /\ last' = last + 1 /\ last \in Nat
    BY <1>2, <1>4 DEF TakeFrame, last
  <2>2. Msg = m /\ Msg.parts \in Parts
    <3>1. Msg.id = last + 1
      <4>1. Msg = inbox[1] /\ 1 \in 1..Len(inbox)
        BY <1>2 DEF Msg
      <4> QED BY <4>1 DEF Inv, InputInv, last
    <3>2. Msg \in Message(Parts)
      BY FrameType
    <3> QED BY <2>1, <3>1, <3>2 DEF Message
  <2>3. Part = Msg.parts
    <3>1. /\ Msg.parts \in Nat \ {0} /\ rd \in Nat /\ rd < Msg.parts
          /\ ~(rd + 1 < Msg.parts)
      BY <1>4, <2>2, PartsAssumption
         DEF IsMore, More, Part, Inv, InputInv, TypeOK
    <3> QED BY <3>1 DEF Part
  <2>4. \A o \in S : Append(pipe[o], Frame(Msg, Part)) = Frames(Msg)
    BY <2>3, TakenFrames DEF Inv, Frames
  <2>5. F!Frames(m) = Frames(Msg)
    BY <2>2 DEF F!Frames, F!FirstFrames, F!Frame, Frames, FirstFrames, Frame
  <2>6. delivered' = [o \in Outputs |->
                        IF o \in S THEN Append(delivered[o], F!Frames(m))
                        ELSE delivered[o]]
    BY <1>4, <2>4, <2>5 DEF HandOut
  <2>7. S \in SUBSET Attached
    BY DEF Targets
  <2>8. last' \in Nat /\ last' > last
    BY <2>1
  <2> HIDE DEF S
  <2> QED BY <1>1, <2>2, <2>6, <2>7, <2>8 DEF F!Replay, last
<1> QED BY <1>2, <1>3, <1>4

LEMMA RefineStep == TypeOK /\ Inv /\ [Next]_vars => [F!Next]_(F!vars)
<1> SUFFICES ASSUME TypeOK, Inv, [Next]_vars
             PROVE  F!Next \/ UNCHANGED F!vars
  OBVIOUS
<1> USE DEF sockets, handler, history
<1>0. /\ Attached \subseteq Outputs /\ arrived \in Nat
      /\ inbox \in Seq(Message(Parts))
  BY AttachedType DEF TypeOK
<1>1. CASE Arrive
  <2>1. PICK n \in Parts : inbox' = Append(inbox, [id |-> arrived + 1, parts |-> n])
    BY <1>1 DEF Arrive
  <2>2. [id |-> arrived + 1, parts |-> n] \in Message(Parts)
    BY <1>0 DEF Message
  <2>3. Len(inbox') = Len(inbox) + 1 /\ arrived' = arrived + 1
    BY <1>0, <1>1, <2>1, <2>2, AppendLength DEF Arrive
  <2>4. arrived' - Len(inbox') = arrived - Len(inbox)
    BY <1>0, <2>3
  <2> QED BY <1>1, <2>4 DEF Arrive, F!vars, Attached
<1>2. ASSUME NEW p \in Outputs, ClientLeaves(p)
      PROVE  UNCHANGED F!vars
  BY <1>2 DEF ClientLeaves, F!vars, Attached
<1>3. CASE PollEvent
  BY <1>3 DEF PollEvent, F!vars, Attached
<1>4. CASE Receive
  <2>1. PICK accepted \in SUBSET Targets : HandOut(Targets, accepted)
    BY <1>4 DEF Receive
  <2>2. /\ ~Failed /\ inbox # <<>> /\ TakeFrame
        /\ arrived' = arrived /\ socks_out' = socks_out
    BY <1>4 DEF Receive, Failed, Failures
  <2> QED BY <2>1, <2>2, RefineHandOut DEF F!Next
<1>5. CASE SendError
  <2>1. PICK i \in DOMAIN socks_out :
          LET before == {socks_out[j] : j \in 1..(i - 1)} \intersect Targets
          IN \E accepted \in SUBSET before : HandOut(before, accepted)
    BY <1>5 DEF SendError
  <2> DEFINE before == {socks_out[j] : j \in 1..(i - 1)} \intersect Targets
  <2>2. PICK accepted \in SUBSET before : HandOut(before, accepted)
    BY <2>1
  <2>3. /\ ~Failed /\ inbox # <<>> /\ TakeFrame
        /\ arrived' = arrived /\ socks_out' = socks_out
    BY <1>5 DEF SendError, Failed, Failures
  <2>4. before \in SUBSET Targets
    OBVIOUS
  <2> HIDE DEF before
  <2> QED BY <2>2, <2>3, <2>4, RefineHandOut DEF F!Next
<1>6. CASE RecvError
  BY <1>6 DEF RecvError, F!vars, Attached
<1>7. CASE Drained
  BY <1>7 DEF Drained, F!vars, Attached
<1>8. ASSUME NEW p \in Outputs, AddOut(p)
      PROVE  F!Attach(p)
  <2>1. Attached' = Attached \union {p}
    BY <1>8, AppendRange DEF AddOut, Attached, TypeOK
  <2> QED BY <1>8, <2>1 DEF AddOut, F!Attach
<1>9. ASSUME NEW p \in Outputs, RemoveOut(p)
      PROVE  F!Detach(p)
  <2>1. PICK i \in DOMAIN socks_out :
               socks_out[i] = p /\ socks_out' = RemoveAt(socks_out, i)
    BY <1>9 DEF RemoveOut
  <2>2. Attached' = Attached \ {p}
    BY <2>1, RemoveAtRange DEF Attached, Inv, OutputInv, TypeOK
  <2>3. p \in Attached
    BY <2>1 DEF Attached, Range
  <2> QED BY <1>9, <2>2, <2>3 DEF RemoveOut, F!Detach
<1>10. CASE ReopenInput
  <2>1. /\ inbox' = <<>> /\ arrived' = arrived /\ delivered' = delivered
        /\ Attached' = Attached
    BY <1>10 DEF ReopenInput, Attached
  <2>2. Len(inbox) \in Nat /\ Len(inbox') = 0 /\ Len(inbox) <= arrived
    BY <1>0, <2>1 DEF Inv, InputInv
  <2>3. CASE Len(inbox) = 0
    <3>1. arrived' - Len(inbox') = arrived - Len(inbox)
      BY <2>1, <2>2, <2>3
    <3> QED BY <2>1, <3>1 DEF F!vars
  <2>4. CASE Len(inbox) > 0
    <3>1. /\ arrived' - Len(inbox') \in Nat
          /\ arrived' - Len(inbox') > arrived - Len(inbox)
      BY <1>0, <2>1, <2>2, <2>4
    <3>2. F!Lose
      BY <2>1, <3>1 DEF F!Lose
    <3> QED BY <3>2 DEF F!Next
  <2> QED BY <2>2, <2>3, <2>4
<1>11. CASE UNCHANGED vars
  BY <1>11 DEF vars, F!vars, Attached
<1> QED BY <1>1, <1>2, <1>3, <1>4, <1>5, <1>6, <1>7, <1>8, <1>9, <1>10, <1>11
        DEF Next, Environment, HandleEvent, Command, F!Next

\* Whatever outputs refuse, clients do and commands change, every output
\* carries whole messages only, in the order sent, each at most once.
THEOREM ImplementsFanout == Spec => WholeMessagesInOrder
<1>1. Init => F!Init
  BY RefineInit
<1>2. TypeOK /\ Inv /\ [Next]_vars => [F!Next]_(F!vars)
  BY RefineStep
<1> QED BY <1>1, <1>2, Invariance, PTL
        DEF Spec, F!Spec, WholeMessagesInOrder
=============================================================================
