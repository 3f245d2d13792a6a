-------------------------- MODULE StartupCmdProofs --------------------------
(***************************************************************************)
(* The handler of the startup file sends the commands of the file, for     *)
(* every file, however it is read, and every size of the buffer.           *)
(***************************************************************************)
EXTENDS LineLemmas

\* The buffer holds the file from the start of a line to what was read last,
\* and what was sent and the commands from there on are those of the file.
From == pos - Len(buf)

BufferInv ==
  /\ From \in {0} \union Ends(file)
  /\ buf = SubSeq(file, From + 1, pos)
  /\ sent \o CommandsOf(After(file, From)) = CommandsOf(file)

\* There is room whenever the file is read, and no line ends in the buffer:
\* so it is still when the end of the file was found.
RoomInv ==
  /\ fdEvents = "in" => state = "READING" /\ Len(buf) < BufCap
  /\ state = "READING" => Ends(buf) = {}
  /\ state \in {"SENDING", "RECEIVING"} /\ sockEvents # "gone" => fdEvents = "none"
  /\ fd = "closed" => fdEvents = "gone" /\ state \in {"READING", "failed"}

\* A reply is waited for in the state RECEIVING only, and to a command.
ReplyInv ==
  /\ state # "RECEIVING" => request = "none"
  /\ request # "none" => sent # <<>> /\ sent[Len(sent)] # <<>>

Inv == BufferInv /\ RoomInv /\ ReplyInv /\ EndIsTheEnd /\ DoneIsSent

-----------------------------------------------------------------------------
(* The buffer and the file.                                                *)

Rest == After(file, From)

LEMMA BufferIsPart ==
  ASSUME TypeOK, BufferInv
  PROVE  /\ Len(file) \in Nat /\ Len(buf) \in Nat /\ pos \in 0..Len(file)
         /\ From \in 0..Len(file) /\ pos = From + Len(buf)
         /\ Rest \in Seq(Byte) /\ Len(Rest) = Len(file) - From
         /\ Len(buf) \in 0..Len(Rest) /\ buf = SubSeq(Rest, 1, Len(buf))
         /\ buf \o Unread = Rest
<1>1. /\ file \in Seq(Byte) /\ buf \in Seq(Byte) /\ pos \in 0..Len(file)
      /\ From \in {0} \union Ends(file) /\ buf = SubSeq(file, From + 1, pos)
  BY DEF TypeOK, BufferInv
<1>2. Len(file) \in Nat /\ Len(buf) \in Nat /\ From \in 0..Len(file)
  BY <1>1, LinesAfter, LenProperties
<1>3. pos = From + Len(buf) /\ From \in Int /\ Len(buf) \in Int /\ 0 <= From
  BY <1>1, <1>2 DEF From
<1>4. Rest \in Seq(Byte) /\ Len(Rest) = Len(file) - From
  BY <1>1, <1>2, AfterProperties DEF Rest
<1>5. Len(buf) \in 0..Len(Rest)
  BY <1>1, <1>2, <1>3, <1>4
<1>6. buf = SubSeq(Rest, 1, Len(buf))
  <2>1. /\ Len(file) \in From..Len(file) /\ 0 \in 0..Len(file) - From
        /\ Len(buf) \in Int /\ Len(buf) <= Len(file) - From
        /\ 0 + 1 = 1 /\ From + 0 + 1 = From + 1
    BY <1>1, <1>2, <1>3
  <2>2. SubSeq(SubSeq(file, From + 1, Len(file)), 0 + 1, Len(buf))
          = SubSeq(file, From + 0 + 1, From + Len(buf))
    BY <1>1, <1>2, <2>1, CutOfCut
  <2> QED BY <1>1, <1>3, <2>1, <2>2 DEF Rest, After
<1>7. buf \o Unread = Rest
  <2>1. From + 1 \in 1..Len(file) + 1 /\ pos \in (From + 1) - 1..Len(file) /\ Len(file) \in pos..Len(file)
    BY <1>1, <1>2, <1>3
  <2>2. SubSeq(file, From + 1, pos) \o SubSeq(file, pos + 1, Len(file)) = SubSeq(file, From + 1, Len(file))
    BY <1>1, <2>1, ConcatAdjacentSubSeq
  <2> QED BY <1>1, <2>2 DEF Unread, After, Rest
<1> QED BY <1>1, <1>2, <1>3, <1>4, <1>5, <1>6, <1>7

\* What is dropped at the front of the buffer ends with a line.
LEMMA FrontDropped ==
  ASSUME TypeOK, BufferInv, NEW i \in {0} \union Ends(buf),
         buf' = After(buf, i), UNCHANGED <<file, pos>>
  PROVE  /\ i \in 0..Len(buf) /\ i \in {0} \union Ends(Rest)
         /\ buf' \in Seq(Byte) /\ Len(buf') = Len(buf) - i
         /\ From' \in {0} \union Ends(file) /\ buf' = SubSeq(file, From' + 1, pos)
         /\ Rest' = After(Rest, i)
         /\ \A j \in Ends(buf') : i + j \in Ends(buf)
<1>1. /\ file \in Seq(Byte) /\ buf \in Seq(Byte)
      /\ From \in {0} \union Ends(file) /\ buf = SubSeq(file, From + 1, pos)
  BY DEF TypeOK, BufferInv
<1>2. /\ Len(file) \in Nat /\ Len(buf) \in Nat /\ pos \in 0..Len(file)
      /\ From \in 0..Len(file) /\ pos = From + Len(buf)
      /\ Rest \in Seq(Byte) /\ Len(Rest) = Len(file) - From
      /\ Len(buf) \in 0..Len(Rest) /\ buf = SubSeq(Rest, 1, Len(buf))
  BY BufferIsPart
<1>3. i \in 0..Len(buf) /\ \A j \in Ends(buf') : i + j \in Ends(buf)
  BY <1>1, LinesAfter
<1>4. buf' \in Seq(Byte) /\ Len(buf') = Len(buf) - i
  BY <1>1, <1>3, AfterProperties
<1>5. i \in {0} \union Ends(Rest)
  BY <1>2, LinesOfPrefix
<1>6. From' = From + i /\ i \in Int /\ From \in Int /\ i <= Len(buf) /\ 0 <= From
  BY <1>2, <1>3, <1>4 DEF From
<1>7. From' \in {0} \union Ends(file)
  <2>1. CASE i = 0
    BY <1>1, <1>6, <2>1
  <2>2. CASE i \in Ends(Rest)
    BY <1>1, <1>6, <2>2, LinesAfter DEF Rest
  <2> QED BY <1>5, <2>1, <2>2
<1>8. buf' = SubSeq(file, From' + 1, pos)
  <2>1. pos \in From..Len(file) /\ i \in 0..pos - From /\ Len(buf) \in Int /\ Len(buf) <= pos - From
    BY <1>2, <1>3
  <2>2. SubSeq(SubSeq(file, From + 1, pos), i + 1, Len(buf)) = SubSeq(file, From + i + 1, From + Len(buf))
    BY <1>1, <1>2, <2>1, CutOfCut
  <2> QED BY <1>1, <1>2, <1>6, <2>2 DEF After
<1>9. Rest' = After(Rest, i)
  <2>1. i \in 0..Len(file) - From
    BY <1>2, <1>3, <1>6
  <2>2. After(After(file, From), i) = After(file, From + i)
    BY <1>1, <1>2, <2>1, AfterAfter
  <2> QED BY <1>6, <2>2 DEF Rest
<1> QED BY <1>3, <1>4, <1>5, <1>7, <1>8, <1>9

\* A handler whose buffer and file hold no command any more has sent them all.
LEMMA AllAreSent ==
  ASSUME TypeOK, BufferInv, CommandsOf(Rest) = <<>>
  PROVE  sent = CommandsOf(file)
BY ConcatEmptySeq DEF TypeOK, BufferInv, Rest

\* When no line ends in a full buffer, no command follows or a line is too long.
LEMMA FullBuffer ==
  TypeOK /\ BufferInv /\ Ends(buf) = {} /\ Len(buf) = BufCap /\ LinesFit
    => sent = CommandsOf(file)
<1> SUFFICES ASSUME TypeOK, BufferInv, Ends(buf) = {}, Len(buf) = BufCap, LinesFit
             PROVE  CommandsOf(Rest) = <<>>
  BY AllAreSent
<1>1. /\ file \in Seq(Byte) /\ From \in {0} \union Ends(file)
      /\ Rest \in Seq(Byte) /\ Len(buf) \in 0..Len(Rest) /\ buf = SubSeq(Rest, 1, Len(buf))
  BY BufferIsPart DEF TypeOK, BufferInv
<1>2. Len(Rest) \in Nat /\ Ends(Rest) \in SUBSET (1..Len(Rest)) /\ CommandEnds(Rest) \subseteq Ends(Rest)
  BY <1>1, EndsProperties
<1>3. CASE Ends(Rest) = {}
  BY <1>1, <1>2, <1>3, CommandsProperties
<1>4. CASE Ends(Rest) # {}
  <2> DEFINE e == Min(Ends(Rest))
  <2>1. e \in Ends(Rest) /\ \A k \in Ends(Rest) : e <= k
    BY <1>2, <1>4, LeastExists
  <2> HIDE DEF e
  <2>2. e \in 1..Len(Rest) /\ e \in Nat
    BY <1>2, <2>1
  <2>3. ~(e \in 1..Len(buf))
    BY <1>1, <2>1, LinesOfPrefix
  <2>4. e > BufCap
    BY <1>1, <2>2, <2>3, BufCapAssumption
  <2>5. Before(Rest, e) = 0
    <3>1. 0 \in 0..e - 1 /\ \A l \in Ends(Rest) : l < e => l <= 0
      BY <1>2, <2>1, <2>2
    <3> QED BY <1>1, <2>2, <3>1, BeforeProperties
  <2>6. Len(LineAt(Rest, e)) = e - 1
    BY <1>1, <2>2, <2>5, LineProperties
  <2>7. From + e \in Ends(file) /\ LineAt(Rest, e) = LineAt(file, From + e)
    BY <1>1, <2>1, LinesAfter DEF Rest
  <2>8. Len(LineAt(file, From + e)) < BufCap
    BY <2>7 DEF LinesFit
  <2> QED BY <2>2, <2>4, <2>6, <2>7, <2>8, BufCapAssumption
<1> QED BY <1>3, <1>4

-----------------------------------------------------------------------------
(* The invariant.                                                          *)

LEMMA InitInv == Init => TypeOK /\ Inv
<1> SUFFICES ASSUME Init PROVE TypeOK /\ Inv
  OBVIOUS
<1>1. PICK m \in 0..MaxFile : file \in [1..m -> Byte]
  BY DEF Init, BoundedSeq, SeqOf
<1>2. m \in Nat /\ m <= MaxFile
  BY MaxFileAssumption
<1>3. file \in Seq(Byte) /\ Len(file) = m
  BY <1>1, <1>2, SeqDef, LenProperties
<1>4. buf = <<>> /\ buf \in Seq(Byte) /\ Len(buf) = 0 /\ sent \in Seq(Seq(Byte)) /\ sent = <<>>
  BY EmptySeq DEF Init
<1>5. TypeOK
  BY <1>2, <1>3, <1>4, BufCapAssumption DEF Init, TypeOK
<1>6. From = 0 /\ pos = 0
  <2>1. pos = 0 /\ From = pos - Len(buf)
    BY DEF Init, From
  <2> QED BY <1>4, <2>1
<1>7. buf = SubSeq(file, From + 1, pos)
  BY <1>4, <1>6, SubSeqEmpty
<1>8. After(file, From) = file
  <2>1. SubSeq(file, 1, Len(file)) = file /\ 0 + 1 = 1
    BY <1>3, SubSeqFull
  <2> QED BY <1>6, <2>1 DEF After
<1>9. sent \o CommandsOf(file) = CommandsOf(file)
  BY <1>3, <1>4, CommandsProperties, ConcatEmptySeq
<1>10. BufferInv
  BY <1>6, <1>7, <1>8, <1>9 DEF BufferInv
<1>11. Ends(buf) = {}
  <2>1. \A k \in Ends(buf) : k \in 1..0
    BY <1>4, EndsProperties
  <2> QED BY <2>1
<1> QED BY <1>4, <1>5, <1>10, <1>11, BufCapAssumption DEF Init, Inv, RoomInv, ReplyInv, EndIsTheEnd, DoneIsSent

\* A read leaves the start of the buffer where it was.
LEMMA ReadKeeps ==
  ASSUME TypeOK, Inv, Read
  PROVE  TypeOK' /\ Inv' /\ From' = From
<1>0. /\ Len(buf) \in Nat /\ Len(file) \in Nat /\ BufCap \in Nat /\ pos \in 0..Len(file)
      /\ From \in 0..Len(file) /\ pos = From + Len(buf)
      /\ file \in Seq(Byte) /\ buf \in Seq(Byte) /\ buf = SubSeq(file, From + 1, pos)
  BY BufferIsPart, BufCapAssumption DEF TypeOK, Inv, BufferInv
<1> DEFINE S == {BufCap - Len(buf), Len(file) - pos}
<1>1. PICK n \in 1..Min(S) : buf' = buf \o SubSeq(file, pos + 1, pos + n) /\ pos' = pos + n
  BY DEF Read
<1>2. Min(S) \in Int /\ Min(S) <= BufCap - Len(buf) /\ Min(S) <= Len(file) - pos
  <2>1. BufCap - Len(buf) \in Int /\ Len(file) - pos \in Int
    BY <1>0
  <2> QED BY <2>1, LeastOfTwo
<1> HIDE DEF S
<1>3. n \in Nat /\ n <= BufCap - Len(buf) /\ n <= Len(file) - pos
  <2> DEFINE k == Min(S)
  <2>1. n \in 1..k /\ k \in Int /\ k <= BufCap - Len(buf) /\ k <= Len(file) - pos
    BY <1>2
  <2> HIDE DEF k
  <2> QED BY <1>0, <2>1
<1>4. /\ pos + n \in Int /\ pos + n <= Len(file) /\ (pos + n) - pos = n /\ pos <= pos + n
      /\ pos \in Int /\ From \in Int
  BY <1>0, <1>3
<1>5. SubSeq(file, pos + 1, pos + n) \in Seq(Byte) /\ Len(SubSeq(file, pos + 1, pos + n)) = n
  BY <1>0, <1>4, CutProperties
<1>6. buf' \in Seq(Byte) /\ Len(buf') = Len(buf) + n
  BY <1>0, <1>1, <1>5, ConcatProperties
<1>7. /\ state = "READING" /\ state' = "SENDING" /\ fdEvents = "in"
      /\ fdEvents' = "none" /\ sockEvents' = "out" /\ UNCHANGED <<file, fd, request, sent>>
  BY DEF Read
<1>8. TypeOK'
  BY <1>0, <1>1, <1>3, <1>4, <1>6, <1>7 DEF TypeOK
<1>9. From' = From
  BY <1>0, <1>1, <1>3, <1>6 DEF From
<1>10. buf' = SubSeq(file, From + 1, pos')
  <2>1. From + 1 \in 1..Len(file) + 1 /\ pos \in (From + 1) - 1..Len(file) /\ pos + n \in pos..Len(file)
    BY <1>0, <1>3, <1>4
  <2>2. SubSeq(file, From + 1, pos) \o SubSeq(file, pos + 1, pos + n) = SubSeq(file, From + 1, pos + n)
    BY <1>0, <2>1, ConcatAdjacentSubSeq
  <2> QED BY <1>0, <1>1, <2>2
<1>11. BufferInv'
  BY <1>7, <1>9, <1>10 DEF Inv, BufferInv
<1>12. RoomInv' /\ ReplyInv' /\ EndIsTheEnd' /\ DoneIsSent'
  BY <1>7 DEF Inv, RoomInv, ReplyInv, EndIsTheEnd, DoneIsSent
<1> QED BY <1>8, <1>9, <1>11, <1>12 DEF Inv

LEMMA ReadEndKeeps ==
  ASSUME TypeOK, Inv, ReadEnd
  PROVE  TypeOK' /\ Inv'
<1>1. /\ state = "READING" /\ fdEvents = "in" /\ fdEvents' = "gone" /\ fd' = "closed"
      /\ pos = Len(file) \/ Len(buf) = BufCap
      /\ UNCHANGED <<file, pos, buf, state, sockEvents, request, sent>>
  BY DEF ReadEnd
<1>2. /\ Len(buf) \in Nat /\ BufCap \in Nat /\ Len(file) \in Nat
      /\ From \in 0..Len(file) /\ pos = From + Len(buf)
      /\ Rest \in Seq(Byte) /\ Len(Rest) = Len(file) - From
      /\ buf = SubSeq(Rest, 1, Len(buf))
  BY BufferIsPart, BufCapAssumption DEF Inv
<1>3. pos = Len(file)
  <2>1. Len(buf) < BufCap
    BY <1>1 DEF Inv, RoomInv
  <2>2. Len(buf) \in Nat /\ BufCap \in Nat
    BY <1>2
  <2>3. Len(buf) # BufCap
    BY <2>1, <2>2
  <2> QED BY <1>1, <2>3
<1>4. CommandsOf(Rest) = <<>>
  <2>1. Len(buf) = Len(Rest)
    BY <1>2, <1>3
  <2>2. Ends(Rest) = {}
    BY <1>1, <1>2, <2>1, SubSeqFull DEF Inv, RoomInv
  <2> QED BY <1>2, <2>2, CommandsProperties DEF CommandEnds
<1>5. sent = CommandsOf(file)
  BY <1>4, AllAreSent DEF Inv
<1>6. TypeOK'
  BY <1>1 DEF TypeOK
<1>7. BufferInv'
  BY <1>1 DEF Inv, BufferInv, From
<1>8. RoomInv' /\ ReplyInv' /\ EndIsTheEnd' /\ DoneIsSent'
  BY <1>1, <1>3, <1>5 DEF Inv, RoomInv, ReplyInv, EndIsTheEnd, DoneIsSent
<1> QED BY <1>6, <1>7, <1>8 DEF Inv

\* A command that is sent is the first of what is to be sent, and not empty.
LEMMA SendTakesFirst ==
  ASSUME TypeOK, Inv, Send
  PROVE  \E line \in Seq(Byte) :
           /\ line # <<>> /\ sent' = Append(sent, line)
           /\ CommandsOf(Rest) = <<line>> \o CommandsOf(Rest')
           /\ CommandsOf(Rest') \in Seq(Seq(Byte))
           /\ buf' \in Seq(Byte) /\ Len(buf') \in Nat /\ Len(buf') < Len(buf)
           /\ From' \in {0} \union Ends(file) /\ buf' = SubSeq(file, From' + 1, pos)
<1> DEFINE i == Min(CommandEnds(buf))
<1>1. /\ state = "SENDING" /\ CommandEnds(buf) # {}
      /\ sent' = Append(sent, LineAt(buf, i)) /\ buf' = After(buf, i)
      /\ request' = "asked" /\ state' = "RECEIVING" /\ sockEvents' = "in"
      /\ UNCHANGED <<file, pos, fd, fdEvents>>
  BY DEF Send
<1>2. buf \in Seq(Byte) /\ Len(buf) \in Nat /\ CommandEnds(buf) \in SUBSET (1..Len(buf))
      /\ CommandEnds(buf) \subseteq Ends(buf)
  BY EndsProperties DEF TypeOK
<1>3. i \in CommandEnds(buf) /\ \A k \in CommandEnds(buf) : i <= k
  BY <1>1, <1>2, LeastExists
<1> HIDE DEF i
<1>4. i \in 1..Len(buf) /\ i \in Ends(buf)
  BY <1>2, <1>3
<1>5. /\ i \in {0} \union Ends(Rest)
      /\ buf' \in Seq(Byte) /\ Len(buf') = Len(buf) - i
      /\ From' \in {0} \union Ends(file) /\ buf' = SubSeq(file, From' + 1, pos)
      /\ Rest' = After(Rest, i)
  BY <1>1, <1>4, FrontDropped DEF Inv
<1>6. Rest \in Seq(Byte) /\ Len(buf) \in 0..Len(Rest) /\ buf = SubSeq(Rest, 1, Len(buf))
  BY BufferIsPart DEF Inv
<1>7. /\ i \in CommandEnds(Rest) /\ LineAt(buf, i) = LineAt(Rest, i)
      /\ \A k \in CommandEnds(Rest) : k >= i
  <2>1. \A k : k \in CommandEnds(buf) <=> k \in 1..Len(buf) /\ k \in CommandEnds(Rest)
    BY <1>6, LinesOfPrefix
  <2>2. LineAt(buf, i) = LineAt(Rest, i)
    BY <1>4, <1>6, LinesOfPrefix
  <2>3. CommandEnds(Rest) \in SUBSET (1..Len(Rest)) /\ Len(Rest) \in Nat
    BY <1>6, EndsProperties
  <2>4. ASSUME NEW k \in CommandEnds(Rest)
        PROVE  k >= i
    <3>1. k \in Nat /\ k >= 1
      BY <2>3
    <3>2. CASE k \in 1..Len(buf)
      BY <1>2, <1>3, <1>4, <2>1, <3>1, <3>2
    <3>3. CASE ~(k \in 1..Len(buf))
      BY <1>2, <1>4, <3>1, <3>3
    <3> QED BY <3>2, <3>3
  <2> QED BY <1>3, <2>1, <2>2, <2>4
<1>8. LineAt(buf, i) \in Seq(Byte) /\ LineAt(buf, i) # <<>>
  BY <1>2, <1>3, <1>4, LineProperties DEF CommandEnds, IsCommand
<1>9. CommandsOf(Rest) = <<LineAt(buf, i)>> \o CommandsOf(Rest')
  BY <1>5, <1>6, <1>7, FirstCommandBefore
<1>10. Rest' \in Seq(Byte)
  BY <1>5, <1>6, LinesAfter, AfterProperties
<1>11. CommandsOf(Rest') \in Seq(Seq(Byte))
  BY <1>10, CommandsProperties
<1>12. Len(buf') \in Nat /\ Len(buf') < Len(buf)
  BY <1>2, <1>4, <1>5
<1> QED BY <1>1, <1>5, <1>8, <1>9, <1>11, <1>12

\* What goes from the front of one sequence to the end of another does not move.
LEMMA AppendThenConcat ==
  ASSUME NEW S, NEW s \in Seq(S), NEW x \in S, NEW q \in Seq(S)
  PROVE  s \o (<<x>> \o q) = Append(s, x) \o q
<1> DEFINE u == <<x>>
<1>1. u \in Seq(S)
  OBVIOUS
<1>2. Append(s, x) = s \o u
  BY AppendIsConcat
<1> HIDE DEF u
<1>3. (s \o u) \o q = s \o (u \o q)
  BY <1>1, ConcatAssociative
<1> QED BY <1>2, <1>3 DEF u

LEMMA SendKeeps ==
  ASSUME TypeOK, Inv, Send
  PROVE  TypeOK' /\ Inv'
<1>1. /\ state = "SENDING" /\ sockEvents = "out"
      /\ request' = "asked" /\ state' = "RECEIVING" /\ sockEvents' = "in"
      /\ UNCHANGED <<file, pos, fd, fdEvents>>
  BY DEF Send
<1>2. PICK line \in Seq(Byte) :
        /\ line # <<>> /\ sent' = Append(sent, line)
        /\ CommandsOf(Rest) = <<line>> \o CommandsOf(Rest')
        /\ CommandsOf(Rest') \in Seq(Seq(Byte))
        /\ buf' \in Seq(Byte) /\ Len(buf') \in Nat /\ Len(buf') < Len(buf)
        /\ From' \in {0} \union Ends(file) /\ buf' = SubSeq(file, From' + 1, pos)
  BY SendTakesFirst
<1>3. /\ sent \in Seq(Seq(Byte)) /\ sent' \in Seq(Seq(Byte)) /\ sent' = sent \o <<line>>
      /\ <<line>> \in Seq(Seq(Byte))
      /\ sent' # <<>> /\ sent'[Len(sent')] = line
  <2>1. sent \in Seq(Seq(Byte)) /\ Len(sent) \in Nat
    BY LenProperties DEF TypeOK
  <2>2. /\ sent' \in Seq(Seq(Byte)) /\ sent' = sent \o <<line>>
        /\ Len(sent') = Len(sent) + 1 /\ sent'[Len(sent) + 1] = line
    BY <1>2, <2>1, AppendProperties, AppendIsConcat
  <2>3. Len(sent') # 0
    BY <2>1, <2>2
  <2> QED BY <2>1, <2>2, <2>3, EmptySeq
<1>4. sent' \o CommandsOf(Rest') = CommandsOf(file)
  <2> DEFINE v == CommandsOf(Rest')
             S == Seq(Byte)
  <2>1. sent \o CommandsOf(Rest) = CommandsOf(file)
    BY DEF Inv, BufferInv, Rest
  <2>2. CommandsOf(Rest) = <<line>> \o v /\ sent' = Append(sent, line)
    BY <1>2
  <2>3. line \in S /\ v \in Seq(S) /\ sent \in Seq(S)
    BY <1>2, <1>3
  <2>4. sent \o (<<line>> \o v) = Append(sent, line) \o v
    <3> HIDE DEF v, S
    <3> QED BY <2>3, AppendThenConcat
  <2> QED BY <2>1, <2>2, <2>4
<1>5. TypeOK'
  <2>1. Len(buf) <= BufCap /\ Len(buf) \in Nat
    BY LenProperties DEF TypeOK
  <2>2. Len(buf') <= BufCap
    BY <1>2, <2>1, BufCapAssumption
  <2> QED BY <1>1, <1>2, <1>3, <2>2 DEF TypeOK
<1>6. BufferInv'
  BY <1>1, <1>2, <1>4 DEF BufferInv, Rest
<1>7. RoomInv' /\ EndIsTheEnd' /\ DoneIsSent'
  BY <1>1 DEF Inv, RoomInv, EndIsTheEnd, DoneIsSent
<1>8. ReplyInv'
  BY <1>1, <1>2, <1>3 DEF ReplyInv
<1> QED BY <1>5, <1>6, <1>7, <1>8 DEF Inv

LEMMA FirstOfQueue ==
  ASSUME NEW S, NEW x \in S, NEW q \in Seq(S)
  PROVE  /\ <<x>> \o q # <<>> /\ Head(<<x>> \o q) = x /\ Tail(<<x>> \o q) = q
<1> DEFINE u == <<x>>
           w == u \o q
<1>1. u \in Seq(S) /\ Len(u) = 1 /\ u[1] = x
  OBVIOUS
<1>2. Len(q) \in Nat
  BY LenProperties
<1> HIDE DEF u
<1>3. /\ w \in Seq(S) /\ Len(w) = Len(u) + Len(q)
      /\ \A i \in 1..Len(u) + Len(q) : w[i] = IF i <= Len(u) THEN u[i] ELSE q[i - Len(u)]
  BY <1>1, ConcatProperties
<1> HIDE DEF w
<1>4. Len(w) = 1 + Len(q) /\ Len(w) # 0 /\ w[1] = x
  <2>1. Len(w) = 1 + Len(q) /\ Len(w) # 0 /\ 1 \in 1..Len(u) + Len(q) /\ 1 <= Len(u)
    BY <1>1, <1>2, <1>3
  <2> QED BY <1>1, <1>3, <2>1
<1>5. w # <<>>
  BY <1>4, EmptySeq
<1>6. Tail(w) \in Seq(S) /\ Len(Tail(w)) = Len(w) - 1 /\ \A i \in 1..Len(Tail(w)) : Tail(w)[i] = w[i + 1]
  BY <1>3, <1>5, HeadTailProperties
<1>7. Len(Tail(w)) = Len(q)
  BY <1>2, <1>4, <1>6
<1>8. ASSUME NEW i \in 1..Len(Tail(w))
      PROVE  Tail(w)[i] = q[i]
  <2>1. i + 1 \in 1..Len(u) + Len(q) /\ ~(i + 1 <= Len(u)) /\ (i + 1) - Len(u) = i
    BY <1>1, <1>2, <1>7
  <2>2. w[i + 1] = q[(i + 1) - Len(u)]
    BY <1>3, <2>1
  <2> QED BY <1>6, <2>1, <2>2
<1>9. Tail(w) = q
  <2> DEFINE y == Tail(w)
  <2> HIDE DEF y
  <2>1. y \in Seq(S) /\ Len(y) = Len(q) /\ \A i \in 1..Len(y) : y[i] = q[i]
    BY <1>6, <1>7, <1>8 DEF y
  <2>2. y = q
    BY <2>1, SeqEqual
  <2> QED BY <2>2 DEF y
<1>10. Head(w) = x
  BY <1>3, <1>4, <1>5, HeadTailProperties
<1> QED BY <1>5, <1>9, <1>10 DEF u, w

\* Nothing that is to be sent is dropped with the lines that are no commands.
LEMMA SendNothingDropsNone ==
  ASSUME TypeOK, Inv, SendNothing
  PROVE  /\ CommandsOf(Rest) = CommandsOf(Rest')
         /\ Ends(buf') = {}
         /\ buf' \in Seq(Byte) /\ Len(buf') \in Nat /\ Len(buf') <= Len(buf)
         /\ From' \in {0} \union Ends(file) /\ buf' = SubSeq(file, From' + 1, pos)
<1> DEFINE i == Max({0} \union Ends(buf))
<1>1. CommandEnds(buf) = {} /\ buf' = After(buf, i) /\ UNCHANGED <<file, pos>>
  BY DEF SendNothing
<1>3. /\ buf \in Seq(Byte) /\ Len(buf) \in Nat
      /\ i \in {0} \union Ends(buf) /\ i \in 0..Len(buf)
      /\ \A k \in Ends(buf) : i >= k
  BY EndsProperties DEF TypeOK
<1> HIDE DEF i
<1>4. /\ i \in {0} \union Ends(Rest)
      /\ buf' \in Seq(Byte) /\ Len(buf') = Len(buf) - i
      /\ From' \in {0} \union Ends(file) /\ buf' = SubSeq(file, From' + 1, pos)
      /\ Rest' = After(Rest, i)
      /\ \A j \in Ends(buf') : i + j \in Ends(buf)
  BY <1>1, <1>3, FrontDropped DEF Inv
<1>5. Rest \in Seq(Byte) /\ Len(buf) \in 0..Len(Rest) /\ buf = SubSeq(Rest, 1, Len(buf))
  BY BufferIsPart DEF Inv
<1>6. \A k \in CommandEnds(Rest) : k > i
  <2>1. \A k : k \in CommandEnds(buf) <=> k \in 1..Len(buf) /\ k \in CommandEnds(Rest)
    BY <1>5, LinesOfPrefix
  <2>2. CommandEnds(Rest) \in SUBSET (1..Len(Rest)) /\ Len(Rest) \in Nat
    BY <1>5, EndsProperties
  <2> SUFFICES ASSUME NEW k \in CommandEnds(Rest)
               PROVE  k > i
    OBVIOUS
  <2>3. k \in Nat /\ k >= 1 /\ ~(k \in 1..Len(buf))
    BY <1>1, <2>1, <2>2
  <2> QED BY <1>3, <2>3
<1>7. CommandsOf(Rest) = CommandsOf(Rest')
  BY <1>4, <1>5, <1>6, NoCommandBefore
<1>8. Ends(buf') = {}
  <2>1. \A j \in Ends(buf') : j \in 1..Len(buf') /\ Len(buf') \in Nat
    BY <1>4, EndsProperties
  <2>2. \A j \in Ends(buf') : i >= i + j
    BY <1>3, <1>4
  <2>3. \A j \in Ends(buf') : FALSE
    BY <1>3, <2>1, <2>2
  <2> QED BY <2>3
<1>9. Len(buf') \in Nat /\ Len(buf') <= Len(buf)
  BY <1>3, <1>4
<1> QED BY <1>4, <1>7, <1>8, <1>9

LEMMA SendNothingKeeps ==
  ASSUME TypeOK, Inv, SendNothing
  PROVE  TypeOK' /\ Inv'
<1>1. /\ state = "SENDING"
      /\ \/ fd = "closed" /\ sockEvents' = "gone" /\ UNCHANGED <<state, fdEvents>>
         \/ /\ fd = "open" /\ Len(buf') < BufCap /\ state' = "READING"
            /\ sockEvents' = "none" /\ fdEvents' = "in"
         \/ /\ fd = "open" /\ Len(buf') = BufCap
            /\ sockEvents' = "gone" /\ fdEvents' = "gone" /\ UNCHANGED state
      /\ UNCHANGED <<file, pos, fd, request, sent>>
  BY DEF SendNothing
<1>2. fd = "open"
  BY <1>1 DEF Inv, RoomInv
<1>3. /\ CommandsOf(Rest) = CommandsOf(Rest')
      /\ Ends(buf') = {}
      /\ buf' \in Seq(Byte) /\ Len(buf') \in Nat /\ Len(buf') <= Len(buf)
      /\ From' \in {0} \union Ends(file) /\ buf' = SubSeq(file, From' + 1, pos)
  BY SendNothingDropsNone
<1>4. TypeOK'
  <2>1. Len(buf) <= BufCap /\ Len(buf) \in Nat
    BY LenProperties DEF TypeOK
  <2>2. Len(buf') <= BufCap
    BY <1>3, <2>1, BufCapAssumption
  <2> QED BY <1>1, <1>3, <2>2 DEF TypeOK
<1>5. BufferInv'
  BY <1>1, <1>3 DEF Inv, BufferInv, Rest
<1>6. RoomInv' /\ ReplyInv' /\ EndIsTheEnd'
  BY <1>1, <1>2, <1>3 DEF Inv, RoomInv, ReplyInv, EndIsTheEnd
<1>7. DoneIsSent'
  <2>1. CASE fdEvents' = "in"
    BY <2>1 DEF DoneIsSent
  <2>2. CASE Len(buf') = BufCap
    <3>1. (Ends(buf) = {} /\ Len(buf) = BufCap)'
      BY <1>3, <2>2
    <3>2. (TypeOK /\ BufferInv /\ Ends(buf) = {} /\ Len(buf) = BufCap /\ LinesFit
             => sent = CommandsOf(file))'
      BY FullBuffer, PTL
    <3> QED BY <1>1, <1>2, <1>4, <1>5, <3>1, <3>2 DEF DoneIsSent
  <2> QED BY <1>1, <1>2, <2>1, <2>2
<1> QED BY <1>4, <1>5, <1>6, <1>7 DEF Inv

LEMMA StepInv == TypeOK /\ Inv /\ [Next]_vars => TypeOK' /\ Inv'
<1> SUFFICES ASSUME TypeOK, Inv, [Next]_vars PROVE TypeOK' /\ Inv'
  OBVIOUS
<1> USE DEF Inv, BufferInv, From, RoomInv, ReplyInv, EndIsTheEnd, DoneIsSent
<1>1. CASE Read
  BY <1>1, ReadKeeps
<1>2. CASE ReadEnd
  BY <1>2, ReadEndKeeps
<1>3. CASE ReadError
  BY <1>3 DEF ReadError, TypeOK
<1>4. CASE Send
  BY <1>4, SendKeeps
<1>5. CASE SendNothing
  BY <1>5, SendNothingKeeps
<1>6. CASE Receive
  BY <1>6 DEF Receive, TypeOK, LinesFit
<1>7. CASE Answer
  BY <1>7 DEF Answer, poller, TypeOK, LinesFit
<1>8. CASE UNCHANGED vars
  BY <1>8 DEF vars, poller, TypeOK, LinesFit
<1> QED BY <1>1, <1>2, <1>3, <1>4, <1>5, <1>6, <1>7, <1>8 DEF Next, HandleEvent

\* In every reachable state the variables have their types, and the invariant
\* holds.
THEOREM Invariance == Spec => [](TypeOK /\ Inv)
<1>1. Init => TypeOK /\ Inv
  BY InitInv
<1>2. (TypeOK /\ Inv) /\ [Next]_vars => (TypeOK /\ Inv)'
  BY StepInv
<1> QED BY <1>1, <1>2, PTL DEF Spec

\* The buffer is never filled beyond its size, whatever the lines of the file.
THEOREM TypeCorrect == Spec => []TypeOK
BY Invariance, PTL

\* A full buffer is never taken for the end of the file.
THEOREM ReadsToTheEnd == Spec => []EndIsTheEnd
<1>1. TypeOK /\ Inv => EndIsTheEnd
  BY DEF Inv
<1> QED BY <1>1, Invariance, PTL

\* Wherever the reads cut the file, what was sent, the buffer and what is not
\* read yet hold the commands of the file: none is lost, changed or sent twice.
THEOREM NothingIsLost == Spec => []NothingLost
<1>1. TypeOK /\ Inv => NothingLost
  BY BufferIsPart DEF Inv, BufferInv, NothingLost, Rest
<1> QED BY <1>1, Invariance, PTL

\* The handler implements the queue, for every file and every size of the
\* buffer: a read and a line that is no command change nothing of what is to
\* be sent, and the next command waits for the reply.
THEOREM ImplementsQueue == Spec => Implements
<1> DEFINE queue == CommandsOf(buf \o Unread)
           asked == IF request = "none" THEN <<>> ELSE sent[Len(sent)]
<1>1. TypeOK /\ Inv => buf \o Unread = Rest
  BY BufferIsPart DEF Inv
<1>2. Init => CQ!Init
  <2> SUFFICES ASSUME Init PROVE CQ!Init
    OBVIOUS
  <2>1. TypeOK /\ Inv
    BY InitInv
  <2>2. Rest \in Seq(Byte)
    BY <2>1, BufferIsPart DEF Inv
  <2>3. queue \in Seq(Seq(Byte))
    BY <1>1, <2>1, <2>2, CommandsProperties
  <2> QED BY <2>3 DEF Init, CQ!Init
<1>3. TypeOK /\ Inv /\ [Next]_vars /\ (TypeOK /\ Inv)' => [CQ!Next]_<<queue, asked>>
  <2> SUFFICES ASSUME TypeOK, Inv, [Next]_vars, (TypeOK /\ Inv)'
               PROVE  [CQ!Next]_<<queue, asked>>
    OBVIOUS
  <2>1. queue = CommandsOf(Rest)
    BY <1>1
  <2>2. queue' = CommandsOf(Rest')
    <3>1. (TypeOK /\ Inv => buf \o Unread = Rest)'
      BY <1>1, PTL
    <3> QED BY <3>1
  <2> HIDE DEF queue
  <2>3. CASE Read
    <3>1. UNCHANGED <<file, request, sent>> /\ From' = From
      BY <2>3, ReadKeeps DEF Read
    <3> QED BY <2>1, <2>2, <3>1 DEF Rest
  <2>4. CASE Send
    <3>1. PICK line \in Seq(Byte) :
            /\ line # <<>> /\ sent' = Append(sent, line)
            /\ CommandsOf(Rest) = <<line>> \o CommandsOf(Rest')
            /\ CommandsOf(Rest') \in Seq(Seq(Byte))
      BY <2>4, SendTakesFirst
    <3>2. /\ queue # <<>> /\ Head(queue) = line /\ Tail(queue) = queue'
      <4> DEFINE q == queue'
      <4>1. queue = <<line>> \o q /\ q \in Seq(Seq(Byte)) /\ line \in Seq(Byte)
        BY <2>1, <2>2, <3>1
      <4> HIDE DEF q
      <4>2. queue # <<>> /\ Head(queue) = line /\ Tail(queue) = q
        BY <4>1, FirstOfQueue
      <4> QED BY <4>2 DEF q
    <3>3. asked' = line
      <4>1. request' = "asked" /\ sent \in Seq(Seq(Byte)) /\ Len(sent) \in Nat
        BY <2>4, LenProperties DEF Send, TypeOK
      <4>2. Len(sent') = Len(sent) + 1 /\ sent'[Len(sent) + 1] = line
        BY <3>1, <4>1, AppendProperties
      <4> QED BY <4>1, <4>2
    <3>4. asked = <<>>
      BY <2>4 DEF Send, Inv, ReplyInv
    <3> QED BY <3>2, <3>3, <3>4 DEF CQ!Next, CQ!Ask, queue
  <2>5. CASE SendNothing
    <3>1. UNCHANGED <<request, sent>>
      BY <2>5 DEF SendNothing
    <3> QED BY <2>1, <2>2, <2>5, <3>1, SendNothingDropsNone
  <2>6. CASE Receive
    <3>1. /\ request = "answered" /\ request' = "none" /\ UNCHANGED <<file, pos, buf, sent>>
      BY <2>6 DEF Receive
    <3>2. asked # <<>> /\ asked' = <<>>
      BY <3>1 DEF Inv, ReplyInv
    <3>3. UNCHANGED queue
      BY <3>1 DEF queue, Unread
    <3> QED BY <3>2, <3>3 DEF CQ!Next, CQ!Answered, queue
  <2>7. CASE Answer
    BY <2>7 DEF Answer, queue, Unread
  <2>8. CASE ReadEnd \/ ReadError
    BY <2>8 DEF ReadEnd, ReadError, queue, Unread
  <2>9. CASE UNCHANGED vars
    BY <2>9 DEF vars, queue, Unread
  <2> QED BY <2>3, <2>4, <2>5, <2>6, <2>7, <2>8, <2>9 DEF Next, HandleEvent
<1> QED BY <1>2, <1>3, Invariance, PTL DEF Spec, Implements, CQ!Spec

\* When the handler lets go of the file, every command of it is sent, or a line
\* was longer than the buffer.
THEOREM SendsAll == Spec => []DoneIsSent
<1>1. TypeOK /\ Inv => DoneIsSent
  BY DEF Inv
<1> QED BY <1>1, Invariance, PTL

\* Every command that is sent is cut into fields that make it up again.
THEOREM FieldsCut == Spec => []FieldsAreCut
<1>1. TypeOK => FieldsAreCut
  <2> SUFFICES ASSUME TypeOK, NEW c \in Range(sent)
               PROVE  /\ Joined(Split(c)) = c
                      /\ Len(Split(c)) <= MaxFields
                      /\ \A k \in DOMAIN Split(c) : k < MaxFields => Commas(Split(c)[k]) = {}
    BY DEF FieldsAreCut
  <2>1. PICK k \in DOMAIN sent : c = sent[k]
    BY DEF Range
  <2>2. c \in Seq(Byte)
    BY <2>1, LenProperties, ElementOfSeq DEF TypeOK
  <2> QED BY <2>2, SplitProperties
<1> QED BY <1>1, Invariance, PTL
=============================================================================
