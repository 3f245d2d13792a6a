----------------------------- MODULE StartupCmd -----------------------------
(***************************************************************************)
(* The handler of the startup file (bsr_startupcmd.c).  It reads the file  *)
(* into a buffer of BUFCAP bytes, and sends the lines one by one to the    *)
(* command channel, waiting for the reply to each.  Empty lines and lines  *)
(* that start with # are skipped.  The poller calls the handler when the   *)
(* file or the socket is ready for what the handler is interested in.      *)
(*                                                                         *)
(* The bytes of a file are of four kinds: Newline, Hash, Comma, and any    *)
(* other.  The command channel cuts a command at its commas (bsr_str.c);   *)
(* what it does then is in Repeater.                                       *)
(***************************************************************************)
EXTENDS Integers, SequencesExt, Positions

CONSTANTS
  Newline, Hash, Comma, Other,  \* the kinds of bytes
  BufCap,                       \* the size of the buffer (256)
  MaxFields,                    \* the fields a command is cut into (8)
  MaxFile                       \* bound: the length of a file

ASSUME BufCapAssumption == BufCap \in Nat \ {0}
ASSUME MaxFieldsAssumption == MaxFields \in Nat \ {0}
ASSUME MaxFileAssumption == MaxFile \in Nat

VARIABLES
  file,        \* what the file holds
  pos,         \* how much of it was read
  buf,         \* the bytes from rp to wp
  state,
  fd,
  fdEvents,    \* what the poller looks for on the file: in, none, or gone
  sockEvents,  \* and on the socket: in, out, none, or gone
  request,     \* the REQ socket's request: none, asked or answered
  sent         \* the commands that were sent

poller == <<fdEvents, sockEvents>>
vars == <<file, pos, buf, state, fd, poller, request, sent>>

Byte == {Newline, Hash, Comma, Other}

TypeOK ==
  /\ file \in Seq(Byte) /\ Len(file) <= MaxFile
  /\ pos \in 0..Len(file)
  /\ buf \in Seq(Byte) /\ Len(buf) <= BufCap
  /\ state \in {"READING", "SENDING", "RECEIVING", "failed"}
  /\ fd \in {"open", "closed"}
  /\ fdEvents \in {"in", "none", "gone"}
  /\ sockEvents \in {"in", "out", "none", "gone"}
  /\ request \in {"none", "asked", "answered"}
  /\ sent \in Seq(Seq(Byte))

Init ==
  /\ file \in BoundedSeq(Byte, MaxFile)
  /\ pos = 0
  /\ buf = <<>>
  /\ state = "READING"
  /\ fd = "open"
  /\ fdEvents = "in"
  /\ sockEvents = "none"
  /\ request = "none"
  /\ sent = <<>>
-----------------------------------------------------------------------------
(* Lines.                                                                  *)

Ends(b) == {i \in DOMAIN b : b[i] = Newline}
After(b, i) == SubSeq(b, i + 1, Len(b))
LineAt(b, i) == SubSeq(b, Max({0} \union {j \in Ends(b) : j < i}) + 1, i - 1)
IsCommand(line) == line # <<>> /\ line[1] # Hash

\* A search that takes comments for commands.
CommandEndsAll(b) == {i \in Ends(b) : LineAt(b, i) # <<>>}

\* Where the lines of b end that are sent.
CommandEnds(b) == {i \in Ends(b) : IsCommand(LineAt(b, i))}
-----------------------------------------------------------------------------
(* Fields.                                                                 *)

Commas(c) == {i \in DOMAIN c : c[i] = Comma}
Cuts(c, n) == SubSeq(Ascending(Commas(c)), 1, Min({n, Cardinality(Commas(c))}))
Fields(c, cuts) ==
  [k \in 1..Len(cuts) + 1 |->
     SubSeq(c, IF k = 1 THEN 1 ELSE cuts[k - 1] + 1,
               IF k > Len(cuts) THEN Len(c) ELSE cuts[k] - 1)]

\* A cutting that stops one comma too late.
SplitLate(c) == Fields(c, Cuts(c, MaxFields))

\* bsr_str_split: the last field holds the commas there was no field for.
Split(c) == Fields(c, Cuts(c, MaxFields - 1))
-----------------------------------------------------------------------------
(* bsr_startupcmd_handle_event.                                            *)

\* A read over what is left in the buffer.
ReadOver ==
  /\ state = "READING" /\ fdEvents = "in"
  /\ \E n \in 1..Min({BufCap - Len(buf), Len(file) - pos}) :
       /\ buf' = SubSeq(file, pos + 1, pos + n)
       /\ pos' = pos + n
  /\ state' = "SENDING"
  /\ fdEvents' = "none"
  /\ sockEvents' = "out"
  /\ UNCHANGED <<file, fd, request, sent>>

\* A read that asks for one byte more than there is room.
ReadTooMuch ==
  /\ state = "READING" /\ fdEvents = "in"
  /\ \E n \in 1..Min({BufCap + 1 - Len(buf), Len(file) - pos}) :
       /\ buf' = buf \o SubSeq(file, pos + 1, pos + n)
       /\ pos' = pos + n
  /\ state' = "SENDING"
  /\ fdEvents' = "none"
  /\ sockEvents' = "out"
  /\ UNCHANGED <<file, fd, request, sent>>

\* The file may give less than there is room for.
Read ==
  /\ state = "READING" /\ fdEvents = "in"
  /\ \E n \in 1..Min({BufCap - Len(buf), Len(file) - pos}) :
       /\ buf' = buf \o SubSeq(file, pos + 1, pos + n)
       /\ pos' = pos + n
  /\ state' = "SENDING"
  /\ fdEvents' = "none"
  /\ sockEvents' = "out"
  /\ UNCHANGED <<file, fd, request, sent>>

\* read returns 0 at the end of the file, and when there is no room.
ReadEnd ==
  /\ state = "READING" /\ fdEvents = "in"
  /\ pos = Len(file) \/ Len(buf) = BufCap
  /\ fdEvents' = "gone"
  /\ fd' = "closed"
  /\ UNCHANGED <<file, pos, buf, state, sockEvents, request, sent>>

\* An error of read ends the thread.
ReadError ==
  /\ state = "READING" /\ fdEvents = "in"
  /\ fdEvents' = "gone"
  /\ fd' = "closed"
  /\ state' = "failed"
  /\ UNCHANGED <<file, pos, buf, sockEvents, request, sent>>

\* A handler that does not wait for the reply.
SendOn ==
  /\ state = "SENDING" /\ sockEvents = "out"
  /\ CommandEnds(buf) # {}
  /\ LET i == Min(CommandEnds(buf))
     IN /\ sent' = Append(sent, LineAt(buf, i))
        /\ buf' = After(buf, i)
  /\ request' = "asked"
  /\ UNCHANGED <<file, pos, fd, state, poller>>

\* The lines before the command are dropped with it.
Send ==
  /\ state = "SENDING" /\ sockEvents = "out"
  /\ CommandEnds(buf) # {}
  /\ LET i == Min(CommandEnds(buf))
     IN /\ sent' = Append(sent, LineAt(buf, i))
        /\ buf' = After(buf, i)
  /\ request' = "asked"
  /\ state' = "RECEIVING"
  /\ sockEvents' = "in"
  /\ UNCHANGED <<file, pos, fd, fdEvents>>

\* A handler that reads on although its buffer is full.
SendNothingFull ==
  /\ state = "SENDING" /\ sockEvents = "out"
  /\ CommandEnds(buf) = {}
  /\ buf' = After(buf, Max({0} \union Ends(buf)))
  /\ state' = "READING" /\ sockEvents' = "none" /\ fdEvents' = "in"
  /\ UNCHANGED <<file, pos, fd, request, sent>>

\* No command in the buffer: read on, unless the line is longer than the
\* buffer.  The branch for a closed file is there as it is in the code,
\* which never takes it: after the end of the file the state stays READING.
SendNothing ==
  /\ state = "SENDING" /\ sockEvents = "out"
  /\ CommandEnds(buf) = {}
  /\ buf' = After(buf, Max({0} \union Ends(buf)))
  /\ \/ /\ fd = "closed"
        /\ sockEvents' = "gone"
        /\ UNCHANGED <<state, fdEvents>>
     \/ /\ fd = "open" /\ Len(buf') < BufCap
        /\ state' = "READING"
        /\ sockEvents' = "none"
        /\ fdEvents' = "in"
     \/ /\ fd = "open" /\ Len(buf') = BufCap
        /\ sockEvents' = "gone"
        /\ fdEvents' = "gone"
        /\ UNCHANGED state
  /\ UNCHANGED <<file, pos, fd, request, sent>>

\* A handler that reads on after each reply.
ReceiveAndRead ==
  /\ state = "RECEIVING" /\ sockEvents = "in"
  /\ request = "answered"
  /\ request' = "none"
  /\ state' = "READING"
  /\ sockEvents' = "none"
  /\ fdEvents' = "in"
  /\ UNCHANGED <<file, pos, buf, fd, sent>>

Receive ==
  /\ state = "RECEIVING" /\ sockEvents = "in"
  /\ request = "answered"
  /\ request' = "none"
  /\ state' = "SENDING"
  /\ sockEvents' = "out"
  /\ UNCHANGED <<file, pos, buf, fd, fdEvents, sent>>

\* The command channel replies.
Answer ==
  /\ request = "asked"
  /\ request' = "answered"
  /\ UNCHANGED <<file, pos, buf, state, fd, poller, sent>>

HandleEvent ==
  Read \/ ReadEnd \/ ReadError \/ Send \/ SendNothing \/ Receive

Next == HandleEvent \/ Answer

Spec == Init /\ [][Next]_vars

\* The poller reports what is ready, and the command channel answers.
FairSpec == Spec /\ WF_vars(HandleEvent) /\ WF_vars(Answer)
-----------------------------------------------------------------------------
(* Properties.                                                             *)

\* The commands of a file: its lines in order, but for the empty ones, the
\* comments, and what follows the last newline.
CommandsOf(f) ==
  LET ends == Ascending({i \in Ends(f) : IsCommand(LineAt(f, i))})
  IN [k \in DOMAIN ends |-> LineAt(f, ends[k])]

Unread == After(file, pos)

\* Wherever the reads cut the file, what was sent and what is still to be
\* sent are the commands of the file, in order, none twice, none changed.
NothingLost == sent \o CommandsOf(buf \o Unread) = CommandsOf(file)

CQ == INSTANCE CommandQueue
        WITH Initial <- Seq(Seq(Byte)), Batches <- {}, Cap <- 0, NoCommand <- <<>>,
             queue <- CommandsOf(buf \o Unread),
             asked <- IF request = "none" THEN <<>> ELSE sent[Len(sent)]

\* The buffer and the rest of the file are a queue: no read changes what is to
\* be sent, however it cuts the file, and no command is sent before the reply
\* to the one before, which a REQ socket would refuse.
Implements == CQ!Spec

\* The file is taken to have ended only when all of it was read: a full
\* buffer, which read cannot tell from the end, is never read into.
EndIsTheEnd == fd = "closed" /\ state # "failed" => pos = Len(file)

\* Fields with commas between them.
Joined(fields) ==
  LET joined[k \in DOMAIN fields] ==
        IF k = 1 THEN fields[1] ELSE joined[k - 1] \o <<Comma>> \o fields[k]
  IN joined[Len(fields)]

\* However many commas a command has: its fields with commas between them are the
\* command again, no field but the last of MaxFields holds a comma, and there
\* are never more fields than bsr_str_split has room for.
FieldsAreCut ==
  \A c \in Range(sent) :
    LET fields == Split(c)
    IN /\ Joined(fields) = c
       /\ Len(fields) <= MaxFields
       /\ \A k \in DOMAIN fields : k < MaxFields => Commas(fields[k]) = {}

\* The lines that end fit into the buffer.
LinesFit == \A i \in Ends(file) : Len(LineAt(file, i)) < BufCap

\* Once the handler is done with the file, and did not fail, every command of
\* the file is sent, unless a line is longer than the buffer.  The end of the
\* file leaves none in the buffer.
DoneIsSent ==
  fdEvents = "gone" /\ state # "failed"
    => sent = CommandsOf(file) \/ (fd = "open" /\ ~LinesFit)

\* A file whose lines fit is sent to its last newline.
AllSent == LinesFit ~> (sent = CommandsOf(file) \/ state = "failed")

\* readme.md: "The command file contains one command per line".  The last
\* line is one also without a newline after it.
LastLineSent ==
  LinesFit ~> (\/ sent = CommandsOf(Append(file, Newline))
               \/ state = "failed")
=============================================================================
