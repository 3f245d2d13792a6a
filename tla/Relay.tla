------------------------------- MODULE Relay -------------------------------
(***************************************************************************)
(* One source handler (bsr_chnhandler.c): it pulls multipart messages from *)
(* its input and hands a copy of every frame to every output.  One event   *)
(* of the poller makes it read until the input is empty, frame by frame;   *)
(* commands (add and remove outputs, reopen the input) run between two     *)
(* events, in the same thread.                                             *)
(*                                                                         *)
(* The sockets are libzmq's.  An input hands over whole messages.  An      *)
(* output takes a frame, or refuses it (EAGAIN): the first frame of a      *)
(* message when no client has room for one, a later frame when the client  *)
(* that has the earlier ones is leaving.  The earlier ones are forgotten   *)
(* then, and when the refused frame has the "more" flag, the socket        *)
(* swallows every frame it is offered next, and reports it as sent, up to  *)
(* and with one that has no such flag.  When the client is gone before a   *)
(* frame is offered, nothing is refused and the swallowing starts at once. *)
(***************************************************************************)
EXTENDS Multipart, SequencesExt

CONSTANTS Outputs,  \* the addresses an output can be bound to
          Parts,    \* the part counts a message can have
          MaxPart,  \* the highest part number a message may have (500)
          MaxMsgs   \* bound: how many messages the source sends

ASSUME PartsAssumption == Parts \subseteq Nat \ {0}
ASSUME MaxPartAssumption == MaxPart \in Nat
ASSUME MaxMsgsAssumption == MaxMsgs \in Nat

VARIABLES
  arrived,    \* how many messages the source has sent
  inbox,      \* the messages in the input's queue, the one being read first
  rd,         \* how many frames of that one are read
  pipe,       \* per output: the frames of an incomplete message it has taken
  swallowing, \* the outputs that swallow frames up to the end of a message
  delivered,  \* per output: the messages handed over for its clients
  phase,      \* where the handler is: waiting, reading, or why it gave up
  more_last, mpc, mpmsgc, unexpected_frames_count,
  socks_out,  \* the list of the outputs
  so,         \* per output: its struct sockout
  since,      \* history, per output: mpmsgc when it was added
  lost,       \* history, per output: the messages its clients left behind
  swallowed   \* history, per output: the messages swallowed from the start

sockets == <<arrived, inbox, rd, pipe, swallowing, delivered>>
handler == <<phase, more_last, mpc, mpmsgc, unexpected_frames_count,
             socks_out, so>>
history == <<since, lost, swallowed>>
vars == <<sockets, handler, history>>

Failures == {"recv_error", "send_error", "too_many_parts"}
Phases == {"poll", "recv"} \union Failures

SockOut == [in_multipart : BOOLEAN, block_current_multipart : BOOLEAN,
            sent_count : Nat, eagain : Nat, eagain_multipart : Nat]

AFrame == [msg : Message(Parts), part : Nat]

\* Mutation: a field of the malloc'ed struct is not set.
UnsetSockOut == [in_multipart |-> FALSE, block_current_multipart |-> FALSE,
                 sent_count |-> 0, eagain |-> -1, eagain_multipart |-> 0]

NewSockOut == [in_multipart |-> FALSE, block_current_multipart |-> FALSE,
               sent_count |-> 0, eagain |-> 0, eagain_multipart |-> 0]

\* do_parse_header is set to 0 when the handler is created and nowhere else,
\* so no header is parsed and the count of channels keeps its first value.
channel_count == 0

Attached == Range(socks_out)
Failed == phase \in Failures

TypeOK ==
  /\ arrived \in Nat
  /\ inbox \in Seq(Message(Parts))
  /\ rd \in Nat
  /\ pipe \in [Outputs -> Seq(AFrame)]
  /\ swallowing \subseteq Outputs
  /\ delivered \in [Outputs -> Seq(Seq(AFrame))]
  /\ phase \in Phases
  /\ more_last \in BOOLEAN
  /\ mpc \in Nat
  /\ mpmsgc \in Nat
  /\ unexpected_frames_count \in Nat
  /\ socks_out \in Seq(Outputs)
  /\ so \in [Outputs -> SockOut]
  /\ since \in [Outputs -> Nat]
  /\ lost \in [Outputs -> Nat]
  /\ swallowed \in [Outputs -> Nat]

Init ==
  /\ arrived = 0
  /\ inbox = <<>>
  /\ rd = 0
  /\ pipe = [o \in Outputs |-> <<>>]
  /\ swallowing = {}
  /\ delivered = [o \in Outputs |-> <<>>]
  /\ phase = "poll"
  /\ more_last = FALSE
  /\ mpc = 0
  /\ mpmsgc = 0
  /\ unexpected_frames_count = 0
  /\ socks_out = <<>>
  /\ so = [o \in Outputs |-> NewSockOut]
  /\ since = [o \in Outputs |-> 0]
  /\ lost = [o \in Outputs |-> 0]
  /\ swallowed = [o \in Outputs |-> 0]
-----------------------------------------------------------------------------
(* The world of the handler: its source and the clients of its outputs.    *)

Arrive ==
  /\ arrived < MaxMsgs
  /\ \E n \in Parts :
       inbox' = Append(inbox, [id |-> arrived + 1, parts |-> n])
  /\ arrived' = arrived + 1
  /\ UNCHANGED <<rd, pipe, swallowing, delivered, handler, history>>

ClientLeaves(o) ==
  /\ pipe[o] # <<>>
  /\ pipe' = [pipe EXCEPT ![o] = <<>>]
  /\ swallowing' = swallowing \union {o}
  /\ lost' = [lost EXCEPT ![o] = @ + 1]
  /\ UNCHANGED <<arrived, inbox, rd, delivered, handler, since, swallowed>>
-----------------------------------------------------------------------------
(* bsr_chnhandler_handle_event.                                            *)

\* Mutation: a handler without outputs leaves its messages in the queue.
PollEventWithOutput ==
  /\ phase = "poll"
  /\ inbox # <<>>
  /\ Attached # {}
  /\ phase' = "recv"
  /\ UNCHANGED <<sockets, more_last, mpc, mpmsgc, unexpected_frames_count,
                 socks_out, so, history>>

PollEvent ==
  /\ phase = "poll"
  /\ inbox # <<>>
  /\ phase' = "recv"
  /\ UNCHANGED <<sockets, more_last, mpc, mpmsgc, unexpected_frames_count,
                 socks_out, so, history>>

\* The message being read, and the frame of it that is read next.
Msg == Head(inbox)
Part == rd + 1
IsMore == More(Msg, Part)

\* Mutation: the parts are counted on from message to message.
NextMpcNoReset == mpc + 1

NextMpc == IF more_last THEN mpc + 1 ELSE 0

\* Mutation: an output that refused a frame is offered the next one.
TargetsBlockedToo == {o \in Attached : mpmsgc > 0}

\* The outputs that are offered the frame: none for the first message.
Targets ==
  {o \in Attached : mpmsgc > 0 /\ ~so[o].block_current_multipart}

\* Mutation: that the output is in the middle of a message is not noted.
SentUnnoted(s) == [s EXCEPT !.sent_count = @ + 1]

Sent(s) == [s EXCEPT !.sent_count = @ + 1, !.in_multipart = IsMore]

\* Mutation: a refusal in the middle of a message counts twice.
RefusedTwice(s) ==
  [s EXCEPT !.block_current_multipart = TRUE,
            !.eagain = @ + 1,
            !.eagain_multipart = IF s.in_multipart THEN @ + 1 ELSE @]

\* Mutation: a refusal does not block the output.
RefusedOpen(s) ==
  [s EXCEPT !.eagain = IF s.in_multipart THEN @ ELSE @ + 1,
            !.eagain_multipart = IF s.in_multipart THEN @ + 1 ELSE @]

Refused(s) ==
  [s EXCEPT !.block_current_multipart = TRUE,
            !.eagain = IF s.in_multipart THEN @ ELSE @ + 1,
            !.eagain_multipart = IF s.in_multipart THEN @ + 1 ELSE @]

\* The frame leaves the input, which is done with the message at the last.
TakeFrame ==
  /\ rd' = IF IsMore THEN Part ELSE 0
  /\ inbox' = IF IsMore THEN inbox ELSE Tail(inbox)
  /\ mpc' = NextMpc

\* What an output in offered makes of the frame: those in accepted take it.
Served(offered, accepted) ==
  [o \in Outputs |-> IF o \in accepted THEN Sent(so[o])
                     ELSE IF o \in offered THEN Refused(so[o])
                     ELSE so[o]]

\* A refusal in mid-message makes the socket swallow what comes next, also
\* when the handler offers it nothing more of this message.
HandOut(offered, accepted) ==
  LET taken == accepted \ swallowing
      broken == {o \in offered \ accepted : pipe[o] # <<>>}
      with(o) == Append(pipe[o], Frame(Msg, Part))
  IN /\ pipe' = [o \in Outputs |->
                   IF o \in offered
                   THEN IF IsMore /\ o \in taken THEN with(o) ELSE <<>>
                   ELSE pipe[o]]
     /\ delivered' = [o \in Outputs |->
                        IF ~IsMore /\ o \in taken
                        THEN Append(delivered[o], with(o))
                        ELSE delivered[o]]
     /\ swallowing' = IF IsMore THEN swallowing \union broken
                      ELSE swallowing \ offered
     /\ swallowed' = [o \in Outputs |->
                        IF o \in offered \intersect swallowing /\ rd = 0
                        THEN swallowed[o] + 1
                        ELSE swallowed[o]]

\* Mutation: an output stays blocked after the message it refused.
KeepBlocked(sos) == sos

\* After the last frame no output is blocked any more.
Unblocked(sos) ==
  [o \in Outputs |-> [sos[o] EXCEPT !.block_current_multipart = FALSE]]

\* One round of the loop: zmq_msg_recv returns a frame, every output that is
\* not blocked is offered a copy, the last frame ends the message, and a
\* message with too many parts makes the handler give up.
Receive ==
  /\ phase = "recv"
  /\ inbox # <<>>
  /\ TakeFrame
  /\ \E accepted \in SUBSET Targets :
       /\ Targets \intersect swallowing \subseteq accepted
       /\ HandOut(Targets, accepted)
       /\ so' = IF IsMore THEN Served(Targets, accepted)
                ELSE Unblocked(Served(Targets, accepted))
  /\ mpmsgc' = IF IsMore THEN mpmsgc ELSE mpmsgc + 1
  /\ unexpected_frames_count' =
       IF ~IsMore /\ NextMpc # 1 + 2 * channel_count
       THEN unexpected_frames_count + 1
       ELSE unexpected_frames_count
  /\ more_last' = IsMore
  /\ phase' = IF NextMpc > MaxPart THEN "too_many_parts" ELSE "recv"
  /\ UNCHANGED <<arrived, socks_out, since, lost>>

\* The hand-off to the i-th output fails with an error that is not EAGAIN:
\* the handler gives up at once, and the outputs after it get nothing.
SendError ==
  /\ phase = "recv"
  /\ inbox # <<>>
  /\ TakeFrame
  /\ \E i \in DOMAIN socks_out :
       LET before == {socks_out[j] : j \in 1..(i - 1)} \intersect Targets
       IN /\ socks_out[i] \in Targets
          /\ \E accepted \in SUBSET before :
               /\ before \intersect swallowing \subseteq accepted
               /\ HandOut(before, accepted)
               /\ so' = Served(before, accepted)
  /\ phase' = "send_error"
  /\ UNCHANGED <<arrived, more_last, mpmsgc, unexpected_frames_count,
                 socks_out, since, lost>>

RecvError ==
  /\ phase = "recv"
  /\ phase' = "recv_error"
  /\ UNCHANGED <<sockets, more_last, mpc, mpmsgc, unexpected_frames_count,
                 socks_out, so, history>>

\* zmq_msg_recv returns EAGAIN.
Drained ==
  /\ phase = "recv"
  /\ inbox = <<>>
  /\ phase' = "poll"
  /\ UNCHANGED <<sockets, more_last, mpc, mpmsgc, unexpected_frames_count,
                 socks_out, so, history>>
-----------------------------------------------------------------------------
(* What the commands do to a handler.                                      *)

\* An address that is bound already makes zmq_bind fail: nothing changes.
AddOut(o) ==
  /\ phase = "poll"
  /\ o \notin Attached
  /\ socks_out' = Append(socks_out, o)
  /\ so' = [so EXCEPT ![o] = NewSockOut]
  /\ since' = [since EXCEPT ![o] = mpmsgc]
  /\ lost' = [lost EXCEPT ![o] = 0]
  /\ swallowed' = [swallowed EXCEPT ![o] = 0]
  /\ UNCHANGED <<sockets, phase, more_last, mpc, mpmsgc,
                 unexpected_frames_count>>

\* A new socket at the same address starts from nothing.
RemoveOut(o) ==
  /\ phase = "poll"
  /\ \E i \in DOMAIN socks_out :
       /\ socks_out[i] = o
       /\ socks_out' = RemoveAt(socks_out, i)
  /\ pipe' = [pipe EXCEPT ![o] = <<>>]
  /\ delivered' = [delivered EXCEPT ![o] = <<>>]
  /\ swallowing' = swallowing \ {o}
  /\ UNCHANGED <<arrived, inbox, rd, phase, more_last, mpc, mpmsgc,
                 unexpected_frames_count, so, history>>

\* What the closed socket had queued is gone.
ReopenInput ==
  /\ phase = "poll"
  /\ inbox' = <<>>
  /\ rd' = 0
  /\ more_last' = FALSE
  /\ UNCHANGED <<arrived, pipe, swallowing, delivered, phase, mpc, mpmsgc,
                 unexpected_frames_count, socks_out, so, history>>

Environment == Arrive \/ \E o \in Outputs : ClientLeaves(o)
HandleEvent == PollEvent \/ Receive \/ SendError \/ RecvError \/ Drained
Command == ReopenInput \/ \E o \in Outputs : AddOut(o) \/ RemoveOut(o)

Next == Environment \/ HandleEvent \/ Command

Spec == Init /\ [][Next]_vars

\* The thread of the repeater goes on: it serves a readable input, and it
\* finishes the loop it is in.
FairSpec == Spec /\ WF_vars(PollEvent) /\ WF_vars(Receive) /\ WF_vars(Drained)
-----------------------------------------------------------------------------
(* Properties.                                                             *)

\* Between two events nothing is half done: no message is half read, no
\* output holds a part of one, and none is blocked.  The commands, which run
\* here, rely on it.  Only an output that refused a frame in mid-message may
\* be swallowing still, and the handler can tell: in_multipart is set.
Settled ==
  phase = "poll" =>
    /\ rd = 0 /\ ~more_last
    /\ \A o \in Outputs : pipe[o] = <<>>
    /\ \A o \in Attached : ~so[o].block_current_multipart
    /\ \A o \in swallowing : o \in Attached /\ so[o].in_multipart

\* Every output passes on whole messages, in order, each at most once,
\* whatever it or the other outputs refuse and whenever clients leave.
F == INSTANCE Fanout WITH attached <- Attached,
                          last <- arrived - Len(inbox)
WholeMessagesInOrder == F!Spec

\* The messages an output was offered, up to now, the current one included.
Offered(n) == IF n = 0 THEN 0 ELSE n - 1
Begun == IF rd > 0 /\ mpmsgc > 0 THEN 1 ELSE 0
Holds(o) == IF pipe[o] # <<>> THEN 1 ELSE 0

\* Every message replayed since an output was added is accounted for at that
\* output, exactly once: handed over, refused (eagain or eagain_multipart),
\* lost with its client, swallowed from its first frame on, or under way.
\* So one output's refusals never cost another output a message.
Accounting ==
  ~Failed =>
    \A o \in Attached :
      Len(delivered[o]) + so[o].eagain + so[o].eagain_multipart + lost[o]
        + swallowed[o] + Holds(o)
      = Offered(mpmsgc) - Offered(since[o]) + Begun

\* No counter has the messages that are swallowed whole (sent_count counts
\* their frames as sent), but eagain_multipart bounds them: a refusal in
\* mid-message costs the message it refuses and at most one more.
SwallowedPerRefusal ==
  ~Failed =>
    \A o \in Attached : swallowed[o] <= so[o].eagain_multipart

\* The handler gives up on a message for its length only when the message
\* has more than MaxPart + 1 parts, however many messages it has read before.
GivesUpOnlyOnOversized ==
  [][phase' = "too_many_parts" /\ phase # phase'
       => Msg.parts > MaxPart + 1]_vars

\* Every message the source sends leaves the queue, outputs or not, slow
\* clients or not, unless the handler has given up.
AlwaysPulled ==
  \A n \in 1..MaxMsgs :
    arrived >= n ~> (arrived - Len(inbox) >= n \/ Failed)

-----------------------------------------------------------------------------
(* What makes Settled, Accounting, SwallowedPerRefusal and                 *)
(* WholeMessagesInOrder inductive.                                         *)

\* The queue holds the messages sent last, without gaps; at most the first
\* of them is half read, and the handler's two counters agree with it.
InputInv ==
  /\ Len(inbox) <= arrived
  /\ \A i \in 1..Len(inbox) : inbox[i].id = arrived - Len(inbox) + i
  /\ rd > 0 => inbox # <<>> /\ rd < Msg.parts
  /\ phase = "poll" => rd = 0
  /\ ~Failed => (more_last <=> rd > 0) /\ (more_last => mpc = rd - 1)

\* The outputs that have taken, or swallowed, each frame of the message.
Open(o) ==
  o \in Attached /\ rd > 0 /\ mpmsgc > 0 /\ ~so[o].block_current_multipart

\* An output holds all the frames that are read of the message, or none.
OutputInv ==
  /\ IsInjective(socks_out)
  /\ \A o \in Outputs : o \notin Attached => delivered[o] = <<>>
  /\ ~Failed =>
       /\ \A o \in Outputs :
            pipe[o] = IF Open(o) /\ o \notin swallowing
                      THEN FirstFrames(Msg, rd) ELSE <<>>
       /\ ~(rd > 0 /\ mpmsgc > 0) =>
            \A o \in Attached : ~so[o].block_current_multipart

\* The next message of an output will be swallowed: it refused in the middle
\* of this message or of an earlier one, and was offered no frame since.
Due(o) == o \in swallowing /\ ~Open(o)

\* A message that is due to be swallowed is paid for by a refusal in
\* mid-message, which in_multipart still shows.
SwallowInv ==
  ~Failed =>
    \A o \in Outputs :
      /\ o \in swallowing => o \in Attached
      /\ pipe[o] # <<>> \/ Due(o) => so[o].in_multipart
      /\ swallowed[o] + (IF Due(o) THEN 1 ELSE 0) <= so[o].eagain_multipart

Inv == InputInv /\ OutputInv /\ SwallowInv /\ Accounting
-----------------------------------------------------------------------------
(* What the documentation says.                                            *)

\* readme.md: "replay all messages on the configured output sockets".  An
\* output that was there first, refused nothing and lost no client has
\* passed on every message that was read.
ReplaysAllMessages ==
  phase = "poll" =>
    \A o \in Attached :
      since[o] + so[o].eagain + so[o].eagain_multipart + lost[o] = 0
        => Len(delivered[o]) = mpmsgc
=============================================================================
