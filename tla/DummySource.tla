---------------------------- MODULE DummySource ----------------------------
(***************************************************************************)
(* The dummy source (bsr_dummy_source.c), started by a JSON command: once  *)
(* a second a timer of the thread sends one message of three frames.  The  *)
(* position in the message is a global, which outlives the tick: when the  *)
(* socket refuses a frame, the next tick goes on from there.               *)
(*                                                                         *)
(* The PUSH socket is libzmq's.  A message goes to one of the clients that *)
(* has room for it, and is refused when there is none.  When this client   *)
(* leaves in the middle of the message, the frames so far are forgotten,   *)
(* and the socket either swallows the rest of the message, or refuses the  *)
(* next frame once and swallows what the flag of that frame says is still  *)
(* to come.                                                                *)
(***************************************************************************)
EXTENDS Integers, SequencesExt

CONSTANTS
  Clients,  \* who connects to the dummy source
  Hwm       \* how many messages wait for a client (6)

ASSUME HwmAssumption == Hwm \in Nat \ {0}

VARIABLES
  ptype,       \* the position in the message
  pc,          \* the thread: waiting for the timer, or in its callback
  began,       \* the position the callback began with
  connected,   \* the clients that are there
  queue,       \* by client: the messages that wait for it
  to,          \* the client that gets the message
  pipe,        \* the frames of an incomplete message
  swallowing,  \* the socket swallows the rest of a message
  broken       \* the socket will refuse the next frame

source == <<ptype, pc, began>>
socket == <<connected, queue, to, pipe, swallowing, broken>>
vars == <<source, socket>>

Position == 0..2
Whole == <<0, 1, 2>>

TypeOK ==
  /\ ptype \in Position
  /\ pc \in {"waiting", "sending"}
  /\ began \in Position
  /\ connected \subseteq Clients
  /\ queue \in [Clients -> Seq(Seq(Position))]
  /\ \A c \in Clients : Len(queue[c]) <= Hwm
  /\ to \in Clients
  /\ pipe \in Seq(Position)
  /\ swallowing \in BOOLEAN
  /\ broken \in BOOLEAN

Init ==
  /\ ptype = 0
  /\ pc = "waiting"
  /\ began = 0
  /\ connected = {}
  /\ queue = [c \in Clients |-> <<>>]
  /\ to \in Clients
  /\ pipe = <<>>
  /\ swallowing = FALSE
  /\ broken = FALSE
-----------------------------------------------------------------------------
(* The clients.                                                            *)

ClientComes(c) ==
  /\ c \notin connected
  /\ connected' = connected \union {c}
  /\ UNCHANGED <<source, queue, to, pipe, swallowing, broken>>

ClientTakes(c) ==
  /\ queue[c] # <<>>
  /\ queue' = [queue EXCEPT ![c] = Tail(@)]
  /\ UNCHANGED <<source, connected, to, pipe, swallowing, broken>>

ClientLeaves(c) ==
  /\ c \in connected
  /\ connected' = connected \ {c}
  /\ queue' = [queue EXCEPT ![c] = <<>>]
  /\ \/ /\ pipe = <<>> \/ to # c
        /\ UNCHANGED <<pipe, swallowing, broken>>
     \/ /\ pipe # <<>> /\ to = c
        /\ pipe' = <<>>
        /\ \/ swallowing' = TRUE /\ UNCHANGED broken
           \/ broken' = TRUE /\ UNCHANGED swallowing
  /\ UNCHANGED <<source, to>>
-----------------------------------------------------------------------------
(* timer_cb_1.                                                             *)

Tick ==
  /\ pc = "waiting"
  /\ pc' = "sending"
  /\ began' = ptype
  /\ UNCHANGED <<ptype, socket>>

\* Every frame is sent with the flag.
MoreAlways == TRUE

\* The flag ZMQ_SNDMORE of the frame.
More == ptype < 2

\* Who can get the frame: the client that has the earlier frames of the
\* message, or for a first frame any that has room.
Takers ==
  IF pipe # <<>> THEN {to} ELSE {c \in connected : Len(queue[c]) < Hwm}

\* The message is not begun again after its last frame.
NextFrameOn ==
  /\ ptype' = ptype + 1
  /\ pc' = IF ptype = 2 THEN "waiting" ELSE "sending"

\* try_sends goes on to the next frame, and ends after the last one.
NextFrame ==
  /\ ptype' = (ptype + 1) % 3
  /\ pc' = IF ptype = 2 THEN "waiting" ELSE "sending"

\* try_send_next returns 0.
Accepted ==
  /\ pc = "sending"
  /\ ~broken
  /\ \/ /\ swallowing
        /\ swallowing' = More
        /\ UNCHANGED <<queue, to, pipe>>
     \/ /\ ~swallowing
        /\ to' \in Takers
        /\ IF More
           THEN /\ pipe' = Append(pipe, ptype)
                /\ UNCHANGED queue
           ELSE /\ pipe' = <<>>
                /\ queue' = [queue EXCEPT ![to'] = Append(@, Append(pipe, ptype))]
        /\ UNCHANGED swallowing
  /\ NextFrame
  /\ UNCHANGED <<began, connected, broken>>

\* Goes on with the next frame at the next tick.
RefusedSkips ==
  /\ pc = "sending"
  /\ \/ broken /\ swallowing' = More
     \/ ~broken /\ ~swallowing /\ Takers = {} /\ UNCHANGED swallowing
  /\ broken' = FALSE
  /\ pc' = "waiting"
  /\ ptype' = (ptype + 1) % 3
  /\ UNCHANGED <<began, connected, queue, to, pipe>>

\* try_send_next returns -1: the callback ends, and keeps its position.
Refused ==
  /\ pc = "sending"
  /\ \/ broken /\ swallowing' = More
     \/ ~broken /\ ~swallowing /\ Takers = {} /\ UNCHANGED swallowing
  /\ broken' = FALSE
  /\ pc' = "waiting"
  /\ UNCHANGED <<ptype, began, connected, queue, to, pipe>>

Thread == Tick \/ Accepted \/ Refused

Next ==
  \/ Thread
  \/ \E c \in Clients : ClientComes(c) \/ ClientTakes(c) \/ ClientLeaves(c)

Spec == Init /\ [][Next]_vars

\* The timer fires, and a client that stays takes what there is.
FairSpec ==
  Spec /\ WF_vars(Thread) /\ \A c \in Clients : WF_vars(ClientTakes(c))
-----------------------------------------------------------------------------
(* Properties.                                                             *)

\* Whoever leaves when, a client gets whole messages, or a last frame alone:
\* never a message without its end or without its middle.
WholeOrLastFrame ==
  \A c \in Clients : \A k \in DOMAIN queue[c] : queue[c][k] \in {Whole, <<2>>}

\* A last frame comes alone only when an earlier tick was refused right
\* there, and a message whose middle was refused never comes at all.
SendsFromWhereItBegan ==
  [][\A c \in Clients :
       Len(queue'[c]) > Len(queue[c]) =>
         began # 1 /\ Last(queue'[c]) = SubSeq(Whole, began + 1, 3)]_vars

\* When no client comes or leaves any more, and there is one, whole messages
\* are sent for ever, whatever was refused before.
Recovers ==
  (\E cs \in SUBSET Clients \ {{}} : <>[](connected = cs)) =>
    []<>(\E c \in Clients : queue[c] # <<>> /\ Last(queue[c]) = Whole)
=============================================================================
