----------------------------- MODULE Multipart -----------------------------
(***************************************************************************)
(* Multipart ZeroMQ messages, as the repeater sees them: a message is a    *)
(* number of parts (frames), and every frame but the last one carries the  *)
(* "more" flag.  A frame is identified by its message and its position;    *)
(* its bytes are left out.                                                 *)
(***************************************************************************)
EXTENDS Integers, Sequences

Message(Parts) == [id : Nat \ {0}, parts : Parts]

Frame(m, k) == [msg |-> m, part |-> k]

\* The first k frames of message m.
FirstFrames(m, k) == [i \in 1..k |-> Frame(m, i)]

\* The whole message.
Frames(m) == FirstFrames(m, m.parts)

\* zmq_msg_more of the k-th frame of m.
More(m, k) == k < m.parts
=============================================================================
