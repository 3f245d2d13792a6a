---------------------------- MODULE CommandQueue ----------------------------
(***************************************************************************)
(* What who sends commands within the process promises: the commands are   *)
(* sent in order, one at a time, each after the reply to the one before.   *)
(* The memory request queue (bsr_memreq.c) takes more while it runs, those *)
(* that replace a source together or not at all; the handler of the        *)
(* startup file (bsr_startupcmd.c) has all of them from the start.         *)
(***************************************************************************)
EXTENDS Integers, Sequences

CONSTANTS
  Initial,    \* what there may be to be sent at first
  Batches,    \* the sequences of commands that are put together
  NoCommand,
  Cap         \* how many commands there is room for

VARIABLES
  queue,  \* the commands to be sent
  asked   \* the command whose reply is waited for, or NoCommand

Init == queue \in Initial /\ asked = NoCommand

Put(batch) ==
  /\ Len(queue) + Len(batch) <= Cap
  /\ queue' = queue \o batch
  /\ UNCHANGED asked

Ask ==
  /\ asked = NoCommand
  /\ queue # <<>>
  /\ asked' = Head(queue)
  /\ queue' = Tail(queue)

Answered ==
  /\ asked # NoCommand
  /\ asked' = NoCommand
  /\ UNCHANGED queue

Next == (\E batch \in Batches : Put(batch)) \/ Ask \/ Answered

Spec == Init /\ [][Next]_<<queue, asked>>
=============================================================================
