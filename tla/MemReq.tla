------------------------------- MODULE MemReq -------------------------------
(***************************************************************************)
(* The memory request queue (bsr_memreq.c): a ring of command buffers that *)
(* the thread sends to its own command channel, one by one, waiting for    *)
(* the reply to each.  The idle check (bsr_rep.c) puts in what replaces a  *)
(* source: its removal, its addition, and the addition of its outputs.     *)
(* The poller calls the handler when the REQ socket is ready for what the  *)
(* handler asked it to look for.                                           *)
(***************************************************************************)
EXTENDS Integers, SequencesExt

CONSTANTS
  Sources, Outputs,  \* the addresses
  OutqLen            \* the number of command buffers (12)

ASSUME OutqLenAssumption == OutqLen \in Nat \ {0}

VARIABLES
  outq,      \* the command buffers
  outq_wp,   \* which one is written next
  outq_rp,   \* which one is sent next
  outq_len,  \* how many are to be sent
  state,     \* 1 while a reply is waited for
  events,    \* what the poller looks for: none, in, or out
  last,      \* the command that was sent last
  request    \* the REQ socket's request: none, asked or answered

ring == <<outq, outq_wp, outq_rp, outq_len>>
vars == <<ring, state, events, last, request>>

NoCommand == [kind |-> "none"]
RemoveSource(s) == [kind |-> "remove-source", source |-> s]
AddSource(s) == [kind |-> "add-source", source |-> s]
AddOutput(s, o) == [kind |-> "add-output", source |-> s, output |-> o]

Command == {RemoveSource(s) : s \in Sources} \union {AddSource(s) : s \in Sources}
             \union {AddOutput(s, o) : s \in Sources, o \in Outputs}

Place == 0..OutqLen - 1

TypeOK ==
  /\ outq \in [Place -> Command \union {NoCommand}]
  /\ outq_wp \in Place
  /\ outq_rp \in Place
  /\ outq_len \in 0..OutqLen
  /\ state \in {0, 1}
  /\ events \in {"none", "in", "out"}
  /\ last \in Command \union {NoCommand}
  /\ request \in {"none", "asked", "answered"}

Init ==
  /\ outq = [i \in Place |-> NoCommand]
  /\ outq_wp = 0
  /\ outq_rp = 0
  /\ outq_len = 0
  /\ state = 0
  /\ events = "none"
  /\ last = NoCommand
  /\ request = "none"
-----------------------------------------------------------------------------
\* A pointer that is moved n buffers on, and forgets to wrap around exactly
\* at the end of the ring.
StepLate(p, n) == IF p + n > OutqLen THEN p + n - OutqLen ELSE p + n

\* A pointer that is moved n buffers on starts again at the end of the ring.
Step(p, n) == IF p + n >= OutqLen THEN p + n - OutqLen ELSE p + n

\* How many buffers i is ahead of p.
Ahead(i, p) == IF i >= p THEN i - p ELSE i - p + OutqLen

\* Looks for the reply only, and not for room for the next request.
UpdatePollerLate ==
  events' = IF state' = 1 THEN "in" ELSE events

\* Looks for room also when there is nothing to send.
UpdatePollerAlways ==
  events' = IF state' = 1 THEN "in" ELSE "out"

\* update_poller.  With nothing to send it leaves the poller as it is.
UpdatePoller ==
  events' = IF state' = 1 THEN "in" ELSE IF outq_len' > 0 THEN "out" ELSE events

\* remove_and_add_source: what replaces the source s with the outputs outs.
Replacement(s, outs) ==
  <<RemoveSource(s), AddSource(s)>> \o [k \in DOMAIN outs |-> AddOutput(s, outs[k])]

\* The outputs of a source, of which none is there twice.
OutputLists == {outs \in BoundedSeq(Outputs, OutqLen) : IsInjective(outs)}

Batches == {Replacement(s, outs) : s \in Sources, outs \in OutputLists}

\* Puts in what there is room for.
PutPart(s, outs) ==
  LET all == Replacement(s, outs)
      batch == SubSeq(all, 1, Min({Len(all), OutqLen - outq_len}))
  IN /\ outq' = [i \in Place |-> IF Ahead(i, outq_wp) < Len(batch)
                                 THEN batch[Ahead(i, outq_wp) + 1] ELSE outq[i]]
     /\ outq_wp' = Step(outq_wp, Len(batch))
     /\ outq_len' = outq_len + Len(batch)
     /\ UNCHANGED <<outq_rp, state, last, request>>
     /\ UpdatePoller

\* All commands, or none when there is no room for all: bsr_memreq_free_len
\* is looked at first, then bsr_memreq_next_cmd_buf gives the buffers.
Put(s, outs) ==
  LET batch == Replacement(s, outs)
  IN /\ Len(batch) <= OutqLen - outq_len
     /\ outq' = [i \in Place |-> IF Ahead(i, outq_wp) < Len(batch)
                                 THEN batch[Ahead(i, outq_wp) + 1] ELSE outq[i]]
     /\ outq_wp' = Step(outq_wp, Len(batch))
     /\ outq_len' = outq_len + Len(batch)
     /\ UNCHANGED <<outq_rp, state, last, request>>
     /\ UpdatePoller

\* bsr_memreq_handle_event in state 0.  A REQ socket is ready for output
\* when no reply is outstanding.
Send ==
  /\ state = 0
  /\ events = "out" /\ request = "none"
  /\ outq_len > 0
  /\ last' = outq[outq_rp]
  /\ request' = "asked"
  /\ outq_rp' = Step(outq_rp, 1)
  /\ outq_len' = outq_len - 1
  /\ state' = 1
  /\ UNCHANGED <<outq, outq_wp>>
  /\ UpdatePoller

\* bsr_memreq_handle_event in state 1.
Receive ==
  /\ state = 1
  /\ events = "in" /\ request = "answered"
  /\ request' = "none"
  /\ state' = 0
  /\ UNCHANGED <<ring, last>>
  /\ UpdatePoller

\* The command channel replies.
Answer ==
  /\ request = "asked"
  /\ request' = "answered"
  /\ UNCHANGED <<ring, state, events, last>>

HandleEvent == Send \/ Receive

Next ==
  \/ \E s \in Sources, outs \in OutputLists : Put(s, outs)
  \/ HandleEvent
  \/ Answer

Spec == Init /\ [][Next]_vars

\* The poller reports what is ready, and the command channel answers.
FairSpec == Spec /\ WF_vars(HandleEvent) /\ WF_vars(Answer)
-----------------------------------------------------------------------------
(* Properties.                                                             *)

\* What is still to be sent, in order.
Queue == [k \in 1..outq_len |-> outq[Step(outq_rp, k - 1)]]

CQ == INSTANCE CommandQueue
        WITH Initial <- {<<>>}, Batches <- Batches, Cap <- OutqLen, queue <- Queue,
             asked <- IF state = 1 THEN last ELSE NoCommand

\* The ring is the queue: batches go in whole, commands come out in order and
\* unchanged, wherever the pointers wrap around, and none is sent before the
\* reply to the one before.
Implements == CQ!Spec

\* An event that the handler has no use for is an error, which ends the
\* thread (bsr_memreq.c:72): none comes.
NoSpuriousEvent ==
  state = 0 =>
    /\ ~(events = "in" /\ request = "answered")
    /\ events = "out" /\ request = "none" => outq_len > 0

\* A source whose removal was sent is always the next to be added again: it
\* is never left out for want of room.
NoSourceLeftOut ==
  last.kind = "remove-source" =>
    outq_len > 0 /\ outq[outq_rp] = AddSource(last.source)

\* The pointers and the length agree, the poller looks for what the state
\* needs, and in what is to be sent each removal is followed by its addition.
Inv ==
  /\ Step(outq_rp, outq_len) = outq_wp
  /\ \A k \in 1..outq_len : Queue[k] \in Command
  /\ state = 1 <=> request # "none"
  /\ state = 1 => events = "in" /\ last \in Command
  /\ state = 0 => (events = "out" <=> outq_len > 0)
  /\ \A k \in 1..outq_len :
       Queue[k].kind = "remove-source" =>
         k < outq_len /\ Queue[k + 1] = AddSource(Queue[k].source)
  /\ NoSourceLeftOut

\* What is to be sent is sent, one after the other.
QueueMoves ==
  /\ state = 0 /\ outq_len > 0 ~> state = 1
  /\ state = 1 ~> state = 0
=============================================================================
