------------------------------- MODULE Fanout -------------------------------
(***************************************************************************)
(* What a source handler promises to the clients of its outputs: every     *)
(* output carries whole messages only, in the order in which the source    *)
(* sent them, each at most once.  An output may miss a message (it was not *)
(* attached yet, or it could not keep up), and what one output misses says *)
(* nothing about the others.                                               *)
(***************************************************************************)
EXTENDS Multipart

CONSTANTS Outputs,  \* the addresses an output can be bound to
          Parts     \* the part counts a message can have

VARIABLES
  attached,   \* the outputs that exist
  delivered,  \* what was handed to the clients of each output, in order
  last        \* the id of the last message that is over: replayed or lost

vars == <<attached, delivered, last>>

Init ==
  /\ attached = {}
  /\ delivered = [o \in Outputs |-> <<>>]
  /\ last = 0

Attach(o) ==
  /\ o \notin attached
  /\ attached' = attached \union {o}
  /\ UNCHANGED <<delivered, last>>

\* The client of a removed output is cut off; the address can be used again.
Detach(o) ==
  /\ o \in attached
  /\ attached' = attached \ {o}
  /\ delivered' = [delivered EXCEPT ![o] = <<>>]
  /\ UNCHANGED last

\* One message, later than all before, reaches some of the outputs, whole.
Replay ==
  /\ last' \in Nat
  /\ last' > last
  /\ \E n \in Parts, S \in SUBSET attached :
       delivered' = [o \in Outputs |->
                       IF o \in S
                       THEN Append(delivered[o], Frames([id |-> last', parts |-> n]))
                       ELSE delivered[o]]
  /\ UNCHANGED attached

\* Messages that were queued when the input was closed are gone.
Lose ==
  /\ last' \in Nat
  /\ last' > last
  /\ UNCHANGED <<attached, delivered>>

Next ==
  \/ \E o \in Outputs : Attach(o) \/ Detach(o)
  \/ Replay
  \/ Lose

Spec == Init /\ [][Next]_vars
=============================================================================
