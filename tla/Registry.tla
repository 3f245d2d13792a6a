------------------------------ MODULE Registry ------------------------------
(***************************************************************************)
(* What the command channel promises its clients: the sources, and on      *)
(* which outputs each is replayed, change by commands only, one at a time. *)
(* A command has its whole effect at one moment after its client asked and *)
(* before the client gets the reply, or, where sockets may be missing, no  *)
(* effect.  A reply may be lost; its client waits on.  No output serves    *)
(* two sources.  When the thread ends all is gone, and nobody is answered  *)
(* any more.                                                               *)
(***************************************************************************)
CONSTANTS
  Addrs,      \* the addresses of sources that can be found again
  DummyAddr,  \* that of the dummy source
  Command,    \* what can be asked for
  Clients,
  Gone,       \* who asked, when the client died
  NoRequest

VARIABLES
  config,   \* by the address of a source: its outputs
  waiting,  \* the clients that wait for a reply
  request,  \* the request that is handled
  serving   \* the thread runs

vars == <<config, waiting, request, serving>>

Taken == UNION {config[a] : a \in DOMAIN config}
With(a, outs) == [b \in DOMAIN config \union {a} |-> IF b = a THEN outs ELSE config[b]]
Without(a) == [b \in DOMAIN config \ {a} |-> config[b]]

Init ==
  /\ config = [a \in {} |-> {}]
  /\ waiting = {}
  /\ request = NoRequest
  /\ serving = TRUE
-----------------------------------------------------------------------------
(* What the commands do.                                                   *)

AddSource(a) ==
  \/ a \in Addrs \ DOMAIN config /\ config' = With(a, {})
  \/ UNCHANGED config

RemoveSource(a) == config' = Without(a)

AddOutput(a, o) ==
  \/ a \in DOMAIN config /\ o \notin Taken /\ config' = With(a, config[a] \union {o})
  \/ UNCHANGED config

RemoveOutput(a, o) ==
  IF a \in DOMAIN config THEN config' = With(a, config[a] \ {o}) ELSE UNCHANGED config

Effect(command) ==
  CASE command.kind = "add-source" -> AddSource(command.source)
    [] command.kind = "remove-source" -> RemoveSource(command.source)
    [] command.kind = "add-output" -> AddOutput(command.source, command.output)
    [] command.kind = "remove-output" -> RemoveOutput(command.source, command.output)
    [] command.kind = "dummy-source-start" -> AddSource(DummyAddr)
    [] OTHER -> UNCHANGED config
-----------------------------------------------------------------------------
Ask(c) ==
  /\ c \notin waiting
  /\ waiting' = waiting \union {c}
  /\ UNCHANGED <<config, request, serving>>

\* A client dies; what it asked for is forgotten or done.
Die(c) ==
  /\ c \in waiting
  /\ waiting' = waiting \ {c}
  /\ request' = IF request.from = c THEN [request EXCEPT !.from = Gone] ELSE request
  /\ UNCHANGED <<config, serving>>

Begin ==
  /\ request = NoRequest
  /\ \E c \in waiting \union {Gone}, command \in Command :
       request' = [from |-> c, command |-> command]
  /\ UNCHANGED <<config, waiting, serving>>

\* The command is done, and its reply sent or lost.
Answer ==
  /\ Effect(request.command)
  /\ waiting' \in {waiting, waiting \ {request.from}}
  /\ request' = NoRequest
  /\ UNCHANGED serving

End ==
  /\ config' = [a \in {} |-> {}]
  /\ request' = NoRequest
  /\ serving' = FALSE
  /\ UNCHANGED waiting

Next == serving /\ ((\E c \in Clients : Ask(c) \/ Die(c)) \/ Begin \/ Answer \/ End)

Spec == Init /\ [][Next]_vars
=============================================================================
