------------------------------ MODULE Repeater ------------------------------
(***************************************************************************)
(* The thread of the repeater (bsr_rep.c) and the command channel          *)
(* (bsr_cmdchn.c): one loop polls the command socket and the inputs of all *)
(* sources, and handles what it finds ready one after the other.  Commands *)
(* add and remove sources and outputs while a batch of events is handled.  *)
(*                                                                         *)
(* A source is its handler, on the heap: its address, its input socket and *)
(* the addresses of its outputs.  What a handler does with a message is in *)
(* Relay; here a message is read whole.  A closed socket goes away later,  *)
(* in another thread of libzmq: until then it counts against the limit of  *)
(* the sockets, and its address cannot be bound.                           *)
(*                                                                         *)
(* The dummy source is a handler without an input: what it sends is in     *)
(* DummySource.  A client may die while its command is under way, and ask  *)
(* again; the command socket may fail, or a reply, and it is opened again. *)
(***************************************************************************)
EXTENDS Integers, SequencesExt, Positions

CONSTANTS
  Sources,    \* the addresses of the sources, all of which zmq_connect accepts
  LongAddrs,  \* those of 80 characters and more
  Outputs,    \* the addresses an output can be bound to
  Ids,        \* the places on the heap for a handler
  Clients,    \* who sends commands
  MaxSockets, \* the limit of the sockets, without the command socket
  MaxEvents,  \* how many events one poll returns (64)
  MaxCmds,    \* bound: how many commands are sent
  MaxQueue,   \* bound: how many messages wait in an input
  MaxMsgs,    \* bound: how many messages the sources send; -1 for no end
  MaxRestarts,\* bound: how many times clients die
  MaxFaults   \* bound: how many times the command socket, or a reply, fails

\* An address that zmq_connect does not accept.
EmptyAddr == "empty"

DummyAddr == "dummy"

NoHandler == [addr |-> "none", outs |-> {}]

\* The user data of the command socket.
CmdHandler == "cmdhandler"

\* Where a request came from when its client is dead.
Gone == "gone"

ASSUME NamesAssumption ==
  /\ CmdHandler \notin Ids
  /\ {EmptyAddr, DummyAddr, NoHandler.addr} \intersect Sources = {}
  /\ Gone \notin Clients
ASSUME AddrsAssumption == LongAddrs \subseteq Sources
ASSUME LimitsAssumption == MaxSockets \in Nat /\ MaxEvents \in Nat \ {0}
ASSUME BoundsAssumption ==
  /\ MaxCmds \in Nat /\ MaxQueue \in Nat /\ MaxMsgs \in Nat \union {-1}
  /\ MaxRestarts \in Nat /\ MaxFaults \in Nat

VARIABLES
  heap,      \* the handlers, by their place; NoHandler where there is none
  list,      \* the handler list
  polled,    \* the user data of what is registered, in the poller's order
  cmdsock,   \* the command socket: bound, unbound, or none
  closing,   \* the output addresses of closed sockets that are still there
  reaping,   \* how many other closed sockets are still there
  queued,    \* by handler: the messages in its input
  msgs,      \* how many messages the sources have sent
  waiting,   \* the clients that wait for a reply
  cmdq,      \* whose requests are in the command socket
  cmds,      \* how many commands were sent
  restarts,  \* how many times clients died
  faults,    \* how many times the command socket, or a reply, failed
  pc,        \* where the thread is
  batch,     \* the events that are left of the last poll, by user data
  request,   \* the request that is handled, and who sent it
  exiting,   \* the command channel reports CmdExit
  stop

handlers == <<heap, list, polled, cmdsock, closing, reaping>>
bounds == <<cmds, restarts, faults>>
world == <<queued, msgs, waiting, cmdq, bounds>>
loop == <<pc, batch, request, exiting, stop>>
vars == <<handlers, world, loop>>

Handler == [addr : Sources \union {DummyAddr}, outs : SUBSET Outputs]

SourceCommand == {"add-source", "remove-source", "reconnect-source"}
OutputCommand == {"add-output", "remove-output"}

TextCommand == [kind : SourceCommand, source : Sources]
                 \union [kind : OutputCommand, source : Sources, output : Outputs]
                 \union [kind : {"exit", "query"}]

\* What parse_json_command makes of a document of a kind.  One of no kind it
\* knows is answered like a query; remove-source and exit leave the command as
\* it was zeroed: it adds the source with the empty address.
JsonCommand(kind, a, o) ==
  CASE kind = "add-source" -> [kind |-> kind, source |-> a]
    [] kind = "add-output" -> [kind |-> kind, source |-> a, output |-> o]
    [] kind = "dummy-source-start" -> [kind |-> kind]
    [] kind \in {"remove-source", "exit"} ->
         [kind |-> "add-source", source |-> EmptyAddr]
    [] OTHER -> [kind |-> "query"]

JsonKind ==
  {"add-source", "add-output", "remove-source", "exit", "dummy-source-start", "other"}

Command ==
  TextCommand \union {JsonCommand(kind, a, o) : kind \in JsonKind, a \in Sources, o \in Outputs}

Sender == Clients \union {Gone}
NoRequest == [from |-> Gone, command |-> [kind |-> "query"]]

Places == {"poll", "dispatch", "commands", "performing", "unanswered", "reading",
           "ended", "failed"}
Over == pc \in {"ended", "failed"}

Live == {h \in Ids : heap[h] # NoHandler}
Bound == UNION {heap[h].outs : h \in Live}
Inputs == Range(polled) \ {CmdHandler}
Dummies == {h \in Live : heap[h].addr = DummyAddr}
SocketsInUse == Cardinality(Inputs) + Cardinality(Dummies)
                  + Cardinality(Bound \union closing) + reaping
SocketLeft == SocketsInUse < MaxSockets

TypeOK ==
  /\ heap \in [Ids -> Handler \union {NoHandler}]
  /\ list \in Seq(Ids)
  /\ polled \in Seq(Ids \union {CmdHandler})
  /\ cmdsock \in {"bound", "unbound", "none"}
  /\ closing \subseteq Outputs
  /\ reaping \in Nat
  /\ queued \in [Ids -> 0..MaxQueue]
  /\ msgs \in Nat
  /\ waiting \subseteq Clients
  /\ cmdq \in Seq(Sender)
  /\ cmds \in 0..MaxCmds
  /\ restarts \in 0..MaxRestarts
  /\ faults \in 0..MaxFaults
  /\ pc \in Places
  /\ batch \in Seq(Ids \union {CmdHandler})
  /\ request \in [from : Sender, command : Command]
  /\ exiting \in BOOLEAN
  /\ stop \in BOOLEAN

Init ==
  /\ heap = [h \in Ids |-> NoHandler]
  /\ list = <<>>
  /\ polled = <<CmdHandler>>
  /\ cmdsock = "bound"
  /\ closing = {}
  /\ reaping = 0
  /\ queued = [h \in Ids |-> 0]
  /\ msgs = 0
  /\ waiting = {}
  /\ cmdq = <<>>
  /\ cmds = 0
  /\ restarts = 0
  /\ faults = 0
  /\ pc = "poll"
  /\ batch = <<>>
  /\ request = NoRequest
  /\ exiting = FALSE
  /\ stop = FALSE
-----------------------------------------------------------------------------
(* Clients, sources, and libzmq's other threads.                           *)

\* A REQ socket: the client waits for the reply before it sends again.
\* Nothing comes of what is sent when the thread is over.
SendCommand(c) ==
  /\ ~Over
  /\ cmds < MaxCmds
  /\ c \notin waiting
  /\ waiting' = waiting \union {c}
  /\ cmdq' = Append(cmdq, c)
  /\ cmds' = cmds + 1
  /\ UNCHANGED <<handlers, queued, msgs, restarts, faults, loop>>

\* A client dies, and another takes its place, which may ask the same again.
\* Its request is lost, or handled when nobody waits for the reply.
ClientRestarts(c) ==
  /\ ~Over
  /\ restarts < MaxRestarts
  /\ c \in waiting
  /\ waiting' = waiting \ {c}
  /\ \/ cmdq' = RemoveFirst(cmdq, c)
     \/ cmdq' = [i \in DOMAIN cmdq |-> IF cmdq[i] = c THEN Gone ELSE cmdq[i]]
  /\ request' = IF request.from = c THEN [request EXCEPT !.from = Gone] ELSE request
  /\ restarts' = restarts + 1
  /\ UNCHANGED <<handlers, queued, msgs, cmds, faults, pc, batch, exiting, stop>>

SourceSends(h) ==
  /\ h \in Inputs
  /\ queued[h] < MaxQueue
  /\ msgs # MaxMsgs
  /\ msgs' = IF MaxMsgs = -1 THEN msgs ELSE msgs + 1
  /\ queued' = [queued EXCEPT ![h] = @ + 1]
  /\ UNCHANGED <<handlers, waiting, cmdq, bounds, loop>>

Reap ==
  /\ \/ /\ reaping > 0
        /\ reaping' = reaping - 1
        /\ UNCHANGED closing
     \/ /\ \E o \in closing : closing' = closing \ {o}
        /\ UNCHANGED reaping
  /\ UNCHANGED <<heap, list, polled, cmdsock, world, loop>>
-----------------------------------------------------------------------------
(* What the commands do.                                                   *)

\* handler_list_find_by_input_addr: the first handler with the address, if
\* any.  A stored address is cut at 79 characters, so it never equals a
\* longer one.
Find(a) ==
  LET found == {i \in DOMAIN list : heap[list[i]].addr = a /\ a \notin LongAddrs}
  IN IF found = {} THEN {} ELSE {list[Min(found)]}

\* An addition that does not search first.
AddSourceAgain(a) ==
  \/ /\ SocketLeft
     /\ \E h \in Ids \ Live :
          /\ heap' = [heap EXCEPT ![h] = [addr |-> a, outs |-> {}]]
          /\ list' = Append(list, h)
          /\ polled' = Append(polled, h)
     /\ UNCHANGED <<cmdsock, closing, reaping, queued>>
  \/ /\ ~SocketLeft
     /\ UNCHANGED <<handlers, queued>>

\* A handler that cannot connect is freed again, and its socket closed.
AddSource(a) ==
  \/ /\ Find(a) = {}
     /\ \E h \in Ids \ Live :
          /\ SocketLeft /\ a # EmptyAddr
          /\ heap' = [heap EXCEPT ![h] = [addr |-> a, outs |-> {}]]
          /\ list' = Append(list, h)
          /\ polled' = Append(polled, h)
     /\ UNCHANGED <<cmdsock, closing, reaping, queued>>
  \/ /\ Find(a) = {} /\ Live # Ids
     /\ SocketLeft /\ a = EmptyAddr
     /\ reaping' = reaping + 1
     /\ UNCHANGED <<heap, list, polled, cmdsock, closing, queued>>
  \/ /\ Find(a) # {} \/ (Live # Ids /\ ~SocketLeft)
     /\ UNCHANGED <<handlers, queued>>

\* A socket that cannot be bound is closed again.
AddOutput(a, o) ==
  \/ \E h \in Find(a) :
       /\ SocketLeft /\ o \notin Bound \union closing
       /\ heap' = [heap EXCEPT ![h].outs = @ \union {o}]
       /\ UNCHANGED <<list, polled, cmdsock, closing, reaping, queued>>
  \/ /\ Find(a) # {} /\ SocketLeft /\ o \in Bound \union closing
     /\ reaping' = reaping + 1
     /\ UNCHANGED <<heap, list, polled, cmdsock, closing, queued>>
  \/ /\ Find(a) = {} \/ ~SocketLeft
     /\ UNCHANGED <<handlers, queued>>

\* A cleanup that forgets the poller.
CleanupStillPolled(h) ==
  /\ heap' = [heap EXCEPT ![h] = NoHandler]
  /\ polled' = polled
  /\ closing' = closing \union heap[h].outs
  /\ reaping' = IF h \in Inputs THEN reaping + 1 ELSE reaping
  /\ queued' = [queued EXCEPT ![h] = 0]

\* cleanup_struct_Handler and free: the sockets of the handler are closed;
\* events of this batch may still point to it.
Cleanup(h) ==
  /\ heap' = [heap EXCEPT ![h] = NoHandler]
  /\ polled' = RemoveFirst(polled, h)
  /\ closing' = closing \union heap[h].outs
  /\ reaping' = IF h \in Inputs THEN reaping + 1 ELSE reaping
  /\ queued' = [queued EXCEPT ![h] = 0]

\* A removal that refuses while there are outputs.
RemoveSourceUnused(a) ==
  \/ \E h \in Find(a) :
       /\ heap[h].outs = {} /\ Cleanup(h) /\ list' = RemoveFirst(list, h)
       /\ UNCHANGED cmdsock
  \/ /\ \A h \in Find(a) : heap[h].outs # {}
     /\ UNCHANGED <<handlers, queued>>

\* handler_list_remove.
RemoveSource(a) ==
  \/ /\ \E h \in Find(a) : Cleanup(h) /\ list' = RemoveFirst(list, h)
     /\ UNCHANGED cmdsock
  \/ /\ Find(a) = {}
     /\ UNCHANGED <<handlers, queued>>

\* A removal that closes the socket and keeps the output in the list.
RemoveOutputListed(a, o) ==
  \/ \E h \in Find(a) :
       /\ closing' = closing \union (heap[h].outs \intersect {o})
       /\ UNCHANGED <<heap, list, polled, cmdsock, reaping, queued>>
  \/ /\ Find(a) = {}
     /\ UNCHANGED <<handlers, queued>>

RemoveOutput(a, o) ==
  \/ \E h \in Find(a) :
       /\ heap' = [heap EXCEPT ![h].outs = @ \ {o}]
       /\ closing' = closing \union (heap[h].outs \intersect {o})
       /\ UNCHANGED <<list, polled, cmdsock, reaping, queued>>
  \/ /\ Find(a) = {}
     /\ UNCHANGED <<handlers, queued>>

\* A reconnect that forgets to register the new socket.
ReconnectSourceUnpolled(a) ==
  \/ \E h \in Find(a) \intersect Range(polled) :
       /\ polled' = RemoveFirst(polled, h)
       /\ reaping' = reaping + 1
       /\ queued' = [queued EXCEPT ![h] = 0]
       /\ UNCHANGED <<heap, list, cmdsock, closing>>
  \/ /\ Find(a) \intersect Range(polled) = {}
     /\ UNCHANGED <<handlers, queued>>

\* The old socket is closed before the new one is made; without a new one
\* the handler stays, without an input, and cannot be reconnected again.
ReconnectSource(a) ==
  \/ \E h \in Find(a) \intersect Range(polled) :
       /\ polled' = IF SocketLeft THEN Append(RemoveFirst(polled, h), h)
                    ELSE RemoveFirst(polled, h)
       /\ reaping' = reaping + 1
       /\ queued' = [queued EXCEPT ![h] = 0]
       /\ UNCHANGED <<heap, list, cmdsock, closing>>
  \/ /\ Find(a) \intersect Range(polled) = {}
     /\ UNCHANGED <<handlers, queued>>

\* The address of the dummy source is a constant: a second one, or one whose
\* port somebody else has, cannot be bound, and its socket is closed again.
DummySourceStart ==
  \/ /\ SocketLeft /\ Dummies = {}
     /\ \E h \in Ids \ Live :
          /\ heap' = [heap EXCEPT ![h] = [addr |-> DummyAddr, outs |-> {}]]
          /\ list' = Append(list, h)
     /\ UNCHANGED <<polled, cmdsock, closing, reaping, queued>>
  \/ /\ SocketLeft /\ Live # Ids
     /\ reaping' = reaping + 1
     /\ UNCHANGED <<heap, list, polled, cmdsock, closing, queued>>
  \/ /\ ~SocketLeft /\ Live # Ids
     /\ UNCHANGED <<handlers, queued>>

Perform(command) ==
  CASE command.kind = "add-source" -> AddSource(command.source)
    [] command.kind = "remove-source" -> RemoveSource(command.source)
    [] command.kind = "reconnect-source" -> ReconnectSource(command.source)
    [] command.kind = "add-output" -> AddOutput(command.source, command.output)
    [] command.kind = "remove-output" -> RemoveOutput(command.source, command.output)
    [] command.kind = "dummy-source-start" -> DummySourceStart
    [] OTHER -> UNCHANGED <<handlers, queued>>
-----------------------------------------------------------------------------
(* The loop of the thread.                                                 *)

\* All handlers are freed and all sockets closed when the thread ends.
Leave(how) ==
  /\ pc' = how
  /\ heap' = [h \in Ids |-> NoHandler]
  /\ list' = <<>>
  /\ polled' = <<>>
  /\ cmdsock' = "none"
  /\ closing' = closing \union Bound
  /\ reaping' = reaping + Cardinality(Inputs) + Cardinality(Dummies)
                         + (IF cmdsock = "none" THEN 0 ELSE 1)
  /\ queued' = [h \in Ids |-> 0]
  /\ batch' = <<>>
  /\ request' = NoRequest
  /\ UNCHANGED <<msgs, waiting, cmdq, bounds, exiting, stop>>

StopLoop == pc = "poll" /\ stop /\ Leave("ended")

\* zmq_poller_wait_all reports what is ready in the order of registration,
\* and no more than MaxEvents.
IsReady(h) == IF h = CmdHandler THEN cmdq # <<>> ELSE queued[h] > 0
Ready ==
  LET at == Ascending({i \in DOMAIN polled : IsReady(polled[i])})
  IN [k \in DOMAIN at |-> polled[at[k]]]

Poll ==
  /\ pc = "poll"
  /\ ~stop
  /\ Ready # <<>>
  /\ batch' = SubSeq(Ready, 1, Min({MaxEvents, Len(Ready)}))
  /\ pc' = "dispatch"
  /\ UNCHANGED <<handlers, world, request, exiting, stop>>

\* Any error of the poller, an interrupted call included, ends the thread.
PollFails == pc = "poll" /\ ~stop /\ Leave("failed")

\* An event that is ignored, and never left behind.
DispatchStuck ==
  /\ pc = "dispatch"
  /\ \/ /\ batch = <<>>
        /\ pc' = "poll"
        /\ UNCHANGED <<handlers, world, batch, request, exiting, stop>>
     \/ /\ batch # <<>>
        /\ Head(batch) = CmdHandler
        /\ pc' = "commands"
        /\ exiting' = FALSE
        /\ UNCHANGED <<handlers, world, batch, request, stop>>
     \/ /\ batch # <<>>
        /\ Head(batch) \in Inputs
        /\ pc' = "reading"
        /\ UNCHANGED <<handlers, world, batch, request, exiting, stop>>

\* handlers_handle_msg.  What a freed handler is taken for depends on what
\* the heap holds there now: the event is ignored, or its handling fails.  A
\* dummy source in its place has no events to handle.
Dispatch ==
  /\ pc = "dispatch"
  /\ \/ /\ batch = <<>>
        /\ pc' = "poll"
        /\ UNCHANGED <<handlers, world, batch, request, exiting, stop>>
     \/ /\ batch # <<>>
        /\ Head(batch) = CmdHandler
        /\ pc' = "commands"
        /\ exiting' = FALSE
        /\ UNCHANGED <<handlers, world, batch, request, stop>>
     \/ /\ batch # <<>>
        /\ Head(batch) \in Inputs
        /\ pc' = "reading"
        /\ UNCHANGED <<handlers, world, batch, request, exiting, stop>>
     \/ /\ batch # <<>>
        /\ Head(batch) \in (Ids \ Live) \union Dummies
        /\ batch' = Tail(batch)
        /\ UNCHANGED <<handlers, world, pc, request, exiting, stop>>
     \/ /\ batch # <<>>
        /\ Head(batch) \in Ids \ (Inputs \union Dummies)
        /\ Leave("failed")

Current == request.command

\* What a request asks for is not looked at before it is received.
ReceiveCommand ==
  /\ pc = "commands"
  /\ cmdsock = "bound"
  /\ cmdq # <<>>
  /\ \E command \in Command : request' = [from |-> Head(cmdq), command |-> command]
  /\ cmdq' = Tail(cmdq)
  /\ pc' = "performing"
  /\ UNCHANGED <<handlers, queued, msgs, waiting, bounds, batch, exiting, stop>>

\* The client gets the reply, if it still waits.
Answered ==
  /\ waiting' = waiting \ {request.from}
  /\ pc' = "commands"
  /\ UNCHANGED faults

\* The reply cannot be sent, which nobody looks at: the client waits on, and
\* the socket cannot receive before it has sent.
Unanswered ==
  /\ faults < MaxFaults
  /\ faults' = faults + 1
  /\ pc' = "unanswered"
  /\ UNCHANGED waiting

\* A command that is done and not answered.
HandleCommandSilent ==
  /\ pc = "performing"
  /\ Perform(Current)
  /\ exiting' = (exiting \/ Current.kind = "exit")
  /\ request' = NoRequest
  /\ pc' = "commands"
  /\ UNCHANGED <<msgs, waiting, cmdq, bounds, batch, stop>>

\* A round that remembers its last command only.
HandleCommandForgets ==
  /\ pc = "performing"
  /\ Perform(Current)
  /\ exiting' = (Current.kind = "exit")
  /\ request' = NoRequest
  /\ Answered \/ Unanswered
  /\ UNCHANGED <<msgs, cmdq, cmds, restarts, batch, stop>>

\* One round of bsr_cmdchn_handle_event: a command is done, and a reply sent.
HandleCommand ==
  /\ pc = "performing"
  /\ Perform(Current)
  /\ exiting' = (exiting \/ Current.kind = "exit")
  /\ request' = NoRequest
  /\ Answered \/ Unanswered
  /\ UNCHANGED <<msgs, cmdq, cmds, restarts, batch, stop>>

\* A handler for which there is no memory ends the thread, and the command is
\* not answered.
NoMemory ==
  /\ pc = "performing"
  /\ Live = Ids
  /\ \/ Current.kind = "add-source" /\ Find(Current.source) = {}
     \/ Current.kind = "dummy-source-start"
  /\ Leave("failed")

Unpolled == RemoveFirst(polled, CmdHandler)

\* A new command socket: bound and registered last, or not bound, and then it
\* stays as it is: nothing calls for it any more.
Reopened ==
  \/ cmdsock' = "bound" /\ polled' = Append(Unpolled, CmdHandler)
  \/ cmdsock' = "unbound" /\ polled' = Unpolled

\* The command socket is closed, with what it holds, and opened again if there
\* are sockets left.
Reopen ==
  /\ cmdq' = <<>>
  /\ reaping' = reaping + 1
  /\ \/ SocketLeft /\ Reopened
     \/ ~SocketLeft /\ cmdsock' = "none" /\ polled' = Unpolled
  /\ UNCHANGED <<heap, list, closing, queued, msgs, waiting, cmds, restarts>>

\* A receive that fails; the handler tries the next.
CommandSocketFails ==
  /\ pc = "commands"
  /\ faults < MaxFaults
  /\ cmdsock # "none"
  /\ faults' = faults + 1
  /\ Reopen
  /\ UNCHANGED loop

\* Without a socket the next receive fails at once, so the handler tries
\* until another socket is gone.
ReopenAgain ==
  /\ pc = "commands"
  /\ cmdsock = "none"
  /\ SocketsInUse <= MaxSockets
  /\ Reopened
  /\ UNCHANGED <<heap, list, closing, reaping, world, loop>>

\* The rest of the batch is dropped when the command was to exit.
EndRound ==
  /\ stop' = (stop \/ exiting)
  /\ batch' = IF exiting THEN <<>> ELSE Tail(batch)
  /\ pc' = "dispatch"
  /\ UNCHANGED <<request, exiting>>

CommandsDone ==
  /\ pc = "commands"
  /\ \/ cmdsock = "bound" /\ cmdq = <<>>
     \/ cmdsock = "unbound"
  /\ EndRound
  /\ UNCHANGED <<handlers, world>>

\* EFSM: a receive while the socket owes a reply.  The handler does not try
\* again, whether or not it got a new socket.
WrongState ==
  /\ pc = "unanswered"
  /\ Reopen
  /\ EndRound
  /\ UNCHANGED faults

\* A read without a look at what is there.
ReadNothing ==
  /\ pc = "reading"
  /\ queued' = [queued EXCEPT ![Head(batch)] = @ - 1]
  /\ UNCHANGED <<handlers, msgs, waiting, cmdq, bounds, loop>>

\* bsr_chnhandler_handle_event, message by message.
Read ==
  /\ pc = "reading"
  /\ queued[Head(batch)] > 0
  /\ queued' = [queued EXCEPT ![Head(batch)] = @ - 1]
  /\ UNCHANGED <<handlers, msgs, waiting, cmdq, bounds, loop>>

ReadAll ==
  /\ pc = "reading"
  /\ queued[Head(batch)] = 0
  /\ batch' = Tail(batch)
  /\ pc' = "dispatch"
  /\ UNCHANGED <<handlers, world, request, exiting, stop>>

\* An error in one handler ends the thread.
GiveUp == pc = "reading" /\ Leave("failed")

Thread == StopLoop \/ Poll \/ Dispatch \/ ReceiveCommand \/ HandleCommand \/ NoMemory
            \/ CommandSocketFails \/ ReopenAgain \/ CommandsDone \/ WrongState
            \/ Read \/ ReadAll \/ GiveUp

Next ==
  \/ \E c \in Clients : SendCommand(c) \/ ClientRestarts(c)
  \/ \E h \in Ids : SourceSends(h)
  \/ Reap
  \/ PollFails
  \/ Thread

Spec == Init /\ [][Next]_vars

\* The thread is scheduled, and so are those of libzmq.
FairSpec == Spec /\ WF_vars(Thread) /\ WF_vars(Reap)
-----------------------------------------------------------------------------
(* Properties.                                                             *)

\* The list, the heap and the poller agree: a handler that is not listed is
\* freed and not polled, none is listed or polled twice, and every one that is
\* listed was connected, or is the one dummy source.  The command socket is
\* polled while it is bound.  No address is bound by two outputs or by one that
\* is still closing.
Consistent ==
  /\ Range(list) = Live /\ IsInjective(list)
  /\ Inputs \subseteq Live \ Dummies /\ IsInjective(polled)
  /\ CmdHandler \in Range(polled) <=> cmdsock = "bound"
  /\ \A h \in Live \ Dummies : heap[h].addr # EmptyAddr
  /\ \A g, h \in Live : g # h => heap[g].outs \intersect heap[h].outs = {}
  /\ Bound \intersect closing = {}

\* A source is added once, however often and by whomever it is asked for, also
\* by a client that died and asks again.  One whose address is too long to be
\* found again is added each time.
NoSourceTwice ==
  \A g, h \in Live :
    heap[g].addr = heap[h].addr /\ heap[g].addr \notin LongAddrs => g = h

\* Whoever waits for a reply has one request under way, in the command socket
\* or performed right now, and nobody else has one: no reply goes to another
\* client, or to one that has it already.  A failure of the command socket
\* loses the requests it holds, one of a reply the reply, and the end of the
\* thread all of them.
OneRequestEach ==
  /\ Range(cmdq) \union {request.from} \subseteq waiting \union {Gone}
  /\ \A i, j \in DOMAIN cmdq : cmdq[i] = cmdq[j] /\ cmdq[i] # Gone => i = j
  /\ request.from # Gone => request.from \notin Range(cmdq)
  /\ faults = 0 /\ ~Over => waiting \subseteq Range(cmdq) \union {request.from}

\* Every handler that gets an event returns.  It does not where a source
\* sends faster than it reads.
HandlersReturn == []<>(pc \in {"poll", "dispatch"})

\* Every command is answered when no handler holds the thread for ever, also
\* while sources send without end, unless the thread ends first, or the
\* command socket failed, or a reply: then the requests in the socket are lost.
EveryCommandAnswered ==
  \A c \in Clients :
    HandlersReturn => (c \in waiting ~> (c \notin waiting \/ Over \/ faults > 0))

\* Only so many of those registered first are sure to be reported.
InReach(h) == \E i \in 1..Min({MaxEvents, Len(polled)}) : polled[i] = h

\* What waits in a source's input is read, unless the thread ends first, also
\* when the sources send without end, others are added and removed, and the
\* command socket fails and no new one can be bound: when no handler holds the
\* thread for ever, for the first MaxEvents (64) that are registered.
EverySourceRead ==
  \A h \in Ids :
    HandlersReturn => (queued[h] > 0 /\ InReach(h) ~> (queued[h] = 0 \/ Over))

\* The exit command ends the thread, also when other commands follow it in
\* the same round, its reply cannot be sent, or the command socket fails
\* after it.
ExitEnds == pc \in {"commands", "performing", "unanswered"} /\ exiting ~> Over

\* The command being performed in this step, and the handlers it is about.
Performing(kind) == HandleCommand /\ Current.kind = kind
Targeted == {h \in Live : heap[h].addr = Current.source}

\* readme.md: "Removes the given source as well as all associated outputs".
\* So it is for the addresses that are not too long to be found again.
RemoveSourceRemoves ==
  [][Performing("remove-source") /\ Current.source \notin LongAddrs
       => \A h \in Targeted : h \notin Live' /\ heap[h].outs \intersect Bound' = {}]_vars

\* The sources that commands can find, with their outputs.
Config ==
  [a \in {heap[h].addr : h \in Live} \ LongAddrs |->
     UNION {heap[h].outs : h \in {g \in Live : heap[g].addr = a}}]

RG == INSTANCE Registry
        WITH Addrs <- (Sources \union {DummyAddr}) \ LongAddrs,
             config <- Config, serving <- ~Over

\* Whatever sockets, memory and clients do: every command has its documented
\* effect on the sources and outputs as a whole before its client is answered,
\* and nothing else changes them.
ImplementsRegistry == RG!Spec

\* readme.md: "Block sources with too high event rate (free-running sources)".
\* They cannot keep a client from its reply.
FreeRunningAreBlocked ==
  \A c \in Clients : c \in waiting ~> (c \notin waiting \/ Over \/ faults > 0)

\* readme.md: "Creates a PUSH socket on the given OUTPUT".  It does when the
\* source is there, no output has the address, and there are sockets left.
AddOutputCreates ==
  [][Performing("add-output") /\ Current.output \notin Bound /\ SocketLeft
       => \A h \in Targeted : Current.output \in heap'[h].outs]_vars

\* readme.md: "Input sources [...] can be added and removed at runtime".  The
\* user data of an event is a handler, which still exists.
NoFreedHandlerDispatched ==
  pc = "dispatch" /\ batch # <<>> => Head(batch) \in Live \union {CmdHandler}

\* readme.md: "Messages will be always pulled from the source".  No step takes
\* the input from a source that stays in the list.  When the sockets have run
\* out, a reconnect closes the old one and gets no new one: this holds while
\* there are sockets left.
EverySourcePolled ==
  [][SocketLeft => Inputs \intersect Live' \subseteq Inputs']_vars
=============================================================================
