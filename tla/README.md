# bsreadrepeater in TLA+

The repeater (`src/src/*.c`) pulls multipart ZeroMQ messages from its sources
and replays each on the outputs configured for the source. One thread polls
the command socket and the inputs of all sources; commands that arrive on the
command socket, or from a startup file, add and remove sources and outputs
while it runs. This directory holds TLA+ models of it, TLC configurations that
check them on small instances, and proofs for TLAPS.

## 1. The parts of the system

| Part | Code | State | Operations | Module |
|---|---|---|---|---|
| source handler | `bsr_chnhandler.c` | input socket, position in the current multipart message (`more_last`, `mpc`, `mpmsgc`), list of outputs with their blocking flags and counters | `handle_event`, `add_out`, `remove_out`, `reopen_input`, `connect`, `cleanup` | `Relay`, `Repeater` |
| command channel | `bsr_cmdchn.c` | REP socket, handler list | `handle_event`: one round per queued command; list add, remove, find; reopening of the socket | `Repeater` |
| main loop | `bsr_rep.c:165-366` | poller, the batch of events, `stop` | poll, dispatch, leave | `Repeater` |
| startup commands | `bsr_startupcmd.c` | file, buffer of 256 bytes, REQ socket, `state` | `handle_event` in READING, SENDING, RECEIVING | `StartupCmd` |
| life cycle | `bsr_rep.c`, `main.c` | two threads, `thread_created`, `stop`, `polls_count`, open sockets, context | init, start, wait, cleanup; setup step by step, loop, closing | `Lifecycle` |
| dummy source | `bsr_dummy_source.c` | PUSH socket, timer, global `ptype` | start by a command; timer callback | `Repeater`; `DummySource` |
| command splitting | `bsr_str.c` | none | `bsr_str_split` | `StartupCmd` |
| JSON commands | `bsr_json_commands.cpp` | none | parse a command | `Repeater` (`JsonCommand`) |
| memory request queue | `bsr_memreq.c`, `bsr_rep.c:76-104` | ring of 12 commands, REQ socket | put a batch in, handle event | `MemReq` |
| timed events, throttling | `bsr_timed_events.c` | tree of times | add, most recent | no: throttling is never switched on (`bsr_chnhandler.c:600`) |
| header parser | `bsr_json.cpp` | channel map | parse headers | no: `do_parse_header` is 0 (`bsr_chnhandler.c:116`) |
| statistics, averages | `bsr_stats.c`, `bsr_ema.c` | counters, floating point | update, print | no |
| socket helpers | `bsr_sockhelp.c`, `bsr_poller.c`, `hex.c` | none | wrappers | no |

**How they interact.** The parts of the repeater run in one thread and call
each other. What makes it hard lies between the calls:

- *Batches.* `zmq_poller_wait_all` returns up to 64 events, each with a pointer
  to a handler. The command channel, handled in the middle of a batch, may free
  the handlers that later events of the batch point to.
- *Partial hand-off.* A frame is offered to every output in turn. Each may
  take it, refuse it (`EAGAIN`), or lose its client in the middle of a
  message; the others must not notice.
- *Asynchronous close.* A closed socket keeps its address, and its place
  among the sockets of the context, until another thread of libzmq reaps it.
- *Request and reply.* Clients, the startup file among them, wait for a reply
  to each command. Whoever does not get one waits for ever. A client that dies
  in between may ask the same again.
- *The command socket fails*, is closed with the requests it holds, and is
  opened again, which may fail too.
- *Positions that outlive a callback.* The dummy source goes on at the next
  tick from the frame that was refused, whoever is there then.
- *Rings.* The pointers of the memory request queue wrap around, each at its
  own time, and a batch of commands must not be cut by lack of room (the code that
  would fill it is compiled out at this commit).
- *Reading in pieces.* The startup file is cut wherever a `read` ends.
- *Two threads.* The main thread starts the repeater's, waits for it or tells
  it to stop, and frees what it reads. The thread may be anywhere in its setup, and
  every step of the setup may fail. It ends only when `zmq_ctx_term` returns,
  which waits for sockets nobody closed and requests nobody took.

What must hold for each part is listed in section 4; the hazards behind it,
line by line, are in `PROJECT.json`.

## 2. The modules

**`Multipart`** - messages, frames, the "more" flag.

**`Fanout`** - what a source handler promises, as an abstract specification:
each output passes on a sequence of whole messages whose numbers increase.
Messages may be missing, but nothing is torn, doubled, or out of order.

**`Relay`** - one source handler. The loop of `bsr_chnhandler_handle_event` is
one action per round: `Receive` (a frame is read and offered to every output
that is not blocked, with the resets at the end of a message, all in one
step, as no other code of the repeater runs in between), `Drained`, and the error paths `RecvError`,
`SendError` and too many parts. `AddOut`, `RemoveOut` and `ReopenInput` are
what commands do to a handler; they run between two events (`phase = "poll"`).
libzmq's sockets are the variables `inbox`, `rd`, `pipe`, `swallowing` and
`delivered`: an input hands over whole messages; an output takes a frame or
refuses it, at will. `swallowing` is libzmq's `_dropping`: a client can leave in
the middle of a message in two ways. When it is gone before the next frame is
offered (`ClientLeaves`), the frames it has are gone, and the socket swallows
what is offered next, up to the end of a message, and reports it as sent. When it is
about to go, the next frame is refused; with the "more" flag on it, the socket swallows
from the next frame on (`broken` in `HandOut`). The handler offers a blocked
output nothing more of the message, so that what is swallowed then is the whole of
the next one, and `swallowing` lasts from one event to another. `DummySource` has
the same socket. `lost`, `since` and `swallowed` are history.
The numeric overflow of the counters (64 bits) is out of reach and left out.

**`Repeater`** - the main loop, the command channel and the handler list.
`Poll` takes a batch from what is ready, in the order of registration;
`Dispatch` picks what its first event needs. A round of the command channel is
`ReceiveCommand`, which chooses what the request asks for when it is received
(nothing looks at it before), and `HandleCommand`: the
whole effect of the command and its reply. The reply may not be sent
(`Unanswered`), which the code does not look at: the next receive finds the socket
in the wrong state (`WrongState`), which opens it again and ends the round. `Read` is one message of a source,
`ReadAll` the end of its loop (what happens to a message is in `Relay`), and
`GiveUp` any error of a source handler. `heap`, `list` and `polled` are the
three places that know a handler: the memory, the handler list, and the poller.
`closing` and `reaping` are the closed sockets that are not gone yet.
When the user data of an event was freed, `Dispatch` ignores the event or
fails; when a new handler is in the same place, it is served.

What fails: `SocketLeft` is false when the sockets have run out, at any command that
needs one; `NoMemory` is a handler that cannot be allocated; `PollFails` any
error of the poller; `CommandSocketFails` a failed receive, after which the
command socket is opened again (`Reopened`), or not for want of a socket, and
then tried until one is free (`ReopenAgain`). `ClientRestarts` is a client
that dies while it waits: its request is lost or performed for nobody
(`Gone`), and the client may ask again. The dummy source is a handler without an input, of which there can be one.
`JsonCommand` says what a JSON document makes the channel do: the kinds
`exit` and `remove-source` fall through and add a source with an empty address,
which cannot connect.

**`Registry`** - what the command channel promises its clients, as an abstract
specification: the sources and the outputs of each as one function, changed by
commands only, one at a time. A command has its whole effect at one moment
between its receipt and its reply (which may be lost), or none where sockets may be missing (an
addition); a removal always has it. No output serves two sources. `Repeater`
maps its handlers to it (`Config`), but those whose address is too long to be found
again; reconnecting a source, reading, polling, and a failing command socket are
steps that change nothing of it.

**`DummySource`** - the timer callback of the dummy source. `Tick` begins it,
`Accepted` is a frame the PUSH socket took, `Refused` ends the callback and
keeps the position `ptype`. Clients come, take messages and leave at any time;
`swallowing` and `broken` are what libzmq does when the client of an
incomplete message leaves. `began` is history.

**`StartupCmd`** - the handler of the startup file, byte by byte with four
kinds of bytes (newline, `#`, comma, other). `Read` reads any number of bytes that
fit, `ReadEnd` is `read` returning 0, `Send` and `SendNothing` are a scan of
the buffer with and without a command in it, `Receive` takes the reply.
`Split` is how the command channel cuts a command into its fields.

**`Positions`** - the positions of a set in ascending order, as a loop over a
sequence meets them: the lines of the file, the commas of a command, the
sockets of the poller that are ready.

**`CommandQueue`** - what the two parts promise that send commands from within
the process, as an abstract specification: commands are sent one by one, in
order, each after the reply to the one before. The memory request queue takes
batches of them whole or not at all while it runs; the handler of the startup
file has all of them from the start (`Initial`), and takes none.

**`MemReq`** - the ring of command buffers. `Put` is what the idle check does to
replace a source (`remove_and_add_source`), `Send` and `Receive` are the two
states of the event handler, `UpdatePoller` is called at the end of each. The
idle check is compiled out at this commit (`if (FALSE)`, `bsr_rep.c:131` and `:324`):
the queue is set up and polled, and nothing is ever put into it. What is checked of
it holds for the code as it stands there, ready to be switched on, and no hazard is listed for it.

**`Lifecycle`** - the main thread (`main_inner` and the tests: `waits` is
whether they wait for the thread or go on to the cleanup at once) and the thread of the
repeater from its creation to `zmq_ctx_term`. Each step of the setup succeeds
or `GiveUp`s; the compiler's cleanup attributes are `CloseCommand`, `CloseList`
and `TermContext`, in the reverse order of the declarations. `listed` are the
sockets whose handlers the list owns: a handler whose init failed is freed with
its socket open (`cleanup_free_struct_Handler`). A round of the loop is
`LoopPolls`. `connectable` is false for an address that libzmq binds and does not connect to,
such as `tcp://*:4242`; `pending` and `Transmit` are libzmq's, whose I/O thread
transmits a request for as long as there is a socket to take it. Failures of the
poller's own calls (out of memory) are left out, and so are those of
`pthread_join`.

`RelayProofs`, `RepeaterProofs`, `StartupCmdProofs`, `LifecycleProofs`,
`MemReqProofs` and `DummySourceProofs` hold the theorems, `ListLemmas` what they
need of sequences and of least and greatest elements, and `LineLemmas` what they
need of the lines of a file and the fields of a command. The `MC*` modules give constants
their values. Definitions marked as mutations or described as what a faulty
handler would do stand next to what they distort; they are used by no
specification, and each shows that a property can fail.

How the parts compose: `Repeater` uses a source handler as "reads its input
until it is empty, or fails", which `Relay` justifies (`AlwaysPulled`,
`Settled`: nothing is half done where commands run). `StartupCmd` uses the
command channel as "answers every request", which is `EveryCommandAnswered`
of `Repeater` while no handler holds the thread for ever; the startup file is one of the clients, and so is `MemReq`:
its `Answer` is the same promise. `DummySource` is what a handler with
`DummyAddr` does while it is on the heap. `Lifecycle` has
the loop of `Repeater` as one action, which stops (`ExitEnds`), fails
(`GiveUp`) or goes on, and the requests of `StartupCmd` as `pending`.

## 3. Bounds and fairness

- `MCRelay`: two outputs, three messages of 1, 3 or 5 parts, limit 2. The
  first message is never passed on, so three leave two that are: enough for a
  refusal in one message to harm the next. With limit 2 (500 in the code), 3 parts
  is the longest message that is passed on and 5 one that is cut short.
  Behind the first message the second can be refused in the middle and the third
  swallowed; that no fourth is, is proved (`SwallowsBounded`).
- `MCRepeater`: two clients and three commands, two sources of which one has an
  address too long to be found again, two places on the heap, one output
  address, three sockets: sources, outputs and the dummy source compete for
  sockets, places and the address. One client dies, and the command socket
  or a reply fails once. One message may wait in an input: more make the
  handler read longer and nothing else. A poll returns two of the three events
  that can be ready (64 in the code). The sources never
  stop: `MaxMsgs` is -1, and what they have sent is not counted. What is always ready
  in front of others are sources, up to two of them, and what they keep out of a
  batch is the command socket, opened again behind them; commands come to an end,
  so no source is kept out for ever. The instances that find
  disagreements have sockets to spare and no faults, so that nothing else is
  in the way.
- `MCStartupCmd`: every file of up to six bytes, a buffer of four (256 in the
  code): lines shorter than the buffer, of its length, and longer; reads that end
  anywhere.
  With at most three fields (8 in the code) a
  command can have more commas than there are fields.
- `MCMemReq`: a ring of five (12 in the code), which batches of two to four do
  not divide, so that the pointers wrap around at every place of a batch.
- `MCDummySource`: two clients, two messages each (6 in the code): one can be full
  while the other is not, and leave in every position of a message.
- `MCLifecycle`: every combination of waiting or not, with and without a
  startup file, an address that can be connected or not, at least 0 or 2
  polls, at most 3 or no limit. Polls are counted up to `MaxCount` = 3, the
  largest limit: the code compares the count with the limits only.

Fairness is weak and on the repeater's own steps only: a thread that can go on
does (`PollEvent`, `Receive`, `Drained`; `Thread`; `HandleEvent`; `Main`). The
poller is level-triggered, so what is ready stays ready; the timer of the dummy source fires
again and again. `Reap`, `Transmit` and `Answer` are
fair as threads of libzmq and the command channel are scheduled too.
Sources owe nothing, nor do clients, but for one thing: `Recovers` assumes that
a client of the dummy source takes what waits for it (`ClientTakes`), without which its
room never comes back. What fails is never fair: `PollFails`,
`ClientRestarts` and the like happen or do not; those that are branches of
`Thread` cannot be counted on either, as another branch is open to
it, but for `NoMemory`, which is all that can happen to an addition when the heap is full. Deadlock is checked for `DummySource`. It is not for the others, which
have states where all there is to do is done (sources, clients and batches are bounded,
the thread ends on exit and on errors, a queue may be empty).

## 4. What is checked

Runs that pass:

| Run | Properties |
|---|---|
| `relay` | `WholeMessagesInOrder`: `Relay` implements `Fanout`, whatever outputs refuse and whenever clients leave. `Accounting`: for every output, messages delivered, refused, lost with a client and swallowed add up to those replayed since it was added. `Settled`: nothing is half done between two events, but for outputs that swallow, which `in_multipart` shows. `SwallowedPerRefusal`: an output swallows no more whole messages than it counts in `eagain_multipart`, so a refusal in mid-message costs two messages at most. `GivesUpOnlyOnOversized`: the part limit counts per message. `AlwaysPulled`: the input is emptied, with and without outputs. `Inv`: the inductive invariant of the proofs. `TypeOK` |
| `repeater` | `Consistent`: heap, list and poller agree, no handler that failed to connect is listed, the command socket is polled while it is bound, and addresses are bound once. `NoSourceTwice`: two clients that add the same source, or one that died and asks again, get one. `OneRequestEach`: a client that waits has one request under way, and no request but those of clients that died is of one that does not wait, so that no reply goes to another client or comes twice; a request is lost only with the command socket or its reply. `RemoveSourceRemoves`: a source goes with all its outputs. `EverySourcePolled`: with sockets left, no step takes the input from a listed source. `ImplementsRegistry`: `Repeater` implements `Registry`: the handlers on the heap, changed place by place under failing sockets and dying clients, are one map from sources to outputs on which every command has its documented effect. `EveryCommandAnswered`: while sources send without end, each request is answered when no handler holds the thread for ever (`HandlersReturn`), unless the thread ends, or the command socket or a reply failed. `EverySourceRead`: what waits in an input is read, when no handler holds the thread for ever and the input is among the first `MaxEvents` (64) that are registered (`InReach`); also when sources before it are removed, and the command socket fails and cannot be bound again. `ExitEnds`: also with commands behind the exit in the same round, and when its reply cannot be sent. `TypeOK` |
| `lifecycle` | `ConfigOutlivesThread`: on every path of `main`, also when the thread could not be named, the configuration is freed after the thread ended. `PollsAtLeast`: a stop does not cut short the least number of polls. `StuckOnlyIf`: `zmq_ctx_term` waits in two cases only, an address that cannot be connected to and a request of the startup file. `Ends`: but for these, a program that is stopped or whose thread fails ends, wherever the thread was. `TypeOK` |
| `startup` | `NothingLost`: what was sent, followed by the commands in the buffer and the unread file, are the commands of the file. `Implements`: the buffer and the rest of the file implement `CommandQueue`: no read changes what is to be sent, and no command is sent before the reply to the one before. `EndIsTheEnd`: a full buffer is never taken for the end of the file. `DoneIsSent`: once the handler has let go of the file, its commands are sent, all of them, or a line was longer than the buffer. `FieldsAreCut`: the fields of a command, joined by commas, are the command, and there are never more than there is room for. `AllSent`: all commands are sent when lines fit. `TypeOK` |
| `memreq` | `Implements`: the ring implements `CommandQueue`. `NoSpuriousEvent`: the poller never reports what the handler would take for an error. `NoSourceLeftOut`: a source whose removal was sent is the next to be added again. `QueueMoves`: what is queued is sent, and every reply taken. `Inv`: the inductive invariant. `TypeOK` |
| `dummy` | `WholeOrLastFrame`: whoever leaves when, clients get whole messages or a last frame alone. `SendsFromWhereItBegan`: a message is sent from where the last callback was refused, which is never its middle. `Recovers`: once clients stay, whole messages come for ever. `TypeOK` |

Runs that find the code and its documentation at odds:

| Run | Shows |
|---|---|
| `relay_first` | `mpmsgc > 0` (`bsr_chnhandler.c:511`) keeps back the first message of every source; the readme says all messages are replayed |
| `repeater_freed` | a source removed by a command leaves its event in the batch, and the event is dispatched with a handler that was freed |
| `repeater_rebind` | an output that is added right after the one with its address was removed cannot be bound, and the reply is the same as for success |
| `repeater_busy` | a source that never pauses keeps the thread in its handler; throttling, which the readme announces, is switched off |
| `startup_last` | a last line without a newline is never sent |
| `lifecycle_setup` | with an address like `tcp://*:4242` the command socket is bound, the request socket (`bsr_memreq.c:40`) cannot connect, its handler is freed without closing it, and the program hangs in `zmq_ctx_term` without serving a command |

Also seen while modelling, without a run of its own:

- After a refusal in mid-message libzmq swallows the next whole message too, and reports
  its frames as sent: it is in no counter of messages, where the comment at the
  refusal (`bsr_chnhandler.c:537`) drops one. `Accounting` has it in
  `swallowed`, and fails without it.
- A source behind as many always ready ones as one poll reports (64,
  `bsr_rep.c:249`) is never read, although every handler returns
  (with `MaxEvents` = 1, `EverySourceRead` fails without `InReach`), where the readme says that
  messages are always pulled.
- An address of 80 characters or more is stored cut (`bsr_chnhandler.c:111`,
  `bsr_cmdchn.c:202`) and never found again, so the source cannot be removed
  and is added again each time (`NoSourceTwice` and `RemoveSourceRemoves`
  leave out `LongAddrs`, and fail otherwise).
- When the sockets have run out, `reopen_input` closes the old socket and gets
  no new one, and the source stays listed without an input
  (`EverySourcePolled` fails without `SocketLeft`).
- A command socket that cannot be bound again is neither polled nor tried again
  (`bsr_cmdchn.c:79-85`): the sources go on, and no command is ever heard.
- When the exit command comes before a request of the startup file was
  transmitted, the request has nowhere to go, and `zmq_ctx_term` waits for
  ever: no linger time is set (`bsr_startupcmd.c:54`). It is one of the two
  cases of `StuckOnlyIf`.
- JSON documents of the kinds `exit` and `remove-source` are answered as if
  they were done, and try to add a source with an empty address
  (`bsr_json_commands.cpp:72`).
- `dummy-source-start` clears its handler before it looks whether there is one
  (a failed allocation is written to).
- A source with more than ten outputs never gets its replacement into the ring
  of twelve, and the memory request queue waits for ever for a reply that was
  lost with the command socket.
- A dummy source whose client left may send a last frame without the frames
  before it (`WholeOrLastFrame` allows for it).
- The branch of `bsr_startupcmd.c:121-124` that removes the socket after the
  end of the file is never reached; the state `SEND` of the command channel is
  never set; and `unexpected_frames_count` compares with a count of channels
  that is always 0.

## 5. What is proved

`RelayProofs` proves, for every set of outputs, every set of part counts
(`PartsAssumption`: positive), every limit and every number of messages (`MaxPartAssumption`,
`MaxMsgsAssumption`: natural numbers):

| Theorem | Statement |
|---|---|
| `TypeCorrect` | `Spec => []TypeOK` |
| `Invariance` | `Spec => [](TypeOK /\ Inv)` |
| `AccountsBalance` | `Spec => []Accounting` |
| `SwallowsBounded` | `Spec => []SwallowedPerRefusal` |
| `SettledBetweenEvents` | `Spec => []Settled` |
| `LimitIsPerMessage` | `Spec => GivesUpOnlyOnOversized` |
| `ImplementsFanout` | `Spec => WholeMessagesInOrder` |

The inductive invariant of `Relay` is `Inv`. `InputInv` ties the reader to the message it is in
(`rd` to `mpc` and `more_last`, message numbers to what has arrived).
`OutputInv` says what each output holds at each frame: an output that is
`Open` has exactly the first `rd` frames of the current message, any other has
none, and what was delivered is whole and older. `SwallowInv` says that an output
which will swallow the next message (`Due`) has `in_multipart` set, and that this message
with those it has swallowed is within its refusals in mid-message: a refusal
while `in_multipart` is set is counted in `eagain_multipart`, and only such a one makes an
output due. `Accounting` counts. None of the
properties is inductive alone: that a delivered message is whole needs
that the pipe held all earlier frames, which needs that a refusing output
is not offered the later ones. The refinement maps `Fanout`'s `last` to the
messages that have left the input, its `attached` to the list of outputs.

`LifecycleProofs` proves, for every set of configurations and every bound on
the polls (`ConfigsAssumption`):

| Theorem | Statement |
|---|---|
| `TypeCorrect` | `Spec => []TypeOK` |
| `Invariance` | `Spec => [](TypeOK /\ Inv)` |
| `ConfigOutlives` | `Spec => []ConfigOutlivesThread` |
| `EnoughPolls` | `Spec => []PollsAtLeast` |
| `WaitsOnlyIf` | `Spec => []StuckOnlyIf` |

Its `Inv` has three parts. `MainInv`: while the thread runs, `thread_created` holds, so the
cleanup stops and joins it before it frees anything. `SocketInv`: an open socket that could be connected belongs to
the command handler or the list, both of which are closed before the context
is terminated. `PollsInv`: between the loop and the return the thread either
has an error or was done, which uses `MainInv` (a thread is started once, with
no error yet).

`RepeaterProofs` proves, for every set of sources, outputs, clients and places
on the heap, and every limit of sockets and events (`NamesAssumption`: the
names of the dummy source and of the empty address are no sources, the
command handler is no place on the heap, and a client that died is no client;
`AddrsAssumption`):

| Theorem | Statement |
|---|---|
| `TypeCorrect` | `Spec => []TypeOK` |
| `OneEach` | `Spec => []OneRequestEach` |
| `StaysConsistent` | `Spec => []Consistent` |
| `AddsOnce` | `Spec => []NoSourceTwice` |
| `RemovesWhole` | `Spec => RemoveSourceRemoves` |
| `StaysPolled` | `Spec => EverySourcePolled` |
| `KeepsRegistry` | `Spec => ImplementsRegistry` |

The inductive invariant `IInv` is `Consistent` and `NoSourceTwice` with the
types of the handlers and of the request that is performed. The argument goes through
what commands do to a handler: `AddHandler`, `ChangeOutputs`, `RemoveHandler`
and `ChangePolled` keep the invariant, and each command is one of them, or
changes nothing. It rests on three facts: `FindProperties` (the search finds the
one handler with an address: that there is only one is `NoSourceTwice`, which is
why the two are proved together), `RemoveFirstProperties` (what a list loses
when its first occurrence of a handler is removed), and that a handler is added only
where none is live.

Two more invariants are proved on top of it. `LoopInv` has the types of what
the loop and the clients change (`LoopType`), with the fact that whatever is
handled has its event at the head of the batch (`Handling`), without which
`Tail(batch)` need not be a sequence. `Poll` is the step that is not obvious:
the batch it takes is a part of the ascending positions of what is ready
(`ReadyProperties`). `RequestInv` is `OneRequestEach` with `Idle`, no request
is held outside of a round, and `Owed`, a reply is owed only after a fault. `OneRequestEach` needs it when a request is
received (the client of the one before is not forgotten), and when the
command socket fails in a round. That a client which dies takes only its own
request away is `RemoveFirstOnce`, and that a received one leaves no copy of
itself is `TailOnce`.

`KeepsRegistry` maps the handlers to `Config`. `NoSourceTwice` makes it a
function of the address (`ConfigProperties`), and what a command finds is what
the registry has under the address (`FindConfig`). `ConfigIs` determines the map after a
step from its domain and its values, and `ConfigAdds`, `ConfigChanges` and
`ConfigRemoves` are the three ways it changes. An output that no handler has
bound is taken by no source, which is what keeps outputs exclusive.
`OneRequestEach` says that a request that is received comes from a client that
waits or is gone, and `HoldsNone` that none is held when the next begins.

`StartupCmdProofs` proves, for every size of the buffer, every number of
fields, every file and every bound on its length (`BufCapAssumption` and
`MaxFieldsAssumption`: positive; `MaxFileAssumption`):

| Theorem | Statement |
|---|---|
| `TypeCorrect` | `Spec => []TypeOK` (the buffer never overflows) |
| `ReadsToTheEnd` | `Spec => []EndIsTheEnd` |
| `NothingIsLost` | `Spec => []NothingLost` |
| `SendsAll` | `Spec => []DoneIsSent` |
| `ImplementsQueue` | `Spec => Implements` |
| `FieldsCut` | `Spec => []FieldsAreCut` |

The inductive invariant is `Inv`. `BufferInv`: the buffer begins behind some
newline of the file (`From`), so that buffer and unread file are one piece of
it, `Rest`; and what was sent, with the commands of `Rest`, are the commands of
the file. `NothingLost` alone is not inductive: without knowing that the buffer
begins where a line does, a line in it may be the tail of one that the file
does not have. `RoomInv`: whenever the poller looks at the file there is room
in the buffer, so that a `read` of 0 bytes is the end, which `EndIsTheEnd`
needs, and while the state is READING no line ends in the buffer, which
`DoneIsSent` needs. `ReplyInv`: there is a request in RECEIVING only, and then a
command was sent, which the refinement needs: it maps the abstract queue to the
commands of buffer and unread file, and the command that is asked to the last
that was sent.

The steps rest on `LineLemmas`: cutting a file behind a newline cuts its lines
(`LinesAfter`), a line in the front of a file is the same line in the whole
(`LinesOfPrefix`), the commands of a file are its first and those behind
it (`FirstCommandBefore`), and dropping lines that are no commands drops no
command. They hold for files of every length because `CommandsOf` is made from
`Ascending`, whose value there is exactly one of (`AscendingUnique`). That the
fields of a command make it up again goes over the fields one by one; the
induction is the lemma `UpTo`, which looks at the least number at which a claim
would fail (`LeastExists`), and so needs no theorem with an operator for a
parameter.

`MemReqProofs` proves, for every length of the ring (`OutqLenAssumption`:
positive) and all sources and outputs:

| Theorem | Statement |
|---|---|
| `TypeCorrect` | `Spec => []TypeOK` |
| `Invariant` | `Spec => []Inv` |
| `NoEventIsSpurious` | `Spec => []NoSpuriousEvent` |
| `RemovedIsAddedAgain` | `Spec => []NoSourceLeftOut` |
| `ImplementsQueue` | `Spec => Implements` |

`Inv` ties the two pointers to the length, the poller's flags to the state,
and says that in what is to be sent each removal is followed by its addition.
The refinement maps the abstract queue to the buffers from the reading
pointer on, counted around the ring; the steps are that a batch is put behind
them and that sending takes the first away, wherever a pointer wraps around.

`DummySourceProofs` proves, for every set of clients and every number of
messages that may wait for one (`HwmAssumption`: positive):

| Theorem | Statement |
|---|---|
| `TypeCorrect` | `Spec => []TypeOK` |
| `NothingTorn` | `Spec => []WholeOrLastFrame` |
| `SendsOn` | `Spec => SendsFromWhereItBegan` |

Its `Inv` says what the position means: with an incomplete message, how many
frames of it the socket has; after a client was lost, how many are still to be
swallowed; otherwise that the callback is at the first or the last frame.
That it is never at the middle one is what keeps a torn message away.

Every invariant and every action property of the runs that pass, and the four
refinements of abstract specifications, are among these theorems. Only
model-checked is liveness (fairness and `ENABLED` are beyond the prover):
`AlwaysPulled`, `EveryCommandAnswered`, `EverySourceRead`, `ExitEnds`,
`AllSent`, `QueueMoves`, `Recovers` and `Ends`. What of them is safety is proved: when a
handler is done, all is sent (`DoneIsSent`), and a client that waits has its
request under way (`OneRequestEach`). No module uses `RECURSIVE`.

## 6. Not modelled

- The vendored code (rapidjson, bitshuffle, lz4), which is six sevenths of the
  lines of the repository, and the bytes of messages and commands.
- What the program never runs at this commit: the header parser, throttling and the timed
  events (the assignment that would start them is commented out,
  `bsr_chnhandler.c:600`), the timing of the idle check, and
  `bsr_memreq_add_cmd`, which nothing calls.
- Statistics and moving averages in floating point, and logging. The counters of the outputs are in
  `Relay`, without their overflow at 64 bits.
- The parsing of JSON text. The numbers for buffers and limits in a JSON
  document are handled like an address that is not accepted when a socket refuses them.
- A request that is longer than the buffer: `zmq_recv` returns its full length
  (`bsr_cmdchn.c:226`). Commands are not modelled by their bytes.
- Requests of several parts, which the command channel reads one part at a time.
- Failures of the poller's own calls during setup (out of memory), and those of
  `pthread_join`.
- The exit code: the result of the repeater's thread is dropped when it is
  joined (`bsr_rep.c:388`), so a thread that failed looks like one that ended,
  and no document says which of them a caller should see.
- The test context (`bsr_ctx1.c`), a thread for the tests that sends nothing.
