----------------------------- MODULE Lifecycle ------------------------------
(***************************************************************************)
(* The two threads of the program (main.c, bsr_rep.c): the main thread     *)
(* starts the thread of the repeater, waits for it or tells it to stop,    *)
(* and frees the configuration.  The thread of the repeater makes its      *)
(* sockets, runs its loop, and on every way out closes them in the reverse *)
(* order and ends the context of libzmq, which waits until all sockets are *)
(* closed and what they had to send is sent.                               *)
(*                                                                         *)
(* What happens in the loop is in Repeater and StartupCmd; here a round of *)
(* it is a poll with what matters for the end: a command to exit, a        *)
(* request of the startup handler, an error.                               *)
(***************************************************************************)
EXTENDS Integers

CONSTANT Configs  \* how the program is called
CONSTANT MaxCount \* bound: polls are not counted any further

Config == [waits : BOOLEAN,       \* main waits, or goes on to the cleanup
           startup : BOOLEAN,     \* there is a startup file
           connectable : BOOLEAN, \* the command address is no wildcard
           do_polls_min : Nat,
           do_polls_max : Nat]

ASSUME ConfigsAssumption ==
  /\ Configs \subseteq Config
  /\ MaxCount \in Nat
  /\ \A c \in Configs : c.do_polls_min <= MaxCount /\ c.do_polls_max <= MaxCount

VARIABLES
  config,
  main,           \* where the main thread is
  allocated,      \* cmd_addr and startup_file are there
  thread_created,
  thr,            \* where the thread of the repeater is
  thrret,
  stop,
  polls_count,
  open,           \* its sockets that are open
  listed,         \* those whose handler the handler list owns
  pending         \* a request of the startup handler was not transmitted yet

mainVars == <<config, main, allocated, thread_created>>
thrVars == <<thr, thrret, polls_count, open, listed, pending>>
vars == <<mainVars, thrVars, stop>>

MainPlaces == {"init", "start", "wait", "cleanup", "join", "exited"}
Setup == {"context", "command", "startup", "memreq"}
Closing == {"close_command", "close_list", "term"}
Running == Setup \union {"loop"} \union Closing
Socket == {"command", "startup", "memreq"}

TypeOK ==
  /\ config \in Configs
  /\ main \in MainPlaces
  /\ allocated \in BOOLEAN
  /\ thread_created \in BOOLEAN
  /\ thr \in Running \union {"none", "returned"}
  /\ thrret \in {0, -1}
  /\ stop \in BOOLEAN
  /\ polls_count \in 0..MaxCount
  /\ open \subseteq Socket
  /\ listed \subseteq Socket
  /\ pending \in BOOLEAN

Init ==
  /\ config \in Configs
  /\ main = "init"
  /\ allocated = FALSE
  /\ thread_created = FALSE
  /\ thr = "none"
  /\ thrret = 0
  /\ stop = FALSE
  /\ polls_count = 0
  /\ open = {}
  /\ listed = {}
  /\ pending = FALSE
-----------------------------------------------------------------------------
(* The main thread.                                                        *)

\* An address that is too long makes the program end; when it is that of the
\* startup file, the command address is there already.
BsrepInit ==
  /\ main = "init"
  /\ \/ main' = "start" /\ allocated' = TRUE
     \/ main' = "cleanup" /\ allocated' \in BOOLEAN
  /\ UNCHANGED <<config, thread_created, thrVars, stop>>

\* The thread counts as created once it has its name.
BsrepStartNamed ==
  /\ main = "start"
  /\ \/ /\ main' = "cleanup"
        /\ UNCHANGED <<thread_created, thr>>
     \/ /\ thr' = "context"
        /\ \/ main' = "cleanup" /\ UNCHANGED thread_created
           \/ /\ main' = IF config.waits THEN "wait" ELSE "cleanup"
              /\ thread_created' = TRUE
  /\ UNCHANGED <<config, allocated, thrret, polls_count, open, listed,
                 pending, stop>>

\* There may be no thread, or one that could not be given a name.
BsrepStart ==
  /\ main = "start"
  /\ \/ /\ main' = "cleanup"
        /\ UNCHANGED <<thread_created, thr>>
     \/ /\ thread_created' = TRUE
        /\ thr' = "context"
        /\ main' \in {"cleanup", IF config.waits THEN "wait" ELSE "cleanup"}
  /\ UNCHANGED <<config, allocated, thrret, polls_count, open, listed,
                 pending, stop>>

BsrepWaitForDone ==
  /\ main = "wait"
  /\ thr = "returned"
  /\ thread_created' = FALSE
  /\ main' = "cleanup"
  /\ UNCHANGED <<config, allocated, thrVars, stop>>

\* Without the flag the thread goes on.
CleanupAsksNothing ==
  /\ main = "cleanup" /\ thread_created
  /\ main' = "join"
  /\ UNCHANGED <<config, allocated, thread_created, thrVars, stop>>

CleanupAsks ==
  /\ main = "cleanup" /\ thread_created
  /\ stop' = TRUE
  /\ main' = "join"
  /\ UNCHANGED <<config, allocated, thread_created, thrVars>>

CleanupJoins ==
  /\ main = "join"
  /\ thr = "returned"
  /\ thread_created' = FALSE
  /\ main' = "cleanup"
  /\ UNCHANGED <<config, allocated, thrVars, stop>>

CleanupFrees ==
  /\ main = "cleanup" /\ ~thread_created
  /\ allocated' = FALSE
  /\ main' = "exited"
  /\ UNCHANGED <<config, thread_created, thrVars, stop>>

Main == BsrepInit \/ BsrepStart \/ BsrepWaitForDone
          \/ CleanupAsks \/ CleanupJoins \/ CleanupFrees
-----------------------------------------------------------------------------
(* The setup of the repeater's thread.  Each step succeeds, or sends the   *)
(* thread to its way out.                                                  *)

Goto(place) == thr' = place /\ UNCHANGED thrret

\* An error that is returned as a positive number.
GiveUpPositive == thr' = "close_command" /\ thrret' = 1

GiveUp == thr' = "close_command" /\ thrret' = -1

MakeContext ==
  /\ thr = "context"
  /\ \/ Goto("command")
     \/ GiveUp
  /\ UNCHANGED <<mainVars, polls_count, open, listed, pending, stop>>

\* The socket may not be there, or its address not be free.
InitCommand ==
  /\ thr = "command"
  /\ \/ GiveUp /\ UNCHANGED open
     \/ open' = open \union {"command"} /\ (GiveUp \/ Goto("startup"))
  /\ UNCHANGED <<mainVars, polls_count, listed, pending, stop>>

\* A handler that is not in the list yet is freed, not cleaned up.
InitHandler(socket, place) ==
  \/ GiveUp /\ UNCHANGED <<open, listed>>
  \/ /\ open' = open \union {socket}
     /\ IF config.connectable
        THEN Goto(place) /\ listed' = listed \union {socket}
        ELSE GiveUp /\ UNCHANGED listed

\* A file that cannot be opened is passed over.
InitStartup ==
  /\ thr = "startup"
  /\ \/ config.startup /\ InitHandler("startup", "memreq")
     \/ Goto("memreq") /\ UNCHANGED <<open, listed>>
  /\ UNCHANGED <<mainVars, polls_count, pending, stop>>

InitMemreq ==
  /\ thr = "memreq"
  /\ InitHandler("memreq", "loop")
  /\ UNCHANGED <<mainVars, polls_count, pending, stop>>
-----------------------------------------------------------------------------
(* The loop and the way out.                                               *)

\* The least number of polls is forgotten.
LoopDoneAny ==
  \/ config.do_polls_max > 0 /\ polls_count >= config.do_polls_max
  \/ stop

LoopDone ==
  \/ config.do_polls_max > 0 /\ polls_count >= config.do_polls_max
  \/ stop /\ polls_count >= config.do_polls_min

LoopEnds ==
  /\ thr = "loop"
  /\ LoopDone
  /\ Goto("close_command")
  /\ UNCHANGED <<mainVars, polls_count, open, listed, pending, stop>>

\* A round: the startup handler may send a request, the exit command may
\* come, or a handler or the poll fails.
LoopPolls ==
  /\ thr = "loop"
  /\ ~LoopDone
  /\ polls_count' = IF polls_count < MaxCount THEN polls_count + 1 ELSE MaxCount
  /\ \/ pending' = pending
     \/ "startup" \in listed /\ pending' = TRUE
  /\ \/ stop' \in {stop, TRUE} /\ UNCHANGED <<thr, thrret>>
     \/ GiveUp /\ UNCHANGED stop
  /\ UNCHANGED <<mainVars, open, listed>>

\* The handlers are cleaned up from the last to the first: the command
\* handler, the handlers in the list, the poller, the context.
CloseCommand ==
  /\ thr = "close_command"
  /\ open' = open \ {"command"}
  /\ Goto("close_list")
  /\ UNCHANGED <<mainVars, polls_count, listed, pending, stop>>

\* A list that closes the startup handler only.
CloseListHalf ==
  /\ thr = "close_list"
  /\ open' = open \ {"startup"}
  /\ listed' = {}
  /\ Goto("term")
  /\ UNCHANGED <<mainVars, polls_count, pending, stop>>

CloseList ==
  /\ thr = "close_list"
  /\ open' = open \ listed
  /\ listed' = {}
  /\ Goto("term")
  /\ UNCHANGED <<mainVars, polls_count, pending, stop>>

\* zmq_ctx_term: no time limit is set on what is still to be transmitted.
Stuck == thr = "term" /\ (open # {} \/ pending)

TermContext ==
  /\ thr = "term" /\ ~Stuck
  /\ Goto("returned")
  /\ UNCHANGED <<mainVars, polls_count, open, listed, pending, stop>>

Thread == MakeContext \/ InitCommand \/ InitStartup \/ InitMemreq
            \/ LoopEnds \/ LoopPolls \/ CloseCommand \/ CloseList \/ TermContext

\* Another thread of libzmq transmits the request to the command socket,
\* for as long as there is one.
Transmit ==
  /\ pending /\ "command" \in open
  /\ pending' = FALSE
  /\ UNCHANGED <<mainVars, thr, thrret, polls_count, open, listed, stop>>

Next == Main \/ Thread \/ Transmit

Spec == Init /\ [][Next]_vars

\* All threads are scheduled.
FairSpec == Spec /\ WF_vars(Main) /\ WF_vars(Thread) /\ WF_vars(Transmit)
-----------------------------------------------------------------------------
(* Properties.                                                             *)

\* The configuration that the thread reads is freed after the thread ended,
\* on every path of the main thread.
ConfigOutlivesThread == thr \in Running => allocated

\* A thread that was asked to stop has made its least number of polls when
\* it returns without an error.
PollsAtLeast ==
  thr = "returned" /\ thrret = 0 =>
    \/ polls_count >= config.do_polls_min
    \/ config.do_polls_max > 0 /\ polls_count >= config.do_polls_max

\* The context waits for a socket only when the command address cannot be
\* connected to, and for a request only when there is a startup file.
StuckOnlyIf ==
  Stuck => (open # {} /\ ~config.connectable) \/ (pending /\ config.startup)

\* What makes these inductive.  Main knows of the thread as long as it runs.
\* A socket is owned by the command handler or the list, if it could be
\* connected.  A thread without an error left the loop when it was done.
MainInv ==
  /\ main \in {"init", "start"} => thr = "none" /\ ~thread_created
  /\ main = "start" => allocated
  /\ thread_created => allocated /\ main \in {"wait", "cleanup", "join"}
  /\ thr \in Running => thread_created

SocketInv ==
  /\ config.connectable => open \subseteq listed \union {"command"}
  /\ thr \in {"close_list", "term"} => "command" \notin open
  /\ thr = "term" => listed = {}
  /\ "startup" \in listed \/ pending => config.startup

PollsInv ==
  /\ thr \in {"none", "loop"} \union Setup => thrret = 0
  /\ thr \in Closing \union {"returned"} /\ thrret = 0 =>
       \/ polls_count >= config.do_polls_min
       \/ config.do_polls_max > 0 /\ polls_count >= config.do_polls_max

Inv == MainInv /\ SocketInv /\ PollsInv

\* A program that main or a command asks to stop, or whose thread fails, ends,
\* at whatever step of the setup or of the loop the thread is, unless the
\* context waits.
Ends ==
  (main = "join" \/ stop \/ thrret = -1) ~> (main = "exited" \/ Stuck)

\* readme.md: "The command socket is a REP socket on COMMAND_SOCKET_ADDRESS".
\* A thread that was started serves commands or ends, and the program too.
ServesOrEnds == thr = "context" ~> (thr = "loop" \/ main = "exited")
=============================================================================
