-------------------------- MODULE LifecycleProofs ---------------------------
(***************************************************************************)
(* What holds of the two threads for any ways the program is called.       *)
(***************************************************************************)
EXTENDS Lifecycle, TLAPS
-----------------------------------------------------------------------------
(* Types.                                                                  *)

LEMMA ConfigType ==
  ASSUME TypeOK
  PROVE  /\ config \in Configs
         /\ config.startup \in BOOLEAN /\ config.connectable \in BOOLEAN
         /\ config.waits \in BOOLEAN
         /\ config.do_polls_min \in Nat /\ config.do_polls_max \in Nat
         /\ config.do_polls_min <= MaxCount
         /\ MaxCount \in Nat
BY ConfigsAssumption DEF TypeOK, Config

LEMMA TypeInit == Init => TypeOK
<1> SUFFICES ASSUME Init
             PROVE  TypeOK
  OBVIOUS
<1>1. polls_count \in 0..MaxCount /\ thrret \in {0, -1}
  BY ConfigsAssumption DEF Init
<1> QED BY <1>1 DEF Init, TypeOK, MainPlaces, Running

LEMMA TypeStep == TypeOK /\ [Next]_vars => TypeOK'
<1> SUFFICES ASSUME TypeOK, [Next]_vars
             PROVE  TypeOK'
  OBVIOUS
<1> USE DEF TypeOK, MainPlaces, Running, Setup, Closing, Socket,
            mainVars, thrVars
<1>1. CASE BsrepInit
  BY <1>1 DEF BsrepInit
<1>2. CASE BsrepStart
  BY <1>2 DEF BsrepStart
<1>3. CASE BsrepWaitForDone
  BY <1>3 DEF BsrepWaitForDone
<1>4. CASE CleanupAsks
  BY <1>4 DEF CleanupAsks
<1>5. CASE CleanupJoins
  BY <1>5 DEF CleanupJoins
<1>6. CASE CleanupFrees
  BY <1>6 DEF CleanupFrees
<1>7. CASE MakeContext
  BY <1>7 DEF MakeContext, Goto, GiveUp
<1>8. CASE InitCommand
  BY <1>8 DEF InitCommand, Goto, GiveUp
<1>9. CASE InitStartup
  BY <1>9 DEF InitStartup, InitHandler, Goto, GiveUp
<1>10. CASE InitMemreq
  BY <1>10 DEF InitMemreq, InitHandler, Goto, GiveUp
<1>11. CASE LoopEnds
  BY <1>11 DEF LoopEnds, Goto
<1>12. CASE LoopPolls
  <2>1. polls_count' \in 0..MaxCount
    BY <1>12, ConfigsAssumption DEF LoopPolls
  <2>2. /\ thr' \in Running /\ thrret' \in {0, -1}
        /\ stop' \in BOOLEAN /\ pending' \in BOOLEAN
    BY <1>12 DEF LoopPolls, GiveUp
  <2> QED BY <1>12, <2>1, <2>2 DEF LoopPolls
<1>13. CASE CloseCommand
  BY <1>13 DEF CloseCommand, Goto
<1>14. CASE CloseList
  BY <1>14 DEF CloseList, Goto
<1>15. CASE TermContext
  BY <1>15 DEF TermContext, Goto
<1>16. CASE Transmit
  BY <1>16 DEF Transmit
<1>17. CASE UNCHANGED vars
  BY <1>17 DEF vars
<1> QED BY <1>1, <1>2, <1>3, <1>4, <1>5, <1>6, <1>7, <1>8, <1>9, <1>10,
           <1>11, <1>12, <1>13, <1>14, <1>15, <1>16, <1>17
        DEF Next, Main, Thread

\* The variables keep their types, and polls are counted up to the bound.
THEOREM TypeCorrect == Spec => []TypeOK
<1>1. Init => TypeOK
  BY TypeInit
<1>2. TypeOK /\ [Next]_vars => TypeOK'
  BY TypeStep
<1> QED BY <1>1, <1>2, PTL DEF Spec
-----------------------------------------------------------------------------
(* Main knows of the thread as long as it runs.                            *)

LEMMA MainInit == Init => MainInv
BY DEF Init, MainInv, Running, Setup, Closing

\* A step of the thread, while it runs, leaves what main knows alone.
LEMMA ThreadKeepsMain ==
  ASSUME TypeOK, MainInv, Thread
  PROVE  MainInv'
<1>1. thr \in Running
  BY DEF Thread, MakeContext, InitCommand, InitStartup, InitMemreq, LoopEnds,
         LoopPolls, CloseCommand, CloseList, TermContext, Running, Setup, Closing
<1>2. UNCHANGED mainVars
  BY DEF Thread, MakeContext, InitCommand, InitStartup, InitMemreq, LoopEnds,
         LoopPolls, CloseCommand, CloseList, TermContext
<1>3. thr # "none"
  BY <1>1 DEF Running, Setup, Closing
<1> QED BY <1>1, <1>2, <1>3 DEF MainInv, mainVars

LEMMA MainStep == TypeOK /\ MainInv /\ [Next]_vars => MainInv'
<1> SUFFICES ASSUME TypeOK, MainInv, [Next]_vars
             PROVE  MainInv'
  OBVIOUS
<1> USE DEF MainInv, Running, Setup, Closing, thrVars
<1>1. CASE BsrepInit
  BY <1>1 DEF BsrepInit
<1>2. CASE BsrepStart
  BY <1>2 DEF BsrepStart
<1>3. CASE BsrepWaitForDone
  BY <1>3 DEF BsrepWaitForDone
<1>4. CASE CleanupAsks
  BY <1>4 DEF CleanupAsks
<1>5. CASE CleanupJoins
  BY <1>5 DEF CleanupJoins
<1>6. CASE CleanupFrees
  BY <1>6 DEF CleanupFrees
<1>7. CASE Thread
  BY <1>7, ThreadKeepsMain
<1>8. CASE Transmit
  BY <1>8 DEF Transmit, mainVars
<1>9. CASE UNCHANGED vars
  BY <1>9 DEF vars, mainVars
<1> QED BY <1>1, <1>2, <1>3, <1>4, <1>5, <1>6, <1>7, <1>8, <1>9 DEF Next, Main
-----------------------------------------------------------------------------
(* Every open socket has an owner that closes it.                          *)

LEMMA SocketInit == Init => SocketInv
BY DEF Init, SocketInv

LEMMA SocketStep == TypeOK /\ SocketInv /\ [Next]_vars => SocketInv'
<1> SUFFICES ASSUME TypeOK, SocketInv, [Next]_vars
             PROVE  SocketInv'
  OBVIOUS
<1>0. config' = config
  BY DEF Next, vars, mainVars, Main, BsrepInit, BsrepStart, BsrepWaitForDone,
         CleanupAsks, CleanupJoins, CleanupFrees, Thread, MakeContext,
         InitCommand, InitStartup, InitMemreq, LoopEnds, LoopPolls,
         CloseCommand, CloseList, TermContext, Transmit
<1> USE DEF SocketInv
<1>1. CASE Main /\ ~BsrepStart
  <2>1. UNCHANGED thrVars
    BY <1>1 DEF Main, BsrepInit, BsrepWaitForDone, CleanupAsks, CleanupJoins,
                CleanupFrees
  <2> QED BY <1>0, <2>1 DEF thrVars
<1>2. CASE BsrepStart
  <2>1. UNCHANGED <<open, listed, pending>> /\ thr' \in {thr, "context"}
    BY <1>2 DEF BsrepStart
  <2> QED BY <1>0, <2>1
<1>3. CASE MakeContext
  BY <1>0, <1>3 DEF MakeContext, Goto, GiveUp
<1>4. CASE InitCommand
  BY <1>0, <1>4 DEF InitCommand, Goto, GiveUp
<1>5. ASSUME NEW socket \in {"startup", "memreq"}, NEW place \in {"memreq", "loop"},
             InitHandler(socket, place), UNCHANGED pending,
             socket = "startup" => config.startup
      PROVE  SocketInv'
  <2>1. CASE GiveUp /\ UNCHANGED <<open, listed>>
    BY <1>0, <1>5, <2>1 DEF GiveUp
  <2>2. CASE /\ open' = open \union {socket}
             /\ config.connectable
             /\ Goto(place) /\ listed' = listed \union {socket}
    BY <1>0, <1>5, <2>2 DEF Goto
  <2>3. CASE /\ open' = open \union {socket}
             /\ ~config.connectable
             /\ GiveUp /\ UNCHANGED listed
    BY <1>0, <1>5, <2>3 DEF GiveUp
  <2> QED BY <1>5, <2>1, <2>2, <2>3 DEF InitHandler
<1>6. CASE InitStartup
  <2>1. CASE config.startup /\ InitHandler("startup", "memreq")
    BY <1>5, <1>6, <2>1 DEF InitStartup
  <2>2. CASE Goto("memreq") /\ UNCHANGED <<open, listed>>
    BY <1>0, <1>6, <2>2 DEF InitStartup, Goto
  <2> QED BY <1>6, <2>1, <2>2 DEF InitStartup
<1>7. CASE InitMemreq
  BY <1>5, <1>7 DEF InitMemreq
<1>8. CASE LoopEnds
  BY <1>0, <1>8 DEF LoopEnds, Goto
<1>9. CASE LoopPolls
  <2>1. UNCHANGED <<open, listed>> /\ thr' \in {"loop", "close_command"}
    BY <1>9 DEF LoopPolls, GiveUp
  <2>2. pending' => pending \/ "startup" \in listed
    BY <1>9 DEF LoopPolls
  <2> QED BY <1>0, <2>1, <2>2
<1>10. CASE CloseCommand
  BY <1>0, <1>10 DEF CloseCommand, Goto
<1>11. CASE CloseList
  BY <1>0, <1>11 DEF CloseList, Goto
<1>12. CASE TermContext
  BY <1>0, <1>12 DEF TermContext, Goto
<1>13. CASE Transmit
  BY <1>0, <1>13 DEF Transmit
<1>14. CASE UNCHANGED vars
  BY <1>14 DEF vars, mainVars, thrVars
<1> QED BY <1>1, <1>2, <1>3, <1>4, <1>6, <1>7, <1>8, <1>9, <1>10, <1>11,
           <1>12, <1>13, <1>14 DEF Next, Thread
-----------------------------------------------------------------------------
(* A thread without an error left the loop when it was done.               *)

LEMMA PollsInit == Init => PollsInv
BY DEF Init, PollsInv, Setup, Closing

LEMMA PollsStep == TypeOK /\ MainInv /\ PollsInv /\ [Next]_vars => PollsInv'
<1> SUFFICES ASSUME TypeOK, MainInv, PollsInv, [Next]_vars
             PROVE  PollsInv'
  OBVIOUS
<1>0. config' = config
  BY DEF Next, vars, mainVars, Main, BsrepInit, BsrepStart, BsrepWaitForDone,
         CleanupAsks, CleanupJoins, CleanupFrees, Thread, MakeContext,
         InitCommand, InitStartup, InitMemreq, LoopEnds, LoopPolls,
         CloseCommand, CloseList, TermContext, Transmit
<1> USE DEF PollsInv, Setup, Closing
<1>1. CASE Main /\ ~BsrepStart
  <2>1. UNCHANGED thrVars
    BY <1>1 DEF Main, BsrepInit, BsrepWaitForDone, CleanupAsks, CleanupJoins,
                CleanupFrees
  <2> QED BY <1>0, <2>1 DEF thrVars
<1>2. CASE BsrepStart
  <2>1. thr = "none" /\ thrret = 0
    BY <1>2 DEF BsrepStart, MainInv
  <2>2. thr' \in {"none", "context"} /\ thrret' = thrret
    BY <1>2, <2>1 DEF BsrepStart
  <2> QED BY <2>1, <2>2
<1>3. CASE MakeContext \/ InitCommand \/ InitStartup \/ InitMemreq
  <2>1. thr \in Setup /\ polls_count' = polls_count
    BY <1>3 DEF MakeContext, InitCommand, InitStartup, InitMemreq
  <2>2. \/ thr' \in {"command", "startup", "memreq", "loop"} /\ thrret' = thrret
        \/ GiveUp
    BY <1>3 DEF MakeContext, InitCommand, InitStartup, InitMemreq, InitHandler,
                Goto
  <2> QED BY <1>0, <2>1, <2>2 DEF GiveUp
<1>4. CASE LoopEnds
  BY <1>0, <1>4 DEF LoopEnds, LoopDone, Goto
<1>5. CASE LoopPolls
  <2>1. thr = "loop" /\ thrret = 0
    BY <1>5 DEF LoopPolls
  <2>2. \/ thr' = "loop" /\ thrret' = 0
        \/ thr' = "close_command" /\ thrret' = -1
    BY <1>5, <2>1 DEF LoopPolls, GiveUp
  <2>3. CASE thr' = "loop" /\ thrret' = 0
    BY <2>3
  <2>4. CASE thr' = "close_command" /\ thrret' = -1
    BY <2>4
  <2> QED BY <2>2, <2>3, <2>4
<1>6. CASE CloseCommand \/ CloseList \/ TermContext
  BY <1>0, <1>6 DEF CloseCommand, CloseList, TermContext, Goto
<1>7. CASE Transmit
  BY <1>0, <1>7 DEF Transmit
<1>8. CASE UNCHANGED vars
  BY <1>8 DEF vars, mainVars, thrVars
<1> QED BY <1>1, <1>2, <1>3, <1>4, <1>5, <1>6, <1>7, <1>8 DEF Next, Thread
-----------------------------------------------------------------------------
(* The invariant, and what follows from it.                                *)

\* How the threads, the sockets and the polls are related at every step.
THEOREM Invariance == Spec => [](TypeOK /\ Inv)
<1>1. Init => TypeOK /\ Inv
  BY TypeInit, MainInit, SocketInit, PollsInit DEF Inv
<1>2. TypeOK /\ Inv /\ [Next]_vars => (TypeOK /\ Inv)'
  BY TypeStep, MainStep, SocketStep, PollsStep DEF Inv
<1> QED BY <1>1, <1>2, PTL DEF Spec

\* The configuration is freed after the thread that reads it has ended,
\* whether or not main could name the thread, waited, or asked it to stop.
THEOREM ConfigOutlives == Spec => []ConfigOutlivesThread
<1>1. TypeOK /\ Inv => ConfigOutlivesThread
  BY DEF Inv, MainInv, ConfigOutlivesThread
<1> QED BY <1>1, Invariance, PTL

\* A thread that returns without an error made its least number of polls, or
\* its most.
THEOREM EnoughPolls == Spec => []PollsAtLeast
<1>1. TypeOK /\ Inv => PollsAtLeast
  BY DEF Inv, PollsInv, PollsAtLeast
<1> QED BY <1>1, Invariance, PTL

\* zmq_ctx_term waits for a socket only when the command address cannot be
\* connected to: every socket that could be is closed by its owner.
THEOREM WaitsOnlyIf == Spec => []StuckOnlyIf
<1>1. TypeOK /\ Inv => StuckOnlyIf
  <2> SUFFICES ASSUME TypeOK, Inv, Stuck, ~(pending /\ config.startup)
               PROVE  open # {} /\ ~config.connectable
    BY DEF StuckOnlyIf
  <2>1. ~pending
    BY DEF Inv, SocketInv
  <2>2. thr = "term" /\ open # {}
    BY <2>1 DEF Stuck
  <2>3. config.connectable => open = {}
    BY <2>2 DEF Inv, SocketInv
  <2> QED BY <2>2, <2>3
<1> QED BY <1>1, Invariance, PTL
=============================================================================
