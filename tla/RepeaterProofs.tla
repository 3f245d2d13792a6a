--------------------------- MODULE RepeaterProofs ---------------------------
(***************************************************************************)
(* The handlers of Repeater stay consistent, and implement Registry, for   *)
(* every set of sources, outputs and clients, every size of the heap, and  *)
(* every limit.                                                            *)
(***************************************************************************)
EXTENDS Repeater, ListLemmas

\* The types of what the handlers are about.
HandlersType ==
  /\ heap \in [Ids -> Handler \union {NoHandler}]
  /\ list \in Seq(Ids)
  /\ polled \in Seq(Ids \union {CmdHandler})
  /\ cmdsock \in {"bound", "unbound", "none"}
  /\ closing \subseteq Outputs

\* What is performed is a command.
RequestType == "command" \in DOMAIN request /\ Current \in Command

IInv == HandlersType /\ RequestType /\ Consistent /\ NoSourceTwice

HandlersInv == HandlersType /\ Consistent /\ NoSourceTwice

-----------------------------------------------------------------------------
(* What a place on the heap holds.                                         *)

LEMMA Names ==
  /\ CmdHandler \notin Ids
  /\ EmptyAddr \notin Sources /\ DummyAddr \notin Sources /\ EmptyAddr # DummyAddr
  /\ NoHandler \notin Handler
BY NamesAssumption DEF CmdHandler, EmptyAddr, DummyAddr, NoHandler, Handler

LEMMA LiveHandlers ==
  ASSUME HandlersType
  PROVE  /\ Live \subseteq Ids
         /\ \A h \in Ids : h \in Live <=> heap[h] \in Handler
         /\ \A h \in Live : /\ heap[h].addr \in Sources \union {DummyAddr}
                            /\ heap[h].outs \subseteq Outputs
<1>1. \A h \in Ids : h \in Live <=> heap[h] \in Handler
  BY Names DEF HandlersType, Live
<1>2. \A h \in Live : heap[h] \in Handler
  BY <1>1 DEF Live
<1>3. \A r \in Handler : r.addr \in Sources \union {DummyAddr} /\ r.outs \subseteq Outputs
  BY DEF Handler
<1> QED BY <1>1, <1>2, <1>3 DEF Live

\* The invariant depends on the handlers only.
LEMMA SameHandlers ==
  ASSUME HandlersInv, UNCHANGED <<heap, list, polled, cmdsock, closing>>
  PROVE  HandlersInv'
BY DEF HandlersInv, HandlersType, Consistent, NoSourceTwice, Live, Bound, Inputs, Dummies

\* More addresses may be closing that no output has.
LEMMA Closing ==
  ASSUME HandlersInv,
         UNCHANGED <<heap, list, polled, cmdsock>>,
         closing' \subseteq closing
  PROVE  HandlersInv'
BY DEF HandlersInv, HandlersType, Consistent, NoSourceTwice, Live, Bound, Inputs, Dummies

-----------------------------------------------------------------------------
(* The handler list.                                                       *)

\* handler_list_find_by_input_addr finds the one handler with the address, if
\* there is one and its address was not cut.
LEMMA FindProperties ==
  ASSUME HandlersInv, NEW a
  PROVE  /\ \A h \in Find(a) : h \in Live /\ heap[h].addr = a
         /\ \A g, h \in Find(a) : g = h
         /\ \A h \in Live : heap[h].addr = a /\ a \notin LongAddrs => h \in Find(a)
<1> DEFINE n == Len(list)
           found == {i \in DOMAIN list : heap[list[i]].addr = a /\ a \notin LongAddrs}
<1>1. n \in Nat /\ DOMAIN list = 1..n /\ Range(list) = Live
  BY LenProperties DEF HandlersInv, HandlersType, Consistent
<1>2. \A i \in 1..n : list[i] \in Live
  BY <1>1 DEF Range
<1>3. Find(a) = IF found = {} THEN {} ELSE {list[Min(found)]}
  BY DEF Find
<1>4. CASE found = {}
  <2>1. \A h \in Live : ~(heap[h].addr = a /\ a \notin LongAddrs)
    BY <1>1, <1>4 DEF Range
  <2> QED BY <1>3, <1>4, <2>1
<1>5. CASE found # {}
  <2>1. found \in SUBSET (1..n)
    BY <1>1
  <2>2. Min(found) \in found
    <3> HIDE DEF found, n
    <3> QED BY <1>1, <1>5, <2>1, LeastExists
  <2> DEFINE f == list[Min(found)]
  <2>3. f \in Live /\ heap[f].addr = a /\ a \notin LongAddrs
    BY <1>1, <1>2, <2>2
  <2>4. Find(a) = {f}
    BY <1>3, <1>5
  <2>5. \A h \in Live : heap[h].addr = a => h = f
    <3> HIDE DEF f
    <3> QED BY <2>3 DEF HandlersInv, NoSourceTwice
  <2> HIDE DEF f
  <2> QED BY <2>3, <2>4, <2>5
<1> QED BY <1>4, <1>5

-----------------------------------------------------------------------------
(* What commands do to the handlers.                                       *)

\* A handler is put where none was, and listed; it may be polled, too.
LEMMA AddHandler ==
  ASSUME HandlersInv,
         NEW a \in Sources \union {DummyAddr}, NEW h \in Ids \ Live,
         heap' = [heap EXCEPT ![h] = [addr |-> a, outs |-> {}]],
         list' = Append(list, h),
         IF a = DummyAddr THEN polled' = polled ELSE polled' = Append(polled, h),
         UNCHANGED <<cmdsock, closing>>,
         a \notin LongAddrs => \A g \in Live : heap[g].addr # a
  PROVE  HandlersInv'
<1> DEFINE r == [addr |-> a, outs |-> {}]
<1>1. r \in Handler /\ r # NoHandler /\ r.addr = a /\ r.outs = {}
  BY Names DEF Handler
<1>2. /\ heap' \in [Ids -> Handler \union {NoHandler}]
      /\ heap'[h] = r
      /\ \A g \in Ids : g # h => heap'[g] = heap[g]
  BY <1>1 DEF HandlersInv, HandlersType
<1> HIDE DEF r
<1>3. Live' = Live \union {h} /\ h \notin Live
  BY <1>1, <1>2 DEF Live
<1>4. \A g \in Live : g # h /\ heap'[g] = heap[g]
  BY <1>2, <1>3 DEF Live
<1>5. Bound' = Bound
  BY <1>1, <1>2, <1>3, <1>4 DEF Bound
<1>6. /\ list' \in Seq(Ids)
      /\ Range(list') = Range(list) \union {h}
      /\ IsInjective(list) /\ h \notin Range(list) => IsInjective(list')
  BY AppendAddsOne DEF HandlersInv, HandlersType
<1>7. /\ Range(list') = Live'
      /\ IsInjective(list')
  BY <1>3, <1>6 DEF HandlersInv, Consistent
<1>8. /\ Dummies' = IF a = DummyAddr THEN Dummies \union {h} ELSE Dummies
      /\ h \notin Dummies
  BY <1>1, <1>2, <1>3, <1>4 DEF Dummies
<1>9. h \notin Range(polled)
  BY <1>3, Names DEF HandlersInv, Consistent, Inputs
<1>10. /\ polled' \in Seq(Ids \union {CmdHandler})
       /\ Range(polled') = IF a = DummyAddr THEN Range(polled) ELSE Range(polled) \union {h}
       /\ IsInjective(polled')
  <2>1. IsInjective(polled) /\ polled \in Seq(Ids \union {CmdHandler})
    BY DEF HandlersInv, HandlersType, Consistent
  <2>2. CASE a = DummyAddr
    BY <2>1, <2>2
  <2>3. CASE a # DummyAddr
    <3>1. polled' = Append(polled, h)
      BY <2>3
    <3>2. h \in Ids \union {CmdHandler}
      OBVIOUS
    <3> QED BY <1>9, <2>1, <2>3, <3>1, <3>2, AppendAddsOne
  <2> QED BY <2>2, <2>3
<1>11. Inputs' = IF a = DummyAddr THEN Inputs ELSE Inputs \union {h}
  BY <1>10, Names DEF Inputs
<1>12. HandlersType'
  BY <1>2, <1>6, <1>10 DEF HandlersInv, HandlersType
<1>13. Consistent'
  <2>1. Inputs' \subseteq Live' \ Dummies'
    BY <1>3, <1>8, <1>11 DEF HandlersInv, Consistent, Inputs, Dummies
  <2>2. (CmdHandler \in Range(polled') <=> cmdsock' = "bound")
    BY <1>10, Names DEF HandlersInv, Consistent
  <2>3. \A g \in Live' \ Dummies' : heap'[g].addr # EmptyAddr
    BY <1>1, <1>2, <1>3, <1>4, <1>8, Names DEF HandlersInv, Consistent
  <2>4. \A f, g \in Live' : f # g => heap'[f].outs \intersect heap'[g].outs = {}
    BY <1>1, <1>2, <1>3, <1>4 DEF HandlersInv, Consistent
  <2>5. Bound' \intersect closing' = {}
    BY <1>5 DEF HandlersInv, Consistent
  <2> QED BY <1>7, <1>10, <2>1, <2>2, <2>3, <2>4, <2>5 DEF Consistent
<1>14. NoSourceTwice'
  BY <1>1, <1>2, <1>3, <1>4 DEF HandlersInv, NoSourceTwice
<1> QED BY <1>12, <1>13, <1>14 DEF HandlersInv

\* Only the outputs of a handler change, none of which is bound elsewhere or
\* still closing.
LEMMA ChangeOutputs ==
  ASSUME HandlersInv,
         NEW h \in Live, NEW outs \in SUBSET Outputs,
         heap' = [heap EXCEPT ![h].outs = outs],
         UNCHANGED <<list, polled, cmdsock>>,
         closing' \subseteq Outputs,
         \A g \in Live \ {h} : outs \intersect heap[g].outs = {},
         outs \intersect closing' = {},
         \A g \in Live \ {h} : heap[g].outs \intersect closing' = {}
  PROVE  HandlersInv'
<1>1. heap[h] \in Handler /\ h \in Ids
  BY LiveHandlers DEF HandlersInv
<1> DEFINE r == [heap[h] EXCEPT !.outs = outs]
<1>2. r \in Handler /\ r.addr = heap[h].addr /\ r.outs = outs
  BY <1>1 DEF Handler
<1>3. /\ heap' \in [Ids -> Handler \union {NoHandler}]
      /\ heap'[h] = r
      /\ \A g \in Ids : g # h => heap'[g] = heap[g]
  BY <1>1, <1>2 DEF HandlersInv, HandlersType
<1>4. r # NoHandler
  BY <1>2, Names
<1> HIDE DEF r
<1>5. Live' = Live
  BY <1>1, <1>3, <1>4 DEF Live
<1>6. \A g \in Live : heap'[g].addr = heap[g].addr
  BY <1>2, <1>3, LiveHandlers DEF HandlersInv
<1>7. Dummies' = Dummies /\ Inputs' = Inputs
  BY <1>5, <1>6 DEF Dummies, Inputs
<1>8. \A g \in Live : heap'[g].outs = IF g = h THEN outs ELSE heap[g].outs
  BY <1>2, <1>3, LiveHandlers DEF HandlersInv
<1>9. Bound' \intersect closing' = {}
  BY <1>5, <1>8 DEF Bound
<1>10. HandlersType'
  BY <1>3 DEF HandlersInv, HandlersType
<1>11. NoSourceTwice'
  BY <1>5, <1>6 DEF HandlersInv, NoSourceTwice
<1>12. Consistent'
  BY <1>5, <1>6, <1>7, <1>8, <1>9 DEF HandlersInv, Consistent
<1> QED BY <1>10, <1>11, <1>12 DEF HandlersInv

\* The registrations change; the heap and the list do not.
LEMMA ChangePolled ==
  ASSUME HandlersInv,
         UNCHANGED <<heap, list, closing>>,
         cmdsock' \in {"bound", "unbound", "none"},
         polled' \in Seq(Ids \union {CmdHandler}),
         IsInjective(polled'),
         Range(polled') \ {CmdHandler} \subseteq Inputs,
         CmdHandler \in Range(polled') <=> cmdsock' = "bound"
  PROVE  HandlersInv'
<1>1. HandlersType' /\ NoSourceTwice'
  BY DEF HandlersInv, HandlersType, NoSourceTwice, Live
<1>2. Live' = Live /\ Dummies' = Dummies /\ Bound' = Bound /\ Inputs' \subseteq Inputs
  BY DEF Live, Dummies, Bound, Inputs
<1>3. Consistent'
  BY <1>2 DEF HandlersInv, Consistent
<1> QED BY <1>1, <1>3 DEF HandlersInv

\* A handler is freed and unlisted, and its sockets are closed.
LEMMA RemoveHandler ==
  ASSUME HandlersInv, NEW h \in Live, Cleanup(h), list' = RemoveFirst(list, h),
         UNCHANGED cmdsock
  PROVE  /\ HandlersInv'
         /\ Live' = Live \ {h}
         /\ Bound' \intersect heap[h].outs = {}
         /\ Inputs' = Inputs \ {h}
<1>1. /\ h \in Ids /\ heap[h].outs \subseteq Outputs
      /\ heap' = [heap EXCEPT ![h] = NoHandler]
      /\ polled' = RemoveFirst(polled, h)
      /\ closing' = closing \union heap[h].outs
  BY LiveHandlers DEF HandlersInv, Cleanup
<1>2. /\ heap' \in [Ids -> Handler \union {NoHandler}]
      /\ heap'[h] = NoHandler
      /\ \A g \in Ids : g # h => heap'[g] = heap[g]
  BY <1>1 DEF HandlersInv, HandlersType
<1>3. Live' = Live \ {h}
  BY <1>1, <1>2 DEF Live
<1>4. \A g \in Live' : g \in Live /\ g # h /\ heap'[g] = heap[g]
  BY <1>1, <1>2, <1>3 DEF Live
<1>5. /\ list' \in Seq(Ids) /\ IsInjective(list')
      /\ Range(list') = Range(list) \ {h}
  BY RemoveFirstProperties DEF HandlersInv, HandlersType, Consistent
<1>6. /\ polled' \in Seq(Ids \union {CmdHandler}) /\ IsInjective(polled')
      /\ Range(polled') = Range(polled) \ {h}
  BY <1>1, RemoveFirstProperties DEF HandlersInv, HandlersType, Consistent
<1>7. Inputs' = Inputs \ {h}
  BY <1>6 DEF Inputs
<1>8. Dummies' = Dummies \ {h}
  BY <1>3, <1>4 DEF Dummies
<1>9. \A g \in Live' : heap[g].outs \intersect heap[h].outs = {}
  BY <1>4 DEF HandlersInv, Consistent
<1>10. Bound' \subseteq Bound /\ Bound' \intersect heap[h].outs = {}
  BY <1>4, <1>9 DEF Bound
<1>11. Bound' \intersect closing' = {}
  BY <1>1, <1>10 DEF HandlersInv, Consistent
<1>12. HandlersType'
  BY <1>1, <1>2, <1>5, <1>6 DEF HandlersInv, HandlersType
<1>13. NoSourceTwice'
  BY <1>4 DEF HandlersInv, NoSourceTwice
<1>14. Consistent'
  <2>1. (CmdHandler \in Range(polled') <=> cmdsock' = "bound")
    BY <1>1, <1>6, Names DEF HandlersInv, Consistent
  <2>2. \A g \in Live' \ Dummies' : heap'[g].addr # EmptyAddr
    BY <1>4, <1>8 DEF HandlersInv, Consistent
  <2>3. \A f, g \in Live' : f # g => heap'[f].outs \intersect heap'[g].outs = {}
    BY <1>4 DEF HandlersInv, Consistent
  <2>4. Range(list') = Live' /\ Inputs' \subseteq Live' \ Dummies'
    BY <1>3, <1>5, <1>7, <1>8 DEF HandlersInv, Consistent
  <2> QED BY <1>5, <1>6, <1>11, <2>1, <2>2, <2>3, <2>4 DEF Consistent
<1> QED BY <1>3, <1>7, <1>10, <1>12, <1>13, <1>14 DEF HandlersInv

-----------------------------------------------------------------------------
(* The commands, one by one.                                               *)

LEMMA AddSourceKeeps ==
  ASSUME HandlersInv, NEW a \in Sources \union {EmptyAddr}, AddSource(a)
  PROVE  HandlersInv'
<1>1. CASE /\ Find(a) = {}
           /\ \E h \in Ids \ Live :
                /\ SocketLeft /\ a # EmptyAddr
                /\ heap' = [heap EXCEPT ![h] = [addr |-> a, outs |-> {}]]
                /\ list' = Append(list, h)
                /\ polled' = Append(polled, h)
           /\ UNCHANGED <<cmdsock, closing, reaping, queued>>
  <2>1. a \in Sources /\ a # DummyAddr
    BY <1>1, Names
  <2>2. a \notin LongAddrs => \A g \in Live : heap[g].addr # a
    BY <1>1, FindProperties
  <2> QED BY <1>1, <2>1, <2>2, AddHandler
<1>2. CASE UNCHANGED <<heap, list, polled, cmdsock, closing>>
  BY <1>2, SameHandlers
<1> QED BY <1>1, <1>2 DEF AddSource, handlers

LEMMA DummySourceStartKeeps ==
  ASSUME HandlersInv, DummySourceStart
  PROVE  HandlersInv'
<1>1. CASE /\ SocketLeft /\ Dummies = {}
           /\ \E h \in Ids \ Live :
                /\ heap' = [heap EXCEPT ![h] = [addr |-> DummyAddr, outs |-> {}]]
                /\ list' = Append(list, h)
           /\ UNCHANGED <<polled, cmdsock, closing, reaping, queued>>
  <2>1. \A g \in Live : heap[g].addr # DummyAddr
    BY <1>1 DEF Dummies
  <2> QED BY <1>1, <2>1, AddHandler
<1>2. CASE UNCHANGED <<heap, list, polled, cmdsock, closing>>
  BY <1>2, SameHandlers
<1> QED BY <1>1, <1>2 DEF DummySourceStart, handlers

LEMMA RemoveSourceKeeps ==
  ASSUME HandlersInv, NEW a, RemoveSource(a)
  PROVE  HandlersInv'
<1>1. CASE /\ \E h \in Find(a) : Cleanup(h) /\ list' = RemoveFirst(list, h)
           /\ UNCHANGED cmdsock
  BY <1>1, FindProperties, RemoveHandler
<1>2. CASE UNCHANGED <<handlers, queued>>
  BY <1>2, SameHandlers DEF handlers
<1> QED BY <1>1, <1>2 DEF RemoveSource

\* The one handler whose outputs a command is about, and its outputs.
LEMMA FoundOutputs ==
  ASSUME HandlersInv, NEW a, NEW h \in Find(a)
  PROVE  /\ h \in Live /\ heap[h].outs \subseteq Outputs
         /\ heap[h].outs \subseteq Bound /\ heap[h].outs \intersect closing = {}
         /\ \A g \in Live \ {h} : /\ heap[g].outs \subseteq Bound
                                  /\ heap[g].outs \intersect heap[h].outs = {}
                                  /\ heap[g].outs \intersect closing = {}
<1>1. h \in Live
  BY FindProperties
<1>2. \A g \in Live : heap[g].outs \subseteq Bound
  BY DEF Bound
<1>3. \A g \in Live : heap[g].outs \intersect closing = {}
  BY <1>2 DEF HandlersInv, Consistent
<1> QED BY <1>1, <1>2, <1>3, LiveHandlers DEF HandlersInv, Consistent

LEMMA AddOutputKeeps ==
  ASSUME HandlersInv, NEW a, NEW o \in Outputs, AddOutput(a, o)
  PROVE  HandlersInv'
<1>1. ASSUME NEW h \in Find(a), SocketLeft, o \notin Bound \union closing,
             heap' = [heap EXCEPT ![h].outs = @ \union {o}],
             UNCHANGED <<list, polled, cmdsock, closing, reaping, queued>>
      PROVE  HandlersInv'
  <2> DEFINE outs == heap[h].outs \union {o}
  <2>1. heap' = [heap EXCEPT ![h].outs = outs]
    BY <1>1
  <2>2. h \in Live /\ outs \in SUBSET Outputs /\ closing' \subseteq Outputs
    BY <1>1, FoundOutputs DEF HandlersInv, HandlersType
  <2>3. /\ outs \intersect closing' = {}
        /\ \A g \in Live \ {h} : /\ outs \intersect heap[g].outs = {}
                                 /\ heap[g].outs \intersect closing' = {}
    BY <1>1, FoundOutputs
  <2> HIDE DEF outs
  <2> QED BY <1>1, <2>1, <2>2, <2>3, ChangeOutputs
<1>2. CASE UNCHANGED <<heap, list, polled, cmdsock, closing>>
  BY <1>2, SameHandlers
<1> QED BY <1>1, <1>2 DEF AddOutput, handlers

LEMMA RemoveOutputKeeps ==
  ASSUME HandlersInv, NEW a, NEW o \in Outputs, RemoveOutput(a, o)
  PROVE  HandlersInv'
<1>1. ASSUME NEW h \in Find(a),
             heap' = [heap EXCEPT ![h].outs = @ \ {o}],
             closing' = closing \union (heap[h].outs \intersect {o}),
             UNCHANGED <<list, polled, cmdsock, reaping, queued>>
      PROVE  HandlersInv'
  <2> DEFINE outs == heap[h].outs \ {o}
  <2>1. heap' = [heap EXCEPT ![h].outs = outs]
    BY <1>1
  <2>2. h \in Live /\ outs \in SUBSET Outputs /\ closing' \subseteq Outputs
    BY <1>1, FoundOutputs DEF HandlersInv, HandlersType
  <2>3. /\ outs \intersect closing' = {}
        /\ \A g \in Live \ {h} : /\ outs \intersect heap[g].outs = {}
                                 /\ heap[g].outs \intersect closing' = {}
    BY <1>1, FoundOutputs
  <2> HIDE DEF outs
  <2> QED BY <1>1, <2>1, <2>2, <2>3, ChangeOutputs
<1>2. CASE UNCHANGED <<handlers, queued>>
  BY <1>2, SameHandlers DEF handlers
<1> QED BY <1>1, <1>2 DEF RemoveOutput

LEMMA ReconnectSourceKeeps ==
  ASSUME HandlersInv, NEW a, ReconnectSource(a)
  PROVE  HandlersInv'
<1>1. ASSUME NEW h \in Find(a) \intersect Range(polled),
             polled' = IF SocketLeft THEN Append(RemoveFirst(polled, h), h)
                       ELSE RemoveFirst(polled, h),
             UNCHANGED <<heap, list, cmdsock, closing>>
      PROVE  HandlersInv'
  <2> DEFINE rest == RemoveFirst(polled, h)
  <2>1. /\ rest \in Seq(Ids \union {CmdHandler}) /\ IsInjective(rest)
        /\ Range(rest) = Range(polled) \ {h}
    BY RemoveFirstProperties DEF HandlersInv, HandlersType, Consistent
  <2>2. h \in Ids /\ h # CmdHandler /\ h \in Inputs
    BY FindProperties, Names DEF Live, Inputs
  <2>3. polled' = rest \/ polled' = Append(rest, h)
    BY <1>1
  <2> HIDE DEF rest
  <2>4. /\ polled' \in Seq(Ids \union {CmdHandler}) /\ IsInjective(polled')
        /\ Range(polled') \in {Range(polled) \ {h}, Range(polled)}
    <3>1. CASE polled' = rest
      BY <2>1, <3>1
    <3>2. CASE polled' = Append(rest, h)
      <4>1. h \in Ids \union {CmdHandler} /\ h \notin Range(rest)
        BY <2>1, <2>2
      <4>2. /\ polled' \in Seq(Ids \union {CmdHandler}) /\ IsInjective(polled')
            /\ Range(polled') = Range(rest) \union {h}
        BY <2>1, <3>2, <4>1, AppendAddsOne
      <4>3. h \in Range(polled)
        OBVIOUS
      <4> QED BY <2>1, <4>2, <4>3
    <3> QED BY <2>3, <3>1, <3>2
  <2>5. Range(polled') \ {CmdHandler} \subseteq Inputs
    BY <2>4 DEF Inputs
  <2>6. (CmdHandler \in Range(polled') <=> cmdsock' = "bound")
    BY <1>1, <2>2, <2>4 DEF HandlersInv, Consistent
  <2>7. cmdsock' \in {"bound", "unbound", "none"}
    BY <1>1 DEF HandlersInv, HandlersType
  <2> QED BY <1>1, <2>4, <2>5, <2>6, <2>7, ChangePolled
<1>2. CASE UNCHANGED <<handlers, queued>>
  BY <1>2, SameHandlers DEF handlers
<1> QED BY <1>1, <1>2 DEF ReconnectSource

\* Which addresses a command names.
LEMMA CommandAddrs ==
  ASSUME NEW c \in Command
  PROVE  /\ c.kind = "add-source" => c.source \in Sources \union {EmptyAddr}
         /\ c.kind \in {"remove-source", "reconnect-source"} => c.source \in Sources
         /\ c.kind \in {"add-output", "remove-output"}
              => c.source \in Sources /\ c.output \in Outputs
<1>1. CASE c \in TextCommand
  <2>1. CASE c \in [kind : SourceCommand, source : Sources]
    BY <2>1 DEF SourceCommand
  <2>2. CASE c \in [kind : OutputCommand, source : Sources, output : Outputs]
    BY <2>2 DEF OutputCommand
  <2>3. CASE c \in [kind : {"exit", "query"}]
    BY <2>3
  <2> QED BY <1>1, <2>1, <2>2, <2>3 DEF TextCommand
<1>2. ASSUME NEW kind \in JsonKind, NEW a \in Sources, NEW o \in Outputs,
             c = JsonCommand(kind, a, o)
      PROVE  /\ c.kind = "add-source" => c.source \in Sources \union {EmptyAddr}
             /\ c.kind \in {"add-source", "add-output", "dummy-source-start", "query"}
             /\ c.kind = "add-output" => c.source \in Sources /\ c.output \in Outputs
  BY <1>2 DEF JsonCommand, JsonKind
<1> QED BY <1>1, <1>2 DEF Command

LEMMA PerformKeeps ==
  ASSUME HandlersInv, NEW c \in Command, Perform(c)
  PROVE  HandlersInv'
<1>1. CASE c.kind = "add-source"
  BY <1>1, CommandAddrs, AddSourceKeeps DEF Perform
<1>2. CASE c.kind = "remove-source"
  BY <1>2, RemoveSourceKeeps DEF Perform
<1>3. CASE c.kind = "reconnect-source"
  BY <1>3, ReconnectSourceKeeps DEF Perform
<1>4. CASE c.kind = "add-output"
  BY <1>4, CommandAddrs, AddOutputKeeps DEF Perform
<1>5. CASE c.kind = "remove-output"
  BY <1>5, CommandAddrs, RemoveOutputKeeps DEF Perform
<1>6. CASE c.kind = "dummy-source-start"
  BY <1>6, DummySourceStartKeeps DEF Perform
<1>7. CASE c.kind \notin {"add-source", "remove-source", "reconnect-source", "add-output",
                          "remove-output", "dummy-source-start"}
  <2>1. UNCHANGED <<handlers, queued>>
    BY <1>7 DEF Perform
  <2> QED BY <2>1, SameHandlers DEF handlers
<1> QED BY <1>1, <1>2, <1>3, <1>4, <1>5, <1>6, <1>7

-----------------------------------------------------------------------------
(* The end of the thread, and the command socket.                          *)

\* When the thread ends, nothing is left on the heap.
LEMMA LeaveKeeps ==
  ASSUME HandlersInv, NEW how, Leave(how)
  PROVE  HandlersInv' /\ RequestType' /\ Live' = {}
<1>1. /\ heap' = [h \in Ids |-> NoHandler]
      /\ list' = <<>> /\ polled' = <<>> /\ cmdsock' = "none"
      /\ closing' = closing \union Bound
  BY DEF Leave
<1>2. Live' = {}
  BY <1>1 DEF Live
<1>3. Bound \subseteq Outputs
  BY LiveHandlers DEF HandlersInv, Bound
<1>4. Range(list') = {} /\ Range(polled') = {} /\ IsInjective(list') /\ IsInjective(polled')
  BY <1>1 DEF Range, IsInjective
<1>5. HandlersType'
  BY <1>1, <1>3 DEF HandlersInv, HandlersType
<1>6. Consistent'
  BY <1>1, <1>2, <1>4 DEF Consistent, Inputs, Bound, Dummies
<1>7. NoSourceTwice'
  BY <1>2 DEF NoSourceTwice
<1>8. request' = NoRequest
  BY DEF Leave
<1>9. NoRequest.command \in Command /\ "command" \in DOMAIN NoRequest
  BY DEF NoRequest, Command, TextCommand
<1> QED BY <1>2, <1>5, <1>6, <1>7, <1>8, <1>9 DEF HandlersInv, RequestType, Current

\* The command socket is taken out of the poller, and perhaps a new one put in.
LEMMA CommandSocketKeeps ==
  ASSUME HandlersInv,
         \/ Reopened
         \/ cmdsock' = "none" /\ polled' = Unpolled,
         UNCHANGED <<heap, list, closing>>
  PROVE  HandlersInv' /\ Inputs' = Inputs
<1> DEFINE rest == RemoveFirst(polled, CmdHandler)
<1>1. /\ rest \in Seq(Ids \union {CmdHandler}) /\ IsInjective(rest)
      /\ Range(rest) = Range(polled) \ {CmdHandler}
  BY RemoveFirstProperties DEF HandlersInv, HandlersType, Consistent
<1>2. \/ polled' = rest /\ cmdsock' \in {"unbound", "none"}
      \/ polled' = Append(rest, CmdHandler) /\ cmdsock' = "bound"
  BY DEF Reopened, Unpolled
<1> HIDE DEF rest
<1>3. /\ polled' \in Seq(Ids \union {CmdHandler}) /\ IsInjective(polled')
      /\ Range(polled') \ {CmdHandler} = Inputs
      /\ CmdHandler \in Range(polled') <=> cmdsock' = "bound"
  <2>1. CASE polled' = rest /\ cmdsock' \in {"unbound", "none"}
    BY <1>1, <2>1 DEF Inputs
  <2>2. CASE polled' = Append(rest, CmdHandler) /\ cmdsock' = "bound"
    <3>1. /\ polled' \in Seq(Ids \union {CmdHandler}) /\ IsInjective(polled')
          /\ Range(polled') = Range(rest) \union {CmdHandler}
      BY <1>1, <2>2, AppendAddsOne
    <3> QED BY <1>1, <2>2, <3>1 DEF Inputs
  <2> QED BY <1>2, <2>1, <2>2
<1>4. cmdsock' \in {"bound", "unbound", "none"}
  BY <1>2
<1> QED BY <1>3, <1>4, ChangePolled DEF Inputs

-----------------------------------------------------------------------------
(* The invariant.                                                          *)

LEMMA Initially == Init => IInv
<1> SUFFICES ASSUME Init PROVE IInv
  OBVIOUS
<1>1. HandlersType
  BY DEF Init, HandlersType
<1>2. Live = {}
  BY DEF Init, Live
<1>3. /\ Range(list) = {} /\ IsInjective(list)
      /\ Range(polled) = {CmdHandler} /\ IsInjective(polled)
  BY DEF Init, Range, IsInjective
<1>4. Consistent
  BY <1>2, <1>3 DEF Init, Consistent, Inputs, Bound, Dummies
<1>5. NoSourceTwice
  BY <1>2 DEF NoSourceTwice
<1>6. RequestType
  BY DEF Init, RequestType, Current, NoRequest, Command, TextCommand
<1> QED BY <1>1, <1>4, <1>5, <1>6 DEF IInv

LEMMA Step == IInv /\ [Next]_vars => IInv'
<1> SUFFICES ASSUME IInv, [Next]_vars PROVE IInv'
  OBVIOUS
<1>0. HandlersInv /\ RequestType /\ (HandlersInv' /\ RequestType' => IInv')
  BY DEF IInv, HandlersInv
<1>1. ASSUME UNCHANGED <<heap, list, polled, cmdsock, closing, request>>
      PROVE  IInv'
  <2>1. RequestType'
    BY <1>0, <1>1 DEF RequestType, Current
  <2> QED BY <1>0, <1>1, <2>1, SameHandlers
<1>2. ASSUME NEW how, Leave(how)
      PROVE  IInv'
  BY <1>0, <1>2, LeaveKeeps
<1>3. ASSUME NEW c \in Clients, SendCommand(c)
      PROVE  IInv'
  BY <1>1, <1>3 DEF SendCommand, handlers, loop
<1>4. ASSUME NEW c \in Clients, ClientRestarts(c)
      PROVE  IInv'
  <2>1. request' = IF request.from = c THEN [request EXCEPT !.from = Gone] ELSE request
    BY <1>4 DEF ClientRestarts
  <2>2. RequestType'
    BY <1>0, <2>1 DEF RequestType, Current
  <2>3. UNCHANGED <<heap, list, polled, cmdsock, closing>>
    BY <1>4 DEF ClientRestarts, handlers
  <2> QED BY <1>0, <2>2, <2>3, SameHandlers
<1>5. ASSUME NEW h \in Ids, SourceSends(h)
      PROVE  IInv'
  BY <1>1, <1>5 DEF SourceSends, handlers, loop
<1>6. CASE Reap
  <2>1. /\ UNCHANGED <<heap, list, polled, cmdsock, request>>
        /\ closing' \subseteq closing
    BY <1>6 DEF Reap, loop
  <2>2. RequestType'
    BY <1>0, <2>1 DEF RequestType, Current
  <2> QED BY <1>0, <2>1, <2>2, Closing
<1>7. CASE PollFails \/ StopLoop \/ NoMemory \/ GiveUp
  BY <1>2, <1>7 DEF PollFails, StopLoop, NoMemory, GiveUp
<1>8. CASE Poll
  BY <1>1, <1>8 DEF Poll, handlers
<1>9. CASE Dispatch
  BY <1>1, <1>2, <1>9 DEF Dispatch, handlers
<1>10. CASE ReceiveCommand
  <2>1. RequestType'
    BY <1>10 DEF ReceiveCommand, RequestType, Current
  <2>2. UNCHANGED <<heap, list, polled, cmdsock, closing>>
    BY <1>10 DEF ReceiveCommand, handlers
  <2> QED BY <1>0, <2>1, <2>2, SameHandlers
<1>11. CASE HandleCommand
  <2>1. HandlersInv'
    BY <1>0, <1>11, PerformKeeps DEF HandleCommand, RequestType
  <2>2. request' = NoRequest
    BY <1>11 DEF HandleCommand
  <2>3. RequestType'
    BY <2>2 DEF RequestType, Current, NoRequest, Command, TextCommand
  <2> QED BY <1>0, <2>1, <2>3
<1>12. CASE CommandSocketFails \/ WrongState \/ ReopenAgain
  <2>1. /\ \/ Reopened
           \/ cmdsock' = "none" /\ polled' = Unpolled
        /\ UNCHANGED <<heap, list, closing, request>>
    BY <1>12 DEF CommandSocketFails, WrongState, Reopen, EndRound, ReopenAgain, loop
  <2>2. RequestType'
    BY <1>0, <2>1 DEF RequestType, Current
  <2> QED BY <1>0, <2>1, <2>2, CommandSocketKeeps
<1>13. CASE CommandsDone
  BY <1>1, <1>13 DEF CommandsDone, EndRound, handlers
<1>14. CASE Read
  BY <1>1, <1>14 DEF Read, handlers, loop
<1>15. CASE ReadAll
  BY <1>1, <1>15 DEF ReadAll, handlers
<1>16. CASE UNCHANGED vars
  BY <1>1, <1>16 DEF vars, handlers, loop
<1> QED BY <1>3, <1>4, <1>5, <1>6, <1>7, <1>8, <1>9, <1>10, <1>11, <1>12, <1>13, <1>14,
           <1>15, <1>16 DEF Next, Thread

\* In every reachable state the handlers are consistent.
THEOREM Invariance == Spec => []IInv
<1>1. Init => IInv
  BY Initially
<1>2. IInv /\ [Next]_vars => IInv'
  BY Step
<1> QED BY <1>1, <1>2, PTL DEF Spec

\* The list, the heap, the poller and the bound addresses agree whatever
\* clients ask for, in whatever order, and whichever sockets fail.
THEOREM StaysConsistent == Spec => []Consistent
<1>1. IInv => Consistent
  BY DEF IInv
<1> QED BY <1>1, Invariance, PTL

\* A source is listed once, however often it is added.
THEOREM AddsOnce == Spec => []NoSourceTwice
<1>1. IInv => NoSourceTwice
  BY DEF IInv
<1> QED BY <1>1, Invariance, PTL

-----------------------------------------------------------------------------
(* The types of the rest.                                                  *)

LoopType ==
  /\ reaping \in Nat
  /\ queued \in [Ids -> 0..MaxQueue]
  /\ msgs \in Nat
  /\ waiting \subseteq Clients
  /\ cmdq \in Seq(Sender)
  /\ cmds \in 0..MaxCmds
  /\ restarts \in 0..MaxRestarts
  /\ faults \in 0..MaxFaults
  /\ pc \in Places
  /\ batch \in Seq(Ids \union {CmdHandler})
  /\ request \in [from : Sender, command : Command]
  /\ exiting \in BOOLEAN
  /\ stop \in BOOLEAN

\* What is handled is the first event of the batch.
Handling == pc \in {"commands", "performing", "unanswered", "reading"} => batch # <<>>

LoopInv == LoopType /\ Handling

LEMMA Typed == TypeOK <=> HandlersType /\ LoopType
BY DEF TypeOK, HandlersType, LoopType

LEMMA NoRequestIsRequest == NoRequest \in [from : Sender, command : Command]
BY DEF NoRequest, Sender, Command, TextCommand

\* As many sockets as there are handlers can be counted.
LEMMA SocketsCounted ==
  ASSUME HandlersInv
  PROVE  Cardinality(Inputs) \in Nat /\ Cardinality(Dummies) \in Nat
<1>1. IsFiniteSet(Range(polled)) /\ IsFiniteSet(Live)
  BY RangeFinite DEF HandlersInv, HandlersType, Consistent
<1>2. Inputs \subseteq Range(polled) /\ Dummies \subseteq Live
  BY DEF Inputs, Dummies
<1>3. IsFiniteSet(Inputs) /\ IsFiniteSet(Dummies)
  BY <1>1, <1>2, FS_Subset
<1> QED BY <1>3, FS_CardinalityType

\* A poll returns what is registered.
LEMMA ReadyProperties ==
  ASSUME HandlersType, NEW m \in Nat
  PROVE  /\ Ready \in Seq(Ids \union {CmdHandler})
         /\ SubSeq(Ready, 1, Min({m, Len(Ready)})) \in Seq(Ids \union {CmdHandler})
<1> DEFINE S == {i \in DOMAIN polled : IsReady(polled[i])}
           at == Ascending(S)
           n == Len(polled)
           U == Ids \union {CmdHandler}
<1>1. n \in Nat /\ DOMAIN polled = 1..n /\ \A i \in 1..n : polled[i] \in U
  BY LenProperties, ElementOfSeq DEF HandlersType
<1>2. S \in SUBSET (1..n)
  BY <1>1
<1> HIDE DEF S, n
<1>3. at \in Seq(1..n)
  BY <1>1, <1>2, AscendingProperties
<1> HIDE DEF at
<1>4. Len(at) \in Nat /\ DOMAIN at = 1..Len(at) /\ \A k \in 1..Len(at) : at[k] \in 1..n
  BY <1>3, LenProperties, ElementOfSeq
<1>5. Ready = [k \in 1..Len(at) |-> polled[at[k]]]
  BY <1>4 DEF Ready, at, S
<1>6. Ready \in [1..Len(at) -> U]
  BY <1>1, <1>4, <1>5
<1>7. Ready \in Seq(U)
  BY <1>4, <1>6, SeqDef
<1> HIDE DEF U
<1>8. SubSeq(Ready, 1, Min({m, Len(Ready)})) \in Seq(U)
  <2> DEFINE l == Len(Ready)
             k == Min({m, l})
  <2>1. l \in Nat /\ \A i \in 1..l : Ready[i] \in U
    BY <1>7, LenProperties, ElementOfSeq
  <2>2. k \in Int /\ k <= l
    <3>1. m \in Int /\ l \in Int
      BY <2>1
    <3> HIDE DEF l
    <3> QED BY <3>1, LeastOfTwo
  <2> HIDE DEF k, l
  <2>3. \A i \in 1..k : Ready[i] \in U
    BY <2>1, <2>2
  <2>4. SubSeq(Ready, 1, k) \in Seq(U)
    BY <2>2, <2>3, SubSeqProperties
  <2> QED BY <2>4 DEF k, l
<1> QED BY <1>7, <1>8 DEF U

\* What a command does to the sockets that are closed and to the inputs.
LEMMA PerformTypes ==
  ASSUME HandlersInv, reaping \in Nat, queued \in [Ids -> 0..MaxQueue],
         NEW c \in Command, Perform(c)
  PROVE  reaping' \in Nat /\ queued' \in [Ids -> 0..MaxQueue]
<1>0. 0 \in 0..MaxQueue
  BY BoundsAssumption
<1>1. CASE c.kind = "add-source"
  BY <1>1 DEF Perform, AddSource, handlers
<1>2. CASE c.kind = "remove-source"
  BY <1>0, <1>2 DEF Perform, RemoveSource, Cleanup, handlers
<1>3. CASE c.kind = "reconnect-source"
  BY <1>0, <1>3 DEF Perform, ReconnectSource, handlers
<1>4. CASE c.kind = "add-output"
  BY <1>4 DEF Perform, AddOutput, handlers
<1>5. CASE c.kind = "remove-output"
  BY <1>5 DEF Perform, RemoveOutput, handlers
<1>6. CASE c.kind = "dummy-source-start"
  BY <1>6 DEF Perform, DummySourceStart, handlers
<1>7. CASE c.kind \notin {"add-source", "remove-source", "reconnect-source", "add-output",
                          "remove-output", "dummy-source-start"}
  BY <1>7 DEF Perform, handlers
<1> QED BY <1>1, <1>2, <1>3, <1>4, <1>5, <1>6, <1>7

LEMMA LeaveTypes ==
  ASSUME HandlersInv, LoopInv, NEW how \in {"ended", "failed"}, Leave(how)
  PROVE  LoopInv'
<1>1. /\ pc' = how /\ batch' = <<>> /\ request' = NoRequest
      /\ queued' = [h \in Ids |-> 0]
      /\ UNCHANGED <<msgs, waiting, cmdq, bounds, exiting, stop>>
  BY DEF Leave
<1>2. reaping' \in Nat
  <2> DEFINE one == IF cmdsock = "none" THEN 0 ELSE 1
             inputs == Cardinality(Inputs)
             dummies == Cardinality(Dummies)
  <2>1. one \in Nat /\ inputs \in Nat /\ dummies \in Nat /\ reaping \in Nat
    BY SocketsCounted DEF LoopInv, LoopType
  <2>2. reaping' = reaping + inputs + dummies + one
    BY DEF Leave
  <2> HIDE DEF one, inputs, dummies
  <2> QED BY <2>1, <2>2
<1>3. queued' \in [Ids -> 0..MaxQueue]
  BY <1>1, BoundsAssumption
<1> QED BY <1>1, <1>2, <1>3, NoRequestIsRequest DEF LoopInv, LoopType, Handling, Places, bounds

LEMMA LoopStep == IInv /\ LoopInv /\ [Next]_vars => LoopInv'
<1> SUFFICES ASSUME IInv, LoopInv, [Next]_vars PROVE LoopInv'
  OBVIOUS
<1> USE DEF LoopInv
<1>0. HandlersInv
  BY DEF IInv, HandlersInv
<1>1. ASSUME NEW how \in {"ended", "failed"}, Leave(how)
      PROVE  LoopInv'
  BY <1>0, <1>1, LeaveTypes
<1>2. ASSUME NEW c \in Clients, SendCommand(c)
      PROVE  LoopInv'
  <2>1. /\ waiting' = waiting \union {c} /\ cmdq' = Append(cmdq, c)
        /\ cmds < MaxCmds /\ cmds' = cmds + 1
        /\ UNCHANGED <<reaping, queued, msgs, restarts, faults, loop>>
    BY <1>2 DEF SendCommand, handlers
  <2>2. cmdq' \in Seq(Sender)
    <3>1. c \in Sender /\ cmdq \in Seq(Sender)
      BY DEF Sender, LoopType
    <3> QED BY <2>1, <3>1, AppendProperties
  <2>3. cmds' \in 0..MaxCmds
    BY <2>1, BoundsAssumption DEF LoopType
  <2> QED BY <2>1, <2>2, <2>3 DEF LoopType, Handling, loop
<1>3. ASSUME NEW c \in Clients, ClientRestarts(c)
      PROVE  LoopInv'
  <2>1. /\ waiting' = waiting \ {c}
        /\ \/ cmdq' = RemoveFirst(cmdq, c)
           \/ cmdq' = [i \in DOMAIN cmdq |-> IF cmdq[i] = c THEN Gone ELSE cmdq[i]]
        /\ request' = IF request.from = c THEN [request EXCEPT !.from = Gone] ELSE request
        /\ restarts < MaxRestarts /\ restarts' = restarts + 1
        /\ UNCHANGED <<reaping, queued, msgs, cmds, faults, pc, batch, exiting, stop>>
    BY <1>3 DEF ClientRestarts, handlers
  <2>2. cmdq' \in Seq(Sender)
    <3>1. cmdq \in Seq(Sender) /\ Gone \in Sender
      BY DEF LoopType, Sender
    <3>2. Len(cmdq) \in Nat /\ DOMAIN cmdq = 1..Len(cmdq) /\ \A i \in 1..Len(cmdq) : cmdq[i] \in Sender
      BY <3>1, LenProperties, ElementOfSeq
    <3>3. CASE cmdq' = RemoveFirst(cmdq, c)
      BY <3>1, <3>3, RemoveFirstOnce
    <3>4. CASE cmdq' = [i \in DOMAIN cmdq |-> IF cmdq[i] = c THEN Gone ELSE cmdq[i]]
      <4>1. cmdq' \in [1..Len(cmdq) -> Sender]
        BY <3>1, <3>2, <3>4
      <4> QED BY <3>2, <4>1, SeqDef
    <3> QED BY <2>1, <3>3, <3>4
  <2>3. request' \in [from : Sender, command : Command]
    BY <2>1 DEF LoopType, Sender
  <2>4. restarts' \in 0..MaxRestarts
    <3>1. restarts \in 0..MaxRestarts /\ MaxRestarts \in Nat
      BY BoundsAssumption DEF LoopType
    <3> QED BY <2>1, <3>1
  <2> QED BY <2>1, <2>2, <2>3, <2>4 DEF LoopType, Handling
<1>4. ASSUME NEW h \in Ids, SourceSends(h)
      PROVE  LoopInv'
  <2>1. /\ queued[h] < MaxQueue /\ queued' = [queued EXCEPT ![h] = @ + 1]
        /\ msgs' \in {msgs, msgs + 1}
        /\ UNCHANGED <<reaping, waiting, cmdq, bounds, loop>>
    BY <1>4 DEF SourceSends, handlers
  <2>2. queued' \in [Ids -> 0..MaxQueue]
    <3>1. queued \in [Ids -> 0..MaxQueue] /\ MaxQueue \in Nat
      BY BoundsAssumption DEF LoopType
    <3>2. queued[h] + 1 \in 0..MaxQueue
      BY <2>1, <3>1
    <3> QED BY <2>1, <3>1, <3>2
  <2>3. msgs' \in Nat
    BY <2>1 DEF LoopType
  <2> QED BY <2>1, <2>2, <2>3 DEF LoopType, Handling, loop, bounds
<1>5. CASE Reap
  <2>1. /\ (reaping > 0 /\ reaping' = reaping - 1) \/ reaping' = reaping
        /\ UNCHANGED <<world, loop>>
    BY <1>5 DEF Reap
  <2>2. reaping' \in Nat
    BY <2>1 DEF LoopType
  <2> QED BY <2>1, <2>2 DEF LoopType, Handling, world, bounds, loop
<1>6. CASE PollFails \/ StopLoop \/ NoMemory \/ GiveUp
  BY <1>1, <1>6 DEF PollFails, StopLoop, NoMemory, GiveUp
<1>7. CASE Poll
  <2>1. /\ Ready # <<>> /\ batch' = SubSeq(Ready, 1, Min({MaxEvents, Len(Ready)}))
        /\ pc' = "dispatch" /\ UNCHANGED <<reaping, world, request, exiting, stop>>
    BY <1>7 DEF Poll, handlers
  <2>2. batch' \in Seq(Ids \union {CmdHandler})
    <3>1. MaxEvents \in Nat /\ HandlersType
      BY <1>0, LimitsAssumption DEF HandlersInv
    <3>2. SubSeq(Ready, 1, Min({MaxEvents, Len(Ready)})) \in Seq(Ids \union {CmdHandler})
      BY <3>1, ReadyProperties
    <3> QED BY <2>1, <3>2
  <2> QED BY <2>1, <2>2 DEF LoopType, Handling, Places, world, bounds
<1>8. CASE Dispatch
  <2>1. CASE \E how \in {"ended", "failed"} : Leave(how)
    BY <1>1, <2>1
  <2>2. CASE /\ batch # <<>> \/ pc' = "poll"
             /\ batch' = batch /\ pc' \in {"poll", "commands", "reading"}
             /\ exiting' \in {exiting, FALSE}
             /\ UNCHANGED <<reaping, world, request, stop>>
    BY <2>2 DEF LoopType, Handling, Places, world, bounds
  <2>3. CASE /\ batch # <<>> /\ batch' = Tail(batch) /\ pc = "dispatch"
             /\ UNCHANGED <<reaping, world, pc, request, exiting, stop>>
    <3>1. batch' \in Seq(Ids \union {CmdHandler})
      BY <2>3, HeadTailProperties DEF LoopType
    <3> QED BY <2>3, <3>1 DEF LoopType, Handling, world, bounds
  <2> QED BY <1>8, <2>1, <2>2, <2>3 DEF Dispatch, handlers
<1>9. CASE ReceiveCommand
  <2>1. PICK command \in Command : request' = [from |-> Head(cmdq), command |-> command]
    BY <1>9 DEF ReceiveCommand
  <2>2. /\ cmdq # <<>> /\ cmdq' = Tail(cmdq) /\ pc = "commands" /\ pc' = "performing"
        /\ UNCHANGED <<reaping, queued, msgs, waiting, bounds, batch, exiting, stop>>
    BY <1>9 DEF ReceiveCommand, handlers
  <2>3. Head(cmdq) \in Sender /\ cmdq' \in Seq(Sender)
    BY <2>2, HeadTailProperties DEF LoopType
  <2>4. request' \in [from : Sender, command : Command]
    BY <2>1, <2>3
  <2> QED BY <2>2, <2>3, <2>4 DEF LoopType, Handling, Places, bounds
<1>10. CASE HandleCommand
  <2>1. /\ pc = "performing" /\ Perform(Current)
        /\ exiting' = (exiting \/ Current.kind = "exit")
        /\ request' = NoRequest /\ pc' \in {"commands", "unanswered"}
        /\ waiting' \in {waiting, waiting \ {request.from}}
        /\ faults' = faults \/ (faults < MaxFaults /\ faults' = faults + 1)
        /\ UNCHANGED <<msgs, cmdq, cmds, restarts, batch, stop>>
    BY <1>10 DEF HandleCommand, Answered, Unanswered
  <2>2. reaping' \in Nat /\ queued' \in [Ids -> 0..MaxQueue]
    <3>1. Current \in Command
      BY DEF LoopType, Current
    <3> QED BY <1>0, <2>1, <3>1, PerformTypes DEF LoopType
  <2>3. exiting' \in BOOLEAN
    BY <2>1, Zenon
  <2>4. faults' \in 0..MaxFaults
    <3>1. faults \in 0..MaxFaults /\ MaxFaults \in Nat
      BY BoundsAssumption DEF LoopType
    <3> QED BY <2>1, <3>1
  <2>5. pc' \in Places /\ waiting' \subseteq Clients
    BY <2>1 DEF LoopType, Places
  <2> QED BY <2>1, <2>2, <2>3, <2>4, <2>5, NoRequestIsRequest DEF LoopType, Handling
<1>11. ASSUME Reopen
       PROVE  /\ reaping' \in Nat /\ cmdq' \in Seq(Sender)
              /\ UNCHANGED <<queued, msgs, waiting, cmds, restarts>>
  <2>1. reaping \in Nat /\ reaping' = reaping + 1 /\ cmdq' = <<>>
    BY <1>11 DEF Reopen, LoopType
  <2> QED BY <1>11, <2>1, EmptySeq DEF Reopen
<1>12. ASSUME pc \in {"commands", "unanswered"}, EndRound
       PROVE  /\ batch' \in Seq(Ids \union {CmdHandler}) /\ stop' \in BOOLEAN
              /\ pc' = "dispatch" /\ UNCHANGED <<request, exiting>>
  <2>1. /\ stop' = (stop \/ exiting)
        /\ batch' = IF exiting THEN <<>> ELSE Tail(batch)
        /\ pc' = "dispatch" /\ UNCHANGED <<request, exiting>>
    BY <1>12 DEF EndRound
  <2>2. batch' \in Seq(Ids \union {CmdHandler})
    <3>1. batch # <<>> /\ batch \in Seq(Ids \union {CmdHandler})
      BY <1>12 DEF LoopType, Handling
    <3> QED BY <2>1, <3>1, HeadTailProperties, EmptySeq
  <2>3. stop' \in BOOLEAN
    BY <2>1, Zenon
  <2> QED BY <2>1, <2>2, <2>3
<1>13. CASE CommandSocketFails
  <2>1. faults < MaxFaults /\ faults' = faults + 1 /\ Reopen /\ UNCHANGED loop
    BY <1>13 DEF CommandSocketFails
  <2>2. faults' \in 0..MaxFaults
    <3>1. faults \in 0..MaxFaults /\ MaxFaults \in Nat
      BY BoundsAssumption DEF LoopType
    <3> QED BY <2>1, <3>1
  <2> QED BY <1>11, <2>1, <2>2 DEF LoopType, Handling, loop
<1>14. CASE WrongState
  <2>1. pc = "unanswered" /\ Reopen /\ EndRound /\ UNCHANGED faults
    BY <1>14 DEF WrongState
  <2> QED BY <1>11, <1>12, <2>1 DEF LoopType, Handling, Places
<1>15. CASE CommandsDone
  <2>1. pc = "commands" /\ EndRound /\ UNCHANGED <<reaping, world>>
    BY <1>15 DEF CommandsDone, handlers
  <2> QED BY <1>12, <2>1 DEF LoopType, Handling, Places, world, bounds
<1>16. CASE ReopenAgain
  <2>1. UNCHANGED <<reaping, world, loop>>
    BY <1>16 DEF ReopenAgain
  <2> QED BY <2>1 DEF LoopType, Handling, world, bounds, loop
<1>17. CASE Read
  <2>1. /\ queued[Head(batch)] > 0 /\ queued' = [queued EXCEPT ![Head(batch)] = @ - 1]
        /\ UNCHANGED <<reaping, msgs, waiting, cmdq, bounds, loop>>
    BY <1>17 DEF Read, handlers
  <2>2. queued' \in [Ids -> 0..MaxQueue]
    <3>1. queued \in [Ids -> 0..MaxQueue] /\ MaxQueue \in Nat
      BY BoundsAssumption DEF LoopType
    <3> DEFINE h == Head(batch)
    <3> HIDE DEF h
    <3>2. queued[h] > 0 /\ queued' = [queued EXCEPT ![h] = @ - 1]
      BY <2>1 DEF h
    <3>3. h \in Ids => queued[h] - 1 \in 0..MaxQueue
      BY <3>1, <3>2
    <3> QED BY <3>1, <3>2, <3>3
  <2> QED BY <2>1, <2>2 DEF LoopType, Handling, bounds, loop
<1>18. CASE ReadAll
  <2>1. /\ pc = "reading" /\ batch' = Tail(batch) /\ pc' = "dispatch"
        /\ UNCHANGED <<reaping, world, request, exiting, stop>>
    BY <1>18 DEF ReadAll, handlers
  <2>2. batch' \in Seq(Ids \union {CmdHandler})
    BY <2>1, HeadTailProperties DEF LoopType, Handling
  <2> QED BY <2>1, <2>2 DEF LoopType, Handling, Places, world, bounds
<1>19. CASE UNCHANGED vars
  BY <1>19 DEF vars, handlers, world, bounds, loop, LoopType, Handling
<1> QED BY <1>2, <1>3, <1>4, <1>5, <1>6, <1>7, <1>8, <1>9, <1>10, <1>13, <1>14, <1>15, <1>16,
           <1>17, <1>18, <1>19 DEF Next, Thread

LEMMA LoopInitially == Init => LoopInv
<1> SUFFICES ASSUME Init PROVE LoopInv
  OBVIOUS
<1>1. 0 \in 0..MaxQueue /\ 0 \in 0..MaxCmds /\ 0 \in 0..MaxRestarts /\ 0 \in 0..MaxFaults
  BY BoundsAssumption
<1>2. cmdq \in Seq(Sender) /\ batch \in Seq(Ids \union {CmdHandler})
  BY EmptySeq DEF Init
<1>3. request \in [from : Sender, command : Command]
  BY NoRequestIsRequest DEF Init
<1>4. queued \in [Ids -> 0..MaxQueue]
  BY <1>1 DEF Init
<1> QED BY <1>1, <1>2, <1>3, <1>4 DEF Init, LoopInv, LoopType, Handling, Places

\* In every reachable state the variables of the loop have their types, and
\* while something is handled its event is in the batch.
THEOREM LoopInvariance == Spec => []LoopInv
<1>1. Init => LoopInv
  BY LoopInitially
<1>2. IInv /\ LoopInv /\ [Next]_vars => LoopInv'
  BY LoopStep
<1> QED BY <1>1, <1>2, Invariance, PTL DEF Spec

\* Every variable has its type: a batch holds handlers, the command socket
\* the requests of clients, no input more than it has room for.
THEOREM TypeCorrect == Spec => []TypeOK
<1>1. IInv /\ LoopInv => TypeOK
  BY Typed DEF IInv, LoopInv
<1> QED BY <1>1, Invariance, LoopInvariance, PTL

-----------------------------------------------------------------------------
(* Requests and replies.                                                   *)

\* A request that is received is performed at once.
Idle == pc # "performing" => request.from = Gone

\* A reply is owed only when its sending failed.
Owed == pc = "unanswered" => faults # 0

RequestInv == OneRequestEach /\ Idle /\ Owed

LEMMA RequestInitially == Init => RequestInv
<1> SUFFICES ASSUME Init PROVE RequestInv
  OBVIOUS
<1>1. Range(cmdq) = {} /\ DOMAIN cmdq = {} /\ request.from = Gone /\ waiting = {}
  BY DEF Init, Range, NoRequest
<1>2. pc # "unanswered"
  BY DEF Init
<1> QED BY <1>1, <1>2 DEF RequestInv, OneRequestEach, Idle, Owed

LEMMA RequestStep == LoopType /\ RequestInv /\ [Next]_vars => RequestInv'
<1> SUFFICES ASSUME LoopType, RequestInv, [Next]_vars PROVE RequestInv'
  OBVIOUS
<1>0. /\ cmdq \in Seq(Sender) /\ waiting \subseteq Clients /\ Gone \notin Clients
      /\ request \in [from : Sender, command : Command] /\ faults \in Nat
      /\ DOMAIN cmdq = 1..Len(cmdq) /\ \A i \in DOMAIN cmdq : cmdq[i] \in Sender
  BY NamesAssumption, LenProperties, ElementOfSeq DEF LoopType
<1>1. /\ Range(cmdq) \subseteq waiting \union {Gone}
      /\ request.from \in waiting \union {Gone}
      /\ request.from # Gone => request.from \notin Range(cmdq)
      /\ faults = 0 /\ ~Over => waiting \subseteq Range(cmdq) \union {request.from}
      /\ pc # "performing" => request.from = Gone
      /\ pc = "unanswered" => faults # 0
  BY DEF RequestInv, OneRequestEach, Idle, Owed
<1>2. Once(cmdq, Clients)
  BY <1>0 DEF RequestInv, OneRequestEach, Once
<1>3. ASSUME /\ Once(cmdq', Clients) /\ cmdq' \in Seq(Sender)
             /\ Range(cmdq)' \subseteq waiting' \union {Gone}
             /\ request'.from \in waiting' \union {Gone}
             /\ request'.from # Gone => request'.from \notin Range(cmdq)'
             /\ faults' = 0 /\ ~Over' => waiting' \subseteq Range(cmdq)' \union {request'.from}
             /\ pc' # "performing" => request'.from = Gone
             /\ pc' = "unanswered" => faults' # 0
      PROVE  RequestInv'
  <2>1. \A i \in DOMAIN cmdq' : cmdq'[i] \in Sender
    BY <1>3, LenProperties, ElementOfSeq
  <2>2. \A i, j \in DOMAIN cmdq' : cmdq'[i] = cmdq'[j] /\ cmdq'[i] # Gone => i = j
    BY <1>3, <2>1 DEF Once, Sender
  <2> QED BY <1>3, <2>2 DEF RequestInv, OneRequestEach, Idle, Owed
<1>4. ASSUME UNCHANGED <<cmdq, waiting, request, faults>>,
             pc' \notin {"performing", "unanswered"}, pc # "performing" \/ request.from = Gone,
             Over => Over'
      PROVE  RequestInv'
  BY <1>0, <1>1, <1>2, <1>3, <1>4
<1>5. ASSUME NEW how \in {"ended", "failed"}, Leave(how)
      PROVE  RequestInv'
  <2>1. /\ pc' = how /\ request' = NoRequest /\ UNCHANGED <<cmdq, waiting, faults>>
    BY <1>5 DEF Leave, bounds
  <2>2. Over' /\ request'.from = Gone
    BY <2>1 DEF Over, NoRequest
  <2> QED BY <1>0, <1>1, <1>2, <1>3, <2>1, <2>2
<1>6. ASSUME NEW c \in Clients, SendCommand(c)
      PROVE  RequestInv'
  <2>1. /\ c \notin waiting /\ waiting' = waiting \union {c} /\ cmdq' = Append(cmdq, c)
        /\ UNCHANGED <<pc, request, faults>>
    BY <1>6 DEF SendCommand, loop
  <2>2. c \in Sender /\ c # Gone /\ c \notin Range(cmdq) /\ request.from # c
    BY <1>0, <1>1, <2>1 DEF Sender
  <2>3. cmdq' \in Seq(Sender) /\ Range(cmdq)' = Range(cmdq) \union {c} /\ Once(cmdq', Clients)
    BY <1>0, <1>2, <2>1, <2>2, AppendAddsOne
  <2> QED BY <1>1, <1>3, <2>1, <2>2, <2>3 DEF Over
<1>7. ASSUME NEW c \in Clients, ClientRestarts(c)
      PROVE  RequestInv'
  <2>1. /\ ~Over /\ waiting' = waiting \ {c}
        /\ \/ cmdq' = RemoveFirst(cmdq, c)
           \/ cmdq' = [i \in DOMAIN cmdq |-> IF cmdq[i] = c THEN Gone ELSE cmdq[i]]
        /\ request' = IF request.from = c THEN [request EXCEPT !.from = Gone] ELSE request
        /\ UNCHANGED <<faults, pc>>
    BY <1>7 DEF ClientRestarts
  <2>2. /\ cmdq' \in Seq(Sender) /\ Once(cmdq', Clients)
        /\ Range(cmdq)' \ {Gone} = Range(cmdq) \ {c, Gone}
    <3>1. CASE cmdq' = RemoveFirst(cmdq, c)
      <4> DEFINE rest == RemoveFirst(cmdq, c)
      <4>1. rest \in Seq(Sender) /\ Once(rest, Clients) /\ Range(rest) = Range(cmdq) \ {c}
        BY <1>0, <1>2, RemoveFirstOnce
      <4> HIDE DEF rest
      <4>2. cmdq' = rest
        BY <3>1 DEF rest
      <4> QED BY <4>1, <4>2
    <3>2. CASE cmdq' = [i \in DOMAIN cmdq |-> IF cmdq[i] = c THEN Gone ELSE cmdq[i]]
      <4>1. cmdq' \in [1..Len(cmdq) -> Sender] /\ Len(cmdq) \in Nat
        BY <1>0, <3>2, LenProperties DEF Sender
      <4>2. Once(cmdq', Clients)
        BY <1>0, <1>2, <3>2 DEF Once
      <4>3. Range(cmdq)' \ {Gone} = Range(cmdq) \ {c, Gone}
        BY <3>2 DEF Range
      <4> QED BY <4>1, <4>2, <4>3, SeqDef
    <3> QED BY <2>1, <3>1, <3>2
  <2>3. request'.from = IF request.from = c THEN Gone ELSE request.from
    BY <1>0, <2>1
  <2> QED BY <1>0, <1>1, <1>3, <2>1, <2>2, <2>3 DEF Over
<1>8. CASE PollFails \/ StopLoop \/ NoMemory \/ GiveUp
  BY <1>5, <1>8 DEF PollFails, StopLoop, NoMemory, GiveUp
<1>9. CASE Dispatch
  <2>1. CASE \E how \in {"ended", "failed"} : Leave(how)
    BY <1>5, <2>1
  <2>2. CASE /\ pc = "dispatch" /\ pc' \in {"poll", "commands", "reading", "dispatch"}
             /\ UNCHANGED <<world, request>>
    BY <1>4, <2>2 DEF world, bounds, Over
  <2> QED BY <1>9, <2>1, <2>2 DEF Dispatch
<1>10. CASE ReceiveCommand
  <2>1. /\ cmdq # <<>> /\ cmdq' = Tail(cmdq) /\ pc = "commands" /\ pc' = "performing"
        /\ request'.from = Head(cmdq) /\ UNCHANGED <<waiting, faults>>
    BY <1>10 DEF ReceiveCommand, bounds
  <2>2. /\ Head(cmdq) \in Sender /\ cmdq' \in Seq(Sender) /\ Once(cmdq', Clients)
        /\ Range(cmdq) = {Head(cmdq)} \union Range(cmdq)'
        /\ Head(cmdq) \in Clients => Head(cmdq) \notin Range(cmdq)'
    BY <1>0, <1>2, <2>1, TailOnce
  <2>3. ~Over /\ request.from = Gone
    BY <1>1, <2>1 DEF Over
  <2> QED BY <1>0, <1>1, <1>3, <2>1, <2>2, <2>3 DEF Sender
<1>11. CASE HandleCommand
  <2>1. /\ request'.from = Gone /\ pc = "performing" /\ UNCHANGED cmdq
        /\ Answered \/ Unanswered
    BY <1>11 DEF HandleCommand, NoRequest
  <2>2. CASE Answered
    BY <1>0, <1>1, <1>2, <1>3, <2>1, <2>2 DEF Answered, Over
  <2>3. CASE Unanswered
    <3>1. faults' # 0 /\ pc' = "unanswered" /\ UNCHANGED waiting
      BY <1>0, <2>3 DEF Unanswered
    <3> QED BY <1>0, <1>1, <1>2, <1>3, <2>1, <3>1
  <2> QED BY <2>1, <2>2, <2>3
<1>12. CASE CommandSocketFails \/ WrongState
  <2>1. /\ cmdq' = <<>> /\ pc \in {"commands", "unanswered"} /\ UNCHANGED <<waiting, request>>
        /\ faults' # 0 /\ pc' # "performing"
    <3>1. CASE CommandSocketFails
      BY <1>0, <3>1 DEF CommandSocketFails, Reopen, loop
    <3>2. CASE WrongState
      <4>1. pc = "unanswered" /\ UNCHANGED faults
        BY <3>2 DEF WrongState
      <4> QED BY <1>1, <3>2, <4>1 DEF WrongState, Reopen, EndRound
    <3> QED BY <1>12, <3>1, <3>2
  <2>2. cmdq' \in Seq(Sender) /\ Range(cmdq)' = {} /\ Once(cmdq', Clients)
    BY <2>1, EmptySeq DEF Range, Once
  <2> QED BY <1>1, <1>3, <2>1, <2>2
<1>13. CASE \/ (\E h \in Ids : SourceSends(h)) \/ Reap
            \/ Poll \/ ReopenAgain \/ CommandsDone \/ Read \/ ReadAll
            \/ UNCHANGED vars
  <2>1. /\ UNCHANGED <<cmdq, waiting, request, faults>>
        /\ pc' = pc \/ (~Over /\ pc # "performing" /\ pc' = "dispatch")
    BY <1>13 DEF SourceSends, Reap, Poll, ReopenAgain, CommandsDone, EndRound, Read, ReadAll,
                 vars, world, bounds, loop, Over
  <2>2. CASE pc' = pc
    BY <1>0, <1>1, <1>2, <1>3, <2>1, <2>2 DEF Over
  <2>3. CASE ~Over /\ pc # "performing" /\ pc' = "dispatch"
    BY <1>4, <2>1, <2>3
  <2> QED BY <2>1, <2>2, <2>3
<1> QED BY <1>6, <1>7, <1>8, <1>9, <1>10, <1>11, <1>12, <1>13 DEF Next, Thread

\* However clients send, die and come back: each that waits has one request
\* under way, and no reply goes to one that did not ask.
THEOREM OneEach == Spec => []OneRequestEach
<1>1. Init => RequestInv
  BY RequestInitially
<1>2. LoopInv /\ RequestInv /\ [Next]_vars => RequestInv'
  BY RequestStep DEF LoopInv
<1>3. RequestInv => OneRequestEach
  BY DEF RequestInv
<1> QED BY <1>1, <1>2, <1>3, LoopInvariance, PTL DEF Spec

-----------------------------------------------------------------------------
(* What a step may not do.                                                 *)

\* A source that is removed takes all its outputs with it, and nothing of it
\* stays on the heap.
THEOREM RemovesWhole == Spec => RemoveSourceRemoves
<1> DEFINE A == Performing("remove-source") /\ Current.source \notin LongAddrs
                  => \A h \in Targeted : h \notin Live' /\ heap[h].outs \intersect Bound' = {}
<1>1. IInv /\ [Next]_vars => [A]_vars
  <2> SUFFICES ASSUME IInv, HandleCommand, Current.kind = "remove-source",
                      Current.source \notin LongAddrs, NEW h \in Targeted
               PROVE  h \notin Live' /\ heap[h].outs \intersect Bound' = {}
    BY DEF Performing
  <2>0. HandlersInv
    BY DEF IInv, HandlersInv
  <2>1. h \in Live /\ h \in Find(Current.source)
    BY <2>0, FindProperties DEF Targeted
  <2>2. RemoveSource(Current.source)
    BY DEF HandleCommand, Perform
  <2>3. PICK g \in Find(Current.source) : Cleanup(g) /\ list' = RemoveFirst(list, g)
                                          /\ UNCHANGED cmdsock
    BY <2>1, <2>2 DEF RemoveSource
  <2>4. g = h
    BY <2>0, <2>1, <2>3, FindProperties
  <2> QED BY <2>0, <2>1, <2>3, <2>4, RemoveHandler
<1> HIDE DEF A
<1>2. Spec => [][A]_vars
  BY <1>1, Invariance, PTL DEF Spec
<1> QED BY <1>2 DEF A, RemoveSourceRemoves

LEMMA SamePolled ==
  ASSUME polled' = polled
  PROVE  Inputs \intersect Live' \subseteq Inputs'
BY DEF Inputs

LEMMA PerformKeepsPolled ==
  ASSUME HandlersInv, NEW c \in Command, Perform(c), SocketLeft
  PROVE  Inputs \intersect Live' \subseteq Inputs'
<1>1. CASE c.kind = "add-source"
  <2>1. AddSource(c.source)
    BY <1>1 DEF Perform
  <2>2. ASSUME NEW h \in Ids \ Live, polled' = Append(polled, h)
        PROVE  Inputs \intersect Live' \subseteq Inputs'
    <3>1. polled \in Seq(Ids \union {CmdHandler}) /\ h \in Ids \union {CmdHandler}
      BY DEF HandlersInv, HandlersType
    <3>2. Range(polled') = Range(polled) \union {h}
      BY <2>2, <3>1, AppendAddsOne
    <3> QED BY <3>2 DEF Inputs
  <2>3. polled' = polled \/ \E h \in Ids \ Live : polled' = Append(polled, h)
    BY <2>1 DEF AddSource, handlers
  <2> QED BY <2>2, <2>3, SamePolled
<1>2. CASE c.kind = "remove-source"
  <2>1. RemoveSource(c.source)
    BY <1>2 DEF Perform
  <2>2. ASSUME NEW h \in Find(c.source), Cleanup(h), list' = RemoveFirst(list, h),
               UNCHANGED cmdsock
        PROVE  Inputs \intersect Live' \subseteq Inputs'
    BY <2>2, FindProperties, RemoveHandler
  <2>3. CASE UNCHANGED <<handlers, queued>>
    BY <2>3, SamePolled DEF handlers
  <2> QED BY <2>1, <2>2, <2>3 DEF RemoveSource
<1>3. CASE c.kind = "reconnect-source"
  <2>1. ReconnectSource(c.source)
    BY <1>3 DEF Perform
  <2>2. ASSUME NEW h \in Range(polled), h \in Ids,
               polled' = Append(RemoveFirst(polled, h), h)
        PROVE  Inputs \intersect Live' \subseteq Inputs'
    <3> DEFINE rest == RemoveFirst(polled, h)
    <3>1. /\ rest \in Seq(Ids \union {CmdHandler})
          /\ Range(rest) = Range(polled) \ {h}
      BY RemoveFirstProperties DEF HandlersInv, HandlersType, Consistent
    <3> HIDE DEF rest
    <3>2. h \in Ids \union {CmdHandler} /\ polled' = Append(rest, h)
      BY <2>2 DEF rest
    <3>3. Range(polled') = Range(rest) \union {h}
      BY <3>1, <3>2, AppendAddsOne
    <3> QED BY <3>1, <3>3 DEF Inputs
  <2>3. \/ polled' = polled
        \/ \E h \in Find(c.source) \intersect Range(polled) :
             polled' = Append(RemoveFirst(polled, h), h)
    BY <2>1 DEF ReconnectSource, handlers
  <2>4. \A h \in Find(c.source) : h \in Ids
    BY FindProperties DEF Live
  <2> QED BY <2>2, <2>3, <2>4, SamePolled
<1>4. CASE c.kind = "add-output"
  <2>1. AddOutput(c.source, c.output)
    BY <1>4 DEF Perform
  <2> QED BY <2>1, SamePolled DEF AddOutput, handlers
<1>5. CASE c.kind = "remove-output"
  <2>1. RemoveOutput(c.source, c.output)
    BY <1>5 DEF Perform
  <2> QED BY <2>1, SamePolled DEF RemoveOutput, handlers
<1>6. CASE c.kind = "dummy-source-start"
  <2>1. DummySourceStart
    BY <1>6 DEF Perform
  <2> QED BY <2>1, SamePolled DEF DummySourceStart, handlers
<1>7. CASE c.kind \notin {"add-source", "remove-source", "reconnect-source", "add-output",
                          "remove-output", "dummy-source-start"}
  <2>1. UNCHANGED <<handlers, queued>>
    BY <1>7 DEF Perform
  <2> QED BY <2>1, SamePolled DEF handlers
<1> QED BY <1>1, <1>2, <1>3, <1>4, <1>5, <1>6, <1>7

\* No step takes the input from a source that stays, while there are sockets.
THEOREM StaysPolled == Spec => EverySourcePolled
<1> DEFINE A == SocketLeft => Inputs \intersect Live' \subseteq Inputs'
<1>1. IInv /\ [Next]_vars => [A]_vars
  <2> SUFFICES ASSUME IInv, [Next]_vars, SocketLeft
               PROVE  Inputs \intersect Live' \subseteq Inputs'
    OBVIOUS
  <2>0. HandlersInv /\ RequestType
    BY DEF IInv, HandlersInv
  <2>1. ASSUME polled' = polled
        PROVE  Inputs \intersect Live' \subseteq Inputs'
    BY <2>1, SamePolled
  <2>2. ASSUME NEW how, Leave(how)
        PROVE  Inputs \intersect Live' \subseteq Inputs'
    BY <2>0, <2>2, LeaveKeeps
  <2>3. CASE HandleCommand
    BY <2>0, <2>3, PerformKeepsPolled DEF HandleCommand, RequestType
  <2>4. CASE CommandSocketFails \/ WrongState \/ ReopenAgain
    <3>1. /\ \/ Reopened
             \/ cmdsock' = "none" /\ polled' = Unpolled
          /\ UNCHANGED <<heap, list, closing>>
      BY <2>4 DEF CommandSocketFails, WrongState, Reopen, ReopenAgain
    <3> QED BY <2>0, <3>1, CommandSocketKeeps
  <2>5. CASE \/ \E c \in Clients : SendCommand(c) \/ ClientRestarts(c)
             \/ \E h \in Ids : SourceSends(h)
             \/ Reap
    BY <2>1, <2>5 DEF SendCommand, ClientRestarts, SourceSends, Reap, handlers
  <2>6. CASE PollFails \/ StopLoop \/ NoMemory \/ GiveUp
    BY <2>2, <2>6 DEF PollFails, StopLoop, NoMemory, GiveUp
  <2>7. CASE Dispatch
    BY <2>1, <2>2, <2>7 DEF Dispatch, handlers
  <2>8. CASE Poll \/ ReceiveCommand \/ CommandsDone \/ Read \/ ReadAll
    BY <2>1, <2>8 DEF Poll, ReceiveCommand, CommandsDone, Read, ReadAll, handlers
  <2>9. CASE UNCHANGED vars
    BY <2>1, <2>9 DEF vars, handlers
  <2> QED BY <2>3, <2>4, <2>5, <2>6, <2>7, <2>8, <2>9 DEF Next, Thread
<1> HIDE DEF A
<1>2. Spec => [][A]_vars
  BY <1>1, Invariance, PTL DEF Spec
<1> QED BY <1>2 DEF A, EverySourcePolled

-----------------------------------------------------------------------------
(* The sources and outputs as the clients know them.                       *)

\* The sources that can be found are those of the handlers, one each.
LEMMA ConfigProperties ==
  ASSUME HandlersInv
  PROVE  /\ DOMAIN Config = {heap[h].addr : h \in Live} \ LongAddrs
         /\ Config = [a \in DOMAIN Config |-> Config[a]]
         /\ \A h \in Live : heap[h].addr \notin LongAddrs
              => heap[h].addr \in DOMAIN Config /\ Config[heap[h].addr] = heap[h].outs
         /\ RG!Taken \subseteq Bound
<1>1. DOMAIN Config = {heap[h].addr : h \in Live} \ LongAddrs /\ Config = [a \in DOMAIN Config |-> Config[a]]
  BY DEF Config
<1>2. ASSUME NEW h \in Live, heap[h].addr \notin LongAddrs
      PROVE  heap[h].addr \in DOMAIN Config /\ Config[heap[h].addr] = heap[h].outs
  <2>1. {g \in Live : heap[g].addr = heap[h].addr} = {h}
    BY <1>2 DEF HandlersInv, NoSourceTwice
  <2>2. heap[h].addr \in {heap[g].addr : g \in Live} \ LongAddrs
    BY <1>2
  <2>3. Config[heap[h].addr] = UNION {heap[f].outs : f \in {h}}
    BY <2>1, <2>2 DEF Config
  <2> QED BY <2>2, <2>3, <1>1
<1>3. \A a \in DOMAIN Config : \E h \in Live : heap[h].addr = a /\ a \notin LongAddrs
  BY <1>1
<1>4. \A a \in DOMAIN Config : Config[a] \subseteq Bound
  BY <1>2, <1>3 DEF Bound
<1>5. RG!Taken \subseteq Bound
  BY <1>4 DEF RG!Taken
<1> QED BY <1>1, <1>2, <1>5

\* What is found is what a source of the configuration is kept in.
LEMMA FindConfig ==
  ASSUME HandlersInv, NEW a
  PROVE  /\ \A h \in Find(a) : h \in Live /\ heap[h].addr = a /\ a \notin LongAddrs
         /\ a \in DOMAIN Config <=> Find(a) # {}
<1>1. Find(a) # {} => a \notin LongAddrs
  BY DEF Find
<1>2. \A h \in Find(a) : h \in Live /\ heap[h].addr = a /\ a \notin LongAddrs
  BY <1>1, FindProperties
<1>3. a \in DOMAIN Config => Find(a) # {}
  <2> SUFFICES ASSUME a \in DOMAIN Config PROVE Find(a) # {}
    OBVIOUS
  <2>1. PICK h \in Live : heap[h].addr = a /\ a \notin LongAddrs
    BY ConfigProperties
  <2> QED BY <2>1, FindProperties
<1>4. Find(a) # {} => a \in DOMAIN Config
  BY <1>2, ConfigProperties
<1> QED BY <1>2, <1>3, <1>4

\* A step that leaves the heap alone changes no source.
LEMMA SameConfig == UNCHANGED heap => UNCHANGED Config
BY DEF Config, Live

\* The same of the next state, as the steps below need it.
LEMMA ConfigAgrees ==
  HandlersInv =>
    /\ DOMAIN Config = {heap[h].addr : h \in Live} \ LongAddrs
    /\ Config = [a \in DOMAIN Config |-> Config[a]]
    /\ \A h \in Live : heap[h].addr \notin LongAddrs
         => Config[heap[h].addr] = heap[h].outs
BY ConfigProperties

LEMMA ConfigAgreesNext ==
  (HandlersInv =>
    /\ DOMAIN Config = {heap[h].addr : h \in Live} \ LongAddrs
    /\ Config = [a \in DOMAIN Config |-> Config[a]]
    /\ \A h \in Live : heap[h].addr \notin LongAddrs
         => Config[heap[h].addr] = heap[h].outs)'
BY ConfigAgrees, PTL

\* The configuration after a step is known when its sources are.
LEMMA ConfigIs ==
  ASSUME HandlersInv', NEW D, NEW f, f = [a \in D |-> f[a]],
         \A a : a \in D <=> \E h \in Live' : heap'[h].addr = a /\ a \notin LongAddrs,
         \A h \in Live' : heap'[h].addr \notin LongAddrs => f[heap'[h].addr] = heap'[h].outs
  PROVE  Config' = f
<1> DEFINE new == Config'
<1>1. /\ DOMAIN new = {heap'[h].addr : h \in Live'} \ LongAddrs
      /\ new = [a \in DOMAIN new |-> new[a]]
      /\ \A h \in Live' : heap'[h].addr \notin LongAddrs
           => new[heap'[h].addr] = heap'[h].outs
  BY ConfigAgreesNext
<1> HIDE DEF new
<1>2. DOMAIN new = D
  BY <1>1
<1>3. \A a \in D : new[a] = f[a]
  BY <1>1
<1>4. new = f
  BY <1>1, <1>2, <1>3
<1> QED BY <1>4 DEF new

\* A handler that is added is a source without outputs; when its address is too
\* long, no command will find it.
LEMMA ConfigAdds ==
  ASSUME HandlersInv, HandlersInv',
         NEW a \in Sources \union {DummyAddr}, NEW h \in Ids \ Live,
         heap' = [heap EXCEPT ![h] = [addr |-> a, outs |-> {}]],
         a \notin LongAddrs => \A g \in Live : heap[g].addr # a
  PROVE  RG!AddSource(a)
<1> DEFINE r == [addr |-> a, outs |-> {}]
<1>1. r # NoHandler /\ r.addr = a /\ r.outs = {}
  <2>1. r \in Handler
    BY DEF Handler
  <2> QED BY <2>1, Names
<1>2. /\ heap'[h] = r
      /\ \A g \in Ids : g # h => heap'[g] = heap[g]
  BY DEF HandlersInv, HandlersType
<1> HIDE DEF r
<1>3. Live' = Live \union {h} /\ \A g \in Live : g # h /\ heap'[g] = heap[g]
  BY <1>1, <1>2 DEF Live
<1>4. /\ DOMAIN Config = {heap[g].addr : g \in Live} \ LongAddrs
      /\ Config = [b \in DOMAIN Config |-> Config[b]]
      /\ \A g \in Live : heap[g].addr \notin LongAddrs => Config[heap[g].addr] = heap[g].outs
  BY ConfigProperties
<1>5. CASE a \notin LongAddrs
  <2> DEFINE D == DOMAIN Config \union {a}
             f == [b \in D |-> IF b = a THEN {} ELSE Config[b]]
  <2>1. a \notin DOMAIN Config
    BY <1>4, <1>5
  <2>2. \A b : b \in D <=> \E g \in Live' : heap'[g].addr = b /\ b \notin LongAddrs
    BY <1>1, <1>2, <1>3, <1>4, <1>5
  <2>3. \A g \in Live' : heap'[g].addr \notin LongAddrs => f[heap'[g].addr] = heap'[g].outs
    <3>1. \A g \in Live : heap[g].addr # a
      BY <1>5
    <3> QED BY <1>1, <1>2, <1>3, <1>4, <3>1
  <2>4. f = [b \in D |-> f[b]]
    OBVIOUS
  <2>5. Config' = f
    <3> HIDE DEF f, D
    <3> QED BY <2>2, <2>3, <2>4, ConfigIs, SMTT(30)
  <2> QED BY <1>5, <2>1, <2>5 DEF RG!AddSource, RG!With
<1>6. CASE a \in LongAddrs
  <2>1. \A b : b \in DOMAIN Config <=> \E g \in Live' : heap'[g].addr = b /\ b \notin LongAddrs
    BY <1>1, <1>2, <1>3, <1>4, <1>6
  <2>2. \A g \in Live' : heap'[g].addr \notin LongAddrs => Config[heap'[g].addr] = heap'[g].outs
    BY <1>1, <1>2, <1>3, <1>4, <1>6
  <2>3. Config' = Config
    <3> DEFINE f == Config
    <3>1. f = [b \in DOMAIN f |-> f[b]]
      BY <1>4
    <3> HIDE DEF f
    <3> QED BY <2>1, <2>2, <3>1, ConfigIs DEF f
  <2> QED BY <2>3 DEF RG!AddSource
<1> QED BY <1>5, <1>6

\* The outputs of one source change.
LEMMA ConfigChanges ==
  ASSUME HandlersInv, HandlersInv', NEW a, NEW h \in Find(a), NEW outs,
         heap' = [heap EXCEPT ![h].outs = outs]
  PROVE  a \in DOMAIN Config /\ Config' = RG!With(a, outs)
<1>1. h \in Live /\ heap[h].addr = a /\ a \notin LongAddrs /\ a \in DOMAIN Config
  BY FindConfig
<1>2. heap[h] \in Handler /\ h \in Ids /\ Live \subseteq Ids
  BY <1>1, LiveHandlers DEF HandlersInv
<1> DEFINE r == [heap[h] EXCEPT !.outs = outs]
<1>3. heap'[h] = r /\ \A g \in Ids : g # h => heap'[g] = heap[g]
  BY <1>2 DEF HandlersInv, HandlersType
<1>4. r.addr = a /\ r.outs = outs
  BY <1>1, <1>2 DEF Handler
<1>5. r # NoHandler
  <2>1. a # NoHandler.addr
    BY <1>1, LiveHandlers, NamesAssumption DEF HandlersInv, NoHandler, DummyAddr
  <2> HIDE DEF r
  <2> QED BY <1>4, <2>1
<1> HIDE DEF r
<1>6. Live' = Live
  BY <1>1, <1>2, <1>3, <1>5 DEF Live
<1>7. \A g \in Live : g # h => heap[g].addr # a
  BY <1>1 DEF HandlersInv, NoSourceTwice
<1>8. /\ DOMAIN Config = {heap[g].addr : g \in Live} \ LongAddrs
      /\ \A g \in Live : heap[g].addr \notin LongAddrs => Config[heap[g].addr] = heap[g].outs
  BY ConfigProperties
<1> DEFINE D == DOMAIN Config \union {a}
           f == [b \in D |-> IF b = a THEN outs ELSE Config[b]]
<1>9. \A b : b \in D <=> \E g \in Live' : heap'[g].addr = b /\ b \notin LongAddrs
  <2>1. \A g \in Live : heap'[g].addr = heap[g].addr
    BY <1>1, <1>2, <1>3, <1>4
  <2> QED BY <1>1, <1>6, <1>8, <2>1
<1>10. \A g \in Live' : heap'[g].addr \notin LongAddrs => f[heap'[g].addr] = heap'[g].outs
  BY <1>1, <1>2, <1>3, <1>4, <1>6, <1>7, <1>8
<1>11. f = [b \in D |-> f[b]]
  OBVIOUS
<1>12. Config' = f
  <2> HIDE DEF f, D
  <2> QED BY <1>9, <1>10, <1>11, ConfigIs
<1> QED BY <1>1, <1>12 DEF RG!With

\* A handler that is freed takes its source out of the configuration.
LEMMA ConfigRemoves ==
  ASSUME HandlersInv, HandlersInv', NEW a, NEW h \in Find(a),
         heap' = [heap EXCEPT ![h] = NoHandler]
  PROVE  RG!RemoveSource(a)
<1>1. h \in Live /\ heap[h].addr = a /\ a \notin LongAddrs
  BY FindConfig
<1>2. h \in Ids /\ heap'[h] = NoHandler /\ \A g \in Ids : g # h => heap'[g] = heap[g]
  BY <1>1 DEF Live, HandlersInv, HandlersType
<1>3. Live' = Live \ {h} /\ \A g \in Live' : g \in Live /\ g # h /\ heap'[g] = heap[g]
  BY <1>2 DEF Live
<1>4. \A g \in Live : g # h => heap[g].addr # a
  BY <1>1 DEF HandlersInv, NoSourceTwice
<1>5. /\ DOMAIN Config = {heap[g].addr : g \in Live} \ LongAddrs
      /\ \A g \in Live : heap[g].addr \notin LongAddrs => Config[heap[g].addr] = heap[g].outs
  BY ConfigProperties
<1> DEFINE D == DOMAIN Config \ {a}
           f == [b \in D |-> Config[b]]
<1>6. \A b : b \in D <=> \E g \in Live' : heap'[g].addr = b /\ b \notin LongAddrs
  BY <1>1, <1>3, <1>4, <1>5
<1>7. \A g \in Live' : heap'[g].addr \notin LongAddrs => f[heap'[g].addr] = heap'[g].outs
  BY <1>3, <1>4, <1>5
<1>8. f = [b \in D |-> f[b]]
  OBVIOUS
<1>9. Config' = f
  <2> HIDE DEF f, D
  <2> QED BY <1>6, <1>7, <1>8, ConfigIs
<1> QED BY <1>9 DEF RG!RemoveSource, RG!Without

\* Every command does to the handlers what it promises to do to the sources.
LEMMA PerformHasEffect ==
  ASSUME HandlersInv, HandlersInv', NEW c \in Command, Perform(c)
  PROVE  RG!Effect(c)
<1>0. UNCHANGED heap => UNCHANGED Config
  BY SameConfig
<1>1. CASE c.kind = "add-source"
  <2> DEFINE a == c.source
  <2>1. a \in Sources \union {EmptyAddr} /\ AddSource(a)
    BY <1>1, CommandAddrs DEF Perform
  <2> HIDE DEF a
  <2>2. ASSUME NEW h \in Ids \ Live, Find(a) = {}, a # EmptyAddr,
               heap' = [heap EXCEPT ![h] = [addr |-> a, outs |-> {}]]
        PROVE  RG!AddSource(a)
    <3>1. a \in Sources \union {DummyAddr}
      BY <2>1, <2>2
    <3>2. a \notin LongAddrs => \A g \in Live : heap[g].addr # a
      BY <2>2, FindProperties
    <3> QED BY <2>2, <3>1, <3>2, ConfigAdds
  <2>3. ASSUME UNCHANGED heap
        PROVE  RG!AddSource(a)
    BY <1>0, <2>3 DEF RG!AddSource
  <2>4. RG!AddSource(a)
    BY <2>1, <2>2, <2>3 DEF AddSource, handlers
  <2> QED BY <1>1, <2>4 DEF RG!Effect, a
<1>2. CASE c.kind = "remove-source"
  <2> DEFINE a == c.source
  <2>1. RemoveSource(a)
    BY <1>2 DEF Perform
  <2> HIDE DEF a
  <2>2. ASSUME NEW h \in Find(a), Cleanup(h)
        PROVE  RG!RemoveSource(a)
    <3>1. heap' = [heap EXCEPT ![h] = NoHandler]
      BY <2>2 DEF Cleanup
    <3> QED BY <2>2, <3>1, ConfigRemoves
  <2>3. ASSUME Find(a) = {}, UNCHANGED heap
        PROVE  RG!RemoveSource(a)
    <3>1. a \notin DOMAIN Config /\ Config' = Config
      BY <1>0, <2>3, FindConfig
    <3>2. DOMAIN Config \ {a} = DOMAIN Config
      BY <3>1
    <3>3. Config' = [b \in DOMAIN Config |-> Config[b]]
      BY <3>1, ConfigProperties
    <3> QED BY <3>2, <3>3 DEF RG!RemoveSource, RG!Without
  <2>4. RG!RemoveSource(a)
    BY <2>1, <2>2, <2>3 DEF RemoveSource, handlers
  <2> QED BY <1>2, <2>4 DEF RG!Effect, a
<1>3. CASE c.kind = "add-output"
  <2> DEFINE a == c.source
             o == c.output
  <2>1. AddOutput(a, o)
    BY <1>3 DEF Perform
  <2> HIDE DEF a, o
  <2>2. ASSUME NEW h \in Find(a), o \notin Bound,
               heap' = [heap EXCEPT ![h].outs = @ \union {o}]
        PROVE  RG!AddOutput(a, o)
    <3> DEFINE outs == heap[h].outs \union {o}
    <3>1. heap' = [heap EXCEPT ![h].outs = outs]
      BY <2>2
    <3>2. h \in Live /\ heap[h].addr = a /\ a \notin LongAddrs
      BY FindConfig
    <3>3. Config[a] = heap[h].outs
      BY <3>2, ConfigProperties
    <3>4. o \notin RG!Taken
      BY <2>2, ConfigProperties
    <3>5. a \in DOMAIN Config /\ Config' = RG!With(a, outs)
      <4> HIDE DEF outs
      <4> QED BY <3>1, ConfigChanges
    <3> QED BY <3>3, <3>4, <3>5 DEF RG!AddOutput
  <2>3. ASSUME UNCHANGED heap
        PROVE  RG!AddOutput(a, o)
    BY <1>0, <2>3 DEF RG!AddOutput
  <2>4. RG!AddOutput(a, o)
    BY <2>1, <2>2, <2>3 DEF AddOutput, handlers
  <2> QED BY <1>3, <2>4 DEF RG!Effect, a, o
<1>4. CASE c.kind = "remove-output"
  <2> DEFINE a == c.source
             o == c.output
  <2>1. RemoveOutput(a, o)
    BY <1>4 DEF Perform
  <2> HIDE DEF a, o
  <2>2. ASSUME NEW h \in Find(a),
               heap' = [heap EXCEPT ![h].outs = @ \ {o}]
        PROVE  RG!RemoveOutput(a, o)
    <3> DEFINE outs == heap[h].outs \ {o}
    <3>1. heap' = [heap EXCEPT ![h].outs = outs]
      BY <2>2
    <3>2. h \in Live /\ heap[h].addr = a /\ a \notin LongAddrs
      BY FindConfig
    <3>3. Config[a] = heap[h].outs
      BY <3>2, ConfigProperties
    <3>4. a \in DOMAIN Config /\ Config' = RG!With(a, outs)
      <4> HIDE DEF outs
      <4> QED BY <3>1, ConfigChanges
    <3> QED BY <3>3, <3>4 DEF RG!RemoveOutput
  <2>3. ASSUME Find(a) = {}, UNCHANGED heap
        PROVE  RG!RemoveOutput(a, o)
    BY <1>0, <2>3, FindConfig DEF RG!RemoveOutput
  <2>4. RG!RemoveOutput(a, o)
    BY <2>1, <2>2, <2>3 DEF RemoveOutput, handlers
  <2> QED BY <1>4, <2>4 DEF RG!Effect, a, o
<1>5. CASE c.kind = "dummy-source-start"
  <2>1. DummySourceStart
    BY <1>5 DEF Perform
  <2>2. ASSUME NEW h \in Ids \ Live, Dummies = {},
               heap' = [heap EXCEPT ![h] = [addr |-> DummyAddr, outs |-> {}]]
        PROVE  RG!AddSource(DummyAddr)
    <3> DEFINE a == DummyAddr
    <3>1. a \in Sources \union {DummyAddr} /\ \A g \in Live : heap[g].addr # a
      BY <2>2 DEF Dummies
    <3> HIDE DEF a
    <3>2. heap' = [heap EXCEPT ![h] = [addr |-> a, outs |-> {}]]
      BY <2>2 DEF a
    <3>3. RG!AddSource(a)
      BY <3>1, <3>2, ConfigAdds
    <3> QED BY <3>3 DEF a
  <2>3. ASSUME UNCHANGED heap
        PROVE  RG!AddSource(DummyAddr)
    BY <1>0, <2>3 DEF RG!AddSource
  <2>4. RG!AddSource(DummyAddr)
    BY <2>1, <2>2, <2>3 DEF DummySourceStart, handlers
  <2> QED BY <1>5, <2>4 DEF RG!Effect
<1>6. CASE c.kind \notin {"add-source", "remove-source", "add-output", "remove-output",
                          "dummy-source-start"}
  <2>1. CASE c.kind = "reconnect-source"
    <3>1. UNCHANGED heap
      BY <2>1 DEF Perform, ReconnectSource, handlers
    <3> QED BY <1>0, <1>6, <3>1 DEF RG!Effect
  <2>2. CASE c.kind # "reconnect-source"
    <3>1. UNCHANGED heap
      BY <1>6, <2>2 DEF Perform, handlers
    <3> QED BY <1>0, <1>6, <3>1 DEF RG!Effect
  <2> QED BY <2>1, <2>2
<1> QED BY <1>1, <1>2, <1>3, <1>4, <1>5, <1>6

\* No request is held outside of a round.
HoldsNone == pc # "performing" => request = NoRequest

LEMMA HoldsNoneStep == HoldsNone /\ [Next]_vars => HoldsNone'
<1> SUFFICES ASSUME HoldsNone, [Next]_vars PROVE HoldsNone'
  OBVIOUS
<1>1. ASSUME NEW how, Leave(how)
      PROVE  HoldsNone'
  BY <1>1 DEF Leave, HoldsNone
<1>2. ASSUME NEW c \in Clients, ClientRestarts(c)
      PROVE  HoldsNone'
  <2>1. /\ request' = IF request.from = c THEN [request EXCEPT !.from = Gone] ELSE request
        /\ pc' = pc
    BY <1>2 DEF ClientRestarts
  <2>2. NoRequest.from # c
    BY NamesAssumption DEF NoRequest
  <2> QED BY <2>1, <2>2 DEF HoldsNone
<1>3. CASE PollFails \/ StopLoop \/ NoMemory \/ GiveUp
  BY <1>1, <1>3 DEF PollFails, StopLoop, NoMemory, GiveUp
<1>4. CASE Dispatch
  <2>1. CASE \E how : Leave(how)
    BY <1>1, <2>1
  <2>2. CASE pc = "dispatch" /\ UNCHANGED request
    BY <2>2 DEF HoldsNone
  <2> QED BY <1>4, <2>1, <2>2 DEF Dispatch
<1>5. CASE ReceiveCommand \/ HandleCommand
  BY <1>5 DEF ReceiveCommand, HandleCommand, HoldsNone
<1>6. CASE \/ (\E c \in Clients : SendCommand(c)) \/ (\E h \in Ids : SourceSends(h)) \/ Reap
           \/ Poll \/ CommandSocketFails \/ WrongState \/ ReopenAgain \/ CommandsDone
           \/ Read \/ ReadAll \/ UNCHANGED vars
  <2>1. UNCHANGED request /\ (pc' = pc \/ pc # "performing")
    BY <1>6 DEF SendCommand, SourceSends, Reap, Poll, CommandSocketFails, WrongState,
                ReopenAgain, CommandsDone, EndRound, Read, ReadAll, vars, loop
  <2>2. pc' = pc => HoldsNone'
    BY <2>1 DEF HoldsNone
  <2>3. pc # "performing" => HoldsNone'
    BY <2>1 DEF HoldsNone
  <2> QED BY <2>1, <2>2, <2>3
<1> QED BY <1>2, <1>3, <1>4, <1>5, <1>6 DEF Next, Thread

\* At first no source is configured, and nobody waits.
LEMMA RegistryInit == Init => RG!Init
<1> SUFFICES ASSUME Init PROVE RG!Init
  OBVIOUS
<1>1. Live = {}
  BY DEF Init, Live
<1>2. Config = [a \in {} |-> {}]
  BY <1>1 DEF Config
<1>3. ~Over /\ waiting = {} /\ request = NoRequest
  BY DEF Init, Over
<1> QED BY <1>2, <1>3 DEF RG!Init

\* Every step is one of the registry's, or changes nothing it knows of.
LEMMA RegistryStep ==
  IInv /\ IInv' /\ LoopInv /\ RequestInv /\ HoldsNone /\ [Next]_vars
    => [RG!Next]_(RG!vars)
<1> SUFFICES ASSUME IInv, IInv', LoopInv, RequestInv, HoldsNone, [Next]_vars
             PROVE  [RG!Next]_(RG!vars)
  OBVIOUS
<1>0. HandlersInv /\ HandlersInv' /\ RequestType /\ LoopType
  BY DEF IInv, HandlersInv, LoopInv
<1>1. ASSUME UNCHANGED <<heap, waiting, request>>, Over' = Over
      PROVE  UNCHANGED RG!vars
  BY <1>1, SameConfig DEF RG!vars
<1>2. ASSUME NEW how \in {"ended", "failed"}, Leave(how), ~Over
      PROVE  RG!Next
  <2>1. Live' = {}
    BY <1>0, <1>2, LeaveKeeps
  <2>2. Config' = [a \in {} |-> {}]
    BY <2>1 DEF Config
  <2>3. request' = NoRequest /\ Over' /\ UNCHANGED waiting
    BY <1>2 DEF Leave, Over
  <2>4. RG!End
    BY <2>2, <2>3 DEF RG!End
  <2> QED BY <1>2, <2>4 DEF RG!Next
<1>3. ASSUME NEW c \in Clients, SendCommand(c)
      PROVE  RG!Next
  <2>1. /\ ~Over /\ c \notin waiting /\ waiting' = waiting \union {c}
        /\ UNCHANGED <<heap, request>> /\ Over' = Over
    BY <1>3 DEF SendCommand, handlers, loop, Over
  <2>2. RG!Ask(c)
    BY <2>1, SameConfig DEF RG!Ask
  <2> QED BY <2>1, <2>2 DEF RG!Next
<1>4. ASSUME NEW c \in Clients, ClientRestarts(c)
      PROVE  RG!Next
  <2>1. /\ ~Over /\ c \in waiting /\ waiting' = waiting \ {c}
        /\ request' = IF request.from = c THEN [request EXCEPT !.from = Gone] ELSE request
        /\ UNCHANGED heap /\ Over' = Over
    BY <1>4 DEF ClientRestarts, handlers, Over
  <2>2. RG!Die(c)
    BY <2>1, SameConfig DEF RG!Die
  <2> QED BY <2>1, <2>2 DEF RG!Next
<1>5. CASE PollFails \/ StopLoop \/ NoMemory \/ GiveUp
  BY <1>2, <1>5 DEF PollFails, StopLoop, NoMemory, GiveUp, Over
<1>6. CASE Dispatch
  <2>1. CASE \E how \in {"ended", "failed"} : Leave(how)
    BY <1>2, <1>6, <2>1 DEF Dispatch, Over
  <2>2. CASE /\ pc = "dispatch" /\ pc' \in {"poll", "commands", "reading", "dispatch"}
             /\ UNCHANGED <<handlers, world, request>>
    BY <1>1, <2>2 DEF handlers, world, Over
  <2> QED BY <1>6, <2>1, <2>2 DEF Dispatch
<1>7. CASE ReceiveCommand
  <2>1. /\ cmdq # <<>> /\ pc = "commands" /\ pc' = "performing"
        /\ \E command \in Command : request' = [from |-> Head(cmdq), command |-> command]
        /\ UNCHANGED <<heap, waiting>>
    BY <1>7 DEF ReceiveCommand, handlers
  <2>2. Head(cmdq) \in Range(cmdq)
    <3>1. cmdq \in Seq(Sender)
      BY <1>0 DEF LoopType
    <3> QED BY <2>1, <3>1, TailOnce
  <2>3. Head(cmdq) \in waiting \union {Gone}
    BY <2>2 DEF RequestInv, OneRequestEach
  <2>4. request = NoRequest /\ ~Over /\ Over' = Over
    BY <2>1 DEF HoldsNone, Over
  <2>5. RG!Begin
    BY <2>1, <2>3, <2>4, SameConfig DEF RG!Begin
  <2> QED BY <2>4, <2>5 DEF RG!Next
<1>8. CASE HandleCommand
  <2>1. /\ Perform(Current) /\ request' = NoRequest
        /\ waiting' \in {waiting, waiting \ {request.from}}
        /\ ~Over /\ Over' = Over
    BY <1>8 DEF HandleCommand, Answered, Unanswered, Over
  <2>2. RG!Effect(request.command)
    <3> DEFINE c == Current
    <3>1. c \in Command /\ Perform(c)
      BY <1>0, <2>1 DEF RequestType
    <3> HIDE DEF c
    <3>2. RG!Effect(c)
      BY <1>0, <3>1, PerformHasEffect
    <3> QED BY <3>2 DEF c, Current
  <2>3. RG!Answer
    BY <2>1, <2>2 DEF RG!Answer
  <2> QED BY <2>1, <2>3 DEF RG!Next
<1>9. CASE \/ (\E h \in Ids : SourceSends(h)) \/ Reap
           \/ Poll \/ CommandSocketFails \/ WrongState \/ ReopenAgain \/ CommandsDone
           \/ Read \/ ReadAll \/ UNCHANGED vars
  <2>1. /\ UNCHANGED <<heap, waiting, request>>
        /\ pc' = pc \/ (~Over /\ pc' = "dispatch")
    BY <1>9 DEF SourceSends, Reap, Poll, CommandSocketFails, WrongState, Reopen, EndRound,
                ReopenAgain, CommandsDone, Read, ReadAll, vars, handlers, world, loop, Over
  <2>2. Over' = Over
    BY <2>1 DEF Over
  <2> QED BY <1>1, <2>1, <2>2
<1> QED BY <1>3, <1>4, <1>5, <1>6, <1>7, <1>8, <1>9 DEF Next, Thread

\* The repeater implements the registry: every command has its whole effect
\* between its receipt and its reply, and nothing else changes which sources
\* there are and where they are replayed, for any sources, outputs and clients.
THEOREM KeepsRegistry == Spec => ImplementsRegistry
<1>1. Init => RG!Init /\ RequestInv /\ HoldsNone
  BY RegistryInit, RequestInitially DEF Init, HoldsNone
<1>2. LoopInv /\ RequestInv /\ [Next]_vars => RequestInv'
  BY RequestStep DEF LoopInv
<1>3. HoldsNone /\ [Next]_vars => HoldsNone'
  BY HoldsNoneStep
<1>4. IInv /\ IInv' /\ LoopInv /\ RequestInv /\ HoldsNone /\ [Next]_vars
        => [RG!Next]_(RG!vars)
  BY RegistryStep
<1> QED BY <1>1, <1>2, <1>3, <1>4, Invariance, LoopInvariance, PTL
        DEF Spec, ImplementsRegistry, RG!Spec
=============================================================================
