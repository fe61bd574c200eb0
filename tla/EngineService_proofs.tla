------------------------- MODULE EngineService_proofs -------------------------
(***************************************************************************)
(* Proofs about EngineService, for every set of stations, agents, programs *)
(* and commands, and every bound.                                          *)
(***************************************************************************)
EXTENDS EngineService, SequenceTheorems, TLAPS

(***************************************************************************)
(* Sequences                                                               *)
(***************************************************************************)

\* What is appended joins the range.
LEMMA RangeOfAppend ==
  ASSUME NEW S, NEW s \in Seq(S), NEW e
  PROVE  Range(Append(s, e)) = Range(s) \cup {e}
  <1>1. \A i \in 1..Len(s) : Append(s, e)[i] = s[i]
    OBVIOUS
  <1>2. Append(s, e)[Len(s) + 1] = e /\ DOMAIN Append(s, e) = 1..Len(s) + 1
    OBVIOUS
  <1>3. DOMAIN s = 1..Len(s) /\ Len(s) \in Nat
    OBVIOUS
  <1>4. Range(Append(s, e)) \subseteq Range(s) \cup {e}
    BY <1>1, <1>2, <1>3 DEF Range
  <1>5. Range(s) \subseteq Range(Append(s, e))
    BY <1>1, <1>2, <1>3 DEF Range
  <1>6. e \in Range(Append(s, e))
    BY <1>2, <1>3 DEF Range
  <1>7. QED
    BY <1>4, <1>5, <1>6

\* A sequence with an element consists of its head and its tail.
LEMMA HeadAndTail ==
  ASSUME NEW S, NEW s \in Seq(S), s # <<>>
  PROVE  /\ Head(s) \in Range(s) /\ Head(s) \in S
         /\ Tail(s) \in Seq(S)
         /\ Range(Tail(s)) \subseteq Range(s)
  <1>1. Head(s) = s[1] /\ Len(s) \in Nat \ {0} /\ DOMAIN s = 1..Len(s)
    OBVIOUS
  <1>2. /\ Tail(s) \in Seq(S) /\ Len(Tail(s)) = Len(s) - 1
        /\ \A i \in 1..Len(s) - 1 : Tail(s)[i] = s[i + 1]
    OBVIOUS
  <1>3. DOMAIN Tail(s) = 1..Len(s) - 1
    BY <1>1, <1>2
  <1>4. QED
    BY <1>1, <1>2, <1>3 DEF Range

\* Elements of a sequence are of its type.
LEMMA RangeType ==
  ASSUME NEW S, NEW s \in Seq(S)
  PROVE  Range(s) \subseteq S
  BY DEF Range

\* The three ways an entry moves along the channel keep the whole.
LEMMA Enqueued ==
  ASSUME NEW a \in Seq(EntryType), NEW b \in Seq(EntryType), NEW q \in Seq(EntryType),
         NEW e \in EntryType
  PROVE  Append(a \o (b \o q), e) = a \o (b \o Append(q, e))
  BY SMTT(90)

LEMMA Drained ==
  ASSUME NEW a \in Seq(EntryType), NEW b \in Seq(EntryType), NEW q \in Seq(EntryType),
         q # <<>>
  PROVE  a \o (Append(b, Head(q)) \o Tail(q)) = a \o (b \o q)
  <1>1. Append(b, Head(q)) \o Tail(q) = b \o q
    BY SMTT(30)
  <1>2. QED
    BY <1>1

LEMMA Taken ==
  ASSUME NEW a \in Seq(EntryType), NEW b \in Seq(EntryType), NEW q \in Seq(EntryType),
         b # <<>>
  PROVE  /\ Append(a, Head(b)) \o (Tail(b) \o q) = a \o (b \o q)
         /\ (a \o (b \o q))[Len(a) + 1] = Head(b)
         /\ Len(a) < Len(a \o (b \o q))
  <1>1. (a \o (b \o q))[Len(a) + 1] = Head(b) /\ Len(a) < Len(a \o (b \o q))
    BY SMTT(30)
  <1>2. Append(a, Head(b)) \o (Tail(b) \o q) = a \o (b \o q)
    BY SMTT(30)
  <1>3. QED
    BY <1>1, <1>2

(***************************************************************************)
(* Type correctness                                                        *)
(***************************************************************************)

\* Callers are numbers, agents among them stations, and no caller is Stream.
LEMMA CallerNat ==
  /\ Caller \subseteq Nat \ {Stream}
  /\ Agent \cup Advised \subseteq Caller
  /\ Agent \cup Advised \subseteq Station
  /\ Station \subseteq Nat \ {NoId}
  BY ServiceAssumption DEF Caller, Stream, NoId

\* The messages only grow, by a message of a station.
Grown == \/ said' = said
         \/ \E m \in MessageType : said' = Append(said, m)

LEMMA GrownKeeps ==
  ASSUME TypeOK, Grown
  PROVE  /\ said' \in Seq(MessageType)
         /\ DOMAIN said \subseteq DOMAIN said'
         /\ \A i \in DOMAIN said : said'[i] = said[i]
  <1>1. said \in Seq(MessageType)
    BY DEF TypeOK
  <1>2. CASE said' = said
    BY <1>1, <1>2
  <1>3. ASSUME NEW m \in MessageType, said' = Append(said, m)
        PROVE  /\ said' \in Seq(MessageType)
               /\ DOMAIN said \subseteq DOMAIN said'
               /\ \A i \in DOMAIN said : said'[i] = said[i]
    BY <1>1, <1>3
  <1>4. QED
    BY <1>2, <1>3 DEF Grown

\* What Apply posts is a message, and a contract refers to two messages.
LEMMA ApplyPosts ==
  ASSUME TypeOK, Apply
  PROVE  /\ Grown
         /\ Head(batch) \in EntryType
         /\ \/ bound' = bound
            \/ /\ Head(batch).kind = "Accept" /\ Head(batch).from \in Station
               /\ Binds(Head(batch).reply, Head(batch))
               /\ bound' = bound \cup {<<Head(batch).reply, Len(said) + 1, Head(batch).by>>}
               /\ Len(said) + 1 \in DOMAIN said'
               /\ said'[Len(said) + 1].from = Head(batch).from
  <1> DEFINE e == Head(batch)
             m == [from |-> e.from, kind |-> e.kind, to |-> e.to, reply |-> e.reply]
             posts == e.kind \in MessageKind /\ e.from \in Station
  <1>1. e \in EntryType
    BY HeadAndTail DEF Apply, TypeOK
  <1>2. posts => m \in MessageType
    BY <1>1 DEF EntryType, MessageType
  <1>3. /\ said' = IF posts THEN Append(said, m) ELSE said
        /\ \/ bound' = bound
           \/ /\ posts /\ e.kind = "Accept" /\ Binds(e.reply, e)
              /\ bound' = bound \cup {<<e.reply, Len(said) + 1, e.by>>}
    BY DEF Apply
  <1>4. ASSUME posts
        PROVE  Len(said) + 1 \in DOMAIN said' /\ said'[Len(said) + 1].from = e.from
    <2>1. said' = Append(said, m) /\ said \in Seq(MessageType)
      BY <1>3, <1>4 DEF TypeOK
    <2> HIDE DEF m
    <2>2. Len(said) + 1 \in DOMAIN said' /\ said'[Len(said) + 1] = m
      BY <2>1
    <2>3. QED
      BY <2>2 DEF m
  <1>5. Grown
    BY <1>2, <1>3 DEF Grown
  <1> HIDE DEF m
  <1>6. QED
    BY <1>1, <1>3, <1>4, <1>5

\* The engine starts with nothing said, queued or heard.
LEMMA ServiceInitType == Init => TypeOK
  BY DEF Init, TypeOK, Loop, NoCommand, CommandType, Kind, NoId

\* A command on its way into the channel becomes an entry.
LEMMA QueuedType ==
  ASSUME TypeOK, NEW k \in CommandType, k.kind # "Unknown", NEW by \in Caller \cup {Stream}
  PROVE  Queued(k, by) \in EntryType
  BY DEF TypeOK, CommandType, EntryType, Queued, Kind, MessageKind

\* Every proposal is a command.
LEMMA ProposalType ==
  ASSUME TypeOK, NEW c \in Caller
  PROVE  Proposals(c) \subseteq CommandType
  <1>1. CASE c \in Client
    BY <1>1, ServiceAssumption DEF Proposals
  <1>2. CASE c \notin Client
    <2>1. c \in Agent \cup Advised /\ c \in Nat
      BY <1>2, CallerNat DEF Caller
    <2>2. \A i \in view[c] : i \in Nat /\ said[i] \in MessageType
      BY DEF TypeOK
    <2>3. \A kind \in Kind \cup {"Unknown"}, to \in Nat, i \in Nat :
            Message(c, kind, to, i) \in CommandType
      BY <2>1 DEF Message, CommandType
    <2>4. \A i \in view[c] : said[i].from \in Nat
      BY <2>2, CallerNat DEF MessageType
    <2>5. Planned(c) \subseteq CommandType
      <3>1. {"Accept", "Offer", "Want", "Have"} \subseteq Kind \cup {"Unknown"} /\ NoId \in Nat
        BY DEF Kind, MessageKind, NoId
      <3>2. \A i \in view[c] : /\ Message(c, "Accept", said[i].from, i) \in CommandType
                              /\ Message(c, "Offer", said[i].from, i) \in CommandType
        BY <2>2, <2>3, <2>4, <3>1
      <3>3. QED
        BY <2>3, <3>1, <3>2 DEF Planned
    <2>6. Advice(c) \subseteq CommandType
      <3>1. \A i \in 1..Len(said) + 1 : i \in Nat
        BY DEF TypeOK
      <3>2. QED
        BY <2>3, <3>1, CallerNat DEF Advice, Kind, MessageKind, NoId
    <2>7. QED
      BY <1>2, <2>5, <2>6 DEF Proposals
  <1>3. QED
    BY <1>1, <1>2

\* A checked command waits to be sent; the check lets nothing unknown through.
LEMMA SubmitType ==
  ASSUME TypeOK, NEW c \in Caller, NEW k \in Proposals(c), Submit(c, k)
  PROVE  TypeOK'
  <1>1. k \in CommandType
    BY ProposalType
  <1>2. /\ pc' \in [Caller -> {"idle", "deciding", "sending"}]
        /\ view' \in [Caller -> SUBSET (DOMAIN said)]
        /\ cmd' \in [Caller -> {j \in CommandType : j.kind # "Unknown"}]
    <2>1. CASE Refuses(k)
      BY <2>1 DEF Submit, TypeOK
    <2>2. CASE ~ Refuses(k)
      <3>1. k.kind # "Unknown"
        BY <2>2 DEF Refuses
      <3>2. QED
        BY <1>1, <2>2, <3>1 DEF Submit, TypeOK
    <2>3. QED
      BY <2>1, <2>2
  <1>3. refused' \in SUBSET RefusalType
    <2> DEFINE r == [station |-> k.station, heard |-> k.reply \in everHeard[k.station]]
    <2>1. \/ refused' = refused
          \/ k.station \in Station /\ refused' = refused \cup {r}
      BY Zenon DEF Submit
    <2>2. (k.reply \in everHeard[k.station]) \in BOOLEAN
      OBVIOUS
    <2>3. k.station \in Station => r \in RefusalType
      BY <1>1, <2>2, Zenon DEF RefusalType, CommandType
    <2> HIDE DEF r
    <2>4. QED
      BY <2>1, <2>3 DEF TypeOK
  <1>4. QED
    BY <1>2, <1>3 DEF Submit, TypeOK, world, channel

\* An entry joins the channel and the history.
LEMMA EnqueueType ==
  ASSUME TypeOK, NEW e \in EntryType, Enqueue(e)
  PROVE  /\ queue' \in Seq(EntryType) /\ accepted' \in Seq(EntryType)
         /\ batch' \in Seq(EntryType) /\ applied' \in Seq(EntryType)
  <1>1. /\ queue' = Append(queue, e) /\ accepted' = Append(accepted, e)
        /\ batch' = batch /\ applied' = applied
    BY DEF Enqueue
  <1>2. /\ queue \in Seq(EntryType) /\ accepted \in Seq(EntryType)
        /\ batch \in Seq(EntryType) /\ applied \in Seq(EntryType)
    BY DEF TypeOK
  <1>3. QED
    BY <1>1, <1>2

\* Sending empties the caller's hands.
LEMMA SendType ==
  ASSUME TypeOK, NEW c \in Caller, Send(c)
  PROVE  TypeOK' /\ Queued(cmd[c], c) \in EntryType
  <1>1. cmd[c] \in CommandType /\ cmd[c].kind # "Unknown"
    BY DEF TypeOK
  <1>2. Queued(cmd[c], c) \in EntryType
    BY <1>1, QueuedType
  <1>3. /\ queue' \in Seq(EntryType) /\ accepted' \in Seq(EntryType)
        /\ batch' \in Seq(EntryType) /\ applied' \in Seq(EntryType)
    BY <1>2, EnqueueType DEF Send
  <1>4. NoCommand \in CommandType /\ NoCommand.kind # "Unknown"
    BY DEF NoCommand, CommandType, Kind, NoId
  <1>5. /\ pc' \in [Caller -> {"idle", "deciding", "sending"}]
        /\ cmd' \in [Caller -> {j \in CommandType : j.kind # "Unknown"}]
    BY <1>4 DEF Send, TypeOK
  <1>6. QED
    BY <1>2, <1>3, <1>5 DEF Send, TypeOK, world

\* What a stream brings joins the channel too.
LEMMA StreamInType ==
  ASSUME TypeOK, NEW k \in Streamed, StreamIn(k)
  PROVE  TypeOK' /\ Queued(k, Stream) \in EntryType
  <1>1. k \in CommandType /\ k.kind # "Unknown"
    BY ServiceAssumption DEF StreamIn
  <1>2. Queued(k, Stream) \in EntryType
    BY <1>1, QueuedType
  <1>3. /\ queue' \in Seq(EntryType) /\ accepted' \in Seq(EntryType)
        /\ batch' \in Seq(EntryType) /\ applied' \in Seq(EntryType)
    BY <1>2, EnqueueType DEF StreamIn
  <1>4. QED
    BY <1>2, <1>3 DEF StreamIn, TypeOK, world, calls

\* Draining moves an entry.
LEMMA DrainOneType ==
  ASSUME TypeOK, DrainOne
  PROVE  TypeOK'
  <1>1. queue' \in Seq(EntryType) /\ batch' \in Seq(EntryType)
    <2>1. queue \in Seq(EntryType) /\ batch \in Seq(EntryType) /\ queue # <<>>
      BY DEF DrainOne, TypeOK
    <2>2. Head(queue) \in EntryType /\ Tail(queue) \in Seq(EntryType)
      BY <2>1, HeadAndTail
    <2>3. QED
      BY <2>1, <2>2 DEF DrainOne
  <1>2. QED
    BY <1>1 DEF DrainOne, TypeOK, world, calls

\* Views and hearings are of messages, and stay so as messages are added.
LEMMA GrownType ==
  ASSUME TypeOK, Grown,
         heard' = heard, everHeard' = everHeard, view' = view
  PROVE  /\ said' \in Seq(MessageType)
         /\ heard' \in [Station -> SUBSET (DOMAIN said')]
         /\ everHeard' \in [Station -> SUBSET (DOMAIN said')]
         /\ view' \in [Caller -> SUBSET (DOMAIN said')]
  <1>1. said' \in Seq(MessageType) /\ DOMAIN said \subseteq DOMAIN said'
    BY GrownKeeps
  <1>2. QED
    BY <1>1 DEF TypeOK

\* Applying a command adds at most a message and a contract on messages.
LEMMA ApplyType ==
  ASSUME TypeOK, Apply
  PROVE  TypeOK'
  <1>1. Grown /\ heard' = heard /\ everHeard' = everHeard /\ view' = view
    BY ApplyPosts DEF Apply, calls
  <1>2. /\ said' \in Seq(MessageType)
        /\ heard' \in [Station -> SUBSET (DOMAIN said')]
        /\ everHeard' \in [Station -> SUBSET (DOMAIN said')]
        /\ view' \in [Caller -> SUBSET (DOMAIN said')]
    BY <1>1, GrownType
  <1>3. bound' \subseteq (DOMAIN said') \X (DOMAIN said') \X (Caller \cup {Stream})
    <2>1. DOMAIN said \subseteq DOMAIN said'
      BY <1>1, GrownKeeps
    <2>2. bound' = bound \/ \E i \in DOMAIN said, j \in DOMAIN said', c \in Caller \cup {Stream} :
                              bound' = bound \cup {<<i, j, c>>}
      <3>1. Head(batch).by \in Caller \cup {Stream}
        BY ApplyPosts DEF EntryType
      <3>2. QED
        BY <3>1, ApplyPosts DEF Binds
    <2>3. QED
      BY <2>1, <2>2 DEF TypeOK
  <1>4. batch' \in Seq(EntryType) /\ applied' \in Seq(EntryType)
    <2>1. batch \in Seq(EntryType) /\ applied \in Seq(EntryType) /\ batch # <<>>
      BY DEF Apply, TypeOK
    <2>2. Head(batch) \in EntryType /\ Tail(batch) \in Seq(EntryType)
      BY <2>1, HeadAndTail
    <2>3. applied' = Append(applied, Head(batch)) /\ batch' = Tail(batch)
      BY DEF Apply
    <2>4. QED
      BY <2>1, <2>2, <2>3
  <1>5. UNCHANGED <<tick, loop, queue, pc, cmd, accepted, refused>>
    BY DEF Apply, calls
  <1>6. QED
    BY <1>2, <1>3, <1>4, <1>5 DEF TypeOK

\* So does an automatic notice.
LEMMA NoticeType ==
  ASSUME TypeOK, NEW s \in Station, NEW kind \in {"Want", "Have"}, Notice(s, kind)
  PROVE  TypeOK' /\ Grown
  <1>1. Grown
    BY DEF Notice, Grown, MessageType, MessageKind, NoId
  <1>2. heard' = heard /\ everHeard' = everHeard /\ view' = view
    BY DEF Notice, calls
  <1>3. DOMAIN said \subseteq DOMAIN said'
    BY <1>1, GrownKeeps
  <1>4. bound' \subseteq (DOMAIN said') \X (DOMAIN said') \X (Caller \cup {Stream})
    BY <1>3 DEF TypeOK, Notice
  <1>5. UNCHANGED <<tick, loop, queue, batch, pc, cmd, accepted, applied, refused>>
    BY DEF Notice, calls, channel
  <1>6. QED
    BY <1>1, <1>2, <1>4, <1>5, GrownType DEF TypeOK

\* Stations receive messages on the air.
LEMMA FinishStepType ==
  ASSUME TypeOK, FinishStep
  PROVE  /\ TypeOK'
         /\ \A s \in Station : heard'[s] \subseteq everHeard'[s] /\ everHeard[s] \subseteq everHeard'[s]
  <1>1. PICK h \in [Receiver -> SUBSET Aired] :
          /\ heard' = [s \in Station |-> IF s \in Receiver THEN h[s] ELSE {}]
          /\ everHeard' = [s \in Station |-> everHeard[s] \cup heard'[s]]
    BY DEF FinishStep
  <1>2. heard' \in [Station -> SUBSET (DOMAIN said)]
    BY <1>1 DEF Aired
  <1>3. everHeard' \in [Station -> SUBSET (DOMAIN said)]
    BY <1>1, <1>2 DEF TypeOK
  <1>4. tick' \in Nat /\ loop' \in Loop
    BY DEF FinishStep, TypeOK, Loop
  <1>5. QED
    BY <1>1, <1>2, <1>3, <1>4 DEF FinishStep, TypeOK, channel, calls

\* Every step keeps the types.
LEMMA ServiceStepType == TypeOK /\ [Next]_vars => TypeOK'
  <1> SUFFICES ASSUME TypeOK, [Next]_vars
               PROVE  TypeOK'
    OBVIOUS
  <1>1. ASSUME NEW a \in Agent \cup Advised, Poll(a)
        PROVE  TypeOK'
    <2>1. a \in Station /\ a \in Caller
      BY CallerNat
    <2>2. Audible(a) \subseteq DOMAIN said
      BY <2>1 DEF Audible, TypeOK
    <2>3. QED
      BY <1>1, <2>1, <2>2 DEF Poll, TypeOK, world, channel
  <1>2. ASSUME NEW a \in Agent \cup Advised, DecideNothing(a)
        PROVE  TypeOK'
    BY <1>2, CallerNat DEF DecideNothing, TypeOK, world, channel
  <1>3. ASSUME NEW c \in Caller, Send(c)
        PROVE  TypeOK'
    BY <1>3, SendType
  <1>4. ASSUME NEW c \in Caller, NEW k \in Proposals(c), Submit(c, k)
        PROVE  TypeOK'
    BY <1>4, SubmitType
  <1>5. ASSUME NEW k \in Streamed, StreamIn(k)
        PROVE  TypeOK'
    BY <1>5, StreamInType
  <1>6. CASE Wake
    BY <1>6 DEF Wake, TypeOK, Loop, world, channel, calls
  <1>7. CASE DrainOne
    BY <1>7, DrainOneType
  <1>8. CASE DrainEnd
    BY <1>8 DEF DrainEnd, TypeOK, Loop, world, channel, calls
  <1>9. CASE Apply
    BY <1>9, ApplyType
  <1>10. CASE FinishStep
    BY <1>10, FinishStepType
  <1>11. ASSUME NEW s \in Station, NEW kind \in {"Want", "Have"}, Notice(s, kind)
         PROVE  TypeOK'
    BY <1>11, NoticeType
  <1>12. CASE UNCHANGED vars
    BY <1>12 DEF vars, TypeOK
  <1>13. QED
    BY <1>1, <1>2, <1>3, <1>4, <1>5, <1>6, <1>7, <1>8, <1>9, <1>10, <1>11, <1>12
       DEF Next, TickLoop, Finished

\* TypeOK for every number of stations, agents and programs: what a call lets
\* into the channel and what a step reads out of it are commands it knows, and
\* every id kept in a view, a hearing or a contract is that of a message.
THEOREM ServiceTypeCorrect == Spec => []TypeOK
  <1>1. Init => TypeOK
    BY ServiceInitType
  <1>2. TypeOK /\ [Next]_vars => TypeOK'
    BY ServiceStepType
  <1>3. QED
    BY <1>1, <1>2, PTL DEF Spec

(***************************************************************************)
(* The channel keeps every command in order                                *)
(***************************************************************************)

\* What was applied, what is drained and what is in the channel, one after the
\* other, is all that was accepted.
NoneLost == accepted = applied \o (batch \o queue)

\* Every step keeps NoneLost, and is a step of CommandLog or a stutter.
LEMMA LogStep ==
  ASSUME TypeOK, NoneLost, [Next]_vars
  PROVE  NoneLost' /\ [Log!Next]_<<accepted, applied>>
  <1>1. /\ queue \in Seq(EntryType) /\ batch \in Seq(EntryType)
        /\ accepted \in Seq(EntryType) /\ applied \in Seq(EntryType)
    BY DEF TypeOK
  <1>2. ASSUME NEW e \in EntryType, Enqueue(e)
        PROVE  NoneLost' /\ Log!Next
    <2>1. /\ queue' = Append(queue, e) /\ accepted' = Append(accepted, e)
          /\ batch' = batch /\ applied' = applied
      BY <1>2 DEF Enqueue
    <2>2. NoneLost'
      <3>1. Append(applied \o (batch \o queue), e) = applied \o (batch \o Append(queue, e))
        BY <1>1, Enqueued, ZenonT(30)
      <3>2. QED
        BY <2>1, <3>1, Zenon DEF NoneLost
    <2>3. /\ accepted' \in Seq(EntryType)
          /\ Len(accepted') = Len(accepted) + 1
          /\ SubSeq(accepted', 1, Len(accepted)) = accepted
      BY <1>1, <2>1
    <2>4. QED
      BY <2>1, <2>2, <2>3 DEF Log!Next, Log!Accept
  <1>3. CASE DrainOne
    <2>1. queue # <<>> /\ batch' = Append(batch, Head(queue)) /\ queue' = Tail(queue)
          /\ applied' = applied /\ accepted' = accepted
      BY <1>3 DEF DrainOne
    <2>2. applied \o (Append(batch, Head(queue)) \o Tail(queue)) = applied \o (batch \o queue)
      BY <1>1, <2>1, Drained, Zenon
    <2>3. QED
      BY <2>1, <2>2, Zenon DEF NoneLost
  <1>4. CASE Apply
    <2>1. batch # <<>> /\ applied' = Append(applied, Head(batch)) /\ batch' = Tail(batch)
          /\ queue' = queue /\ accepted' = accepted
      BY <1>4 DEF Apply
    <2>2. /\ Append(applied, Head(batch)) \o (Tail(batch) \o queue) = accepted
          /\ accepted[Len(applied) + 1] = Head(batch)
          /\ Len(applied) < Len(accepted)
      BY <1>1, <2>1, Taken, Zenon DEF NoneLost
    <2>3. QED
      BY <2>1, <2>2 DEF NoneLost, Log!Next, Log!Serve
  <1>5. CASE UNCHANGED channel
    BY <1>5 DEF channel, NoneLost
  <1>6. ASSUME NEW c \in Caller, Send(c)
        PROVE  NoneLost' /\ Log!Next
    BY <1>2, <1>6, SendType DEF Send
  <1>7. ASSUME NEW k \in Streamed, StreamIn(k)
        PROVE  NoneLost' /\ Log!Next
    BY <1>2, <1>7, StreamInType DEF StreamIn
  <1>8. \/ \E c \in Caller : Send(c)
        \/ \E k \in Streamed : StreamIn(k)
        \/ DrainOne
        \/ Apply
        \/ UNCHANGED channel
    BY DEF Next, TickLoop, Finished, Poll, DecideNothing, Submit, Wake, DrainEnd, Notice,
           FinishStep, vars, channel
  <1>9. QED
    BY <1>3, <1>4, <1>5, <1>6, <1>7, <1>8

\* NoneLost holds from the start.
LEMMA NoneLostHolds == Spec => []NoneLost
  <1>1. Init => NoneLost
    BY DEF Init, NoneLost
  <1>2. TypeOK /\ NoneLost /\ [Next]_vars => NoneLost'
    BY LogStep
  <1>3. QED
    BY <1>1, <1>2, ServiceTypeCorrect, PTL DEF Spec

\* ImplementsCommandLog: every command accepted, by a call or over a stream, is
\* applied at most once and in the order of acceptance, and no command is
\* applied that was not accepted, wherever the tick loop's drain, its lock and
\* the callers' sends fall.
THEOREM EngineImplementsCommandLog == Spec => ImplementsCommandLog
  <1>1. Init => Log!Init
    BY DEF Init, Log!Init
  <1>2. TypeOK /\ NoneLost /\ [Next]_vars => [Log!Next]_<<accepted, applied>>
    BY LogStep
  <1>3. QED
    BY <1>1, <1>2, ServiceTypeCorrect, NoneLostHolds, PTL
       DEF Spec, ImplementsCommandLog, Log!Spec

(***************************************************************************)
(* No command waits long                                                   *)
(***************************************************************************)

\* Where the commands of a tick can be: none is from the future, and those
\* that came during a step, after its drain, are of the step's tick.
Timely ==
  /\ NoneWaitsLong
  /\ loop = "step" => \A e \in Range(queue) : e.sent = tick

\* Every step keeps the commands timely.
LEMMA TimelyStep ==
  ASSUME TypeOK, Timely, [Next]_vars
  PROVE  Timely'
  <1>1. /\ queue \in Seq(EntryType) /\ batch \in Seq(EntryType) /\ tick \in Nat
    BY DEF TypeOK
  <1>2. ASSUME NEW e \in EntryType, Enqueue(e), e.sent = tick, UNCHANGED <<tick, loop>>
        PROVE  Timely'
    <2>1. Range(queue') = Range(queue) \cup {e} /\ batch' = batch
      BY <1>1, <1>2, RangeOfAppend DEF Enqueue
    <2>2. QED
      BY <1>1, <1>2, <2>1 DEF Timely, NoneWaitsLong
  <1>3. CASE DrainOne
    <2>1. queue # <<>> /\ batch' = Append(batch, Head(queue)) /\ queue' = Tail(queue)
          /\ UNCHANGED <<tick, loop>> /\ loop = "drain"
      BY <1>3 DEF DrainOne, world
    <2>2. Range(batch') = Range(batch) \cup {Head(queue)}
      BY <1>1, <2>1, RangeOfAppend
    <2>3. Head(queue) \in Range(queue) /\ Range(queue') \subseteq Range(queue)
      BY <1>1, <2>1, HeadAndTail
    <2>4. QED
      BY <2>1, <2>2, <2>3 DEF Timely, NoneWaitsLong
  <1>4. CASE DrainEnd
    <2>1. queue' = <<>> /\ batch' = batch /\ tick' = tick /\ Range(queue') = {}
      BY <1>4 DEF DrainEnd, world, channel, Range
    <2>2. QED
      BY <2>1 DEF Timely, NoneWaitsLong
  <1>5. CASE Apply
    <2>1. Range(batch') \subseteq Range(batch) /\ UNCHANGED <<tick, loop, queue>>
      BY <1>1, <1>5, HeadAndTail DEF Apply
    <2>2. QED
      BY <2>1 DEF Timely, NoneWaitsLong
  <1>6. CASE FinishStep
    <2>1. /\ loop = "step" /\ batch' = <<>> /\ queue' = queue
          /\ tick' = tick + 1 /\ loop' = "wait"
      BY <1>6 DEF FinishStep, channel
    <2>2. Range(batch') = {}
      BY <2>1 DEF Range
    <2>3. \A e \in Range(queue') : e.sent = tick
      BY <2>1 DEF Timely
    <2>4. QED
      BY <1>1, <2>1, <2>2, <2>3 DEF Timely, NoneWaitsLong
  <1>7. CASE Wake
    BY <1>7 DEF Wake, world, channel, Timely, NoneWaitsLong
  <1>8. CASE UNCHANGED <<tick, loop, queue, batch>>
    BY <1>8 DEF Timely, NoneWaitsLong
  <1>9. ASSUME NEW c \in Caller, Send(c)
        PROVE  Timely'
    <2>1. Queued(cmd[c], c).sent = tick
      BY DEF Queued
    <2>2. QED
      BY <1>2, <1>9, <2>1, SendType DEF Send, world
  <1>10. ASSUME NEW k \in Streamed, StreamIn(k)
         PROVE  Timely'
    <2>1. Queued(k, Stream).sent = tick
      BY DEF Queued
    <2>2. QED
      BY <1>2, <1>10, <2>1, StreamInType DEF StreamIn, world
  <1>11. \/ \E c \in Caller : Send(c)
         \/ \E k \in Streamed : StreamIn(k)
         \/ DrainOne \/ DrainEnd \/ Apply \/ FinishStep \/ Wake
         \/ UNCHANGED <<tick, loop, queue, batch>>
    BY DEF Next, TickLoop, Finished, Poll, DecideNothing, Submit, Notice, vars, channel, world
  <1>12. QED
    BY <1>3, <1>4, <1>5, <1>6, <1>7, <1>8, <1>9, <1>10, <1>11

\* NoneWaitsLong: an accepted command is served by the next tick that begins,
\* whether it came before the drain, between the drain and the lock, or while
\* the step held the lock.
THEOREM CommandsServedNextTick == Spec => []NoneWaitsLong
  <1>1. Init => Timely
    BY DEF Init, Timely, NoneWaitsLong, Range
  <1>2. TypeOK /\ Timely /\ [Next]_vars => Timely'
    BY TimelyStep
  <1>3. Timely => NoneWaitsLong
    BY DEF Timely
  <1>4. QED
    BY <1>1, <1>2, <1>3, ServiceTypeCorrect, PTL DEF Spec

(***************************************************************************)
(* Replies answer what was received                                        *)
(***************************************************************************)

\* What a station has received, it has received for good.
LEMMA HearingGrows ==
  ASSUME TypeOK, [Next]_vars
  PROVE  \A s \in Station : everHeard[s] \subseteq everHeard'[s]
  <1>1. CASE FinishStep
    BY <1>1, FinishStepType
  <1>2. CASE everHeard' = everHeard
    BY <1>2
  <1>3. QED
    BY <1>1, <1>2 DEF Next, TickLoop, Finished, Poll, DecideNothing, Submit, Send, StreamIn,
                      Wake, DrainOne, DrainEnd, Apply, Notice, vars, world

\* A reply r from f to a message that f received.
WasReceived(f, r) == f \in Station /\ r \in everHeard[f]

\* The latest detections are among all of them; a command that was checked, and
\* not yet sent, answers a received message; and so do the accepted ones.
RepliesChecked ==
  /\ \A s \in Station : heard[s] \subseteq everHeard[s]
  /\ \A c \in Caller :
       pc[c] = "sending" /\ cmd[c].kind # "Other" /\ cmd[c].reply # NoId =>
         WasReceived(cmd[c].from, cmd[c].reply)
  /\ \A e \in Range(accepted) :
       e.by # Stream /\ e.kind # "Other" /\ e.reply # NoId => WasReceived(e.from, e.reply)

\* Every step keeps the replies checked.
LEMMA RepliesStep ==
  ASSUME TypeOK, RepliesChecked, [Next]_vars
  PROVE  RepliesChecked'
  <1>1. \A f, r : WasReceived(f, r) => WasReceived(f, r)'
    BY HearingGrows DEF WasReceived
  <1>2. \A s \in Station : heard'[s] \subseteq everHeard'[s]
    <2>1. CASE FinishStep
      BY <2>1, FinishStepType
    <2>2. CASE UNCHANGED <<heard, everHeard>>
      BY <2>2 DEF RepliesChecked
    <2>3. QED
      BY <2>1, <2>2 DEF Next, TickLoop, Finished, Poll, DecideNothing, Submit, Send, StreamIn,
                        Wake, DrainOne, DrainEnd, Apply, Notice, vars, world
  <1>3. CASE UNCHANGED <<pc, cmd, accepted>>
    BY <1>1, <1>2, <1>3 DEF RepliesChecked
  <1>4. ASSUME NEW a \in Agent \cup Advised, Poll(a) \/ DecideNothing(a)
        PROVE  RepliesChecked'
    <2>1. UNCHANGED <<cmd, accepted>>
      BY <1>4 DEF Poll, DecideNothing, channel
    <2>2. \A c \in Caller : pc'[c] = "sending" => pc[c] = "sending"
      BY <1>4, CallerNat DEF Poll, DecideNothing, TypeOK
    <2>3. QED
      BY <1>1, <1>2, <2>1, <2>2 DEF RepliesChecked
  <1>5. ASSUME NEW c \in Caller, NEW k \in Proposals(c), Submit(c, k)
        PROVE  RepliesChecked'
    <2>1. accepted' = accepted
      BY <1>5 DEF Submit, channel
    <2>2. CASE Refuses(k)
      <3>1. cmd' = cmd /\ \A d \in Caller : pc'[d] = "sending" => pc[d] = "sending"
        BY <1>5, <2>2 DEF Submit, TypeOK
      <3>2. QED
        BY <1>1, <1>2, <2>1, <3>1 DEF RepliesChecked
    <2>3. CASE ~ Refuses(k)
      <3>1. /\ cmd' = [cmd EXCEPT ![c] = k]
            /\ pc' = [pc EXCEPT ![c] = "sending"]
        BY <1>5, <2>3 DEF Submit
      <3>2. k.kind # "Other" /\ k.reply # NoId => WasReceived(k.from, k.reply)
        BY <2>3 DEF Refuses, SameStation, Received, RepliesChecked, WasReceived
      <3>3. ASSUME NEW d \in Caller, pc'[d] = "sending",
                   cmd'[d].kind # "Other", cmd'[d].reply # NoId
            PROVE  WasReceived(cmd'[d].from, cmd'[d].reply)
        <4>1. CASE d = c
          <5>1. cmd'[d] = k
            BY <3>1, <4>1 DEF TypeOK
          <5>2. QED
            BY <3>2, <3>3, <5>1
        <4>2. CASE d # c
          <5>1. cmd'[d] = cmd[d] /\ pc'[d] = pc[d]
            BY <3>1, <4>2 DEF TypeOK
          <5>2. QED
            BY <3>3, <5>1 DEF RepliesChecked
        <4>3. QED
          BY <4>1, <4>2
      <3>4. QED
        BY <1>1, <1>2, <2>1, <3>3 DEF RepliesChecked
    <2>4. QED
      BY <2>2, <2>3
  <1>6. ASSUME NEW c \in Caller, Send(c)
        PROVE  RepliesChecked'
    <2> DEFINE e == Queued(cmd[c], c)
    <2>1. Range(accepted') = Range(accepted) \cup {e}
      BY <1>6, RangeOfAppend DEF Send, Enqueue, TypeOK
    <2>2. e.kind # "Other" /\ e.reply # NoId => WasReceived(e.from, e.reply)
      BY <1>6 DEF Send, RepliesChecked, Queued
    <2>3. ASSUME NEW d \in Caller, pc'[d] = "sending"
          PROVE  cmd'[d] = cmd[d] /\ pc[d] = "sending"
      <3>1. d # c
        BY <1>6, <2>3 DEF Send, TypeOK
      <3>2. QED
        BY <1>6, <2>3, <3>1 DEF Send, TypeOK
    <2> HIDE DEF e
    <2>4. QED
      BY <1>1, <1>2, <2>1, <2>2, <2>3 DEF RepliesChecked
  <1>7. ASSUME NEW k \in Streamed, StreamIn(k)
        PROVE  RepliesChecked'
    <2> DEFINE e == Queued(k, Stream)
    <2>1. Range(accepted') = Range(accepted) \cup {e} /\ UNCHANGED <<pc, cmd>>
      BY <1>7, RangeOfAppend DEF StreamIn, Enqueue, TypeOK, calls
    <2>2. e.by = Stream
      BY DEF Queued
    <2> HIDE DEF e
    <2>3. \A d \in Caller :
            pc'[d] = "sending" /\ cmd'[d].kind # "Other" /\ cmd'[d].reply # NoId =>
              WasReceived(cmd'[d].from, cmd'[d].reply)
      BY <2>1 DEF RepliesChecked
    <2>4. QED
      BY <1>1, <1>2, <2>1, <2>2, <2>3 DEF RepliesChecked
  <1>8. \/ \E a \in Agent \cup Advised : Poll(a) \/ DecideNothing(a)
        \/ \E c \in Caller : Send(c) \/ \E k \in Proposals(c) : Submit(c, k)
        \/ \E k \in Streamed : StreamIn(k)
        \/ UNCHANGED <<pc, cmd, accepted>>
    BY DEF Next, TickLoop, Finished, Wake, DrainOne, DrainEnd, Apply, FinishStep, Notice,
           vars, calls, channel
  <1>9. QED
    BY <1>3, <1>4, <1>5, <1>6, <1>7, <1>8

\* The replies stay checked.
LEMMA RepliesHold == Spec => []RepliesChecked
  <1>1. Init => RepliesChecked
    BY DEF Init, RepliesChecked, Range
  <1>2. TypeOK /\ RepliesChecked /\ [Next]_vars => RepliesChecked'
    BY RepliesStep
  <1>3. QED
    BY <1>1, <1>2, ServiceTypeCorrect, PTL DEF Spec

\* CallsAnswerReceived: the check of a reply, made under the lock, still holds
\* when the command enters the channel and at any later time: the station named
\* as the sender received the message that it answers.
THEOREM RepliesWereReceived == Spec => []CallsAnswerReceived
  <1>1. RepliesChecked => CallsAnswerReceived
    BY DEF RepliesChecked, CallsAnswerReceived, WasReceived
  <1>2. QED
    BY <1>1, RepliesHold, PTL

(***************************************************************************)
(* Contracts on received offers                                            *)
(***************************************************************************)

\* Every step keeps the contracts of checked acceptances on received offers.
LEMMA BuyersStep ==
  ASSUME TypeOK, NoneLost, RepliesChecked, BuyersHeardTheOffer, [Next]_vars
  PROVE  BuyersHeardTheOffer'
  <1>1. ASSUME NEW p \in bound, Grown, p[3] # Stream
        PROVE  p[1] \in everHeard'[said'[p[2]].from]
    <2>1. p[2] \in DOMAIN said
      BY DEF TypeOK
    <2>2. said'[p[2]] = said[p[2]] /\ said[p[2]].from \in Station
      <3>1. said'[p[2]] = said[p[2]]
        BY <1>1, <2>1, GrownKeeps
      <3>2. said[p[2]].from \in Station
        <4>1. said \in Seq(MessageType)
          BY DEF TypeOK
        <4>2. said[p[2]] \in MessageType
          BY <2>1, <4>1
        <4>3. QED
          BY <4>2 DEF MessageType
      <3>3. QED
        BY <3>1, <3>2
    <2>3. QED
      BY <1>1, <2>2, HearingGrows DEF BuyersHeardTheOffer
  <1>2. ASSUME Grown, bound' = bound
        PROVE  BuyersHeardTheOffer'
    BY <1>1, <1>2 DEF BuyersHeardTheOffer
  <1>3. CASE Apply
    <2> DEFINE e == Head(batch)
               id == Len(said) + 1
    <2>1. accepted' = accepted /\ everHeard' = everHeard
      BY <1>3 DEF Apply
    <2>2. e \in Range(accepted)
      <3>1. /\ queue \in Seq(EntryType) /\ batch \in Seq(EntryType)
            /\ accepted \in Seq(EntryType) /\ applied \in Seq(EntryType) /\ batch # <<>>
        BY <1>3 DEF TypeOK, Apply
      <3>2. accepted[Len(applied) + 1] = e /\ Len(applied) < Len(accepted)
        BY <3>1, Taken, Zenon DEF NoneLost
      <3>3. Len(applied) + 1 \in DOMAIN accepted
        BY <3>1, <3>2
      <3>4. QED
        BY <3>2, <3>3 DEF Range
    <2>3. Grown
      BY <1>3, ApplyPosts
    <2>4. CASE bound' = bound
      BY <1>2, <2>3, <2>4
    <2>5. ASSUME e.kind = "Accept", e.from \in Station, Binds(e.reply, e),
                 bound' = bound \cup {<<e.reply, id, e.by>>}, said'[id].from = e.from
          PROVE  BuyersHeardTheOffer'
      <3>1. ASSUME e.by # Stream
            PROVE  e.reply \in everHeard'[said'[id].from]
        <4>1. e.reply # NoId
          BY <2>5 DEF Binds, TypeOK, NoId
        <4>2. QED
          BY <2>1, <2>2, <2>5, <3>1, <4>1 DEF RepliesChecked, WasReceived
      <3>2. ASSUME NEW p \in bound', p[3] # Stream
            PROVE  p[1] \in everHeard'[said'[p[2]].from]
        <4>1. CASE p \in bound
          BY <1>1, <2>3, <3>2, <4>1
        <4>2. CASE p = <<e.reply, id, e.by>>
          BY <3>1, <3>2, <4>2
        <4>3. QED
          BY <2>5, <3>2, <4>1, <4>2
      <3>3. QED
        BY <3>2 DEF BuyersHeardTheOffer
    <2>6. \/ bound' = bound
          \/ /\ e.kind = "Accept" /\ e.from \in Station
             /\ Binds(e.reply, e)
             /\ bound' = bound \cup {<<e.reply, id, e.by>>}
             /\ said'[id].from = e.from
      BY <1>3, ApplyPosts
    <2>7. QED
      BY <2>4, <2>5, <2>6
  <1>4. ASSUME NEW s \in Station, NEW kind \in {"Want", "Have"}, Notice(s, kind)
        PROVE  BuyersHeardTheOffer'
    <2>1. bound' = bound
      BY <1>4 DEF Notice
    <2>2. QED
      BY <1>2, <1>4, <2>1, NoticeType
  <1>5. CASE UNCHANGED <<said, bound>>
    BY <1>2, <1>5 DEF Grown
  <1>6. \/ Apply
        \/ \E s \in Station, kind \in {"Want", "Have"} : Notice(s, kind)
        \/ UNCHANGED <<said, bound>>
    BY DEF Next, TickLoop, Finished, Poll, DecideNothing, Submit, Send, StreamIn, Wake, DrainOne,
           DrainEnd, FinishStep, vars, world
  <1>7. QED
    BY <1>3, <1>4, <1>5, <1>6

\* BuyersHeardTheOffer: whatever else comes over streams, an acceptance submitted
\* by a call forms a contract only on an offer its buyer received, though the
\* check is made one or more ticks before the contract, under another hold of
\* the lock.
THEOREM BuyersAcceptWhatTheyHeard == Spec => []BuyersHeardTheOffer
  <1>1. Init => BuyersHeardTheOffer
    BY DEF Init, BuyersHeardTheOffer
  <1>2. TypeOK /\ NoneLost /\ RepliesChecked /\ BuyersHeardTheOffer /\ [Next]_vars
          => BuyersHeardTheOffer'
    BY BuyersStep
  <1>3. QED
    BY <1>1, <1>2, ServiceTypeCorrect, NoneLostHolds, RepliesHold, PTL DEF Spec

(***************************************************************************)
(* What agents answer                                                      *)
(***************************************************************************)

\* A reply from station f to t that answers a message meant for f, or for all.
Answers(f, t, r) ==
  /\ r \in DOMAIN said
  /\ said[r].to \in {NoId, f}
  /\ t = said[r].from

\* Through every stage of an agent's cycle: the messages in its view are meant
\* for it, and what it sends and has sent answers such a message.
AgentsAnswer ==
  /\ \A a \in Agent : \A i \in view[a] : said[i].to \in {NoId, a}
  /\ \A a \in Agent :
       pc[a] = "sending" =>
         /\ cmd[a].from = a
         /\ cmd[a].reply # NoId => Answers(a, cmd[a].to, cmd[a].reply)
  /\ \A e \in Range(accepted) :
       e.by \in Agent =>
         /\ e.from = e.by
         /\ e.reply # NoId => Answers(e.from, e.to, e.reply)

\* What an answered message says does not change.
LEMMA AnswersStay ==
  ASSUME TypeOK, Grown, NEW f, NEW t, NEW r, Answers(f, t, r)
  PROVE  Answers(f, t, r)'
  BY GrownKeeps DEF Answers

\* The messages only grow, whatever the step.
LEMMA StepGrows ==
  ASSUME TypeOK, [Next]_vars
  PROVE  Grown
  <1>1. CASE Apply
    BY <1>1, ApplyPosts
  <1>2. CASE said' = said
    BY <1>2 DEF Grown
  <1>3. QED
    BY <1>1, <1>2, NoticeType
       DEF Next, TickLoop, Finished, Poll, DecideNothing, Submit, Send, StreamIn, Wake,
           DrainOne, DrainEnd, FinishStep, vars, world

\* What the deterministic adapter proposes answers its view.
LEMMA PlannedAnswers ==
  ASSUME TypeOK, AgentsAnswer, NEW a \in Agent, NEW k \in Proposals(a)
  PROVE  /\ k.from = a
         /\ k.reply # NoId => Answers(a, k.to, k.reply)
  <1>1. a \in Caller /\ a \notin Client /\ a \notin Advised
    BY CallerNat, ServiceAssumption
  <1>2. k \in Planned(a)
    BY <1>1 DEF Proposals
  <1>3. view[a] \subseteq DOMAIN said
    BY <1>1 DEF TypeOK
  <1>4. CASE k \in {Message(a, "Accept", said[i].from, i) : i \in {j \in view[a] : said[j].kind = "Offer"}}
    BY <1>3, <1>4 DEF Message, Answers, AgentsAnswer
  <1>5. CASE k \in {Message(a, "Offer", said[i].from, i) : i \in {j \in view[a] : said[j].kind = "Want"}}
    BY <1>3, <1>5 DEF Message, Answers, AgentsAnswer
  <1>6. CASE k \in {Message(a, "Want", NoId, NoId), Message(a, "Have", NoId, NoId)}
    BY <1>6 DEF Message
  <1>7. QED
    BY <1>2, <1>4, <1>5, <1>6 DEF Planned

\* Every step keeps the agents answering.
LEMMA AgentsStep ==
  ASSUME TypeOK, AgentsAnswer, [Next]_vars
  PROVE  AgentsAnswer'
  <1>1. \A f, t, r : Answers(f, t, r) => Answers(f, t, r)'
    BY StepGrows, AnswersStay
  <1>2. Agent \subseteq Caller /\ Agent \subseteq Station /\ Stream \notin Agent
    BY CallerNat
  <1>3. ASSUME NEW a \in Agent, NEW i \in view[a]
        PROVE  said'[i].to \in {NoId, a}
    <2>1. i \in DOMAIN said
      BY <1>2 DEF TypeOK
    <2>2. said'[i] = said[i]
      BY <2>1, StepGrows, GrownKeeps
    <2>3. QED
      BY <2>2 DEF AgentsAnswer
  <1>4. CASE UNCHANGED <<view, pc, cmd, accepted>>
    BY <1>1, <1>3, <1>4 DEF AgentsAnswer
  <1>5. ASSUME NEW b \in Agent \cup Advised, Poll(b) \/ DecideNothing(b)
        PROVE  AgentsAnswer'
    <2>1. UNCHANGED <<said, heard, cmd, accepted>>
      BY <1>5 DEF Poll, DecideNothing, channel, world
    <2>2. \A a \in Agent : pc'[a] = "sending" => pc[a] = "sending"
      BY <1>2, <1>5 DEF Poll, DecideNothing, TypeOK
    <2>3. \A a \in Agent : view'[a] \subseteq view[a] \cup Audible(a)
      BY <1>2, <1>5 DEF Poll, DecideNothing, TypeOK
    <2>4. \A a \in Agent : \A i \in view'[a] : said'[i].to \in {NoId, a}
      BY <1>3, <2>1, <2>3 DEF Audible
    <2>5. QED
      BY <1>1, <2>1, <2>2, <2>4 DEF AgentsAnswer
  <1>6. ASSUME NEW c \in Caller, NEW k \in Proposals(c), Submit(c, k)
        PROVE  AgentsAnswer'
    <2>1. UNCHANGED <<said, accepted>>
      BY <1>6 DEF Submit, channel, world
    <2>2. \A a \in Agent : view'[a] \subseteq view[a]
      BY <1>2, <1>6 DEF Submit, TypeOK
    <2>3. ASSUME NEW a \in Agent, pc'[a] = "sending"
          PROVE  /\ cmd'[a].from = a
                 /\ cmd'[a].reply # NoId => Answers(a, cmd[a].to, cmd[a].reply)'
      <3>1. CASE a # c
        <4>1. cmd'[a] = cmd[a] /\ pc[a] = "sending"
          BY <1>2, <1>6, <2>3, <3>1 DEF Submit, TypeOK
        <4>2. QED
          BY <1>1, <4>1 DEF AgentsAnswer
      <3>2. CASE a = c
        <4>1. cmd'[a] = k
          BY <1>2, <1>6, <2>3, <3>2 DEF Submit, TypeOK
        <4>2. k.from = a /\ (k.reply # NoId => Answers(a, k.to, k.reply))
          BY <1>6, <3>2, PlannedAnswers
        <4>3. QED
          BY <1>1, <4>1, <4>2
      <3>3. QED
        BY <3>1, <3>2
    <2>4. QED
      BY <1>1, <1>3, <2>1, <2>2, <2>3 DEF AgentsAnswer
  <1>7. ASSUME NEW c \in Caller, Send(c)
        PROVE  AgentsAnswer'
    <2> DEFINE e == Queued(cmd[c], c)
    <2>1. Range(accepted') = Range(accepted) \cup {e} /\ view' = view
      BY <1>7, RangeOfAppend DEF Send, Enqueue, TypeOK
    <2>2. e.by \in Agent => /\ e.from = e.by
                            /\ e.reply # NoId => Answers(e.from, e.to, e.reply)
      BY <1>7 DEF Send, AgentsAnswer, Queued
    <2>3. ASSUME NEW a \in Agent, pc'[a] = "sending"
          PROVE  cmd'[a] = cmd[a] /\ pc[a] = "sending"
      <3>1. a # c
        BY <1>2, <1>7, <2>3 DEF Send, TypeOK
      <3>2. QED
        BY <1>2, <1>7, <2>3, <3>1 DEF Send, TypeOK
    <2> HIDE DEF e
    <2>4. QED
      BY <1>1, <1>3, <2>1, <2>2, <2>3 DEF AgentsAnswer
  <1>8. ASSUME NEW k \in Streamed, StreamIn(k)
        PROVE  AgentsAnswer'
    <2>1. Range(accepted') = Range(accepted) \cup {Queued(k, Stream)}
            /\ UNCHANGED <<view, pc, cmd>>
      BY <1>8, RangeOfAppend DEF StreamIn, Enqueue, TypeOK, calls
    <2>2. Queued(k, Stream).by \notin Agent
      BY <1>2 DEF Queued
    <2>3. \A e \in Range(accepted') : e.by \in Agent => e \in Range(accepted)
      BY <2>1, <2>2
    <2> QED
      BY <1>1, <1>3, <2>1, <2>3 DEF AgentsAnswer
  <1>9. \/ \E b \in Agent \cup Advised : Poll(b) \/ DecideNothing(b)
        \/ \E c \in Caller : Send(c) \/ \E k \in Proposals(c) : Submit(c, k)
        \/ \E k \in Streamed : StreamIn(k)
        \/ UNCHANGED <<view, pc, cmd, accepted>>
    BY DEF Next, TickLoop, Finished, Wake, DrainOne, DrainEnd, Apply, FinishStep, Notice,
           vars, calls, channel
  <1>10. QED
    BY <1>4, <1>5, <1>6, <1>7, <1>8, <1>9

\* AgentsAnswerTheSender: however many ticks pass between its view, its decision
\* and its command, a station run by the deterministic adapter answers only
\* messages for it or for everybody, to the station that sent them.
THEOREM AgentsAnswerWhoAsked == Spec => []AgentsAnswerTheSender
  <1>1. Init => AgentsAnswer
    BY CallerNat DEF Init, AgentsAnswer, Range
  <1>2. TypeOK /\ AgentsAnswer /\ [Next]_vars => AgentsAnswer'
    BY AgentsStep
  <1>3. AgentsAnswer => AgentsAnswerTheSender
    BY DEF AgentsAnswer, AgentsAnswerTheSender, Answers
  <1>4. QED
    BY <1>1, <1>2, <1>3, ServiceTypeCorrect, PTL DEF Spec

=============================================================================
