---------------------------- MODULE Viewers_proofs ----------------------------
(***************************************************************************)
(* Proofs about Viewers: the order and the completeness of what comes over *)
(* the broadcast ring, the connection and the channel to the screen of a   *)
(* viewer, the checkpoint an engine starts from, and that no command is    *)
(* doubled or gets lost unnoticed on its way to the ship, for rings of     *)
(* every capacity, any number of publications, starts, connections,        *)
(* commands and forwarders that share the queue.                           *)
(***************************************************************************)
EXTENDS Viewers, SumLemmas, TLAPS

(***************************************************************************)
(* What is under way                                                       *)
(***************************************************************************)

\* Publications on the way: in the channel, then on the wire, each one later than
\* what is shown and than those before it, and earlier than the place of the
\* receiver in the ring, which is never past the end.
UnderWay ==
  /\ log \in Seq(PublicationType)
  /\ next \in 1..(Len(log) + 1) /\ since \in Nat
  /\ shown \in Nat /\ shown < next
  /\ wire \in Seq(Nat) /\ inbox \in Seq(Nat)
  /\ \A i \in DOMAIN inbox : shown < inbox[i] /\ inbox[i] < next
  /\ \A i \in DOMAIN wire : shown < wire[i] /\ wire[i] < next
  /\ \A i, j \in DOMAIN inbox : i < j => inbox[i] < inbox[j]
  /\ \A i, j \in DOMAIN wire : i < j => wire[i] < wire[j]
  /\ \A i \in DOMAIN inbox, j \in DOMAIN wire : inbox[i] < wire[j]

\* The part of the state it is about.
stage == <<log, conn, since, next, wire, inbox, shown, got>>

\* A publication of a tick: what it may bring, in the range of PublicationType.
LEMMA OutcomesAreTicks ==
  ASSUME NEW seen \in Outcomes
  PROVE  seen.contacts \in SUBSET Contact /\ seen.news \in Seq(Message)
<1>1. \A s \in Sky : s.contacts \in SUBSET Contact /\ s.news \in Seq(Message)
  <2>1. \A s \in [contacts : SUBSET Contact, news : Seq(Message)] :
          s.contacts \in SUBSET Contact /\ s.news \in Seq(Message)
    OBVIOUS
  <2> QED BY <2>1, BroadcastAssumption
<1>2. Nothing.contacts \in SUBSET Contact /\ Nothing.news \in Seq(Message)
  BY DEF Nothing
<1> QED BY <1>1, <1>2 DEF Outcomes

\* Every step of the system is one of these on the way of a publication.
Published ==
  /\ tick \in Nat
  /\ \E p \in PublicationType : log' = Append(log, p)
  /\ UNCHANGED <<conn, since, next, wire, inbox, shown, got>>
Connected ==
  /\ since' = Len(log) + 1 /\ next' = Len(log) + 1 /\ wire' = <<>>
  /\ UNCHANGED <<log, inbox, shown, got>>
Broken == conn' = "down" /\ wire' = <<>> /\ UNCHANGED <<log, since, next, inbox, shown, got>>
Relayed ==
  /\ next <= Len(log)
  /\ wire' = Append(wire, next) /\ next' = next + 1
  /\ UNCHANGED <<log, conn, since, inbox, shown, got>>
Received ==
  /\ wire # <<>>
  /\ inbox' = Append(inbox, Head(wire)) /\ wire' = Tail(wire)
  /\ UNCHANGED <<log, conn, since, next, shown, got>>
Ended == conn' = "down" /\ UNCHANGED <<log, since, next, wire, inbox, shown, got>>
TakenIn ==
  /\ inbox # <<>>
  /\ inbox' = Tail(inbox) /\ shown' = Head(inbox) /\ got' = got \cup {Head(inbox)}
  /\ UNCHANGED <<log, conn, since, next, wire>>

TickType == tick \in Nat /\ file \in Nat \cup {NoFile, Torn} /\ batchTick \in Nat

LEMMA StepsOnTheWay ==
  ASSUME TickType, [Next]_vars
  PROVE  \/ Published \/ Connected \/ Broken \/ Relayed \/ Received \/ Ended \/ TakenIn
         \/ UNCHANGED stage
<1> USE DEF stage, link, process, screen
<1>1. CASE Process
  <2>1. CASE \E fromFile \in BOOLEAN : Serve(fromFile)
    BY <2>1 DEF Serve
  <2>2. ASSUME NEW seen \in Outcomes, FlyTick(seen)
        PROVE  Published
    <3>1. /\ log' = Append(log, [tick |-> tick + 1, contacts |-> seen.contacts, news |-> seen.news])
          /\ UNCHANGED <<conn, since, next, wire, inbox, shown, got>>
      BY <2>2 DEF FlyTick, Publish
    <3>2. [tick |-> tick + 1, contacts |-> seen.contacts, news |-> seen.news] \in PublicationType
      BY OutcomesAreTicks DEF PublicationType, TickType
    <3> QED BY <3>1, <3>2 DEF Published, TickType
  <2>3. CASE AdminCrash
    BY <2>3 DEF AdminCrash, Crash
  <2> QED BY <1>1, <2>1, <2>2, <2>3 DEF Process
<1>2. CASE Connection
  <2>1. CASE Connect
    BY <2>1 DEF Connect, Connected, Resubscribe
  <2>2. CASE Break
    BY <2>2 DEF Break, Broken
  <2> QED BY <1>2, <2>1, <2>2 DEF Connection, AdminConnect
<1>3. CASE Transport
  <2>1. CASE Relay BY <2>1 DEF Relay, Relayed
  <2>2. CASE Lag BY <2>2 DEF Lag
  <2>3. CASE Receive BY <2>3 DEF Receive, Received
  <2>4. CASE EndOfStream BY <2>4 DEF EndOfStream, Ended
  <2> QED BY <1>3, <2>1, <2>2, <2>3, <2>4 DEF Transport
<1>4. CASE TakeInState
  BY <1>4 DEF TakeInState, LunaTakeIn, AdminTakeIn, TakeIn, TakenIn
<1>5. CASE AdminNext
  BY <1>5 DEF AdminNext, PushCommand, Forward, ForwardInVain, Deliver, CloseUplink, broadcastVars
<1>6. CASE BatchNext
  BY <1>6 DEF BatchNext, BatchStart, BatchTick, BatchTruncate, BatchWrite, BatchEnd, broadcastVars
<1>7. CASE UNCHANGED vars
  BY <1>7 DEF vars, broadcastVars
<1> QED BY <1>1, <1>2, <1>3, <1>4, <1>5, <1>6, <1>7 DEF Next

(***************************************************************************)
(* Types and the checkpoint                                                *)
(***************************************************************************)

\* What is on disk is a saved run, or nothing that can be loaded.
SavedFile ==
  /\ TickType
  /\ file \in saved \cup {NoFile, Torn}

LEMMA SavedFileInit == Init => SavedFile
BY DEF Init, BroadcastInit, CheckpointInit, SavedFile, TickType, NoFile, Torn

LEMMA SavedFileStep == SavedFile /\ [Next]_vars => SavedFile'
<1> SUFFICES ASSUME SavedFile, [Next]_vars PROVE SavedFile'
  OBVIOUS
<1> USE DEF SavedFile, TickType
<1> DEFINE kept == UNCHANGED <<tick, file, batchTick, saved>>
<1>0. kept => SavedFile'
  OBVIOUS
<1> USE DEF process, link, screen
<1>1. CASE Process
  <2>1. ASSUME NEW fromFile \in BOOLEAN, Serve(fromFile), UNCHANGED batchVars
        PROVE  SavedFile'
    BY <2>1 DEF Serve, StartTick, Loadable, batchVars
  <2>2. ASSUME NEW seen \in Outcomes, FlyTick(seen), UNCHANGED batchVars
        PROVE  SavedFile'
    BY <2>2 DEF FlyTick, Publish, batchVars
  <2>3. CASE AdminCrash /\ UNCHANGED batchVars
    BY <2>3, <1>0 DEF AdminCrash, Crash, batchVars
  <2> QED BY <1>1, <2>1, <2>2, <2>3 DEF Process
<1>2. CASE Connection
  BY <1>2, <1>0 DEF Connection, AdminConnect, Connect, Break, batchVars
<1>3. CASE Transport
  BY <1>3, <1>0 DEF Transport, Relay, Lag, Receive, EndOfStream, batchVars
<1>4. CASE TakeInState
  BY <1>4, <1>0 DEF TakeInState, LunaTakeIn, AdminTakeIn, TakeIn, batchVars
<1>5. CASE AdminNext /\ UNCHANGED batchVars
  BY <1>5, <1>0 DEF AdminNext, PushCommand, Forward, ForwardInVain, Deliver, CloseUplink,
     broadcastVars, batchVars
<1>6. CASE BatchNext
  <2>1. ASSUME NEW fromFile \in BOOLEAN, BatchStart(fromFile)
        PROVE  SavedFile'
    BY <2>1 DEF BatchStart, StartTick, Loadable, broadcastVars
  <2>2. CASE BatchTick BY <2>2 DEF BatchTick, broadcastVars
  <2>3. CASE BatchTruncate BY <2>3 DEF BatchTruncate
  <2>4. CASE BatchWrite BY <2>4 DEF BatchWrite
  <2>5. CASE BatchEnd BY <2>5 DEF BatchEnd, broadcastVars
  <2> QED BY <1>6, <2>1, <2>2, <2>3, <2>4, <2>5 DEF BatchNext
<1>7. CASE UNCHANGED vars
  BY <1>7, <1>0 DEF vars, broadcastVars, batchVars
<1> QED BY <1>1, <1>2, <1>3, <1>4, <1>5, <1>6, <1>7 DEF Next

LEMMA SavedFileAlways == Spec => []SavedFile
BY SavedFileInit, SavedFileStep, PTL DEF Spec

\* An engine only ever starts at tick 0 or from the end of a run that was saved:
\* a checkpoint that was truncated and never written is refused (state.rs, load).
THEOREM StartsFromASave == Spec => ServedFromASave
<1>1. SavedFile /\ [Next]_vars => [engine = "down" /\ engine' = "up" => tick' \in saved \cup {0}]_vars
  <2> SUFFICES ASSUME SavedFile, Next, engine = "down", engine' = "up"
               PROVE  tick' \in saved \cup {0}
    OBVIOUS
  <2>1. ASSUME NEW fromFile \in BOOLEAN, Serve(fromFile)
        PROVE  tick' \in saved \cup {0}
    BY <2>1 DEF Serve, StartTick, Loadable, SavedFile
  <2>2. CASE \E fromFile \in BOOLEAN : Serve(fromFile)
    BY <2>1, <2>2
  <2>3. CASE Process /\ ~ \E fromFile \in BOOLEAN : Serve(fromFile)
    BY <2>3 DEF Process, FlyTick, Publish, AdminCrash, Crash
  <2> USE DEF process
  <2>4. CASE Connection
    BY <2>4 DEF Connection, AdminConnect, Connect, Break
  <2>5. CASE Transport
    BY <2>5 DEF Transport, Relay, Lag, Receive, EndOfStream
  <2>6. CASE TakeInState
    BY <2>6 DEF TakeInState, LunaTakeIn, AdminTakeIn, TakeIn
  <2>7. CASE AdminNext
    BY <2>7 DEF AdminNext, PushCommand, Forward, ForwardInVain, Deliver, CloseUplink, broadcastVars
  <2>8. CASE BatchNext
    BY <2>8 DEF BatchNext, BatchStart, BatchTick, BatchTruncate, BatchWrite, BatchEnd, broadcastVars
  <2> QED BY <2>2, <2>3, <2>4, <2>5, <2>6, <2>7, <2>8 DEF Next
<1> QED BY <1>1, SavedFileAlways, PTL DEF Spec, ServedFromASave

(***************************************************************************)
(* The order of what is under way                                          *)
(***************************************************************************)

\* The element at the front, the rest and an element at the end, place by place.
LEMMA Ends ==
  ASSUME NEW S, NEW s \in Seq(S), NEW e \in S
  PROVE  /\ Append(s, e) \in Seq(S) /\ DOMAIN Append(s, e) = 1..Len(s) + 1
         /\ DOMAIN s = 1..Len(s) /\ Len(s) \in Nat
         /\ \A i \in DOMAIN s : Append(s, e)[i] = s[i]
         /\ Append(s, e)[Len(s) + 1] = e
         /\ s # <<>> => /\ 1 \in DOMAIN s /\ Head(s) = s[1] /\ Head(s) \in S
                        /\ Tail(s) \in Seq(S) /\ DOMAIN Tail(s) = 1..Len(s) - 1
                        /\ \A i \in DOMAIN Tail(s) : i + 1 \in DOMAIN s /\ Tail(s)[i] = s[i + 1]
OBVIOUS

LEMMA UnderWayInit == Init => UnderWay
BY DEF Init, BroadcastInit, UnderWay

LEMMA PublishedStep == UnderWay /\ Published => UnderWay'
<1> SUFFICES ASSUME UnderWay, Published PROVE UnderWay'
  OBVIOUS
<1>1. log' \in Seq(PublicationType) /\ Len(log') = Len(log) + 1
  BY DEF UnderWay, Published
<1> QED BY <1>1 DEF UnderWay, Published

LEMMA ConnectedStep == UnderWay /\ (Connected \/ Broken \/ Ended \/ UNCHANGED stage) => UnderWay'
<1>1. UnderWay /\ Connected => UnderWay'
  BY DEF UnderWay, Connected
<1>2. UnderWay /\ Broken => UnderWay'
  BY DEF UnderWay, Broken
<1>3. UnderWay /\ (Ended \/ UNCHANGED stage) => UnderWay'
  BY DEF UnderWay, Ended, stage
<1> QED BY <1>1, <1>2, <1>3

LEMMA RelayedStep == UnderWay /\ Relayed => UnderWay'
<1> SUFFICES ASSUME UnderWay, Relayed PROVE UnderWay'
  OBVIOUS
<1>1. wire \in Seq(Nat) /\ inbox \in Seq(Nat) /\ next \in Nat /\ shown \in Nat
      /\ wire' = Append(wire, next) /\ next' = next + 1 /\ inbox' = inbox /\ shown' = shown
      /\ Len(log) \in Nat
  BY DEF UnderWay, Relayed
<1>2. /\ wire' \in Seq(Nat) /\ DOMAIN wire' = 1..Len(wire) + 1
      /\ DOMAIN wire = 1..Len(wire) /\ Len(wire) \in Nat
      /\ \A i \in DOMAIN wire : wire'[i] = wire[i]
      /\ wire'[Len(wire) + 1] = next
  BY <1>1, Ends
<1>3. \A i \in DOMAIN inbox : inbox[i] \in Nat
  BY <1>1
<1>4. \A i \in DOMAIN wire : wire[i] \in Nat
  BY <1>1
<1>5. \A i \in DOMAIN wire' : i \in DOMAIN wire \/ i = Len(wire) + 1
  BY <1>2
<1>6. \A i \in DOMAIN wire' : shown < wire'[i] /\ wire'[i] < next'
  BY <1>1, <1>2, <1>4, <1>5 DEF UnderWay
<1>7. \A i \in DOMAIN inbox : shown < inbox[i] /\ inbox[i] < next'
  BY <1>1, <1>3 DEF UnderWay
<1>8. \A i, j \in DOMAIN wire' : i < j => wire'[i] < wire'[j]
  <2> SUFFICES ASSUME NEW i \in DOMAIN wire', NEW j \in DOMAIN wire', i < j
               PROVE  wire'[i] < wire'[j]
    OBVIOUS
  <2>1. i \in DOMAIN wire
    BY <1>2
  <2> QED BY <2>1, <1>2, <1>5 DEF UnderWay
<1>9. \A i \in DOMAIN inbox, j \in DOMAIN wire' : inbox[i] < wire'[j]
  <2> SUFFICES ASSUME NEW i \in DOMAIN inbox, NEW j \in DOMAIN wire' PROVE inbox[i] < wire'[j]
    OBVIOUS
  <2>1. CASE j \in DOMAIN wire
    BY <1>2, <2>1 DEF UnderWay
  <2>2. CASE j = Len(wire) + 1
    <3>1. wire'[j] = next
      BY <1>2, <2>2
    <3> QED BY <3>1 DEF UnderWay
  <2> QED BY <1>5, <2>1, <2>2
<1> QED BY <1>1, <1>2, <1>6, <1>7, <1>8, <1>9, SMTT(30) DEF UnderWay, Relayed

LEMMA ReceivedStep == UnderWay /\ Received => UnderWay'
<1> SUFFICES ASSUME UnderWay, Received PROVE UnderWay'
  OBVIOUS
<1>1. wire \in Seq(Nat) /\ inbox \in Seq(Nat) /\ wire # <<>> /\ next' = next /\ shown' = shown
      /\ inbox' = Append(inbox, Head(wire)) /\ wire' = Tail(wire) /\ next \in Nat /\ shown \in Nat
  BY DEF UnderWay, Received
<1>2. /\ 1 \in DOMAIN wire /\ Head(wire) = wire[1] /\ Head(wire) \in Nat
      /\ wire' \in Seq(Nat) /\ DOMAIN wire' = 1..Len(wire) - 1 /\ Len(wire) \in Nat
      /\ DOMAIN wire = 1..Len(wire)
      /\ \A i \in DOMAIN wire' : i + 1 \in DOMAIN wire /\ wire'[i] = wire[i + 1]
  BY <1>1, Ends
<1>3. /\ inbox' \in Seq(Nat) /\ DOMAIN inbox' = 1..Len(inbox) + 1
      /\ DOMAIN inbox = 1..Len(inbox) /\ Len(inbox) \in Nat
      /\ \A i \in DOMAIN inbox : inbox'[i] = inbox[i]
      /\ inbox'[Len(inbox) + 1] = wire[1]
  BY <1>1, <1>2, Ends
<1>4. \A i \in DOMAIN inbox' : i \in DOMAIN inbox \/ i = Len(inbox) + 1
  BY <1>3
<1>5. \A i \in DOMAIN inbox' : shown < inbox'[i] /\ inbox'[i] < next
  BY <1>2, <1>3, <1>4 DEF UnderWay
<1>6. \A i \in DOMAIN wire' : shown < wire'[i] /\ wire'[i] < next
  BY <1>2 DEF UnderWay
<1>7. \A i, j \in DOMAIN inbox' : i < j => inbox'[i] < inbox'[j]
  <2> SUFFICES ASSUME NEW i \in DOMAIN inbox', NEW j \in DOMAIN inbox', i < j
               PROVE  inbox'[i] < inbox'[j]
    OBVIOUS
  <2>1. i \in DOMAIN inbox
    BY <1>3
  <2> QED BY <2>1, <1>2, <1>3, <1>4 DEF UnderWay
<1>8. \A i, j \in DOMAIN wire' : i < j => wire'[i] < wire'[j]
  <2> SUFFICES ASSUME NEW i \in DOMAIN wire', NEW j \in DOMAIN wire', i < j
               PROVE  wire'[i] < wire'[j]
    OBVIOUS
  <2>1. i + 1 < j + 1
    BY <1>2
  <2> QED BY <2>1, <1>2 DEF UnderWay
<1>9. \A i \in DOMAIN inbox', j \in DOMAIN wire' : inbox'[i] < wire'[j]
  <2> SUFFICES ASSUME NEW i \in DOMAIN inbox', NEW j \in DOMAIN wire'
               PROVE  inbox'[i] < wire'[j]
    OBVIOUS
  <2>1. wire'[j] = wire[j + 1] /\ j + 1 \in DOMAIN wire /\ 1 < j + 1
    BY <1>2
  <2>2. wire[1] < wire[j + 1]
    BY <2>1, <1>2 DEF UnderWay
  <2> QED BY <2>1, <2>2, <1>3, <1>4 DEF UnderWay
<1> QED BY <1>1, <1>2, <1>3, <1>5, <1>6, <1>7, <1>8, <1>9 DEF UnderWay, Received

\* What is taken in is later than what was shown, and earlier than the rest.
LEMMA TakenInStep ==
  UnderWay /\ TakenIn => UnderWay' /\ shown < shown' /\ shown' \in 1..Len(log)
<1> SUFFICES ASSUME UnderWay, TakenIn PROVE UnderWay' /\ shown < shown' /\ shown' \in 1..Len(log)
  OBVIOUS
<1>1. wire \in Seq(Nat) /\ inbox \in Seq(Nat) /\ inbox # <<>> /\ next' = next /\ wire' = wire
      /\ inbox' = Tail(inbox) /\ shown' = Head(inbox) /\ next \in Nat /\ shown \in Nat
      /\ log' = log /\ Len(log) \in Nat /\ next <= Len(log) + 1
  BY DEF UnderWay, TakenIn
<1>2. /\ 1 \in DOMAIN inbox /\ shown' = inbox[1] /\ shown' \in Nat
      /\ inbox' \in Seq(Nat) /\ DOMAIN inbox' = 1..Len(inbox) - 1 /\ Len(inbox) \in Nat
      /\ DOMAIN inbox = 1..Len(inbox)
      /\ \A i \in DOMAIN inbox' : i + 1 \in DOMAIN inbox /\ inbox'[i] = inbox[i + 1]
  BY <1>1, Ends
<1>3. shown < shown' /\ shown' < next
  BY <1>2 DEF UnderWay
<1>4. \A i \in DOMAIN inbox' : shown' < inbox'[i] /\ inbox'[i] < next
  <2> SUFFICES ASSUME NEW i \in DOMAIN inbox' PROVE shown' < inbox'[i] /\ inbox'[i] < next
    OBVIOUS
  <2>1. 1 < i + 1
    BY <1>2
  <2> QED BY <2>1, <1>2 DEF UnderWay
<1>5. \A i \in DOMAIN wire : shown' < wire[i] /\ wire[i] < next
  BY <1>2 DEF UnderWay
<1>6. \A i, j \in DOMAIN inbox' : i < j => inbox'[i] < inbox'[j]
  <2> SUFFICES ASSUME NEW i \in DOMAIN inbox', NEW j \in DOMAIN inbox', i < j
               PROVE  inbox'[i] < inbox'[j]
    OBVIOUS
  <2>1. i + 1 < j + 1
    BY <1>2
  <2> QED BY <2>1, <1>2 DEF UnderWay
<1>7. \A i \in DOMAIN inbox', j \in DOMAIN wire : inbox'[i] < wire[j]
  BY <1>2 DEF UnderWay
<1>8. UnderWay'
  BY <1>1, <1>2, <1>3, <1>4, <1>5, <1>6, <1>7 DEF UnderWay, TakenIn
<1> QED BY <1>1, <1>2, <1>3, <1>8

LEMMA UnderWayStep == TickType /\ UnderWay /\ [Next]_vars => UnderWay'
BY StepsOnTheWay, PublishedStep, ConnectedStep, RelayedStep, ReceivedStep, TakenInStep

LEMMA TickTypeAlways == Spec => []TickType
<1>1. SavedFile => TickType
  BY DEF SavedFile
<1> QED BY <1>1, SavedFileAlways, PTL

LEMMA UnderWayAlways == Spec => []UnderWay
BY UnderWayInit, UnderWayStep, TickTypeAlways, PTL DEF Spec

(***************************************************************************)
(* What is promised of the screen                                          *)
(***************************************************************************)

\* Through crashes, lags, lost connections and what is left in the channel, a
\* viewer shows publications of the engine in their order and never again an
\* earlier one (TickFeed), for a ring of every capacity.
THEOREM ViewersImplementTickFeed == Spec => ImplementsTickFeed
<1>1. Init => Feed!Init
  BY DEF Init, BroadcastInit, Feed!Init
<1>2. ASSUME TickType, UnderWay, [Next]_vars
      PROVE  [Feed!Next]_<<Len(log), shown>>
  <2>1. CASE Published
    <3>1. Len(log') = Len(log) + 1 /\ shown' = shown
      BY <2>1 DEF Published
    <3> QED BY <3>1 DEF Feed!Next, Feed!Publish
  <2>2. CASE TakenIn
    <3>1. shown < shown' /\ shown' \in 1..Len(log) /\ log' = log
      BY <1>2, <2>2, TakenInStep DEF TakenIn
    <3> QED BY <3>1 DEF Feed!Next, Feed!Show, UnderWay
  <2>3. CASE Connected \/ Broken \/ Relayed \/ Received \/ Ended \/ UNCHANGED stage
    BY <2>3 DEF Connected, Broken, Relayed, Received, Ended, stage
  <2> QED BY <1>2, <2>1, <2>2, <2>3, StepsOnTheWay
<1> QED BY <1>1, <1>2, TickTypeAlways, UnderWayAlways, PTL DEF Spec, ImplementsTickFeed, Feed!Spec

\* The values of a sequence with one more at its end or without its first.
LEMMA RangeOfEnds ==
  ASSUME NEW S, NEW s \in Seq(S), NEW e \in S
  PROVE  /\ Range(Append(s, e)) = Range(s) \cup {e}
         /\ s # <<>> => Range(s) = {Head(s)} \cup Range(Tail(s))
<1>1. Range(Append(s, e)) = Range(s) \cup {e}
  <2>1. Range(Append(s, e)) \subseteq Range(s) \cup {e}
    BY Ends DEF Range
  <2>2. Range(s) \subseteq Range(Append(s, e))
    BY Ends DEF Range
  <2>3. e \in Range(Append(s, e))
    BY Ends DEF Range
  <2> QED BY <2>1, <2>2, <2>3
<1>2. ASSUME s # <<>> PROVE Range(s) = {Head(s)} \cup Range(Tail(s))
  <2>1. /\ 1 \in DOMAIN s /\ Head(s) = s[1] /\ DOMAIN s = 1..Len(s) /\ Len(s) \in Nat
        /\ DOMAIN Tail(s) = 1..Len(s) - 1
        /\ \A i \in DOMAIN Tail(s) : i + 1 \in DOMAIN s /\ Tail(s)[i] = s[i + 1]
    BY <1>2, Ends
  <2>2. \A i \in DOMAIN s : i = 1 \/ (i - 1 \in DOMAIN Tail(s) /\ s[i] = Tail(s)[i - 1])
    BY <2>1
  <2>3. Range(s) \subseteq {Head(s)} \cup Range(Tail(s))
    BY <2>1, <2>2 DEF Range
  <2>4. Head(s) \in Range(s)
    BY <2>1 DEF Range
  <2>5. Range(Tail(s)) \subseteq Range(s)
    BY <2>1 DEF Range
  <2> QED BY <2>3, <2>4, <2>5
<1> QED BY <1>1, <1>2

LEMMA NoSilentGapStep == UnderWay /\ NoSilentGap /\ [Next]_vars /\ TickType => NoSilentGap'
<1> SUFFICES ASSUME UnderWay, NoSilentGap, [Next]_vars, TickType PROVE NoSilentGap'
  OBVIOUS
<1> DEFINE all == Range(wire) \cup Range(inbox) \cup got
<1>t. next \in Nat /\ since \in Nat /\ wire \in Seq(Nat) /\ inbox \in Seq(Nat) /\ Len(log) \in Nat
  BY DEF UnderWay
<1>0. ASSUME conn' = conn, since' = since, next' = next, all \subseteq all'
      PROVE  NoSilentGap'
  BY <1>0 DEF NoSilentGap
<1>1. CASE Published
  BY <1>0, <1>1 DEF Published
<1>2. CASE Connected
  <2>1. since' = Len(log) + 1 /\ next' = Len(log) + 1
    BY <1>2 DEF Connected
  <2>2. since'..(next' - 1) = {}
    BY <2>1, <1>t
  <2> QED BY <2>2 DEF NoSilentGap
<1>3. CASE Broken \/ Ended
  BY <1>3 DEF Broken, Ended, NoSilentGap
<1>4. CASE Relayed
  <2>0. Range(Append(wire, next)) = Range(wire) \cup {next}
    <3>1. \A s \in Seq(Nat), e \in Nat : Range(Append(s, e)) = Range(s) \cup {e}
      BY RangeOfEnds
    <3> QED BY <3>1, <1>t
  <2>1. Range(wire') = Range(wire) \cup {next} /\ next' = next + 1 /\ since' = since /\ conn' = conn
        /\ Range(inbox') = Range(inbox) /\ got' = got
    BY <1>4, <2>0 DEF Relayed
  <2>2. since..(next' - 1) \subseteq since..(next - 1) \cup {next}
    BY <2>1, <1>t
  <2> QED BY <2>1, <2>2 DEF NoSilentGap
<1>5. CASE Received
  <2>1. wire # <<>> /\ Head(wire) \in Nat
    BY <1>5, <1>t, Ends DEF Received
  <2>2. Range(wire) = {Head(wire)} \cup Range(wire')
    BY <1>5, <1>t, <2>1, RangeOfEnds DEF Received
  <2>3. Range(inbox') = Range(inbox) \cup {Head(wire)}
    BY <1>5, <1>t, <2>1, RangeOfEnds DEF Received
  <2> QED BY <1>0, <1>5, <2>2, <2>3 DEF Received
<1>6. CASE TakenIn
  <2>1. inbox # <<>> /\ Head(inbox) \in Nat
    BY <1>6, <1>t, Ends DEF TakenIn
  <2>2. Range(inbox) = {Head(inbox)} \cup Range(inbox')
    BY <1>6, <1>t, <2>1, RangeOfEnds DEF TakenIn
  <2> QED BY <1>0, <1>6, <2>2 DEF TakenIn
<1>7. CASE UNCHANGED stage
  BY <1>0, <1>7 DEF stage
<1> QED BY <1>1, <1>2, <1>3, <1>4, <1>5, <1>6, <1>7, StepsOnTheWay

\* As long as a connection lasts, no publication since its beginning is left out
\* on the way to the screen, however short the ring.
THEOREM NoTickSkipped == Spec => []NoSilentGap
<1>1. Init => NoSilentGap
  BY DEF Init, BroadcastInit, NoSilentGap
<1> QED BY <1>1, NoSilentGapStep, TickTypeAlways, UnderWayAlways, PTL DEF Spec

(***************************************************************************)
(* The tracks of the Luna viewer                                           *)
(***************************************************************************)

\* m is the last publication taken in that c was seen in, and none taken in
\* after it is more than Stale ticks ahead.
IsLast(c, m) == m \in Sightings(c) /\ \A k \in Sightings(c) : k <= m
NotStale(m) == \A k \in got : k > m => log[k].tick <= log[m].tick + Stale

\* What one contact's track and sightings have to do with each other.
Tracked(c) ==
  /\ Sightings(c) = {} => c \notin DOMAIN tracks
  /\ Sightings(c) # {} => \E m \in Nat : IsLast(c, m)
  /\ \A m \in Nat : IsLast(c, m) =>
       /\ c \in DOMAIN tracks <=> NotStale(m)
       /\ c \in DOMAIN tracks => tracks[c] = log[m].tick

\* Nothing that was taken in is later than what is shown; only the Luna viewer
\* has tracks, and only it is sent contacts.
TakenInSoFar == \A k \in got : k \in 1..Len(log) /\ k <= shown
OnlyLunaTracks ==
  user # "Luna" => /\ DOMAIN tracks = {}
                   /\ \A k \in 1..Len(log) : log[k].contacts = {}

TracksInv ==
  /\ TakenInSoFar
  /\ OnlyLunaTracks
  /\ \A c \in Contact \ {Nobody} : Tracked(c)

LEMMA TracksInvInit == Init => TracksInv
BY DEF Init, BroadcastInit, LunaInit, TracksInv, TakenInSoFar, OnlyLunaTracks, Tracked, IsLast, Sightings

LEMMA TracksInvImplies == TracksInv => TracksFollowSightings
<1> SUFFICES ASSUME TracksInv, NEW c \in Contact \ {Nobody}
             PROVE  LET kept == /\ Sightings(c) # {}
                                /\ \A k \in got : k > LastSighting(c) =>
                                     log[k].tick <= log[LastSighting(c)].tick + Stale
                    IN  /\ c \in DOMAIN tracks <=> kept
                        /\ kept => tracks[c] = log[LastSighting(c)].tick
  BY DEF TracksFollowSightings
<1>1. Tracked(c)
  BY DEF TracksInv
<1>2. CASE Sightings(c) = {}
  BY <1>1, <1>2 DEF Tracked
<1>3. CASE Sightings(c) # {}
  <2>1. Sightings(c) \subseteq Nat
    BY DEF Sightings, TracksInv, TakenInSoFar
  <2>2. \E m \in Sightings(c) : \A k \in Sightings(c) : k <= m
    BY <1>1, <1>3 DEF Tracked, IsLast
  <2>3. /\ LastSighting(c) \in Sightings(c)
        /\ \A k \in Sightings(c) : k <= LastSighting(c)
    BY <2>2 DEF LastSighting
  <2>4. LastSighting(c) \in Nat /\ IsLast(c, LastSighting(c))
    BY <2>1, <2>3 DEF IsLast
  <2> QED BY <1>1, <1>3, <2>4 DEF Tracked, NotStale
<1> QED BY <1>2, <1>3

\* Every step of the system is one of these for the tracks.
Ticked ==
  /\ \E p \in PublicationType : log' = Append(log, p) /\ (user # "Luna" => p.contacts = {})
  /\ UNCHANGED <<user, shown, got, tracks>>
LookedAt ==
  /\ user' = user
  /\ IF user = "Luna" THEN tracks' = UpdatedTracks(log[Head(inbox)]) ELSE tracks' = tracks

LEMMA StepsOfTheTracks ==
  ASSUME TickType, [Next]_vars
  PROVE  Ticked \/ (TakenIn /\ LookedAt) \/ UNCHANGED <<user, log, shown, got, tracks>>
<1> USE DEF link, process, screen, lunaVars
<1>1. CASE Process
  <2>1. CASE /\ \E fromFile \in BOOLEAN : Serve(fromFile)
             /\ UNCHANGED <<batchVars, lunaVars, adminVars>>
    BY <2>1 DEF Serve
  <2>2. ASSUME NEW seen \in Outcomes, FlyTick(seen), UNCHANGED <<batchVars, lunaVars>>
        PROVE  Ticked
    <3> DEFINE p == [tick |-> tick + 1, contacts |-> seen.contacts, news |-> seen.news]
    <3>1. log' = Append(log, p) /\ UNCHANGED <<user, shown, got, tracks>>
      BY <2>2 DEF FlyTick, Publish
    <3>2. p \in PublicationType
      BY OutcomesAreTicks DEF PublicationType, TickType
    <3>3. user # "Luna" => p.contacts = {}
      BY DEF Outcomes, Nothing
    <3> QED BY <3>1, <3>2, <3>3 DEF Ticked
  <2>3. CASE AdminCrash /\ UNCHANGED <<batchVars, lunaVars>>
    BY <2>3 DEF AdminCrash, Crash
  <2> QED BY <1>1, <2>1, <2>2, <2>3 DEF Process
<1>2. CASE Connection
  BY <1>2 DEF Connection, AdminConnect, Connect, Break
<1>3. CASE Transport
  BY <1>3 DEF Transport, Relay, Lag, Receive, EndOfStream
<1>4. CASE TakeInState
  <2>1. CASE LunaTakeIn
    BY <2>1 DEF LunaTakeIn, TakeIn, TakenIn, LookedAt
  <2>2. CASE AdminTakeIn /\ UNCHANGED lunaVars
    BY <2>2 DEF AdminTakeIn, TakeIn, TakenIn, LookedAt
  <2> QED BY <1>4, <2>1, <2>2 DEF TakeInState
<1>5. CASE AdminNext /\ UNCHANGED lunaVars
  BY <1>5 DEF AdminNext, PushCommand, Forward, ForwardInVain, Deliver, CloseUplink, broadcastVars
<1>6. CASE BatchNext /\ UNCHANGED lunaVars
  BY <1>6 DEF BatchNext, BatchStart, BatchTick, BatchTruncate, BatchWrite, BatchEnd, broadcastVars
<1>7. CASE UNCHANGED vars
  BY <1>7 DEF vars, broadcastVars
<1> QED BY <1>1, <1>2, <1>3, <1>4, <1>5, <1>6, <1>7 DEF Next

\* A publication changes nothing of those before it.
LEMMA TickedKeeps ==
  ASSUME UnderWay, TracksInv, Ticked
  PROVE  TracksInv'
<1>1. PICK p \in PublicationType : log' = Append(log, p) /\ (user # "Luna" => p.contacts = {})
  BY DEF Ticked
<1>2. log \in Seq(PublicationType)
  BY DEF UnderWay
<1>3. /\ Len(log') = Len(log) + 1 /\ Len(log) \in Nat
      /\ \A k \in 1..Len(log) : log'[k] = log[k]
      /\ log'[Len(log) + 1] = p
  BY <1>1, <1>2
<1>4. user' = user /\ shown' = shown /\ got' = got /\ tracks' = tracks
  BY DEF Ticked
<1>5. \A k \in got : k \in 1..Len(log) /\ log'[k] = log[k]
  BY <1>3 DEF TracksInv, TakenInSoFar
<1>6. TakenInSoFar'
  BY <1>3, <1>4 DEF TracksInv, TakenInSoFar
<1>7. OnlyLunaTracks'
  <2>1. \A k \in 1..Len(log') : k \in 1..Len(log) \/ k = Len(log) + 1
    BY <1>3
  <2> QED BY <1>1, <1>3, <1>4, <2>1 DEF TracksInv, OnlyLunaTracks
<1>8. ASSUME NEW c \in Contact \ {Nobody} PROVE Tracked(c)'
  <2>1. Sightings(c)' = Sightings(c)
    BY <1>4, <1>5 DEF Sightings
  <2>2. \A m \in Nat : IsLast(c, m)' <=> IsLast(c, m)
    BY <2>1 DEF IsLast
  <2>3. \A m \in Nat : m \in got => (NotStale(m)' <=> NotStale(m)) /\ log'[m] = log[m]
    BY <1>4, <1>5 DEF NotStale
  <2>4. \A m \in Nat : IsLast(c, m) => m \in got
    BY DEF IsLast, Sightings
  <2>5. Tracked(c)
    BY DEF TracksInv
  <2> QED BY <1>4, <2>1, <2>2, <2>3, <2>4, <2>5 DEF Tracked
<1> QED BY <1>6, <1>7, <1>8 DEF TracksInv

\* A state with nothing in it that is taken in by another program.
LEMMA TakenInByOthers ==
  ASSUME UnderWay, TracksInv, TakenIn, LookedAt, user # "Luna"
  PROVE  TracksInv'
<1>1. user' = user /\ tracks' = tracks /\ log' = log
  BY DEF TakenIn, LookedAt
<1>2. shown < shown' /\ shown' \in 1..Len(log) /\ got' = got \cup {shown'} /\ shown \in Nat
  BY TakenInStep DEF TakenIn, UnderWay
<1>3. Len(log) \in Nat
  BY DEF UnderWay
<1>4. TakenInSoFar'
  BY <1>1, <1>2, <1>3 DEF TracksInv, TakenInSoFar
<1>5. OnlyLunaTracks'
  BY <1>1 DEF TracksInv, OnlyLunaTracks
<1>6. ASSUME NEW c \in Contact \ {Nobody} PROVE Tracked(c)'
  <2>1. Sightings(c)' = {}
    BY <1>1, <1>4, <1>5 DEF Sightings, TakenInSoFar, OnlyLunaTracks
  <2> QED BY <1>1, <2>1 DEF Tracked, IsLast, TracksInv, OnlyLunaTracks
<1> QED BY <1>4, <1>5, <1>6 DEF TracksInv

\* Contact by contact, a state that the Luna viewer takes in.
LEMMA TakenInByLuna ==
  ASSUME UnderWay, TracksInv, TakenIn, LookedAt, user = "Luna"
  PROVE  TracksInv'
<1>0. Head(inbox) \in Nat
  BY TakenInStep DEF TakenIn
<1>n. PICK n \in Nat : n = Head(inbox)
  BY <1>0
<1> DEFINE p == log[n]
           all == Sighted(p)
<1>1. user' = user /\ log' = log /\ tracks' = UpdatedTracks(p) /\ shown' = n
      /\ got' = got \cup {n}
  BY <1>n DEF TakenIn, LookedAt
<1>2. shown < n /\ n \in 1..Len(log) /\ shown \in Nat /\ Len(log) \in Nat
  BY <1>1, TakenInStep DEF UnderWay
<1>3. \A k \in 1..Len(log) : log[k] \in PublicationType
  BY <1>2 DEF UnderWay
<1>4. \A k \in 1..Len(log) : log[k].tick \in Nat /\ log[k].contacts \subseteq Contact
  BY <1>3 DEF PublicationType
<1>5. TakenInSoFar'
  BY <1>1, <1>2 DEF TracksInv, TakenInSoFar
<1>6. OnlyLunaTracks'
  BY <1>1 DEF OnlyLunaTracks
<1>7. Stale \in Nat
  BY LunaAssumption
<1>8. \A k \in got : k \in Nat /\ k < n /\ k \in 1..Len(log)
  BY <1>2 DEF TracksInv, TakenInSoFar
<1>9. ASSUME NEW c \in Contact \ {Nobody} PROVE Tracked(c)'
  <2>0. Tracked(c)
    BY DEF TracksInv
  <2>1. DOMAIN all = DOMAIN tracks \cup (p.contacts \ {Nobody})
    BY DEF Sighted
  <2>2. c \in DOMAIN all => all[c] = IF c \in p.contacts THEN p.tick ELSE tracks[c]
    BY DEF Sighted
  <2>3. tracks' = [d \in {d \in DOMAIN all : Elapsed(p.tick, all[d]) <= Stale} |-> all[d]]
    BY <1>1 DEF UpdatedTracks, Restrict
  <2> HIDE DEF all
  <2>4. /\ c \in DOMAIN tracks' <=> c \in DOMAIN all /\ Elapsed(p.tick, all[c]) <= Stale
        /\ c \in DOMAIN tracks' => tracks'[c] = all[c]
    BY <2>3
  <2>5. CASE c \in p.contacts
    <3>1. c \in DOMAIN all /\ all[c] = p.tick
      BY <2>1, <2>2, <2>5
    <3>2. Elapsed(p.tick, p.tick) = 0
      BY <1>2, <1>4 DEF Elapsed
    <3>3. c \in DOMAIN tracks' /\ tracks'[c] = p.tick
      BY <2>4, <3>1, <3>2, <1>7
    <3>4. n \in Sightings(c)' /\ \A k \in Sightings(c)' : k \in got \cup {n}
      BY <1>1, <2>5 DEF Sightings
    <3>5. IsLast(c, n)'
      BY <3>4, <1>8, <1>2 DEF IsLast
    <3>6. \A m \in Nat : IsLast(c, m)' => m = n
      <4> SUFFICES ASSUME NEW m \in Nat, IsLast(c, m)' PROVE m = n
        OBVIOUS
      <4>1. m \in got \cup {n} /\ n <= m
        BY <3>4 DEF IsLast
      <4> QED BY <4>1, <1>8, <1>2
    <3>7. NotStale(n)'
      BY <1>1, <1>8, <1>2 DEF NotStale
    <3> QED BY <1>1, <1>2, <3>3, <3>4, <3>5, <3>6, <3>7 DEF Tracked
  <2>6. CASE c \notin p.contacts
    <3>1. Sightings(c)' = Sightings(c)
      BY <1>1, <2>6 DEF Sightings
    <3>2. \A m \in Nat : IsLast(c, m)' <=> IsLast(c, m)
      BY <3>1 DEF IsLast
    <3>3. c \in DOMAIN all <=> c \in DOMAIN tracks
      BY <2>1, <2>6
    <3>4. c \in DOMAIN all => all[c] = tracks[c]
      BY <2>2, <2>6
    <3>5. ASSUME NEW m \in Nat, IsLast(c, m)
          PROVE  /\ c \in DOMAIN tracks' <=> NotStale(m)'
                 /\ c \in DOMAIN tracks' => tracks'[c] = log'[m].tick
      <4>1. m \in got /\ m < n /\ log[m].tick \in Nat /\ p.tick \in Nat
        BY <3>5, <1>8, <1>4, <1>2 DEF IsLast, Sightings
      <4>2. /\ c \in DOMAIN tracks <=> NotStale(m)
            /\ c \in DOMAIN tracks => tracks[c] = log[m].tick
        BY <2>0, <3>5 DEF Tracked
      <4>3. Elapsed(p.tick, log[m].tick) <= Stale <=> p.tick <= log[m].tick + Stale
        BY <4>1, <1>7 DEF Elapsed
      <4>4. NotStale(m)' <=> NotStale(m) /\ p.tick <= log[m].tick + Stale
        BY <1>1, <4>1 DEF NotStale
      <4>5. c \in DOMAIN tracks' <=> NotStale(m)'
        BY <2>4, <3>3, <3>4, <4>2, <4>3, <4>4
      <4>6. c \in DOMAIN tracks' => tracks'[c] = log'[m].tick
        BY <1>1, <2>4, <3>3, <3>4, <4>2
      <4> QED BY <4>5, <4>6
    <3>6. Sightings(c)' = {} => c \notin DOMAIN tracks'
      BY <2>0, <2>4, <3>1, <3>3 DEF Tracked
    <3>7. Sightings(c)' # {} => \E m \in Nat : IsLast(c, m)'
      BY <2>0, <3>1, <3>2 DEF Tracked
    <3> QED BY <3>2, <3>5, <3>6, <3>7 DEF Tracked
  <2> QED BY <2>5, <2>6
<1> QED BY <1>5, <1>6, <1>9 DEF TracksInv

LEMMA TracksInvStep == TickType /\ UnderWay /\ TracksInv /\ [Next]_vars => TracksInv'
<1> SUFFICES ASSUME TickType, UnderWay, TracksInv, [Next]_vars PROVE TracksInv'
  OBVIOUS
<1>1. CASE Ticked
  BY <1>1, TickedKeeps
<1>2. CASE TakenIn /\ LookedAt
  BY <1>2, TakenInByOthers, TakenInByLuna
<1>3. CASE UNCHANGED <<user, log, shown, got, tracks>>
  BY <1>3 DEF TracksInv, TakenInSoFar, OnlyLunaTracks, Tracked, IsLast, NotStale, Sightings
<1> QED BY <1>1, <1>2, <1>3, StepsOfTheTracks

LEMMA TracksInvAlways == Spec => []TracksInv
BY TracksInvInit, TracksInvStep, TickTypeAlways, UnderWayAlways, PTL DEF Spec

\* The tracks of the Luna viewer are what it last saw of every contact, through
\* every order of ticks, crashes and new starts of the engine, whose ticks begin
\* again, and of lost connections (TrackStore::update).
THEOREM TracksAreTrue == Spec => []TracksFollowSightings
BY TracksInvAlways, TracksInvImplies, PTL

(***************************************************************************)
(* The market feed of the Luna viewer                                      *)
(***************************************************************************)

\* Indices of a sequence, any of them.
Indices(s) == \E n \in Nat : s \subseteq 1..n

LEMMA FewIndices ==
  ASSUME NEW s, Indices(s)
  PROVE  /\ IsFiniteSet(s)
         /\ \A t \in SUBSET s : Indices(t)
<1>1. PICK n \in Nat : s \subseteq 1..n
  BY DEF Indices
<1>2. PICK S : S = 1..n
  OBVIOUS
<1>3. IsFiniteSet(S) /\ s \in SUBSET S
  BY <1>1, <1>2, FS_Interval
<1>4. IsFiniteSet(s)
  BY <1>3, FS_Subset
<1>5. \A t \in SUBSET s : t \subseteq 1..n
  BY <1>1
<1> QED BY <1>4, <1>5 DEF Indices

LEMMA MaxIn ==
  ASSUME NEW s, Indices(s), s # {}
  PROVE  Max(s) \in s /\ \A y \in s : Max(s) >= y
<1>1. PICK n \in Nat : s \subseteq 1..n
  BY DEF Indices
<1>2. s \subseteq 0..n
  BY <1>1
<1>3. \E x \in s : \A y \in s : x >= y
  BY <1>2, GreatestNumber
<1> QED BY <1>3 DEF Max

\* g takes in the messages whose indices are in a subset of S, by ascending index.
TakesNews(base, news, S, g) ==
  g = [s \in SUBSET S |-> IF s = {} THEN base ELSE Pushed(g[s \ {Max(s)}], news[Max(s)])]

LEMMA FeedIsFold ==
  ASSUME NEW base, NEW news
  PROVE  FoldLeft(Pushed, base, news)
           = (CHOOSE g : TakesNews(base, news, DOMAIN news, g))[DOMAIN news]
BY DEF FoldLeft, MapThenFoldSet, TakesNews

LEMMA FeedsAgree ==
  ASSUME NEW base, NEW news, NEW S, NEW T, NEW g, NEW h, Indices(S),
         TakesNews(base, news, S, g), TakesNews(base, news, T, h)
  PROVE  \A s \in (SUBSET S) \cap (SUBSET T) : g[s] = h[s]
<1> DEFINE bad == {s \in (SUBSET S) \cap (SUBSET T) : g[s] # h[s]}
<1>1. SUFFICES ASSUME bad # {} PROVE FALSE
  OBVIOUS
<1>2. PICK s \in bad : \A y \in bad : y \subseteq s => y = s
  <2>1. bad \subseteq SUBSET S
    OBVIOUS
  <2>2. IsFiniteSet(S)
    BY FewIndices
  <2> HIDE DEF bad
  <2> QED BY <1>1, <2>1, <2>2, LeastSubset
<1>3. /\ g[s] = IF s = {} THEN base ELSE Pushed(g[s \ {Max(s)}], news[Max(s)])
      /\ h[s] = IF s = {} THEN base ELSE Pushed(h[s \ {Max(s)}], news[Max(s)])
  <2>1. s \in SUBSET S /\ s \in SUBSET T
    OBVIOUS
  <2>2. \A k : TakesNews(base, news, S, k) =>
          k[s] = IF s = {} THEN base ELSE Pushed(k[s \ {Max(s)}], news[Max(s)])
    BY <2>1 DEF TakesNews
  <2>3. \A k : TakesNews(base, news, T, k) =>
          k[s] = IF s = {} THEN base ELSE Pushed(k[s \ {Max(s)}], news[Max(s)])
    BY <2>1 DEF TakesNews
  <2> QED BY <2>2, <2>3
<1>4. s # {}
  BY <1>3
<1>5. Max(s) \in s
  BY <1>4, FewIndices, MaxIn
<1>6. s \ {Max(s)} \notin bad
  BY <1>2, <1>5
<1>7. g[s \ {Max(s)}] = h[s \ {Max(s)}]
  BY <1>6
<1> QED BY <1>3, <1>4, <1>7

LEMMA FeedExists ==
  ASSUME NEW base, NEW news, NEW S, Indices(S)
  PROVE  \E g : TakesNews(base, news, S, g)
<1> DEFINE bad == {s \in SUBSET S : ~ \E g : TakesNews(base, news, s, g)}
<1>1. SUFFICES ASSUME bad # {} PROVE FALSE
  OBVIOUS
<1>2. PICK s \in bad : \A y \in bad : y \subseteq s => y = s
  <2>1. bad \subseteq SUBSET S
    OBVIOUS
  <2>2. IsFiniteSet(S)
    BY FewIndices
  <2> HIDE DEF bad
  <2> QED BY <1>1, <2>1, <2>2, LeastSubset
<1>3. \A y \in SUBSET s : y # s => \E g : TakesNews(base, news, y, g)
  BY <1>2
<1>m. \A y \in SUBSET s : y # {} => Max(y) \in y
  BY FewIndices, MaxIn
<1> DEFINE part(y) == (CHOOSE g : TakesNews(base, news, y, g))[y]
           whole == [y \in SUBSET s |->
                       IF y = {} THEN base ELSE Pushed(part(y \ {Max(y)}), news[Max(y)])]
<1>4. \A y \in SUBSET s : y # s => TakesNews(base, news, y, CHOOSE g : TakesNews(base, news, y, g))
  BY <1>3
<1>5. ASSUME NEW y \in SUBSET s, y # s
      PROVE  part(y) = IF y = {} THEN base ELSE Pushed(part(y \ {Max(y)}), news[Max(y)])
  <2> DEFINE g == CHOOSE k : TakesNews(base, news, y, k)
  <2>1. TakesNews(base, news, y, g)
    BY <1>4, <1>5
  <2>2. g[y] = IF y = {} THEN base ELSE Pushed(g[y \ {Max(y)}], news[Max(y)])
    <3> HIDE DEF g
    <3> QED BY <2>1 DEF TakesNews
  <2>3. CASE y = {}
    BY <2>2, <2>3
  <2>4. CASE y # {}
    <3> DEFINE z == y \ {Max(y)}
               h == CHOOSE k : TakesNews(base, news, z, k)
    <3>1. z \in SUBSET s /\ z # s /\ z \in SUBSET y
      BY <2>4, <1>m
    <3>2. TakesNews(base, news, z, h)
      BY <1>4, <3>1
    <3>3. Indices(y)
      BY FewIndices
    <3>4. g[z] = h[z]
      <4> HIDE DEF g, h, z
      <4>1. z \in (SUBSET y) \cap (SUBSET z)
        BY <3>1
      <4> QED BY <4>1, <2>1, <3>2, <3>3, FeedsAgree
    <3> QED BY <2>2, <2>4, <3>4
  <2> QED BY <2>3, <2>4
<1>6. TakesNews(base, news, s, whole)
  <2> HIDE DEF part
  <2>1. \A y \in SUBSET s : y # {} => y \ {Max(y)} \in SUBSET s /\ y \ {Max(y)} # s
    BY <1>m
  <2>2. \A y \in SUBSET s : y # s => whole[y] = part(y)
    BY <1>5
  <2>3. \A y \in SUBSET s : y # {} => whole[y \ {Max(y)}] = part(y \ {Max(y)})
    BY <2>1, <2>2
  <2>4. whole = [y \in SUBSET s |->
                   IF y = {} THEN base ELSE Pushed(whole[y \ {Max(y)}], news[Max(y)])]
    <3> DEFINE again == [y \in SUBSET s |->
                           IF y = {} THEN base ELSE Pushed(whole[y \ {Max(y)}], news[Max(y)])]
    <3>1. \A y \in SUBSET s : whole[y] = again[y]
      <4>1. ASSUME NEW y \in SUBSET s PROVE whole[y] = again[y]
        <5>1. whole[y] = IF y = {} THEN base ELSE Pushed(part(y \ {Max(y)}), news[Max(y)])
          OBVIOUS
        <5>2. again[y] = IF y = {} THEN base ELSE Pushed(whole[y \ {Max(y)}], news[Max(y)])
          OBVIOUS
        <5> HIDE DEF whole, again
        <5> QED BY <2>3, <5>1, <5>2
      <4> HIDE DEF whole, again
      <4> QED BY <4>1
    <3> QED BY <3>1
  <2> HIDE DEF whole
  <2> QED BY <2>4 DEF TakesNews
<1> QED BY <1>2, <1>6

\* The feed after each of the messages of a tick, one after the other.
LEMMA NewsOneByOne ==
  ASSUME NEW base, NEW S, NEW news \in Seq(S)
  PROVE  \E G : /\ G[0] = base
                /\ \A i \in 1..Len(news) : G[i] = Pushed(G[i - 1], news[i])
                /\ G[Len(news)] = FoldLeft(Pushed, base, news)
<1> DEFINE n == Len(news)
           g == CHOOSE k : TakesNews(base, news, 1..n, k)
           G == [i \in 0..n |-> g[1..i]]
<1>0. n \in Nat /\ DOMAIN news = 1..n
  OBVIOUS
<1> HIDE DEF n
<1>i. \A s \in SUBSET (1..n) : Indices(s)
  BY <1>0 DEF Indices
<1>1. TakesNews(base, news, 1..n, g)
  BY <1>i, FeedExists
<1>2. FoldLeft(Pushed, base, news) = g[1..n]
  BY <1>0, FeedIsFold
<1> HIDE DEF g
<1>3. g[{}] = base
  BY <1>1 DEF TakesNews
<1>4. ASSUME NEW i \in 1..n PROVE g[1..i] = Pushed(g[1..(i - 1)], news[i])
  <2>1. 1..i \in SUBSET (1..n) /\ 1..i # {}
    BY <1>0
  <2>2. g[1..i] = Pushed(g[(1..i) \ {Max(1..i)}], news[Max(1..i)])
    <3>1. \A s \in SUBSET (1..n) : s # {} => g[s] = Pushed(g[s \ {Max(s)}], news[Max(s)])
      BY <1>1 DEF TakesNews
    <3> QED BY <2>1, <3>1
  <2>3. Max(1..i) \in 1..i /\ Max(1..i) >= i
    <3>1. \A s : s \subseteq 1..n /\ s # {} => Max(s) \in s /\ \A y \in s : Max(s) >= y
      BY <1>i, MaxIn
    <3>2. i \in 1..i
      BY <1>0
    <3> QED BY <2>1, <3>1, <3>2
  <2>4. Max(1..i) = i
    BY <1>0, <2>3
  <2>5. (1..i) \ {i} = 1..(i - 1)
    BY <1>0
  <2> QED BY <2>2, <2>4, <2>5
<1>5. G[0] = base /\ G[n] = g[1..n]
  <2>1. 1..0 = {}
    OBVIOUS
  <2> QED BY <1>0, <1>3, <2>1
<1>6. \A i \in 1..n : G[i] = Pushed(G[i - 1], news[i])
  <2> SUFFICES ASSUME NEW i \in 1..n PROVE G[i] = Pushed(G[i - 1], news[i])
    OBVIOUS
  <2>1. i \in 0..n /\ i - 1 \in 0..n
    BY <1>0
  <2>2. G[i] = g[1..i] /\ G[i - 1] = g[1..(i - 1)]
    BY <2>1
  <2> QED BY <1>4, <2>2
<1> HIDE DEF G
<1> QED BY <1>2, <1>5, <1>6 DEF n

\* No message twice, one like a message that is there, and the message itself.
Distinct(entries) == \A i, j \in DOMAIN entries : SameNotice(entries[i], entries[j]) => i = j
Has(entries, m) == \E i \in DOMAIN entries : SameNotice(entries[i], m)
Shows(entries, m) == \E i \in DOMAIN entries : entries[i] = m

\* A message put in front, place by place.
LEMMA InFront ==
  ASSUME NEW S, NEW s \in Seq(S), NEW e \in S
  PROVE  /\ <<e>> \o s \in Seq(S) /\ DOMAIN (<<e>> \o s) = 1..Len(s) + 1
         /\ DOMAIN s = 1..Len(s) /\ Len(s) \in Nat /\ Len(<<e>> \o s) = Len(s) + 1
         /\ (<<e>> \o s)[1] = e
         /\ \A i \in DOMAIN s : (<<e>> \o s)[i + 1] = s[i]
OBVIOUS

LEMMA PushedKeeps ==
  ASSUME NEW S, NEW entries \in Seq(S), NEW m \in S, Distinct(entries)
  PROVE  /\ Pushed(entries, m) \in Seq(S) /\ Distinct(Pushed(entries, m))
         /\ Len(Pushed(entries, m)) >= Len(entries)
         /\ Has(Pushed(entries, m), m)
         /\ \A x : Has(entries, x) => Has(Pushed(entries, m), x)
         /\ \A x : Shows(Pushed(entries, m), x) => Shows(entries, x) \/ x = m
<1>1. CASE Has(entries, m)
  <2>1. Pushed(entries, m) = entries
    BY <1>1 DEF Pushed, Has
  <2> QED BY <1>1, <2>1
<1>2. CASE ~ Has(entries, m)
  <2> DEFINE more == <<m>> \o entries
  <2>1. Pushed(entries, m) = more
    BY <1>2 DEF Pushed, Has
  <2>2. /\ more \in Seq(S) /\ DOMAIN more = 1..Len(entries) + 1
        /\ DOMAIN entries = 1..Len(entries) /\ Len(entries) \in Nat
        /\ Len(more) = Len(entries) + 1
        /\ more[1] = m
        /\ \A i \in DOMAIN entries : more[i + 1] = entries[i]
    BY InFront
  <2> HIDE DEF more
  <2>3. \A i \in DOMAIN more : i = 1 \/ (i - 1 \in DOMAIN entries /\ more[i] = entries[i - 1])
    <3> SUFFICES ASSUME NEW i \in DOMAIN more, i # 1
                 PROVE  i - 1 \in DOMAIN entries /\ more[i] = entries[i - 1]
      OBVIOUS
    <3>1. i - 1 \in DOMAIN entries /\ (i - 1) + 1 = i
      BY <2>2
    <3> QED BY <2>2, <3>1
  <2>4. \A i \in DOMAIN entries : ~ SameNotice(entries[i], m) /\ ~ SameNotice(m, entries[i])
    BY <1>2 DEF Has, SameNotice, SameStationAndTick
  <2>5. Distinct(more)
    <3> SUFFICES ASSUME NEW i \in DOMAIN more, NEW j \in DOMAIN more,
                        SameNotice(more[i], more[j])
                 PROVE  i = j
      BY DEF Distinct
    <3>1. CASE i = 1
      BY <2>2, <2>3, <2>4, <3>1
    <3>2. CASE j = 1
      BY <2>2, <2>3, <2>4, <3>2
    <3>3. CASE i # 1 /\ j # 1
      <4>1. i - 1 \in DOMAIN entries /\ j - 1 \in DOMAIN entries
            /\ SameNotice(entries[i - 1], entries[j - 1])
        BY <2>3, <3>3
      <4>2. i - 1 = j - 1
        BY <4>1 DEF Distinct
      <4> QED BY <2>2, <4>2
    <3> QED BY <3>1, <3>2, <3>3
  <2>6. Has(more, m)
    <3>1. 1 \in DOMAIN more /\ SameNotice(more[1], m)
      BY <2>2 DEF SameNotice, SameStationAndTick
    <3> QED BY <3>1 DEF Has
  <2>7. ASSUME NEW x, Has(entries, x) PROVE Has(more, x)
    <3>1. PICK i \in DOMAIN entries : SameNotice(entries[i], x)
      BY <2>7 DEF Has
    <3>2. i + 1 \in DOMAIN more /\ more[i + 1] = entries[i]
      BY <2>2
    <3> QED BY <3>1, <3>2 DEF Has
  <2>8. ASSUME NEW x, Shows(more, x) PROVE Shows(entries, x) \/ x = m
    <3>1. PICK i \in DOMAIN more : more[i] = x
      BY <2>8 DEF Shows
    <3> QED BY <2>2, <2>3, <3>1 DEF Shows
  <2> QED BY <2>1, <2>2, <2>5, <2>6, <2>7, <2>8
<1> QED BY <1>1, <1>2

\* All messages of a tick, before the feed is cut to its limit.
LEMMA NewsKept ==
  ASSUME NEW S, NEW entries \in Seq(S), NEW news \in Seq(S), Distinct(entries)
  PROVE  LET all == FoldLeft(Pushed, entries, news)
         IN  /\ all \in Seq(S) /\ Distinct(all) /\ Len(all) >= Len(entries)
             /\ \A x : Has(entries, x) => Has(all, x)
             /\ \A k \in DOMAIN news : Has(all, news[k])
             /\ \A x : Shows(all, x) => Shows(entries, x) \/ Shows(news, x)
<1>1. PICK G : /\ G[0] = entries
               /\ \A i \in 1..Len(news) : G[i] = Pushed(G[i - 1], news[i])
               /\ G[Len(news)] = FoldLeft(Pushed, entries, news)
  BY NewsOneByOne
<1> DEFINE n == Len(news)
           good(i) == /\ G[i] \in Seq(S) /\ Distinct(G[i]) /\ Len(G[i]) >= Len(entries)
                      /\ \A x : Has(entries, x) => Has(G[i], x)
                      /\ \A k \in 1..i : Has(G[i], news[k])
                      /\ \A x : Shows(G[i], x) => Shows(entries, x) \/ Shows(news, x)
           bad == {i \in 0..n : ~ good(i)}
<1>0. n \in Nat /\ DOMAIN news = 1..n /\ Len(entries) \in Nat
  OBVIOUS
<1>2. ASSUME bad # {} PROVE FALSE
  <2>1. PICK i \in bad : \A j \in bad : i <= j
    <3>1. bad \subseteq 0..n
      OBVIOUS
    <3> HIDE DEF bad, n
    <3> QED BY <1>0, <1>2, <3>1, LeastNumber
  <2>2. good(0)
    BY <1>1
  <2>3. i # 0 /\ i \in 1..n /\ i - 1 \in 0..n
    BY <2>2, <1>0
  <2>4. good(i - 1)
    <3>1. i - 1 \notin bad
      BY <2>1, <2>3
    <3> QED BY <2>3, <3>1
  <2>5. G[i] = Pushed(G[i - 1], news[i]) /\ news[i] \in S
    BY <1>1, <2>3
  <2>6. PICK f, m : f = G[i - 1] /\ m = news[i]
    OBVIOUS
  <2>7. f \in Seq(S) /\ m \in S /\ Distinct(f) /\ G[i] = Pushed(f, m) /\ Len(f) >= Len(entries)
        /\ Len(f) \in Nat
    BY <2>4, <2>5, <2>6
  <2>8. /\ G[i] \in Seq(S) /\ Distinct(G[i]) /\ Len(G[i]) >= Len(f) /\ Len(G[i]) \in Nat
        /\ Has(G[i], m)
        /\ \A x : Has(f, x) => Has(G[i], x)
        /\ \A x : Shows(G[i], x) => Shows(f, x) \/ x = m
    BY <2>7, PushedKeeps
  <2>9. \A k \in 1..i : k \in 1..(i - 1) \/ k = i
    BY <2>3, <1>0
  <2>10. \A x : Has(entries, x) => Has(G[i], x)
    BY <2>4, <2>6, <2>8
  <2>11. \A k \in 1..i : Has(G[i], news[k])
    BY <2>4, <2>6, <2>8, <2>9
  <2>12. Len(G[i]) >= Len(entries)
    BY <1>0, <2>7, <2>8
  <2>13. \A x : Shows(G[i], x) => Shows(entries, x) \/ Shows(news, x)
    <3>1. Shows(news, m)
      BY <1>0, <2>3, <2>6 DEF Shows
    <3> QED BY <2>4, <2>6, <2>8, <3>1
  <2>14. good(i)
    BY <2>8, <2>10, <2>11, <2>12, <2>13
  <2> QED BY <2>14
<1>3. good(n)
  <2>1. n \in 0..n
    BY <1>0
  <2> HIDE DEF good
  <2> QED BY <1>2, <2>1
<1>4. PICK all : all = FoldLeft(Pushed, entries, news)
  OBVIOUS
<1>5. /\ all \in Seq(S) /\ Distinct(all) /\ Len(all) >= Len(entries)
      /\ \A x : Has(entries, x) => Has(all, x)
      /\ \A k \in 1..n : Has(all, news[k])
      /\ \A x : Shows(all, x) => Shows(entries, x) \/ Shows(news, x)
  <2>1. all = G[n]
    BY <1>1, <1>4
  <2> HIDE DEF n
  <2> QED BY <1>3, <2>1, Zenon
<1>6. \A k \in DOMAIN news : Has(all, news[k])
  BY <1>0, <1>5
<1> HIDE DEF n
<1> QED BY <1>4, <1>5, <1>6, Zenon

\* The feed holds no message twice, keeps to its limit and shows what was heard;
\* below the limit it holds one like all of that.  Only the Luna viewer is sent
\* messages.
Heard(entries, seen) ==
  \A n \in seen : \A k \in DOMAIN log[n].news : Has(entries, log[n].news[k])

WasHeard(entries, seen) ==
  \A x : Shows(entries, x) => \E n \in seen : Shows(log[n].news, x)

OnlyLunaNews == user # "Luna" => \A n \in 1..Len(log) : log[n].news = <<>>

FeedInv ==
  /\ feed \in Seq(Message) /\ Distinct(feed) /\ Len(feed) <= FeedCap
  /\ Len(feed) < FeedCap => Heard(feed, got)
  /\ WasHeard(feed, got)
  /\ OnlyLunaNews

LEMMA FeedInvInit == Init => FeedInv
<1> SUFFICES ASSUME Init PROVE FeedInv
  OBVIOUS
<1>1. feed = <<>> /\ got = {} /\ log = <<>>
  BY DEF Init, BroadcastInit, LunaInit
<1>2. WasHeard(feed, got)
  <2>1. DOMAIN feed = {}
    BY <1>1
  <2> QED BY <2>1 DEF WasHeard, Shows
<1> QED BY <1>1, <1>2, LunaAssumption DEF FeedInv, Distinct, Heard, OnlyLunaNews

\* Every step of the system is one of these for the feed.
Sent ==
  /\ \E p \in PublicationType : log' = Append(log, p) /\ (user # "Luna" => p.news = <<>>)
  /\ UNCHANGED <<user, got, feed>>
ReadOut ==
  /\ user' = user
  /\ IF user = "Luna" THEN feed' = UpdatedFeed(log[Head(inbox)]) ELSE feed' = feed

LEMMA StepsOfTheFeed ==
  ASSUME TickType, [Next]_vars
  PROVE  Sent \/ (TakenIn /\ ReadOut) \/ UNCHANGED <<user, log, got, feed>>
<1> USE DEF link, process, screen, lunaVars
<1>1. CASE Process
  <2>1. CASE /\ \E fromFile \in BOOLEAN : Serve(fromFile)
             /\ UNCHANGED <<batchVars, lunaVars, adminVars>>
    BY <2>1 DEF Serve
  <2>2. ASSUME NEW seen \in Outcomes, FlyTick(seen), UNCHANGED <<batchVars, lunaVars>>
        PROVE  Sent
    <3> DEFINE p == [tick |-> tick + 1, contacts |-> seen.contacts, news |-> seen.news]
    <3>1. log' = Append(log, p) /\ UNCHANGED <<user, got, feed>>
      BY <2>2 DEF FlyTick, Publish
    <3>2. p \in PublicationType
      BY OutcomesAreTicks DEF PublicationType, TickType
    <3>3. user # "Luna" => p.news = <<>>
      BY DEF Outcomes, Nothing
    <3> QED BY <3>1, <3>2, <3>3 DEF Sent
  <2>3. CASE AdminCrash /\ UNCHANGED <<batchVars, lunaVars>>
    BY <2>3 DEF AdminCrash, Crash
  <2> QED BY <1>1, <2>1, <2>2, <2>3 DEF Process
<1>2. CASE Connection
  BY <1>2 DEF Connection, AdminConnect, Connect, Break
<1>3. CASE Transport
  BY <1>3 DEF Transport, Relay, Lag, Receive, EndOfStream
<1>4. CASE TakeInState
  <2>1. CASE LunaTakeIn
    BY <2>1 DEF LunaTakeIn, TakeIn, TakenIn, ReadOut
  <2>2. CASE AdminTakeIn /\ UNCHANGED lunaVars
    BY <2>2 DEF AdminTakeIn, TakeIn, TakenIn, ReadOut
  <2> QED BY <1>4, <2>1, <2>2 DEF TakeInState
<1>5. CASE AdminNext /\ UNCHANGED lunaVars
  BY <1>5 DEF AdminNext, PushCommand, Forward, ForwardInVain, Deliver, CloseUplink, broadcastVars
<1>6. CASE BatchNext /\ UNCHANGED lunaVars
  BY <1>6 DEF BatchNext, BatchStart, BatchTick, BatchTruncate, BatchWrite, BatchEnd, broadcastVars
<1>7. CASE UNCHANGED vars
  BY <1>7 DEF vars, broadcastVars
<1> QED BY <1>1, <1>2, <1>3, <1>4, <1>5, <1>6, <1>7 DEF Next

LEMMA SentStep == UnderWay /\ TakenInSoFar /\ FeedInv /\ Sent => FeedInv'
<1> SUFFICES ASSUME UnderWay, TakenInSoFar, FeedInv, Sent PROVE FeedInv'
  OBVIOUS
<1>1. PICK p \in PublicationType : log' = Append(log, p) /\ (user # "Luna" => p.news = <<>>)
  BY DEF Sent
<1>2. log \in Seq(PublicationType)
  BY DEF UnderWay
<1>3. /\ Len(log') = Len(log) + 1 /\ Len(log) \in Nat
      /\ \A k \in 1..Len(log) : log'[k] = log[k]
      /\ log'[Len(log) + 1] = p
  BY <1>1, <1>2
<1>4. user' = user /\ got' = got /\ feed' = feed
  BY DEF Sent
<1>5. \A k \in got : log'[k] = log[k]
  BY <1>3 DEF TakenInSoFar
<1>6. Heard(feed, got)' <=> Heard(feed, got)
  BY <1>4, <1>5 DEF Heard
<1>8. WasHeard(feed, got)' <=> WasHeard(feed, got)
  BY <1>4, <1>5 DEF WasHeard, Shows
<1>7. OnlyLunaNews'
  <2>1. \A k \in 1..Len(log') : k \in 1..Len(log) \/ k = Len(log) + 1
    BY <1>3
  <2> QED BY <1>1, <1>3, <1>4, <2>1 DEF FeedInv, OnlyLunaNews
<1> QED BY <1>4, <1>6, <1>7, <1>8 DEF FeedInv

LEMMA ReadOutStep == UnderWay /\ FeedInv /\ TakenIn /\ ReadOut => FeedInv'
<1> SUFFICES ASSUME UnderWay, FeedInv, TakenIn, ReadOut PROVE FeedInv'
  OBVIOUS
<1>1. user' = user /\ log' = log /\ got' = got \cup {shown'} /\ shown' = Head(inbox)
  BY DEF TakenIn, ReadOut
<1>2. shown' \in 1..Len(log)
  BY TakenInStep
<1>3. PICK n : n = shown'
  OBVIOUS
<1>4. log[n] \in PublicationType /\ log[n].news \in Seq(Message)
  <2>1. log[n] \in PublicationType
    BY <1>2, <1>3 DEF UnderWay
  <2> QED BY <2>1 DEF PublicationType
<1>5. OnlyLunaNews'
  BY <1>1 DEF FeedInv, OnlyLunaNews
<1>6. CASE user # "Luna"
  <2>1. feed' = feed
    BY <1>6 DEF ReadOut
  <2>2. log[n].news = <<>>
    BY <1>2, <1>3, <1>6 DEF FeedInv, OnlyLunaNews
  <2>3. Heard(feed, got)' <=> Heard(feed, got)
    BY <1>1, <1>3, <2>1, <2>2 DEF Heard
  <2>4. WasHeard(feed, got) => WasHeard(feed, got)'
    BY <1>1, <2>1 DEF WasHeard, Shows
  <2> QED BY <1>5, <2>1, <2>3, <2>4 DEF FeedInv
<1>7. CASE user = "Luna"
  <2> DEFINE all == FoldLeft(Pushed, feed, log[n].news)
  <2>1. feed' = SubSeq(all, 1, IF Len(all) > FeedCap THEN FeedCap ELSE Len(all))
    BY <1>1, <1>3, <1>7 DEF ReadOut, UpdatedFeed
  <2>2. feed \in Seq(Message) /\ Distinct(feed) /\ FeedCap \in Nat
    BY LunaAssumption DEF FeedInv
  <2>3. /\ all \in Seq(Message) /\ Distinct(all) /\ Len(all) >= Len(feed)
        /\ \A x : Has(feed, x) => Has(all, x)
        /\ \A k \in DOMAIN log[n].news : Has(all, log[n].news[k])
        /\ \A x : Shows(all, x) => Shows(feed, x) \/ Shows(log[n].news, x)
    BY <1>4, <2>2, NewsKept
  <2>4. PICK a : a = all
    OBVIOUS
  <2> HIDE DEF all
  <2>5. a \in Seq(Message) /\ Len(a) \in Nat /\ Len(feed) \in Nat /\ DOMAIN a = 1..Len(a)
    BY <2>2, <2>3, <2>4
  <2>6. /\ feed' \in Seq(Message) /\ DOMAIN feed' = 1..Len(feed') /\ Len(feed') \in Nat
        /\ Len(feed') = IF Len(a) > FeedCap THEN FeedCap ELSE Len(a)
        /\ \A i \in DOMAIN feed' : i \in DOMAIN a /\ feed'[i] = a[i]
    BY <2>1, <2>2, <2>4, <2>5
  <2>7. Distinct(feed')
    BY <2>3, <2>4, <2>6 DEF Distinct
  <2>8. Len(feed') <= FeedCap
    BY <2>2, <2>5, <2>6
  <2>9. ASSUME Len(feed') < FeedCap PROVE Heard(feed, got)'
    <3>1. Len(a) < FeedCap /\ Len(feed') = Len(a) /\ Len(feed) < FeedCap
      <4>1. Len(a) >= Len(feed)
        BY <2>3, <2>4
      <4>2. FeedCap \in Nat /\ Len(a) \in Nat /\ Len(feed) \in Nat
        BY <2>2, <2>5
      <4>3. Len(feed') = (IF Len(a) > FeedCap THEN FeedCap ELSE Len(a)) /\ Len(feed') \in Nat
        BY <2>6
      <4> QED BY <2>9, <4>1, <4>2, <4>3
    <3>2. DOMAIN feed' = DOMAIN a
      BY <2>5, <2>6, <3>1
    <3>3. \A x : Has(a, x) => Has(feed', x)
      BY <2>6, <3>2 DEF Has
    <3>4. Heard(feed, got)
      BY <3>1 DEF FeedInv
    <3>5. \A m \in got \cup {n} : \A k \in DOMAIN log[m].news : Has(feed', log[m].news[k])
      <4>1. \A m \in got : \A k \in DOMAIN log[m].news : Has(feed, log[m].news[k])
        BY <3>4 DEF Heard
      <4>2. \A x : Has(feed, x) => Has(a, x)
        BY <2>3, <2>4
      <4>3. \A k \in DOMAIN log[n].news : Has(a, log[n].news[k])
        BY <2>3, <2>4
      <4> QED BY <3>3, <4>1, <4>2, <4>3
    <3> QED BY <1>1, <1>3, <3>5 DEF Heard
  <2>10. WasHeard(feed, got)'
    <3>1. ASSUME NEW x, Shows(feed', x) PROVE \E m \in got \cup {n} : Shows(log[m].news, x)
      <4>1. Shows(a, x)
        BY <2>6, <3>1 DEF Shows
      <4>2. Shows(feed, x) \/ Shows(log[n].news, x)
        BY <2>3, <2>4, <4>1
      <4> QED BY <4>2 DEF FeedInv, WasHeard
    <3>2. ASSUME NEW m, NEW x PROVE Shows(log[m].news, x)' <=> Shows(log[m].news, x)
      BY <1>1 DEF Shows
    <3>3. ASSUME NEW x PROVE Shows(feed, x)' <=> Shows(feed', x)
      BY DEF Shows
    <3> QED BY <1>1, <1>3, <3>1 DEF WasHeard, Shows
  <2> QED BY <1>5, <2>6, <2>7, <2>8, <2>9, <2>10 DEF FeedInv
<1> QED BY <1>6, <1>7

LEMMA FeedInvStep == TickType /\ UnderWay /\ TracksInv /\ FeedInv /\ [Next]_vars => FeedInv'
<1> SUFFICES ASSUME TickType, UnderWay, TracksInv, FeedInv, [Next]_vars PROVE FeedInv'
  OBVIOUS
<1>1. CASE Sent
  BY <1>1, SentStep DEF TracksInv
<1>2. CASE TakenIn /\ ReadOut
  BY <1>2, ReadOutStep
<1>3. CASE UNCHANGED <<user, log, got, feed>>
  BY <1>3 DEF FeedInv, Heard, WasHeard, Shows, OnlyLunaNews
<1> QED BY <1>1, <1>2, <1>3, StepsOfTheFeed

\* The market feed never grows past its limit and shows only what the viewer
\* heard, one message at most of a station, tick and material; below the limit
\* no station, tick and material that was heard is missing from it, for every
\* limit and however many messages come in one tick (update_market_feed, which
\* drops the later of two messages that differ in kind or price alone).
THEOREM FeedIsComplete == Spec => []FeedComplete
<1>1. UnderWay /\ TracksInv /\ FeedInv => FeedComplete
  <2> SUFFICES ASSUME UnderWay, TracksInv, FeedInv PROVE FeedComplete
    OBVIOUS
  <2>1. ASSUME Len(feed) < FeedCap, NEW n \in got, NEW m \in Range(log[n].news)
        PROVE  \E i \in DOMAIN feed :
                 <<feed[i].at, feed[i].station, feed[i].material>> = <<m.at, m.station, m.material>>
    <3>1. PICK k \in DOMAIN log[n].news : m = log[n].news[k]
      BY DEF Range
    <3>2. Has(feed, m)
      BY <2>1, <3>1 DEF FeedInv, Heard
    <3> QED BY <3>2 DEF Has, SameNotice, SameStationAndTick
  <2>2. ASSUME NEW i \in DOMAIN feed PROVE \E n \in got : feed[i] \in Range(log[n].news)
    <3>1. Shows(feed, feed[i])
      BY DEF Shows
    <3>2. PICK n \in got : Shows(log[n].news, feed[i])
      BY <3>1 DEF FeedInv, WasHeard
    <3> QED BY <3>2 DEF Shows, Range
  <2> QED BY <2>1, <2>2 DEF FeedComplete, FeedInv, Distinct
<1> QED BY <1>1, FeedInvInit, FeedInvStep, TickTypeAlways, UnderWayAlways, TracksInvAlways, PTL DEF Spec

(***************************************************************************)
(* Lines of different commands                                             *)
(***************************************************************************)

LEMMA AddedOnce ==
  ASSUME NEW s \in Seq(Nat), NEW e \in Nat, IsInjective(s), e \notin Range(s)
  PROVE  IsInjective(Append(s, e))
<1>1. /\ DOMAIN Append(s, e) = 1..Len(s) + 1 /\ DOMAIN s = 1..Len(s) /\ Len(s) \in Nat
      /\ \A i \in DOMAIN s : Append(s, e)[i] = s[i]
      /\ Append(s, e)[Len(s) + 1] = e
  BY Ends
<1>2. \A i \in DOMAIN Append(s, e) : i \in DOMAIN s \/ i = Len(s) + 1
  BY <1>1
<1>3. \A i \in DOMAIN s : s[i] # e
  BY DEF Range
<1>4. \A i, j \in DOMAIN s : s[i] = s[j] => i = j
  BY DEF IsInjective
<1>5. ASSUME NEW i \in DOMAIN Append(s, e), NEW j \in DOMAIN Append(s, e),
             Append(s, e)[i] = Append(s, e)[j]
      PROVE  i = j
  BY <1>1, <1>2, <1>3, <1>4, <1>5
<1> QED BY <1>5 DEF IsInjective

LEMMA FirstGone ==
  ASSUME NEW s \in Seq(Nat), s # <<>>, IsInjective(s)
  PROVE  /\ Tail(s) \in Seq(Nat) /\ IsInjective(Tail(s))
         /\ Head(s) \in Nat /\ Head(s) \in Range(s)
         /\ Range(Tail(s)) = Range(s) \ {Head(s)}
<1>1. /\ 1 \in DOMAIN s /\ Head(s) = s[1] /\ Head(s) \in Nat
      /\ Tail(s) \in Seq(Nat) /\ DOMAIN Tail(s) = 1..Len(s) - 1 /\ Len(s) \in Nat
      /\ \A i \in DOMAIN Tail(s) : i + 1 \in DOMAIN s /\ Tail(s)[i] = s[i + 1]
  BY Ends
<1>2. \A i, j \in DOMAIN s : s[i] = s[j] => i = j
  BY DEF IsInjective
<1>3. \A i, j \in DOMAIN Tail(s) : Tail(s)[i] = Tail(s)[j] => i = j
  BY <1>1, <1>2
<1>4. \A i \in DOMAIN Tail(s) : Tail(s)[i] # Head(s)
  BY <1>1, <1>2
<1>5. Range(s) = {Head(s)} \cup Range(Tail(s))
  BY <1>1, RangeOfEnds
<1>6. Head(s) \notin Range(Tail(s))
  BY <1>4 DEF Range
<1> QED BY <1>1, <1>3, <1>5, <1>6 DEF IsInjective

LEMMA Joined ==
  ASSUME NEW s \in Seq(Nat), NEW t \in Seq(Nat)
  PROVE  /\ s \o t \in Seq(Nat)
         /\ Range(s \o t) = Range(s) \cup Range(t)
         /\ IsInjective(s) /\ IsInjective(t) /\ Range(s) \cap Range(t) = {} => IsInjective(s \o t)
<1>1. /\ s \o t \in Seq(Nat) /\ DOMAIN (s \o t) = 1..Len(s) + Len(t)
      /\ DOMAIN s = 1..Len(s) /\ DOMAIN t = 1..Len(t) /\ Len(s) \in Nat /\ Len(t) \in Nat
      /\ \A i \in DOMAIN s : (s \o t)[i] = s[i]
      /\ \A i \in DOMAIN t : (s \o t)[Len(s) + i] = t[i]
  OBVIOUS
<1>2. \A i \in DOMAIN (s \o t) : i \in DOMAIN s \/ (i - Len(s) \in DOMAIN t /\ i = Len(s) + (i - Len(s)))
  BY <1>1
<1>3. \A i \in DOMAIN s : i \in DOMAIN (s \o t)
  BY <1>1
<1>4. \A i \in DOMAIN t : Len(s) + i \in DOMAIN (s \o t)
  BY <1>1
<1>5. Range(s \o t) \subseteq Range(s) \cup Range(t)
  BY <1>1, <1>2 DEF Range
<1>6. Range(s) \subseteq Range(s \o t)
  BY <1>1, <1>3 DEF Range
<1>7. Range(t) \subseteq Range(s \o t)
  BY <1>1, <1>4 DEF Range
<1>8. ASSUME IsInjective(s), IsInjective(t), Range(s) \cap Range(t) = {}
      PROVE  IsInjective(s \o t)
  <2>1. \A i, j \in DOMAIN s : s[i] = s[j] => i = j
    BY <1>8 DEF IsInjective
  <2>2. \A i, j \in DOMAIN t : t[i] = t[j] => i = j
    BY <1>8 DEF IsInjective
  <2>3. \A i \in DOMAIN s, j \in DOMAIN t : s[i] # t[j]
    BY <1>8 DEF Range
  <2>4. ASSUME NEW i \in DOMAIN (s \o t), NEW j \in DOMAIN (s \o t), (s \o t)[i] = (s \o t)[j]
        PROVE  i = j
    <3>1. CASE i \in DOMAIN s
      BY <1>1, <1>2, <2>1, <2>3, <2>4, <3>1
    <3>2. CASE i \notin DOMAIN s
      <4>1. i - Len(s) \in DOMAIN t /\ (s \o t)[i] = t[i - Len(s)]
        BY <1>1, <1>2, <3>2
      <4>2. j - Len(s) \in DOMAIN t /\ (s \o t)[j] = t[j - Len(s)]
        BY <1>1, <1>2, <2>3, <2>4, <4>1
      <4>3. i - Len(s) = j - Len(s)
        BY <2>2, <2>4, <4>1, <4>2
      <4> QED BY <1>1, <4>3
    <3> QED BY <3>1, <3>2
  <2> QED BY <2>4 DEF IsInjective
<1> QED BY <1>1, <1>5, <1>6, <1>7, <1>8

(***************************************************************************)
(* Places                                                                  *)
(***************************************************************************)

\* The places of Held: five, then one for every connection.
Place == 1..(5 + MaxLinks)

\* Whatever the places hold, together they hold all, and nothing twice.
Shared(held, all) ==
  /\ \A p \in Place : held[p] \subseteq all
  /\ \A c \in all : \E p \in Place : c \in held[p]
  /\ \A p, q \in Place : p # q => held[p] \cap held[q] = {}

\* What other places lose the place q gains.
Collected(held, now, all, q) ==
  /\ q \in Place /\ now[q] \subseteq all
  /\ \A p \in Place : p # q => now[p] \subseteq held[p]
  /\ \A c \in all :
       c \in now[q] <=> c \in held[q] \/ \E p \in Place : p # q /\ c \in held[p] /\ c \notin now[p]

LEMMA Gathered ==
  ASSUME NEW held, NEW now, NEW all, Shared(held, all), NEW q, Collected(held, now, all, q)
  PROVE  Shared(now, all)
<1>0. /\ q \in Place /\ now[q] \subseteq all
      /\ \A p \in Place : p # q => now[p] \subseteq held[p]
      /\ \A c \in all :
           c \in now[q] <=> c \in held[q] \/ \E p \in Place : p # q /\ c \in held[p] /\ c \notin now[p]
  BY DEF Collected
<1>1. \A p \in Place : held[p] \subseteq all
  BY DEF Shared
<1>2. \A c \in all : \E p \in Place : c \in held[p]
  BY DEF Shared
<1>3. \A p, r \in Place : p # r => held[p] \cap held[r] = {}
  BY DEF Shared
<1>4. \A p \in Place : now[p] \subseteq all
  BY <1>0, <1>1
<1>5. \A c \in all : \E p \in Place : c \in now[p]
  BY <1>0, <1>2
<1>6. \A p \in Place : p # q => now[p] \cap now[q] = {}
  <2> SUFFICES ASSUME NEW p \in Place, p # q, NEW c \in now[p], c \in now[q]
               PROVE  FALSE
    OBVIOUS
  <2>1. c \in held[p] /\ c \in all
    BY <1>0, <1>1
  <2>2. c \notin held[q]
    BY <1>0, <1>3, <2>1
  <2>3. PICK r \in Place : r # q /\ c \in held[r] /\ c \notin now[r]
    BY <1>0, <2>1, <2>2
  <2> QED BY <1>3, <2>1, <2>3
<1>7. \A p, r \in Place : p # r /\ p # q /\ r # q => now[p] \cap now[r] = {}
  BY <1>0, <1>3
<1>8. \A p, r \in Place : p # r => now[p] \cap now[r] = {}
  BY <1>6, <1>7
<1> QED BY <1>4, <1>5, <1>8 DEF Shared

\* Some commands go from one place to another.
Moved(held, now, p, q, some) ==
  /\ p \in Place /\ q \in Place /\ p # q /\ some \subseteq held[p]
  /\ now[p] = held[p] \ some
  /\ now[q] = held[q] \cup some
  /\ \A r \in Place : r # p /\ r # q => now[r] = held[r]

LEMMA MovedOn ==
  ASSUME NEW held, NEW now, NEW all, Shared(held, all),
         NEW p, NEW q, NEW some, Moved(held, now, p, q, some)
  PROVE  Shared(now, all)
<1>1. /\ p \in Place /\ q \in Place /\ p # q /\ some \subseteq held[p]
      /\ now[p] = held[p] \ some /\ now[q] = held[q] \cup some
      /\ \A r \in Place : r # p /\ r # q => now[r] = held[r]
  BY DEF Moved
<1>2. \A r \in Place : r # q => now[r] \subseteq held[r]
  BY <1>1
<1>3. \A c \in all :
        c \in now[q] <=> c \in held[q] \/ \E r \in Place : r # q /\ c \in held[r] /\ c \notin now[r]
  BY <1>1
<1>4. now[q] \subseteq all
  BY <1>1 DEF Shared
<1>5. Collected(held, now, all, q)
  BY <1>1, <1>2, <1>3, <1>4 DEF Collected
<1> QED BY <1>5, Gathered, Zenon

\* A new command comes to a place.
Came(held, now, q, c) ==
  /\ q \in Place
  /\ now[q] = held[q] \cup {c}
  /\ \A r \in Place : r # q => now[r] = held[r]

LEMMA CameIn ==
  ASSUME NEW held, NEW now, NEW all, Shared(held, all),
         NEW q, NEW c, Came(held, now, q, c), c \notin all
  PROVE  Shared(now, all \cup {c})
<1>0. /\ q \in Place /\ now[q] = held[q] \cup {c}
      /\ \A r \in Place : r # q => now[r] = held[r]
  BY DEF Came
<1>1. \A r \in Place : held[r] \subseteq all
  BY DEF Shared
<1>2. \A d \in all : \E r \in Place : d \in held[r]
  BY DEF Shared
<1>3. \A r, t \in Place : r # t => held[r] \cap held[t] = {}
  BY DEF Shared
<1>4. \A r \in Place : now[r] \subseteq all \cup {c}
  BY <1>0, <1>1
<1>5. \A d \in all \cup {c} : \E r \in Place : d \in now[r]
  BY <1>0, <1>2
<1>6. \A r, t \in Place : r # t => now[r] \cap now[t] = {}
  BY <1>0, <1>1, <1>3
<1> QED BY <1>4, <1>5, <1>6 DEF Shared

(***************************************************************************)
(* The steps of a command                                                  *)
(***************************************************************************)

CommandType ==
  /\ pushed \in Nat
  /\ queue \in Seq(Nat) /\ channel \in Seq(Nat) /\ flown \in Seq(Nat)
  /\ uplink \in [Link -> Seq(Nat)]

\* CommandsAccounted place by place.
CommandInv ==
  /\ CommandType
  /\ Shared(Held, 1..pushed)
  /\ IsInjective(queue) /\ IsInjective(channel) /\ IsInjective(flown)
  /\ \A k \in Link : IsInjective(uplink[k])

\* The lines and places of the commands, now and after a step.
LEMMA HeldNow ==
  /\ DOMAIN Held = Place
  /\ Held[1] = Range(queue) /\ Held[2] = Range(channel) /\ Held[3] = Range(flown)
  /\ Held[4] = passedOver /\ Held[5] = lost
  /\ \A k \in Link : Held[5 + k] = Range(uplink[k])
<1>1. PICK a, b, c, f : /\ a = Range(queue) /\ b = Range(channel) /\ c = Range(flown)
                      /\ f = [k \in Link |-> Range(uplink[k])]
  OBVIOUS
<1>2. PICK d, e : d = passedOver /\ e = lost
  OBVIOUS
<1>3. PICK S : S = {a, b, c, d, e} \cup {f[k] : k \in Link}
  OBVIOUS
<1>4. /\ f \in Seq(S) /\ Len(f) = MaxLinks /\ MaxLinks \in Nat
      /\ \A k \in Link : f[k] = Range(uplink[k])
  BY <1>1, <1>3, BroadcastAssumption DEF Link
<1>5. a \in S /\ b \in S /\ c \in S /\ d \in S /\ e \in S
  BY <1>3
<1>6. Held = <<a, b, c, d, e>> \o f
  BY <1>1, <1>2, Zenon DEF Held
<1>7. /\ DOMAIN Held = 1..5 + MaxLinks
      /\ Held[1] = a /\ Held[2] = b /\ Held[3] = c /\ Held[4] = d /\ Held[5] = e
      /\ \A k \in 1..MaxLinks : Held[5 + k] = f[k]
  BY <1>4, <1>5, <1>6
<1> QED BY <1>1, <1>2, <1>4, <1>7 DEF Link, Place

LEMMA HeldThen ==
  /\ DOMAIN Held' = Place
  /\ Held'[1] = Range(queue') /\ Held'[2] = Range(channel') /\ Held'[3] = Range(flown')
  /\ Held'[4] = passedOver' /\ Held'[5] = lost'
  /\ \A k \in Link : Held'[5 + k] = Range(uplink'[k])
<1>1. PICK a, b, c, f : /\ a = Range(queue') /\ b = Range(channel') /\ c = Range(flown')
                      /\ f = [k \in Link |-> Range(uplink'[k])]
  OBVIOUS
<1>2. PICK d, e : d = passedOver' /\ e = lost'
  OBVIOUS
<1>3. PICK S : S = {a, b, c, d, e} \cup {f[k] : k \in Link}
  OBVIOUS
<1>4. /\ f \in Seq(S) /\ Len(f) = MaxLinks /\ MaxLinks \in Nat
      /\ \A k \in Link : f[k] = Range(uplink'[k])
  BY <1>1, <1>3, BroadcastAssumption DEF Link
<1>5. a \in S /\ b \in S /\ c \in S /\ d \in S /\ e \in S
  BY <1>3
<1>6. Held' = <<a, b, c, d, e>> \o f
  BY <1>1, <1>2, Zenon DEF Held
<1>7. /\ DOMAIN Held' = 1..5 + MaxLinks
      /\ Held'[1] = a /\ Held'[2] = b /\ Held'[3] = c /\ Held'[4] = d /\ Held'[5] = e
      /\ \A k \in 1..MaxLinks : Held'[5 + k] = f[k]
  BY <1>4, <1>5, <1>6
<1> QED BY <1>1, <1>2, <1>4, <1>7 DEF Link, Place

\* A place is one of the five or that of a connection.
LEMMA PlaceIs ==
  /\ \A p \in Place : p \in {1, 2, 3, 4, 5} \/ \E k \in Link : p = 5 + k
  /\ \A k \in Link : 5 + k \in Place /\ 5 + k \notin {1, 2, 3, 4, 5}
  /\ {1, 2, 3, 4, 5} \subseteq Place
  /\ \A k, l \in Link : 5 + k = 5 + l => k = l
<1>1. MaxLinks \in Nat
  BY BroadcastAssumption
<1>2. ASSUME NEW p \in Place, p \notin {1, 2, 3, 4, 5} PROVE \E k \in Link : p = 5 + k
  <2>1. p - 5 \in Link /\ p = 5 + (p - 5)
    BY <1>1, <1>2 DEF Place, Link
  <2> QED BY <2>1
<1> QED BY <1>1, <1>2 DEF Place, Link

LEMMA CommandInvInit == Init => CommandInv
<1> SUFFICES ASSUME Init PROVE CommandInv
  OBVIOUS
<1>1. /\ pushed = 0 /\ queue = <<>> /\ channel = <<>> /\ flown = <<>>
      /\ uplink = [k \in Link |-> <<>>] /\ passedOver = {} /\ lost = {}
  BY DEF Init, AdminInit
<1>2. Range(<<>>) = {} /\ IsInjective(<<>>)
  BY DEF Range, IsInjective
<1>3. \A p \in Place : Held[p] = {}
  <2>1. ASSUME NEW k \in Link PROVE Held[5 + k] = {}
    BY <1>1, <1>2, HeldNow
  <2>2. Held[1] = {} /\ Held[2] = {} /\ Held[3] = {} /\ Held[4] = {} /\ Held[5] = {}
    BY <1>1, <1>2, HeldNow
  <2> QED BY <2>1, <2>2, PlaceIs
<1>4. Shared(Held, 1..pushed)
  BY <1>1, <1>3 DEF Shared
<1> QED BY <1>1, <1>2, <1>4 DEF CommandInv, CommandType

\* The state of the commands.
cargo == <<pushed, queue, uplink, channel, flown, passedOver, lost>>

PushedOne ==
  /\ pushed' = pushed + 1
  /\ queue' = Append(queue, pushed + 1)
  /\ UNCHANGED <<uplink, channel, flown, passedOver, lost>>
Forwarded(k) ==
  /\ uplink' = [uplink EXCEPT ![k] = @ \o queue]
  /\ queue' = <<>>
  /\ UNCHANGED <<pushed, channel, flown, passedOver, lost>>
DroppedOne ==
  /\ queue # <<>>
  /\ queue' = Tail(queue) /\ lost' = lost \cup {Head(queue)}
  /\ UNCHANGED <<pushed, uplink, channel, flown, passedOver>>
Delivered(k) ==
  /\ uplink[k] # <<>>
  /\ channel' = Append(channel, Head(uplink[k]))
  /\ uplink' = [uplink EXCEPT ![k] = Tail(@)]
  /\ UNCHANGED <<pushed, queue, flown, passedOver, lost>>
Closed(k) ==
  /\ lost' = lost \cup Range(uplink[k])
  /\ uplink' = [uplink EXCEPT ![k] = <<>>]
  /\ UNCHANGED <<pushed, queue, channel, flown, passedOver>>
Flew ==
  /\ channel # <<>>
  /\ flown' = Append(flown, Head(channel))
  /\ passedOver' = passedOver \cup Range(Tail(channel))
  /\ channel' = <<>>
  /\ UNCHANGED <<pushed, queue, uplink, lost>>
Crashed ==
  /\ channel' = <<>>
  /\ uplink' = [k \in Link |-> <<>>]
  /\ lost' = lost \cup Range(channel) \cup UNION {Range(uplink[k]) : k \in Link}
  /\ UNCHANGED <<pushed, queue, flown, passedOver>>

\* Every step of the system is one of these for the commands.
LEMMA StepsOfTheCommands ==
  ASSUME [Next]_vars
  PROVE  \/ PushedOne \/ DroppedOne \/ Flew \/ Crashed
         \/ \E k \in Link : Forwarded(k) \/ Delivered(k) \/ Closed(k)
         \/ UNCHANGED cargo
<1> USE DEF cargo, adminVars
<1>1. CASE Process
  <2>1. CASE UNCHANGED adminVars
    BY <2>1
  <2>2. ASSUME NEW seen \in Outcomes, FlyTick(seen)
        PROVE  Flew \/ UNCHANGED cargo
    BY <2>2 DEF FlyTick, Flew
  <2>3. CASE AdminCrash
    BY <2>3 DEF AdminCrash, Crashed
  <2> QED BY <1>1, <2>1, <2>2, <2>3 DEF Process
<1>2. CASE Connection
  BY <1>2 DEF Connection, AdminConnect
<1>3. CASE Transport
  BY <1>3 DEF Transport
<1>4. CASE TakeInState
  BY <1>4 DEF TakeInState, AdminTakeIn
<1>5. CASE AdminNext
  <2>1. CASE PushCommand BY <2>1 DEF PushCommand, PushedOne
  <2>2. ASSUME NEW k \in Link, Forward(k) PROVE Forwarded(k)
    BY <2>2 DEF Forward, Forwarded
  <2>3. ASSUME NEW k \in Link, ForwardInVain(k) PROVE DroppedOne
    BY <2>3 DEF ForwardInVain, DroppedOne
  <2>4. ASSUME NEW k \in Link, Deliver(k) PROVE Delivered(k)
    BY <2>4 DEF Deliver, Delivered
  <2>5. ASSUME NEW k \in Link, CloseUplink(k) PROVE Closed(k)
    BY <2>5 DEF CloseUplink, Closed
  <2> QED BY <1>5, <2>1, <2>2, <2>3, <2>4, <2>5 DEF AdminNext
<1>6. CASE BatchNext /\ UNCHANGED adminVars
  BY <1>6
<1>7. CASE UNCHANGED vars
  BY <1>7 DEF vars
<1> QED BY <1>1, <1>2, <1>3, <1>4, <1>5, <1>6, <1>7 DEF Next

(***************************************************************************)
(* The invariant                                                           *)
(***************************************************************************)

\* What the invariant says of the lines of commands, in the range of a step.
LEMMA CommandFacts ==
  ASSUME CommandInv
  PROVE  /\ pushed \in Nat /\ queue \in Seq(Nat) /\ channel \in Seq(Nat) /\ flown \in Seq(Nat)
         /\ uplink \in [Link -> Seq(Nat)] /\ \A k \in Link : uplink[k] \in Seq(Nat)
         /\ IsInjective(queue) /\ IsInjective(channel) /\ IsInjective(flown)
         /\ \A k \in Link : IsInjective(uplink[k])
         /\ Shared(Held, 1..pushed)
         /\ \A p, q \in Place : p # q => Held[p] \cap Held[q] = {}
         /\ Range(<<>>) = {} /\ IsInjective(<<>>) /\ <<>> \in Seq(Nat)
BY DEF CommandInv, CommandType, Shared, Range, IsInjective

LEMMA PushedOneStep == CommandInv /\ PushedOne => CommandInv'
<1> SUFFICES ASSUME CommandInv, PushedOne PROVE CommandInv'
  OBVIOUS
<1>1. /\ pushed' = pushed + 1 /\ queue' = Append(queue, pushed + 1)
      /\ UNCHANGED <<uplink, channel, flown, passedOver, lost>>
  BY DEF PushedOne
<1>2. pushed \in Nat /\ pushed + 1 \in Nat /\ queue \in Seq(Nat) /\ IsInjective(queue)
  BY CommandFacts
<1>3. pushed + 1 \notin 1..pushed /\ 1..pushed' = 1..pushed \cup {pushed + 1}
  BY <1>1, <1>2
<1>4. Held[1] \subseteq 1..pushed /\ Shared(Held, 1..pushed)
  BY CommandFacts, PlaceIs DEF Shared
<1>5. Held[1] = Range(queue)
  BY HeldNow
<1>6. queue' \in Seq(Nat) /\ IsInjective(queue')
  BY <1>1, <1>2, <1>3, <1>4, <1>5, AddedOnce
<1>7. Held'[1] = Held[1] \cup {pushed + 1}
  BY <1>1, <1>2, <1>5, HeldThen, RangeOfEnds
<1>8. \A p \in Place : p # 1 => Held'[p] = Held[p]
  BY <1>1, PlaceIs, HeldNow, HeldThen
<1>9. Shared(Held', 1..pushed')
  <2>1. 1 \in Place
    BY PlaceIs
  <2>2. Came(Held, Held', 1, pushed + 1)
    BY <1>7, <1>8, <2>1 DEF Came
  <2>3. Shared(Held', 1..pushed \cup {pushed + 1})
    BY <1>3, <1>4, <2>2, CameIn, Zenon
  <2> QED BY <1>3, <2>3
<1> QED BY <1>1, <1>2, <1>6, <1>9, CommandFacts DEF CommandInv, CommandType

LEMMA ForwardedStep == ASSUME NEW l \in Link PROVE CommandInv /\ Forwarded(l) => CommandInv'
<1> SUFFICES ASSUME CommandInv, Forwarded(l) PROVE CommandInv'
  OBVIOUS
<1>1. /\ uplink' = [uplink EXCEPT ![l] = uplink[l] \o queue] /\ queue' = <<>>
      /\ UNCHANGED <<pushed, channel, flown, passedOver, lost>>
  BY DEF Forwarded
<1>2. /\ uplink \in [Link -> Seq(Nat)] /\ uplink[l] \in Seq(Nat) /\ queue \in Seq(Nat)
      /\ IsInjective(queue) /\ IsInjective(uplink[l])
  BY CommandFacts
<1>3. /\ uplink'[l] = uplink[l] \o queue
      /\ \A k \in Link : k # l => uplink'[k] = uplink[k]
  BY <1>1, <1>2
<1>4. Held[1] = Range(queue) /\ Held[5 + l] = Range(uplink[l])
  BY HeldNow
<1>5. Held[1] \cap Held[5 + l] = {}
  BY CommandFacts, PlaceIs
<1>6. /\ uplink[l] \o queue \in Seq(Nat) /\ IsInjective(uplink[l] \o queue)
      /\ Range(uplink[l] \o queue) = Range(uplink[l]) \cup Range(queue)
  BY <1>2, <1>4, <1>5, Joined
<1>7. /\ uplink' \in [Link -> Seq(Nat)]
      /\ \A k \in Link : IsInjective(uplink'[k])
  BY <1>1, <1>2, <1>3, <1>6, CommandFacts
<1>8. Held'[1] = Held[1] \ Held[1] /\ Held'[5 + l] = Held[5 + l] \cup Held[1] /\ Held[1] \subseteq Held[1]
  BY <1>1, <1>3, <1>4, <1>6, CommandFacts, HeldThen
<1>9. \A p \in Place : p # 1 /\ p # 5 + l => Held'[p] = Held[p]
  <2>1. \A k \in Link : k # l => Held'[5 + k] = Held[5 + k]
    BY <1>3, HeldNow, HeldThen
  <2>2. \A p \in {2, 3, 4, 5} : Held'[p] = Held[p]
    BY <1>1, HeldNow, HeldThen
  <2> QED BY <2>1, <2>2, PlaceIs
<1>10. Shared(Held', 1..pushed)
  <2>1. 1 \in Place /\ 5 + l \in Place /\ 1 # 5 + l /\ Shared(Held, 1..pushed)
    BY PlaceIs, CommandFacts
  <2>2. Moved(Held, Held', 1, 5 + l, Held[1])
    BY <1>8, <1>9, <2>1 DEF Moved
  <2> QED BY <2>1, <2>2, MovedOn, Zenon
<1> QED BY <1>1, <1>7, <1>10, CommandFacts DEF CommandInv, CommandType

LEMMA DroppedOneStep == CommandInv /\ DroppedOne => CommandInv'
<1> SUFFICES ASSUME CommandInv, DroppedOne PROVE CommandInv'
  OBVIOUS
<1>1. /\ queue # <<>> /\ queue' = Tail(queue) /\ lost' = lost \cup {Head(queue)}
      /\ UNCHANGED <<pushed, uplink, channel, flown, passedOver>>
  BY DEF DroppedOne
<1>2. /\ Tail(queue) \in Seq(Nat) /\ IsInjective(Tail(queue)) /\ Head(queue) \in Range(queue)
      /\ Range(Tail(queue)) = Range(queue) \ {Head(queue)}
  BY <1>1, CommandFacts, FirstGone
<1>3. /\ Held'[1] = Held[1] \ {Head(queue)} /\ Held'[5] = Held[5] \cup {Head(queue)}
      /\ {Head(queue)} \subseteq Held[1]
  BY <1>1, <1>2, HeldNow, HeldThen
<1>4. \A p \in Place : p # 1 /\ p # 5 => Held'[p] = Held[p]
  BY <1>1, PlaceIs, HeldNow, HeldThen
<1>5. Shared(Held', 1..pushed)
  <2>1. 1 \in Place /\ 5 \in Place /\ Shared(Held, 1..pushed)
    BY PlaceIs, CommandFacts
  <2>2. Moved(Held, Held', 1, 5, {Head(queue)})
    BY <1>3, <1>4, <2>1 DEF Moved
  <2> QED BY <2>1, <2>2, MovedOn, Zenon
<1> QED BY <1>1, <1>2, <1>5, CommandFacts DEF CommandInv, CommandType

LEMMA DeliveredStep == ASSUME NEW l \in Link PROVE CommandInv /\ Delivered(l) => CommandInv'
<1> SUFFICES ASSUME CommandInv, Delivered(l) PROVE CommandInv'
  OBVIOUS
<1>1. /\ uplink[l] # <<>> /\ channel' = Append(channel, Head(uplink[l]))
      /\ uplink' = [uplink EXCEPT ![l] = Tail(uplink[l])]
      /\ UNCHANGED <<pushed, queue, flown, passedOver, lost>>
  BY DEF Delivered
<1>2. /\ uplink \in [Link -> Seq(Nat)] /\ uplink[l] \in Seq(Nat) /\ channel \in Seq(Nat)
      /\ IsInjective(channel) /\ IsInjective(uplink[l])
  BY CommandFacts
<1>3. /\ uplink'[l] = Tail(uplink[l])
      /\ \A k \in Link : k # l => uplink'[k] = uplink[k]
  BY <1>1, <1>2
<1>4. /\ Tail(uplink[l]) \in Seq(Nat) /\ IsInjective(Tail(uplink[l]))
      /\ Head(uplink[l]) \in Range(uplink[l]) /\ Head(uplink[l]) \in Nat
      /\ Range(Tail(uplink[l])) = Range(uplink[l]) \ {Head(uplink[l])}
  BY <1>1, <1>2, FirstGone
<1>5. Held[2] = Range(channel) /\ Held[5 + l] = Range(uplink[l])
  BY HeldNow
<1>6. Held[2] \cap Held[5 + l] = {}
  BY CommandFacts, PlaceIs
<1>7. Head(uplink[l]) \notin Range(channel)
  BY <1>4, <1>5, <1>6
<1>8. channel' \in Seq(Nat) /\ IsInjective(channel')
  BY <1>1, <1>2, <1>4, <1>7, AddedOnce
<1>9. /\ uplink' \in [Link -> Seq(Nat)]
      /\ \A k \in Link : IsInjective(uplink'[k])
  BY <1>1, <1>2, <1>3, <1>4, CommandFacts
<1>10. /\ Held'[5 + l] = Held[5 + l] \ {Head(uplink[l])}
       /\ Held'[2] = Held[2] \cup {Head(uplink[l])}
       /\ {Head(uplink[l])} \subseteq Held[5 + l]
  <2>1. Range(channel') = Range(channel) \cup {Head(uplink[l])}
    BY <1>1, <1>2, <1>4, RangeOfEnds
  <2> QED BY <2>1, <1>3, <1>4, <1>5, HeldThen
<1>11. \A p \in Place : p # 2 /\ p # 5 + l => Held'[p] = Held[p]
  BY <1>1, <1>3, PlaceIs, HeldNow, HeldThen
<1>12. Shared(Held', 1..pushed)
  <2>1. 2 \in Place /\ 5 + l \in Place /\ 2 # 5 + l /\ Shared(Held, 1..pushed)
    BY PlaceIs, CommandFacts
  <2>2. Moved(Held, Held', 5 + l, 2, {Head(uplink[l])})
    BY <1>10, <1>11, <2>1 DEF Moved
  <2> QED BY <2>1, <2>2, MovedOn, Zenon
<1> QED BY <1>1, <1>8, <1>9, <1>12, CommandFacts DEF CommandInv, CommandType

LEMMA ClosedStep == ASSUME NEW l \in Link PROVE CommandInv /\ Closed(l) => CommandInv'
<1> SUFFICES ASSUME CommandInv, Closed(l) PROVE CommandInv'
  OBVIOUS
<1>1. /\ lost' = lost \cup Range(uplink[l]) /\ uplink' = [uplink EXCEPT ![l] = <<>>]
      /\ UNCHANGED <<pushed, queue, channel, flown, passedOver>>
  BY DEF Closed
<1>2. uplink \in [Link -> Seq(Nat)]
  BY CommandFacts
<1>3. uplink'[l] = <<>> /\ \A k \in Link : k # l => uplink'[k] = uplink[k]
  BY <1>1, <1>2
<1>4. /\ uplink' \in [Link -> Seq(Nat)]
      /\ \A k \in Link : IsInjective(uplink'[k])
  BY <1>1, <1>2, <1>3, CommandFacts
<1>5. /\ Held'[5 + l] = Held[5 + l] \ Held[5 + l] /\ Held'[5] = Held[5] \cup Held[5 + l]
      /\ Held[5 + l] \subseteq Held[5 + l]
  BY <1>1, <1>3, CommandFacts, HeldNow, HeldThen
<1>6. \A p \in Place : p # 5 /\ p # 5 + l => Held'[p] = Held[p]
  BY <1>1, <1>3, PlaceIs, HeldNow, HeldThen
<1>7. Shared(Held', 1..pushed)
  <2>1. 5 \in Place /\ 5 + l \in Place /\ 5 # 5 + l /\ Shared(Held, 1..pushed)
    BY PlaceIs, CommandFacts
  <2>2. Moved(Held, Held', 5 + l, 5, Held[5 + l])
    BY <1>5, <1>6, <2>1 DEF Moved
  <2> QED BY <2>1, <2>2, MovedOn, Zenon
<1> QED BY <1>1, <1>4, <1>7, CommandFacts DEF CommandInv, CommandType

LEMMA FlewStep == CommandInv /\ Flew => CommandInv'
<1> SUFFICES ASSUME CommandInv, Flew PROVE CommandInv'
  OBVIOUS
<1> DEFINE first == Head(channel)
           mid == [Held EXCEPT ![2] = Held[2] \ {first}, ![3] = Held[3] \cup {first}]
<1>1. /\ channel # <<>> /\ flown' = Append(flown, first) /\ channel' = <<>>
      /\ passedOver' = passedOver \cup Range(Tail(channel))
      /\ UNCHANGED <<pushed, queue, uplink, lost>>
  BY DEF Flew
<1>2. /\ channel \in Seq(Nat) /\ IsInjective(channel) /\ flown \in Seq(Nat) /\ IsInjective(flown)
  BY CommandFacts
<1>3. /\ first \in Range(channel) /\ first \in Nat
      /\ Range(Tail(channel)) = Range(channel) \ {first}
  BY <1>1, <1>2, FirstGone
<1>4. /\ Held[2] = Range(channel) /\ Held[3] = Range(flown) /\ Held[4] = passedOver
      /\ DOMAIN Held = Place /\ 2 \in Place /\ 3 \in Place /\ 4 \in Place
  BY HeldNow, PlaceIs
<1>5. Held[2] \cap Held[3] = {}
  <2>1. \A p, q \in Place : p # q => Held[p] \cap Held[q] = {}
    BY CommandFacts
  <2> QED BY <1>4, <2>1
<1> HIDE DEF first
<1>6. first \notin Range(flown)
  BY <1>3, <1>4, <1>5
<1>7. flown' \in Seq(Nat) /\ IsInjective(flown')
  BY <1>1, <1>2, <1>3, <1>6, AddedOnce
<1>8. /\ mid[2] = Held[2] \ {first} /\ mid[3] = Held[3] \cup {first}
      /\ \A r \in Place : r # 2 /\ r # 3 => mid[r] = Held[r]
  BY <1>4
<1> HIDE DEF mid
<1>9. Shared(mid, 1..pushed)
  <2>1. Moved(Held, mid, 2, 3, {first})
    BY <1>3, <1>4, <1>8 DEF Moved
  <2>2. Shared(Held, 1..pushed)
    BY CommandFacts
  <2> QED BY <2>1, <2>2, MovedOn, Zenon
<1>10. /\ Held'[2] = {} /\ Held'[3] = Held[3] \cup {first}
       /\ Held'[4] = Held[4] \cup Range(Tail(channel))
  <2>1. Range(flown') = Range(flown) \cup {first}
    BY <1>1, <1>2, <1>3, RangeOfEnds
  <2> QED BY <2>1, <1>1, <1>4, HeldThen, CommandFacts
<1>11. \A r \in Place : r # 2 /\ r # 3 /\ r # 4 => Held'[r] = Held[r]
  BY <1>1, PlaceIs, HeldNow, HeldThen
<1>12. Moved(mid, Held', 2, 4, Range(Tail(channel)))
  <2>1. mid[2] = Range(Tail(channel)) /\ mid[4] = Held[4] /\ mid[3] = Held'[3]
    BY <1>3, <1>4, <1>8, <1>10
  <2>2. Held'[2] = mid[2] \ Range(Tail(channel)) /\ Range(Tail(channel)) \subseteq mid[2]
    BY <1>10, <2>1
  <2>3. Held'[4] = mid[4] \cup Range(Tail(channel))
    BY <1>10, <2>1
  <2>4. \A r \in Place : r # 2 /\ r # 4 => Held'[r] = mid[r]
    BY <1>8, <1>11, <2>1
  <2> QED BY <1>4, <2>2, <2>3, <2>4 DEF Moved
<1>13. Shared(Held', 1..pushed)
  BY <1>9, <1>12, MovedOn, Zenon
<1> QED BY <1>1, <1>7, <1>13, CommandFacts DEF CommandInv, CommandType

LEMMA CrashedStep == CommandInv /\ Crashed => CommandInv'
<1> SUFFICES ASSUME CommandInv, Crashed PROVE CommandInv'
  OBVIOUS
<1>1. /\ channel' = <<>> /\ uplink' = [k \in Link |-> <<>>]
      /\ lost' = lost \cup Range(channel) \cup UNION {Range(uplink[k]) : k \in Link}
      /\ UNCHANGED <<pushed, queue, flown, passedOver>>
  BY DEF Crashed
<1>2. /\ uplink' \in [Link -> Seq(Nat)]
      /\ \A k \in Link : uplink'[k] = <<>> /\ IsInjective(uplink'[k])
  BY <1>1, CommandFacts
<1>3. /\ Held[2] = Range(channel) /\ Held[5] = lost
      /\ \A k \in Link : Held[5 + k] = Range(uplink[k])
  BY HeldNow
<1>4. /\ Held'[2] = {} /\ \A k \in Link : Held'[5 + k] = {}
      /\ Held'[5] = lost'
      /\ \A p \in {1, 3, 4} : Held'[p] = Held[p]
  BY <1>1, <1>2, CommandFacts, HeldNow, HeldThen
<1>5. /\ \A p \in Place : p \in {1, 2, 3, 4, 5} \/ \E k \in Link : p = 5 + k
      /\ \A k \in Link : 5 + k \in Place /\ 5 + k # 5
      /\ 2 \in Place /\ 5 \in Place
  BY PlaceIs
<1>6. \A p \in Place : p # 5 => Held'[p] \subseteq Held[p]
  BY <1>4, <1>5
<1>7. \A c : c \in lost' <=> c \in lost \/ c \in Range(channel) \/ \E k \in Link : c \in Range(uplink[k])
  BY <1>1
<1>8. \A c : c \in Held'[5] <=> c \in Held[5] \/ c \in Held[2] \/ \E k \in Link : c \in Held[5 + k]
  BY <1>3, <1>4, <1>7
<1>9. ASSUME NEW c
      PROVE  c \in Held'[5] <=>
               c \in Held[5] \/ \E p \in Place : p # 5 /\ c \in Held[p] /\ c \notin Held'[p]
  <2>1. c \in Held[2] => \E p \in Place : p # 5 /\ c \in Held[p] /\ c \notin Held'[p]
    BY <1>4, <1>5
  <2>2. ASSUME NEW k \in Link, c \in Held[5 + k]
        PROVE  \E p \in Place : p # 5 /\ c \in Held[p] /\ c \notin Held'[p]
    <3>1. 5 + k \in Place /\ 5 + k # 5 /\ c \in Held[5 + k] /\ c \notin Held'[5 + k]
      BY <1>4, <1>5, <2>2
    <3> QED BY <3>1
  <2>3. ASSUME NEW p \in Place, p # 5, c \in Held[p], c \notin Held'[p]
        PROVE  c \in Held[2] \/ \E k \in Link : c \in Held[5 + k]
    BY <1>4, <1>5, <2>3
  <2> QED BY <1>8, <2>1, <2>2, <2>3
<1>10. Held'[5] \subseteq 1..pushed
  <2>1. \A p \in Place : Held[p] \subseteq 1..pushed
    BY CommandFacts DEF Shared
  <2> QED BY <1>5, <1>8, <2>1
<1>11. Shared(Held', 1..pushed)
  <2>1. Shared(Held, 1..pushed)
    BY CommandFacts
  <2>2. Collected(Held, Held', 1..pushed, 5)
    BY <1>5, <1>6, <1>9, <1>10 DEF Collected
  <2> QED BY <2>1, <2>2, Gathered, Zenon
<1> QED BY <1>1, <1>2, <1>11, CommandFacts DEF CommandInv, CommandType

LEMMA CommandInvStep == CommandInv /\ [Next]_vars => CommandInv'
<1> SUFFICES ASSUME CommandInv, [Next]_vars PROVE CommandInv'
  OBVIOUS
<1>1. ASSUME UNCHANGED cargo PROVE CommandInv'
  <2>1. Held' = Held
    BY <1>1 DEF Held, cargo
  <2> QED BY <1>1, <2>1 DEF cargo, CommandInv, CommandType
<1> QED BY <1>1, StepsOfTheCommands, PushedOneStep, ForwardedStep, DroppedOneStep,
        DeliveredStep, ClosedStep, FlewStep, CrashedStep

\* A command of the admin viewer is never doubled and never gone without a
\* trace, though any number of forwarders of old connections share its queue,
\* streams end with commands in them and the engine dies with commands in its
\* channel (client.rs, service.rs).
THEOREM NoCommandDoubled == Spec => []CommandsAccounted
<1>1. CommandInv => CommandsAccounted
  <2> SUFFICES ASSUME CommandInv PROVE CommandsAccounted
    OBVIOUS
  <2>1. /\ \A p \in Place : Held[p] \subseteq 1..pushed
        /\ \A c \in 1..pushed : \E p \in Place : c \in Held[p]
        /\ \A p, q \in Place : p # q => Held[p] \cap Held[q] = {}
    BY CommandFacts DEF Shared
  <2>2. DOMAIN Held = Place
    BY HeldNow
  <2>3. UNION Range(Held) = 1..pushed
    <3>1. Range(Held) = {Held[p] : p \in Place}
      BY <2>2 DEF Range
    <3> QED BY <2>1, <3>1
  <2>4. \A s \in {queue, channel, flown} \cup Range(uplink) : IsInjective(s)
    <3>1. \A s \in Range(uplink) : \E k \in Link : s = uplink[k]
      BY CommandFacts DEF Range
    <3>2. /\ IsInjective(queue) /\ IsInjective(channel) /\ IsInjective(flown)
          /\ \A k \in Link : IsInjective(uplink[k])
      BY CommandFacts
    <3> QED BY <3>1, <3>2
  <2> QED BY <2>1, <2>2, <2>3, <2>4 DEF CommandsAccounted
<1> QED BY <1>1, CommandInvInit, CommandInvStep, PTL DEF Spec

=============================================================================
