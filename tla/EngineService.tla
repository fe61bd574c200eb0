---------------------------- MODULE EngineService ----------------------------
(***************************************************************************)
(* The engine as a server: the calls GetStationView, SubmitStationCommand  *)
(* and StreamStationCommands of marita-grpc/src/service.rs, the loop that  *)
(* runs a tick a second, and the programs that call.                       *)
(*                                                                         *)
(* The state of the engine is behind one lock.  A call holds it for one    *)
(* step; the tick loop holds it from the first command it applies to the   *)
(* end of the tick (loop = "step").  The station commands travel through   *)
(* an unbounded channel that is not behind the lock.  Of the economy only  *)
(* the messages, who heard them and who is bound by them are kept: the     *)
(* rest is StationEconomy.                                                 *)
(***************************************************************************)
EXTENDS Integers, Sequences, Functions

CONSTANTS
  Station,      \* ids of the stations
  Receiver,     \* stations that have sensors
  Agent,        \* stations run by an agent with the deterministic adapter
  Advised,      \* stations run by an agent with a language model
  Client,       \* numbers of other programs that call SubmitStationCommand
  Called,       \* the commands those programs submit
  Streamed,     \* the commands that come over StreamStationCommands
  Notices       \* the automatic notices that stocks call for: <<station, kind>>

\* Bounds of the model; the code has none.
CONSTANTS
  MaxTick,      \* the last tick explored
  MaxAccepted,  \* commands accepted in all
  MaxSaid       \* automatic notices are posted while there are fewer messages

NoId == 0
Stream == 0      \* as the caller of what comes over StreamStationCommands
MessageKind == {"Want", "Have", "Offer", "Counter", "Accept", "Reject"}
Kind == MessageKind \cup {"Other"}
Caller == Agent \cup Advised \cup Client
Loop == {"wait", "drain", "step"}

\* A station command of the protocol: the station it is for, and of a market
\* message who sends it to whom in reply to what.  "Other" stands for a
\* production or collector command and for a message with a quantity or price
\* the engine skips, "Unknown" for one whose kind or material it does not know.
CommandType ==
  [station : Nat, from : Nat, kind : Kind \cup {"Unknown"}, to : Nat, reply : Nat]

\* A command in the channel, with the way and the tick it came.
EntryType ==
  [from : Nat, kind : Kind, to : Nat, reply : Nat, by : Caller \cup {Stream}, sent : Nat]

MessageType == [from : Station, kind : MessageKind, to : Nat, reply : Nat]
RefusalType == [station : Station, heard : BOOLEAN]

ASSUME ServiceAssumption ==
  /\ Station \subseteq Nat \ {NoId}
  /\ Agent \cup Advised \cup Receiver \subseteq Station
  /\ Agent \cap Advised = {}
  /\ Client \subseteq Nat \ ({Stream} \cup Station)
  /\ Called \cup Streamed \subseteq CommandType
  /\ MaxTick \in Nat /\ MaxAccepted \in Nat /\ MaxSaid \in Nat

VARIABLES
  tick,         \* SimulationState.tick
  said,         \* the messages posted so far; the id of a message is its index
  heard,        \* EngineState.station_detections: ids received in the last tick
  bound,        \* <<offer, acceptance, who submitted it>> of every contract formed
  loop,         \* where tick_loop is: asleep, emptying the channel, in step
  queue,        \* the channel of station commands
  batch,        \* station_commands, drained and not yet applied
  pc,           \* what a caller is doing: idle, deciding, sending
  view,         \* the received messages in a deciding agent's last view
  cmd,          \* the command a caller has had checked
  accepted,     \* history: every entry put in the channel
  applied,      \* history: every entry applied
  everHeard,    \* history: ids received in any tick
  refused       \* history: replies refused as not received, and whether they were

world == <<tick, said, heard, everHeard, bound>>
calls == <<pc, view, cmd>>
channel == <<queue, batch, accepted, applied>>
vars == <<tick, said, heard, bound, loop, queue, batch, pc, view, cmd,
          accepted, applied, everHeard, refused>>

NoCommand == [station |-> NoId, from |-> NoId, kind |-> "Other", to |-> NoId, reply |-> NoId]

Init ==
  /\ tick = 0
  /\ said = <<>>
  /\ heard = [s \in Station |-> {}]
  /\ bound = {}
  /\ loop = "wait"
  /\ queue = <<>> /\ batch = <<>>
  /\ pc = [c \in Caller |-> "idle"]
  /\ view = [c \in Caller |-> {}]
  /\ cmd = [c \in Caller |-> NoCommand]
  /\ accepted = <<>> /\ applied = <<>>
  /\ everHeard = [s \in Station |-> {}]
  /\ refused = {}

LockFree == loop # "step"

\* The model stops taking commands a tick before it stops.
Open == tick + 1 < MaxTick

(***************************************************************************)
(* Calls                                                                   *)
(***************************************************************************)

\* Mutant: the view shows all that was received.
AudibleByAll(s) == heard[s]

\* get_station_view shows of the latest detections the messages to everybody
\* or to this station.
Audible(s) == {i \in heard[s] : said[i].to \in {NoId, s}}

Poll(a) ==
  /\ Open /\ LockFree
  /\ a \in Agent \cup Advised
  /\ pc[a] = "idle"
  /\ pc' = [pc EXCEPT ![a] = "deciding"]
  /\ view' = [view EXCEPT ![a] = Audible(a)]
  /\ UNCHANGED <<world, loop, channel, cmd, refused>>

Message(s, kind, to, reply) ==
  [station |-> s, from |-> s, kind |-> kind, to |-> to, reply |-> reply]

\* DeterministicLlm: accept an OFFER, answer a WANT with an OFFER to its
\* sender, or post a notice.  Whether stock and credits suggest it is left open.
Planned(a) ==
  {Message(a, "Accept", said[i].from, i) : i \in {j \in view[a] : said[j].kind = "Offer"}}
    \cup {Message(a, "Offer", said[i].from, i) : i \in {j \in view[a] : said[j].kind = "Want"}}
    \cup {Message(a, "Want", NoId, NoId), Message(a, "Have", NoId, NoId)}

\* A language model may name any message and any station in its reply, heard
\* or not; proposal_to_command only refuses zeros.  It may also start production
\* or set a collector area.  When it cannot be reached or understood the
\* deterministic adapter decides.
Advice(a) ==
  {Message(a, kind, to, i) : kind \in {"Offer", "Counter", "Accept", "Reject"},
                             to \in Station, i \in 1..Len(said) + 1}
    \cup {Message(a, "Other", NoId, NoId)}

Proposals(c) ==
  IF c \in Client THEN Called
  ELSE Planned(c) \cup (IF c \in Advised THEN Advice(c) ELSE {})

\* The identity check: a message is sent by the station the command is for.
SameStation(k) == k.kind # "Other" => k.from = k.station

\* Mutant: a reply may answer any message there is.
ReceivedByAnyone(k) == k.kind # "Other" /\ k.reply # NoId => k.reply \in DOMAIN said

\* The reply check: the latest detections hold the message answered.
Received(k) == k.kind # "Other" /\ k.reply # NoId => k.reply \in heard[k.station]

\* Mutant: a message of an unknown kind is not refused.
RefusesKnown(k) ==
  \/ k.station \notin Station
  \/ ~ SameStation(k)
  \/ ~ Received(k)

\* submit_station_command up to drop(guard), then the conversion.
Refuses(k) ==
  \/ k.station \notin Station
  \/ ~ SameStation(k)
  \/ ~ Received(k)
  \/ k.kind = "Unknown"

MaySubmit(c) == pc[c] = (IF c \in Client THEN "idle" ELSE "deciding")

Submit(c, k) ==
  /\ Open /\ LockFree
  /\ MaySubmit(c)
  /\ k \in Proposals(c)
  /\ IF Refuses(k) THEN pc' = [pc EXCEPT ![c] = "idle"] /\ cmd' = cmd
                   ELSE pc' = [pc EXCEPT ![c] = "sending"] /\ cmd' = [cmd EXCEPT ![c] = k]
  /\ refused' = IF k.station \in Station /\ SameStation(k) /\ ~ Received(k)
                THEN refused \cup {[station |-> k.station,
                                     heard |-> k.reply \in everHeard[k.station]]}
                ELSE refused
  /\ view' = [view EXCEPT ![c] = {}]
  /\ UNCHANGED <<world, loop, channel>>

\* ProposedAction::None, a proposal the tools drop, a decision that fails.
DecideNothing(a) ==
  /\ pc[a] = "deciding"
  /\ pc' = [pc EXCEPT ![a] = "idle"]
  /\ view' = [view EXCEPT ![a] = {}]
  /\ UNCHANGED <<world, loop, channel, cmd, refused>>

Queued(k, by) ==
  [from |-> k.from, kind |-> k.kind, to |-> k.to, reply |-> k.reply, by |-> by, sent |-> tick]

Enqueue(e) ==
  /\ Open
  /\ Len(accepted) < MaxAccepted
  /\ queue' = Append(queue, e)
  /\ accepted' = Append(accepted, e)
  /\ UNCHANGED <<batch, applied>>

\* station_command_tx.send, after the lock was released.
Send(c) ==
  /\ pc[c] = "sending"
  /\ Enqueue(Queued(cmd[c], c))
  /\ pc' = [pc EXCEPT ![c] = "idle"]
  /\ cmd' = [cmd EXCEPT ![c] = NoCommand]
  /\ UNCHANGED <<world, loop, view, refused>>

\* stream_station_commands converts and sends what arrives, unchecked.
StreamIn(k) ==
  /\ k.kind # "Unknown"
  /\ Enqueue(Queued(k, Stream))
  /\ UNCHANGED <<world, loop, calls, refused>>

(***************************************************************************)
(* The tick loop                                                           *)
(***************************************************************************)

Wake ==
  /\ loop = "wait"
  /\ tick < MaxTick
  /\ loop' = "drain"
  /\ UNCHANGED <<world, channel, calls, refused>>

\* Mutant: the newest command of the batch comes first.
DrainOneInFront ==
  /\ loop = "drain"
  /\ queue # <<>>
  /\ batch' = <<Head(queue)>> \o batch
  /\ queue' = Tail(queue)
  /\ UNCHANGED <<world, loop, calls, accepted, applied, refused>>

DrainOne ==
  /\ loop = "drain"
  /\ queue # <<>>
  /\ batch' = Append(batch, Head(queue))
  /\ queue' = Tail(queue)
  /\ UNCHANGED <<world, loop, calls, accepted, applied, refused>>

\* Mutant: the loop takes the lock with commands left in the channel.
DrainEndEarly ==
  /\ loop = "drain"
  /\ loop' = "step"
  /\ UNCHANGED <<world, channel, calls, refused>>

\* try_recv finds nothing; the loop takes the lock.
DrainEnd ==
  /\ loop = "drain"
  /\ queue = <<>>
  /\ loop' = "step"
  /\ UNCHANGED <<world, channel, calls, refused>>

\* try_form_contract, without stocks and credits.
Binds(offer, e) ==
  /\ offer \in DOMAIN said
  /\ said[offer].kind \in {"Offer", "Counter"}
  /\ said[offer].to = e.from
  /\ e.to = said[offer].from
  /\ e.from # e.to

\* One command of the batch (apply_station_commands).  A message of nobody is
\* skipped; whether the parties can honour a contract is left open.
Apply ==
  /\ loop = "step"
  /\ batch # <<>>
  /\ LET e == Head(batch)
         posts == e.kind \in MessageKind /\ e.from \in Station
         id == Len(said) + 1
     IN  /\ said' = IF posts
                    THEN Append(said, [from |-> e.from, kind |-> e.kind,
                                       to |-> e.to, reply |-> e.reply])
                    ELSE said
         /\ \/ bound' = bound
            \/ /\ posts /\ e.kind = "Accept" /\ Binds(e.reply, e)
               /\ bound' = bound \cup {<<e.reply, id, e.by>>}
         /\ applied' = Append(applied, e)
  /\ batch' = Tail(batch)
  /\ UNCHANGED <<tick, heard, everHeard, loop, queue, calls, accepted, refused>>

\* generate_auto_posters, later in the step.
Notice(s, kind) ==
  /\ loop = "step"
  /\ batch = <<>>
  /\ <<s, kind>> \in Notices
  /\ Len(said) < MaxSaid
  /\ said' = Append(said, [from |-> s, kind |-> kind, to |-> NoId, reply |-> NoId])
  /\ UNCHANGED <<tick, heard, everHeard, bound, loop, channel, calls, refused>>

\* Messages that have a poster and so go on the air.
Aired == {i \in DOMAIN said : said[i].kind # "Reject"}

\* The rest of step: the tick advances, and each station receives what the
\* radio brings it of the messages on the air; then the lock is released.
FinishStep ==
  /\ loop = "step"
  /\ batch = <<>>
  /\ tick' = tick + 1
  /\ \E h \in [Receiver -> SUBSET Aired] :
       /\ heard' = [s \in Station |-> IF s \in Receiver THEN h[s] ELSE {}]
       /\ everHeard' = [s \in Station |-> everHeard[s] \cup heard'[s]]
  /\ loop' = "wait"
  /\ UNCHANGED <<said, bound, channel, calls, refused>>

\* The last tick of the bounded model: stutter instead of stopping.
Finished ==
  /\ loop = "wait"
  /\ tick = MaxTick
  /\ UNCHANGED vars

TickLoop ==
  \/ Wake \/ DrainOne \/ DrainEnd \/ Apply \/ FinishStep
  \/ \E s \in Station, kind \in {"Want", "Have"} : Notice(s, kind)

Next ==
  \/ \E a \in Agent \cup Advised : Poll(a) \/ DecideNothing(a)
  \/ \E c \in Caller : Send(c) \/ \E k \in Proposals(c) : Submit(c, k)
  \/ \E k \in Streamed : StreamIn(k)
  \/ TickLoop
  \/ Finished

Spec == Init /\ [][Next]_vars

\* tokio's interval wakes the loop for ever and no call keeps the lock.
FairSpec == Spec /\ WF_vars(TickLoop)

(***************************************************************************)
(* Properties                                                              *)
(***************************************************************************)

\* Every variable has its type.
TypeOK ==
  /\ tick \in Nat
  /\ said \in Seq(MessageType)
  /\ heard \in [Station -> SUBSET (DOMAIN said)]
  /\ bound \subseteq (DOMAIN said) \X (DOMAIN said) \X (Caller \cup {Stream})
  /\ loop \in Loop
  /\ queue \in Seq(EntryType) /\ batch \in Seq(EntryType)
  /\ pc \in [Caller -> {"idle", "deciding", "sending"}]
  /\ view \in [Caller -> SUBSET (DOMAIN said)]
  /\ cmd \in [Caller -> {k \in CommandType : k.kind # "Unknown"}]
  /\ accepted \in Seq(EntryType) /\ applied \in Seq(EntryType)
  /\ everHeard \in [Station -> SUBSET (DOMAIN said)]
  /\ refused \in SUBSET RefusalType

\* An accepted command is in exactly one place, and the channel, the drained
\* batch and the applied commands follow each other in the order of
\* acceptance, whatever falls between the drain and the lock.
Log == INSTANCE CommandLog WITH Entry <- EntryType, accepted <- accepted, served <- applied
ImplementsCommandLog == Log!Spec

\* As the loop keeps ticking, every accepted command is applied.
ServesEveryCommand == Log!FairSpec

\* A command waits for no more than the next tick: while it is in the channel
\* or in the batch, the tick is that of its acceptance or the one after, even
\* when it was sent while a step held the lock (docs/services.md: "Queues a
\* validated proposal for the next engine tick").
NoneWaitsLong ==
  \A e \in Range(queue) \cup Range(batch) : tick <= e.sent + 1

\* The checks of submit_station_command still hold when the command is queued,
\* and ever after, though they were made under a lock released since: a reply
\* it let through is by a known station that received the message.
CallsAnswerReceived ==
  \A e \in Range(accepted) :
    e.by # Stream /\ e.kind # "Other" /\ e.reply # NoId =>
      e.from \in Station /\ e.reply \in everHeard[e.from]

\* A station run by the deterministic adapter answers only messages meant for
\* it or for everybody, and answers their sender, however old its view is by
\* the time the command is applied.
AgentsAnswerTheSender ==
  \A e \in Range(accepted) :
    e.by \in Agent /\ e.reply # NoId =>
      /\ said[e.reply].to \in {NoId, e.from}
      /\ e.to = said[e.reply].from
      /\ e.from = e.by

\* An acceptance that came by SubmitStationCommand binds nobody to an offer the
\* buyer never received, though the offer is looked up again a tick or more
\* after the check (docs/services.md: "Negotiation replies are rejected unless
\* their referenced message was physically received by that station").  One that
\* came over StreamStationCommands was never checked, and does.
BuyersHeardTheOffer ==
  \A p \in bound : p[3] # Stream => p[1] \in everHeard[said[p[2]].from]

\* A reply is refused as "not received by this station" only if the station
\* did not receive the message.
RefusalsTruthful == \A r \in refused : ~ r.heard

=============================================================================
