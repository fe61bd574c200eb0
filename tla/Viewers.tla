------------------------------- MODULE Viewers -------------------------------
(***************************************************************************)
(* The engine as a process, its checkpoint, and one program beside it: the *)
(* Luna viewer, the admin viewer or a scenario run.                        *)
(***************************************************************************)
EXTENDS Checkpoints, LunaViewer, AdminViewer, FiniteSets

vars == <<broadcastVars, batchVars, lunaVars, adminVars>>

Init == BroadcastInit /\ CheckpointInit /\ LunaInit /\ AdminInit

Process ==
  \/ /\ \E fromFile \in BOOLEAN : Serve(fromFile)
     /\ UNCHANGED <<batchVars, lunaVars, adminVars>>
  \/ /\ \E seen \in Outcomes : FlyTick(seen)
     /\ UNCHANGED <<batchVars, lunaVars>>
  \/ AdminCrash /\ UNCHANGED <<batchVars, lunaVars>>

Connection ==
  \/ user = "Luna" /\ Connect /\ UNCHANGED <<batchVars, lunaVars, adminVars>>
  \/ AdminConnect /\ UNCHANGED <<batchVars, lunaVars>>
  \/ Break /\ UNCHANGED <<batchVars, lunaVars, adminVars>>

Transport ==
  /\ Relay \/ Lag \/ Receive \/ EndOfStream
  /\ UNCHANGED <<batchVars, lunaVars, adminVars>>

TakeInState ==
  \/ LunaTakeIn /\ UNCHANGED <<batchVars, adminVars>>
  \/ AdminTakeIn /\ UNCHANGED <<batchVars, lunaVars>>

Next ==
  \/ Process
  \/ Connection
  \/ Transport
  \/ TakeInState
  \/ AdminNext /\ UNCHANGED <<batchVars, lunaVars>>
  \/ BatchNext /\ UNCHANGED <<lunaVars, adminVars>>

Spec == Init /\ [][Next]_vars

\* The runtimes of both ends go on as long as there is something to do, and the
\* frames of a viewer come round.  Nothing makes the engine tick, stay up or
\* the user connect.
FairSpec == Spec /\ WF_vars(Transport) /\ WF_vars(TakeInState)

(***************************************************************************)
(* Properties                                                              *)
(***************************************************************************)

\* What a viewer shows moves on from one publication to a later one through
\* crashes of the engine, lags of the ring, lost connections and states left
\* over in the channel from before (TickFeed).
Feed == INSTANCE TickFeed WITH published <- Len(log), shown <- shown

ImplementsTickFeed == Feed!Spec

\* A stream that lags ends instead of leaving ticks out (service.rs, "tick
\* broadcast closed"): while a connection lasts, everything published since it
\* began and already read from the ring is shown, in the channel or under way.
NoSilentGap ==
  conn = "up" => since..(next - 1) \subseteq Range(wire) \cup Range(inbox) \cup got

\* Every publication during a connection is taken in, or the connection ends:
\* a stream that lags for ever, or waits for ever, would leave it unseen.
EveryTickShown ==
  \A n \in 1..MaxPublished :
    (conn = "up" /\ since <= n /\ n <= Len(log)) ~> (n \in got \/ conn = "down")

\* The publications taken in that a contact was seen in.
Sightings(c) == {n \in got : c \in log[n].contacts}

LastSighting(c) == CHOOSE n \in Sightings(c) : \A k \in Sightings(c) : k <= n

\* A contact has a track from its last sighting until a state is taken in that
\* is more than Stale ticks ahead of it.  States of an engine that started
\* anew, whose ticks begin again, end no track (TrackStore::update).
TracksFollowSightings ==
  \A c \in Contact \ {Nobody} :
    LET kept == /\ Sightings(c) # {}
                /\ \A k \in got : k > LastSighting(c) =>
                     log[k].tick <= log[LastSighting(c)].tick + Stale
    IN  /\ c \in DOMAIN tracks <=> kept
        /\ kept => tracks[c] = log[LastSighting(c)].tick

\* The market feed is never longer than its limit and shows nothing that was not
\* heard.  It shows at most one message of a station, tick and material, and
\* until it reached its limit one for all that were heard: of a WANT and an OFFER
\* that differ in nothing else it drops the later, as if it were one of the
\* "duplicates from repeated signal arrivals" app.rs means to avoid.
FeedComplete ==
  /\ Len(feed) <= FeedCap
  /\ \A i \in DOMAIN feed : \E n \in got : feed[i] \in Range(log[n].news)
  /\ \A i, j \in DOMAIN feed : SameNotice(feed[i], feed[j]) => i = j
  /\ Len(feed) < FeedCap => \A n \in got : \A m \in Range(log[n].news) :
       \E i \in DOMAIN feed :
         <<feed[i].at, feed[i].station, feed[i].material>> = <<m.at, m.station, m.material>>

\* The commands at each place there is for one: the queue, the channel of the
\* engine, the ship, the commands a tick passed over, the lost ones, and the
\* request stream of each connection.
Held ==
  <<Range(queue), Range(channel), Range(flown), passedOver, lost>>
    \o [k \in Link |-> Range(uplink[k])]

\* A command of the admin viewer is at every moment in exactly one place, how
\* many forwarders ever share the queue: it flies a ship at most once, and it
\* is lost only with a connection or because it was not the first of a tick.
CommandsAccounted ==
  /\ UNION Range(Held) = 1..pushed
  /\ \A p, q \in DOMAIN Held : p # q => Held[p] \cap Held[q] = {}
  /\ \A s \in {queue, channel, flown} \cup Range(uplink) : IsInjective(s)

\* An engine starts at tick 0 or at the end of a run that was saved: never from
\* a checkpoint that a dying or a running scenario has left truncated.
ServedFromASave ==
  [][engine = "down" /\ engine' = "up" => tick' \in saved \cup {0}]_vars

=============================================================================
