---------------------------- MODULE TickBroadcast ----------------------------
(***************************************************************************)
(* The engine as a process that is started, ticks, publishes every tick    *)
(* and may die, its checkpoint file, and the connection of one viewer.     *)
(*                                                                         *)
(* The tick loop of marita-grpc/src/service.rs sends each tick into a      *)
(* broadcast ring; a stream reads the ring at its own place and ends with  *)
(* an error once that place is overwritten.  The client (client.rs of both *)
(* viewers) hands what arrives to the program through an unbounded channel *)
(* and connects again after a second, to whatever is published then.       *)
(* Nothing but the number of a publication, its tick, the contacts and the *)
(* news in it is kept of a tick.                                           *)
(***************************************************************************)
EXTENDS Integers, Sequences, Functions

CONSTANTS
  Contact,      \* anonymous contact ids
  Message,      \* market messages: [at, station, material, kind, ...]
  Sky,          \* what a tick may bring: [contacts, news]
  Ring          \* capacity of the broadcast channel (16 in server.rs)

\* Bounds of the model; the code has none.
CONSTANTS
  MaxPublished, \* ticks published in all
  MaxRuns,      \* starts of the engine
  MaxLinks,     \* connections of the viewer
  WireCap       \* messages of a stream under way

NoFile == -1
Torn == -2      \* a checkpoint that was truncated and not yet written

Program == {"Luna", "Admin", "Scenario"}

Nothing == [contacts |-> {}, news |-> <<>>]

PublicationType == [tick : Nat, contacts : SUBSET Contact, news : Seq(Message)]

ASSUME BroadcastAssumption ==
  /\ Sky \subseteq [contacts : SUBSET Contact, news : Seq(Message)]
  /\ Sky # {}
  /\ Ring \in Nat \ {0}
  /\ MaxPublished \in Nat /\ MaxRuns \in Nat /\ MaxLinks \in Nat /\ WireCap \in Nat

VARIABLES
  user,         \* the program the user runs beside the engine
  engine,       \* whether the engine process is up
  runs,         \* how often it was started
  tick,         \* SimulationState.tick of the running engine
  log,          \* every publication, of all runs; the ring holds the last ones
  file,         \* the checkpoint on disk: its tick, NoFile or Torn
  conn,         \* the client's view of its stream: "down" or "up"
  stream,       \* the server's end of it: "none", "open" or "ended"
  links,        \* connections made; the present one has this number
  since,        \* the publication the present connection began at
  next,         \* the publication the server's receiver reads next
  wire,         \* publications on the way to the client
  inbox,        \* the channel from the client's thread to the program
  shown,        \* the publication the program shows, 0 at first
  got           \* history: the publications the program has taken in

process == <<engine, runs, tick, log>>
link == <<conn, stream, links, since, next, wire>>
screen == <<inbox, shown, got>>
broadcastVars == <<user, process, file, link, screen>>

BroadcastInit ==
  /\ user \in Program
  /\ engine = "down" /\ runs = 0 /\ tick = 0
  /\ log = <<>>
  /\ file \in {NoFile, 1}
  /\ conn = "down" /\ stream = "none" /\ links = 0
  /\ since = 1 /\ next = 1
  /\ wire = <<>> /\ inbox = <<>>
  /\ shown = 0 /\ got = {}

(***************************************************************************)
(* The engine                                                              *)
(***************************************************************************)

\* Mutant: a checkpoint that was only truncated can be loaded.
LoadableTorn == file # NoFile

\* What --checkpoint-in finds: a whole checkpoint, or an error and no engine.
Loadable == file \notin {NoFile, Torn}

\* The tick of the state serve starts with: of the ephemeris or a checkpoint.
StartTick(fromFile) == IF fromFile THEN file ELSE 0

Serve(fromFile) ==
  /\ engine = "down"
  /\ runs < MaxRuns
  /\ fromFile => Loadable
  /\ engine' = "up"
  /\ runs' = runs + 1
  /\ tick' = StartTick(fromFile)
  /\ UNCHANGED <<user, log, file, link, screen>>

\* Only the Luna viewer looks into a tick.
Outcomes == IF user = "Luna" THEN Sky ELSE {Nothing}

\* One round of tick_loop: the state advances and the tick is sent.
Publish(seen) ==
  /\ engine = "up"
  /\ Len(log) < MaxPublished
  /\ tick' = tick + 1
  /\ log' = Append(log, [tick |-> tick + 1, contacts |-> seen.contacts, news |-> seen.news])
  /\ UNCHANGED <<user, engine, runs, file, link, screen>>

\* The process dies; what its streams had sent may still arrive.
Crash ==
  /\ engine = "up"
  /\ engine' = "down"
  /\ stream' = IF stream = "open" THEN "ended" ELSE stream
  /\ UNCHANGED <<user, runs, tick, log, file, conn, links, since, next, wire, screen>>

(***************************************************************************)
(* The stream                                                              *)
(***************************************************************************)

\* tick_rx.resubscribe(): from the next publication on.
Resubscribe == Len(log) + 1

Connect ==
  /\ user \in {"Luna", "Admin"}
  /\ conn = "down"
  /\ engine = "up"
  /\ links < MaxLinks
  /\ conn' = "up" /\ stream' = "open"
  /\ links' = links + 1
  /\ since' = Resubscribe /\ next' = Resubscribe
  /\ wire' = <<>>
  /\ UNCHANGED <<user, process, file, screen>>

\* Publication n has left the ring.
Overwritten(n) == n + Ring <= Len(log)

\* Mutant: a receiver waits until another publication follows the next one.
RelayLate ==
  /\ stream = "open"
  /\ Len(wire) < WireCap
  /\ next < Len(log)
  /\ ~ Overwritten(next)
  /\ wire' = Append(wire, next)
  /\ next' = next + 1
  /\ UNCHANGED <<user, process, file, conn, stream, links, since, screen>>

\* The next publication, still in the ring, goes out.
Relay ==
  /\ stream = "open"
  /\ Len(wire) < WireCap
  /\ next <= Len(log)
  /\ ~ Overwritten(next)
  /\ wire' = Append(wire, next)
  /\ next' = next + 1
  /\ UNCHANGED <<user, process, file, conn, stream, links, since, screen>>

\* Mutant: a receiver that lags goes on with the oldest publication left.
LagOn ==
  /\ stream = "open"
  /\ Len(wire) < WireCap
  /\ Overwritten(next)
  /\ next' = Len(log) - Ring + 1
  /\ UNCHANGED <<user, process, file, conn, stream, links, since, wire, screen>>

\* BroadcastStream reports the lag; "tick broadcast closed" ends the stream.
Lag ==
  /\ stream = "open"
  /\ Len(wire) < WireCap
  /\ Overwritten(next)
  /\ stream' = "ended"
  /\ UNCHANGED <<user, process, file, conn, links, since, next, wire, screen>>

\* The network drops the connection and what is under way.
Break ==
  /\ conn = "up"
  /\ conn' = "down" /\ stream' = "none"
  /\ wire' = <<>>
  /\ UNCHANGED <<user, process, file, links, since, next, screen>>

\* stream.message() yields a tick, which the client sends to the program.
Receive ==
  /\ conn = "up"
  /\ wire # <<>>
  /\ inbox' = Append(inbox, Head(wire))
  /\ wire' = Tail(wire)
  /\ UNCHANGED <<user, process, file, conn, stream, links, since, next, shown, got>>

\* stream.message() yields the end or an error; the client sleeps a second.
EndOfStream ==
  /\ conn = "up"
  /\ wire = <<>>
  /\ stream = "ended"
  /\ conn' = "down" /\ stream' = "none"
  /\ UNCHANGED <<user, process, file, links, since, next, wire, screen>>

\* Mutant: the newest state is taken first, the others after it.
TakeInNewest ==
  /\ inbox # <<>>
  /\ inbox' = SubSeq(inbox, 1, Len(inbox) - 1)
  /\ shown' = inbox[Len(inbox)]
  /\ got' = got \cup {inbox[Len(inbox)]}
  /\ UNCHANGED <<user, process, file, link>>

\* try_recv_state takes the next state in.
TakeIn ==
  /\ inbox # <<>>
  /\ inbox' = Tail(inbox)
  /\ shown' = Head(inbox)
  /\ got' = got \cup {Head(inbox)}
  /\ UNCHANGED <<user, process, file, link>>

=============================================================================
