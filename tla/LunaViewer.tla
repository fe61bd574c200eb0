----------------------------- MODULE LunaViewer -----------------------------
(***************************************************************************)
(* What the Luna viewer makes of the ticks it takes in: the track of every *)
(* contact (marita-luna/src/track.rs) and the feed of market messages      *)
(* (update_market_feed in marita-luna/src/app.rs).                         *)
(***************************************************************************)
EXTENDS TickBroadcast, SequencesExt

CONSTANTS
  Stale,        \* stale_after_ticks
  FeedCap       \* messages kept in the feed (64 in app.rs)

ASSUME LunaAssumption ==
  /\ Contact \subseteq Nat
  /\ Stale \in Nat
  /\ FeedCap \in Nat \ {0}

\* Contact id 0 is nobody to the viewer, though the engine, which hashes every id
\* it sends, sends no such contact.
Nobody == 0

VARIABLES
  tracks,       \* TrackStore.tracks: the last tick each contact was seen in
  feed          \* LunaApp.market_feed, the newest first

lunaVars == <<tracks, feed>>

LunaInit == tracks = <<>> /\ feed = <<>>

\* Detections move their track to this tick, or open one.
Sighted(p) ==
  [c \in DOMAIN tracks \cup (p.contacts \ {Nobody}) |->
     IF c \in p.contacts THEN p.tick ELSE tracks[c]]

\* Mutant: the difference does not saturate.
ElapsedEitherWay(now, then) == IF now >= then THEN now - then ELSE then - now

\* u64::saturating_sub.
Elapsed(now, then) == IF now >= then THEN now - then ELSE 0

\* TrackStore::update.
UpdatedTracks(p) ==
  LET all == Sighted(p)
  IN  Restrict(all, {c \in DOMAIN all : Elapsed(p.tick, all[c]) <= Stale})

\* Mutant: only the tick and the station of a message are compared.
SameStationAndTick(m, n) == m.at = n.at /\ m.station = n.station

SameNotice(m, n) == SameStationAndTick(m, n) /\ m.material = n.material

Pushed(entries, m) ==
  IF \E i \in DOMAIN entries : SameNotice(entries[i], m) THEN entries ELSE <<m>> \o entries

\* LunaApp::update_market_feed.
UpdatedFeed(p) ==
  LET all == FoldLeft(Pushed, feed, p.news)
  IN  SubSeq(all, 1, IF Len(all) > FeedCap THEN FeedCap ELSE Len(all))

\* LunaApp::try_recv_state, one state of it.
LunaTakeIn ==
  /\ user = "Luna"
  /\ TakeIn
  /\ tracks' = UpdatedTracks(log[Head(inbox)])
  /\ feed' = UpdatedFeed(log[Head(inbox)])

=============================================================================
