------------------------------- MODULE MCSignals -------------------------------
(***************************************************************************)
(* Instances of Signals for TLC.                                           *)
(***************************************************************************)
EXTENDS Signals

Body(id, pos, radius) ==
  [id |-> id, pos |-> pos, radius |-> radius,
   albedo |-> [Dark EXCEPT !["radio"] = 20, !["infrared"] = 30]]
Ship(id, pos, faces, emitter) == [id |-> id, pos |-> pos, faces |-> faces, emitter |-> emitter]
Post(id, pos) == [id |-> id, pos |-> pos]
Lamp == <<[angle |-> 0, width |-> 8, power |-> [Dark EXCEPT !["radio"] = 900]]>>

Moments == 5

\* A station by its planet and two others, and a ship with an emitter that comes
\* past.
OpenSky ==
  [t \in 1..Moments |->
     [bodies |-> <<Body(399, <<-4, 0>>, 2)>>,
      ships |-> <<Ship(1000, <<t - 3, 6>>, 8, Lamp)>>,
      stations |-> <<Post(2000, <<0, 0>>), Post(2001, <<6, 0>>), Post(2004, <<0, -13>>)>>]]

\* Two bodies, a third half before one of them as seen from a station, and a
\* station that hears an echo first.
Conjunction ==
  [t \in 1..Moments |->
     [bodies |-> <<Body(399, <<0, 0>>, 4), Body(301, <<9, t - 4>>, 5), Body(5, <<-6, 2>>, 2)>>,
      ships |-> <<>>,
      stations |-> <<Post(2000, <<-10, 0>>), Post(2001, <<-1, 6>>), Post(2004, <<15, 2>>)>>]]

\* Nobody listens but a ship beside a body.
NoStations ==
  [t \in 1..Moments |->
     [bodies |-> <<Body(399, <<5, t>>, 2)>>,
      ships |-> <<Ship(1000, <<-t, 0>>, 0, Lamp)>>, stations |-> <<>>]]

AllCourses == <<OpenSky, Conjunction, NoStations>>

FewOrders == {[firing |-> {}, beaming |-> {}], [firing |-> {1000}, beaming |-> {1000}]}

================================================================================
