------------------------------ MODULE MCViewers ------------------------------
(***************************************************************************)
(* Instances of Viewers for TLC.                                           *)
(***************************************************************************)
EXTENDS Viewers

TwoContacts == {1, 2}

\* Four entries, one more than the feed holds, and an offer of what is wanted at
\* the same time, that the feed takes for the first one.
Want == [at |-> 1, station |-> "luna", material |-> "ore", kind |-> "WANT"]
Offer == [Want EXCEPT !.kind = "OFFER"]
Have == [Want EXCEPT !.material = "iron", !.kind = "HAVE"]
Later(m) == [m EXCEPT !.at = 2]
Notices == {Want, Offer, Have, Later(Want), Later(Have)}

Skies ==
  {[contacts |-> {2}, news |-> <<Later(Want), Later(Have)>>],
   [contacts |-> {1}, news |-> <<Want, Offer, Have>>]}
=============================================================================
