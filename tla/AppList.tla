------------------------------- MODULE AppList -------------------------------
(***************************************************************************)
(* What the toolbar of the launcher promises its user: a list of running   *)
(* applications to which each launch adds one entry, from which an entry   *)
(* disappears for good, and which is empty while there is no window.       *)
(***************************************************************************)
CONSTANT Handle
VARIABLES listed, used, open

vars == <<listed, used, open>>

Init == listed = {} /\ used = {} /\ open \in BOOLEAN

Add(h) ==
  /\ open /\ h \notin used
  /\ listed' = listed \cup {h}
  /\ used' = used \cup {h}
  /\ UNCHANGED open

Remove(h) ==
  /\ h \in listed
  /\ listed' = listed \ {h}
  /\ UNCHANGED <<used, open>>

Close ==
  /\ open
  /\ open' = FALSE /\ listed' = {}
  /\ UNCHANGED used

Next == Close \/ \E h \in Handle : Add(h) \/ Remove(h)

Spec == Init /\ [][Next]_vars
=============================================================================
