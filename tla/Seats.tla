-------------------------------- MODULE Seats --------------------------------
(***************************************************************************)
(* What registration promises: a form number is one seat.  It is empty or   *)
(* held by those who have filled in its registration, each known by an      *)
(* account, if signed in, and a contact number.  Nobody gets in among them  *)
(* who is not acquainted with one of them, by account or by number.         *)
(***************************************************************************)
CONSTANTS NULL, Seat, Account, Number

VARIABLE holders  \* who holds each seat, {} if it is empty

Person == [actor : Account \cup {NULL}, phone : Number]
Known(p, S) == \E q \in S : q.phone = p.phone \/ (p.actor # NULL /\ q.actor = p.actor)

Init == holders = [s \in Seat |-> {}]

\* A person takes an empty seat.
Take(s, p) == holders[s] = {} /\ holders' = [holders EXCEPT ![s] = {p}]

\* One whom the holders know joins them, and may move them to an empty seat.
Join(s, p) ==
  /\ Known(p, holders[s])
  /\ \/ holders' = [holders EXCEPT ![s] = @ \cup {p}]
     \/ \E t \in Seat \ {s} :
          /\ holders[t] = {}
          /\ holders' = [holders EXCEPT ![t] = holders[s] \cup {p}, ![s] = {}]

\* The desk clears a seat.
Clear(s) == holders[s] # {} /\ holders' = [holders EXCEPT ![s] = {}]

Next == \E s \in Seat : Clear(s) \/ \E p \in Person : Take(s, p) \/ Join(s, p)

Spec == Init /\ [][Next]_holders
=============================================================================
