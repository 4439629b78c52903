--------------------------- MODULE MCRegistration ---------------------------
(***************************************************************************)
(* Instances of Registration for TLC.                                       *)
(***************************************************************************)
EXTENDS Registration, TLC

CONSTANTS u1, u2, p1, p2, f1, f2, h1, h2

\* Students, form numbers and requests may be exchanged (numbers too, but trying
\* every exchange costs more than it saves).
Symmetry == Permutations(User) \cup Permutations(Form) \cup Permutations(Handler)
=============================================================================
