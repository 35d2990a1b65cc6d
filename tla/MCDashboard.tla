----------------------------- MODULE MCDashboard -----------------------------
(* The safety run goes past two events only as long as nobody clicks ahead  *)
(* of the answers: what it says of alerts and of a settled page is reserved *)
(* to such pages.                                                           *)
EXTENDS Dashboard, TLC

CallSymmetry == Permutations(Call)
Relevant == overlapped => newest <= 2

(* The second process comes later, and the first is evicted at the end.     *)
LaterBorn == <<1, 2>>
LateGone == <<4, 9>>

(* Both are there from the start, and the first is evicted next.            *)
BothBorn == <<1, 1>>
SoonGone == <<2, 9>>
=============================================================================
