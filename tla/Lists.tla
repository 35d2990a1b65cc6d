--------------------------------- MODULE Lists ---------------------------------
(***************************************************************************)
(* What the programs' lists are asked: their elements, and the elements at *)
(* some of their places, which is what a comprehension with an "if" keeps.  *)
(***************************************************************************)
EXTENDS Naturals, Sequences

Elements(s) == {s[i] : i \in DOMAIN s}

(* The elements of s at the places in I, in their order.  A recursive       *)
(* function, and not SelectSeq, so that it can be reasoned about.           *)
Keep(s, I) ==
  LET kept[n \in 0..Len(s)] ==
        IF n = 0 THEN <<>>
        ELSE IF n \in I THEN Append(kept[n - 1], s[n]) ELSE kept[n - 1]
  IN  kept[Len(s)]

(* The lists of a list, one after the other. *)
Flatten(lists) ==
  LET flat[n \in 0..Len(lists)] == IF n = 0 THEN <<>> ELSE flat[n - 1] \o lists[n]
  IN  flat[Len(lists)]
=============================================================================
