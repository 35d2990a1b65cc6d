------------------------------- MODULE Payload -------------------------------
(***************************************************************************)
(* The bounded views that server.py cuts out of the graph: the core         *)
(* neighbourhood of graph_payload, the family of _family_payload, plain and *)
(* expanded, and all processes (_all_payload); and the tree that cg tree    *)
(* prints.  With them the walks of traverse.py they are made of.            *)
(*                                                                         *)
(* Every spawn relation over the processes is an initial state, cyclic ones *)
(* too (a pid reused at the wrong moment makes one, see module Capture).    *)
(* Children are listed in id order, which stands for busiest first, and the *)
(* file causes, which have no successors of their own, in id order after   *)
(* the processes.                                                           *)
(***************************************************************************)
EXTENDS Integers, Sequences, FiniteSets, Lists

CONSTANTS
  N,         \* processes 1..N
  F,         \* the culprit has up to F file causes, N+1, N+2, ...
  ChildCap,  \* CHILD_CAP
  WideCap,   \* the cap on children with expand
  SibCap,    \* SIBLING_CAP
  Acyclic,   \* only spawn relations without cycles
  Modes      \* the views asked for

ASSUME PayloadAssumption ==
  /\ {N, ChildCap, WideCap, SibCap} \subseteq Nat \ {0} /\ F \in Nat
  /\ Acyclic \in BOOLEAN
  /\ Modes \subseteq {"core", "family", "expand", "all", "tree"}

VARIABLES
  parent,     \* the spawn parent of each process, 0 if it has none
  files,      \* the culprit's file causes
  culprit, cap, mode,
  sel,        \* the nodes selected, in order
  truncated,
  dq,         \* the walk's deque
  seen,       \* the walk's seen set (core and tree)
  weak,       \* the file edges of the graph that are below min_confidence
  edges,      \* the edges of the payload
  pc

input == <<parent, files, culprit, cap, mode>>
vars == <<input, sel, truncated, dq, seen, weak, edges, pc>>

Process == 1..N

(* The ids of every set, in order. *)
Listed == [S \in SUBSET (1..(N + F)) |-> Keep([i \in 1..(N + F) |-> i], S)]

InOrder(S) == Listed[S]

First(s, n) == SubSeq(s, 1, IF Len(s) < n THEN Len(s) ELSE n)
Last(s, n) == SubSeq(s, IF Len(s) < n THEN 1 ELSE Len(s) - n + 1, Len(s))

(* _spawn_children and successors: a process spawned by itself is no child. *)
Children(k) == InOrder({c \in Process : parent[c] = k})

(* The n-th ancestor of k, 0 beyond the root. *)
ParentOf == [k \in 0..N |-> IF k = 0 THEN 0 ELSE parent[k]]
Up(k) == LET up[n \in 0..N] == IF n = 0 THEN k ELSE ParentOf[up[n - 1]] IN up

HasCycle == \E k \in Process : Up(k)[N] # 0

(* ancestry_path: root first, cut where a cycle would begin. *)
AncestryPath(k) ==
  LET up == Up(k)
      depth == Cardinality({up[n] : n \in 0..N} \ {0})
  IN  [i \in 1..depth |-> up[depth - i]]

(* k and everything up to n generations below it. *)
Down(k) ==
  LET down[n \in 0..N] ==
        IF n = 0 THEN {k}
        ELSE LET S == down[n - 1] IN S \cup {c \in Process : parent[c] \in S}
  IN  down

Descendants(k) == Down(k)[N] \ {k}

Init ==
  /\ parent \in {f \in [Process -> 0..N] : \A p \in Process : f[p] # p}
  /\ Acyclic => ~HasCycle
  /\ files = {} /\ culprit = 0 /\ cap = 0 /\ mode = "none"
  /\ sel = <<>> /\ truncated = FALSE /\ dq = <<>> /\ seen = {}
  /\ weak = {} /\ edges = {}
  /\ pc = "idle"

(* A view of one process, or of all, is asked for; max_nodes is at least 1. *)
GraphPayload ==
  /\ pc = "idle"
  /\ mode' \in Modes
  /\ IF mode' = "all" THEN culprit' = 0 ELSE culprit' \in Process
  /\ IF mode' = "tree" THEN cap' = N + F ELSE cap' \in 1..(N + F)
  /\ IF mode' \in {"all", "tree"} THEN files' = {}
     ELSE \E n \in 0..F : files' = (N + 1)..(N + n)
  /\ pc' = "asked"
  /\ UNCHANGED <<parent, sel, truncated, dq, seen, weak, edges>>

Family == mode \in {"family", "expand"}
KidsShown == IF mode = "expand" THEN WideCap ELSE ChildCap

SpawnEdges == {<<parent[k], k>> : k \in {c \in Process : parent[c] # 0}}

(* The nodes and edges are written out: the edges between the nodes         *)
(* selected, in the family view none that is weak.  The causes found for    *)
(* the culprit are not; the same file may be a weak cause of a process (one *)
(* at most is tried) that is in the picture too.                            *)
Emit ==
  /\ pc = "emit"
  /\ weak' \in {{}} \cup {{<<f, p>>} : f \in files, p \in Process \ {culprit}}
  /\ edges' = {e \in SpawnEdges \cup (files \X {culprit}) \cup weak' :
                  /\ {e[1], e[2]} \subseteq Elements(sel)
                  /\ Family => e \notin weak'}
  /\ pc' = "done"
  /\ UNCHANGED <<input, sel, truncated, dq, seen>>

AllPayload ==
  /\ mode = "all" /\ pc = "asked"
  /\ sel' = First(InOrder(Process), cap)
  /\ truncated' = (N > cap)
  /\ pc' = "emit"
  /\ UNCHANGED <<input, dq, seen, weak, edges>>

-----------------------------------------------------------------------------

(* The family view's add, of the nodes xs one after the other: the first    *)
(* ones are taken, as long as there is room when their turn comes.          *)
NotIn(s, xs) == Keep(xs, {i \in DOMAIN xs : xs[i] \notin Elements(s)})

Taken(xs) ==
  SubSeq(xs, 1, Cardinality({i \in DOMAIN xs :
           Cardinality({j \in 1..(i - 1) : xs[j] \notin Elements(sel)}) < cap - Len(sel)}))

Add(xs) == sel' = sel \o NotIn(sel, Taken(xs))

Refused(xs) == Taken(xs) # xs

FamilyAncestry ==
  /\ Family /\ pc = "asked"
  /\ Add(AncestryPath(culprit))
  /\ truncated' = Refused(AncestryPath(culprit))
  /\ pc' = "causes"
  /\ UNCHANGED <<input, dq, seen, weak, edges>>

FamilyCauses ==
  /\ Family /\ pc = "causes"
  /\ Add(InOrder(files))
  /\ truncated' = (truncated \/ Refused(InOrder(files)))
  /\ dq' = <<culprit>>
  /\ pc' = "walk"
  /\ UNCHANGED <<input, seen, weak, edges>>

(* Queues all children, those beyond the cap as well. *)
FamilyWalkQueuesAll ==
  /\ Family /\ pc = "walk"
  /\ dq # <<>> /\ Len(sel) < cap
  /\ LET kids == Children(Head(dq))
         shown == First(kids, KidsShown)
     IN  /\ Add(shown)
         /\ truncated' = (truncated \/ Refused(shown) \/ Len(kids) > KidsShown)
         /\ dq' = Tail(dq) \o kids
  /\ UNCHANGED <<input, seen, weak, edges, pc>>

(* One round of the bounded walk down; a child that add lets in is queued,  *)
(* whether it was selected before or not.                                   *)
FamilyWalk ==
  /\ Family /\ pc = "walk"
  /\ dq # <<>> /\ Len(sel) < cap
  /\ LET kids == Children(Head(dq))
         shown == First(kids, KidsShown)
     IN  /\ Add(shown)
         /\ truncated' = (truncated \/ Refused(shown) \/ Len(kids) > KidsShown)
         /\ dq' = Tail(dq) \o Taken(shown)
  /\ UNCHANGED <<input, seen, weak, edges, pc>>

(* The siblings, when there is a parent; and the payload is complete. *)
FamilySiblings ==
  /\ Family /\ pc = "walk"
  /\ dq = <<>> \/ Len(sel) >= cap
  /\ LET anc == AncestryPath(culprit)
         sibs == IF Len(anc) >= 2 THEN Children(anc[Len(anc) - 1]) ELSE <<>>
         shown == First(sibs, SibCap)
     IN  /\ Add(shown)
         /\ truncated' = (truncated \/ Refused(shown) \/ Len(sibs) > SibCap)
  /\ pc' = "emit"
  /\ UNCHANGED <<input, dq, seen, weak, edges>>

-----------------------------------------------------------------------------

(* Keeps the ancestors closest to the root. *)
CoreAncestryKeepsRoots ==
  /\ mode = "core" /\ pc = "asked"
  /\ sel' = First(AncestryPath(culprit), cap)
  /\ truncated' = (Len(AncestryPath(culprit)) > cap)
  /\ pc' = "causes"
  /\ UNCHANGED <<input, dq, seen, weak, edges>>

(* Keeps the ancestors closest to the culprit. *)
CoreAncestry ==
  /\ mode = "core" /\ pc = "asked"
  /\ sel' = Last(AncestryPath(culprit), cap)
  /\ truncated' = (Len(AncestryPath(culprit)) > cap)
  /\ pc' = "causes"
  /\ UNCHANGED <<input, dq, seen, weak, edges>>

CoreCauses ==
  /\ mode = "core" /\ pc = "causes"
  /\ sel' = sel \o First(InOrder(files), cap - Len(sel))
  /\ truncated' = (truncated \/ Cardinality(files) > cap - Len(sel))
  /\ dq' = Children(culprit)
  /\ seen' = {culprit}
  /\ pc' = "walk"
  /\ UNCHANGED <<input, weak, edges>>

(* The walks of descendants_bfs and subtree pass over a node they have had. *)
SkipSeen ==
  /\ mode \in {"core", "tree"} /\ pc = "walk"
  /\ dq # <<>> /\ Head(dq) \in seen
  /\ dq' = Tail(dq)
  /\ UNCHANGED <<input, sel, truncated, seen, weak, edges, pc>>

(* Forgets what it has seen. *)
CoreWalkForgets ==
  /\ mode = "core" /\ pc = "walk"
  /\ dq # <<>>
  /\ \/ /\ Len(sel) >= cap
        /\ truncated' = TRUE
        /\ pc' = "emit"
        /\ UNCHANGED <<sel, dq>>
     \/ /\ Len(sel) < cap
        /\ sel' = IF Head(dq) \in Elements(sel) THEN sel ELSE Append(sel, Head(dq))
        /\ dq' = Tail(dq) \o Children(Head(dq))
        /\ UNCHANGED <<truncated, pc>>
  /\ UNCHANGED <<input, seen, weak, edges>>

(* descendants_bfs gives the next node, or the cap ends the walk. *)
CoreWalk ==
  /\ mode = "core" /\ pc = "walk"
  /\ dq # <<>> /\ Head(dq) \notin seen
  /\ seen' = seen \cup {Head(dq)}
  /\ \/ /\ Len(sel) >= cap
        /\ truncated' = TRUE
        /\ pc' = "emit"
        /\ UNCHANGED <<sel, dq>>
     \/ /\ Len(sel) < cap
        /\ sel' = IF Head(dq) \in Elements(sel) THEN sel ELSE Append(sel, Head(dq))
        /\ dq' = Tail(dq) \o Children(Head(dq))
        /\ UNCHANGED <<truncated, pc>>
  /\ UNCHANGED <<input, weak, edges>>

CoreDone ==
  /\ mode = "core" /\ pc = "walk"
  /\ dq = <<>>
  /\ pc' = "emit"
  /\ UNCHANGED <<input, sel, truncated, dq, seen, weak, edges>>

-----------------------------------------------------------------------------
(* cg tree: subtree's recursion, dq being what its calls have yet to visit. *)

TreeStart ==
  /\ mode = "tree" /\ pc = "asked"
  /\ dq' = <<culprit>>
  /\ pc' = "walk"
  /\ UNCHANGED <<input, sel, truncated, seen, weak, edges>>

TreeWalkLater ==
  /\ mode = "tree" /\ pc = "walk"
  /\ dq # <<>> /\ Head(dq) \notin seen
  /\ seen' = seen \cup {Head(dq)}
  /\ sel' = Append(sel, Head(dq))
  /\ dq' = Tail(dq) \o Children(Head(dq))
  /\ UNCHANGED <<input, truncated, weak, edges, pc>>

TreeWalk ==
  /\ mode = "tree" /\ pc = "walk"
  /\ dq # <<>> /\ Head(dq) \notin seen
  /\ seen' = seen \cup {Head(dq)}
  /\ sel' = Append(sel, Head(dq))
  /\ dq' = Children(Head(dq)) \o Tail(dq)
  /\ UNCHANGED <<input, truncated, weak, edges, pc>>

TreeDone ==
  /\ mode = "tree" /\ pc = "walk"
  /\ dq = <<>>
  /\ pc' = "done"
  /\ UNCHANGED <<input, sel, truncated, dq, seen, weak, edges>>

Walk ==
  \/ FamilyAncestry \/ FamilyCauses \/ FamilyWalk \/ FamilySiblings
  \/ CoreAncestry \/ CoreCauses \/ SkipSeen \/ CoreWalk \/ CoreDone
  \/ TreeStart \/ TreeWalk \/ TreeDone
  \/ AllPayload \/ Emit

Next == GraphPayload \/ Walk

Spec == Init /\ [][Next]_vars

(* A request's thread runs on. *)
FairSpec == Spec /\ WF_vars(Walk)

-----------------------------------------------------------------------------

Item == 1..(N + F)

TypeOK ==
  /\ parent \in [Process -> 0..N]
  /\ files \subseteq Item /\ culprit \in Process \cup {0} /\ cap \in Item \cup {0}
  /\ mode \in Modes \cup {"none"}
  /\ sel \in Seq(Item) /\ Len(sel) <= cap
  /\ Cardinality(Elements(sel)) = Len(sel)
  /\ truncated \in BOOLEAN
  /\ dq \in Seq(Process) /\ seen \subseteq Process
  /\ weak \subseteq Item \X Process /\ edges \subseteq Item \X Process
  /\ pc \in {"idle", "asked", "causes", "walk", "emit", "done"}

(* What the view would hold without its caps. *)
Whole ==
  IF mode = "all" THEN Process
  ELSE LET anc == AncestryPath(culprit)
       IN  Descendants(culprit) \cup
           CASE mode = "tree" -> {culprit}
             [] mode = "core" -> Elements(anc) \cup files
             [] Family -> Elements(anc) \cup files
                          \cup IF Len(anc) >= 2 THEN Elements(Children(anc[Len(anc) - 1])) ELSE {}

(* Whatever the caps cut off, the picture of a process hangs together: an   *)
(* edge leads to every process in it but the topmost, and from every file.  *)
HangsTogether ==
  mode \in {"core", "family", "expand"} /\ pc = "done" =>
    \A i \in 2..Len(sel) :
      \E e \in edges : IF sel[i] \in Process THEN e[2] = sel[i] ELSE e[1] = sel[i]

(* The core view shows the culprit whatever its depth ("a payload always    *)
(* has at least the culprit"), and says "truncated" if something of the     *)
(* ancestry, the causes and the subtree is missing; and only then, unless   *)
(* the spawn relation has a cycle.  So does the view of all processes; the  *)
(* tree is never cut.                                                       *)
ExactOrTruncated ==
  mode \in {"core", "all", "tree"} /\ pc = "done" =>
    /\ culprit \in Elements(sel) \cup {0}
    /\ Elements(sel) # Whole => truncated /\ mode # "tree"
    /\ truncated => Elements(sel) # Whole \/ HasCycle

(* cg tree indents a process below its parent: between the two it prints    *)
(* only what the parent brought about.                                      *)
TreeIsNested ==
  mode = "tree" /\ pc = "done" =>
    \A i \in DOMAIN sel : \A j \in (i + 1)..Len(sel) :
      parent[sel[j]] = sel[i] =>
        \A m \in (i + 1)..j : sel[m] \in Descendants(sel[i])

(* Every view is done in the end, but for the family's only the ones that   *)
(* meet no cycle of pids ("pid data is untrusted").                         *)
Terminates ==
  pc = "asked" ~> (pc = "done" \/ (Family /\ HasCycle))

(* "bounded BFS of the subtree" (_family_payload): it ends for every graph. *)
FamilyTerminates == pc = "asked" ~> pc = "done"

(* "a payload always has at least the culprit" (graph_payload), in the      *)
(* family view.                                                             *)
FamilyShowsCulprit ==
  Family /\ pc = "done" => culprit \in Elements(sel)

(* "capped -> flagged as truncated" (test_api.py): a family view that is    *)
(* not truncated shows the whole family.                                    *)
FamilyFlagsTheCut ==
  Family /\ pc = "done" /\ ~truncated => Elements(sel) = Whole

(* "weak edges are hidden unless min_confidence is lowered" (causes).       *)
WeakEdgesHidden == edges \cap weak = {}
=============================================================================
