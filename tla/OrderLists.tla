----------------------------- MODULE OrderLists -----------------------------
(***************************************************************************)
(* What the insertion protocol of rdtool/src/omrd.cpp promises: inserts of *)
(* different workers go on side by side, each using up room beside its own *)
(* base; a list without room is marked; and relabelling an order is one    *)
(* indivisible step that happens while nobody inserts and gives room back  *)
(* to exactly the lists marked in that order.                              *)
(***************************************************************************)
EXTENDS Naturals

CONSTANTS Workers, Orders, Lists, OrderOf(_), MaxGap

VARIABLES
  busy,    \* workers inside an insert
  room,    \* how often each worker can still insert in each list
  marked   \* lists waiting for a relabel

vars == <<busy, room, marked>>

Init ==
  /\ busy = {}
  /\ \E g \in 0 .. MaxGap : room = [w \in Workers |-> [l \in Lists |-> g]]
  /\ marked = {}

Begin(w) == w \notin busy /\ busy' = busy \cup {w} /\ UNCHANGED <<room, marked>>
End(w)   == w \in busy /\ busy' = busy \ {w} /\ UNCHANGED <<room, marked>>

Insert(w, l) ==
  /\ w \in busy
  /\ room[w][l] > 0
  /\ room' = [room EXCEPT ![w][l] = @ - 1]
  /\ UNCHANGED <<busy, marked>>

Mark(w, l) ==
  /\ w \in busy
  /\ marked' = marked \cup {l}
  /\ UNCHANGED <<busy, room>>

Relabel(o) ==
  LET fresh == {l \in marked : OrderOf(l) = o}
  IN /\ busy = {}
     /\ fresh # {}
     /\ room' = [w \in Workers |->
                   [l \in Lists |-> IF l \in fresh THEN MaxGap ELSE room[w][l]]]
     /\ marked' = marked \ fresh
     /\ UNCHANGED busy

Next ==
  \/ \E w \in Workers :
       \/ Begin(w) \/ End(w)
       \/ \E l \in Lists : Insert(w, l) \/ Mark(w, l)
  \/ \E o \in Orders : Relabel(o)

Spec == Init /\ [][Next]_vars
=============================================================================
