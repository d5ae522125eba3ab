------------------------------- MODULE Labels -------------------------------
(***************************************************************************)
(* The label arithmetic of a bottom list: rdtool/src/om/blist.c and the    *)
(* test for a heavy list in rdtool/src/omrd.cpp.  label_t is an unsigned   *)
(* integer whose largest value is MAX_LABEL, so sums wrap.                 *)
(***************************************************************************)
EXTENDS Integers

CONSTANTS
  MAX_LABEL,     \* ULONG_MAX in the build, all bits set
  HeavyDistance  \* 1L << (64 - g_heavy_threshold)

ASSUME MaxLabelAssumption == MAX_LABEL \in Nat /\ MAX_LABEL % 2 = 1

LabelSet == 0 .. MAX_LABEL

(* Variant: adjacent labels are not noticed. *)
NewLabelUnchecked(base, next, atEnd) ==
  ((base \div 2) + (next \div 2)
     + (IF base % 2 = 1 /\ next % 2 = 1 THEN 1 ELSE 0)
     + (IF atEnd THEN 1 ELSE 0)) % (MAX_LABEL + 1)

(* The label between base and the node after it; 0 when there is no room.  *)
(* Behind the last node of a list, next stands for MAX_LABEL.              *)
get_new_label(base, next, atEnd) ==
  LET mean == (base \div 2) + (next \div 2)
              + (IF base % 2 = 1 /\ next % 2 = 1 THEN 1 ELSE 0)
              + (IF atEnd THEN 1 ELSE 0)
      lab  == mean % (MAX_LABEL + 1)
  IN IF lab = base THEN 0 ELSE lab

is_heavy(label, next) == next - label < HeavyDistance
=============================================================================
