------------------------------ MODULE MCOMTree ------------------------------
(* Instances of OMTree for TLC: label widths with the ratios of            *)
(* om_common.h, and where the inserts go.                                  *)
EXTENDS OMTree

(* A few nodes, two places among them, and then one hot spot that is not   *)
(* at an end of the order.                                                 *)
HotSpot == [n \in 1 .. MaxNodes |->
              CASE n < 6 -> {1} [] n \in 6 .. 7 -> {1, 3} [] OTHER -> {3}]
=============================================================================
