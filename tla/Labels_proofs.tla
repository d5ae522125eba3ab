--------------------------- MODULE Labels_proofs ---------------------------
(***************************************************************************)
(* What get_new_label returns, for every pair of labels and every width.   *)
(***************************************************************************)
EXTENDS Labels, TLAPS

(* Between two neighbours, get_new_label (blist.c) returns 0 exactly when  *)
(* they are adjacent; otherwise the label lies strictly between them and   *)
(* each side keeps at least half of the room, rounded down.  This is the   *)
(* gap that OMBatch counts in halvings.                                    *)
THEOREM LabelBetween ==
  ASSUME NEW base \in LabelSet, NEW next \in LabelSet, base < next
  PROVE  LET lab == get_new_label(base, next, FALSE)
         IN /\ lab \in LabelSet
            /\ lab = 0 <=> next = base + 1
            /\ lab # 0 => /\ base < lab /\ lab < next
                          /\ lab - base >= (next - base) \div 2
                          /\ next - lab >= (next - base) \div 2
<1> DEFINE mean == (base \div 2) + (next \div 2)
                   + (IF base % 2 = 1 /\ next % 2 = 1 THEN 1 ELSE 0)
           half == (next - base) \div 2
<1>1. /\ base \in Nat /\ next \in Nat /\ next <= MAX_LABEL
      /\ MAX_LABEL \in Nat
  BY MaxLabelAssumption DEF LabelSet
<1>2. /\ mean \in Nat /\ base <= mean /\ mean < next
      /\ mean = base <=> next = base + 1
      /\ mean - base >= half
      /\ next - mean >= half
  BY <1>1
<1>3. mean + 0 = mean /\ mean % (MAX_LABEL + 1) = mean
  <2> HIDE DEF mean
  <2> QED BY <1>1, <1>2
<1>4. get_new_label(base, next, FALSE) = IF mean = base THEN 0 ELSE mean
  BY <1>3 DEF get_new_label
<1> DEFINE lab == get_new_label(base, next, FALSE)
<1>5. half \in Int /\ lab = IF mean = base THEN 0 ELSE mean
  <2>1. half \in Int
    BY <1>1
  <2> HIDE DEF mean, half
  <2> QED BY <2>1, <1>4, Zenon
<1>6. /\ lab \in LabelSet
      /\ lab = 0 <=> next = base + 1
      /\ lab # 0 => base < lab /\ lab < next /\ lab - base >= half /\ next - lab >= half
  <2> HIDE DEF mean, half, lab
  <2> QED BY <1>1, <1>2, <1>5 DEF LabelSet
<1> QED BY <1>6

(* Behind the last node of a list the label grows towards MAX_LABEL, and   *)
(* the sum that wraps, behind MAX_LABEL itself, is the only one that leaves *)
(* no room: an append never reuses a label of the list.                    *)
THEOREM LabelAtEnd ==
  ASSUME NEW base \in LabelSet
  PROVE  LET lab == get_new_label(base, MAX_LABEL, TRUE)
         IN /\ lab \in LabelSet
            /\ lab = 0 <=> base = MAX_LABEL
            /\ lab # 0 => /\ base < lab
                          /\ lab - base >= (MAX_LABEL - base) \div 2
                          /\ MAX_LABEL - lab >= (MAX_LABEL - base) \div 2 - 1
<1> DEFINE mean == (base \div 2) + (MAX_LABEL \div 2)
                   + (IF base % 2 = 1 /\ MAX_LABEL % 2 = 1 THEN 1 ELSE 0) + 1
           half == (MAX_LABEL - base) \div 2
<1>1. /\ base \in Nat /\ base <= MAX_LABEL /\ MAX_LABEL \in Nat
      /\ MAX_LABEL % 2 = 1
  BY MaxLabelAssumption DEF LabelSet
<1>2. /\ mean \in Nat /\ base < mean
      /\ base = MAX_LABEL => mean = MAX_LABEL + 1
      /\ base # MAX_LABEL => mean <= MAX_LABEL
      /\ mean - base >= half
      /\ MAX_LABEL - mean >= half - 1
  BY <1>1
<1>3. /\ base # MAX_LABEL => mean % (MAX_LABEL + 1) = mean
      /\ base = MAX_LABEL => mean % (MAX_LABEL + 1) = 0
  <2> HIDE DEF mean
  <2> QED BY <1>1, <1>2
<1>4. get_new_label(base, MAX_LABEL, TRUE) =
        IF base = MAX_LABEL THEN 0 ELSE mean
  <2>1. get_new_label(base, MAX_LABEL, TRUE) =
          IF mean % (MAX_LABEL + 1) = base THEN 0 ELSE mean % (MAX_LABEL + 1)
    BY DEF get_new_label
  <2>2. CASE base = MAX_LABEL
    <3> HIDE DEF mean
    <3> QED BY <1>1, <1>3, <2>1, <2>2
  <2>3. CASE base # MAX_LABEL
    <3>1. mean # base
      BY <1>1, <1>2
    <3> HIDE DEF mean
    <3> QED BY <1>3, <2>1, <2>3, <3>1
  <2> QED BY <2>2, <2>3
<1> DEFINE lab == get_new_label(base, MAX_LABEL, TRUE)
<1>5. half \in Int /\ lab = IF base = MAX_LABEL THEN 0 ELSE mean
  <2>1. half \in Int
    BY <1>1
  <2> HIDE DEF mean, half
  <2> QED BY <2>1, <1>4, Zenon
<1>6. /\ lab \in LabelSet
      /\ lab = 0 <=> base = MAX_LABEL
      /\ lab # 0 => base < lab /\ lab - base >= half /\ MAX_LABEL - lab >= half - 1
  <2> HIDE DEF mean, half, lab
  <2> QED BY <1>1, <1>2, <1>5 DEF LabelSet
<1> QED BY <1>6
=============================================================================
