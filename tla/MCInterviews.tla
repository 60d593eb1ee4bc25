------------------------------ MODULE MCInterviews ------------------------------
(* Interviews for TLC: the details the employers send, right and wrong for  *)
(* every type, and the symmetry of the sets of model values.                *)
EXTENDS Interviews, TLC

Offer(type, location, meetingLink) ==
  [type |-> type, location |-> location, meetingLink |-> meetingLink]

MCOffers ==
  {Offer("phone", "absent", "absent"),        Offer("phone", "blank", "absent"),
   Offer("in_person", "given", "absent"),     Offer("in_person", "blank", "absent"),
   Offer("external_link", "absent", "given"), Offer("external_link", "given", "given")}

Symmetry == Permutations(Interviews) \cup Permutations(Times) \cup Permutations(Txns)

================================================================================
