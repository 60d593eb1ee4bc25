-------------------------------- MODULE MCRecords --------------------------------
(* Records for TLC: forms that are complete, or short of the name of     *)
(* either type; submissions of no file or of one.                           *)
EXTENDS Records, TLC

Full == {"contactPhone", "regionId", "description", "fullName",
         "legalName", "publicName", "industryId", "contactPersonName"}

MCAnswers == {Full, Full \ {"publicName", "fullName"}}

MCEvidence == {{}} \cup {{f} : f \in Ids}

MCPurposes == {"company_registration", "cv"}

MCMaxCount == [p \in {"cv"} |-> 1]

Symmetry ==
  Permutations(Ids) \cup Permutations(Messages) \cup Permutations(Submissions)
    \cup Permutations(Txns)

================================================================================
