------------------------------ MODULE VacancyFields ------------------------------
(***************************************************************************)
(* vacancy-state.ts, age-gender-justifications.ts and the CHECKs of the    *)
(* vacancies table: what a PATCH of a vacancy stores, what of it counts as *)
(* filled, and what the database refuses of it.                            *)
(*                                                                         *)
(* A stored vacancy is a function from the codes of its answered fields to *)
(* their values, as the columns and the requirement rows keep them.        *)
(***************************************************************************)
EXTENDS FieldRules

\* A requirement stated without qualification is one the employer means.
WriteRequirement(field, value) ==
  IF field.kind = "leveled"
  THEN {[r EXCEPT !.extra.is_mandatory = @ # FALSE] : r \in value}
  ELSE value

\* The fields of the body are rewritten, what is cleared has no value.
ApplyVacancyFields(current, category, values) ==
  LET written == DOMAIN values \cap FieldsFor(VacancyForm, category)
      given   == {code \in written : Answered(VacancyForm[code], values[code])}
  IN [code \in (DOMAIN current \ written) \cup given |->
        IF code \in given THEN WriteRequirement(VacancyForm[code], values[code])
        ELSE current[code]]

VacancyValueOf(code, stored) ==
  IF code \in DOMAIN stored THEN stored[code] ELSE EmptyFor(VacancyForm[code])

FilledVacancyCodes(category, stored) ==
  {code \in FieldsFor(VacancyForm, category) :
     Answered(VacancyForm[code], VacancyValueOf(code, stored))}

VacancyCategory(stored) ==
  IF "occupation_id" \in DOMAIN stored THEN Items[stored["occupation_id"]].category ELSE Null

\* What still blocks publication.
MissingForSubmit(category, stored) ==
  RequiredForSearchable(VacancyForm, category) \ FilledVacancyCodes(category, stored)

--------------------------------------------------------------------------------
(* BR-12 *)

\* Each reason with the kinds of restriction it can support.
RestrictionJustifications ==
  [statutory_minimum_age  |-> {"age"},
   night_work_restriction |-> {"age"},
   hazardous_conditions   |-> {"age", "gender"},
   heavy_lifting_limits   |-> {"age", "gender"},
   single_sex_facility    |-> {"gender"}]

IsJustificationValid(code, kinds) ==
  code \in DOMAIN RestrictionJustifications /\ kinds \subseteq RestrictionJustifications[code]

RestrictionKinds(stored) ==
  (IF {"age_min", "age_max"} \cap DOMAIN stored # {} THEN {"age"} ELSE {}) \cup
  (IF "gender_id" \in DOMAIN stored THEN {"gender"} ELSE {})

\* An item of the justification dictionary is named by its code.
JustificationOf(stored) ==
  IF "restriction_justification_id" \in DOMAIN stored
  THEN stored["restriction_justification_id"] ELSE Null

--------------------------------------------------------------------------------
(* The CHECKs of the vacancies table on the columns a form writes *)

Both(stored, a, b) == {a, b} \subseteq DOMAIN stored

PayOf(stored) == VacancyValueOf("salary", stored)

BrokenChecks(stored) ==
  When("worker_count" \in DOMAIN stored /\ stored["worker_count"] < 1, "worker_count_positive") \cup
  When(RestrictionKinds(stored) # {} /\ JustificationOf(stored) = Null,
       "restriction_needs_justification") \cup
  When(Both(stored, "age_min", "age_max") /\ stored["age_min"] > stored["age_max"],
       "age_range_order") \cup
  When(\E code \in {"age_min", "age_max"} \cap DOMAIN stored : stored[code] \notin 14..100,
       "age_plausible") \cup
  When(PayOf(stored).negotiable /\ {PayOf(stored).from, PayOf(stored).to} # {Null},
       "salary_negotiable_empty") \cup
  When(Null \notin {PayOf(stored).from, PayOf(stored).to} /\ PayOf(stored).from > PayOf(stored).to,
       "salary_order") \cup
  When(\E amount \in {PayOf(stored).from, PayOf(stored).to} \ {Null} : amount < 0,
       "salary_non_negative") \cup
  When(Both(stored, "starts_on", "ends_on") /\ Later(stored["starts_on"], stored["ends_on"]),
       "date_order")

--------------------------------------------------------------------------------
(* VacanciesService *)

\* patch: what an accepted body would store; a refused one changes nothing.
Accept(stored, category, result) ==
  IF result.rules = {} THEN ApplyVacancyFields(stored, category, result.values) ELSE stored

PatchedIn(category, stored, body, today) ==
  IF LookupFails(VacancyForm, category, body) THEN stored
  ELSE Accept(stored, category,
              Validate(VacancyForm, category, body,
                       [region_id |-> VacancyValueOf("region_id", stored)], today))

Patched(stored, body, today) ==
  PatchedIn(EffectiveCategory("occupation_id", body, VacancyCategory(stored)), stored, body, today)

\* submit: complete for its category, and any restriction supported.
Submittable(stored) ==
  /\ MissingForSubmit(VacancyCategory(stored), stored) = {}
  /\ RestrictionKinds(stored) # {} =>
       IsJustificationValid(JustificationOf(stored), RestrictionKinds(stored))

================================================================================
