---------------------------------- MODULE Search ---------------------------------
(***************************************************************************)
(* search-filters.ts, search-query.ts and search-prefill.ts: which         *)
(* candidates a filter set finds, how it scores and orders them, and the   *)
(* filter set a vacancy opens the search with.                             *)
(*                                                                         *)
(* A filter set is a function from the names of the filters that were sent *)
(* to their values: ids are a sequence, since the DTO lets one be named    *)
(* twice.  `false` and an empty list are as if not sent.  A candidate is   *)
(* the row of its profile, its answers as CandidateProfile stores them,    *)
(* its occupations, and its jobs and degrees.                              *)
(***************************************************************************)
EXTENDS VacancyFields

\* The value stored for a field of the candidate's form.
Of(c, code) == IF code \in DOMAIN c.answers THEN c.answers[code]
               ELSE EmptyFor(CandidateForm[code])

\* Every id stored under one of these multi-selects.
Chosen(c, codes) == UNION {Of(c, code) : code \in codes}

ATTRIBUTE_FIELD_CODES == {"licence_ids", "transport_ids", "tool_ids", "readiness_ids"}

PREFERENCE_FIELD_CODES == {"employment_type_ids", "work_format_ids", "shift_ids"}

Occupations(c) == ({c.occupation.primary} \cup c.occupation.others) \ {Null}

\* The skills at the level a filter set asks for.
SkillsAt(c, filters) ==
  {r.item : r \in {s \in Of(c, "skills") :
     "skillMinLevelRank" \in DOMAIN filters => s.rank >= filters["skillMinLevelRank"]}}

\* A language requirement: [item, minLevelRank, certificate].
Speaks(c, language) ==
  \E r \in Of(c, "languages") :
    /\ r.item = language.item
    /\ language.minLevelRank # Null => r.rank >= language.minLevelRank
    /\ language.certificate => r.extra.has_certificate

\* ROUND(days / 365.25, 1), in tenths of a year.
ExperienceYears(jobs) ==
  LET days == SumFunction([job \in jobs |-> job.days])
  IN (2000 * days + 36525) \div 73050

--------------------------------------------------------------------------------
(* whereFilters *)

\* BR-02's gate, which every read of this side starts from.
SearchableCandidate(c) == c.visibility = "searchable" /\ c.complete

AnyOf(filters, name, held) ==
  name \in DOMAIN filters => ToSet(filters[name]) \cap held # {}

\* "Match all" compares the distinct matches with the length of the list.
AllOf(filters, name, held) ==
  Cardinality(ToSet(filters[name]) \cap held) = Len(filters[name])

AtLeast(filters, name, value) == name \in DOMAIN filters => value >= filters[name]

If(filters, name, holds) == name \in DOMAIN filters => holds

WhereOccupation(filters, c) ==
  /\ AnyOf(filters, "occupationIds",
           IF "primaryOnly" \in DOMAIN filters THEN {c.occupation.primary} ELSE Occupations(c))
  /\ If(filters, "category", c.category = filters["category"])
  /\ AnyOf(filters, "occupationLevelIds", {c.occupation.level})

WhereSkills(filters, c) ==
  IF "skillIds" \in DOMAIN filters /\ "skillsMatchAll" \in DOMAIN filters
  THEN AllOf(filters, "skillIds", SkillsAt(c, filters))
  ELSE AnyOf(filters, "skillIds", SkillsAt(c, filters))

WhereExperience(filters, c) ==
  /\ If(filters, "experienceYearsMin",
        ExperienceYears(c.jobs) >= 10 * filters["experienceYearsMin"])
  /\ If(filters, "occupationExperienceYearsMin",
        ExperienceYears({j \in c.jobs : j.occupation \in ToSet(filters["occupationIds"])})
          >= 10 * filters["occupationExperienceYearsMin"])
  /\ AnyOf(filters, "currentOccupationIds", {j.occupation : j \in {k \in c.jobs : k.current}})

\* One requirement per language, all of them.
WhereLanguages(filters, c) ==
  If(filters, "languages", \A language \in ToSet(filters["languages"]) : Speaks(c, language))

WhereEducation(filters, c) ==
  /\ AnyOf(filters, "educationLevelIds", c.degrees)
  /\ AnyOf(filters, "specializationIds", Of(c, "specialization"))

WherePlace(filters, c) ==
  /\ If(filters, "regionId", Of(c, "region_id") = filters["regionId"])
  /\ AnyOf(filters, "districtIds", {Of(c, "district_id")})
  /\ If(filters, "willingToRelocate", Of(c, "willing_to_relocate") = TRUE)
  /\ If(filters, "willingToTravel", Of(c, "willing_to_travel") = TRUE)

\* A negotiable expectation passes any budget; the period of the pay is not compared.
WhereTerms(filters, c) ==
  LET pay == Of(c, "salary") IN
  /\ AnyOf(filters, "employmentTypeIds", Of(c, "employment_type_ids"))
  /\ AnyOf(filters, "workFormatIds", Of(c, "work_format_ids"))
  /\ AnyOf(filters, "shiftIds", Of(c, "shift_ids"))
  /\ If(filters, "salaryMax",
        pay.negotiable \/ pay.from = Null \/ pay.from <= filters["salaryMax"])
  /\ If(filters, "salaryMin",
        pay.negotiable \/ pay.to = Null \/ pay.to >= filters["salaryMin"])

\* No date means no constraint; "immediately" overrides the date sent beside it.
WhereAvailable(filters, c, today) ==
  LET from == Of(c, "available_from")
      by   == IF "availableImmediately" \in DOMAIN filters THEN today
              ELSE IF "availableBy" \in DOMAIN filters THEN filters["availableBy"] ELSE Null
  IN by # Null => from = Null \/ ~Later(from, by)

WhereAttributes(filters, c) ==
  LET held == Chosen(c, ATTRIBUTE_FIELD_CODES) IN
  /\ IF "attributeIds" \in DOMAIN filters /\ "attributesMatchAll" \in DOMAIN filters
     THEN AllOf(filters, "attributeIds", held) ELSE AnyOf(filters, "attributeIds", held)
  /\ If(filters, "crewSizeMin",
        Of(c, "crew_size") # Null /\ Of(c, "crew_size") >= filters["crewSizeMin"])

WhereStatus(filters, c) ==
  /\ AtLeast(filters, "minCompleteness", c.percent)
  /\ If(filters, "updatedSince", c.updated # Null /\ c.updated >= filters["updatedSince"])

BornAfter(born, today, years) == Later(born, DatabaseYearsBefore(today, years + 1))

\* BR-12: the age is derived from the birth date, so the comparison turns round.
WhereRestrictions(filters, c, today) ==
  LET born == Of(c, "date_of_birth") IN
  /\ If(filters, "ageMin",
        born # Null /\ ~Later(born, DatabaseYearsBefore(today, filters["ageMin"])))
  /\ If(filters, "ageMax", born # Null /\ BornAfter(born, today, filters["ageMax"]))
  /\ If(filters, "genderId", Of(c, "gender_id") = filters["genderId"])

WhereFilters(filters, c, today) ==
  /\ SearchableCandidate(c)
  /\ WhereOccupation(filters, c) /\ WhereSkills(filters, c) /\ WhereExperience(filters, c)
  /\ WhereLanguages(filters, c) /\ WhereEducation(filters, c) /\ WherePlace(filters, c)
  /\ WhereTerms(filters, c) /\ WhereAvailable(filters, c, today) /\ WhereAttributes(filters, c)
  /\ WhereStatus(filters, c) /\ WhereRestrictions(filters, c, today)

--------------------------------------------------------------------------------
(* scoreGroups, matchedColumns and scoreExpression *)

WEIGHTS == [occupation |-> 3, skills |-> 3, languages |-> 2, specialization |-> 2,
            location |-> 1, preferences |-> 1, attributes |-> 1]

Named(filters, names) ==
  SumFunction([name \in names \cap DOMAIN filters |-> Len(filters[name])])

Asked(filters) ==
  [occupation     |-> Named(filters, {"occupationIds"}),
   skills         |-> Named(filters, {"skillIds"}),
   languages      |-> Named(filters, {"languages"}),
   specialization |-> Named(filters, {"specializationIds"}),
   location       |-> Cardinality({"regionId", "districtIds"} \cap DOMAIN filters),
   preferences    |-> Named(filters, {"employmentTypeIds", "workFormatIds", "shiftIds"}),
   attributes     |-> Named(filters, {"attributeIds"})]

\* A group nothing was asked of is not in the list.
ScoreGroups(filters) == {g \in DOMAIN WEIGHTS : Asked(filters)[g] > 0}

Ids(filters, names) == UNION {ToSet(filters[name]) : name \in names \cap DOMAIN filters}

\* The languages count rows of the candidate that meet some requirement.
Matched(filters, c) ==
  [occupation     |-> Cardinality(Ids(filters, {"occupationIds"}) \cap Occupations(c)),
   skills         |-> Cardinality(Ids(filters, {"skillIds"}) \cap SkillsAt(c, filters)),
   languages      |-> Cardinality({language.item :
                        language \in {l \in Ids(filters, {"languages"}) : Speaks(c, l)}}),
   specialization |-> Cardinality(Ids(filters, {"specializationIds"}) \cap Of(c, "specialization")),
   location       |->
     Cardinality({name \in {"regionId", "districtIds"} \cap DOMAIN filters :
       IF name = "regionId" THEN Of(c, "region_id") = filters["regionId"]
       ELSE Of(c, "district_id") \in ToSet(filters["districtIds"])}),
   preferences    |->
     Cardinality(Ids(filters, {"employmentTypeIds", "workFormatIds", "shiftIds"})
                 \cap Chosen(c, PREFERENCE_FIELD_CODES)),
   attributes     |->
     Cardinality(Ids(filters, {"attributeIds"}) \cap Chosen(c, ATTRIBUTE_FIELD_CODES))]

\* LEAST caps a group at what was asked for.
Least(matched, asked) == IF matched < asked THEN matched ELSE asked

Product(fun, S) == FoldFunctionOnSet(LAMBDA a, b : a * b, 1, fun, S)

\* ROUND(100 * sum of weight * matched / asked / sum of weights).
Score(filters, c) ==
  LET groups  == ScoreGroups(filters)
      asked   == Asked(filters)
      matched == Matched(filters, c)
      common  == Product(asked, groups)
      weights == SumFunctionOnSet(WEIGHTS, groups)
      terms   == SumFunction([g \in groups |->
                   WEIGHTS[g] * Least(matched[g], asked[g]) * (common \div asked[g])])
  IN IF groups = {} THEN 100 ELSE Percent(terms, weights * common)

--------------------------------------------------------------------------------
(* proximityRank and orderBy *)

Near(filters) ==
  IF "proximityDistrictId" \in DOMAIN filters THEN filters["proximityDistrictId"]
  ELSE IF "districtIds" \in DOMAIN filters THEN Head(filters["districtIds"]) ELSE Null

NearRegion(filters) ==
  LET parent == IF Near(filters) = Null THEN Null ELSE Items[Near(filters)].parent IN
  IF parent # Null THEN parent
  ELSE IF "regionId" \in DOMAIN filters THEN filters["regionId"] ELSE Null

\* NULL equals nothing.
ProximityRank(filters, c) ==
  (IF Near(filters) # Null /\ Of(c, "district_id") = Near(filters) THEN 2 ELSE 0) +
  (IF NearRegion(filters) # Null /\ Of(c, "region_id") = NearRegion(filters) THEN 1 ELSE 0)

Sorts == {"match", "recent", "experience", "salary", "proximity"}

NullsLast(value, key) == IF value = Null THEN <<1, 0>> ELSE <<0, key>>

Recency(c) == NullsLast(c.updated, IF c.updated = Null THEN 0 ELSE -c.updated)

\* Mutant: without the second tiebreaker.
SortKeyUntied(sort, filters, c) == Recency(c)

\* What is compared, left to right, the smaller first; the two tiebreakers always.
SortKey(sort, filters, c) ==
  LET pay == Of(c, "salary").from IN
  (CASE sort = "match"      -> <<0, -Score(filters, c)>>
     [] sort = "recent"     -> <<0, 0>>
     [] sort = "experience" -> <<0, -ExperienceYears(c.jobs)>>
     [] sort = "salary"     -> NullsLast(pay, pay)
     [] sort = "proximity"  -> <<0, -ProximityRank(filters, c)>>)
  \o Recency(c) \o <<c.id>>

Before(x, y) == \E i \in DOMAIN x : x[i] < y[i] /\ \A j \in 1..(i - 1) : x[j] = y[j]

--------------------------------------------------------------------------------
(* CandidateSearchService: count, and the filters a search may use *)

\* count stops one past the cap.
Count(filters, candidates, today, cap) ==
  LET found == Cardinality({c \in candidates : WhereFilters(filters, c, today)})
      seen  == Least(found, cap + 1)
  IN IF seen > cap THEN [count |-> cap, isExact |-> FALSE]
     ELSE [count |-> seen, isExact |-> TRUE]

RestrictionsUsed(filters) ==
  (IF {"ageMin", "ageMax"} \cap DOMAIN filters # {} THEN {"age"} ELSE {}) \cup
  (IF "genderId" \in DOMAIN filters THEN {"gender"} ELSE {})

\* assertFiltersPermitted
FiltersPermitted(filters) ==
  /\ "occupationExperienceYearsMin" \in DOMAIN filters => "occupationIds" \in DOMAIN filters
  /\ RestrictionsUsed(filters) # {} =>
       /\ "restrictionJustificationId" \in DOMAIN filters
       /\ IsJustificationValid(filters["restrictionJustificationId"], RestrictionsUsed(filters))

\* What the DTO accepts of the numbers in a body.
AcceptedByDto(filters) ==
  /\ \A name \in {"ageMin", "ageMax"} \cap DOMAIN filters : filters[name] \in 14..99
  /\ \A name \in {"experienceYearsMin", "occupationExperienceYearsMin"} \cap DOMAIN filters :
       filters[name] \in 0..70
  /\ \A name \in {"salaryMin", "salaryMax"} \cap DOMAIN filters : filters[name] >= 0
  /\ "crewSizeMin" \in DOMAIN filters => filters["crewSizeMin"] >= 1
  /\ "minCompleteness" \in DOMAIN filters => filters["minCompleteness"] \in 0..100

--------------------------------------------------------------------------------
(* prefillFilters *)

CREW_MINIMUM == 2

\* The rows an employer did not mark as preferred; a plain requirement is mandatory.
Mandatory(stored, code) == {r \in VacancyValueOf(code, stored) : r.extra.is_mandatory}

Lowest(ranks) == CHOOSE rank \in ranks : \A other \in ranks : rank <= other

\* Mutant: the strictest of the levels stands for all of them.
SkillFloorStrictest(rows) ==
  CHOOSE rank \in {r.rank : r \in rows} : \A r \in rows : rank >= r.rank

\* One floor has to stand for the levels of all the skills: the lowest.
SkillFloor(rows) == Lowest({r.rank : r \in rows})

Sent(wanted, name, value) == [n \in IF wanted THEN {name} ELSE {} |-> value]

\* Filter sets that name different filters, as one.
Together(parts) ==
  [name \in UNION {DOMAIN parts[i] : i \in DOMAIN parts} |->
     LET i == CHOOSE k \in DOMAIN parts : name \in DOMAIN parts[k] IN parts[i][name]]

\* A filter for a list of ids, if there are any.
Listed(name, ids) == Sent(ids # {}, name, SetToSeq(ids))

\* A filter copied from a column, if it is set.
Copied(stored, code, name) ==
  Sent(code \in DOMAIN stored, name, IF code \in DOMAIN stored THEN stored[code] ELSE Null)

PrefillSkills(stored) ==
  LET rows == Mandatory(stored, "skills") IN
  IF rows = {} THEN [n \in {} |-> Null]
  ELSE [skillIds |-> SetToSeq({r.item : r \in rows}), skillsMatchAll |-> TRUE,
        skillMinLevelRank |-> SkillFloor(rows)]

PrefillLanguages(stored) ==
  Listed("languages", {[item |-> r.item, minLevelRank |-> r.rank, certificate |-> FALSE] :
                         r \in Mandatory(stored, "languages")})

\* The employer's ceiling; a negotiable vacancy states none.
PrefillBudget(stored) ==
  LET pay    == PayOf(stored)
      amount == IF pay.to # Null THEN pay.to ELSE pay.from
  IN Sent(~pay.negotiable /\ amount # Null, "salaryMax", amount)

PrefillAttributes(stored) ==
  LET ids == UNION {VacancyValueOf(code, stored) : code \in ATTRIBUTE_FIELD_CODES} IN
  Together(<<
    Listed("attributeIds", ids),
    Sent(ids # {}, "attributesMatchAll", TRUE),
    Sent(VacancyValueOf("crew_required", stored) = TRUE, "crewSizeMin", CREW_MINIMUM)>>)

PrefillTerms(stored) ==
  Together(<<
    Listed("educationLevelIds", {VacancyValueOf("education_level_id", stored)} \ {Null}),
    Listed("specializationIds", VacancyValueOf("specialization", stored)),
    Copied(stored, "experience_years_min", "experienceYearsMin"),
    Listed("employmentTypeIds", VacancyValueOf("employment_type_ids", stored)),
    Listed("workFormatIds", VacancyValueOf("work_format_ids", stored)),
    Listed("shiftIds", VacancyValueOf("shift_ids", stored)),
    Copied(stored, "starts_on", "availableBy")>>)

PrefillPlace(stored) ==
  Together(<<
    Copied(stored, "region_id", "regionId"),
    Listed("districtIds", {VacancyValueOf("district_id", stored)} \ {Null}),
    Copied(stored, "district_id", "proximityDistrictId")>>)

\* BR-12's filters come across with their justification.
PrefillRestrictions(stored) ==
  Together(<<
    Copied(stored, "age_min", "ageMin"),
    Copied(stored, "age_max", "ageMax"),
    Copied(stored, "gender_id", "genderId"),
    Copied(stored, "restriction_justification_id", "restrictionJustificationId")>>)

Prefill(category, stored) ==
  Together(<<
    Listed("occupationIds", {VacancyValueOf("occupation_id", stored)} \ {Null}),
    Sent(category # Null, "category", category),
    PrefillSkills(stored), PrefillLanguages(stored), PrefillTerms(stored),
    PrefillPlace(stored), PrefillBudget(stored), PrefillAttributes(stored),
    PrefillRestrictions(stored)>>)

================================================================================
