--------------------------------- MODULE Matching --------------------------------
(***************************************************************************)
(* The two forms against each other: the profile CandidateProfile keeps,   *)
(* found by CandidateSearchService with the filters a vacancy opens the    *)
(* search with, whatever bodies the employer and the candidate have sent.  *)
(***************************************************************************)
EXTENDS CandidateProfile, Search

CONSTANTS
  VacancyBodies,   \* the PATCH bodies an employer may send
  JobFacts,        \* of each job: [id, occupation, days, current]
  DegreeLevel,     \* of each degree: its education level
  Rivals,          \* other candidates
  FilterSets,      \* filter sets an employer types in
  Cap              \* SEARCH_COUNT_CAP

ASSUME CapAssumption == Cap \in Nat

ASSUME VacancyBodiesAssumption == \A b \in DOMAIN VacancyBodies : BodyOK(VacancyBodies[b])

\* The fields of a vacancy that its table checks too, or that a search is opened with.
ASSUME VacancyFormAssumption ==
  /\ {"worker_count", "age_min", "age_max", "experience_years_min", "occupation_id", "region_id",
      "district_id", "education_level_id", "gender_id", "restriction_justification_id",
      "starts_on", "salary", "skills", "languages", "specialization", "crew_required"} \cup
     ATTRIBUTE_FIELD_CODES \cup PREFERENCE_FIELD_CODES \subseteq DOMAIN VacancyForm
  /\ VacancyForm["salary"].kind = "money"
  /\ VacancyForm["starts_on"].kind = "date"
  /\ VacancyForm["crew_required"].kind = "bool"
  /\ \A code \in {"skills", "languages"} : VacancyForm[code].kind = "leveled"
  /\ \A code \in {"specialization"} \cup ATTRIBUTE_FIELD_CODES \cup PREFERENCE_FIELD_CODES :
       VacancyForm[code].kind = "multi"
  /\ \A code \in {"occupation_id", "region_id", "district_id", "education_level_id", "gender_id",
                   "restriction_justification_id"} : VacancyForm[code].kind = "single"
  /\ \A code \in {"worker_count", "age_min", "age_max", "experience_years_min"} :
       VacancyForm[code].kind = "int"
  /\ VacancyForm["experience_years_min"].min \in Nat /\ VacancyForm["experience_years_min"].max \in 0..70
  /\ VacancyForm["worker_count"].min \in Nat \ {0}
  /\ \A code \in {"age_min", "age_max"} : VacancyForm[code].min = 14 /\ VacancyForm[code].max = 100

ASSUME JobsAssumption ==
  IsFiniteSet(Jobs) /\ \A j \in Jobs : JobFacts[j].id = j /\ JobFacts[j].days \in Nat

\* What a sort compares of a candidate is a number, or missing.
Comparable(c) ==
  /\ c.id \in Nat /\ c.updated \in Int \cup {Null}
  /\ Of(c, "salary").from \in Int \cup {Null}
  /\ IsFiniteSet(c.jobs) /\ \A job \in c.jobs : job.days \in Nat

ASSUME RivalsAssumption ==
  IsFiniteSet(Rivals) /\ \A rival \in Rivals : Comparable(rival) /\ rival.id > 0

Lists == {"occupationIds", "skillIds", "languages", "specializationIds", "districtIds",
          "employmentTypeIds", "workFormatIds", "shiftIds", "attributeIds"}

ASSUME FiltersAssumption ==
  \A filters \in FilterSets : \A name \in Lists \cap DOMAIN filters :
    filters[name] \in Seq(ToSet(filters[name])) /\ Null \notin ToSet(filters[name])

\* The profile as a search meets it; the moment of its last update is left out.
Live ==
  [id |-> 0, answers |-> answers, occupation |-> occupation,
   jobs |-> {JobFacts[j] : j \in history \cap Jobs},
   degrees |-> {DegreeLevel[d] : d \in history \cap Degrees},
   category |-> row.category, percent |-> row.percent, complete |-> row.complete,
   visibility |-> row.visibility, updated |-> Null]

Everyone == {Live} \cup Rivals

--------------------------------------------------------------------------------
(* Every content of a vacancy that two bodies reach: constants, evaluated once *)

Written1 == {Patched([code \in {} |-> Null], VacancyBodies[b], Today) : b \in DOMAIN VacancyBodies}

Stored1 == {v \in Written1 : BrokenChecks(v) = {}}

Written2 == {Patched(v, VacancyBodies[b], Today) : v \in Stored1, b \in DOMAIN VacancyBodies}

Contents == Stored1 \cup {v \in Written2 : BrokenChecks(v) = {}}

\* Each of them with the filter set it opens the search with.
Openings == {[vacancy |-> v, filters |-> Prefill(VacancyCategory(v), v)] : v \in Contents}

CrossFieldOnly ==
  \A v \in Written1 \cup Written2 :
    BrokenChecks(v) \subseteq {"restriction_needs_justification", "age_range_order", "date_order"}

\* The validator leaves the table nothing to refuse of one field: a PATCH it accepts
\* can only break a CHECK between two fields, which it does not know
\* (vacancies.service.ts:174-183, create_vacancies.ts:132-181).
OnlyCrossFieldChecksBreak == Quiet => CrossFieldOnly

PermittedToSearch ==
  \A o \in Openings :
    /\ Submittable(o.vacancy)
    /\ 100 \notin {VacancyValueOf(code, o.vacancy) : code \in {"age_min", "age_max"}}
    => FiltersPermitted(o.filters) /\ AcceptedByDto(o.filters)

\* The filter set of a vacancy that may be submitted is one search accepts, its
\* restriction with the justification it was submitted with; not so an age limit of
\* 100, which the vacancy's form allows and the search's does not
\* (search-prefill.ts:120-132, candidate-search.service.ts:501-530).
PrefillIsPermitted == Quiet => PermittedToSearch

--------------------------------------------------------------------------------
(* What the vacancy asks, read off its form *)

MeetsRequirements(v, c) ==
  /\ \A code \in {"skills", "languages"} : \A r \in Mandatory(v, code) :
       \E s \in Of(c, code) : s.item = r.item /\ s.rank >= r.rank
  /\ \A code \in ATTRIBUTE_FIELD_CODES : VacancyValueOf(code, v) \subseteq Chosen(c, ATTRIBUTE_FIELD_CODES)
  /\ \A code \in PREFERENCE_FIELD_CODES \cup {"specialization"} :
       VacancyValueOf(code, v) # {} => VacancyValueOf(code, v) \cap Of(c, code) # {}
  /\ "education_level_id" \in DOMAIN v => v["education_level_id"] \in c.degrees
  /\ "experience_years_min" \in DOMAIN v =>
       ExperienceYears(c.jobs) >= 10 * v["experience_years_min"]
  /\ VacancyValueOf("crew_required", v) = TRUE =>
       Of(c, "crew_size") # Null /\ Of(c, "crew_size") > 1

MeetsTerms(v, c) ==
  LET pay    == PayOf(v)
      wanted == Of(c, "salary")
      most   == IF pay.to # Null THEN pay.to ELSE pay.from
      born   == Of(c, "date_of_birth")
  IN /\ "occupation_id" \in DOMAIN v => v["occupation_id"] \in Occupations(c)
     /\ VacancyCategory(v) # Null => c.category = VacancyCategory(v)
     /\ \A code \in {"region_id", "district_id", "gender_id"} \cap DOMAIN v : Of(c, code) = v[code]
     /\ \/ pay.negotiable \/ most = Null
        \/ wanted.negotiable \/ wanted.from = Null \/ wanted.from <= most
     /\ "starts_on" \in DOMAIN v =>
          Of(c, "available_from") = Null \/ ~Later(Of(c, "available_from"), v["starts_on"])
     /\ "age_min" \in DOMAIN v => born # Null /\ AgeOn(Today, born) >= v["age_min"]
     /\ "age_max" \in DOMAIN v => born # Null /\ AgeOn(Today, born) <= v["age_max"]

Qualifies(v, c) == SearchableCandidate(c) /\ MeetsRequirements(v, c) /\ MeetsTerms(v, c)

\* A single floor says all there is to say of the skills' levels.
OneFloor(v) == Cardinality({r.rank : r \in Mandatory(v, "skills")}) <= 1

\* Whoever qualifies is found, and nobody else if the search can say it exactly.
Selects(found, qualifies, exactly) == (qualifies => found) /\ (found /\ exactly => qualifies)

\* A search opened from a vacancy finds every candidate who has all that the vacancy
\* calls mandatory; and nobody else, but for skills asked at different levels, where
\* the lowest stands for all (search-prefill.ts:17-30, 78-83).
PrefillFindsTheQualified == Quiet =>
  \A o \in Openings :
    Selects(WhereFilters(o.filters, Live, Today), Qualifies(o.vacancy, Live), OneFloor(o.vacancy))

--------------------------------------------------------------------------------
(* Scores, orders, counts *)

\* Every list whose ids are alternatives names one; a district is asked for as one,
\* and no language twice: a language counts once, however often it is required.
NoAlternatives(filters) ==
  /\ \A name \in {"occupationIds", "specializationIds"} \cap DOMAIN filters : Len(filters[name]) = 1
  /\ Named(filters, {"employmentTypeIds", "workFormatIds", "shiftIds"}) = 0
  /\ "skillIds" \in DOMAIN filters => "skillsMatchAll" \in DOMAIN filters
  /\ "attributeIds" \in DOMAIN filters => "attributesMatchAll" \in DOMAIN filters
  /\ "languages" \in DOMAIN filters =>
       Cardinality({language.item : language \in ToSet(filters["languages"])})
         = Len(filters["languages"])

\* A candidate whom a search admits without choosing between alternatives has all it
\* asked for, and scores 100; nobody scores more (search-filters.ts:195-248,
\* search-query.ts:401-430).
AdmittedScoreFull == Quiet =>
  \A c \in Everyone, filters \in FilterSets :
    /\ Score(filters, c) \in 0..100
    /\ NoAlternatives(filters) /\ WhereFilters(filters, c, Today) => Score(filters, c) = 100

OneFirst(x, y) == Before(x, y) # Before(y, x)

Ordered(a, b) ==
  \A filters \in FilterSets, sort \in Sorts :
    OneFirst(SortKey(sort, filters, a), SortKey(sort, filters, b))

RivalsOrdered == \A a, b \in Rivals : a.id < b.id => Ordered(a, b)

\* Under every sort a page boundary leaves each candidate on one side: of any two,
\* exactly one comes before the other (search-query.ts:594-614).
PagesNeverRepeat == Quiet => RivalsOrdered /\ \A rival \in Rivals : Ordered(Live, rival)

\* The count shown before a search is the number of candidates the search lists, or
\* says it is not (candidate-search.service.ts:201-230).
CountIsHonest == Quiet =>
  \A filters \in FilterSets :
    LET found == {c \in Everyone : WhereFilters(filters, c, Today)}
        shown == Count(filters, Everyone, Today, Cap)
    IN IF shown.isExact THEN shown.count = Cardinality(found)
       ELSE shown.count = Cap /\ Cardinality(found) > Cap

FiltersCountAges ==
  \A today, born \in {d \in Days : Exists(d)}, age \in {14, 16, 18} :
    LET c    == [answers |-> [date_of_birth |-> born]]
        held == AgeOn(today, born)
    IN /\ WhereRestrictions([ageMin |-> age], c, today) = (held >= age)
       /\ WhereRestrictions([ageMax |-> age], c, today) = (held <= age)

\* An age filter, turned round into a comparison of birth dates, admits exactly the
\* candidates of that age on that day, leap years included (search-query.ts:285-305).
AgeFiltersCountAges == Quiet => FiltersCountAges

--------------------------------------------------------------------------------
(* What is checked *)

\* The stored completeness is true of the rows unless a history write was overtaken,
\* no PATCH ever is, and the gate it opens is the required fields.
GateHolds == IInv /\ DerivedIsTrue /\ PatchSeesItsCommit /\ GateIsRequiredFields

\* What the validator accepts survives: the tables take it, but for the CHECKs
\* between two fields, and what is read back is accepted as it is.
AnswersSurvive == ReadsBack /\ ParsedReadsBack /\ ParsedIsStorable /\ OnlyCrossFieldChecksBreak

\* The form and the search count a person's age alike, to the day.
AgesAgree == AgeIsCounted /\ AgeFiltersCountAges

\* The search a vacancy opens is permitted, finds whom the vacancy would accept, and
\* scores in full those it cannot tell apart.
PrefillHolds == PrefillIsPermitted /\ PrefillFindsTheQualified /\ AdmittedScoreFull

\* The pages of a search, laid end to end, are its result, and its count theirs.
PagesAddUp == PaysOK /\ PagesNeverRepeat /\ CountIsHonest

================================================================================
