-------------------------------- MODULE MCProfile --------------------------------
(***************************************************************************)
(* A small dictionary, the bodies a client may send, and raw values of     *)
(* every shape for the rules.                                              *)
(***************************************************************************)
EXTENDS Matching

CONSTANTS t1, t2, job, degree

MCTxns == {t1, t2}
Symmetry == Permutations(MCTxns)
MCJobs == {job}
MCDegrees == {degree}

Item(type) == [type |-> type, group |-> Null, parent |-> Null, rank |-> Null,
               active |-> TRUE, merged |-> Null, category |-> Null]

MCItems ==
  [tashkent |-> Item("region"), samarkand |-> Item("region"),
   chilonzor |-> [Item("region") EXCEPT !.parent = "tashkent"],
   urgut     |-> [Item("region") EXCEPT !.parent = "samarkand"],
   engineer  |-> [Item("occupation") EXCEPT !.category = "professional"],
   picker    |-> [Item("occupation") EXCEPT !.category = "seasonal_agricultural"],
   master    |-> [Item("skill_level") EXCEPT !.rank = 2],
   novice    |-> [Item("skill_level") EXCEPT !.rank = 1],
   welding   |-> Item("skill"), sewing |-> Item("skill"),
   retired   |-> [Item("skill") EXCEPT !.active = FALSE],
   russian   |-> Item("language"),
   c1        |-> [Item("language_level") EXCEPT !.rank = 5],
   month     |-> Item("payment_period"),
   shovel    |-> [Item("attribute") EXCEPT !.group = "tools"],
   fulltime  |-> Item("employment_type"),
   female    |-> Item("gender"),
   statutory_minimum_age |-> Item("restriction_justification"),
   single_sex_facility   |-> Item("restriction_justification")]

MCToday == <<2026, 8, 7>>

Skilled(item, level) == Object([itemId |-> Id(item), levelId |-> Id(level)])

Paid(from, to, negotiable) ==
  Object([from |-> from, to |-> to, periodId |-> Id("month"), isNegotiable |-> Truth(negotiable)])

Fluent == List(<<Object([itemId |-> Id("russian"), levelId |-> Id("c1"),
                         certificate_note |-> Words(12)])>>)

Full == [full_name |-> Words(20), date_of_birth |-> Date(2000, 2, 29),
         region_id |-> Id("tashkent"), district_id |-> Id("chilonzor"),
         primary_occupation_id |-> Id("engineer")]

MCBodies ==
  [full        |-> Full,
   moved       |-> [region_id |-> Id("samarkand"), district_id |-> Id("chilonzor")],
   region      |-> [region_id |-> Id("samarkand")],
   district    |-> [district_id |-> Id("urgut")],
   noName      |-> [full_name |-> Blank],
   born        |-> [date_of_birth |-> Date(1919, 12, 31)],
   picker      |-> [primary_occupation_id |-> Id("picker"), tool_ids |-> List(<<Id("shovel")>>)],
   noPrimary   |-> [primary_occupation_id |-> Absent],
   level       |-> [occupation_level_id |-> Id("master"), portfolio_url |-> Link(30)],
   additional  |-> [additional_occupation_ids |-> List(<<Id("picker"), Id("engineer")>>)],
   pay         |-> [languages |-> Fluent, salary |-> Paid(Number(5), Number(8), FALSE)],
   skills      |-> [skills |-> List(<<Skilled("welding", "novice"), Skilled("welding", "master"),
                                      Skilled("sewing", "master")>>)],
   terms       |-> [employment_type_ids |-> List(<<Id("fulltime")>>),
                    available_from |-> Date(2026, 9, 1)],
   gender      |-> [gender_id |-> Id("female")],
   blankGender |-> [gender_id |-> Blank],
   tools       |-> [tool_ids |-> List(<<Id("shovel")>>)]]

MCDays == {<<y, m, d>> : y \in {2010, 2012, 2024, 2026}, m \in 2..4, d \in {1, 28, 29, 30, 31}}

MCSamples ==
  {Absent, Blank, Words(2), Words(20), Words(121), Words(6000), Link(30), Link(301),
   Truth(TRUE), Truth(FALSE), Half(5), Object([from |-> Absent])} \cup
  {Number(n) : n \in {-1, 0, 1, 14, 24, 100, 101, 201, 500000001}} \cup
  {Date(2026, 8, 7), Date(2026, 8, 8), Date(2026, 2, 30)} \cup
  {Id(i) : i \in DOMAIN MCItems \cup {"nowhere"}} \cup
  {List(<<Id(i), Id(i), Id(j)>>) : i, j \in {"engineer", "picker", "shovel", "retired"}} \cup
  {List(<<Skilled(i, a), Skilled(j, b)>>) :
     i, j \in {"welding", "sewing", "retired"}, a, b \in {"novice", "master", "c1"}} \cup
  {Fluent, List(<<Object([itemId |-> Id("russian"), levelId |-> Id("c1"),
                          has_certificate |-> Words(3)])>>)} \cup
  {Paid(a, b, n) : a, b \in {Absent, Number(-1), Number(5), Number(8), Words(3)}, n \in BOOLEAN}

--------------------------------------------------------------------------------

Opening ==
  [occupation_id |-> Id("engineer"), title |-> Words(20), description |-> Words(100),
   worker_count |-> Number(2), region_id |-> Id("tashkent"), district_id |-> Id("chilonzor"),
   employment_type_ids |-> List(<<Id("fulltime")>>),
   salary |-> Paid(Number(5), Number(6), FALSE)]

Harvest ==
  [occupation_id |-> Id("picker"), region_id |-> Id("samarkand"),
   starts_on |-> Date(2026, 9, 1), ends_on |-> Date(2026, 10, 1),
   salary |-> Paid(Absent, Absent, TRUE),
   tool_ids |-> List(<<Id("shovel")>>), crew_required |-> Truth(FALSE)]

Preferred(item, level) ==
  Object([itemId |-> Id(item), levelId |-> Id(level), is_mandatory |-> Truth(FALSE)])

MCVacancyBodies ==
  [opening   |-> Opening,
   harvest   |-> Harvest,
   two       |-> [skills |-> List(<<Skilled("welding", "novice"), Skilled("sewing", "master")>>)],
   one       |-> [skills |-> List(<<Skilled("sewing", "master"), Preferred("welding", "master")>>)],
   russian   |-> [languages |-> List(<<Skilled("russian", "c1")>>)],
   budget    |-> [salary |-> Paid(Number(4), Absent, FALSE)],
   both      |-> [salary |-> Paid(Number(4), Absent, TRUE)],
   young     |-> [age_min |-> Number(18), age_max |-> Number(30),
                  restriction_justification_id |-> Id("statutory_minimum_age")],
   old       |-> [age_min |-> Number(40)],
   hundred   |-> [age_max |-> Number(100)],
   women     |-> [gender_id |-> Id("female"),
                  restriction_justification_id |-> Id("single_sex_facility")],
   supported |-> [restriction_justification_id |-> Id("statutory_minimum_age")],
   none      |-> [restriction_justification_id |-> Absent],
   ended     |-> [ends_on |-> Date(2026, 8, 31)],
   early     |-> [starts_on |-> Date(2026, 8, 20)]]

MCJobFacts == [j \in {job} |-> [id |-> j, occupation |-> "engineer", days |-> 730, current |-> TRUE]]

MCDegreeLevel == [d \in {degree} |-> "bachelor"]

Rival(id, values, since) ==
  [id |-> id,
   answers |-> ApplyFields(NoAnswers, "professional", values),
   occupation |-> [primary |-> "engineer", level |-> Null, others |-> {"picker"}],
   jobs |-> {}, degrees |-> {}, category |-> "professional", percent |-> 40,
   complete |-> TRUE, visibility |-> "searchable", updated |-> since]

MCRivals ==
  LET pay == [from |-> 5, to |-> Null, period |-> Null, negotiable |-> FALSE] IN
  {Rival(1, [region_id |-> "tashkent", salary |-> pay], Null),
   Rival(2, [region_id |-> "tashkent", district_id |-> "chilonzor", salary |-> pay], 7),
   Rival(3, [region_id |-> "tashkent", district_id |-> "chilonzor"], 7)}

MCFilterSets ==
  {[n \in {} |-> Null],
   [occupationIds |-> <<"engineer">>, regionId |-> "tashkent",
    districtIds |-> <<"chilonzor", "urgut">>],
   [skillIds |-> <<"welding", "sewing">>, skillsMatchAll |-> TRUE, skillMinLevelRank |-> 1,
    languages |-> <<[item |-> "russian", minLevelRank |-> 4, certificate |-> FALSE]>>],
   [occupationIds |-> <<"engineer", "picker">>, salaryMax |-> 5, availableImmediately |-> TRUE,
    proximityDistrictId |-> "urgut"],
   [attributeIds |-> <<"shovel">>, attributesMatchAll |-> TRUE, occupationIds |-> <<"engineer">>,
    employmentTypeIds |-> <<"fulltime">>]}

Init == InitWith(Full, job)

Spec == Init /\ [][Next]_vars

================================================================================
