----------------------------- MODULE MatchingProofs -----------------------------
(***************************************************************************)
(* Proofs about the profile and the rules over it, for every form,         *)
(* dictionary, body, day and number of requests: how ages are counted,     *)
(* what the gate of BR-02 is, why only a history write can leave it stale, *)
(* who scores in full, why the pages of a search add up, and why what the  *)
(* validator accepts is stored and reads back.  Induction over numbers is  *)
(* the least number of a set; sums and products are folds, unfolded along  *)
(* it.                                                                     *)
(***************************************************************************)
EXTENDS Matching, FiniteSetTheorems, SequenceTheorems, WellFoundedInduction, TLAPS

\* Rounding keeps a share between nothing and the whole, and reaches the whole
\* early only from 200 entries on.
LEMMA PercentBounds ==
  ASSUME NEW p \in Nat, NEW w \in Nat, p <= w, w > 0
  PROVE  /\ Percent(p, w) \in 0..100
         /\ p = 0 => Percent(p, w) = 0
         /\ p = w => Percent(p, w) = 100
         /\ p + 1 = w /\ w < 200 => Percent(p, w) < 100
  <1> DEFINE a == 200 * p + w
             q == a \div (2 * w)
  <1>1. a \in Nat /\ 2 * w \in Nat /\ 2 * w > 0
    OBVIOUS
  <1>2. q \in Int /\ (2 * w) * q <= a /\ a < (2 * w) * q + 2 * w
    BY <1>1
  <1>3. q \in Nat /\ q < 101
    BY <1>1, <1>2
  <1>4. p = 0 => q = 0
    BY <1>1, <1>2, <1>3
  <1>5. p = w => q = 100
    BY <1>1, <1>2, <1>3
  <1>6. p + 1 = w /\ w < 200 => q < 100
    BY <1>1, <1>2, <1>3
  <1>7. QED
    BY <1>3, <1>4, <1>5, <1>6 DEF Percent

--------------------------------------------------------------------------------
(* Dates *)

\* Months have 28 to 31 days, February 28 or 29.
LEMMA LastDays ==
  ASSUME NEW y \in Int, NEW m \in 1..12
  PROVE  /\ LastDay(y, m) \in 28..31
         /\ LastDay(y, 2) \in {28, 29}
  BY DEF LastDay

\* PostgreSQL's years before a day count a birthday as having come.
LEMMA DatabaseAges ==
  ASSUME NEW today \in Nat \X Nat \X Nat, NEW born \in Nat \X Nat \X Nat, NEW k \in Nat,
         Exists(today), Exists(born)
  PROVE  ~Later(born, DatabaseYearsBefore(today, k)) <=> AgeOn(today, born) >= k
  <1>1. /\ today[1] \in Nat /\ today[2] \in 1..12 /\ today[3] \in 1..31
        /\ born[1] \in Nat /\ born[2] \in 1..12 /\ born[3] \in 1..31
    BY LastDays DEF Exists
  <1>2. LastDay(today[1] - k, 2) \in {28, 29}
    BY LastDays, <1>1
  <1>3. born[2] = 2 => born[3] <= LastDay(born[1], 2)
    BY DEF Exists
  <1>4. QED
    BY <1>1, <1>2, <1>3 DEF Later, DatabaseYearsBefore, AgeOn

\* So do the validator's, but for a birthday of 1 March on a 29 February.
LEMMA ValidatorAges ==
  ASSUME NEW today \in Nat \X Nat \X Nat, NEW born \in Nat \X Nat \X Nat, NEW k \in Nat,
         Exists(today), Exists(born), ~Leapling(today, born)
  PROVE  ~Later(born, YearsBefore(today, k)) <=> AgeOn(today, born) >= k
  <1>1. /\ today[1] \in Nat /\ today[2] \in 1..12 /\ today[3] \in 1..31
        /\ born[1] \in Nat /\ born[2] \in 1..12 /\ born[3] \in 1..31
    BY LastDays DEF Exists
  <1>2. LastDay(today[1] - k, 2) \in {28, 29}
    BY LastDays, <1>1
  <1>3. today[2] = 2 => today[3] <= 29
    BY LastDays, <1>1 DEF Exists
  <1>4. born[2] = 2 => born[3] <= LastDay(born[1], 2)
    BY DEF Exists
  <1>5. QED
    BY <1>1, <1>2, <1>3, <1>4 DEF Later, YearsBefore, AgeOn, Leapling

\* Of three checks one is broken unless all hold.
LEMMA FirstOfThree ==
  ASSUME NEW a, NEW b, NEW c
  PROVE  FirstOf(<<a, b, c>>) = {} <=> (a.holds /\ b.holds /\ c.holds)
  <1> DEFINE s == <<a, b, c>>
             first == {n \in DOMAIN s : ~s[n].holds /\ \A m \in 1..(n - 1) : s[m].holds}
  <1>1. DOMAIN s = 1..3 /\ s[1] = a /\ s[2] = b /\ s[3] = c
    OBVIOUS
  <1> HIDE DEF s
  <1>2. first = {} <=> (a.holds /\ b.holds /\ c.holds)
    <2>1. ~a.holds => 1 \in first
      BY <1>1
    <2>2. a.holds /\ ~b.holds => 2 \in first
      BY <1>1
    <2>3. a.holds /\ b.holds /\ ~c.holds => 3 \in first
      BY <1>1
    <2>4. a.holds /\ b.holds /\ c.holds => first = {}
      BY <1>1
    <2>5. QED
      BY <2>1, <2>2, <2>3, <2>4
  <1>3. FirstOf(s) = {s[i].rule : i \in first}
    BY DEF FirstOf
  <1> HIDE DEF first
  <1>4. QED
    BY <1>2, <1>3 DEF s

\* The validator's rules of a day that exists: it is not in the future, and old enough.
LEMMA BirthDates ==
  ASSUME NEW today \in Nat \X Nat \X Nat, NEW born \in Nat \X Nat \X Nat, Exists(born)
  PROVE  (BirthDateRules(born, today) = {}) <=>
           (~Later(born, today) /\ ~Later(born, YearsBefore(today, 14)))
  <1> DEFINE field == CandidateForm["date_of_birth"]
             raw   == Date(born[1], born[2], born[3])
             past  == ~Later(born, today)
             old   == ~Later(born, YearsBefore(today, 14))
             is    == Check("isDate", Exists(raw.day))
             after == Check("notAfter", field.notAfter = "today" => ~Later(raw.day, today))
             aged  == Check("minAgeYears", OldEnough(field, raw.day, today))
             checks == <<is, after, aged>>
  <1> HIDE DEF field, is, after, aged
  <1>1. /\ raw.is = "text" /\ raw.length = 10 /\ raw.day = <<born[1], born[2], born[3]>>
        /\ raw.day = born /\ raw \notin {Absent, Blank}
    BY DEF Date, Words, Absent, Blank
  <1>2. raw.day # Null
    BY <1>1, NullAssumption
  <1>3. field.kind = "date" /\ field.notAfter = "today" /\ field.minAge = 14 /\ 14 # Null
    BY FormAssumption, NullAssumption DEF field
  <1>4. OldEnough(field, raw.day, today) <=> old
    BY <1>1, <1>3 DEF OldEnough
  <1>5. FirstOf(checks) = {} <=> past /\ old
    <2>1. FirstOf(checks) = {} <=> is.holds /\ after.holds /\ aged.holds
      BY FirstOfThree
    <2>2. (is.holds <=> Exists(raw.day)) /\ (aged.holds <=> OldEnough(field, raw.day, today))
      BY DEF is, aged, Check
    <2>3. after.holds <=> (field.notAfter = "today" => ~Later(raw.day, today))
      BY DEF after, Check
    <2>4. after.holds <=> past
      BY <1>1, <1>3, <2>3
    <2>5. QED
      BY <1>1, <1>4, <2>1, <2>2, <2>4
  <1>6. BirthDateRules(born, today) = ParseDate(field, raw, today).rules
    BY <1>1, <1>3 DEF BirthDateRules, ParseField, field
  <1>7. ParseDate(field, raw, today) = Unless(FirstOf(checks), raw.day)
    BY <1>1, <1>2 DEF ParseDate, is, after, aged
  <1>8. QED
    BY <1>5, <1>6, <1>7 DEF Unless, Parsed, Broken

\* The form and the search count a person's age alike, to the day.
LEMMA AgesAgreeAlways ==
  AgesAgree
  <1>1. CountsAges
    <2> SUFFICES ASSUME NEW today \in {d \in Days : Exists(d)}, NEW born \in {d \in Days : Exists(d)},
                        ~Leapling(today, born)
                 PROVE  (BirthDateRules(born, today) = {}) = (AgeOn(today, born) >= 14)
      BY DEF CountsAges
    <2>1. /\ today \in Nat \X Nat \X Nat /\ Exists(today)
          /\ born \in Nat \X Nat \X Nat /\ Exists(born)
      BY DaysAssumption
    <2>2. ~Later(born, YearsBefore(today, 14)) <=> AgeOn(today, born) >= 14
      BY <2>1, ValidatorAges
    <2>3. AgeOn(today, born) >= 14 => ~Later(born, today)
      BY <2>1, LastDays DEF AgeOn, Later, Exists
    <2>4. (BirthDateRules(born, today) = {}) <=> (AgeOn(today, born) >= 14)
      BY <2>1, <2>2, <2>3, BirthDates
    <2>5. (AgeOn(today, born) >= 14) \in BOOLEAN
      OBVIOUS
    <2>6. QED
      BY <2>4, <2>5
  <1>2. FiltersCountAges
    <2> SUFFICES ASSUME NEW today \in {d \in Days : Exists(d)}, NEW born \in {d \in Days : Exists(d)},
                        NEW age \in {14, 16, 18}
                 PROVE  LET c    == [answers |-> [date_of_birth |-> born]]
                            held == AgeOn(today, born)
                        IN /\ WhereRestrictions([ageMin |-> age], c, today) = (held >= age)
                           /\ WhereRestrictions([ageMax |-> age], c, today) = (held <= age)
      BY DEF FiltersCountAges
    <2> DEFINE c    == [answers |-> [date_of_birth |-> born]]
               held == AgeOn(today, born)
               least == [ageMin |-> age]
               most  == [ageMax |-> age]
    <2>1. /\ today \in Nat \X Nat \X Nat /\ Exists(today)
          /\ born \in Nat \X Nat \X Nat /\ Exists(born) /\ born # Null
      BY DaysAssumption, NullAssumption
    <2>2. Of(c, "date_of_birth") = born
      BY DEF Of
    <2>3. held \in Int
      BY <2>1 DEF AgeOn
    <2>4. /\ "ageMin" \in DOMAIN least /\ least["ageMin"] = age
          /\ "ageMax" \notin DOMAIN least /\ "genderId" \notin DOMAIN least
      OBVIOUS
    <2>5. /\ "ageMax" \in DOMAIN most /\ most["ageMax"] = age
          /\ "ageMin" \notin DOMAIN most /\ "genderId" \notin DOMAIN most
      OBVIOUS
    <2> HIDE DEF c, least, most, held
    <2>6. ~Later(born, DatabaseYearsBefore(today, age)) <=> held >= age
      BY <2>1, DatabaseAges DEF held
    <2>7. ~Later(born, DatabaseYearsBefore(today, age + 1)) <=> held >= age + 1
      BY <2>1, DatabaseAges DEF held
    <2>8. WhereRestrictions(least, c, today) <=> held >= age
      BY <2>1, <2>2, <2>4, <2>6 DEF WhereRestrictions, If
    <2>9. Later(born, DatabaseYearsBefore(today, age + 1)) <=> held <= age
      BY <2>3, <2>7
    <2>10. WhereRestrictions(most, c, today) <=> held <= age
      BY <2>1, <2>2, <2>5, <2>9 DEF WhereRestrictions, If, BornAfter
    <2>11. (held >= age) \in BOOLEAN /\ (held <= age) \in BOOLEAN
      OBVIOUS
    <2>12. /\ WhereRestrictions(least, c, today) \in BOOLEAN
           /\ WhereRestrictions(most, c, today) \in BOOLEAN
      BY DEF WhereRestrictions
    <2>13. QED
      BY <2>8, <2>10, <2>11, <2>12 DEF c, held, least, most
  <1>3. QED
    BY <1>1, <1>2 DEF AgesAgree, AgeIsCounted, AgeFiltersCountAges

--------------------------------------------------------------------------------
(* The gate *)

\* One element more is at most one more to count.
LEMMA AddOne ==
  ASSUME NEW S, NEW x, IsFiniteSet(S)
  PROVE  /\ IsFiniteSet(S \cup {x})
         /\ Cardinality(S) \in Nat /\ Cardinality(S \cup {x}) \in Nat
         /\ Cardinality(S \cup {x}) <= Cardinality(S) + 1
  <1>1. Cardinality(S) \in Nat
    BY FS_CardinalityType
  <1>2. IsFiniteSet(S \cup {x})
    BY FS_AddElement
  <1>3. Cardinality(S \cup {x}) = IF x \in S THEN Cardinality(S) ELSE Cardinality(S) + 1
    BY FS_AddElement
  <1>4. QED
    BY <1>1, <1>2, <1>3

\* What the percentage is a share of: some entries, and fewer than 200.
LEMMA Entries ==
  ASSUME NEW category
  PROVE  /\ IsFiniteSet(CompletenessEntries(category))
         /\ Cardinality(CompletenessEntries(category)) \in Nat
         /\ Cardinality(CompletenessEntries(category)) > 0
         /\ Cardinality(CompletenessEntries(category)) < 200
  <1> DEFINE fields == FieldsFor(CandidateForm, category)
  <1>1. fields \subseteq DOMAIN CandidateForm
    BY DEF FieldsFor
  <1>2. IsFiniteSet(fields) /\ Cardinality(fields) <= Cardinality(DOMAIN CandidateForm)
    BY <1>1, FormAssumption, FS_Subset
  <1>3. Cardinality(fields) \in Nat /\ Cardinality(DOMAIN CandidateForm) \in Nat
    BY <1>2, FormAssumption, FS_CardinalityType
  <1> DEFINE once  == fields \cup {"experience"}
             twice == once \cup {"education"}
  <1>4. /\ IsFiniteSet(once) /\ Cardinality(once) \in Nat
        /\ Cardinality(once) <= Cardinality(fields) + 1
    BY <1>2, AddOne
  <1>5. /\ IsFiniteSet(twice) /\ Cardinality(twice) \in Nat
        /\ Cardinality(twice) <= Cardinality(once) + 1
    BY <1>4, AddOne
  <1>6. twice = CompletenessEntries(category)
    BY DEF CompletenessEntries, BespokeSections
  <1>7. Cardinality(twice) # 0
    BY <1>5, FS_EmptySet
  <1> HIDE DEF fields, once, twice
  <1>8. Cardinality(twice) > 0 /\ Cardinality(twice) < 200
    BY <1>2, <1>3, <1>4, <1>5, <1>7, FormAssumption
  <1>9. QED
    BY <1>5, <1>6, <1>8

\* The derived columns have their types.
LEMMA DerivedType ==
  ASSUME NEW category \in Everywhere, NEW filled
  PROVE  Derived(category, filled) \in DerivedColumns
  <1> DEFINE entries == CompletenessEntries(category)
             got == entries \cap filled
  <1>1. /\ IsFiniteSet(entries) /\ Cardinality(entries) \in Nat
        /\ Cardinality(entries) > 0 /\ Cardinality(entries) < 200
    BY Entries
  <1>2. Cardinality(got) \in Nat /\ Cardinality(got) <= Cardinality(entries)
    BY <1>1, FS_Subset, FS_CardinalityType
  <1> HIDE DEF entries, got
  <1>3. Percent(Cardinality(got), Cardinality(entries)) \in 0..100
    BY <1>1, <1>2, PercentBounds
  <1>4. QED
    BY <1>3 DEF Derived, Completeness, DerivedColumns, entries, got

\* Of nothing nothing is derived.
LEMMA DerivedOfNothing ==
  Derived(Null, {}) = [category |-> Null, percent |-> 0, complete |-> FALSE]
  <1> DEFINE entries == CompletenessEntries(Null)
             got == entries \cap {}
  <1>1. /\ IsFiniteSet(entries) /\ Cardinality(entries) \in Nat
        /\ Cardinality(entries) > 0 /\ Cardinality(entries) < 200
    BY Entries
  <1>2. Cardinality(got) = 0
    BY FS_EmptySet
  <1> HIDE DEF entries, got
  <1>3. Percent(Cardinality(got), Cardinality(entries)) = 0
    BY <1>1, <1>2, PercentBounds
  <1>4. ~(RequiredForSearchable(CandidateForm, Null) \subseteq {})
    BY FormAssumption
  <1>5. QED
    BY <1>3, <1>4 DEF Derived, Completeness, entries, got

\* BR-02's gate is the required fields and nothing else.
LEMMA GateIsRequired ==
  GateIsRequiredFields
  <1> SUFFICES ASSUME NEW category \in Everywhere
               PROVE  LET required == RequiredForSearchable(CandidateForm, category)
                          entries  == CompletenessEntries(category)
                      IN /\ Completeness(category, required).complete
                         /\ \A code \in required :
                              ~Completeness(category, entries \ {code}).complete
                         /\ \A code \in entries :
                              Completeness(category, entries \ {code}).percent < 100
                         /\ Completeness(category, entries).percent = 100
    BY DEF GateIsRequiredFields, GatesOnRequired
  <1> DEFINE required == RequiredForSearchable(CandidateForm, category)
             entries  == CompletenessEntries(category)
  <1>1. /\ IsFiniteSet(entries) /\ Cardinality(entries) \in Nat
        /\ Cardinality(entries) > 0 /\ Cardinality(entries) < 200
    BY Entries
  <1>2. Completeness(category, required).complete
    BY DEF Completeness
  <1>3. ASSUME NEW code \in required PROVE ~Completeness(category, entries \ {code}).complete
    BY DEF Completeness
  <1>4. ASSUME NEW code \in entries PROVE Completeness(category, entries \ {code}).percent < 100
    <2> DEFINE rest == entries \ {code}
    <2>1. Cardinality(rest) = Cardinality(entries) - 1 /\ Cardinality(rest) \in Nat
      BY <1>1, FS_RemoveElement, FS_CardinalityType
    <2>2. entries \cap rest = rest
      OBVIOUS
    <2> HIDE DEF entries, rest
    <2>3. Percent(Cardinality(rest), Cardinality(entries)) < 100
      BY <1>1, <2>1, PercentBounds
    <2>4. QED
      BY <2>2, <2>3 DEF Completeness, entries, rest
  <1>5. Completeness(category, entries).percent = 100
    <2>1. entries \cap entries = entries
      OBVIOUS
    <2> HIDE DEF entries
    <2>2. Percent(Cardinality(entries), Cardinality(entries)) = 100
      BY <1>1, PercentBounds
    <2>3. QED
      BY <2>1, <2>2 DEF Completeness, entries
  <1>6. QED
    BY <1>2, <1>3, <1>4, <1>5

--------------------------------------------------------------------------------
(* Values *)

\* A select that is accepted names no item or one of its type.
LEMMA ParsedSingle ==
  ASSUME NEW field, NEW raw, NEW stored, NEW today, field.kind = "single",
         ParseField(field, raw, stored, today).rules = {}
  PROVE  ParseField(field, raw, stored, today).value
           \in {Null} \cup {i \in DOMAIN Items : Items[i].type = field.type}
  <1>1. CASE raw \in {Absent, Blank}
    BY <1>1 DEF ParseField, EmptyFor, Parsed
  <1>2. CASE raw \notin {Absent, Blank}
    <2>1. ParseField(field, raw, stored, today) = ParseSingle(field, raw, stored)
      BY <1>2 DEF ParseField
    <2>2. Usable(raw, field.type, field.group)
      BY <2>1 DEF ParseSingle, Broken
    <2>3. ParseSingle(field, raw, stored).value = raw.id \/ ParseSingle(field, raw, stored).value = Null
      BY DEF ParseSingle, Broken, Unless, Parsed
    <2>4. QED
      BY <2>1, <2>2, <2>3 DEF Usable
  <1>3. QED
    BY <1>1, <1>2

\* What the validator makes of any body.
LEMMA ValidValues ==
  ASSUME NEW category, NEW body, NEW stored, NEW today
  PROVE  ValuesOK(category, Validate(CandidateForm, category, body, stored, today).values)
  <1> DEFINE parsed == [code \in DOMAIN body \cap FieldsFor(CandidateForm, category) |->
                          ParseField(CandidateForm[code], body[code], stored, today)]
             kept   == {c \in DOMAIN parsed : parsed[c].rules = {}}
             values == [code \in kept |-> parsed[code].value]
  <1>1. Validate(CandidateForm, category, body, stored, today).values = values
    BY DEF Validate, Verdict
  <1>2. DOMAIN values = kept /\ kept \subseteq DOMAIN body \cap FieldsFor(CandidateForm, category)
    OBVIOUS
  <1>3. ASSUME NEW code \in kept, CandidateForm[code].kind = "single"
        PROVE  values[code] \in {Null} \cup
                                 {i \in DOMAIN Items : Items[i].type = CandidateForm[code].type}
    <2>1. ParseField(CandidateForm[code], body[code], stored, today).rules = {}
      OBVIOUS
    <2>2. values[code] = ParseField(CandidateForm[code], body[code], stored, today).value
      OBVIOUS
    <2>3. QED
      BY <1>3, <2>1, <2>2, ParsedSingle
  <1> HIDE DEF values, kept
  <1>4. Given(values, "primary_occupation_id", Null) \in Occupation
    BY <1>2, <1>3, FormAssumption DEF Given, Occupation
  <1>5. Given(values, "region_id", Null) \in Regions
    BY <1>2, <1>3, FormAssumption DEF Given, Regions
  <1>6. QED
    BY <1>1, <1>2, <1>4, <1>5 DEF ValuesOK

\* Categories of items and bodies are categories.
LEMMA CategoryType ==
  /\ \A item \in Occupation : CategoryOf(item) \in Everywhere
  /\ \A body, stored : stored \in Everywhere =>
       EffectiveCategory("primary_occupation_id", body, stored) \in Everywhere
  <1>1. ASSUME NEW item \in Occupation PROVE CategoryOf(item) \in Everywhere
    BY ItemsAssumption DEF Occupation, CategoryOf, Everywhere
  <1>2. ASSUME NEW body, NEW stored, stored \in Everywhere
        PROVE  EffectiveCategory("primary_occupation_id", body, stored) \in Everywhere
    BY <1>2, ItemsAssumption DEF EffectiveCategory
  <1>3. QED
    BY <1>1, <1>2

\* The tables after a PATCH.
LEMMA Applied ==
  ASSUME NEW category, NEW values, NEW stored, NEW job, ValuesOK(category, values),
         DOMAIN stored \subseteq DOMAIN CandidateForm \ OccupationCodes,
         Given(stored, "region_id", Null) \in Regions, job.primary \in Occupation
  PROVE  LET after == ApplyFields(stored, category, values)
             now   == WriteOccupations(job, values)
         IN /\ DOMAIN after \subseteq DOMAIN CandidateForm \ OccupationCodes
            /\ Given(after, "region_id", Null) \in Regions
            /\ now.primary \in Occupation
            /\ now.level # Null => now.primary # Null
            /\ now.primary \notin now.others
  <1> DEFINE after   == ApplyFields(stored, category, values)
             written == (DOMAIN values \cap FieldsFor(CandidateForm, category)) \ OccupationCodes
             given   == {code \in written : Answered(CandidateForm[code], values[code])}
  <1>1. /\ DOMAIN after = (DOMAIN stored \ written) \cup given
        /\ \A code \in DOMAIN after :
             after[code] = IF code \in given THEN Written(code, values[code]) ELSE stored[code]
    BY DEF ApplyFields
  <1>2. written \subseteq DOMAIN CandidateForm \ OccupationCodes
    BY DEF FieldsFor
  <1>3. "region_id" \in DOMAIN after => after["region_id"] \in Regions
    <2>1. CASE "region_id" \in given
      BY <1>1, <2>1 DEF Written, ValuesOK, Given
    <2>2. CASE "region_id" \notin given
      BY <1>1, <2>2 DEF Given
    <2>3. QED
      BY <2>1, <2>2
  <1>4. Given(after, "region_id", Null) \in Regions
    BY <1>3 DEF Given, Regions
  <1>5. DOMAIN after \subseteq DOMAIN CandidateForm \ OccupationCodes
    BY <1>1, <1>2
  <1>6. /\ WriteOccupations(job, values).primary \in Occupation
        /\ WriteOccupations(job, values).level # Null => WriteOccupations(job, values).primary # Null
        /\ WriteOccupations(job, values).primary \notin WriteOccupations(job, values).others
    BY DEF WriteOccupations, ValuesOK, Given
  <1>7. QED
    BY <1>4, <1>5, <1>6

--------------------------------------------------------------------------------
(* The inductive invariant *)

\* Nothing is stored, so nothing is answered.
LEMMA NothingFilled ==
  FilledCodes(NoAnswers, NoOccupation, {}) = {}
  <1>1. ASSUME NEW code \in DOMAIN CandidateForm
        PROVE  ValueOf(code, NoAnswers, NoOccupation) = EmptyFor(CandidateForm[code])
    BY FormAssumption DEF ValueOf, NoAnswers, NoOccupation, EmptyFor, Given
  <1>2. QED
    BY <1>1 DEF FilledCodes, Answered

\* An accepted body is validated for the category of the occupation it sets.
LEMMA AcceptedCategory ==
  ASSUME NEW full, NEW category, NEW result,
         category = EffectiveCategory("primary_occupation_id", full, Null),
         result = Validate(CandidateForm, category, full, [region_id |-> Null], Today),
         result.rules = {}
  PROVE  CategoryOf(WriteOccupations(NoOccupation, result.values).primary) = category
  <1> DEFINE code   == "primary_occupation_id"
             fields == DOMAIN full \cap FieldsFor(CandidateForm, category)
             stored == [region_id |-> Null]
             parsed == [c \in fields |-> ParseField(CandidateForm[c], full[c], stored, Today)]
  <1>1. /\ result.values = [c \in {k \in fields : parsed[k].rules = {}} |-> parsed[c].value]
        /\ \A c \in fields : parsed[c].rules = {}
        /\ DOMAIN full \subseteq fields
    <2>1. result = Verdict(full, parsed)
      BY DEF Validate
    <2>2. DOMAIN parsed = fields
      OBVIOUS
    <2> HIDE DEF parsed, fields
    <2>3. /\ result.values = [c \in {k \in DOMAIN parsed : parsed[k].rules = {}} |-> parsed[c].value]
          /\ result.rules = BrokenRules(parsed) \cup UnknownFields(full, parsed)
      BY <2>1 DEF Verdict
    <2>4. BrokenRules(parsed) = {} /\ UnknownFields(full, parsed) = {}
      BY <2>3
    <2>5. /\ DOMAIN full \subseteq DOMAIN parsed
          /\ \A c \in DOMAIN parsed : parsed[c].rules = {}
      BY <2>4 DEF BrokenRules, UnknownFields
    <2>6. DOMAIN full \subseteq fields /\ \A c \in fields : parsed[c].rules = {}
      BY <2>2, <2>5
    <2>7. QED
      BY <2>2, <2>3, <2>6
  <1>2. WriteOccupations(NoOccupation, result.values).primary = Given(result.values, code, Null)
    BY DEF WriteOccupations, NoOccupation
  <1>3. CASE code \notin DOMAIN full
    <2>1. Given(result.values, code, Null) = Null
      BY <1>1, <1>3 DEF Given
    <2>2. category = Null
      BY <1>3 DEF EffectiveCategory, IsUuid, Absent
    <2>3. QED
      BY <1>2, <2>1, <2>2 DEF CategoryOf
  <1>4. CASE code \in DOMAIN full
    <2> DEFINE raw == full[code]
               p   == ParseField(CandidateForm[code], raw, stored, Today)
    <2>1. p.rules = {}
      BY <1>1, <1>4
    <2>2. Given(result.values, code, Null) = p.value
      BY <1>1, <1>4, <2>1 DEF Given
    <2>3. CASE raw \in {Absent, Blank}
      <3>1. p.value = Null
        BY <2>3, FormAssumption DEF ParseField, EmptyFor, Parsed
      <3>2. ~IsUuid(raw)
        BY <2>3 DEF IsUuid, Absent, Blank, Words
      <3>3. category = Null
        BY <1>4, <3>2 DEF EffectiveCategory
      <3>4. QED
        BY <1>2, <2>2, <3>1, <3>3 DEF CategoryOf
    <2>4. CASE raw \notin {Absent, Blank}
      <3>1. p = ParseSingle(CandidateForm[code], raw, stored)
        BY <2>4, FormAssumption DEF ParseField
      <3>2. /\ Usable(raw, CandidateForm[code].type, CandidateForm[code].group)
            /\ p.value = raw.id
        BY <2>1, <3>1 DEF ParseSingle, Broken, Unless, Parsed
      <3>3. IsUuid(raw) /\ raw.id \in DOMAIN Items /\ raw.id # Null
        BY <3>2 DEF Usable, IsUuid
      <3>4. category = Items[raw.id].category
        BY <1>4, <3>3 DEF EffectiveCategory
      <3>5. QED
        BY <1>2, <2>2, <3>2, <3>3, <3>4 DEF CategoryOf
    <2>5. QED
      BY <2>3, <2>4
  <1>5. QED
    BY <1>3, <1>4

\* The first state, empty or of an accepted body, is consistent.
LEMMA InitInv ==
  ASSUME NEW full, NEW record \in Records
  PROVE  InitWith(full, record) => IInv
  <1> SUFFICES ASSUME InitWith(full, record) PROVE IInv
    OBVIOUS
  <1>1. /\ DOMAIN req = Txns /\ \A t \in Txns : RequestOK(t)
        /\ pc \in [Txns -> {"idle", "begin", "load", "derive", "write"}]
        /\ arrived \in 0..MaxRequests
        /\ OvertakenOK
    <2>1. NoRequest.op # "patch" /\ NoRequest.op # "add"
      BY NullAssumption DEF NoRequest
    <2>2. ASSUME NEW t \in Txns PROVE RequestOK(t)
      BY <2>1 DEF InitWith, RequestOK
    <2>3. pc \in [Txns -> {"idle", "begin", "load", "derive", "write"}] /\ DOMAIN req = Txns
      BY DEF InitWith
    <2>4. arrived \in 0..MaxRequests /\ OvertakenOK
      BY BoundAssumption DEF InitWith, OvertakenOK
    <2>5. QED
      BY <2>2, <2>3, <2>4
  <1>2. ASSUME row = NoRow, answers = NoAnswers, occupation = NoOccupation, history = {}
        PROVE  IInv
    <2>1. Recomputed = [category |-> Null, percent |-> 0, complete |-> FALSE]
      BY <1>2, NothingFilled, DerivedOfNothing DEF Recomputed, CategoryOf, NoOccupation
    <2>2. TablesOK
      BY <1>2, <2>1 DEF TablesOK, Occupation, Regions, Given, NoAnswers, NoOccupation, NoRow
    <2>3. TypeOK
      BY <1>1, <1>2 DEF TypeOK, NoRow, NoAnswers, NoOccupation, Visibilities, Everywhere
    <2>4. QED
      BY <1>1, <2>2, <2>3 DEF IInv
  <1>3. ASSUME NEW category, category = EffectiveCategory("primary_occupation_id", full, Null),
               NEW result,
               result = Validate(CandidateForm, category, full, [region_id |-> Null], Today),
               result.rules = {},
               answers = ApplyFields(NoAnswers, category, result.values),
               occupation = WriteOccupations(NoOccupation, result.values),
               history = {record},
               NEW d, d = Derived(category, FilledCodes(answers, occupation, history)),
               row = [NoRow EXCEPT !.exists = TRUE, !.category = d.category,
                                   !.percent = d.percent, !.complete = d.complete]
        PROVE  IInv
    <2>1. ValuesOK(category, result.values)
      BY <1>3, ValidValues
    <2>2. /\ DOMAIN NoAnswers \subseteq DOMAIN CandidateForm \ OccupationCodes
          /\ Given(NoAnswers, "region_id", Null) \in Regions
          /\ NoOccupation.primary \in Occupation
      BY DEF NoAnswers, Given, Regions, NoOccupation, Occupation
    <2>3. /\ DOMAIN answers \subseteq DOMAIN CandidateForm \ OccupationCodes
          /\ Given(answers, "region_id", Null) \in Regions
          /\ occupation.primary \in Occupation
          /\ occupation.level # Null => occupation.primary # Null
          /\ occupation.primary \notin occupation.others
      BY <1>3, <2>1, <2>2, Applied
    <2>4. d \in DerivedColumns /\ d = Recomputed
      BY <1>3, <2>3, AcceptedCategory, CategoryType, DerivedType DEF Recomputed
    <2>5. row = [exists |-> TRUE, category |-> d.category, percent |-> d.percent,
                 complete |-> d.complete, visibility |-> "hidden"]
      BY <1>3 DEF NoRow
    <2>6. d = [category |-> row.category, percent |-> row.percent, complete |-> row.complete]
      BY <2>4, <2>5 DEF DerivedColumns
    <2>7. TablesOK
      BY <2>3, <2>4, <2>6 DEF TablesOK
    <2>8. TypeOK
      <3>1. row \in [exists : BOOLEAN, category : Everywhere, percent : 0..100,
                     complete : BOOLEAN, visibility : Visibilities]
        BY <2>4, <2>5 DEF DerivedColumns, Visibilities
      <3>2. history \subseteq Records
        BY <1>3
      <3>3. QED
        BY <1>1, <2>3, <3>1, <3>2 DEF TypeOK
    <2>9. QED
      BY <1>1, <2>7, <2>8 DEF IInv
  <1>4. QED
    BY <1>2, <1>3 DEF InitWith

\* A request on which nothing bears keeps what it relies on.
LEMMA Untouched ==
  ASSUME NEW u \in Txns, RequestOK(u), UNCHANGED <<answers, occupation, history>>,
         req'[u] = req[u], pc'[u] = pc[u], u \notin overtaken' => u \notin overtaken
  PROVE  RequestOK(u)'
  <1>1. Reading(u)' = Reading(u) /\ OwnOccupation(u)' = OwnOccupation(u)
    BY DEF Reading, OwnAnswers, OwnOccupation, OwnHistory
  <1>2. QED
    BY <1>1 DEF RequestOK

\* A step of t that writes no table: t's own request, and who is overtaken, are
\* all there is to look at.
LEMMA QuietStep ==
  ASSUME IInv, NEW t \in Txns, NEW r,
         NEW next \in {"idle", "begin", "load", "derive", "write"},
         UNCHANGED <<tables, stale>>, arrived' \in 0..MaxRequests,
         pc' = [pc EXCEPT ![t] = next], req' = [req EXCEPT ![t] = r],
         \/ overtaken' = overtaken \ {t}
         \/ overtaken' = overtaken /\ (t \in overtaken => next \in {"derive", "write"} /\ r.op = req[t].op),
         RequestOK(t)'
  PROVE  IInv'
  <1>1. pc \in [Txns -> {"idle", "begin", "load", "derive", "write"}] /\ DOMAIN req = Txns
    BY DEF IInv, TypeOK
  <1>2. /\ pc' \in [Txns -> {"idle", "begin", "load", "derive", "write"}] /\ DOMAIN req' = Txns
        /\ pc'[t] = next /\ req'[t] = r
        /\ \A u \in Txns \ {t} : pc'[u] = pc[u] /\ req'[u] = req[u]
    BY <1>1
  <1>3. TypeOK'
    BY <1>2 DEF IInv, TypeOK, tables
  <1>4. \A u \in Txns : RequestOK(u)'
    <2> SUFFICES ASSUME NEW u \in Txns, u # t PROVE RequestOK(u)'
      OBVIOUS
    <2>1. RequestOK(u) /\ UNCHANGED <<answers, occupation, history>>
      BY DEF IInv, tables
    <2>2. u \notin overtaken' => u \notin overtaken
      OBVIOUS
    <2>3. QED
      BY <1>2, <2>1, <2>2, Untouched
  <1>5. OvertakenOK'
    BY <1>1, <1>2 DEF IInv, OvertakenOK
  <1>6. TablesOK'
    BY DEF IInv, TablesOK, tables, Recomputed
  <1>7. QED
    BY <1>2, <1>3, <1>4, <1>5, <1>6 DEF IInv

\* A request ends without a trace.
LEMMA RefuseInv ==
  ASSUME IInv, NEW t \in Txns, Refuse(t)
  PROVE  IInv'
  <1>1. pc' = [pc EXCEPT ![t] = "idle"] /\ req' = [req EXCEPT ![t] = NoRequest]
    BY DEF Refuse, Continue
  <1>2. pc \in [Txns -> {"idle", "begin", "load", "derive", "write"}] /\ DOMAIN req = Txns
    BY DEF IInv, TypeOK
  <1>3. pc'[t] = "idle" /\ req'[t] = NoRequest
    BY <1>1, <1>2
  <1>4. NoRequest.op # "patch" /\ NoRequest.op # "add"
    BY NullAssumption DEF NoRequest
  <1>5. RequestOK(t)'
    BY <1>3, <1>4 DEF RequestOK
  <1>6. QED
    BY <1>1, <1>5, QuietStep DEF Refuse, Continue, IInv, TypeOK

\* A request arrives with fields of its category, or with a record.
LEMMA ArriveInv ==
  ASSUME IInv, NEW t \in Txns, NEW r, Arrive(t, r), DOMAIN r = DOMAIN NoRequest,
         r.op = "patch" => ValuesOK(r.category, r.values),
         r.op = "add" => r.record \in Records
  PROVE  IInv'
  <1>1. /\ pc' = [pc EXCEPT ![t] = "begin"] /\ req' = [req EXCEPT ![t] = r]
        /\ pc[t] = "idle" /\ arrived' = arrived + 1 /\ arrived < MaxRequests
        /\ UNCHANGED <<tables, overtaken, stale>>
    BY DEF Arrive
  <1>2. pc \in [Txns -> {"idle", "begin", "load", "derive", "write"}] /\ DOMAIN req = Txns
    BY DEF IInv, TypeOK
  <1>3. pc'[t] = "begin" /\ req'[t] = r
    BY <1>1, <1>2
  <1>4. RequestOK(t)'
    BY <1>3 DEF RequestOK
  <1>5. t \notin overtaken
    BY <1>1 DEF IInv, OvertakenOK
  <1>6. arrived' \in 0..MaxRequests
    BY <1>1, BoundAssumption DEF IInv, TypeOK
  <1>7. QED
    BY <1>1, <1>4, <1>5, <1>6, QuietStep

LEMMA BeginPatchInv ==
  ASSUME IInv, NEW t \in Txns, NEW body \in DOMAIN Bodies, BeginPatch(t, body)
  PROVE  IInv'
  <1> DEFINE category == EffectiveCategory("primary_occupation_id", Bodies[body], row.category)
             region   == Given(answers, "region_id", Null)
             result   == Validated[body][category][region]
             r        == [NoRequest EXCEPT !.op = "patch", !.category = category,
                                           !.values = result.values]
  <1>1. category \in Everywhere /\ region \in Regions
    BY CategoryType DEF IInv, TypeOK, TablesOK
  <1>2. result = IF LookupFails(CandidateForm, category, Bodies[body])
                 THEN [values |-> NoAnswers, rules |-> {"uuid"}]
                 ELSE Validate(CandidateForm, category, Bodies[body], [region_id |-> region], Today)
    BY <1>1 DEF Validated
  <1>3. result.rules = {} /\ Arrive(t, r)
    BY DEF BeginPatch
  <1> HIDE DEF category, region
  <1>4. ValuesOK(category, result.values)
    BY <1>2, <1>3, ValidValues
  <1> HIDE DEF result
  <1>5. /\ DOMAIN r = DOMAIN NoRequest /\ r.op = "patch"
        /\ r.category = category /\ r.values = result.values
    BY DEF NoRequest
  <1>6. QED
    BY <1>3, <1>4, <1>5, ArriveInv

LEMMA BeginRecordInv ==
  ASSUME IInv, NEW t \in Txns, NEW id \in Records,
         BeginAdd(t, id) \/ BeginUpdate(t, id) \/ BeginRemove(t, id)
  PROVE  IInv'
  <1>1. ASSUME NEW op \in {"add", "update", "remove"},
               Arrive(t, [NoRequest EXCEPT !.op = op, !.record = id])
        PROVE  IInv'
    <2> DEFINE r == [NoRequest EXCEPT !.op = op, !.record = id]
    <2>1. DOMAIN r = DOMAIN NoRequest /\ r.op = op /\ r.record = id
      BY DEF NoRequest
    <2>2. QED
      BY <1>1, <2>1, ArriveInv
  <1>2. QED
    BY <1>1 DEF BeginAdd, BeginUpdate, BeginRemove

\* A transaction gets its locks.
LEMMA StartInv ==
  ASSUME IInv, NEW t \in Txns, LockProfile(t) \/ InsertRecord(t) \/ TakeRecord(t)
  PROVE  IInv'
  <1>1. CASE Refuse(t)
    BY <1>1, RefuseInv
  <1>2. ASSUME NEW created, pc[t] = "begin",
               UNCHANGED <<tables, overtaken, stale>>,
               \/ Continue(t, "load", [req[t] EXCEPT !.created = created])
               \/ Continue(t, "load", req[t])
        PROVE  IInv'
    <2>1. PICK r \in {req[t], [req[t] EXCEPT !.created = created]} : Continue(t, "load", r)
      BY <1>2
    <2>2. RequestOK(t) /\ DOMAIN req = Txns
          /\ pc \in [Txns -> {"idle", "begin", "load", "derive", "write"}]
      BY DEF IInv, TypeOK
    <2>3. /\ DOMAIN r = DOMAIN NoRequest /\ r.op = req[t].op /\ r.record = req[t].record
          /\ r.category = req[t].category /\ r.values = req[t].values
      BY <2>2 DEF RequestOK, NoRequest
    <2>4. pc' = [pc EXCEPT ![t] = "load"] /\ req' = [req EXCEPT ![t] = r] /\ UNCHANGED arrived
      BY <2>1 DEF Continue
    <2>5. pc'[t] = "load" /\ req'[t] = r
      BY <2>2, <2>4
    <2>6. RequestOK(t)'
      BY <2>2, <2>3, <2>5 DEF RequestOK
    <2>7. t \notin overtaken
      BY <1>2 DEF IInv, OvertakenOK
    <2>8. arrived' \in 0..MaxRequests
      BY <2>4 DEF IInv, TypeOK
    <2>9. QED
      BY <1>2, <2>4, <2>6, <2>7, <2>8, QuietStep
  <1>3. QED
    BY <1>1, <1>2 DEF LockProfile, InsertRecord, TakeRecord

\* What a transaction reads under its own writes is as the tables are.
LEMMA OwnTables ==
  ASSUME IInv, NEW t \in Txns
  PROVE  /\ DOMAIN OwnAnswers(t) \subseteq DOMAIN CandidateForm \ OccupationCodes
         /\ Given(OwnAnswers(t), "region_id", Null) \in Regions
         /\ OwnOccupation(t).primary \in Occupation
         /\ OwnOccupation(t).level # Null => OwnOccupation(t).primary # Null
         /\ OwnOccupation(t).primary \notin OwnOccupation(t).others
         /\ OwnHistory(t) \subseteq Records
  <1>1. /\ DOMAIN answers \subseteq DOMAIN CandidateForm \ OccupationCodes
        /\ Given(answers, "region_id", Null) \in Regions
        /\ occupation.primary \in Occupation
        /\ occupation.level # Null => occupation.primary # Null
        /\ occupation.primary \notin occupation.others
        /\ history \subseteq Records
    BY DEF IInv, TypeOK, TablesOK
  <1>2. /\ req[t].op = "patch" => ValuesOK(req[t].category, req[t].values)
        /\ req[t].op = "add" => req[t].record \in Records
    BY DEF IInv, RequestOK
  <1>3. CASE req[t].op = "patch"
    BY <1>1, <1>2, <1>3, Applied DEF OwnAnswers, OwnOccupation, OwnHistory
  <1>4. CASE req[t].op # "patch"
    BY <1>1, <1>2, <1>4 DEF OwnAnswers, OwnOccupation, OwnHistory
  <1>5. QED
    BY <1>3, <1>4

\* A step of t that only moves it on and notes what it has read.
LEMMA ReadInv ==
  ASSUME IInv, NEW t \in Txns, LoadAggregate(t) \/ ComputeDerived(t)
  PROVE  IInv'
  <1> DEFINE load    == [req[t] EXCEPT !.seen = Reading(t)]
             compute == [req[t] EXCEPT
                           !.derived = Derived(CategoryOf(OwnOccupation(t).primary), req[t].seen)]
  <1>1. PICK next \in {"derive", "write"}, r \in {load, compute} :
          /\ Continue(t, next, r)
          /\ UNCHANGED <<tables, overtaken, stale>>
          /\ \/ pc[t] = "load" /\ next = "derive" /\ r = load
             \/ pc[t] = "derive" /\ next = "write" /\ r = compute
    BY DEF LoadAggregate, ComputeDerived, Reading
  <1>2. RequestOK(t) /\ DOMAIN req = Txns
        /\ pc \in [Txns -> {"idle", "begin", "load", "derive", "write"}]
    BY DEF IInv, TypeOK
  <1>3. /\ DOMAIN r = DOMAIN NoRequest /\ r.op = req[t].op /\ r.record = req[t].record
        /\ r.category = req[t].category /\ r.values = req[t].values
    BY <1>1, <1>2 DEF RequestOK, NoRequest
  <1>4. pc' = [pc EXCEPT ![t] = next] /\ req' = [req EXCEPT ![t] = r] /\ UNCHANGED arrived
    BY <1>1 DEF Continue
  <1>5. pc'[t] = next /\ req'[t] = r
    BY <1>2, <1>4
  <1>6. /\ OwnAnswers(t)' = OwnAnswers(t) /\ OwnOccupation(t)' = OwnOccupation(t)
        /\ OwnHistory(t)' = OwnHistory(t)
    BY <1>1, <1>3, <1>5 DEF OwnAnswers, OwnOccupation, OwnHistory, tables
  <1>7. Reading(t)' = Reading(t)
    BY <1>6 DEF Reading
  <1>8. /\ DOMAIN r = DOMAIN NoRequest
        /\ r.op = "patch" => ValuesOK(r.category, r.values)
        /\ r.op = "add" => r.record \in Records
    BY <1>2, <1>3 DEF RequestOK
  <1>9. RequestOK(t)'
    <2>1. CASE next = "derive"
      <3>1. r = [req[t] EXCEPT !.seen = Reading(t)]
        BY <1>1, <2>1
      <3>2. r.seen = Reading(t)
        BY <3>1, <1>2 DEF RequestOK, NoRequest
      <3>3. QED
        BY <1>5, <1>7, <1>8, <2>1, <3>2 DEF RequestOK
    <2>2. CASE next = "write"
      <3> DEFINE d == Derived(CategoryOf(OwnOccupation(t).primary), req[t].seen)
      <3>1. pc[t] = "derive" /\ r = [req[t] EXCEPT !.derived = d]
        BY <1>1, <2>2
      <3>2. r.derived = d /\ r.seen = req[t].seen
        BY <3>1, <1>2 DEF RequestOK, NoRequest
      <3>3. d \in DerivedColumns
        BY OwnTables, CategoryType, DerivedType
      <3>4. t \notin overtaken => req[t].seen = Reading(t)
        BY <1>2, <3>1 DEF RequestOK
      <3>5. overtaken' = overtaken
        BY <1>1
      <3> DEFINE now == Derived(CategoryOf(OwnOccupation(t).primary), Reading(t))
      <3>6. Derived(CategoryOf(OwnOccupation(t).primary), Reading(t))' = now
        BY <1>6, <1>7
      <3>7. t \notin overtaken => d = now
        BY <3>4
      <3> HIDE DEF d, now
      <3>8. QED
        BY <1>5, <1>7, <1>8, <2>2, <3>2, <3>3, <3>4, <3>5, <3>6, <3>7 DEF RequestOK
    <2>3. QED
      BY <2>1, <2>2
  <1>10. arrived' \in 0..MaxRequests
    BY <1>4 DEF IInv, TypeOK
  <1>11. next \in {"idle", "begin", "load", "derive", "write"}
    OBVIOUS
  <1>12. QED
    BY <1>1, <1>3, <1>4, <1>9, <1>10, <1>11, QuietStep

\* A commit publishes what its transaction read back, and overtakes whoever else
\* has read: no PATCH, since the row would have been locked.
LEMMA CommitInv ==
  ASSUME IInv, NEW t \in Txns, CommitWrite(t)
  PROVE  IInv'
  <1> DEFINE d == req[t].derived
  <1>1. /\ pc[t] = "write" /\ \A u \in Others(t) : ~Exclusive(u)
        /\ answers' = OwnAnswers(t) /\ occupation' = OwnOccupation(t) /\ history' = OwnHistory(t)
        /\ row' = [row EXCEPT !.exists = TRUE, !.category = d.category,
                              !.percent = d.percent, !.complete = d.complete]
        /\ stale' = (t \in overtaken)
        /\ overtaken' = (overtaken \ {t}) \cup {u \in Others(t) : pc[u] \in {"derive", "write"}}
        /\ pc' = [pc EXCEPT ![t] = "idle"] /\ req' = [req EXCEPT ![t] = NoRequest]
        /\ arrived' = arrived
    BY DEF CommitWrite, Overtake, Continue
  <1>2. RequestOK(t) /\ DOMAIN req = Txns /\ OvertakenOK
        /\ pc \in [Txns -> {"idle", "begin", "load", "derive", "write"}]
    BY DEF IInv, TypeOK
  <1>3. /\ pc' \in [Txns -> {"idle", "begin", "load", "derive", "write"}] /\ DOMAIN req' = Txns
        /\ pc'[t] = "idle" /\ req'[t] = NoRequest
        /\ \A u \in Txns \ {t} : pc'[u] = pc[u] /\ req'[u] = req[u]
    BY <1>1, <1>2
  <1>4. d \in DerivedColumns
    BY <1>1, <1>2 DEF RequestOK
  <1>5. /\ row' \in [exists : BOOLEAN, category : Everywhere, percent : 0..100,
                     complete : BOOLEAN, visibility : Visibilities]
        /\ row'.category = d.category /\ row'.percent = d.percent /\ row'.complete = d.complete
    BY <1>1, <1>4 DEF IInv, TypeOK, DerivedColumns
  <1>6. TypeOK'
    BY <1>1, <1>3, <1>5, OwnTables DEF TypeOK, IInv
  <1>7. \A u \in Txns : RequestOK(u)'
    <2>1. RequestOK(t)'
      <3>1. NoRequest.op # "patch" /\ NoRequest.op # "add"
        BY NullAssumption DEF NoRequest
      <3>2. QED
        BY <1>3, <3>1 DEF RequestOK
    <2>2. ASSUME NEW u \in Txns, u # t PROVE RequestOK(u)'
      <3>1. RequestOK(u) /\ pc'[u] = pc[u] /\ req'[u] = req[u]
        BY <1>3, <2>2 DEF IInv
      <3>2. pc[u] \in {"derive", "write"} => u \in overtaken'
        BY <1>1, <2>2 DEF Others
      <3>3. QED
        BY <3>1, <3>2 DEF RequestOK
    <2>3. QED
      BY <2>1, <2>2
  <1>8. OvertakenOK'
    <2> SUFFICES ASSUME NEW u \in overtaken'
                 PROVE  u \in Txns /\ pc'[u] \in {"derive", "write"} /\ req'[u].op # "patch"
      BY DEF OvertakenOK
    <2>1. u \in Txns \ {t} /\ pc[u] \in {"derive", "write"} /\ req[u].op # "patch"
      <3>1. CASE u \in overtaken \ {t}
        BY <1>2, <3>1 DEF OvertakenOK
      <3>2. CASE u \in Others(t) /\ pc[u] \in {"derive", "write"}
        BY <1>1, <3>2 DEF Exclusive, Started, Others
      <3>3. QED
        BY <1>1, <3>1, <3>2
    <2>2. QED
      BY <1>3, <2>1
  <1>9. TablesOK'
    <2>1. /\ occupation'.primary \in Occupation
          /\ Given(answers', "region_id", Null) \in Regions
      BY <1>1, OwnTables
    <2>2. ASSUME t \notin overtaken
          PROVE  [category |-> row'.category, percent |-> row'.percent,
                  complete |-> row'.complete] = Recomputed'
      <3>1. d = Derived(CategoryOf(OwnOccupation(t).primary), Reading(t))
        BY <1>1, <1>2, <2>2 DEF RequestOK
      <3>2. Recomputed' = Derived(CategoryOf(OwnOccupation(t).primary), Reading(t))
        BY <1>1 DEF Recomputed, Reading
      <3>3. d = [category |-> d.category, percent |-> d.percent, complete |-> d.complete]
        BY <1>4 DEF DerivedColumns
      <3>4. QED
        BY <1>5, <3>1, <3>2, <3>3
    <2>3. QED
      BY <1>1, <2>1, <2>2 DEF TablesOK
  <1>10. QED
    BY <1>3, <1>6, <1>7, <1>8, <1>9 DEF IInv

LEMMA VisibilityInv ==
  ASSUME IInv, NEW visibility \in Visibilities, SetVisibility(visibility)
  PROVE  IInv'
  <1>1. /\ row' = [row EXCEPT !.exists = TRUE, !.visibility = visibility]
        /\ UNCHANGED <<answers, occupation, history, pc, req, arrived, overtaken, stale>>
    BY DEF SetVisibility
  <1>2. row \in [exists : BOOLEAN, category : Everywhere, percent : 0..100,
                 complete : BOOLEAN, visibility : Visibilities]
    BY DEF IInv, TypeOK
  <1>3. /\ row' \in [exists : BOOLEAN, category : Everywhere, percent : 0..100,
                     complete : BOOLEAN, visibility : Visibilities]
        /\ row'.category = row.category /\ row'.percent = row.percent
        /\ row'.complete = row.complete
    BY <1>1, <1>2
  <1>4. TypeOK'
    BY <1>1, <1>3 DEF IInv, TypeOK
  <1>5. \A t \in Txns : RequestOK(t)'
    BY <1>1, Untouched DEF IInv
  <1>6. OvertakenOK' /\ TablesOK' /\ DOMAIN req' = Txns
    BY <1>1, <1>3 DEF IInv, OvertakenOK, TablesOK, Recomputed
  <1>7. QED
    BY <1>4, <1>5, <1>6 DEF IInv

LEMMA StutterInv ==
  ASSUME IInv, UNCHANGED vars
  PROVE  IInv'
  <1>1. \A t \in Txns : RequestOK(t)'
    BY Untouched DEF IInv, vars, tables
  <1>2. TypeOK' /\ OvertakenOK' /\ TablesOK' /\ DOMAIN req' = Txns
    BY DEF IInv, TypeOK, OvertakenOK, TablesOK, Recomputed, vars, tables
  <1>3. QED
    BY <1>1, <1>2 DEF IInv

LEMMA NextInv ==
  IInv /\ [Next]_vars => IInv'
  <1> SUFFICES ASSUME IInv, [Next]_vars PROVE IInv'
    OBVIOUS
  <1>1. ASSUME NEW t \in Txns, NEW body \in DOMAIN Bodies, BeginPatch(t, body) PROVE IInv'
    BY <1>1, BeginPatchInv
  <1>2. ASSUME NEW t \in Txns, NEW id \in Records,
               BeginAdd(t, id) \/ BeginUpdate(t, id) \/ BeginRemove(t, id)
        PROVE  IInv'
    BY <1>2, BeginRecordInv
  <1>3. ASSUME NEW t \in Txns, LockProfile(t) \/ InsertRecord(t) \/ TakeRecord(t) PROVE IInv'
    BY <1>3, StartInv
  <1>4. ASSUME NEW t \in Txns, CheckFails(t) \/ Rollback(t) PROVE IInv'
    BY <1>4, RefuseInv DEF CheckFails, Rollback
  <1>5. ASSUME NEW t \in Txns, LoadAggregate(t) \/ ComputeDerived(t) PROVE IInv'
    BY <1>5, ReadInv
  <1>6. ASSUME NEW t \in Txns, CommitWrite(t) PROVE IInv'
    BY <1>6, CommitInv
  <1>7. ASSUME NEW visibility \in Visibilities, SetVisibility(visibility) PROVE IInv'
    BY <1>7, VisibilityInv
  <1>8. CASE UNCHANGED vars
    BY <1>8, StutterInv
  <1>9. QED
    BY <1>1, <1>2, <1>3, <1>4, <1>5, <1>6, <1>7, <1>8 DEF Next

--------------------------------------------------------------------------------
(* Numbers *)

Less == {pair \in Nat \X Nat : pair[1] < pair[2]}

\* A set of numbers has a least one.
LEMMA LeastNumber ==
  ASSUME NEW T, T \subseteq Nat, T # {}
  PROVE  \E x \in T : \A y \in T : x <= y
  <1>1. IsWellFoundedOn(Less, Nat)
    BY NatLessThanWellFounded DEF OpToRel, Less
  <1>2. \E x \in T : \A y \in T : ~(<<y, x>> \in Less)
    BY <1>1, WFMin
  <1>3. \A x, y \in Nat : y < x => <<y, x>> \in Less
    BY DEF Less
  <1>4. \A x, y \in Nat : ~(y < x) => x <= y
    OBVIOUS
  <1>5. QED
    BY <1>2, <1>3, <1>4

\* Induction, over a set of numbers.
LEMMA AllNumbers ==
  ASSUME NEW T, 0 \in T, \A n \in Nat : n \in T => n + 1 \in T
  PROVE  Nat \subseteq T
  <1> SUFFICES ASSUME Nat \ T # {} PROVE FALSE
    OBVIOUS
  <1>1. PICK x \in Nat \ T : \A y \in Nat \ T : x <= y
    BY LeastNumber
  <1>2. x # 0 /\ x - 1 \in Nat /\ ~(x <= x - 1) /\ (x - 1) + 1 = x
    BY <1>1
  <1>3. x - 1 \in T
    BY <1>1, <1>2
  <1>4. QED
    BY <1>2, <1>3

--------------------------------------------------------------------------------
(* Sums and products *)

Picked(s) == CHOOSE x \in s : TRUE

Rest(s) == s \ {Picked(s)}

\* One step of a sum, or of a product, over a set of indices.
Step(sums, fun, h, s) ==
  IF s = {} THEN IF sums THEN 0 ELSE 1
  ELSE IF sums THEN fun[Picked(s)] + h[Rest(s)] ELSE fun[Picked(s)] * h[Rest(s)]

\* A fold over every subset of S.
IsFold(sums, fun, S, h) == h = [s \in SUBSET S |-> Step(sums, fun, h, s)]

\* The subsets of S with at most n elements.
UpTo(S, n) == {s \in SUBSET S : Cardinality(s) <= n}

\* One element picked, the rest has one less.
LEMMA RestIsLess ==
  ASSUME NEW S, IsFiniteSet(S), NEW n \in Nat, NEW s \in UpTo(S, n + 1), s # {}
  PROVE  Rest(s) \in UpTo(S, n) /\ Picked(s) \in s
  <1>1. Picked(s) \in s
    BY DEF Picked
  <1>2. IsFiniteSet(s) /\ Cardinality(s) <= n + 1 /\ Cardinality(s) \in Nat
    BY FS_Subset, FS_CardinalityType DEF UpTo
  <1>3. Cardinality(Rest(s)) = Cardinality(s) - 1
    BY <1>1, <1>2, FS_RemoveElement DEF Rest
  <1>4. QED
    BY <1>1, <1>2, <1>3 DEF UpTo, Rest

LEMMA NoneUpToZero ==
  ASSUME NEW S, IsFiniteSet(S), NEW s \in UpTo(S, 0)
  PROVE  s = {}
  <1>1. IsFiniteSet(s) /\ Cardinality(s) <= 0 /\ Cardinality(s) \in Nat
    BY FS_Subset, FS_CardinalityType DEF UpTo
  <1>2. Cardinality(s) = 0
    BY <1>1
  <1>3. QED
    BY <1>1, <1>2, FS_EmptySet

\* There is one ...
LEMMA FoldExists ==
  ASSUME NEW sums \in BOOLEAN, NEW fun, NEW S, IsFiniteSet(S)
  PROVE  \E h : IsFold(sums, fun, S, h)
  <1> DEFINE T == {n \in Nat : \E h : h = [s \in UpTo(S, n) |-> Step(sums, fun, h, s)]}
  <1>1. 0 \in T
    <2> DEFINE h == [s \in UpTo(S, 0) |-> IF sums THEN 0 ELSE 1]
    <2>1. \A s \in UpTo(S, 0) : s = {}
      <3> SUFFICES ASSUME NEW s \in UpTo(S, 0) PROVE s = {}
        OBVIOUS
      <3>1. IsFiniteSet(s) /\ Cardinality(s) <= 0 /\ Cardinality(s) \in Nat
        BY FS_Subset, FS_CardinalityType DEF UpTo
      <3>2. Cardinality(s) = 0
        BY <3>1
      <3>3. QED
        BY <3>1, <3>2, FS_EmptySet
    <2>2. h = [s \in UpTo(S, 0) |-> Step(sums, fun, h, s)]
      BY <2>1 DEF Step
    <2>3. QED
      BY <2>2
  <1>2. ASSUME NEW n \in Nat, n \in T PROVE n + 1 \in T
    <2>1. PICK h : h = [s \in UpTo(S, n) |-> Step(sums, fun, h, s)]
      BY <1>2
    <2> DEFINE k == [s \in UpTo(S, n + 1) |-> Step(sums, fun, h, s)]
    <2>2. \A s \in UpTo(S, n) : s \in UpTo(S, n + 1) /\ k[s] = h[s]
      <3>1. \A s \in UpTo(S, n) : s \in UpTo(S, n + 1)
        <4> SUFFICES ASSUME NEW s \in UpTo(S, n) PROVE s \in UpTo(S, n + 1)
          OBVIOUS
        <4>1. IsFiniteSet(s) /\ Cardinality(s) \in Nat
          BY FS_Subset, FS_CardinalityType DEF UpTo
        <4>2. QED
          BY <4>1 DEF UpTo
      <3>2. QED
        BY <2>1, <3>1
    <2>3. \A s \in UpTo(S, n + 1) : Step(sums, fun, k, s) = Step(sums, fun, h, s)
      <3> HIDE DEF k
      <3>1. QED
        BY <2>2, RestIsLess DEF Step
    <2>4. k = [s \in UpTo(S, n + 1) |-> Step(sums, fun, k, s)]
      <3> DEFINE g == [s \in UpTo(S, n + 1) |-> Step(sums, fun, k, s)]
      <3>1. DOMAIN k = DOMAIN g /\ \A s \in UpTo(S, n + 1) : k[s] = g[s]
        BY <2>3
      <3>2. k = [s \in DOMAIN k |-> k[s]] /\ g = [s \in DOMAIN g |-> g[s]]
        OBVIOUS
      <3> HIDE DEF k
      <3>3. QED
        BY <3>1, <3>2
    <2>5. \E q : q = [s \in UpTo(S, n + 1) |-> Step(sums, fun, q, s)]
      <3> HIDE DEF k
      <3>1. QED
        BY <2>4
    <2>6. n + 1 \in Nat
      OBVIOUS
    <2>7. QED
      BY <2>5, <2>6
  <1>3. Cardinality(S) \in T
    <2> HIDE DEF T
    <2>1. Nat \subseteq T
      BY <1>1, <1>2, AllNumbers
    <2>2. QED
      BY <2>1, FS_CardinalityType
  <1>4. UpTo(S, Cardinality(S)) = SUBSET S
    BY FS_Subset DEF UpTo
  <1>5. PICK h : h = [s \in UpTo(S, Cardinality(S)) |-> Step(sums, fun, h, s)]
    BY <1>3
  <1>6. DOMAIN h = SUBSET S /\ \A s \in SUBSET S : h[s] = Step(sums, fun, h, s)
    BY <1>4, <1>5
  <1>7. h = [s \in DOMAIN h |-> h[s]]
    BY <1>5
  <1>8. h = [s \in SUBSET S |-> Step(sums, fun, h, s)]
    BY <1>6, <1>7
  <1>9. QED
    BY <1>8 DEF IsFold

\* ... and no other.
LEMMA FoldIsUnique ==
  ASSUME NEW sums \in BOOLEAN, NEW fun, NEW S, IsFiniteSet(S), NEW R \in SUBSET S,
         NEW h, IsFold(sums, fun, S, h), NEW k, IsFold(sums, fun, R, k)
  PROVE  \A s \in SUBSET R : h[s] = k[s]
  <1> DEFINE T == {n \in Nat : \A s \in UpTo(R, n) : h[s] = k[s]}
  <1>0. IsFiniteSet(R)
    BY FS_Subset
  <1>1. 0 \in T
    <2> SUFFICES ASSUME NEW s \in UpTo(R, 0) PROVE h[s] = k[s]
      OBVIOUS
    <2>1. IsFiniteSet(s) /\ Cardinality(s) <= 0 /\ Cardinality(s) \in Nat /\ s \in SUBSET R
      BY <1>0, FS_Subset, FS_CardinalityType DEF UpTo
    <2>2. Cardinality(s) = 0
      BY <2>1
    <2>3. s = {}
      BY <2>1, <2>2, FS_EmptySet
    <2>4. h[s] = Step(sums, fun, h, s) /\ k[s] = Step(sums, fun, k, s)
      BY <2>1 DEF IsFold
    <2>5. QED
      BY <2>3, <2>4 DEF Step
  <1>2. ASSUME NEW n \in Nat, n \in T PROVE n + 1 \in T
    <2>1. ASSUME NEW s \in UpTo(R, n + 1) PROVE h[s] = k[s]
      <3>1. h[s] = Step(sums, fun, h, s) /\ k[s] = Step(sums, fun, k, s)
        BY DEF UpTo, IsFold
      <3>2. s # {} => h[Rest(s)] = k[Rest(s)]
        BY <1>0, <1>2, RestIsLess
      <3>3. QED
        BY <3>1, <3>2 DEF Step
    <2>2. n + 1 \in Nat
      OBVIOUS
    <2>3. QED
      BY <2>1, <2>2
  <1>3. Cardinality(R) \in T
    <2> HIDE DEF T
    <2>1. Nat \subseteq T
      BY <1>1, <1>2, AllNumbers
    <2>2. QED
      BY <1>0, <2>1, FS_CardinalityType
  <1>4. UpTo(R, Cardinality(R)) = SUBSET R
    BY <1>0, FS_Subset DEF UpTo
  <1>5. QED
    BY <1>3, <1>4

\* A sum or a product as the model writes it.
Folded(sums, fun, S) == IF sums THEN SumFunctionOnSet(fun, S) ELSE Product(fun, S)

\* The model's folds are such folds, taken of the whole set ...
LEMMA FoldedBy ==
  ASSUME NEW sums \in BOOLEAN, NEW fun, NEW S, IsFiniteSet(S)
  PROVE  \E h : IsFold(sums, fun, S, h) /\ Folded(sums, fun, S) = h[S]
  <1>1. PICK h : IsFold(sums, fun, S, h)
    BY FoldExists
  <1>2. CASE sums = TRUE
    <2> DEFINE k == CHOOSE iter : iter = [s \in SUBSET S |->
                      IF s = {} THEN 0 ELSE fun[CHOOSE x \in s : TRUE] + iter[s \ {CHOOSE x \in s : TRUE}]]
    <2>1. Folded(sums, fun, S) = k[S]
      BY <1>2 DEF Folded, SumFunctionOnSet, FoldFunctionOnSet, MapThenFoldSet
    <2>2. h = [s \in SUBSET S |->
                 IF s = {} THEN 0 ELSE fun[CHOOSE x \in s : TRUE] + h[s \ {CHOOSE x \in s : TRUE}]]
      BY <1>1, <1>2 DEF IsFold, Step, Picked, Rest
    <2>3. k = [s \in SUBSET S |->
                 IF s = {} THEN 0 ELSE fun[CHOOSE x \in s : TRUE] + k[s \ {CHOOSE x \in s : TRUE}]]
      BY <2>2
    <2> HIDE DEF k
    <2>4. IsFold(sums, fun, S, k)
      BY <1>2, <2>3 DEF IsFold, Step, Picked, Rest
    <2>5. QED
      BY <2>1, <2>4
  <1>3. CASE sums = FALSE
    <2> DEFINE k == CHOOSE iter : iter = [s \in SUBSET S |->
                      IF s = {} THEN 1 ELSE fun[CHOOSE x \in s : TRUE] * iter[s \ {CHOOSE x \in s : TRUE}]]
    <2>1. Folded(sums, fun, S) = k[S]
      BY <1>3 DEF Folded, Product, FoldFunctionOnSet, MapThenFoldSet
    <2>2. h = [s \in SUBSET S |->
                 IF s = {} THEN 1 ELSE fun[CHOOSE x \in s : TRUE] * h[s \ {CHOOSE x \in s : TRUE}]]
      BY <1>1, <1>3 DEF IsFold, Step, Picked, Rest
    <2>3. k = [s \in SUBSET S |->
                 IF s = {} THEN 1 ELSE fun[CHOOSE x \in s : TRUE] * k[s \ {CHOOSE x \in s : TRUE}]]
      BY <2>2
    <2> HIDE DEF k
    <2>4. IsFold(sums, fun, S, k)
      BY <1>3, <2>3 DEF IsFold, Step, Picked, Rest
    <2>5. QED
      BY <2>1, <2>4
  <1>4. QED
    BY <1>2, <1>3

\* ... so they unfold: nothing is folded to 0 or 1, and the rest of a set before what
\* is picked of it.
LEMMA FoldUnfolds ==
  ASSUME NEW sums \in BOOLEAN, NEW fun, NEW S, IsFiniteSet(S)
  PROVE  /\ S = {} => Folded(sums, fun, S) = IF sums THEN 0 ELSE 1
         /\ S # {} => /\ Picked(S) \in S
                      /\ Folded(sums, fun, S) =
                           IF sums THEN fun[Picked(S)] + Folded(sums, fun, Rest(S))
                           ELSE fun[Picked(S)] * Folded(sums, fun, Rest(S))
  <1>1. PICK h : IsFold(sums, fun, S, h) /\ Folded(sums, fun, S) = h[S]
    BY FoldedBy
  <1>2. h[S] = Step(sums, fun, h, S)
    BY <1>1 DEF IsFold
  <1>3. S = {} => Folded(sums, fun, S) = IF sums THEN 0 ELSE 1
    BY <1>1, <1>2 DEF Step
  <1>4. Rest(S) \in SUBSET S /\ IsFiniteSet(Rest(S))
    BY FS_Subset DEF Rest
  <1>5. PICK k : IsFold(sums, fun, Rest(S), k) /\ Folded(sums, fun, Rest(S)) = k[Rest(S)]
    BY <1>4, FoldedBy
  <1>6. h[Rest(S)] = k[Rest(S)]
    BY <1>1, <1>4, <1>5, FoldIsUnique
  <1>7. S # {} => Picked(S) \in S
    BY DEF Picked
  <1>8. QED
    BY <1>1, <1>2, <1>3, <1>5, <1>6, <1>7 DEF Step

\* Of natural numbers a sum or product is one, and positive if they are; the sum,
\* if there are any.
LEMMA FoldType ==
  ASSUME NEW sums \in BOOLEAN, NEW fun, NEW S, IsFiniteSet(S), \A x \in S : fun[x] \in Nat
  PROVE  /\ Folded(sums, fun, S) \in Nat
         /\ (\A x \in S : fun[x] > 0) /\ (sums => S # {}) => Folded(sums, fun, S) > 0
  <1> DEFINE Good(s) ==
               /\ Folded(sums, fun, s) \in Nat
               /\ (\A x \in s : fun[x] > 0) /\ (sums => s # {}) => Folded(sums, fun, s) > 0
             T == {n \in Nat : \A s \in UpTo(S, n) : Good(s)}
  <1>1. ASSUME NEW s \in SUBSET S, s = {} PROVE Good(s)
    <2>1. Folded(sums, fun, s) = IF sums THEN 0 ELSE 1
      BY <1>1, FS_EmptySet, FoldUnfolds
    <2>2. QED
      BY <1>1, <2>1
  <1>2. ASSUME NEW s \in SUBSET S, s # {}, Good(Rest(s)) PROVE Good(s)
    <2>1. IsFiniteSet(s)
      BY FS_Subset
    <2>2. /\ Picked(s) \in s
          /\ Folded(sums, fun, s) =
               IF sums THEN fun[Picked(s)] + Folded(sums, fun, Rest(s))
               ELSE fun[Picked(s)] * Folded(sums, fun, Rest(s))
      BY <1>2, <2>1, FoldUnfolds
    <2>3. fun[Picked(s)] \in Nat /\ Rest(s) \subseteq s
      BY <2>2 DEF Rest
    <2> DEFINE a == fun[Picked(s)]
               b == Folded(sums, fun, Rest(s))
    <2>4. a \in Nat /\ b \in Nat
      BY <1>2, <2>3
    <2>5. a + b \in Nat /\ a * b \in Nat /\ (a > 0 => a + b > 0) /\ (a > 0 /\ b > 0 => a * b > 0)
      <3> HIDE DEF a, b
      <3>1. QED
        BY <2>4
    <2>6. ASSUME \A x \in s : fun[x] > 0 PROVE a > 0 /\ (~sums => b > 0)
      BY <1>2, <2>2, <2>3, <2>6
    <2> HIDE DEF a, b
    <2>7. Folded(sums, fun, s) = IF sums THEN a + b ELSE a * b
      BY <2>2 DEF a, b
    <2>8. QED
      BY <2>5, <2>6, <2>7
  <1> HIDE DEF Good
  <1>3. 0 \in T
    <2>1. ASSUME NEW s \in UpTo(S, 0) PROVE s = {}
      BY NoneUpToZero
    <2>2. QED
      BY <1>1, <2>1 DEF UpTo
  <1>4. ASSUME NEW n \in Nat, n \in T PROVE n + 1 \in T
    <2>1. ASSUME NEW s \in UpTo(S, n + 1) PROVE Good(s)
      BY <1>1, <1>2, <1>4, RestIsLess DEF UpTo
    <2>2. QED
      BY <2>1
  <1>5. Good(S)
    <2> HIDE DEF T
    <2>1. Cardinality(S) \in T
      BY <1>3, <1>4, AllNumbers, FS_CardinalityType
    <2>2. S \in UpTo(S, Cardinality(S))
      BY FS_CardinalityType DEF UpTo
    <2>3. QED
      BY <2>1, <2>2 DEF T
  <1>6. QED
    BY <1>5 DEF Good

\* Shares, each at most k times a weight, are at most k times the weights in all; as
\* much, if each is.
LEMMA SharesBound ==
  ASSUME NEW k \in Nat, NEW fun, NEW weight, NEW S, IsFiniteSet(S),
         \A x \in S : fun[x] \in Nat /\ weight[x] \in Nat /\ fun[x] <= weight[x] * k
  PROVE  /\ SumFunctionOnSet(fun, S) <= SumFunctionOnSet(weight, S) * k
         /\ (\A x \in S : fun[x] = weight[x] * k) =>
              SumFunctionOnSet(fun, S) = SumFunctionOnSet(weight, S) * k
  <1> DEFINE Good(s) ==
               /\ SumFunctionOnSet(fun, s) <= SumFunctionOnSet(weight, s) * k
               /\ (\A x \in s : fun[x] = weight[x] * k) =>
                    SumFunctionOnSet(fun, s) = SumFunctionOnSet(weight, s) * k
             T == {n \in Nat : \A s \in UpTo(S, n) : Good(s)}
  <1>1. ASSUME NEW s \in SUBSET S, s = {} PROVE Good(s)
    <2>1. SumFunctionOnSet(fun, s) = 0 /\ SumFunctionOnSet(weight, s) = 0
      BY <1>1, FS_EmptySet, FoldUnfolds DEF Folded
    <2>2. QED
      BY <2>1
  <1>2. ASSUME NEW s \in SUBSET S, s # {}, Good(Rest(s)) PROVE Good(s)
    <2> DEFINE p == Picked(s)
               r == Rest(s)
               a == SumFunctionOnSet(fun, r)
               b == SumFunctionOnSet(weight, r)
    <2>1. IsFiniteSet(s) /\ IsFiniteSet(r) /\ r \subseteq s
      BY FS_Subset DEF Rest
    <2>2. /\ p \in s
          /\ SumFunctionOnSet(fun, s) = fun[p] + a
          /\ SumFunctionOnSet(weight, s) = weight[p] + b
      BY <1>2, <2>1, FoldUnfolds DEF Folded
    <2>3. /\ fun[p] \in Nat /\ weight[p] \in Nat /\ fun[p] <= weight[p] * k
          /\ a \in Nat /\ b \in Nat
      BY <2>1, <2>2, FoldType DEF Folded
    <2>4. a <= b * k /\ ((\A x \in r : fun[x] = weight[x] * k) => a = b * k)
      BY <1>2
    <2> HIDE DEF a, b, p, r
    <2>5. (weight[p] + b) * k = weight[p] * k + b * k
      BY <2>3
    <2>6. fun[p] + a <= (weight[p] + b) * k
      BY <2>3, <2>4, <2>5
    <2>7. fun[p] = weight[p] * k /\ a = b * k => fun[p] + a = (weight[p] + b) * k
      BY <2>3, <2>5
    <2>8. QED
      BY <2>1, <2>2, <2>4, <2>6, <2>7
  <1> HIDE DEF Good
  <1>3. 0 \in T
    <2>1. ASSUME NEW s \in UpTo(S, 0) PROVE s = {}
      BY NoneUpToZero
    <2>2. QED
      BY <1>1, <2>1 DEF UpTo
  <1>4. ASSUME NEW n \in Nat, n \in T PROVE n + 1 \in T
    <2>1. ASSUME NEW s \in UpTo(S, n + 1) PROVE Good(s)
      BY <1>1, <1>2, <1>4, RestIsLess DEF UpTo
    <2>2. QED
      BY <2>1
  <1>5. Good(S)
    <2> HIDE DEF T
    <2>1. Cardinality(S) \in T
      BY <1>3, <1>4, AllNumbers, FS_CardinalityType
    <2>2. S \in UpTo(S, Cardinality(S))
      BY FS_CardinalityType DEF UpTo
    <2>3. QED
      BY <2>1, <2>2 DEF T
  <1>6. QED
    BY <1>5 DEF Good

\* A product is a multiple of each of its factors.
LEMMA ProductDivides ==
  ASSUME NEW fun, NEW S, IsFiniteSet(S), \A x \in S : fun[x] \in Nat
  PROVE  \A x \in S : \E q \in Nat : Product(fun, S) = fun[x] * q
  <1> DEFINE Good(s) == \A x \in s : \E q \in Nat : Product(fun, s) = fun[x] * q
             T == {n \in Nat : \A s \in UpTo(S, n) : Good(s)}
  <1>1. ASSUME NEW s \in SUBSET S, s # {}, Good(Rest(s)) PROVE Good(s)
    <2> DEFINE p == Picked(s)
               r == Rest(s)
               b == Product(fun, r)
    <2>1. IsFiniteSet(s) /\ IsFiniteSet(r) /\ r = s \ {p}
      BY FS_Subset DEF Rest
    <2>2. p \in s /\ Product(fun, s) = fun[p] * b
      BY <1>1, <2>1, FoldUnfolds DEF Folded
    <2>3. fun[p] \in Nat /\ b \in Nat
      BY <2>1, <2>2, FoldType DEF Folded
    <2>4. \A x \in r : \E q \in Nat : b = fun[x] * q
      BY <1>1
    <2> HIDE DEF b, p, r
    <2>5. ASSUME NEW x \in r PROVE \E q \in Nat : Product(fun, s) = fun[x] * q
      <3>1. PICK q \in Nat : b = fun[x] * q
        BY <2>4
      <3>2. fun[x] \in Nat
        BY <2>1
      <3>3. fun[p] * (fun[x] * q) = fun[x] * (fun[p] * q) /\ fun[p] * q \in Nat
        BY <2>3, <3>2
      <3>4. QED
        BY <2>2, <3>1, <3>3
    <2>6. QED
      BY <2>1, <2>2, <2>3, <2>5
  <1> HIDE DEF Good
  <1>2. 0 \in T
    <2>1. ASSUME NEW s \in UpTo(S, 0) PROVE s = {}
      BY NoneUpToZero
    <2>2. Good({})
      BY DEF Good
    <2>3. QED
      BY <2>1, <2>2
  <1>3. ASSUME NEW n \in Nat, n \in T PROVE n + 1 \in T
    <2>1. Good({})
      BY DEF Good
    <2>2. ASSUME NEW s \in UpTo(S, n + 1) PROVE Good(s)
      BY <1>1, <1>3, <2>1, RestIsLess DEF UpTo
    <2>3. QED
      BY <2>2
  <1>4. Good(S)
    <2> HIDE DEF T
    <2>1. Cardinality(S) \in T
      BY <1>2, <1>3, AllNumbers, FS_CardinalityType
    <2>2. S \in UpTo(S, Cardinality(S))
      BY FS_CardinalityType DEF UpTo
    <2>3. QED
      BY <2>1, <2>2 DEF T
  <1>5. QED
    BY <1>4 DEF Good
--------------------------------------------------------------------------------
(* Scores *)

\* A function has finitely many values on finitely many arguments, and no more.
LEMMA FewValues ==
  ASSUME NEW fun, IsFiniteSet(DOMAIN fun)
  PROVE  /\ IsFiniteSet({fun[x] : x \in DOMAIN fun})
         /\ Cardinality({fun[x] : x \in DOMAIN fun}) \in Nat
         /\ Cardinality({fun[x] : x \in DOMAIN fun}) <= Cardinality(DOMAIN fun)
  <1> DEFINE S == DOMAIN fun
             T == {fun[x] : x \in S}
             onto == [x \in S |-> fun[x]]
  <1>1. onto \in Surjection(S, T)
    BY DEF Surjection
  <1>2. QED
    BY <1>1, FS_Surjection, FS_CardinalityType

\* A list names finitely many ids.
LEMMA ListType ==
  ASSUME NEW filters \in FilterSets, NEW name \in Lists \cap DOMAIN filters
  PROVE  /\ Len(filters[name]) \in Nat
         /\ IsFiniteSet(ToSet(filters[name]))
  <1> DEFINE s == filters[name]
  <1>1. s \in Seq(ToSet(s))
    BY FiltersAssumption
  <1>2. Len(s) \in Nat /\ DOMAIN s = 1..Len(s)
    BY <1>1
  <1>3. IsFiniteSet(1..Len(s))
    BY <1>2, FS_Interval
  <1> HIDE DEF s
  <1>4. IsFiniteSet({s[i] : i \in DOMAIN s})
    BY <1>2, <1>3, FewValues
  <1>5. QED
    BY <1>2, <1>4 DEF s, ToSet

\* How much the lists of some names ask for.
LEMMA NamedType ==
  ASSUME NEW filters \in FilterSets, NEW names \in SUBSET Lists, IsFiniteSet(names)
  PROVE  Named(filters, names) \in Nat
  <1> DEFINE sent == names \cap DOMAIN filters
             fun  == [name \in sent |-> Len(filters[name])]
  <1>1. IsFiniteSet(sent)
    BY FS_Subset
  <1>2. \A name \in sent : fun[name] \in Nat
    BY ListType
  <1>3. DOMAIN fun = sent
    OBVIOUS
  <1> HIDE DEF sent, fun
  <1>4. SumFunctionOnSet(fun, sent) \in Nat
    BY <1>1, <1>2, FoldType DEF Folded
  <1>5. QED
    BY <1>3, <1>4 DEF Named, SumFunction, sent, fun

\* A single list asks for as much as it is long.
LEMMA NamedOne ==
  ASSUME NEW filters \in FilterSets, NEW name \in Lists
  PROVE  /\ Named(filters, {name}) = IF name \in DOMAIN filters THEN Len(filters[name]) ELSE 0
         /\ name \in DOMAIN filters => Ids(filters, {name}) = ToSet(filters[name])
         /\ IsFiniteSet(Ids(filters, {name}))
  <1> DEFINE sent == {name} \cap DOMAIN filters
             fun  == [n \in sent |-> Len(filters[n])]
  <1>1. DOMAIN fun = sent /\ Named(filters, {name}) = SumFunctionOnSet(fun, DOMAIN fun)
    BY DEF Named, SumFunction
  <1>2. CASE name \in DOMAIN filters
    <2>1. sent = {name} /\ fun[name] = Len(filters[name]) /\ Len(filters[name]) \in Nat
      BY <1>2, ListType
    <2> HIDE DEF sent, fun
    <2>2. IsFiniteSet(sent) /\ Picked(sent) = name /\ Rest(sent) = {}
      BY <2>1, FS_Singleton DEF Picked, Rest
    <2>3. SumFunctionOnSet(fun, {}) = 0
      BY FS_EmptySet, FoldUnfolds DEF Folded
    <2>4. SumFunctionOnSet(fun, sent) = fun[name] + 0
      BY <2>1, <2>2, <2>3, FoldUnfolds DEF Folded
    <2>5. Ids(filters, {name}) = ToSet(filters[name])
      BY <1>2 DEF Ids
    <2>6. IsFiniteSet(ToSet(filters[name]))
      BY <1>2, ListType
    <2>7. QED
      BY <1>1, <1>2, <2>1, <2>4, <2>5, <2>6
  <1>3. CASE name \notin DOMAIN filters
    <2>1. sent = {}
      BY <1>3
    <2> HIDE DEF sent, fun
    <2>2. SumFunctionOnSet(fun, sent) = 0
      BY <2>1, FS_EmptySet, FoldUnfolds DEF Folded
    <2>3. Ids(filters, {name}) = {}
      BY <1>3 DEF Ids
    <2>4. QED
      BY <1>1, <1>3, <2>2, <2>3, FS_EmptySet
  <1>4. QED
    BY <1>2, <1>3

\* The ids of several lists are finitely many.
LEMMA IdsFinite ==
  ASSUME NEW filters \in FilterSets, NEW names \in SUBSET Lists, IsFiniteSet(names)
  PROVE  IsFiniteSet(Ids(filters, names))
  <1> DEFINE sent == names \cap DOMAIN filters
             sets == {ToSet(filters[name]) : name \in sent}
  <1>1. IsFiniteSet(sent)
    BY FS_Subset
  <1>2. \A s \in sets : IsFiniteSet(s)
    BY ListType
  <1>3. IsFiniteSet(sets)
    <2> DEFINE fun == [name \in sent |-> ToSet(filters[name])]
    <2>1. DOMAIN fun = sent /\ sets = {fun[x] : x \in DOMAIN fun}
      OBVIOUS
    <2> HIDE DEF fun, sets, sent
    <2>2. QED
      BY <1>1, <2>1, FewValues
  <1>4. Ids(filters, names) = UNION sets
    BY DEF Ids
  <1> HIDE DEF sets
  <1>5. QED
    BY <1>2, <1>3, <1>4, FS_UNION

\* A few of finitely many are a number.
LEMMA SomeOf ==
  ASSUME NEW S, IsFiniteSet(S), NEW T
  PROVE  /\ IsFiniteSet(S \cap T) /\ Cardinality(S \cap T) \in Nat
         /\ S \cap T # {} => Cardinality(S \cap T) >= 1
  <1>1. IsFiniteSet(S \cap T) /\ Cardinality(S \cap T) \in Nat
    BY FS_Subset, FS_CardinalityType
  <1>2. S \cap T # {} => Cardinality(S \cap T) # 0
    BY <1>1, FS_EmptySet
  <1>3. QED
    BY <1>1, <1>2

Groups == {"occupation", "skills", "languages", "specialization", "location", "preferences",
           "attributes"}

\* What is asked of each group and what is matched are numbers.
LEMMA CountsType ==
  ASSUME NEW filters \in FilterSets, NEW c, NEW g \in Groups
  PROVE  Asked(filters)[g] \in Nat /\ Matched(filters, c)[g] \in Nat
  <1> DEFINE some == {"employmentTypeIds", "workFormatIds", "shiftIds"}
             places == {"regionId", "districtIds"} \cap DOMAIN filters
             near == {name \in places :
                        IF name = "regionId" THEN Of(c, "region_id") = filters["regionId"]
                        ELSE Of(c, "district_id") \in ToSet(filters["districtIds"])}
             spoken == {l \in Ids(filters, {"languages"}) : Speaks(c, l)}
  <1>1. \A name \in Lists : Named(filters, {name}) \in Nat
    BY NamedType, FS_Singleton
  <1>2. IsFiniteSet(some) /\ some \in SUBSET Lists /\ IsFiniteSet({"regionId", "districtIds"})
    <2>1. IsFiniteSet({"employmentTypeIds"}) /\ IsFiniteSet({"regionId"})
      BY FS_Singleton
    <2>2. IsFiniteSet({"employmentTypeIds"} \cup {"workFormatIds"})
      BY <2>1, FS_AddElement
    <2>3. IsFiniteSet(({"employmentTypeIds"} \cup {"workFormatIds"}) \cup {"shiftIds"})
      BY <2>2, FS_AddElement
    <2>4. IsFiniteSet({"regionId"} \cup {"districtIds"})
      BY <2>1, FS_AddElement
    <2>5. some = ({"employmentTypeIds"} \cup {"workFormatIds"}) \cup {"shiftIds"}
          /\ {"regionId", "districtIds"} = {"regionId"} \cup {"districtIds"}
      OBVIOUS
    <2>6. QED
      BY <2>3, <2>4, <2>5 DEF Lists
  <1>3. Named(filters, some) \in Nat
    BY <1>2, NamedType
  <1>4. Cardinality(places) \in Nat /\ IsFiniteSet(places)
    BY <1>2, SomeOf
  <1>5. Cardinality(near) \in Nat
    BY <1>4, FS_Subset, FS_CardinalityType
  <1>6. \A name \in Lists : \A held : Cardinality(Ids(filters, {name}) \cap held) \in Nat
    BY NamedOne, SomeOf
  <1>7. \A held : Cardinality(Ids(filters, some) \cap held) \in Nat
    BY <1>2, IdsFinite, SomeOf
  <1>8. Cardinality({language.item : language \in spoken}) \in Nat
    <2>1. IsFiniteSet(spoken)
      BY NamedOne, FS_Subset DEF Lists
    <2> DEFINE fun == [language \in spoken |-> language.item]
               items == {language.item : language \in spoken}
    <2>2. DOMAIN fun = spoken /\ items = {fun[x] : x \in DOMAIN fun}
      OBVIOUS
    <2> HIDE DEF fun, items, spoken
    <2>3. IsFiniteSet(items)
      BY <2>1, <2>2, FewValues
    <2>4. Cardinality(items) \in Nat
      BY <2>3, FS_CardinalityType
    <2>5. QED
      BY <2>4 DEF items
  <1>9. Asked(filters)[g] \in Nat
    <2> HIDE DEF some, places
    <2>1. QED
      BY <1>1, <1>3, <1>4 DEF Asked, Groups, Lists, some, places
  <1>10. Matched(filters, c)[g] \in Nat
    <2> DEFINE heard == {language.item : language \in spoken}
    <2>1. /\ Matched(filters, c).occupation
               = Cardinality(Ids(filters, {"occupationIds"}) \cap Occupations(c))
          /\ Matched(filters, c).skills
               = Cardinality(Ids(filters, {"skillIds"}) \cap SkillsAt(c, filters))
          /\ Matched(filters, c).languages = Cardinality(heard)
          /\ Matched(filters, c).specialization
               = Cardinality(Ids(filters, {"specializationIds"}) \cap Of(c, "specialization"))
          /\ Matched(filters, c).location = Cardinality(near)
          /\ Matched(filters, c).preferences
               = Cardinality(Ids(filters, some) \cap Chosen(c, PREFERENCE_FIELD_CODES))
          /\ Matched(filters, c).attributes
               = Cardinality(Ids(filters, {"attributeIds"}) \cap Chosen(c, ATTRIBUTE_FIELD_CODES))
      BY DEF Matched
    <2> HIDE DEF some, places, near, spoken, heard
    <2>2. Cardinality(heard) \in Nat
      BY <1>8 DEF heard
    <2>3. QED
      BY <1>5, <1>6, <1>7, <2>1, <2>2 DEF Groups, Lists
  <1>11. QED
    BY <1>9, <1>10

\* No score is above 100 or below 0, and it is 100 where every group has all it was
\* asked for.
LEMMA ScoreBounds ==
  ASSUME NEW filters \in FilterSets, NEW c
  PROVE  /\ Score(filters, c) \in 0..100
         /\ (\A g \in ScoreGroups(filters) : Matched(filters, c)[g] >= Asked(filters)[g]) =>
              Score(filters, c) = 100
  <1> DEFINE groups  == ScoreGroups(filters)
             asked   == Asked(filters)
             matched == Matched(filters, c)
             common  == Product(asked, groups)
             weights == SumFunctionOnSet(WEIGHTS, groups)
             share   == [g \in groups |->
                           WEIGHTS[g] * Least(matched[g], asked[g]) * (common \div asked[g])]
             terms   == SumFunctionOnSet(share, groups)
  <1>1. Score(filters, c) = IF groups = {} THEN 100 ELSE Percent(terms, weights * common)
    BY DEF Score, SumFunction
  <1>2. DOMAIN WEIGHTS = Groups /\ \A g \in Groups : WEIGHTS[g] \in {1, 2, 3}
    BY DEF WEIGHTS, Groups
  <1>3. IsFiniteSet(groups)
    <2>1. IsFiniteSet(Groups)
      <3>1. IsFiniteSet({"occupation"})
        BY FS_Singleton
      <3>2. IsFiniteSet({"occupation"} \cup {"skills"})
        BY <3>1, FS_AddElement
      <3>3. IsFiniteSet({"occupation", "skills"} \cup {"languages"})
        BY <3>2, FS_AddElement
      <3>4. IsFiniteSet({"occupation", "skills", "languages"} \cup {"specialization"})
        BY <3>3, FS_AddElement
      <3>5. IsFiniteSet({"occupation", "skills", "languages", "specialization"} \cup {"location"})
        BY <3>4, FS_AddElement
      <3>6. IsFiniteSet({"occupation", "skills", "languages", "specialization", "location"}
                         \cup {"preferences"})
        BY <3>5, FS_AddElement
      <3>7. IsFiniteSet({"occupation", "skills", "languages", "specialization", "location",
                         "preferences"} \cup {"attributes"})
        BY <3>6, FS_AddElement
      <3>8. Groups = {"occupation", "skills", "languages", "specialization", "location",
                      "preferences"} \cup {"attributes"}
        BY DEF Groups
      <3>9. QED
        BY <3>7, <3>8
    <2>2. groups \subseteq Groups
      BY <1>2 DEF ScoreGroups
    <2>3. QED
      BY <2>1, <2>2, FS_Subset
  <1>4. \A g \in groups : /\ g \in Groups /\ asked[g] \in Nat /\ asked[g] > 0 /\ matched[g] \in Nat
                          /\ WEIGHTS[g] \in Nat /\ WEIGHTS[g] > 0
    BY <1>2, CountsType DEF ScoreGroups
  <1> HIDE DEF groups, asked, matched
  <1>5. common \in Nat /\ common > 0
    <2>1. Folded(FALSE, asked, groups) \in Nat /\ Folded(FALSE, asked, groups) > 0
      BY <1>3, <1>4, FoldType
    <2>2. QED
      BY <2>1 DEF Folded
  <1>6. weights \in Nat /\ (groups # {} => weights > 0)
    <2>1. Folded(TRUE, WEIGHTS, groups) \in Nat
          /\ (groups # {} => Folded(TRUE, WEIGHTS, groups) > 0)
      BY <1>3, <1>4, FoldType
    <2>2. QED
      BY <2>1 DEF Folded
  <1>7. \A g \in groups : \E q \in Nat : common = asked[g] * q
    BY <1>3, <1>4, ProductDivides
  <1> DEFINE met == \A g \in groups : matched[g] >= asked[g]
  <1> HIDE DEF common, weights
  <1>8. ASSUME NEW g \in groups
        PROVE  /\ share[g] \in Nat /\ share[g] <= WEIGHTS[g] * common
               /\ matched[g] >= asked[g] => share[g] = WEIGHTS[g] * common
    <2> DEFINE w == WEIGHTS[g]
               a == asked[g]
               l == Least(matched[g], a)
    <2>1. PICK q \in Nat : common = a * q
      BY <1>7
    <2>2. a \in Nat /\ a > 0 /\ w \in {1, 2, 3} /\ l \in Nat /\ l <= a /\ (matched[g] >= a => l = a)
      BY <1>2, <1>4 DEF Least
    <2>3. share[g] = w * l * (common \div a)
      OBVIOUS
    <2> HIDE DEF w, a, l, share
    <2>4. common \div a = q
      BY <2>1, <2>2, <1>5
    <2>5. l * q \in Nat /\ l * q <= a * q
      BY <2>1, <2>2
    <2>6. w * l * q = w * (l * q)
      BY <2>2
    <2>7. w * (l * q) \in Nat /\ w * (l * q) <= w * (a * q)
      <3> DEFINE x == l * q
                 y == a * q
      <3>1. x \in Nat /\ y \in Nat /\ x <= y
        BY <2>1, <2>2, <2>5
      <3> HIDE DEF x, y
      <3>2. w * x \in Nat /\ w * x <= w * y
        BY <2>2, <3>1
      <3>3. QED
        BY <3>2 DEF x, y
    <2>8. share[g] = w * (l * q) /\ common = a * q
      BY <2>1, <2>3, <2>4, <2>6
    <2>9. matched[g] >= a => w * (l * q) = w * common
      BY <2>2, <2>8
    <2>10. QED
      BY <2>7, <2>8, <2>9 DEF w, a
  <1> HIDE DEF share
  <1>9. terms <= weights * common /\ (met => terms = weights * common)
    <2>1. \A g \in groups : share[g] \in Nat /\ WEIGHTS[g] \in Nat /\ share[g] <= WEIGHTS[g] * common
      BY <1>4, <1>8
    <2>2. met => \A g \in groups : share[g] = WEIGHTS[g] * common
      BY <1>8
    <2> HIDE DEF met
    <2>3. /\ terms <= SumFunctionOnSet(WEIGHTS, groups) * common
          /\ (\A g \in groups : share[g] = WEIGHTS[g] * common) =>
               terms = SumFunctionOnSet(WEIGHTS, groups) * common
      BY <1>3, <1>5, <2>1, SharesBound
    <2>4. QED
      BY <2>2, <2>3 DEF weights
  <1>10. terms \in Nat
    BY <1>3, <1>8, FoldType DEF Folded
  <1>11. groups # {} => weights * common \in Nat /\ weights * common > 0
    BY <1>5, <1>6
  <1> HIDE DEF terms, met
  <1>12. groups # {} => /\ Percent(terms, weights * common) \in 0..100
                        /\ met => Percent(terms, weights * common) = 100
    BY <1>9, <1>10, <1>11, PercentBounds
  <1>13. QED
    BY <1>1, <1>12 DEF met, groups, asked, matched

\* Who is admitted without a choice between alternatives has all that was asked for.
LEMMA AdmittedHaveAll ==
  ASSUME NEW filters \in FilterSets, NEW c, NoAlternatives(filters), WhereFilters(filters, c, Today),
         NEW g \in ScoreGroups(filters)
  PROVE  Matched(filters, c)[g] >= Asked(filters)[g]
  <1>1. g \in Groups /\ Asked(filters)[g] > 0
    BY DEF ScoreGroups, WEIGHTS, Groups
  <1>2. Asked(filters)[g] \in Nat /\ Matched(filters, c)[g] \in Nat
    BY <1>1, CountsType
  <1>3. CASE g = "occupation"
    <2> DEFINE name == "occupationIds"
    <2>1. Asked(filters)[g] = Named(filters, {name})
          /\ Matched(filters, c)[g] = Cardinality(Ids(filters, {name}) \cap Occupations(c))
      BY <1>3 DEF Asked, Matched
    <2>2. /\ name \in DOMAIN filters /\ Named(filters, {name}) = Len(filters[name])
          /\ Ids(filters, {name}) = ToSet(filters[name]) /\ IsFiniteSet(ToSet(filters[name]))
      BY <1>1, <2>1, NamedOne DEF Lists
    <2>3. Len(filters[name]) = 1
      BY <2>2 DEF NoAlternatives
    <2>4. ToSet(filters[name]) \cap Occupations(c) # {}
      <3>1. \E id \in ToSet(filters[name]) : id = c.occupation.primary \/ id \in Occupations(c)
        BY <2>2 DEF WhereFilters, WhereOccupation, AnyOf
      <3>2. Null \notin ToSet(filters[name])
        BY <2>2, FiltersAssumption DEF Lists
      <3>3. QED
        BY <3>1, <3>2 DEF Occupations
    <2>5. Cardinality(ToSet(filters[name]) \cap Occupations(c)) >= 1
      BY <2>2, <2>4, SomeOf
    <2>6. QED
      BY <2>1, <2>2, <2>3, <2>5
  <1>4. CASE g = "skills"
    <2> DEFINE name == "skillIds"
    <2>1. Asked(filters)[g] = Named(filters, {name})
          /\ Matched(filters, c)[g] = Cardinality(Ids(filters, {name}) \cap SkillsAt(c, filters))
      BY <1>4 DEF Asked, Matched
    <2>2. /\ name \in DOMAIN filters /\ Named(filters, {name}) = Len(filters[name])
          /\ Ids(filters, {name}) = ToSet(filters[name])
      BY <1>1, <2>1, NamedOne DEF Lists
    <2>3. Cardinality(ToSet(filters[name]) \cap SkillsAt(c, filters)) = Len(filters[name])
      BY <2>2 DEF NoAlternatives, WhereFilters, WhereSkills, AllOf
    <2>4. Ids(filters, {name}) \cap SkillsAt(c, filters) = ToSet(filters[name]) \cap SkillsAt(c, filters)
      BY <2>2
    <2>5. Asked(filters)[g] = Matched(filters, c)[g]
      BY <2>1, <2>2, <2>3, <2>4
    <2>6. QED
      BY <1>2, <2>5
  <1>5. CASE g = "languages"
    <2> DEFINE name == "languages"
               spoken == {l \in Ids(filters, {name}) : Speaks(c, l)}
    <2>1. Asked(filters)[g] = Named(filters, {name})
          /\ Matched(filters, c)[g] = Cardinality({language.item : language \in spoken})
      BY <1>5 DEF Asked, Matched
    <2>2. /\ name \in DOMAIN filters /\ Named(filters, {name}) = Len(filters[name])
          /\ Ids(filters, {name}) = ToSet(filters[name])
      BY <1>1, <2>1, NamedOne DEF Lists
    <2>3. \A language \in ToSet(filters[name]) : Speaks(c, language)
      BY <2>2 DEF WhereFilters, WhereLanguages, If
    <2>4. spoken = ToSet(filters[name])
      BY <2>2, <2>3
    <2>5. Cardinality({language.item : language \in ToSet(filters[name])}) = Len(filters[name])
      BY <2>2 DEF NoAlternatives
    <2> HIDE DEF spoken
    <2>6. QED
      BY <1>2, <2>1, <2>2, <2>4, <2>5
  <1>6. CASE g = "specialization"
    <2> DEFINE name == "specializationIds"
               held == Of(c, "specialization")
    <2>1. Asked(filters)[g] = Named(filters, {name})
          /\ Matched(filters, c)[g] = Cardinality(Ids(filters, {name}) \cap held)
      BY <1>6 DEF Asked, Matched
    <2>2. /\ name \in DOMAIN filters /\ Named(filters, {name}) = Len(filters[name])
          /\ Ids(filters, {name}) = ToSet(filters[name]) /\ IsFiniteSet(ToSet(filters[name]))
      BY <1>1, <2>1, NamedOne DEF Lists
    <2>3. Len(filters[name]) = 1 /\ ToSet(filters[name]) \cap held # {}
      BY <2>2 DEF NoAlternatives, WhereFilters, WhereEducation, AnyOf
    <2> HIDE DEF held
    <2>4. Cardinality(ToSet(filters[name]) \cap held) >= 1
      BY <2>2, <2>3, SomeOf
    <2>5. QED
      BY <2>1, <2>2, <2>3, <2>4
  <1>7. CASE g = "location"
    <2> DEFINE places == {"regionId", "districtIds"} \cap DOMAIN filters
               near == {name \in places :
                          IF name = "regionId" THEN Of(c, "region_id") = filters["regionId"]
                          ELSE Of(c, "district_id") \in ToSet(filters["districtIds"])}
    <2>1. Asked(filters)[g] = Cardinality(places) /\ Matched(filters, c)[g] = Cardinality(near)
      BY <1>7 DEF Asked, Matched
    <2>2. "regionId" \in DOMAIN filters => Of(c, "region_id") = filters["regionId"]
      BY DEF WhereFilters, WherePlace, If
    <2>3. "districtIds" \in DOMAIN filters => Of(c, "district_id") \in ToSet(filters["districtIds"])
      BY DEF WhereFilters, WherePlace, AnyOf
    <2>4. near = places
      BY <2>2, <2>3
    <2> HIDE DEF near, places
    <2>5. QED
      BY <1>2, <2>1, <2>4
  <1>8. CASE g = "preferences"
    BY <1>1, <1>8 DEF Asked, NoAlternatives
  <1>9. CASE g = "attributes"
    <2> DEFINE name == "attributeIds"
               held == Chosen(c, ATTRIBUTE_FIELD_CODES)
    <2>1. Asked(filters)[g] = Named(filters, {name})
          /\ Matched(filters, c)[g] = Cardinality(Ids(filters, {name}) \cap held)
      BY <1>9 DEF Asked, Matched
    <2>2. /\ name \in DOMAIN filters /\ Named(filters, {name}) = Len(filters[name])
          /\ Ids(filters, {name}) = ToSet(filters[name])
      BY <1>1, <2>1, NamedOne DEF Lists
    <2>3. Cardinality(ToSet(filters[name]) \cap held) = Len(filters[name])
      BY <2>2 DEF NoAlternatives, WhereFilters, WhereAttributes, AllOf
    <2> HIDE DEF held
    <2>4. Ids(filters, {name}) \cap held = ToSet(filters[name]) \cap held
      BY <2>2
    <2>5. Asked(filters)[g] = Matched(filters, c)[g]
      BY <2>1, <2>2, <2>3, <2>4
    <2>6. QED
      BY <1>2, <2>5
  <1>10. QED
    BY <1>1, <1>3, <1>4, <1>5, <1>6, <1>7, <1>8, <1>9 DEF Groups

\* Whoever is admitted without a choice scores in full, whatever the filters.
LEMMA AdmittedScoreFullAlways ==
  AdmittedScoreFull
  BY ScoreBounds, AdmittedHaveAll DEF AdmittedScoreFull

--------------------------------------------------------------------------------
(* Pages and counts *)

\* Keys of five numbers that end in different ones put one of two first.
LEMMA OneOfTwoFirst ==
  ASSUME NEW x, NEW y, DOMAIN x = 1..5, DOMAIN y = 1..5,
         \A i \in 1..5 : x[i] \in Int /\ y[i] \in Int, x[5] # y[5]
  PROVE  OneFirst(x, y)
  <1> DEFINE differ == {i \in 1..5 : x[i] # y[i]}
  <1>1. PICK d \in differ : \A i \in differ : d <= i
    BY LeastNumber
  <1>2. /\ d \in 1..5 /\ x[d] # y[d] /\ x[d] \in Int /\ y[d] \in Int
        /\ \A j \in 1..(d - 1) : x[j] = y[j]
    BY <1>1
  <1>3. ASSUME NEW a, NEW b, DOMAIN a = 1..5, \A i \in 1..5 : a[i] \in Int /\ b[i] \in Int,
               a[d] # b[d], \A j \in 1..(d - 1) : a[j] = b[j]
        PROVE  Before(a, b) <=> a[d] < b[d]
    <2>1. ASSUME NEW i \in DOMAIN a, a[i] < b[i], \A j \in 1..(i - 1) : a[j] = b[j]
          PROVE  i = d
      <3>1. i \in 1..5 /\ ~(i \in 1..(d - 1)) /\ ~(d \in 1..(i - 1))
        BY <1>2, <1>3, <2>1
      <3>2. QED
        BY <1>2, <3>1
    <2>2. d \in DOMAIN a
      BY <1>2, <1>3
    <2>3. QED
      BY <1>3, <2>1, <2>2 DEF Before
  <1>4. (Before(x, y) <=> x[d] < y[d]) /\ (Before(y, x) <=> y[d] < x[d])
    BY <1>2, <1>3
  <1>5. Before(x, y) \in BOOLEAN /\ Before(y, x) \in BOOLEAN
    BY DEF Before
  <1>6. QED
    BY <1>2, <1>4, <1>5 DEF OneFirst

\* Years of experience are a number.
LEMMA YearsType ==
  ASSUME NEW jobs, IsFiniteSet(jobs), \A job \in jobs : job.days \in Nat
  PROVE  ExperienceYears(jobs) \in Int
  <1> DEFINE fun == [job \in jobs |-> job.days]
             days == SumFunctionOnSet(fun, jobs)
  <1>1. DOMAIN fun = jobs /\ \A job \in jobs : fun[job] \in Nat
    OBVIOUS
  <1> HIDE DEF fun
  <1>2. days \in Nat
    BY <1>1, FoldType DEF Folded
  <1>3. ExperienceYears(jobs) = (2000 * days + 36525) \div 73050
    BY <1>1 DEF ExperienceYears, SumFunction, fun
  <1> HIDE DEF days
  <1>4. QED
    BY <1>2, <1>3

\* What two sequences of numbers come to, end to end.
LEMMA EndToEnd ==
  ASSUME NEW p \in Seq(Int), NEW u \in Seq(Int)
  PROVE  /\ p \o u \in Seq(Int) /\ Len(p \o u) = Len(p) + Len(u)
         /\ \A i \in 1..(Len(p) + Len(u)) :
              (p \o u)[i] = IF i <= Len(p) THEN p[i] ELSE u[i - Len(p)]
  OBVIOUS

\* Two numbers, two numbers and one are five numbers.
LEMMA FiveNumbers ==
  ASSUME NEW s \in Seq(Int), NEW t \in Seq(Int), NEW u \in Seq(Int),
         Len(s) = 2, Len(t) = 2, Len(u) = 1
  PROVE  LET key == s \o t \o u
         IN DOMAIN key = 1..5 /\ (\A i \in 1..5 : key[i] \in Int) /\ key[5] = u[1]
  <1>1. PICK p : p = s \o t
    OBVIOUS
  <1>2. PICK key : key = p \o u
    OBVIOUS
  <1>3. p \in Seq(Int) /\ Len(p) = Len(s) + Len(t)
    BY <1>1, EndToEnd, Zenon
  <1>4. Len(p) = 4
    BY <1>3
  <1>5. key \in Seq(Int) /\ Len(key) = Len(p) + Len(u)
    BY <1>2, <1>3, EndToEnd, Zenon
  <1>6. \A i \in 1..(Len(p) + Len(u)) : key[i] = IF i <= Len(p) THEN p[i] ELSE u[i - Len(p)]
    BY <1>2, <1>3, EndToEnd, Zenon
  <1>7. Len(key) = 5 /\ key[5] = u[1]
    BY <1>4, <1>5, <1>6
  <1>8. DOMAIN key = 1..5 /\ \A i \in 1..5 : key[i] \in Int
    BY <1>5, <1>7, LenProperties
  <1>9. QED
    BY <1>1, <1>2, <1>7, <1>8

\* Every sort compares five numbers, the candidate's id last.
LEMMA SortKeys ==
  ASSUME NEW filters \in FilterSets, NEW sort \in Sorts, NEW c, Comparable(c)
  PROVE  LET key == SortKey(sort, filters, c)
         IN DOMAIN key = 1..5 /\ (\A i \in 1..5 : key[i] \in Int) /\ key[5] = c.id
  <1> DEFINE pay == Of(c, "salary").from
             first == CASE sort = "match"      -> <<0, -Score(filters, c)>>
                        [] sort = "recent"     -> <<0, 0>>
                        [] sort = "experience" -> <<0, -ExperienceYears(c.jobs)>>
                        [] sort = "salary"     -> NullsLast(pay, pay)
                        [] sort = "proximity"  -> <<0, -ProximityRank(filters, c)>>
  <1>1. /\ Score(filters, c) \in Int /\ ExperienceYears(c.jobs) \in Int
        /\ ProximityRank(filters, c) \in Int /\ pay \in Int \cup {Null}
        /\ c.id \in Nat /\ c.updated \in Int \cup {Null}
    BY ScoreBounds, YearsType DEF ProximityRank, Comparable
  <1>2. \E a, b \in Int : first = <<a, b>>
    <2> HIDE DEF pay
    <2>1. CASE sort = "match"
      BY <1>1, <2>1
    <2>2. CASE sort = "recent"
      BY <2>2
    <2>3. CASE sort = "experience"
      BY <1>1, <2>3
    <2>4. CASE sort = "salary"
      BY <1>1, <2>4 DEF NullsLast
    <2>5. CASE sort = "proximity"
      BY <1>1, <2>5
    <2>6. QED
      BY <2>1, <2>2, <2>3, <2>4, <2>5 DEF Sorts
  <1>3. \E a, b \in Int : Recency(c) = <<a, b>>
    BY <1>1 DEF Recency, NullsLast
  <1>4. SortKey(sort, filters, c) = first \o Recency(c) \o <<c.id>>
    BY DEF SortKey
  <1> HIDE DEF first
  <1>5. PICK a1, a2, a3, a4 \in Int : first = <<a1, a2>> /\ Recency(c) = <<a3, a4>>
    BY <1>2, <1>3
  <1> DEFINE id == c.id
             key == SortKey(sort, filters, c)
  <1>6. id \in Int
    BY <1>1
  <1>7. key = <<a1, a2>> \o <<a3, a4>> \o <<id>>
    BY <1>4, <1>5
  <1> DEFINE s == <<a1, a2>>
             t == <<a3, a4>>
             u == <<id>>
  <1>8. /\ s \in Seq(Int) /\ t \in Seq(Int) /\ u \in Seq(Int)
        /\ Len(s) = 2 /\ Len(t) = 2 /\ Len(u) = 1 /\ u[1] = id
    BY <1>6
  <1> HIDE DEF s, t, u, id, key
  <1>9. key = s \o t \o u
    BY <1>7 DEF s, t, u
  <1>10. DOMAIN key = 1..5 /\ (\A i \in 1..5 : key[i] \in Int) /\ key[5] = id
    BY <1>8, <1>9, FiveNumbers
  <1>11. QED
    BY <1>10 DEF key, id

\* Any two candidates of different ids are in order, under every sort.
LEMMA OrderedByKeys ==
  ASSUME NEW a, NEW b, Comparable(a), Comparable(b), a.id # b.id
  PROVE  Ordered(a, b)
  <1> SUFFICES ASSUME NEW filters \in FilterSets, NEW sort \in Sorts
               PROVE  OneFirst(SortKey(sort, filters, a), SortKey(sort, filters, b))
    BY DEF Ordered
  <1>1. QED
    BY SortKeys, OneOfTwoFirst

\* The candidate's own profile has numbers to compare.
LEMMA LiveComparable ==
  ASSUME PayOK(answers)
  PROVE  Comparable(Live) /\ Live.id = 0
  <1> DEFINE worked == history \cap Jobs
             fun == [j \in worked |-> JobFacts[j]]
             jobs == {JobFacts[j] : j \in worked}
  <1>1. Of(Live, "salary").from \in Int \cup {Null}
    <2>1. Of(Live, "salary") = IF "salary" \in DOMAIN answers THEN answers["salary"]
                               ELSE EmptyFor(CandidateForm["salary"])
      BY DEF Of, Live
    <2>2. EmptyFor(CandidateForm["salary"]).from = Null
      BY FormAssumption DEF EmptyFor, NoPay
    <2>3. QED
      BY <2>1, <2>2 DEF PayOK
  <1>2. IsFiniteSet(worked) /\ \A job \in jobs : job.days \in Nat
    BY JobsAssumption, FS_Subset
  <1>3. DOMAIN fun = worked /\ jobs = {fun[j] : j \in DOMAIN fun}
    OBVIOUS
  <1>4. IsFiniteSet(jobs)
    <2> HIDE DEF fun, worked, jobs
    <2>1. QED
      BY <1>2, <1>3, FewValues
  <1>5. Live.id = 0 /\ Live.updated = Null /\ Live.jobs = jobs
    BY DEF Live
  <1> HIDE DEF jobs
  <1>6. QED
    BY <1>1, <1>2, <1>4, <1>5 DEF Comparable

\* A page boundary leaves everyone on one side.
LEMMA PagesOrdered ==
  ASSUME PayOK(answers)
  PROVE  PagesNeverRepeat
  <1>1. \A rival \in Rivals : Comparable(rival) /\ rival.id \in Nat /\ rival.id > 0
    BY RivalsAssumption DEF Comparable
  <1>2. RivalsOrdered
    <2> SUFFICES ASSUME NEW a \in Rivals, NEW b \in Rivals, a.id < b.id PROVE Ordered(a, b)
      BY DEF RivalsOrdered
    <2>1. a.id # b.id
      BY <1>1
    <2>2. QED
      BY <1>1, <2>1, OrderedByKeys
  <1>3. ASSUME NEW rival \in Rivals PROVE Ordered(Live, rival)
    <2>1. Live.id # rival.id /\ Comparable(Live)
      BY <1>1, LiveComparable
    <2>2. QED
      BY <1>1, <2>1, OrderedByKeys
  <1>4. QED
    BY <1>2, <1>3 DEF PagesNeverRepeat

\* The count is the length of the list, or says it is not.
LEMMA CountIsHonestAlways ==
  CountIsHonest
  <1> SUFFICES ASSUME NEW filters \in FilterSets
               PROVE  LET found == {c \in Everyone : WhereFilters(filters, c, Today)}
                          shown == Count(filters, Everyone, Today, Cap)
                      IN IF shown.isExact THEN shown.count = Cardinality(found)
                         ELSE shown.count = Cap /\ Cardinality(found) > Cap
    BY DEF CountIsHonest
  <1> DEFINE found == {c \in Everyone : WhereFilters(filters, c, Today)}
             n == Cardinality(found)
  <1>1. IsFiniteSet(Everyone)
    <2>1. Everyone = Rivals \cup {Live}
      BY DEF Everyone
    <2>2. QED
      BY <2>1, RivalsAssumption, FS_AddElement
  <1>2. n \in Nat
    BY <1>1, FS_Subset, FS_CardinalityType
  <1>3. Count(filters, Everyone, Today, Cap) =
          IF Least(n, Cap + 1) > Cap THEN [count |-> Cap, isExact |-> FALSE]
          ELSE [count |-> Least(n, Cap + 1), isExact |-> TRUE]
    BY DEF Count
  <1> HIDE DEF found, n
  <1>4. QED
    BY <1>2, <1>3, CapAssumption DEF Least, n, found

--------------------------------------------------------------------------------
(* What requests carry, and what of it is stored *)

\* The values a step leaves in a request: those it had, none, or those of a body.
Carried(t) ==
  \/ req'[t].values \in {req[t].values, NoAnswers}
  \/ \E body \in DOMAIN Bodies, category \in Everywhere, region \in Regions :
       req'[t].values = Validate(CandidateForm, category, Bodies[body],
                                 [region_id |-> region], Today).values

\* Only a PATCH changes what is answered, and stores what it carries.
LEMMA CarriedAlong ==
  ASSUME IInv, [Next]_vars
  PROVE  /\ \A t \in Txns : Carried(t)
         /\ \/ UNCHANGED <<answers, occupation>>
            \/ \E t \in Txns :
                 /\ req[t].op = "patch"
                 /\ answers' = ApplyFields(answers, req[t].category, req[t].values)
                 /\ occupation' = WriteOccupations(occupation, req[t].values)
  <1> DEFINE Stored ==
        \/ UNCHANGED <<answers, occupation>>
        \/ \E t \in Txns :
             /\ req[t].op = "patch"
             /\ answers' = ApplyFields(answers, req[t].category, req[t].values)
             /\ occupation' = WriteOccupations(occupation, req[t].values)
             Done == (\A u \in Txns : Carried(u)) /\ Stored
  <1> USE DEF Carried
  <1>1. DOMAIN req = Txns /\ \A u \in Txns : DOMAIN req[u] = DOMAIN NoRequest
    BY DEF IInv, RequestOK
  <1>2. ASSUME NEW t \in Txns, NEW r, req' = [req EXCEPT ![t] = r], Stored,
               \/ r.values \in {req[t].values, NoAnswers}
               \/ \E body \in DOMAIN Bodies, category \in Everywhere, region \in Regions :
                    r.values = Validate(CandidateForm, category, Bodies[body],
                                        [region_id |-> region], Today).values
        PROVE  Done
    <2>1. \A u \in Txns \ {t} : req'[u] = req[u]
      BY <1>1, <1>2
    <2>2. req'[t] = r
      BY <1>1, <1>2
    <2>3. QED
      BY <1>2, <2>1, <2>2
  <1>3. NoRequest.values = NoAnswers
    BY DEF NoRequest
  <1>4. ASSUME NEW t \in Txns, Refuse(t) PROVE Done
    <2>1. req' = [req EXCEPT ![t] = NoRequest] /\ Stored
      BY <1>4 DEF Refuse, Continue, tables
    <2> HIDE DEF Stored, Carried
    <2>2. QED
      BY <1>2, <1>3, <2>1
  <1>5. ASSUME NEW t \in Txns, NEW body \in DOMAIN Bodies, BeginPatch(t, body)
        PROVE  Done
    <2> DEFINE category == EffectiveCategory("primary_occupation_id", Bodies[body], row.category)
               region   == Given(answers, "region_id", Null)
               result   == Validated[body][category][region]
               r        == [NoRequest EXCEPT !.op = "patch", !.category = category,
                                             !.values = result.values]
    <2>1. category \in Everywhere /\ region \in Regions
      BY CategoryType DEF IInv, TypeOK, TablesOK
    <2>2. result = IF LookupFails(CandidateForm, category, Bodies[body])
                   THEN [values |-> NoAnswers, rules |-> {"uuid"}]
                   ELSE Validate(CandidateForm, category, Bodies[body], [region_id |-> region], Today)
      BY <2>1 DEF Validated
    <2>3. Arrive(t, r) /\ result.rules = {}
      BY <1>5 DEF BeginPatch
    <2> HIDE DEF category, region
    <2>4. result = Validate(CandidateForm, category, Bodies[body], [region_id |-> region], Today)
      BY <2>2, <2>3
    <2> HIDE DEF result
    <2>5. r.values = result.values
      BY DEF NoRequest
    <2> HIDE DEF r
    <2>6. req' = [req EXCEPT ![t] = r] /\ Stored
      BY <2>3 DEF Arrive, tables
    <2> HIDE DEF Stored, Carried
    <2>7. QED
      BY <1>2, <2>1, <2>4, <2>5, <2>6
  <1>6. ASSUME NEW t \in Txns, NEW id \in Records,
               BeginAdd(t, id) \/ BeginUpdate(t, id) \/ BeginRemove(t, id)
        PROVE  Done
    <2>1. PICK op \in {"add", "update", "remove"} :
            Arrive(t, [NoRequest EXCEPT !.op = op, !.record = id])
      BY <1>6 DEF BeginAdd, BeginUpdate, BeginRemove
    <2> DEFINE r == [NoRequest EXCEPT !.op = op, !.record = id]
    <2>2. r.values = NoAnswers
      BY DEF NoRequest
    <2> HIDE DEF r
    <2>3. req' = [req EXCEPT ![t] = r] /\ Stored
      BY <2>1 DEF Arrive, tables, r
    <2> HIDE DEF Stored, Carried
    <2>4. QED
      BY <1>2, <2>2, <2>3
  <1>7. ASSUME NEW t \in Txns, NEW next, NEW r, r.values = req[t].values, Continue(t, next, r), Stored
        PROVE  Done
    <2> HIDE DEF Stored, Carried
    <2>1. QED
      BY <1>2, <1>7 DEF Continue
  <1>8. \A t \in Txns : \A v : /\ [req[t] EXCEPT !.created = v].values = req[t].values
                              /\ [req[t] EXCEPT !.seen = v].values = req[t].values
                              /\ [req[t] EXCEPT !.derived = v].values = req[t].values
    BY <1>1 DEF NoRequest
  <1>9. ASSUME NEW t \in Txns, LockProfile(t) \/ InsertRecord(t)
        PROVE  Done
    <2>1. Continue(t, "load", [req[t] EXCEPT !.created = ~row.exists]) /\ Stored
      BY <1>9 DEF LockProfile, InsertRecord, tables
    <2> HIDE DEF Stored, Carried
    <2>2. QED
      BY <1>7, <1>8, <2>1
  <1>10. ASSUME NEW t \in Txns, TakeRecord(t) PROVE Done
    <2>1. Refuse(t) \/ (Continue(t, "load", req[t]) /\ Stored)
      BY <1>10 DEF TakeRecord, tables
    <2> HIDE DEF Stored, Carried
    <2>2. QED
      BY <1>4, <1>7, <2>1
  <1>11. ASSUME NEW t \in Txns, LoadAggregate(t) \/ ComputeDerived(t)
         PROVE  Done
    <2>1. \E v, next : /\ Stored
                       /\ \/ Continue(t, next, [req[t] EXCEPT !.seen = v])
                          \/ Continue(t, next, [req[t] EXCEPT !.derived = v])
      BY <1>11 DEF LoadAggregate, ComputeDerived, tables
    <2> HIDE DEF Stored, Carried
    <2>2. QED
      BY <1>7, <1>8, <2>1
  <1>12. ASSUME NEW t \in Txns, CommitWrite(t) PROVE Done
    <2>1. req' = [req EXCEPT ![t] = NoRequest] /\ Stored
      BY <1>12 DEF CommitWrite, Continue, OwnAnswers, OwnOccupation
    <2> HIDE DEF Stored, Carried
    <2>2. QED
      BY <1>2, <1>3, <2>1
  <1>13. ASSUME NEW visibility, SetVisibility(visibility)
         PROVE  Done
    BY <1>13 DEF SetVisibility
  <1>14. ASSUME UNCHANGED vars PROVE Done
    BY <1>14 DEF vars, tables
  <1> HIDE DEF Done
  <1>15. Done
    BY <1>4, <1>5, <1>6, <1>9, <1>10, <1>11, <1>12, <1>13, <1>14 DEF Next, CheckFails, Rollback
  <1>16. QED
    BY <1>15 DEF Done

--------------------------------------------------------------------------------
(* The pay a search orders by *)

\* What the validator makes of an expected pay starts from a number, or from none.
LEMMA ParsedPay ==
  ASSUME NEW category, NEW body, NEW stored, NEW today, BodyOK(body)
  PROVE  PayOK(Validate(CandidateForm, category, body, stored, today).values)
  <1> DEFINE code   == "salary"
             fields == DOMAIN body \cap FieldsFor(CandidateForm, category)
             parsed == [c \in fields |-> ParseField(CandidateForm[c], body[c], stored, today)]
             values == [c \in {k \in DOMAIN parsed : parsed[k].rules = {}} |-> parsed[c].value]
             field  == CandidateForm[code]
             raw    == body[code]
             result == ParseField(field, raw, stored, today)
  <1>1. Validate(CandidateForm, category, body, stored, today).values = values
    BY DEF Validate, Verdict
  <1>2. ASSUME code \in DOMAIN values
        PROVE  code \in DOMAIN body /\ result.rules = {} /\ values[code] = result.value
    BY <1>2
  <1>3. field.kind = "money"
    BY FormAssumption
  <1> HIDE DEF values, field
  <1>4. ASSUME code \in DOMAIN body, result.rules = {} PROVE result.value.from \in Int \cup {Null}
    <2>1. CASE raw \in {Absent, Blank}
      BY <1>3, <2>1 DEF ParseField, Parsed, EmptyFor, NoPay
    <2>2. CASE raw \notin {Absent, Blank}
      <3>1. result = ParseMoney(field, raw)
        BY <1>3, <2>2 DEF ParseField
      <3>2. raw.is = "object"
        BY <1>4, <3>1 DEF ParseMoney, Broken
      <3> DEFINE from == Amount(At(raw, "from"))
      <3>3. result.value.from = from
        BY <1>4, <3>1, <3>2 DEF ParseMoney, Unless, Parsed, Broken
      <3>4. At(raw, "from").is = "number" => At(raw, "from").value \in Int
        BY <1>4, <3>2 DEF At, BodyOK, RawOK, PartsOK, PlainOK, Range, Absent
      <3>5. QED
        BY <3>3, <3>4 DEF Amount
    <2>3. QED
      BY <2>1, <2>2
  <1>5. QED
    BY <1>1, <1>2, <1>4 DEF PayOK

\* A PATCH stores the pay it states, and keeps the one it does not.
LEMMA AppliedPay ==
  ASSUME NEW category, NEW values, NEW stored, PayOK(values), PayOK(stored)
  PROVE  PayOK(ApplyFields(stored, category, values))
  BY DEF PayOK, ApplyFields, Written

\* Where nothing is answered there is no pay to compare.
LEMMA NoAnswersPay ==
  PayOK(NoAnswers) /\ PayOK(NoRequest.values)
  BY DEF PayOK, NoAnswers, NoRequest

LEMMA PaysInit ==
  ASSUME NEW full, BodyOK(full), NEW record \in Records, InitWith(full, record)
  PROVE  PaysOK
  <1>1. \A t \in Txns : PayOK(req[t].values)
    BY NoAnswersPay DEF InitWith
  <1>2. PayOK(answers)
    BY NoAnswersPay, ParsedPay, AppliedPay DEF InitWith
  <1>3. QED
    BY <1>1, <1>2 DEF PaysOK

\* What a step stores of the pay, and what it leaves in a request, is in order too.
LEMMA PaysNext ==
  ASSUME IInv, PaysOK, [Next]_vars
  PROVE  PaysOK'
  <1>1. PayOK(answers')
    <2>1. CASE UNCHANGED <<answers, occupation>>
      BY <2>1 DEF PaysOK
    <2>2. ASSUME NEW t \in Txns, answers' = ApplyFields(answers, req[t].category, req[t].values)
          PROVE  PayOK(answers')
      BY <2>2, AppliedPay DEF PaysOK
    <2>3. QED
      BY <2>1, <2>2, CarriedAlong
  <1>2. ASSUME NEW t \in Txns PROVE PayOK(req'[t].values)
    <2>1. Carried(t)
      BY CarriedAlong
    <2>2. PayOK(NoAnswers)
      BY NoAnswersPay
    <2>3. QED
      BY <2>1, <2>2, ParsedPay, BodiesAssumption DEF Carried, PaysOK
  <1>3. QED
    BY <1>1, <1>2 DEF PaysOK

--------------------------------------------------------------------------------
(* The theorems *)

\* What the invariant says, at rest.
LEMMA GateFromInv ==
  IInv => GateHolds
  <1> SUFFICES ASSUME IInv PROVE GateHolds
    OBVIOUS
  <1>1. DerivedIsTrue
    BY DEF IInv, TablesOK, DerivedIsTrue
  <1>2. PatchSeesItsCommit
    BY DEF IInv, OvertakenOK, PatchSeesItsCommit
  <1>3. QED
    BY <1>1, <1>2, GateIsRequired DEF GateHolds

\* From empty tables or any accepted profile, the derived columns are those of the
\* rows unless a history write was overtaken, no PATCH ever is, and the gate is the
\* required fields (candidates.service.ts:94-123, completeness.ts:5-20).
THEOREM GateAlwaysHolds ==
  ASSUME NEW full, NEW record \in Records
  PROVE  InitWith(full, record) /\ [][Next]_vars => []GateHolds
  <1>1. InitWith(full, record) => IInv
    BY InitInv
  <1>2. QED
    BY <1>1, NextInv, GateFromInv, PTL

\* The form's minimum age and the age filters of the search count the same age, for
\* every day and every date of birth (field-validator.ts:293, search-filters.ts).
THEOREM AgesAlwaysAgree ==
  ASSUME NEW full, NEW record \in Records
  PROVE  InitWith(full, record) /\ [][Next]_vars => []AgesAgree
  BY AgesAgreeAlways, PTL

\* What a value is after a PATCH, of what it was and what the body says.
LEMMA WrittenValue ==
  ASSUME NEW category, NEW values, NEW stored, NEW job, ValuesOK(category, values),
         NEW code \in DOMAIN CandidateForm
  PROVE  LET after  == ValueOf(code, ApplyFields(stored, category, values),
                               WriteOccupations(job, values))
             before == ValueOf(code, stored, job)
             wanted == IF code \in DOMAIN values THEN Written(code, values[code]) ELSE before
             primary == WriteOccupations(job, values).primary
         IN CASE code = "occupation_level_id" ->
                   after = IF primary = Null THEN Null ELSE wanted
              [] code = "additional_occupation_ids" -> after = wanted \ {primary}
              [] OTHER -> after = wanted
  <1>1. CASE code \in OccupationCodes
    BY <1>1 DEF ValueOf, WriteOccupations, Written, Given, OccupationCodes
  <1>2. CASE code \notin OccupationCodes
    <2> DEFINE written == (DOMAIN values \cap FieldsFor(CandidateForm, category)) \ OccupationCodes
               given   == {c \in written : Answered(CandidateForm[c], values[c])}
               now     == ApplyFields(stored, category, values)
               empty   == EmptyFor(CandidateForm[code])
    <2>1. /\ DOMAIN now = (DOMAIN stored \ written) \cup given
          /\ \A c \in DOMAIN now :
               now[c] = IF c \in given THEN Written(c, values[c]) ELSE stored[c]
      BY DEF ApplyFields
    <2>2. /\ ValueOf(code, now, WriteOccupations(job, values)) = Given(now, code, empty)
          /\ ValueOf(code, stored, job) = Given(stored, code, empty)
      BY <1>2 DEF ValueOf, OccupationCodes
    <2>3. code \in DOMAIN values <=> code \in written
      BY <1>2 DEF ValuesOK
    <2>4. CASE code \in given
      BY <1>2, <2>1, <2>2, <2>4 DEF Given, OccupationCodes
    <2>5. CASE code \in written \ given
      <3>1. values[code] = empty
        BY <2>5 DEF Answered
      <3>2. Written(code, empty) = empty
        BY FormAssumption DEF Written, WriteLanguages, EmptyFor
      <3>3. Given(now, code, empty) = empty
        BY <2>1, <2>5 DEF Given
      <3>4. QED
        BY <1>2, <2>2, <2>5, <3>1, <3>2, <3>3 DEF OccupationCodes
    <2>6. CASE code \notin written
      <3>1. Given(now, code, empty) = Given(stored, code, empty)
        BY <2>1, <2>6 DEF Given
      <3>2. QED
        BY <1>2, <2>2, <2>3, <2>6, <3>1 DEF OccupationCodes
    <2>7. QED
      BY <2>4, <2>5, <2>6
  <1>3. QED
    BY <1>1, <1>2

\* A PATCH stores the fields of its body and no other, whatever committed since it
\* was validated (profile-writer.ts:15-23, 84-92).
THEOREM PatchAlwaysTouchesItsFields ==
  ASSUME NEW full, NEW record \in Records
  PROVE  InitWith(full, record) /\ [][Next]_vars => PatchTouchesItsFields
  <1> DEFINE Touches ==
        \A t \in Txns : req[t].op = "patch" /\ CommitWrite(t) =>
          \A code \in DOMAIN CandidateForm :
            LET before == ValueOf(code, answers, occupation)
                after  == ValueOf(code, answers', occupation')
                wanted == IF code \in DOMAIN req[t].values
                          THEN Written(code, req[t].values[code]) ELSE before
            IN CASE code = "occupation_level_id" ->
                      after = IF occupation'.primary = Null THEN Null ELSE wanted
                 [] code = "additional_occupation_ids" -> after = wanted \ {occupation'.primary}
                 [] OTHER -> after = wanted
  <1>1. InitWith(full, record) => IInv
    BY InitInv
  <1>2. IInv => [Touches]_vars
    <2> SUFFICES ASSUME IInv, NEW t \in Txns, req[t].op = "patch", CommitWrite(t),
                        NEW code \in DOMAIN CandidateForm
                 PROVE  LET before == ValueOf(code, answers, occupation)
                            after  == ValueOf(code, answers', occupation')
                            wanted == IF code \in DOMAIN req[t].values
                                      THEN Written(code, req[t].values[code]) ELSE before
                        IN CASE code = "occupation_level_id" ->
                                  after = IF occupation'.primary = Null THEN Null ELSE wanted
                             [] code = "additional_occupation_ids" ->
                                  after = wanted \ {occupation'.primary}
                             [] OTHER -> after = wanted
      OBVIOUS
    <2>1. ValuesOK(req[t].category, req[t].values)
      BY DEF IInv, RequestOK
    <2>2. /\ answers' = ApplyFields(answers, req[t].category, req[t].values)
          /\ occupation' = WriteOccupations(occupation, req[t].values)
      BY DEF CommitWrite, OwnAnswers, OwnOccupation
    <2>3. QED
      BY <2>1, <2>2, WrittenValue
  <1>3. QED
    BY <1>1, <1>2, NextInv, PTL DEF PatchTouchesItsFields

\* Whatever a body that is accepted has said of the pay, under every sort any two
\* candidates are in order, so that no page repeats or loses one, and the count is
\* that of the list (search-query.ts:594-614, candidate-search.service.ts:201-230).
THEOREM PagesAlwaysAddUp ==
  ASSUME NEW full, BodyOK(full), NEW record \in Records
  PROVE  InitWith(full, record) /\ [][Next]_vars => []PagesAddUp
  <1>1. InitWith(full, record) => IInv /\ PaysOK
    BY InitInv, PaysInit
  <1>2. IInv /\ PaysOK /\ [Next]_vars => IInv' /\ PaysOK'
    BY NextInv, PaysNext
  <1>3. PaysOK => PagesAddUp
    BY PagesOrdered, CountIsHonestAlways DEF PagesAddUp, PaysOK
  <1>4. QED
    BY <1>1, <1>2, <1>3, PTL

--------------------------------------------------------------------------------
(* Answers survive *)

\* A finite set as a sequence: each element once.
LEMMA EachOnce ==
  ASSUME NEW S, IsFiniteSet(S), NEW s, s = SetToSeq(S)
  PROVE  /\ s \in [1..Cardinality(S) -> S] /\ Cardinality(S) \in Nat
         /\ ToSet(s) = S
         /\ \A i, j \in DOMAIN s : s[i] = s[j] => i = j
  <1> DEFINE n == Cardinality(S)
  <1>1. n \in Nat /\ ExistsBijection(1..n, S)
    BY FS_CardinalityType
  <1>2. \E f \in [1..n -> S] : IsInjective(f)
    BY <1>1 DEF ExistsBijection, Bijection, Injection, IsInjective
  <1>3. s \in [1..n -> S] /\ IsInjective(s)
    BY <1>2 DEF SetToSeq
  <1>4. \A i, j \in DOMAIN s : s[i] = s[j] => i = j
    BY <1>3 DEF IsInjective
  <1>5. s \in Injection(1..n, S)
    BY <1>3 DEF Injection
  <1>6. Cardinality(1..n) = n
    BY <1>1, FS_Interval
  <1>7. s \in Surjection(1..n, S)
    BY <1>5, <1>6, FS_Injection
  <1>8. ToSet(s) = S
    BY <1>3, <1>7 DEF Surjection, ToSet
  <1>9. QED
    BY <1>1, <1>3, <1>4, <1>8

\* Of two checks none is the first to fail when both hold.
LEMMA FirstOfTwo ==
  ASSUME NEW a, NEW b
  PROVE  FirstOf(<<a, b>>) = {} <=> (a.holds /\ b.holds)
  <1> DEFINE s == <<a, b>>
             first == {n \in DOMAIN s : ~s[n].holds /\ \A m \in 1..(n - 1) : s[m].holds}
  <1>1. DOMAIN s = 1..2 /\ s[1] = a /\ s[2] = b
    OBVIOUS
  <1> HIDE DEF s
  <1>2. first = {} <=> (a.holds /\ b.holds)
    <2>1. ~a.holds => 1 \in first
      BY <1>1
    <2>2. a.holds /\ ~b.holds => 2 \in first
      BY <1>1
    <2>3. a.holds /\ b.holds => first = {}
      BY <1>1
    <2>4. QED
      BY <2>1, <2>2, <2>3
  <1>3. FirstOf(s) = {s[i].rule : i \in first}
    BY DEF FirstOf
  <1> HIDE DEF first
  <1>4. QED
    BY <1>2, <1>3 DEF s

\* Kinds whose values are neither sets nor a pay.
Scalars == Kinds \ {"multi", "leveled", "money"}

\* A pay the rules accept.
PayHolds(field, pay) ==
  /\ pay = [from |-> pay.from, to |-> pay.to, period |-> pay.period, negotiable |-> pay.negotiable]
  /\ pay.from \in {Null} \cup Int /\ pay.to \in {Null} \cup Int /\ pay.negotiable \in BOOLEAN
  /\ pay.period # Null => Usable(Id(pay.period), field.type, Null)
  /\ \A a \in {pay.from, pay.to} \ {Null} : Within(a, field)
  /\ InOrder(field, pay.from, pay.to) /\ NegotiableAlone(pay.negotiable, pay.from, pay.to)

\* It is accepted again as it is.
LEMMA PayReadsBack ==
  ASSUME NEW field, field.kind = "money", NEW pay, PayHolds(field, pay), NEW stored, NEW today
  PROVE  ParseField(field, RawOf(field, pay), stored, today) = Parsed(pay)
  <1> DEFINE raw == RawPay(pay)
  <1>1. RawOf(field, pay) = raw
    BY DEF RawOf
  <1>2. raw.is = "object" /\ DOMAIN raw.at = {"from", "to", "periodId", "isNegotiable"}
    BY DEF RawPay, Object
  <1>3. /\ At(raw, "from") = IF pay.from = Null THEN Absent ELSE Number(pay.from)
        /\ At(raw, "to") = IF pay.to = Null THEN Absent ELSE Number(pay.to)
        /\ At(raw, "periodId") = IF pay.period = Null THEN Absent ELSE Id(pay.period)
        /\ At(raw, "isNegotiable") = Truth(pay.negotiable)
    BY DEF RawPay, Object, At
  <1>4. ParseField(field, raw, stored, today) = ParseMoney(field, raw)
    <2>1. raw \notin {Absent, Blank}
      BY <1>2 DEF Absent, Blank, Words
    <2> HIDE DEF raw
    <2>2. QED
      BY <2>1 DEF ParseField
  <1> HIDE DEF raw
  <1>5. Amount(At(raw, "from")) = pay.from /\ Amount(At(raw, "to")) = pay.to
    BY <1>3 DEF Amount, Absent, Number
  <1>6. (At(raw, "isNegotiable") = Truth(TRUE)) = pay.negotiable
    BY <1>3 DEF Truth, PayHolds
  <1>7. (At(raw, "periodId").is = "text") <=> pay.period # Null
    BY <1>3 DEF Absent, Id, Words
  <1>8. pay.period # Null => At(raw, "periodId").id = pay.period
    BY <1>3 DEF Id, Words
  <1>9. MoneyRules(field, pay.from, pay.to, raw) = {}
    <2>1. \A a \in {"from", "to"} : At(raw, a).is \in {"absent", "number"}
      BY <1>3 DEF Absent, Number
    <2>2. At(raw, "periodId").is = "text" => Usable(At(raw, "periodId"), field.type, Null)
      BY <1>3, <1>7 DEF PayHolds
    <2>3. QED
      BY <1>6, <2>1, <2>2 DEF MoneyRules, When, PayHolds
  <1>10. QED
    BY <1>1, <1>2, <1>4, <1>5, <1>6, <1>7, <1>8, <1>9 DEF ParseMoney, Unless, PayHolds

--------------------------------------------------------------------------------
(* Items *)

\* No more of them are too many of none.
LEMMA NotTooMany ==
  ASSUME NEW field, FieldOK(field), NEW S, NEW T, IsFiniteSet(S), IsFiniteSet(T),
         Cardinality(T) <= Cardinality(S), TooMany(field, S) = {}
  PROVE  TooMany(field, T) = {}
  <1>1. Cardinality(S) \in Nat /\ Cardinality(T) \in Nat
    BY FS_CardinalityType
  <1>2. field.max \in {Null} \cup Int
    BY DEF FieldOK
  <1>3. field.max # Null => ~(Cardinality(S) > field.max)
    BY DEF TooMany, When
  <1>4. field.max # Null => ~(Cardinality(T) > field.max)
    BY <1>1, <1>2, <1>3
  <1>5. QED
    BY <1>4 DEF TooMany, When

\* A list of options in order reads back.
LEMMA ItemsReadBack ==
  ASSUME NEW field, FieldOK(field), field.kind = "multi", NEW items, ItemsOK(field, items),
         NEW stored, NEW today
  PROVE  ParseField(field, RawOf(field, items), stored, today) = Parsed(items)
  <1> DEFINE raws == {Id(i) : i \in items}
             raw  == List(SetToSeq(raws))
  <1>1. RawOf(field, items) = raw
    BY DEF RawOf
  <1>2. raw.is = "list" /\ raw.items = SetToSeq(raws)
    BY DEF List
  <1>3. IsFiniteSet(raws) /\ Cardinality(raws) <= Cardinality(items)
    <2> DEFINE fun == [i \in items |-> Id(i)]
    <2>1. DOMAIN fun = items /\ raws = {fun[i] : i \in DOMAIN fun}
      OBVIOUS
    <2> HIDE DEF fun, raws
    <2>2. QED
      BY <2>1, FewValues DEF ItemsOK
  <1> HIDE DEF raw
  <1>4. ParseField(field, raw, stored, today) = ParseMulti(field, raw)
    BY <1>2 DEF ParseField, Absent, Blank, Words
  <1>5. ToSet(raw.items) = raws
    BY <1>2, <1>3, EachOnce
  <1>6. TooMany(field, raws) = {}
    BY <1>3, NotTooMany DEF ItemsOK
  <1>7. \A r \in raws : Usable(r, field.type, field.group)
    BY DEF ItemsOK
  <1>8. {r.id : r \in raws} = items
    <2>1. \A i : Id(i).id = i
      BY DEF Id, Words
    <2>2. QED
      BY <2>1
  <1> HIDE DEF raws
  <1>9. QED
    BY <1>1, <1>2, <1>4, <1>5, <1>6, <1>7, <1>8 DEF ParseMulti, Unless

\* A list's values are finitely many.
LEMMA ListedAreFinite ==
  ASSUME NEW s, s \in Seq(ToSet(s))
  PROVE  IsFiniteSet(ToSet(s)) /\ IsFiniteSet(DOMAIN s) /\ DOMAIN s = 1..Len(s) /\ Len(s) \in Nat
  <1>1. Len(s) \in Nat /\ DOMAIN s = 1..Len(s)
    OBVIOUS
  <1>2. IsFiniteSet(1..Len(s))
    BY <1>1, FS_Interval
  <1>3. IsFiniteSet({s[i] : i \in DOMAIN s})
    BY <1>1, <1>2, FewValues
  <1>4. QED
    BY <1>1, <1>2, <1>3 DEF ToSet

\* A list of options the validator accepts is in order.
LEMMA AcceptedItems ==
  ASSUME NEW field, FieldOK(field), field.kind = "multi", NEW raw, RawOK(raw),
         NEW stored, NEW today, ParseField(field, raw, stored, today).rules = {}
  PROVE  ItemsOK(field, ParseField(field, raw, stored, today).value)
  <1>1. CASE raw \in {Absent, Blank}
    <2>1. ParseField(field, raw, stored, today).value = {}
      BY <1>1 DEF ParseField, EmptyFor, Parsed
    <2>2. Cardinality({}) = 0 /\ IsFiniteSet({})
      BY FS_EmptySet
    <2>3. TooMany(field, {}) = {}
      <3>1. field.max # Null => ~(0 > field.max)
        BY DEF FieldOK
      <3>2. QED
        BY <2>2, <3>1 DEF TooMany, When
    <2>4. QED
      BY <2>1, <2>2, <2>3 DEF ItemsOK
  <1>2. CASE raw \notin {Absent, Blank}
    <2> DEFINE given == ToSet(raw.items)
               bad   == {g \in given : ~Usable(g, field.type, field.group)}
               rules == {IF IsUuid(r) THEN "dictionaryItem" ELSE "isUuid" : r \in bad}
               items == {r.id : r \in given}
    <2>1. ParseField(field, raw, stored, today) = ParseMulti(field, raw)
      BY <1>2 DEF ParseField
    <2>2. raw.is = "list"
      BY <2>1 DEF ParseMulti, Broken
    <2>3. ParseMulti(field, raw) = Unless(rules \cup TooMany(field, given), items)
      BY <2>2 DEF ParseMulti
    <2> HIDE DEF items
    <2>4. rules = {} /\ TooMany(field, given) = {}
      BY <2>1, <2>3 DEF Unless, Parsed, Broken
    <2>5. \A g \in given : Usable(g, field.type, field.group)
      BY <2>4
    <2>6. ParseField(field, raw, stored, today).value = items
      BY <2>1, <2>3, <2>4 DEF Unless, Parsed
    <2>7. IsFiniteSet(given)
      BY <2>2, ListedAreFinite DEF RawOK
    <2>8. IsFiniteSet(items) /\ Cardinality(items) <= Cardinality(given)
      <3> DEFINE fun == [r \in given |-> r.id]
      <3>1. DOMAIN fun = given /\ items = {fun[r] : r \in DOMAIN fun}
        BY DEF items
      <3> HIDE DEF fun, given
      <3>2. QED
        BY <2>7, <3>1, FewValues
    <2>9. TooMany(field, items) = {}
      BY <2>4, <2>7, <2>8, NotTooMany
    <2>10. \A i \in items : Usable(Id(i), field.type, field.group)
      <3>1. \A g \in given : Usable(Id(g.id), field.type, field.group)
        BY <2>5 DEF Usable, IsUuid, Id, Words
      <3>2. QED
        BY <3>1 DEF items
    <2>11. QED
      BY <2>6, <2>8, <2>9, <2>10 DEF ItemsOK
  <1>3. QED
    BY <1>1, <1>2

--------------------------------------------------------------------------------
(* Rows *)

\* The entry a row is read back as makes that row, and breaks no rule.
LEMMA RowReadsBack ==
  ASSUME NEW field, FieldOK(field), NEW r, RowOK(field, r)
  PROVE  /\ RowOf(field, RawRow(field, r)) = r
         /\ EntryRules(field, RawRow(field, r)) = {}
         /\ ExtraRules(field, RawRow(field, r)) = {}
         /\ At(RawRow(field, r), "itemId").id = r.item
  <1> DEFINE entry == RawRow(field, r)
             codes == DOMAIN field.extras
  <1>1. /\ At(entry, "itemId") = Id(r.item) /\ At(entry, "levelId") = Id(r.level)
        /\ entry.is = "object"
        /\ \A e \in codes : At(entry, e) =
             IF r.extra[e] = Null THEN Absent
             ELSE IF field.extras[e].is = "bool" THEN Truth(r.extra[e]) ELSE r.extra[e]
    BY DEF RawRow, Object, At, FieldOK
  <1> HIDE DEF entry
  <1>2. Id(r.item).id = r.item /\ Id(r.level).id = r.level
    BY DEF Id, Words
  <1>3. EntryRules(field, entry) = {}
    BY <1>1 DEF EntryRules, RowOK, Usable
  <1>4. \A e \in codes :
          LET raw == At(entry, e) IN
          CASE r.extra[e] = Null -> raw = Absent
            [] r.extra[e] # Null /\ field.extras[e].is = "bool" ->
                 raw = Truth(r.extra[e]) /\ r.extra[e] \in BOOLEAN
            [] OTHER -> /\ raw = r.extra[e] /\ field.extras[e].is = "text" /\ raw.is = "text"
                        /\ raw.length # 0 /\ ~(raw.length > field.extras[e].max)
    BY <1>1 DEF RowOK, ExtraOK, FieldOK
  <1>5. ExtraRules(field, entry) = {}
    <2>1. ASSUME NEW e \in codes, At(entry, e) \notin {Absent, Blank}
          PROVE  /\ At(entry, e).is = field.extras[e].is
                 /\ ~(At(entry, e).is = "text" /\ At(entry, e).length > field.extras[e].max)
      BY <1>4, <2>1 DEF Truth
    <2>2. QED
      BY <2>1 DEF ExtraRules, When
  <1>6. Extras(field, entry) = [e \in codes |-> r.extra[e]]
    <2>1. ASSUME NEW e \in codes
          PROVE  (CASE At(entry, e).is = "bool" -> At(entry, e).value
                    [] At(entry, e).is = "text" /\ At(entry, e).length # 0 -> At(entry, e)
                    [] OTHER -> Null) = r.extra[e]
      <3>1. CASE r.extra[e] = Null
        BY <1>4, <3>1 DEF Absent
      <3>2. CASE r.extra[e] # Null /\ field.extras[e].is = "bool"
        BY <1>4, <3>2 DEF Truth
      <3>3. CASE r.extra[e] # Null /\ field.extras[e].is # "bool"
        BY <1>4, <3>3
      <3>4. QED
        BY <3>1, <3>2, <3>3
    <2>2. QED
      BY <2>1 DEF Extras
  <1>7. RowOf(field, entry) = r
    BY <1>1, <1>2, <1>6 DEF RowOf, RowOK
  <1>8. QED
    BY <1>1, <1>2, <1>3, <1>5, <1>7 DEF entry

\* Rows are accepted again as they are: none of their entries repeats an item.
LEMMA RowsReadBack ==
  ASSUME NEW field, FieldOK(field), field.kind = "leveled", NEW rows, RowsOK(field, rows),
         NEW stored, NEW today
  PROVE  ParseField(field, RawOf(field, rows), stored, today) = Parsed(rows)
  <1> DEFINE raws    == {RawRow(field, r) : r \in rows}
             entries == SetToSeq(raws)
             raw     == List(entries)
  <1>1. RawOf(field, rows) = raw /\ raw.is = "list" /\ raw.items = entries
    BY DEF RawOf, List
  <1>2. IsFiniteSet(raws)
    <2> DEFINE fun == [r \in rows |-> RawRow(field, r)]
    <2>1. DOMAIN fun = rows /\ raws = {fun[r] : r \in DOMAIN fun}
      OBVIOUS
    <2> HIDE DEF fun, raws
    <2>2. QED
      BY <2>1, FewValues DEF RowsOK
  <1>3. /\ \A i \in DOMAIN entries : entries[i] \in raws
        /\ \A x \in raws : \E i \in DOMAIN entries : entries[i] = x
        /\ \A i, j \in DOMAIN entries : entries[i] = entries[j] => i = j
        /\ DOMAIN entries \subseteq Nat
    <2> HIDE DEF raws
    <2>1. /\ entries \in [1..Cardinality(raws) -> raws] /\ Cardinality(raws) \in Nat
          /\ ToSet(entries) = raws
          /\ \A i, j \in DOMAIN entries : entries[i] = entries[j] => i = j
      BY <1>2, EachOnce
    <2>2. QED
      BY <2>1 DEF ToSet
  <1>4. ParseField(field, raw, stored, today) = Taken(field, Rows(field, entries))
    <2>1. raw \notin {Absent, Blank}
      BY <1>1 DEF Absent, Blank, Words
    <2> HIDE DEF raw, entries
    <2>2. QED
      BY <1>1, <2>1 DEF ParseField, ParseLeveled
  <1> HIDE DEF raw, entries
  <1>5. \A i \in DOMAIN entries :
          \E r \in rows : /\ entries[i] = RawRow(field, r)
                         /\ RowOf(field, entries[i]) = r /\ EntryRules(field, entries[i]) = {}
                         /\ ExtraRules(field, entries[i]) = {}
                         /\ At(entries[i], "itemId").id = r.item
    BY <1>3, RowReadsBack DEF RowsOK
  <1>6. \A i, j \in DOMAIN entries :
          At(entries[i], "itemId").id = At(entries[j], "itemId").id => i = j
    BY <1>3, <1>5 DEF RowsOK
  <1> DEFINE sound == {i \in DOMAIN entries : EntryRules(field, entries[i]) = {}}
             fresh == {i \in DOMAIN entries :
                         ~\E j \in sound : j < i /\ SameItem(entries[i], entries[j])}
  <1>7. sound = DOMAIN entries
    BY <1>5
  <1>8. fresh = DOMAIN entries
    <2>1. ASSUME NEW i \in DOMAIN entries, NEW j \in DOMAIN entries, j < i,
                 SameItem(entries[i], entries[j])
          PROVE  FALSE
      <3>1. i = j
        BY <1>6, <2>1 DEF SameItem
      <3>2. i \in Nat
        BY <1>3
      <3>3. QED
        BY <2>1, <3>1, <3>2
    <2>2. QED
      BY <1>7, <2>1
  <1>9. Rows(field, entries) =
          [rows  |-> {RowOf(field, entries[i]) : i \in sound \cap fresh},
           rules |-> (UNION {EntryRules(field, entries[i]) : i \in fresh}) \cup
                     (UNION {ExtraRules(field, entries[i]) : i \in sound \cap fresh})]
    BY DEF Rows
  <1> HIDE DEF sound, fresh
  <1>10. Rows(field, entries).rules = {}
    BY <1>5, <1>7, <1>8, <1>9
  <1>11. Rows(field, entries).rows = rows
    <2>1. Rows(field, entries).rows = {RowOf(field, entries[i]) : i \in DOMAIN entries}
      BY <1>7, <1>8, <1>9
    <2>2. \A r \in rows : \E i \in DOMAIN entries : RowOf(field, entries[i]) = r
      BY <1>3, RowReadsBack DEF RowsOK
    <2>3. \A i \in DOMAIN entries : RowOf(field, entries[i]) \in rows
      BY <1>5
    <2>4. QED
      BY <2>1, <2>2, <2>3
  <1>12. QED
    BY <1>1, <1>4, <1>10, <1>11 DEF Taken, Unless, RowsOK

\* No row at all is fine.
LEMMA NoRowsOK ==
  ASSUME NEW field, FieldOK(field)
  PROVE  IsFiniteSet({}) /\ TooMany(field, {}) = {}
  <1>1. Cardinality({}) = 0 /\ IsFiniteSet({})
    BY FS_EmptySet
  <1>2. field.max # Null => ~(0 > field.max)
    BY DEF FieldOK
  <1>3. QED
    BY <1>1, <1>2 DEF TooMany, When

\* An entry that breaks no rule makes a row that is in order.
LEMMA EntryMakesRow ==
  ASSUME NEW field, FieldOK(field), NEW entry, PartsOK(entry),
         EntryRules(field, entry) = {}, ExtraRules(field, entry) = {}
  PROVE  RowOK(field, RowOf(field, entry)) /\ RowOf(field, entry).item = At(entry, "itemId").id
  <1> DEFINE codes == DOMAIN field.extras
             r     == RowOf(field, entry)
  <1>1. /\ entry.is = "object"
        /\ Usable(At(entry, "itemId"), field.type, field.group)
        /\ LevelUsable(field, At(entry, "levelId"))
    BY DEF EntryRules
  <1>2. /\ r.item = At(entry, "itemId").id /\ r.level = At(entry, "levelId").id
        /\ r.rank = Items[r.level].rank /\ r.extra = Extras(field, entry)
        /\ r = [item |-> r.item, level |-> r.level, rank |-> r.rank, extra |-> r.extra]
    BY DEF RowOf
  <1>3. \A raw, type, group : Usable(raw, type, group) => Usable(Id(raw.id), type, group)
    BY DEF Usable, IsUuid, Id, Words
  <1>4. \A raw : Id(raw.id).id = raw.id
    BY DEF Id, Words
  <1>5. LevelUsable(field, Id(r.level)) /\ Usable(Id(r.item), field.type, field.group)
    BY <1>1, <1>2, <1>3, <1>4 DEF LevelUsable
  <1>6. \A e \in codes : PlainOK(At(entry, e)) \/ At(entry, e) = Absent
    BY <1>1 DEF PartsOK, At, Range
  <1>7. \A e \in codes : At(entry, e) \notin {Absent, Blank} =>
          /\ At(entry, e).is = field.extras[e].is
          /\ ~(At(entry, e).is = "text" /\ At(entry, e).length > field.extras[e].max)
    BY DEF ExtraRules, When
  <1>8. ASSUME NEW e \in codes PROVE ExtraOK(field.extras[e], Extras(field, entry)[e])
    <2> DEFINE raw == At(entry, e)
    <2>1. Extras(field, entry)[e] = CASE raw.is = "bool"                   -> raw.value
                                      [] raw.is = "text" /\ raw.length # 0 -> raw
                                      [] OTHER                             -> Null
      BY DEF Extras
    <2>2. CASE raw = Absent
      BY <2>1, <2>2 DEF Absent, ExtraOK
    <2>3. CASE raw = Blank
      BY <2>1, <2>3 DEF Blank, Words, ExtraOK
    <2>4. CASE raw \notin {Absent, Blank}
      <3>1. raw.is = field.extras[e].is /\ ~(raw.is = "text" /\ raw.length > field.extras[e].max)
        BY <1>7, <2>4
      <3>2. PlainOK(raw)
        BY <1>6, <2>4
      <3> HIDE DEF raw
      <3>3. QED
        BY <2>1, <3>1, <3>2 DEF ExtraOK, PlainOK, FieldOK
    <2>5. QED
      BY <2>2, <2>3, <2>4
  <1>9. Extras(field, entry) = [e \in codes |-> Extras(field, entry)[e]]
    BY DEF Extras
  <1> HIDE DEF r
  <1>10. QED
    BY <1>2, <1>5, <1>8, <1>9 DEF RowOK, r

\* Of the entries that are accepted the first of each item makes a row.
LEMMA AcceptedRows ==
  ASSUME NEW field, FieldOK(field), field.kind = "leveled", NEW raw, RawOK(raw),
         NEW stored, NEW today, ParseField(field, raw, stored, today).rules = {}
  PROVE  RowsOK(field, ParseField(field, raw, stored, today).value)
  <1>1. CASE raw \in {Absent, Blank}
    <2>1. ParseField(field, raw, stored, today).value = {}
      BY <1>1 DEF ParseField, EmptyFor, Parsed
    <2>2. QED
      BY <2>1, NoRowsOK DEF RowsOK
  <1>2. CASE raw \notin {Absent, Blank}
    <2> DEFINE entries == raw.items
               sound == {i \in DOMAIN entries : EntryRules(field, entries[i]) = {}}
               fresh == {i \in DOMAIN entries :
                           ~\E j \in sound : j < i /\ SameItem(entries[i], entries[j])}
               made  == sound \cap fresh
               rows  == {RowOf(field, entries[i]) : i \in made}
               entered == UNION {EntryRules(field, entries[i]) : i \in fresh}
               extras  == {ExtraRules(field, entries[i]) : i \in made}
               rules   == entered \cup (UNION extras)
    <2>1. ParseField(field, raw, stored, today) = ParseLeveled(field, raw)
      BY <1>2 DEF ParseField
    <2>2. raw.is = "list"
      BY <2>1 DEF ParseLeveled, Broken
    <2>3. ParseField(field, raw, stored, today) = Taken(field, Rows(field, entries))
      BY <2>1, <2>2 DEF ParseLeveled
    <2>4. Rows(field, entries) = [rows |-> rows, rules |-> rules]
      BY DEF Rows
    <2> HIDE DEF rows, rules
    <2>5. Taken(field, Rows(field, entries)) = Unless(rules \cup TooMany(field, rows), rows)
      BY <2>4 DEF Taken
    <2>6. rules = {} /\ TooMany(field, rows) = {}
      BY <2>3, <2>5 DEF Unless, Broken
    <2>7. ParseField(field, raw, stored, today).value = rows
      BY <2>3, <2>5, <2>6 DEF Unless, Parsed
    <2>8. IsFiniteSet(DOMAIN entries) /\ DOMAIN entries = 1..Len(entries) /\ Len(entries) \in Nat
      BY <2>2, ListedAreFinite DEF RawOK
    <2>9. IsFiniteSet(rows)
      <3>1. IsFiniteSet(made)
        BY <2>8, FS_Subset
      <3> DEFINE fun == [i \in made |-> RowOf(field, entries[i])]
      <3>2. DOMAIN fun = made /\ rows = {fun[i] : i \in DOMAIN fun}
        BY DEF rows
      <3> HIDE DEF fun, made
      <3>3. QED
        BY <3>1, <3>2, FewValues
    <2>10. \A i \in made : EntryRules(field, entries[i]) = {} /\ ExtraRules(field, entries[i]) = {}
      <3> SUFFICES ASSUME NEW i \in made
                   PROVE  EntryRules(field, entries[i]) = {} /\ ExtraRules(field, entries[i]) = {}
        OBVIOUS
      <3>1. EntryRules(field, entries[i]) = {}
        OBVIOUS
      <3>2. ExtraRules(field, entries[i]) \in extras
        OBVIOUS
      <3> HIDE DEF extras, entered, made, entries
      <3>3. QED
        BY <2>6, <3>1, <3>2 DEF rules
    <2>11. \A i \in made : PartsOK(entries[i])
      BY <2>2 DEF RawOK, ToSet
    <2>12. \A i \in made : /\ RowOK(field, RowOf(field, entries[i]))
                          /\ RowOf(field, entries[i]).item = At(entries[i], "itemId").id
      BY <2>10, <2>11, EntryMakesRow
    <2>13. ASSUME NEW i \in made, NEW j \in made,
                  At(entries[i], "itemId").id = At(entries[j], "itemId").id
           PROVE  i = j
      <3>1. SameItem(entries[i], entries[j]) /\ SameItem(entries[j], entries[i])
        BY <2>10, <2>13 DEF SameItem, EntryRules
      <3>2. ~(j < i) /\ ~(i < j)
        BY <3>1
      <3>3. i \in Int /\ j \in Int
        BY <2>8
      <3>4. QED
        BY <3>2, <3>3
    <2>14. \A r, q \in rows : r.item = q.item => r = q
      <3> HIDE DEF made, entries
      <3>1. QED
        BY <2>12, <2>13 DEF rows
    <2>15. \A r \in rows : RowOK(field, r)
      <3> HIDE DEF made, entries
      <3>1. QED
        BY <2>12 DEF rows
    <2>16. QED
      BY <2>6, <2>7, <2>9, <2>14, <2>15 DEF RowsOK
  <1>3. QED
    BY <1>1, <1>2

\* So do rows of languages, their certificates stated.
LEMMA WrittenRows ==
  ASSUME NEW rows, RowsOK(CandidateForm["languages"], rows)
  PROVE  RowsOK(CandidateForm["languages"], WriteLanguages(rows))
  <1> DEFINE field == CandidateForm["languages"]
             stated(r) == [r EXCEPT !.extra.has_certificate = @ = TRUE]
             codes == DOMAIN field.extras
  <1>1. /\ FieldOK(field) /\ "has_certificate" \in codes
        /\ field.extras["has_certificate"].is = "bool"
    BY FormAssumption DEF FormOK
  <1> HIDE DEF field
  <1>2. ASSUME NEW r \in rows
        PROVE  RowOK(field, stated(r)) /\ stated(r).item = r.item
    <2>1. /\ r = [item |-> r.item, level |-> r.level, rank |-> Items[r.level].rank,
                  extra |-> [e \in codes |-> r.extra[e]]]
          /\ Usable(Id(r.item), field.type, field.group) /\ LevelUsable(field, Id(r.level))
          /\ \A e \in codes : ExtraOK(field.extras[e], r.extra[e])
      BY DEF RowsOK, RowOK, field
    <2> DEFINE extra == [e \in codes |-> r.extra[e]]
               now   == [extra EXCEPT !.has_certificate = @ = TRUE]
    <2>2. /\ stated(r).item = r.item /\ stated(r).level = r.level /\ stated(r).rank = r.rank
          /\ stated(r).extra = now
          /\ stated(r) = [item |-> r.item, level |-> r.level, rank |-> Items[r.level].rank,
                          extra |-> now]
      BY <2>1
    <2>3. /\ \A e \in codes \ {"has_certificate"} : now[e] = r.extra[e]
          /\ now["has_certificate"] \in BOOLEAN
          /\ now = [e \in codes |-> now[e]]
      BY <1>1
    <2> HIDE DEF now
    <2>4. \A e \in codes : ExtraOK(field.extras[e], now[e])
      BY <1>1, <2>1, <2>3 DEF ExtraOK
    <2>5. QED
      BY <2>1, <2>2, <2>3, <2>4 DEF RowOK
  <1>3. WriteLanguages(rows) = {stated(r) : r \in rows}
    BY DEF WriteLanguages
  <1>4. IsFiniteSet(WriteLanguages(rows)) /\ Cardinality(WriteLanguages(rows)) <= Cardinality(rows)
    <2> DEFINE fun == [r \in rows |-> stated(r)]
    <2>1. DOMAIN fun = rows /\ WriteLanguages(rows) = {fun[r] : r \in DOMAIN fun}
      BY <1>3
    <2> HIDE DEF fun
    <2>2. QED
      BY <2>1, FewValues DEF RowsOK
  <1>5. TooMany(field, WriteLanguages(rows)) = {}
    BY <1>1, <1>4, NotTooMany DEF RowsOK, field
  <1> HIDE DEF stated
  <1>6. \A r, q \in WriteLanguages(rows) : r.item = q.item => r = q
    BY <1>2, <1>3 DEF RowsOK
  <1>7. QED
    BY <1>2, <1>3, <1>4, <1>5, <1>6 DEF RowsOK, field

--------------------------------------------------------------------------------
(* Single values *)

\* What is not answered is read back as not answered.
LEMMA EmptyReadsBack ==
  ASSUME NEW field, FieldOK(field), NEW stored, NEW today
  PROVE  ParseField(field, RawOf(field, EmptyFor(field)), stored, today) = Parsed(EmptyFor(field))
  <1>1. CASE field.kind = "multi"
    <2>1. EmptyFor(field) = {} /\ ItemsOK(field, {})
      BY <1>1, NoRowsOK DEF EmptyFor, ItemsOK
    <2>2. QED
      BY <1>1, <2>1, ItemsReadBack
  <1>2. CASE field.kind = "leveled"
    <2>1. EmptyFor(field) = {} /\ RowsOK(field, {})
      BY <1>2, NoRowsOK DEF EmptyFor, RowsOK
    <2>2. QED
      BY <1>2, <2>1, RowsReadBack
  <1>3. CASE field.kind = "money"
    <2>1. EmptyFor(field) = NoPay /\ PayHolds(field, NoPay)
      BY <1>3 DEF EmptyFor, NoPay, PayHolds, InOrder, NegotiableAlone, FieldOK
    <2>2. QED
      BY <1>3, <2>1, PayReadsBack
  <1>4. CASE field.kind \in Scalars
    <2>1. EmptyFor(field) = Null /\ RawOf(field, Null) = Absent
      BY <1>4 DEF EmptyFor, RawOf, Scalars
    <2>2. QED
      BY <2>1 DEF ParseField
  <1>5. QED
    BY <1>1, <1>2, <1>3, <1>4 DEF FieldOK, Scalars

\* A pay the rules accept is one.
LEMMA AcceptedPay ==
  ASSUME NEW field, FieldOK(field), field.kind = "money", NEW raw, RawOK(raw),
         NEW stored, NEW today, ParseField(field, raw, stored, today).rules = {}
  PROVE  PayHolds(field, ParseField(field, raw, stored, today).value)
  <1>1. CASE raw \in {Absent, Blank}
    <2>1. ParseField(field, raw, stored, today).value = NoPay
      BY <1>1 DEF ParseField, EmptyFor, Parsed
    <2>2. QED
      BY <2>1 DEF NoPay, PayHolds, InOrder, NegotiableAlone, FieldOK
  <1>2. CASE raw \notin {Absent, Blank}
    <2> DEFINE from   == Amount(At(raw, "from"))
               to     == Amount(At(raw, "to"))
               period == At(raw, "periodId")
               free   == At(raw, "isNegotiable") = Truth(TRUE)
               named  == IF period.is = "text" THEN period.id ELSE Null
               pay    == [from |-> from, to |-> to, period |-> named, negotiable |-> free]
    <2>1. ParseField(field, raw, stored, today) = ParseMoney(field, raw)
      BY <1>2 DEF ParseField
    <2>2. raw.is = "object"
      BY <2>1 DEF ParseMoney, Broken
    <2>3. ParseMoney(field, raw) = Unless(MoneyRules(field, from, to, raw), pay)
      BY <2>2 DEF ParseMoney
    <2>4. MoneyRules(field, from, to, raw) = {}
      BY <2>1, <2>3 DEF Unless, Broken
    <2>5. ParseField(field, raw, stored, today).value = pay
      BY <2>1, <2>3, <2>4 DEF Unless, Parsed
    <2>6. /\ At(raw, "from").is = "number" => At(raw, "from").value \in Int
          /\ At(raw, "to").is = "number" => At(raw, "to").value \in Int
      BY <2>2 DEF At, RawOK, PartsOK, PlainOK, Range, Absent
    <2>7. from \in {Null} \cup Int /\ to \in {Null} \cup Int
      BY <2>6 DEF Amount
    <2>8. period.is = "text" => Usable(period, field.type, Null)
      BY <2>4 DEF MoneyRules, When
    <2>9. named # Null => Usable(Id(named), field.type, Null)
      BY <2>8 DEF Usable, IsUuid, Id, Words
    <2>10. /\ \A a \in {from, to} \ {Null} : Within(a, field)
           /\ InOrder(field, from, to) /\ NegotiableAlone(free, from, to)
      BY <2>4 DEF MoneyRules, When
    <2> HIDE DEF from, to, named, free
    <2>11. free \in BOOLEAN
      BY DEF free
    <2>12. QED
      BY <2>5, <2>7, <2>9, <2>10, <2>11 DEF PayHolds
  <1>3. QED
    BY <1>1, <1>2

\* A single value that is accepted is accepted again, under any region it is of.
LEMMA AcceptedScalar ==
  ASSUME NEW field, FieldOK(field), field.kind \in Scalars, NEW raw, RawOK(raw),
         NEW stored, NEW today, ParseField(field, raw, stored, today).rules = {},
         NEW region,
         BelongsTo(field, ParseField(field, raw, stored, today).value, region)
  PROVE  LET value == ParseField(field, raw, stored, today).value IN
         ParseField(field, RawOf(field, value), [region_id |-> region], today) = Parsed(value)
  <1> DEFINE result == ParseField(field, raw, stored, today)
             value  == result.value
             place  == [region_id |-> region]
             again  == ParseField(field, RawOf(field, value), place, today)
  <1>1. EmptyFor(field) = Null /\ RawOf(field, Null) = Absent
    BY DEF EmptyFor, RawOf, Scalars
  <1>2. CASE value = Null
    <2>1. ParseField(field, Absent, place, today) = Parsed(Null)
      BY <1>1 DEF ParseField
    <2>2. QED
      BY <1>1, <1>2, <2>1
  <1>3. CASE raw \in {Absent, Blank}
    BY <1>1, <1>2, <1>3 DEF ParseField, Parsed
  <1> SUFFICES ASSUME value # Null, raw \notin {Absent, Blank} PROVE again = Parsed(value)
    BY <1>2, <1>3
  <1>4. CASE field.kind \in {"text", "url"}
    <2>1. /\ ParseText(field, raw).rules = {} /\ value = ParseText(field, raw).value
          /\ field.kind = "url" => raw.link
      BY <1>4 DEF ParseField, ParseUrl, Broken
    <2>2. value = raw /\ ParseText(field, raw) = Parsed(raw)
      BY <2>1 DEF ParseText, Unless, Parsed, Broken
    <2>3. RawOf(field, value) = raw
      BY <1>4, <2>2 DEF RawOf
    <2>4. ParseField(field, raw, place, today) = Parsed(raw)
      BY <1>4, <2>1, <2>2 DEF ParseField, ParseUrl, Parsed
    <2>5. QED
      BY <2>2, <2>3, <2>4
  <1>5. CASE field.kind = "int"
    <2> DEFINE whole(r) == Check("isInt", r.whole)
               range(r) == Check("range", Within(r.value, field))
    <2>1. result = ParseNumber(field, raw)
      BY <1>5 DEF ParseField
    <2>2. raw.is = "number"
      BY <2>1 DEF ParseNumber, Broken
    <2>3. FirstOf(<<whole(raw), range(raw)>>) = {}
      BY <2>1, <2>2 DEF ParseNumber, Unless, Broken
    <2>4. raw.whole /\ Within(raw.value, field)
      <3>1. whole(raw).holds = raw.whole /\ range(raw).holds = Within(raw.value, field)
        BY DEF Check
      <3> HIDE DEF whole, range
      <3>2. QED
        BY <2>3, <3>1, FirstOfTwo
    <2>5. value = raw.value
      BY <2>1, <2>2, <2>3 DEF ParseNumber, Unless, Parsed
    <2>6. RawOf(field, value) = Number(raw.value)
      BY <1>5, <2>5 DEF RawOf
    <2>7. FirstOf(<<whole(Number(raw.value)), range(Number(raw.value))>>) = {}
      <3>1. whole(Number(raw.value)).holds /\ range(Number(raw.value)).holds
        BY <2>4 DEF Check, Number
      <3> HIDE DEF whole, range
      <3>2. QED
        BY <3>1, FirstOfTwo
    <2>8. ParseNumber(field, Number(raw.value)) = Parsed(raw.value)
      BY <2>7 DEF ParseNumber, Number, Unless
    <2>9. ParseField(field, Number(raw.value), place, today) = ParseNumber(field, Number(raw.value))
      BY <1>5 DEF ParseField, Number, Absent, Blank, Words
    <2>10. QED
      BY <2>5, <2>6, <2>8, <2>9
  <1>6. CASE field.kind = "bool"
    <2>1. raw.is = "bool" /\ value = raw.value
      BY <1>6 DEF ParseField, Broken, Parsed
    <2>2. RawOf(field, value) = Truth(value)
      BY <1>6 DEF RawOf
    <2>3. ParseField(field, Truth(value), place, today) = Parsed(value)
      BY <1>6 DEF ParseField, Truth, Absent, Blank, Words
    <2>4. QED
      BY <2>2, <2>3
  <1>7. CASE field.kind = "date"
    <2> DEFINE exists(day) == Check("isDate", Exists(day))
               past(day)   == Check("notAfter", field.notAfter = "today" => ~Later(day, today))
               aged(day)   == Check("minAgeYears", OldEnough(field, day, today))
               broken(day) == FirstOf(<<exists(day), past(day), aged(day)>>)
    <2>1. result = ParseDate(field, raw, today)
      BY <1>7 DEF ParseField
    <2>2. raw.is = "text" /\ raw.day # Null
      BY <2>1 DEF ParseDate, Broken
    <2>3. result = Unless(broken(raw.day), raw.day)
      BY <2>1, <2>2 DEF ParseDate
    <2> HIDE DEF broken
    <2>4. broken(raw.day) = {} /\ value = raw.day
      BY <2>3 DEF Unless, Broken, Parsed
    <2>5. raw.day \in Nat \X Nat \X Nat
      BY <2>2 DEF RawOK, PlainOK
    <2> DEFINE date == Date(value[1], value[2], value[3])
    <2>6. RawOf(field, value) = date
      BY <1>7 DEF RawOf
    <2>7. date.is = "text" /\ date.day = value /\ date # Blank /\ date # Absent
      BY <2>4, <2>5 DEF Date, Words, Blank, Absent
    <2> HIDE DEF date
    <2>8. ParseField(field, date, place, today) = ParseDate(field, date, today)
      BY <1>7, <2>7 DEF ParseField
    <2>9. ParseDate(field, date, today) = Unless(broken(value), value)
      BY <2>2, <2>4, <2>7 DEF ParseDate, broken
    <2>10. QED
      BY <2>4, <2>6, <2>8, <2>9 DEF Unless
  <1>8. CASE field.kind = "single"
    <2>1. result = ParseSingle(field, raw, stored)
      BY <1>8 DEF ParseField
    <2>2. Usable(raw, field.type, field.group) /\ value = raw.id
      BY <2>1 DEF ParseSingle, Unless, Parsed, Broken
    <2>3. RawOf(field, value) = Id(value)
      BY <1>8 DEF RawOf
    <2>4. Id(value).is = "text" /\ Id(value).id = value /\ Id(value) # Blank /\ Id(value) # Absent
      BY DEF Id, Words, Blank, Absent
    <2>5. ParseField(field, Id(value), place, today) = ParseSingle(field, Id(value), place)
      BY <1>8, <2>4 DEF ParseField
    <2>6. Usable(Id(value), field.type, field.group)
      BY <2>2, <2>4 DEF Usable, IsUuid
    <2>7. UnderParent(field, Id(value), place)
      BY DEF BelongsTo, UnderParent
    <2>8. QED
      BY <2>3, <2>4, <2>5, <2>6, <2>7 DEF ParseSingle, Usable, When, Unless
  <1>9. QED
    BY <1>4, <1>5, <1>6, <1>7, <1>8 DEF Scalars, Kinds

--------------------------------------------------------------------------------
(* Values that are accepted, and read back *)

\* A number the rules accept is within the bounds of its field.
LEMMA AcceptedNumber ==
  ASSUME NEW field, field.kind = "int", NEW raw, RawOK(raw), NEW stored, NEW today,
         ParseField(field, raw, stored, today).rules = {},
         ParseField(field, raw, stored, today).value # Null
  PROVE  LET value == ParseField(field, raw, stored, today).value IN
         value \in Int /\ Within(value, field)
  <1> DEFINE whole == Check("isInt", raw.whole)
             range == Check("range", Within(raw.value, field))
  <1>1. raw \notin {Absent, Blank}
    BY DEF ParseField, EmptyFor, Parsed
  <1>2. ParseField(field, raw, stored, today) = ParseNumber(field, raw)
    BY <1>1 DEF ParseField
  <1>3. raw.is = "number"
    BY <1>2 DEF ParseNumber, Broken
  <1>4. FirstOf(<<whole, range>>) = {}
    BY <1>2, <1>3 DEF ParseNumber, Unless, Broken
  <1>5. Within(raw.value, field)
    <2>1. range.holds = Within(raw.value, field)
      BY DEF Check
    <2> HIDE DEF whole, range
    <2>2. QED
      BY <1>4, <2>1, FirstOfTwo
  <1>6. ParseField(field, raw, stored, today).value = raw.value
    BY <1>2, <1>3, <1>4 DEF ParseNumber, Unless, Parsed
  <1>7. QED
    BY <1>3, <1>5, <1>6 DEF RawOK, PlainOK

\* A day the validator accepts exists.
LEMMA AcceptedDay ==
  ASSUME NEW field, field.kind = "date", NEW raw, RawOK(raw), NEW stored, NEW today,
         ParseField(field, raw, stored, today).rules = {},
         ParseField(field, raw, stored, today).value # Null
  PROVE  LET value == ParseField(field, raw, stored, today).value IN
         value \in Nat \X Nat \X Nat /\ Exists(value)
  <1> DEFINE exists == Check("isDate", Exists(raw.day))
             past   == Check("notAfter", field.notAfter = "today" => ~Later(raw.day, today))
             aged   == Check("minAgeYears", OldEnough(field, raw.day, today))
  <1>1. raw \notin {Absent, Blank}
    BY DEF ParseField, EmptyFor, Parsed
  <1>2. ParseField(field, raw, stored, today) = ParseDate(field, raw, today)
    BY <1>1 DEF ParseField
  <1>3. raw.is = "text" /\ raw.day # Null
    BY <1>2 DEF ParseDate, Broken
  <1>4. /\ FirstOf(<<exists, past, aged>>) = {}
        /\ ParseField(field, raw, stored, today).value = raw.day
    BY <1>2, <1>3 DEF ParseDate, Unless, Parsed, Broken
  <1>5. Exists(raw.day)
    <2>1. exists.holds = Exists(raw.day)
      BY DEF Check
    <2> HIDE DEF exists, past, aged
    <2>2. QED
      BY <1>4, <2>1, FirstOfThree
  <1>6. QED
    BY <1>3, <1>4, <1>5 DEF RawOK, PlainOK

\* Whatever the validator accepts is in order ...
LEMMA AcceptedValue ==
  ASSUME NEW field, FieldOK(field), NEW raw, RawOK(raw), NEW stored,
         ParseField(field, raw, stored, Today).rules = {}
  PROVE  ValueOK(field, ParseField(field, raw, stored, Today).value)
  <1> DEFINE value == ParseField(field, raw, stored, Today).value
  <1>1. CASE field.kind = "multi"
    BY <1>1, AcceptedItems DEF ValueOK
  <1>2. CASE field.kind = "leveled"
    BY <1>2, AcceptedRows DEF ValueOK
  <1>3. CASE field.kind = "money"
    <2>1. \A region : ReadsBackUnder(field, value, region)
      BY <1>3, AcceptedPay, PayReadsBack DEF ReadsBackUnder
    <2>2. QED
      BY <1>3, <2>1 DEF ValueOK, DayOrNumberOK
  <1>4. CASE field.kind \in Scalars
    <2>1. \A region : BelongsTo(field, value, region) => ReadsBackUnder(field, value, region)
      BY <1>4, AcceptedScalar DEF ReadsBackUnder
    <2>2. DayOrNumberOK(field, value)
      BY AcceptedNumber, AcceptedDay DEF DayOrNumberOK
    <2>3. QED
      BY <1>4, <2>1, <2>2 DEF ValueOK, Scalars
  <1>5. QED
    BY <1>1, <1>2, <1>3, <1>4 DEF FieldOK, Scalars

\* ... what is in order is accepted as it is ...
LEMMA ValueReadsBack ==
  ASSUME NEW field, FieldOK(field), NEW value, ValueOK(field, value), NEW region \in Regions,
         BelongsTo(field, value, region)
  PROVE  ParseField(field, RawOf(field, value), [region_id |-> region], Today) = Parsed(value)
  <1>1. CASE field.kind = "multi"
    BY <1>1, ItemsReadBack DEF ValueOK
  <1>2. CASE field.kind = "leveled"
    BY <1>2, RowsReadBack DEF ValueOK
  <1>3. CASE field.kind \notin {"multi", "leveled"}
    BY <1>3 DEF ValueOK, ReadsBackUnder
  <1>4. QED
    BY <1>1, <1>2, <1>3

\* ... as is no answer.
LEMMA EmptyOK ==
  ASSUME NEW field, FieldOK(field)
  PROVE  ValueOK(field, EmptyFor(field))
  <1>1. CASE field.kind \in {"multi", "leveled"}
    BY <1>1, NoRowsOK DEF ValueOK, EmptyFor, ItemsOK, RowsOK
  <1>2. CASE field.kind \notin {"multi", "leveled"}
    BY <1>2, EmptyReadsBack DEF ValueOK, ReadsBackUnder, DayOrNumberOK, EmptyFor
  <1>3. QED
    BY <1>1, <1>2

\* What is accepted is a value and nothing else.
LEMMA AcceptedIsParsed ==
  ASSUME NEW field, FieldOK(field), NEW raw, NEW stored, NEW today,
         ParseField(field, raw, stored, today).rules = {}
  PROVE  ParseField(field, raw, stored, today)
           = Parsed(ParseField(field, raw, stored, today).value)
  <1> DEFINE result == ParseField(field, raw, stored, today)
  <1>1. \A value : Parsed(value) = Parsed(Parsed(value).value)
    BY DEF Parsed
  <1>2. \A rules, value : Unless(rules, value).rules = {} => Unless(rules, value) = Parsed(value)
    BY DEF Unless, Broken
  <1>3. CASE raw \in {Absent, Blank}
    BY <1>1, <1>3 DEF ParseField
  <1> SUFFICES ASSUME raw \notin {Absent, Blank} PROVE result = Parsed(result.value)
    BY <1>3
  <1>4. CASE field.kind \in {"text", "url"}
    <2>1. result = ParseText(field, raw) /\ result.rules = {}
      BY <1>4 DEF ParseField, ParseUrl, Broken
    <2> HIDE DEF result
    <2>2. QED
      BY <1>1, <1>2, <2>1 DEF ParseText, Broken
  <1>5. CASE field.kind = "int"
    <2>1. result = ParseNumber(field, raw) /\ result.rules = {}
      BY <1>5 DEF ParseField
    <2> HIDE DEF result
    <2>2. QED
      BY <1>1, <1>2, <2>1 DEF ParseNumber, Broken
  <1>6. CASE field.kind = "bool"
    BY <1>1, <1>6 DEF ParseField, Broken
  <1>7. CASE field.kind = "date"
    <2>1. result = ParseDate(field, raw, today) /\ result.rules = {}
      BY <1>7 DEF ParseField
    <2> HIDE DEF result
    <2>2. QED
      BY <1>1, <1>2, <2>1 DEF ParseDate, Broken
  <1>8. CASE field.kind = "single"
    <2>1. result = ParseSingle(field, raw, stored) /\ result.rules = {}
      BY <1>8 DEF ParseField
    <2> HIDE DEF result
    <2>2. QED
      BY <1>1, <1>2, <2>1 DEF ParseSingle, Broken
  <1>9. CASE field.kind = "money"
    <2>1. result = ParseMoney(field, raw) /\ result.rules = {}
      BY <1>9 DEF ParseField
    <2> HIDE DEF result
    <2>2. raw.is = "object"
      BY <2>1 DEF ParseMoney, Broken
    <2>3. \E rules, value : result = Unless(rules, value)
      BY <2>1, <2>2 DEF ParseMoney
    <2>4. QED
      BY <1>1, <1>2, <2>1, <2>3
  <1>10. CASE field.kind = "multi"
    <2>1. result = ParseMulti(field, raw) /\ result.rules = {}
      BY <1>10 DEF ParseField
    <2> HIDE DEF result
    <2>2. raw.is = "list"
      BY <2>1 DEF ParseMulti, Broken
    <2>3. \E rules, value : result = Unless(rules, value)
      BY <2>1, <2>2 DEF ParseMulti
    <2>4. QED
      BY <1>1, <1>2, <2>1, <2>3
  <1>11. CASE field.kind = "leveled"
    <2>1. result = ParseLeveled(field, raw) /\ result.rules = {}
      BY <1>11 DEF ParseField
    <2> HIDE DEF result
    <2>2. raw.is = "list"
      BY <2>1 DEF ParseLeveled, Broken
    <2>3. \E rules, value : result = Unless(rules, value)
      BY <2>1, <2>2 DEF ParseLeveled, Taken
    <2>4. QED
      BY <1>1, <1>2, <2>1, <2>3
  <1>12. QED
    BY <1>4, <1>5, <1>6, <1>7, <1>8, <1>9, <1>10, <1>11 DEF FieldOK, Kinds

\* A sample that a field of a form accepts.
LEMMA AcceptedSample ==
  ASSUME NEW sample \in Accepted
  PROVE  \E raw \in Samples :
           /\ FieldOK(sample[1]) /\ RawOK(raw)
           /\ sample[2] = ParseField(sample[1], raw, NoRegion, Today)
           /\ sample[2].rules = {}
  <1>0. PICK form \in {CandidateForm, VacancyForm} :
          \E code \in DOMAIN form, raw \in Samples :
            sample = <<form[code], ParseField(form[code], raw, NoRegion, Today)>>
    BY DEF Accepted
  <1>1. PICK code \in DOMAIN form, raw \in Samples :
          sample = <<form[code], ParseField(form[code], raw, NoRegion, Today)>>
    BY <1>0
  <1>2. FieldOK(form[code])
    BY FormAssumption DEF FormOK
  <1>3. sample[2].rules = {}
    BY DEF Accepted
  <1>4. sample[1] = form[code] /\ sample[2] = ParseField(form[code], raw, NoRegion, Today)
    BY <1>1
  <1>5. QED
    BY <1>2, <1>3, <1>4, SamplesAssumption

\* What the validator accepts of any sample reads back.
LEMMA RoundTripsAlways ==
  RoundTrips
  <1> SUFFICES ASSUME NEW sample \in Accepted
               PROVE  ParseField(sample[1], RawOf(sample[1], sample[2].value), NoRegion, Today)
                        = sample[2]
    BY DEF RoundTrips
  <1>1. PICK raw \in Samples :
          /\ FieldOK(sample[1]) /\ RawOK(raw)
          /\ sample[2] = ParseField(sample[1], raw, NoRegion, Today)
          /\ sample[2].rules = {}
    BY AcceptedSample
  <1>2. ValueOK(sample[1], sample[2].value) /\ sample[2] = Parsed(sample[2].value)
    BY <1>1, AcceptedValue, AcceptedIsParsed
  <1>3. Null \in Regions /\ BelongsTo(sample[1], sample[2].value, Null)
    BY <1>1 DEF Regions, BelongsTo, UnderParent, FieldOK
  <1>4. QED
    BY <1>1, <1>2, <1>3, ValueReadsBack DEF NoRegion

\* And the table would store it.
LEMMA MeetsChecksAlways ==
  MeetsChecks
  <1> SUFFICES ASSUME NEW sample \in Accepted PROVE Storable(sample[1], sample[2].value)
    BY DEF MeetsChecks
  <1> DEFINE field == sample[1]
             value == sample[2].value
  <1>1. PICK raw \in Samples :
          /\ FieldOK(field) /\ RawOK(raw)
          /\ sample[2] = ParseField(field, raw, NoRegion, Today)
          /\ sample[2].rules = {}
    BY AcceptedSample
  <1> HIDE DEF field
  <1>2. CASE field.kind = "leveled"
    <2>1. RowsOK(field, value)
      BY <1>1, <1>2, AcceptedRows
    <2>2. \A r \in value : r.rank # Null
      <3>1. \A r \in value : r.rank = Items[r.level].rank /\ LevelUsable(field, Id(r.level))
        BY <2>1 DEF RowsOK, RowOK
      <3>2. \A r \in value : Items[r.level].rank # Null
        BY <3>1 DEF LevelUsable, Id, Words
      <3>3. QED
        BY <3>1, <3>2
    <2>3. QED
      BY <1>2, <2>1, <2>2 DEF Storable, RowsOK, field
  <1>3. CASE field.kind = "money"
    <2>1. PayHolds(field, value)
      BY <1>1, <1>3, AcceptedPay
    <2>2. field.ordered /\ field.min \in Nat
      BY <1>1, <1>3 DEF FieldOK
    <2>3. value.from # Null => value.from >= 0
      <3>1. value.from # Null => value.from \in Int /\ field.min <= value.from
        BY <2>1, <2>2, NullAssumption DEF PayHolds, Within
      <3>2. QED
        BY <2>2, <3>1
    <2>4. QED
      BY <1>3, <2>1, <2>2, <2>3 DEF Storable, PayHolds, InOrder, NegotiableAlone, field
  <1>4. CASE field.kind \notin {"leveled", "money"}
    BY <1>4 DEF Storable, field
  <1>5. QED
    BY <1>2, <1>3, <1>4

--------------------------------------------------------------------------------
(* What is stored, and what requests carry *)

ValuesInOrder(values) == \A code \in DOMAIN values : ValueOK(CandidateForm[code], values[code])

StoredInOrder(stored, job) ==
  \A code \in DOMAIN CandidateForm : ValueOK(CandidateForm[code], ValueOf(code, stored, job))

\* What the validator makes of a body is in order ...
LEMMA ValidatedInOrder ==
  ASSUME NEW category, NEW body, BodyOK(body), NEW stored
  PROVE  ValuesInOrder(Validate(CandidateForm, category, body, stored, Today).values)
  <1> DEFINE fields == DOMAIN body \cap FieldsFor(CandidateForm, category)
             parsed == [code \in fields |-> ParseField(CandidateForm[code], body[code], stored, Today)]
             values == [code \in {c \in DOMAIN parsed : parsed[c].rules = {}} |-> parsed[code].value]
  <1>1. Validate(CandidateForm, category, body, stored, Today).values = values
    BY DEF Validate, Verdict
  <1>2. ASSUME NEW code \in DOMAIN values PROVE ValueOK(CandidateForm[code], values[code])
    <2>1. /\ code \in DOMAIN body /\ code \in DOMAIN CandidateForm
          /\ ParseField(CandidateForm[code], body[code], stored, Today).rules = {}
          /\ values[code] = ParseField(CandidateForm[code], body[code], stored, Today).value
      BY DEF FieldsFor
    <2> HIDE DEF values
    <2>2. QED
      BY <2>1, AcceptedValue, FormAssumption DEF FormOK, BodyOK
  <1> HIDE DEF values
  <1>3. QED
    BY <1>1, <1>2 DEF ValuesInOrder

\* ... and so is what it leaves of answers that were.
LEMMA AppliedInOrder ==
  ASSUME NEW category, NEW values, NEW stored, NEW job, ValuesOK(category, values),
         ValuesInOrder(values), StoredInOrder(stored, job)
  PROVE  StoredInOrder(ApplyFields(stored, category, values), WriteOccupations(job, values))
  <1> SUFFICES ASSUME NEW code \in DOMAIN CandidateForm
               PROVE  ValueOK(CandidateForm[code],
                              ValueOf(code, ApplyFields(stored, category, values),
                                      WriteOccupations(job, values)))
    BY DEF StoredInOrder
  <1> DEFINE field   == CandidateForm[code]
             after   == ValueOf(code, ApplyFields(stored, category, values),
                                WriteOccupations(job, values))
             before  == ValueOf(code, stored, job)
             wanted  == IF code \in DOMAIN values THEN Written(code, values[code]) ELSE before
             primary == WriteOccupations(job, values).primary
  <1>1. /\ code = "occupation_level_id" => after = IF primary = Null THEN Null ELSE wanted
        /\ code = "additional_occupation_ids" => after = wanted \ {primary}
        /\ code \notin {"occupation_level_id", "additional_occupation_ids"} => after = wanted
    BY WrittenValue
  <1> HIDE DEF after, primary
  <1>2. FieldOK(field)
    BY FormAssumption DEF FormOK
  <1>3. ValueOK(field, wanted)
    BY WrittenRows, FormAssumption DEF ValuesInOrder, StoredInOrder, Written, ValueOK
  <1> HIDE DEF wanted
  <1>4. CASE code = "occupation_level_id"
    <2>1. ValueOK(field, Null)
      BY <1>2, <1>4, EmptyOK, FormAssumption DEF EmptyFor
    <2>2. QED
      BY <1>1, <1>3, <1>4, <2>1 DEF after
  <1>5. CASE code = "additional_occupation_ids"
    <2>1. after = wanted \ {primary}
      BY <1>1, <1>5
    <2>2. ItemsOK(field, wanted)
      BY <1>3, <1>5, FormAssumption DEF ValueOK
    <2>3. IsFiniteSet(after) /\ Cardinality(after) <= Cardinality(wanted)
      BY <2>1, <2>2, FS_Subset DEF ItemsOK
    <2>4. TooMany(field, after) = {}
      BY <1>2, <2>2, <2>3, NotTooMany DEF ItemsOK
    <2>5. ItemsOK(field, after)
      BY <2>1, <2>2, <2>3, <2>4 DEF ItemsOK
    <2>6. QED
      BY <1>5, <2>5, FormAssumption DEF ValueOK, after
  <1>6. CASE code \notin {"occupation_level_id", "additional_occupation_ids"}
    BY <1>1, <1>3, <1>6 DEF after
  <1>7. QED
    BY <1>4, <1>5, <1>6

\* A profile nobody has answered in is in order, and so is an empty request.
LEMMA NothingInOrder ==
  StoredInOrder(NoAnswers, NoOccupation) /\ ValuesInOrder(NoAnswers)
  <1>1. ASSUME NEW code \in DOMAIN CandidateForm
        PROVE  ValueOf(code, NoAnswers, NoOccupation) = EmptyFor(CandidateForm[code])
    BY FormAssumption DEF ValueOf, NoAnswers, NoOccupation, EmptyFor, Given
  <1>2. StoredInOrder(NoAnswers, NoOccupation)
    BY <1>1, EmptyOK, FormAssumption DEF StoredInOrder, FormOK
  <1>3. ValuesInOrder(NoAnswers)
    BY DEF ValuesInOrder, NoAnswers
  <1>4. QED
    BY <1>2, <1>3

\* A profile written by one body, or by none, reads back.
LEMMA ReadBackInit ==
  ASSUME NEW full, BodyOK(full), NEW record \in Records, InitWith(full, record)
  PROVE  ValuesReadBack
  <1>1. \A t \in Txns : ValuesInOrder(req[t].values)
    <2>1. NoRequest.values = NoAnswers
      BY DEF NoRequest
    <2>2. QED
      BY <2>1, NothingInOrder DEF InitWith
  <1>2. StoredInOrder(answers, occupation)
    <2>1. CASE answers = NoAnswers /\ occupation = NoOccupation
      BY <2>1, NothingInOrder
    <2>2. CASE ~(answers = NoAnswers /\ occupation = NoOccupation)
      <3> DEFINE category == EffectiveCategory("primary_occupation_id", full, Null)
                 values == Validate(CandidateForm, category, full, [region_id |-> Null], Today).values
      <3>1. /\ answers = ApplyFields(NoAnswers, category, values)
            /\ occupation = WriteOccupations(NoOccupation, values)
        BY <2>2 DEF InitWith
      <3>2. ValuesInOrder(values) /\ ValuesOK(category, values)
        BY ValidatedInOrder, ValidValues
      <3> HIDE DEF category, values
      <3>3. QED
        BY <3>1, <3>2, AppliedInOrder, NothingInOrder
    <2>3. QED
      BY <2>1, <2>2
  <1>3. QED
    BY <1>1, <1>2 DEF ValuesReadBack, ValuesInOrder, StoredInOrder

\* And so does whatever a step stores.
LEMMA ReadBackNext ==
  ASSUME IInv, ValuesReadBack, [Next]_vars
  PROVE  ValuesReadBack'
  <1>1. StoredInOrder(answers, occupation) /\ \A t \in Txns : ValuesInOrder(req[t].values)
    BY DEF ValuesReadBack, ValuesInOrder, StoredInOrder
  <1>2. StoredInOrder(answers', occupation')
    <2>1. CASE UNCHANGED <<answers, occupation>>
      BY <1>1, <2>1
    <2>2. ASSUME NEW t \in Txns, req[t].op = "patch",
                 answers' = ApplyFields(answers, req[t].category, req[t].values),
                 occupation' = WriteOccupations(occupation, req[t].values)
          PROVE  StoredInOrder(answers', occupation')
      <3>1. ValuesOK(req[t].category, req[t].values)
        BY <2>2 DEF IInv, RequestOK
      <3>2. QED
        BY <1>1, <2>2, <3>1, AppliedInOrder
    <2>3. QED
      BY <2>1, <2>2, CarriedAlong
  <1>3. ASSUME NEW t \in Txns PROVE ValuesInOrder(req'[t].values)
    <2>1. Carried(t)
      BY CarriedAlong
    <2>2. QED
      BY <1>1, <2>1, NothingInOrder, ValidatedInOrder, BodiesAssumption DEF Carried
  <1>4. QED
    BY <1>2, <1>3 DEF ValuesReadBack, ValuesInOrder, StoredInOrder

\* A value that is in order reads back; a district, if it lies in the region.
LEMMA ReadsBackFromInv ==
  ASSUME IInv, ValuesReadBack
  PROVE  ReadsBack
  <1> SUFFICES ASSUME NEW code \in FieldsFor(CandidateForm, row.category)
               PROVE  LET field  == CandidateForm[code]
                          value  == ValueOf(code, answers, occupation)
                          region == Given(answers, "region_id", Null)
                      IN \/ code = "district_id" /\ ~DistrictInRegion
                         \/ ParseField(field, RawOf(field, value), [region_id |-> region], Today)
                              = Parsed(value)
    BY DEF ReadsBack
  <1> DEFINE field  == CandidateForm[code]
             value  == ValueOf(code, answers, occupation)
             region == Given(answers, "region_id", Null)
  <1>1. code \in DOMAIN CandidateForm /\ FieldOK(field)
    BY FormAssumption DEF FieldsFor, FormOK
  <1>2. ValueOK(field, value) /\ region \in Regions
    BY <1>1 DEF ValuesReadBack, IInv, TablesOK
  <1>3. ASSUME ~(code = "district_id" /\ ~DistrictInRegion) PROVE BelongsTo(field, value, region)
    <2> SUFFICES ASSUME field.parent # Null, value # Null, region # Null
                 PROVE  Items[Id(value).id].parent = region
      BY <1>1 DEF BelongsTo, UnderParent, FieldOK
    <2>1. code = "district_id" /\ DistrictInRegion /\ field.kind = "single"
      BY <1>1, <1>3, FormAssumption DEF FieldOK
    <2>2. value = Given(answers, "district_id", Null)
      BY <2>1 DEF ValueOf, EmptyFor
    <2>3. /\ "district_id" \in DOMAIN answers /\ value = answers["district_id"]
          /\ "region_id" \in DOMAIN answers /\ region = answers["region_id"]
      BY <2>2 DEF Given
    <2>4. QED
      BY <2>1, <2>3 DEF DistrictInRegion, Id, Words
  <1> HIDE DEF field, value, region
  <1>4. QED
    BY <1>1, <1>2, <1>3, ValueReadsBack DEF field, value, region

--------------------------------------------------------------------------------
(* What a vacancy's table checks of one field *)

\* What a vacancy keeps of a field it states.
StatedOK(field, value) ==
  /\ field.kind = "int" => value \in Int /\ Within(value, field)
  /\ field.kind = "money" => PayHolds(field, value)
  /\ field.kind \in {"single", "date"} => value # Null
  /\ field.kind = "multi" => IsFiniteSet(value)
  /\ field.kind = "leveled" => IsFiniteSet(value) /\ \A r \in value : r.rank \in Int

VacancyInOrder(v) == \A code \in DOMAIN v : StatedOK(VacancyForm[code], v[code])

\* What the validator accepts, and the table then keeps, is that.
LEMMA AcceptedStatement ==
  ASSUME NEW field, FieldOK(field), NEW raw, RawOK(raw), NEW stored,
         ParseField(field, raw, stored, Today).rules = {},
         ParseField(field, raw, stored, Today).value # EmptyFor(field)
  PROVE  StatedOK(field, WriteRequirement(field, ParseField(field, raw, stored, Today).value))
  <1> DEFINE value == ParseField(field, raw, stored, Today).value
             kept  == WriteRequirement(field, value)
  <1>1. CASE field.kind \notin {"multi", "leveled"}
    <2>1. kept = value
      BY <1>1 DEF WriteRequirement
    <2>2. field.kind # "money" => value # Null
      BY <1>1 DEF EmptyFor
    <2>3. field.kind = "money" => PayHolds(field, value)
      BY AcceptedPay
    <2>4. field.kind = "int" => value \in Int /\ Within(value, field)
      BY <2>2, AcceptedNumber
    <2> HIDE DEF value, kept
    <2>5. QED
      BY <1>1, <2>1, <2>2, <2>3, <2>4 DEF StatedOK, value, kept
  <1>2. CASE field.kind = "multi"
    <2>1. kept = value /\ IsFiniteSet(value)
      BY <1>2, AcceptedItems DEF WriteRequirement, ItemsOK
    <2>2. QED
      BY <1>2, <2>1 DEF StatedOK
  <1>3. CASE field.kind = "leveled"
    <2>1. IsFiniteSet(value) /\ \A r \in value : RowOK(field, r)
      BY <1>3, AcceptedRows DEF RowsOK
    <2> DEFINE fun == [r \in value |-> [r EXCEPT !.extra.is_mandatory = @ # FALSE]]
    <2>2. kept = {fun[r] : r \in DOMAIN fun} /\ DOMAIN fun = value
      BY <1>3 DEF WriteRequirement
    <2>3. ASSUME NEW r \in value PROVE fun[r].rank \in Int
      <3>1. /\ r = [item |-> r.item, level |-> r.level, rank |-> Items[r.level].rank,
                    extra |-> [e \in DOMAIN field.extras |-> r.extra[e]]]
            /\ LevelUsable(field, Id(r.level))
        BY <2>1 DEF RowOK
      <3>2. r.rank = Items[r.level].rank /\ fun[r].rank = r.rank
        BY <3>1
      <3>3. r.level \in DOMAIN Items /\ Items[r.level].rank # Null
        BY <3>1 DEF LevelUsable, Usable, Id, Words
      <3>4. QED
        BY <3>2, <3>3, ItemsAssumption
    <2> HIDE DEF fun, value, kept
    <2>4. IsFiniteSet(kept)
      BY <2>1, <2>2, FewValues
    <2>5. \A r \in kept : r.rank \in Int
      BY <2>2, <2>3
    <2>6. QED
      BY <1>3, <2>4, <2>5 DEF StatedOK, value, kept
  <1>4. QED
    BY <1>1, <1>2, <1>3

\* A PATCH keeps a vacancy so.
LEMMA PatchedInOrder ==
  ASSUME NEW stored, VacancyInOrder(stored), NEW body, BodyOK(body)
  PROVE  VacancyInOrder(Patched(stored, body, Today))
  <1> DEFINE category == EffectiveCategory("occupation_id", body, VacancyCategory(stored))
             place    == [region_id |-> VacancyValueOf("region_id", stored)]
             fields   == DOMAIN body \cap FieldsFor(VacancyForm, category)
             parsed   == [code \in fields |-> ParseField(VacancyForm[code], body[code], place, Today)]
             values   == [code \in {c \in DOMAIN parsed : parsed[c].rules = {}} |-> parsed[code].value]
             result   == Validate(VacancyForm, category, body, place, Today)
             after    == ApplyVacancyFields(stored, category, values)
  <1>1. Patched(stored, body, Today) \in {stored, after}
    <2>1. result.values = values
      BY DEF Validate, Verdict
    <2> HIDE DEF values, category, place
    <2>2. QED
      BY <2>1 DEF Patched, PatchedIn, Accept, category, place
  <1>2. \A code \in DOMAIN values :
          /\ code \in DOMAIN body /\ code \in DOMAIN VacancyForm
          /\ ParseField(VacancyForm[code], body[code], place, Today).rules = {}
          /\ values[code] = ParseField(VacancyForm[code], body[code], place, Today).value
    BY DEF FieldsFor
  <1> DEFINE written == DOMAIN values \cap FieldsFor(VacancyForm, category)
             given   == {code \in written : Answered(VacancyForm[code], values[code])}
  <1> HIDE DEF values, category, place
  <1>3. \A code \in DOMAIN after :
          \/ code \in given /\ after[code] = WriteRequirement(VacancyForm[code], values[code])
          \/ code \in DOMAIN stored /\ after[code] = stored[code]
    BY DEF ApplyVacancyFields
  <1>4. given \subseteq DOMAIN values /\ \A code \in given : values[code] # EmptyFor(VacancyForm[code])
    BY DEF Answered
  <1> HIDE DEF after, given
  <1>5. ASSUME NEW code \in given
        PROVE  StatedOK(VacancyForm[code], WriteRequirement(VacancyForm[code], values[code]))
    BY <1>2, <1>4, AcceptedStatement, FormAssumption DEF FormOK, BodyOK
  <1>6. VacancyInOrder(after)
    BY <1>3, <1>5 DEF VacancyInOrder
  <1>7. QED
    BY <1>1, <1>6

\* So is every vacancy that two bodies reach.
LEMMA ContentsInOrder ==
  \A v \in Written1 \cup Written2 : VacancyInOrder(v)
  <1>1. \A v \in Written1 : VacancyInOrder(v)
    <2>1. VacancyInOrder([code \in {} |-> Null])
      BY DEF VacancyInOrder
    <2>2. QED
      BY <2>1, PatchedInOrder, VacancyBodiesAssumption DEF Written1
  <1>2. \A v \in Written2 : VacancyInOrder(v)
    BY <1>1, PatchedInOrder, VacancyBodiesAssumption DEF Written2, Stored1
  <1>3. QED
    BY <1>1, <1>2

\* So a content breaks only checks between two fields.
LEMMA CrossFieldOnlyAlways ==
  CrossFieldOnly
  <1>1. ASSUME NEW v, VacancyInOrder(v)
        PROVE  BrokenChecks(v) \subseteq
                 {"restriction_needs_justification", "age_range_order", "date_order"}
    <2>1. ~("worker_count" \in DOMAIN v /\ v["worker_count"] < 1)
      <3>1. "worker_count" \in DOMAIN v =>
              /\ v["worker_count"] \in Int
              /\ VacancyForm["worker_count"].min <= v["worker_count"]
        BY <1>1, VacancyFormAssumption, NullAssumption DEF VacancyInOrder, StatedOK, Within
      <3>2. QED
        BY <3>1, VacancyFormAssumption
    <2>2. \A code \in {"age_min", "age_max"} \cap DOMAIN v : v[code] \in 14..100
      <3>1. \A code \in {"age_min", "age_max"} \cap DOMAIN v :
              v[code] \in Int /\ 14 <= v[code] /\ v[code] <= 100
        BY <1>1, VacancyFormAssumption, NullAssumption DEF VacancyInOrder, StatedOK, Within
      <3>2. QED
        BY <3>1
    <2> DEFINE pay == PayOf(v)
    <2>3. /\ pay.from \in {Null} \cup Int /\ pay.to \in {Null} \cup Int
          /\ pay.negotiable => pay.from = Null /\ pay.to = Null
          /\ pay.from # Null /\ pay.to # Null => pay.from <= pay.to
          /\ \A a \in {pay.from, pay.to} \ {Null} : a >= 0
      <3>1. CASE "salary" \notin DOMAIN v
        <4>1. pay = NoPay
          BY <3>1, VacancyFormAssumption DEF PayOf, VacancyValueOf, EmptyFor
        <4>2. QED
          BY <4>1 DEF NoPay
      <3>2. CASE "salary" \in DOMAIN v
        <4> DEFINE field == VacancyForm["salary"]
        <4>1. PayHolds(field, pay)
          BY <1>1, <3>2, VacancyFormAssumption DEF VacancyInOrder, StatedOK, PayOf, VacancyValueOf
        <4>2. field.ordered /\ field.min \in Nat
          BY VacancyFormAssumption, FormAssumption DEF FormOK, FieldOK
        <4> HIDE DEF field, pay
        <4>3. \A a \in {pay.from, pay.to} \ {Null} : a \in Int /\ field.min <= a
          BY <4>1, <4>2, NullAssumption DEF PayHolds, Within
        <4>4. QED
          BY <4>1, <4>2, <4>3 DEF PayHolds, InOrder, NegotiableAlone
      <3>3. QED
        BY <3>1, <3>2
    <2> HIDE DEF pay
    <2>4. /\ ~(pay.negotiable /\ {pay.from, pay.to} # {Null})
          /\ ~(Null \notin {pay.from, pay.to} /\ pay.from > pay.to)
          /\ ~\E amount \in {pay.from, pay.to} \ {Null} : amount < 0
      BY <2>3
    <2>5. QED
      BY <2>1, <2>2, <2>4 DEF BrokenChecks, When, pay
  <1>2. QED
    BY <1>1, ContentsInOrder DEF CrossFieldOnly

--------------------------------------------------------------------------------

\* Whatever bodies are accepted and however requests interleave, what the validator
\* accepts is stored by the tables, but for the CHECKs between two fields, and
\* reads back as it is; so does any raw value of any field
\* (field-validator.ts:60-109, profile-state.ts:15-22, vacancies.service.ts:174-183).
THEOREM AnswersAlwaysSurvive ==
  ASSUME NEW full, BodyOK(full), NEW record \in Records
  PROVE  InitWith(full, record) /\ [][Next]_vars => []AnswersSurvive
  <1>1. InitWith(full, record) => IInv /\ ValuesReadBack
    BY InitInv, ReadBackInit
  <1>2. IInv /\ ValuesReadBack /\ [Next]_vars => IInv' /\ ValuesReadBack'
    BY NextInv, ReadBackNext
  <1>3. ParsedReadsBack /\ ParsedIsStorable /\ OnlyCrossFieldChecksBreak
    BY RoundTripsAlways, MeetsChecksAlways, CrossFieldOnlyAlways
       DEF ParsedReadsBack, ParsedIsStorable, OnlyCrossFieldChecksBreak
  <1>4. IInv /\ ValuesReadBack => AnswersSurvive
    BY <1>3, ReadsBackFromInv DEF AnswersSurvive
  <1>5. QED
    BY <1>1, <1>2, <1>4, PTL

--------------------------------------------------------------------------------
(* The search a vacancy opens *)

\* A filter set asks for `value` under a name, if that is wanted.
Asks(filters, name, wanted, value) ==
  /\ name \in DOMAIN filters <=> wanted
  /\ wanted => filters[name] = value

\* Filter sets whose names are apart are together what each of them is.
LEMMA Among ==
  ASSUME NEW n \in Nat, NEW parts, DOMAIN parts = 1..n, NEW names,
         \A i \in 1..n : DOMAIN parts[i] \subseteq names[i],
         \A i, j \in 1..n : i # j => names[i] \cap names[j] = {}
  PROVE  /\ DOMAIN Together(parts) \subseteq UNION {names[i] : i \in 1..n}
         /\ \A i \in 1..n : \A name \in names[i] : \A wanted, value :
              Asks(parts[i], name, wanted, value) => Asks(Together(parts), name, wanted, value)
  <1>1. DOMAIN Together(parts) = UNION {DOMAIN parts[i] : i \in 1..n}
    BY DEF Together
  <1>2. ASSUME NEW i \in 1..n, NEW name \in names[i]
        PROVE  /\ name \in DOMAIN Together(parts) <=> name \in DOMAIN parts[i]
               /\ name \in DOMAIN parts[i] => Together(parts)[name] = parts[i][name]
    <2>1. \A k \in 1..n : name \in DOMAIN parts[k] => k = i
      OBVIOUS
    <2>2. ASSUME name \in DOMAIN parts[i]
          PROVE  Together(parts)[name] = parts[i][name]
      <3>1. (CHOOSE k \in DOMAIN parts : name \in DOMAIN parts[k]) = i
        BY <2>1, <2>2
      <3>2. name \in UNION {DOMAIN parts[k] : k \in DOMAIN parts}
        BY <2>2
      <3>3. QED
        BY <3>1, <3>2 DEF Together
    <2>3. QED
      BY <1>1, <2>1, <2>2
  <1>3. QED
    BY <1>1, <1>2 DEF Asks

\* One filter, or none.
LEMMA OneAsks ==
  /\ \A wanted \in BOOLEAN : \A name, value :
       /\ DOMAIN Sent(wanted, name, value) \subseteq {name}
       /\ Asks(Sent(wanted, name, value), name, wanted, value)
  /\ \A name, ids : /\ DOMAIN Listed(name, ids) \subseteq {name}
                    /\ Asks(Listed(name, ids), name, ids # {}, SetToSeq(ids))
  /\ \A v, code, name : /\ DOMAIN Copied(v, code, name) \subseteq {name}
                        /\ Asks(Copied(v, code, name), name, code \in DOMAIN v, v[code])
  BY DEF Sent, Listed, Copied, Asks

\* What a vacancy's terms ask of a search.
LEMMA PrefilledTerms ==
  ASSUME NEW v
  PROVE  LET filters == PrefillTerms(v)
             asksOf(name, ids) == Asks(filters, name, ids # {}, SetToSeq(ids))
         IN
    /\ DOMAIN filters \subseteq {"educationLevelIds", "specializationIds", "experienceYearsMin",
                                 "employmentTypeIds", "workFormatIds", "shiftIds", "availableBy"}
    /\ asksOf("educationLevelIds", {VacancyValueOf("education_level_id", v)} \ {Null})
    /\ asksOf("specializationIds", VacancyValueOf("specialization", v))
    /\ asksOf("employmentTypeIds", VacancyValueOf("employment_type_ids", v))
    /\ asksOf("workFormatIds", VacancyValueOf("work_format_ids", v))
    /\ asksOf("shiftIds", VacancyValueOf("shift_ids", v))
    /\ Asks(filters, "experienceYearsMin", "experience_years_min" \in DOMAIN v,
            v["experience_years_min"])
    /\ Asks(filters, "availableBy", "starts_on" \in DOMAIN v, v["starts_on"])
  <1> DEFINE degrees == {VacancyValueOf("education_level_id", v)} \ {Null}
             parts == <<
               Listed("educationLevelIds", degrees),
               Listed("specializationIds", VacancyValueOf("specialization", v)),
               Copied(v, "experience_years_min", "experienceYearsMin"),
               Listed("employmentTypeIds", VacancyValueOf("employment_type_ids", v)),
               Listed("workFormatIds", VacancyValueOf("work_format_ids", v)),
               Listed("shiftIds", VacancyValueOf("shift_ids", v)),
               Copied(v, "starts_on", "availableBy")>>
             names == <<{"educationLevelIds"}, {"specializationIds"}, {"experienceYearsMin"},
                        {"employmentTypeIds"}, {"workFormatIds"}, {"shiftIds"}, {"availableBy"}>>
             all == Together(parts)
             asks(i, name, wanted, value) == /\ name \in names[i] /\ i \in 1..7
                                             /\ Asks(parts[i], name, wanted, value)
  <1>1. PrefillTerms(v) = all
    BY DEF PrefillTerms
  <1>2. DOMAIN parts = 1..7
    OBVIOUS
  <1>3. \A i \in 1..7 : DOMAIN parts[i] \subseteq names[i]
    BY OneAsks
  <1>4. \A i, j \in 1..7 : i # j => names[i] \cap names[j] = {}
    OBVIOUS
  <1>5. /\ asks(1, "educationLevelIds", degrees # {}, SetToSeq(degrees))
        /\ asks(2, "specializationIds", VacancyValueOf("specialization", v) # {},
                SetToSeq(VacancyValueOf("specialization", v)))
        /\ asks(3, "experienceYearsMin", "experience_years_min" \in DOMAIN v,
                v["experience_years_min"])
        /\ asks(4, "employmentTypeIds", VacancyValueOf("employment_type_ids", v) # {},
                SetToSeq(VacancyValueOf("employment_type_ids", v)))
        /\ asks(5, "workFormatIds", VacancyValueOf("work_format_ids", v) # {},
                SetToSeq(VacancyValueOf("work_format_ids", v)))
        /\ asks(6, "shiftIds", VacancyValueOf("shift_ids", v) # {},
                SetToSeq(VacancyValueOf("shift_ids", v)))
        /\ asks(7, "availableBy", "starts_on" \in DOMAIN v, v["starts_on"])
    BY OneAsks
  <1>6. UNION {names[i] : i \in 1..7} =
          {"educationLevelIds", "specializationIds", "experienceYearsMin",
           "employmentTypeIds", "workFormatIds", "shiftIds", "availableBy"}
    OBVIOUS
  <1> HIDE DEF parts, names
  <1>7. /\ DOMAIN all \subseteq UNION {names[i] : i \in 1..7}
        /\ \A i \in 1..7 : \A name \in names[i] : \A wanted, value :
             Asks(parts[i], name, wanted, value) => Asks(all, name, wanted, value)
    BY <1>2, <1>3, <1>4, Among, 7 \in Nat, Zenon
  <1>8. \A i, name, wanted, value : asks(i, name, wanted, value) => Asks(all, name, wanted, value)
    BY <1>7
  <1> HIDE DEF all, asks
  <1>9. QED
    BY <1>1, <1>5, <1>6, <1>7, <1>8

\* What its place asks.
LEMMA PrefilledPlace ==
  ASSUME NEW v
  PROVE  LET filters == PrefillPlace(v)
         IN
    /\ DOMAIN filters \subseteq {"regionId", "districtIds", "proximityDistrictId"}
    /\ Asks(filters, "regionId", "region_id" \in DOMAIN v, v["region_id"])
    /\ Asks(filters, "districtIds", {VacancyValueOf("district_id", v)} \ {Null} # {},
            SetToSeq({VacancyValueOf("district_id", v)} \ {Null}))
  <1> DEFINE parts == <<
               Copied(v, "region_id", "regionId"),
               Listed("districtIds", {VacancyValueOf("district_id", v)} \ {Null}),
               Copied(v, "district_id", "proximityDistrictId")>>
             names == <<{"regionId"}, {"districtIds"}, {"proximityDistrictId"}>>
             all == Together(parts)
             asks(i, name, wanted, value) == /\ name \in names[i] /\ i \in 1..3
                                             /\ Asks(parts[i], name, wanted, value)
  <1>1. PrefillPlace(v) = all
    BY DEF PrefillPlace
  <1>2. DOMAIN parts = 1..3
    OBVIOUS
  <1>3. \A i \in 1..3 : DOMAIN parts[i] \subseteq names[i]
    BY OneAsks
  <1>4. \A i, j \in 1..3 : i # j => names[i] \cap names[j] = {}
    OBVIOUS
  <1>5. /\ asks(1, "regionId", "region_id" \in DOMAIN v, v["region_id"])
        /\ asks(2, "districtIds", {VacancyValueOf("district_id", v)} \ {Null} # {},
                SetToSeq({VacancyValueOf("district_id", v)} \ {Null}))
    BY OneAsks
  <1>6. UNION {names[i] : i \in 1..3} = {"regionId", "districtIds", "proximityDistrictId"}
    OBVIOUS
  <1> HIDE DEF parts, names
  <1>7. /\ DOMAIN all \subseteq UNION {names[i] : i \in 1..3}
        /\ \A i \in 1..3 : \A name \in names[i] : \A wanted, value :
             Asks(parts[i], name, wanted, value) => Asks(all, name, wanted, value)
    BY <1>2, <1>3, <1>4, Among, 3 \in Nat, Zenon
  <1>8. \A i, name, wanted, value : asks(i, name, wanted, value) => Asks(all, name, wanted, value)
    BY <1>7
  <1> HIDE DEF all, asks
  <1>9. QED
    BY <1>1, <1>5, <1>6, <1>7, <1>8

\* What its restrictions ask.
LEMMA PrefilledRestrictions ==
  ASSUME NEW v
  PROVE  LET filters == PrefillRestrictions(v)
         IN
    /\ DOMAIN filters \subseteq {"ageMin", "ageMax", "genderId", "restrictionJustificationId"}
    /\ Asks(filters, "ageMin", "age_min" \in DOMAIN v, v["age_min"])
    /\ Asks(filters, "ageMax", "age_max" \in DOMAIN v, v["age_max"])
    /\ Asks(filters, "genderId", "gender_id" \in DOMAIN v, v["gender_id"])
    /\ Asks(filters, "restrictionJustificationId", "restriction_justification_id" \in DOMAIN v,
            v["restriction_justification_id"])
  <1> DEFINE parts == <<
               Copied(v, "age_min", "ageMin"),
               Copied(v, "age_max", "ageMax"),
               Copied(v, "gender_id", "genderId"),
               Copied(v, "restriction_justification_id", "restrictionJustificationId")>>
             names == <<{"ageMin"}, {"ageMax"}, {"genderId"}, {"restrictionJustificationId"}>>
             all == Together(parts)
             asks(i, name, wanted, value) == /\ name \in names[i] /\ i \in 1..4
                                             /\ Asks(parts[i], name, wanted, value)
  <1>1. PrefillRestrictions(v) = all
    BY DEF PrefillRestrictions
  <1>2. DOMAIN parts = 1..4
    OBVIOUS
  <1>3. \A i \in 1..4 : DOMAIN parts[i] \subseteq names[i]
    BY OneAsks
  <1>4. \A i, j \in 1..4 : i # j => names[i] \cap names[j] = {}
    OBVIOUS
  <1>5. /\ asks(1, "ageMin", "age_min" \in DOMAIN v, v["age_min"])
        /\ asks(2, "ageMax", "age_max" \in DOMAIN v, v["age_max"])
        /\ asks(3, "genderId", "gender_id" \in DOMAIN v, v["gender_id"])
        /\ asks(4, "restrictionJustificationId", "restriction_justification_id" \in DOMAIN v,
                v["restriction_justification_id"])
    BY OneAsks
  <1>6. UNION {names[i] : i \in 1..4} =
          {"ageMin", "ageMax", "genderId", "restrictionJustificationId"}
    OBVIOUS
  <1> HIDE DEF parts, names
  <1>7. /\ DOMAIN all \subseteq UNION {names[i] : i \in 1..4}
        /\ \A i \in 1..4 : \A name \in names[i] : \A wanted, value :
             Asks(parts[i], name, wanted, value) => Asks(all, name, wanted, value)
    BY <1>2, <1>3, <1>4, Among, 4 \in Nat, Zenon
  <1>8. \A i, name, wanted, value : asks(i, name, wanted, value) => Asks(all, name, wanted, value)
    BY <1>7
  <1> HIDE DEF all, asks
  <1>9. QED
    BY <1>1, <1>5, <1>6, <1>7, <1>8

\* What its attributes and its crew ask.
LEMMA PrefilledAttributes ==
  ASSUME NEW v
  PROVE  LET filters == PrefillAttributes(v)
             ids == UNION {VacancyValueOf(code, v) : code \in ATTRIBUTE_FIELD_CODES}
         IN
    /\ DOMAIN filters \subseteq {"attributeIds", "attributesMatchAll", "crewSizeMin"}
    /\ Asks(filters, "attributeIds", ids # {}, SetToSeq(ids))
    /\ Asks(filters, "attributesMatchAll", ids # {}, TRUE)
    /\ Asks(filters, "crewSizeMin", VacancyValueOf("crew_required", v) = TRUE, CREW_MINIMUM)
  <1> DEFINE ids == UNION {VacancyValueOf(code, v) : code \in ATTRIBUTE_FIELD_CODES}
             parts == <<
               Listed("attributeIds", ids),
               Sent(ids # {}, "attributesMatchAll", TRUE),
               Sent(VacancyValueOf("crew_required", v) = TRUE, "crewSizeMin", CREW_MINIMUM)>>
             names == <<{"attributeIds"}, {"attributesMatchAll"}, {"crewSizeMin"}>>
             all == Together(parts)
             asks(i, name, wanted, value) == /\ name \in names[i] /\ i \in 1..3
                                             /\ Asks(parts[i], name, wanted, value)
  <1>1. PrefillAttributes(v) = all
    BY DEF PrefillAttributes
  <1>2. DOMAIN parts = 1..3
    OBVIOUS
  <1>3. \A i \in 1..3 : DOMAIN parts[i] \subseteq names[i]
    BY OneAsks DEF Sent, Asks
  <1>4. \A i, j \in 1..3 : i # j => names[i] \cap names[j] = {}
    OBVIOUS
  <1>5. /\ asks(1, "attributeIds", ids # {}, SetToSeq(ids))
        /\ asks(2, "attributesMatchAll", ids # {}, TRUE)
        /\ asks(3, "crewSizeMin", VacancyValueOf("crew_required", v) = TRUE, CREW_MINIMUM)
    BY OneAsks DEF Sent, Asks
  <1>6. UNION {names[i] : i \in 1..3} = {"attributeIds", "attributesMatchAll", "crewSizeMin"}
    OBVIOUS
  <1> HIDE DEF parts, names
  <1>7. /\ DOMAIN all \subseteq UNION {names[i] : i \in 1..3}
        /\ \A i \in 1..3 : \A name \in names[i] : \A wanted, value :
             Asks(parts[i], name, wanted, value) => Asks(all, name, wanted, value)
    BY <1>2, <1>3, <1>4, Among, 3 \in Nat, Zenon
  <1>8. \A i, name, wanted, value : asks(i, name, wanted, value) => Asks(all, name, wanted, value)
    BY <1>7
  <1> HIDE DEF all, asks
  <1>9. QED
    BY <1>1, <1>5, <1>6, <1>7, <1>8

\* What its mandatory skills ask.
LEMMA PrefilledSkills ==
  ASSUME NEW v
  PROVE  LET filters == PrefillSkills(v)
             rows    == Mandatory(v, "skills")
         IN
    /\ DOMAIN filters \subseteq {"skillIds", "skillsMatchAll", "skillMinLevelRank"}
    /\ Asks(filters, "skillIds", rows # {}, SetToSeq({r.item : r \in rows}))
    /\ Asks(filters, "skillsMatchAll", rows # {}, TRUE)
    /\ Asks(filters, "skillMinLevelRank", rows # {}, SkillFloor(rows))
  <1> DEFINE rows == Mandatory(v, "skills")
  <1>1. CASE rows = {}
    BY <1>1 DEF PrefillSkills, Asks
  <1>2. CASE rows # {}
    BY <1>2 DEF PrefillSkills, Asks
  <1>3. QED
    BY <1>1, <1>2

FilterNames ==
  {"occupationIds", "category", "skillIds", "skillsMatchAll", "skillMinLevelRank", "languages",
   "educationLevelIds", "specializationIds", "experienceYearsMin", "employmentTypeIds",
   "workFormatIds", "shiftIds", "availableBy", "regionId", "districtIds", "proximityDistrictId",
   "salaryMax", "attributeIds", "attributesMatchAll", "crewSizeMin", "ageMin", "ageMax",
   "genderId", "restrictionJustificationId"}

\* Whatever a part asks for under its names.
Carries(filters, part, names) ==
  \A name \in names : \A wanted, value :
    Asks(part, name, wanted, value) => Asks(filters, name, wanted, value)

\* The filter set a vacancy opens the search with asks for what its parts do.
LEMMA Prefilled ==
  ASSUME NEW category, NEW v
  PROVE  LET filters == Prefill(category, v) IN
    /\ DOMAIN filters \subseteq FilterNames
    /\ Carries(filters, Listed("occupationIds", {VacancyValueOf("occupation_id", v)} \ {Null}),
               {"occupationIds"})
    /\ Carries(filters, Sent(category # Null, "category", category),
               {"category"})
    /\ Carries(filters, PrefillSkills(v),
               {"skillIds", "skillsMatchAll", "skillMinLevelRank"})
    /\ Carries(filters, PrefillLanguages(v),
               {"languages"})
    /\ Carries(filters, PrefillTerms(v),
               {"educationLevelIds", "specializationIds", "experienceYearsMin",
                "employmentTypeIds", "workFormatIds", "shiftIds", "availableBy"})
    /\ Carries(filters, PrefillPlace(v),
               {"regionId", "districtIds", "proximityDistrictId"})
    /\ Carries(filters, PrefillBudget(v),
               {"salaryMax"})
    /\ Carries(filters, PrefillAttributes(v),
               {"attributeIds", "attributesMatchAll", "crewSizeMin"})
    /\ Carries(filters, PrefillRestrictions(v),
               {"ageMin", "ageMax", "genderId", "restrictionJustificationId"})
  <1> DEFINE parts == <<
               Listed("occupationIds", {VacancyValueOf("occupation_id", v)} \ {Null}),
               Sent(category # Null, "category", category),
               PrefillSkills(v),
               PrefillLanguages(v),
               PrefillTerms(v),
               PrefillPlace(v),
               PrefillBudget(v),
               PrefillAttributes(v),
               PrefillRestrictions(v)>>
             names == <<
               {"occupationIds"},
               {"category"},
               {"skillIds", "skillsMatchAll", "skillMinLevelRank"},
               {"languages"},
               {"educationLevelIds", "specializationIds", "experienceYearsMin",
                 "employmentTypeIds", "workFormatIds", "shiftIds", "availableBy"},
               {"regionId", "districtIds", "proximityDistrictId"},
               {"salaryMax"},
               {"attributeIds", "attributesMatchAll", "crewSizeMin"},
               {"ageMin", "ageMax", "genderId", "restrictionJustificationId"}>>
             all == Together(parts)
  <1>1. Prefill(category, v) = all
    BY DEF Prefill
  <1>2. DOMAIN parts = 1..9
    OBVIOUS
  <1>3. \A i, j \in 1..9 : i # j => names[i] \cap names[j] = {}
    OBVIOUS
  <1>4. UNION {names[i] : i \in 1..9} = FilterNames
    BY DEF FilterNames
  <1>5. /\ parts[1] = Listed("occupationIds", {VacancyValueOf("occupation_id", v)} \ {Null})
        /\ names[1] = {"occupationIds"}
        /\ parts[2] = Sent(category # Null, "category", category)
        /\ names[2] = {"category"}
        /\ parts[3] = PrefillSkills(v)
        /\ names[3] = {"skillIds", "skillsMatchAll", "skillMinLevelRank"}
        /\ parts[4] = PrefillLanguages(v)
        /\ names[4] = {"languages"}
        /\ parts[5] = PrefillTerms(v)
        /\ names[5] = {"educationLevelIds", "specializationIds", "experienceYearsMin",
                       "employmentTypeIds", "workFormatIds", "shiftIds", "availableBy"}
        /\ parts[6] = PrefillPlace(v)
        /\ names[6] = {"regionId", "districtIds", "proximityDistrictId"}
        /\ parts[7] = PrefillBudget(v)
        /\ names[7] = {"salaryMax"}
        /\ parts[8] = PrefillAttributes(v)
        /\ names[8] = {"attributeIds", "attributesMatchAll", "crewSizeMin"}
        /\ parts[9] = PrefillRestrictions(v)
        /\ names[9] = {"ageMin", "ageMax", "genderId", "restrictionJustificationId"}
    OBVIOUS
  <1> HIDE DEF parts, names
  <1>6. \A i \in 1..9 : DOMAIN parts[i] \subseteq names[i]
    <2>1. DOMAIN parts[1] \subseteq names[1] /\ DOMAIN parts[4] \subseteq names[4]
      BY <1>5, OneAsks DEF PrefillLanguages
    <2>2. DOMAIN parts[2] \subseteq names[2] /\ DOMAIN parts[7] \subseteq names[7]
      BY <1>5 DEF PrefillBudget, Sent
    <2>3. DOMAIN parts[3] \subseteq names[3]
      BY <1>5, PrefilledSkills
    <2>4. DOMAIN parts[5] \subseteq names[5]
      BY <1>5, PrefilledTerms
    <2>5. DOMAIN parts[6] \subseteq names[6]
      BY <1>5, PrefilledPlace
    <2>6. DOMAIN parts[8] \subseteq names[8]
      BY <1>5, PrefilledAttributes
    <2>7. DOMAIN parts[9] \subseteq names[9]
      BY <1>5, PrefilledRestrictions
    <2>8. \A i \in 1..9 : i \in {1, 2, 3, 4, 5, 6, 7, 8, 9}
      OBVIOUS
    <2>9. QED
      BY <2>1, <2>2, <2>3, <2>4, <2>5, <2>6, <2>7, <2>8
  <1>7. /\ DOMAIN all \subseteq UNION {names[i] : i \in 1..9}
        /\ \A i \in 1..9 : Carries(all, parts[i], names[i])
    BY <1>2, <1>3, <1>6, Among, 9 \in Nat, Zenon DEF Carries
  <1> HIDE DEF all
  <1>8. \A i \in {1, 2, 3, 4, 5, 6, 7, 8, 9} : Carries(all, parts[i], names[i])
    BY <1>7
  <1>9. QED
    BY <1>1, <1>4, <1>5, <1>7, <1>8

\* What a vacancy in order states, and what stands for what it does not.
LEMMA StatedValues ==
  ASSUME NEW v, VacancyInOrder(v)
  PROVE  /\ \A code \in {"specialization"} \cup ATTRIBUTE_FIELD_CODES \cup PREFERENCE_FIELD_CODES :
              IsFiniteSet(VacancyValueOf(code, v))
         /\ \A code \in {"skills", "languages"} :
              /\ IsFiniteSet(VacancyValueOf(code, v))
              /\ \A r \in VacancyValueOf(code, v) : r.rank \in Int
         /\ \A code \in {"occupation_id", "region_id", "district_id", "education_level_id",
                         "gender_id", "restriction_justification_id", "starts_on"} :
              IF code \in DOMAIN v THEN v[code] # Null ELSE VacancyValueOf(code, v) = Null
         /\ \A code \in {"age_min", "age_max"} \cap DOMAIN v : v[code] \in 14..100
         /\ "experience_years_min" \in DOMAIN v => v["experience_years_min"] \in 0..70
  <1>1. \A code \in {"specialization"} \cup ATTRIBUTE_FIELD_CODES \cup PREFERENCE_FIELD_CODES :
          IsFiniteSet(VacancyValueOf(code, v))
    BY VacancyFormAssumption, FS_EmptySet DEF VacancyInOrder, StatedOK, VacancyValueOf, EmptyFor
  <1>2. \A code \in {"skills", "languages"} :
          /\ IsFiniteSet(VacancyValueOf(code, v))
          /\ \A r \in VacancyValueOf(code, v) : r.rank \in Int
    BY VacancyFormAssumption, FS_EmptySet DEF VacancyInOrder, StatedOK, VacancyValueOf, EmptyFor
  <1>3. \A code \in {"occupation_id", "region_id", "district_id", "education_level_id",
                     "gender_id", "restriction_justification_id", "starts_on"} :
          IF code \in DOMAIN v THEN v[code] # Null ELSE VacancyValueOf(code, v) = Null
    BY VacancyFormAssumption DEF VacancyInOrder, StatedOK, VacancyValueOf, EmptyFor
  <1>4. \A code \in {"age_min", "age_max"} \cap DOMAIN v : v[code] \in 14..100
    <2>1. \A code \in {"age_min", "age_max"} \cap DOMAIN v :
            v[code] \in Int /\ 14 <= v[code] /\ v[code] <= 100
      BY VacancyFormAssumption, NullAssumption DEF VacancyInOrder, StatedOK, Within
    <2>2. QED
      BY <2>1
  <1>5. ASSUME "experience_years_min" \in DOMAIN v PROVE v["experience_years_min"] \in 0..70
    <2> DEFINE field == VacancyForm["experience_years_min"]
               years == v["experience_years_min"]
    <2>1. field.kind = "int" /\ field.min \in Nat /\ field.max \in 0..70
      BY VacancyFormAssumption
    <2>2. StatedOK(field, years)
      BY <1>5 DEF VacancyInOrder
    <2> HIDE DEF field, years
    <2>3. years \in Int /\ field.min <= years /\ years <= field.max
      BY <2>1, <2>2, NullAssumption DEF StatedOK, Within
    <2>4. years \in 0..70
      BY <2>1, <2>3
    <2>5. QED
      BY <2>4 DEF years
  <1>6. QED
    BY <1>1, <1>2, <1>3, <1>4, <1>5

\* A list of ids asks for one of them, or, matching all, for each.
LEMMA ListAsks ==
  ASSUME NEW filters, NEW name, NEW ids, IsFiniteSet(ids),
         Asks(filters, name, ids # {}, SetToSeq(ids)), NEW held
  PROVE  /\ AnyOf(filters, name, held) <=> (ids # {} => ids \cap held # {})
         /\ name \in DOMAIN filters => (AllOf(filters, name, held) <=> ids \subseteq held)
         /\ name \in DOMAIN filters => ToSet(filters[name]) = ids
  <1> DEFINE s == SetToSeq(ids)
             n == Cardinality(ids)
  <1>1. s \in [1..n -> ids] /\ n \in Nat /\ ToSet(s) = ids
    BY EachOnce
  <1>2. Len(s) = n
    BY <1>1
  <1>3. /\ IsFiniteSet(ids \cap held)
        /\ Cardinality(ids \cap held) = n <=> ids \subseteq held
    BY FS_Subset, ids \cap held \subseteq ids
  <1> HIDE DEF s, n
  <1>4. name \in DOMAIN filters => filters[name] = s
    BY DEF Asks, s
  <1>5. QED
    BY <1>1, <1>2, <1>3, <1>4 DEF AnyOf, AllOf, Asks

\* Of finitely many whole numbers one is the lowest.
LEMMA LowestRank ==
  ASSUME NEW ranks, IsFiniteSet(ranks), ranks \subseteq Int, ranks # {}
  PROVE  Lowest(ranks) \in ranks /\ \A rank \in ranks : Lowest(ranks) <= rank
  <1> DEFINE below(x) == {y \in ranks : y < x}
             counts   == {Cardinality(below(x)) : x \in ranks}
  <1>1. \A x \in ranks : IsFiniteSet(below(x)) /\ Cardinality(below(x)) \in Nat
    BY FS_Subset, FS_CardinalityType
  <1>2. counts \subseteq Nat /\ counts # {}
    BY <1>1
  <1>3. PICK x \in ranks : \A y \in ranks : Cardinality(below(x)) <= Cardinality(below(y))
    <2>1. \E k \in counts : \A m \in counts : k <= m
      BY <1>2, LeastNumber
    <2>2. QED
      BY <2>1
  <1>4. ASSUME NEW y \in ranks, y < x PROVE FALSE
    <2>1. below(y) \subseteq below(x) /\ below(y) # below(x)
      <3>1. \A z \in ranks : z \in Int
        OBVIOUS
      <3>2. \A z \in ranks : z < y => z < x
        BY <1>4, <3>1
      <3>3. y \in below(x) /\ y \notin below(y)
        BY <1>4, <3>1
      <3>4. QED
        BY <3>2, <3>3
    <2>2. Cardinality(below(y)) < Cardinality(below(x))
      <3> HIDE DEF below
      <3>1. Cardinality(below(y)) <= Cardinality(below(x))
        BY <1>1, <2>1, FS_Subset
      <3>2. Cardinality(below(y)) # Cardinality(below(x))
        BY <1>1, <2>1, FS_Subset
      <3>3. QED
        BY <1>1, <3>1, <3>2
    <2>3. QED
      BY <1>1, <1>3, <2>2
  <1>5. \A y \in ranks : x <= y
    BY <1>4
  <1>6. QED
    BY <1>5 DEF Lowest

\* What a vacancy opens the search with.
Opened(v) == Prefill(VacancyCategory(v), v)

\* It asks for nothing else.
LEMMA OnlyNamed == \A v : DOMAIN Opened(v) \subseteq FilterNames
  BY Prefilled DEF Opened

\* The region and the district, each if the vacancy has one.
LEMMA PlaceAsked ==
  ASSUME NEW v, VacancyInOrder(v), NEW c
  PROVE  WherePlace(Opened(v), c)
           <=> \A code \in {"region_id", "district_id"} \cap DOMAIN v : Of(c, code) = v[code]
  <1> DEFINE filters == Opened(v)
             district == {VacancyValueOf("district_id", v)} \ {Null}
  <1>1. "willingToRelocate" \notin DOMAIN filters /\ "willingToTravel" \notin DOMAIN filters
    BY OnlyNamed DEF FilterNames
  <1>2. Asks(filters, "regionId", "region_id" \in DOMAIN v, v["region_id"])
    BY Prefilled, PrefilledPlace DEF Opened, Carries
  <1>3. Asks(filters, "districtIds", district # {}, SetToSeq(district))
    BY Prefilled, PrefilledPlace DEF Opened, Carries
  <1>4. "district_id" \in DOMAIN v => VacancyValueOf("district_id", v) = v["district_id"]
    BY DEF VacancyValueOf
  <1>5. district = IF "district_id" \in DOMAIN v THEN {v["district_id"]} ELSE {}
    BY <1>4, StatedValues
  <1>6. IsFiniteSet(district)
    BY <1>5, FS_Singleton, FS_EmptySet
  <1> HIDE DEF filters, district
  <1>7. \A held : AnyOf(filters, "districtIds", held) <=> (district # {} => district \cap held # {})
    BY <1>3, <1>6, ListAsks
  <1>8. AnyOf(filters, "districtIds", {Of(c, "district_id")})
          <=> ("district_id" \in DOMAIN v => Of(c, "district_id") = v["district_id"])
    BY <1>5, <1>7
  <1>9. QED
    BY <1>1, <1>2, <1>8 DEF WherePlace, If, Asks, filters

\* The occupation and, with it, its category.
LEMMA OccupationAsked ==
  ASSUME NEW v, VacancyInOrder(v), NEW c
  PROVE  WhereOccupation(Opened(v), c)
           <=> /\ "occupation_id" \in DOMAIN v => v["occupation_id"] \in Occupations(c)
               /\ VacancyCategory(v) # Null => c.category = VacancyCategory(v)
  <1> DEFINE filters == Opened(v)
             occupation_ids == {VacancyValueOf("occupation_id", v)} \ {Null}
             category == VacancyCategory(v)
  <1>1. "primaryOnly" \notin DOMAIN filters /\ "occupationLevelIds" \notin DOMAIN filters
    BY OnlyNamed DEF FilterNames
  <1>2. Asks(filters, "occupationIds", occupation_ids # {}, SetToSeq(occupation_ids))
    <2>1. Asks(Listed("occupationIds", occupation_ids), "occupationIds", occupation_ids # {},
               SetToSeq(occupation_ids))
      BY OneAsks
    <2> HIDE DEF occupation_ids
    <2>2. QED
      BY <2>1, Prefilled DEF Opened, Carries, occupation_ids
  <1>3. Asks(filters, "category", category # Null, category)
    <2>1. Asks(Sent(category # Null, "category", category), "category", category # Null, category)
      BY DEF Sent, Asks
    <2> HIDE DEF category
    <2>2. QED
      BY <2>1, Prefilled DEF Opened, Carries, category
  <1>4. occupation_ids = IF "occupation_id" \in DOMAIN v THEN {v["occupation_id"]} ELSE {}
    BY StatedValues DEF VacancyValueOf
  <1>5. IsFiniteSet(occupation_ids)
    <2> HIDE DEF occupation_ids
    <2>1. QED
      BY <1>4, FS_Singleton, FS_EmptySet
  <1> HIDE DEF filters, occupation_ids, category
  <1>6. \A held : AnyOf(filters, "occupationIds", held)
                    <=> (occupation_ids # {} => occupation_ids \cap held # {})
    BY <1>2, <1>5, ListAsks
  <1>7. AnyOf(filters, "occupationIds", Occupations(c))
          <=> ("occupation_id" \in DOMAIN v => v["occupation_id"] \in Occupations(c))
    BY <1>4, <1>6
  <1>8. AnyOf(filters, "occupationLevelIds", {c.occupation.level})
    BY <1>1 DEF AnyOf
  <1>9. QED
    BY <1>1, <1>3, <1>7, <1>8 DEF WhereOccupation, If, Asks, filters, category

\* By its first day, whoever has said a date.
LEMMA AvailableAsked ==
  ASSUME NEW v, VacancyInOrder(v), NEW c
  PROVE  WhereAvailable(Opened(v), c, Today)
           <=> ("starts_on" \in DOMAIN v =>
                  Of(c, "available_from") = Null \/ ~Later(Of(c, "available_from"), v["starts_on"]))
  <1> DEFINE filters == Opened(v)
  <1>1. "availableImmediately" \notin DOMAIN filters
    BY OnlyNamed DEF FilterNames
  <1>2. Asks(filters, "availableBy", "starts_on" \in DOMAIN v, v["starts_on"])
    BY Prefilled, PrefilledTerms DEF Opened, Carries
  <1>3. "starts_on" \in DOMAIN v => v["starts_on"] # Null
    BY StatedValues
  <1> HIDE DEF filters
  <1>4. QED
    BY <1>1, <1>2, <1>3 DEF WhereAvailable, Asks, filters

\* The ages, counted by the database from the birth date, and the gender.
LEMMA RestrictionsAsked ==
  ASSUME NEW v, VacancyInOrder(v), NEW c, NEW born, born = Of(c, "date_of_birth"),
         born # Null => born \in Nat \X Nat \X Nat /\ Exists(born)
  PROVE  WhereRestrictions(Opened(v), c, Today)
           <=> /\ "age_min" \in DOMAIN v => born # Null /\ AgeOn(Today, born) >= v["age_min"]
               /\ "age_max" \in DOMAIN v => born # Null /\ AgeOn(Today, born) <= v["age_max"]
               /\ "gender_id" \in DOMAIN v => Of(c, "gender_id") = v["gender_id"]
  <1> DEFINE filters == Opened(v)
  <1>1. /\ Asks(filters, "ageMin", "age_min" \in DOMAIN v, v["age_min"])
        /\ Asks(filters, "ageMax", "age_max" \in DOMAIN v, v["age_max"])
        /\ Asks(filters, "genderId", "gender_id" \in DOMAIN v, v["gender_id"])
    BY Prefilled, PrefilledRestrictions DEF Opened, Carries
  <1> HIDE DEF filters
  <1>2. \A code \in {"age_min", "age_max"} \cap DOMAIN v : v[code] \in Nat
    BY StatedValues
  <1>3. \A k \in Nat : born # Null =>
          (~Later(born, DatabaseYearsBefore(Today, k)) <=> AgeOn(Today, born) >= k)
    BY DatabaseAges, TodayAssumption
  <1>4. born # Null => AgeOn(Today, born) \in Int
    BY TodayAssumption DEF AgeOn
  <1>5. \A k \in Nat : born # Null => (BornAfter(born, Today, k) <=> AgeOn(Today, born) <= k)
    <2> SUFFICES ASSUME NEW k \in Nat, born # Null
                 PROVE  BornAfter(born, Today, k) <=> AgeOn(Today, born) <= k
      OBVIOUS
    <2>1. ~BornAfter(born, Today, k) <=> AgeOn(Today, born) >= k + 1
      BY <1>3 DEF BornAfter
    <2>2. QED
      BY <1>4, <2>1
  <1>6. If(filters, "ageMin",
           born # Null /\ ~Later(born, DatabaseYearsBefore(Today, filters["ageMin"])))
          <=> ("age_min" \in DOMAIN v => born # Null /\ AgeOn(Today, born) >= v["age_min"])
    BY <1>1, <1>2, <1>3 DEF If, Asks
  <1>7. If(filters, "ageMax", born # Null /\ BornAfter(born, Today, filters["ageMax"]))
          <=> ("age_max" \in DOMAIN v => born # Null /\ AgeOn(Today, born) <= v["age_max"])
    BY <1>1, <1>2, <1>5 DEF If, Asks
  <1>8. If(filters, "genderId", Of(c, "gender_id") = filters["genderId"])
          <=> ("gender_id" \in DOMAIN v => Of(c, "gender_id") = v["gender_id"])
    BY <1>1 DEF If, Asks
  <1>9. QED
    BY <1>6, <1>7, <1>8 DEF WhereRestrictions, filters

\* A budget is compared only with a stated expectation.
LEMMA BudgetAsked ==
  ASSUME NEW v, NEW c
  PROVE  LET pay    == PayOf(v)
             wanted == Of(c, "salary")
             most   == IF pay.to # Null THEN pay.to ELSE pay.from
         IN If(Opened(v), "salaryMax",
               wanted.negotiable \/ wanted.from = Null \/ wanted.from <= Opened(v)["salaryMax"])
              <=> \/ pay.negotiable \/ most = Null
                  \/ wanted.negotiable \/ wanted.from = Null \/ wanted.from <= most
  <1> DEFINE filters == Opened(v)
             pay     == PayOf(v)
             most    == IF pay.to # Null THEN pay.to ELSE pay.from
  <1>1. Asks(PrefillBudget(v), "salaryMax", ~pay.negotiable /\ most # Null, most)
    BY DEF PrefillBudget, Sent, Asks
  <1> HIDE DEF pay, most
  <1>2. Asks(filters, "salaryMax", ~pay.negotiable /\ most # Null, most)
    BY <1>1, Prefilled DEF Opened, Carries
  <1> HIDE DEF filters
  <1>3. QED
    BY <1>2 DEF If, Asks, filters, pay, most

\* One of the ids a vacancy lists under a multi-select.
LEMMA ChoicesAsked ==
  ASSUME NEW v, VacancyInOrder(v), NEW held
  PROVE  LET asks(name, code) ==
               AnyOf(Opened(v), name, held)
                 <=> (VacancyValueOf(code, v) # {} => VacancyValueOf(code, v) \cap held # {})
         IN /\ asks("specializationIds", "specialization")
            /\ asks("employmentTypeIds", "employment_type_ids")
            /\ asks("workFormatIds", "work_format_ids")
            /\ asks("shiftIds", "shift_ids")
  <1> DEFINE filters == Opened(v)
             names == {"educationLevelIds", "specializationIds", "experienceYearsMin",
                       "employmentTypeIds", "workFormatIds", "shiftIds", "availableBy"}
             listed(part, name, code) == Asks(part, name, VacancyValueOf(code, v) # {},
                                              SetToSeq(VacancyValueOf(code, v)))
  <1>1. /\ listed(PrefillTerms(v), "specializationIds", "specialization")
        /\ listed(PrefillTerms(v), "employmentTypeIds", "employment_type_ids")
        /\ listed(PrefillTerms(v), "workFormatIds", "work_format_ids")
        /\ listed(PrefillTerms(v), "shiftIds", "shift_ids")
    BY PrefilledTerms
  <1>2. Carries(filters, PrefillTerms(v), names)
    BY Prefilled DEF Opened
  <1>3. /\ listed(filters, "specializationIds", "specialization")
        /\ listed(filters, "employmentTypeIds", "employment_type_ids")
        /\ listed(filters, "workFormatIds", "work_format_ids")
        /\ listed(filters, "shiftIds", "shift_ids")
    <2> HIDE DEF filters
    <2>1. QED
      BY <1>1, <1>2 DEF Carries
  <1>4. \A code \in {"specialization"} \cup PREFERENCE_FIELD_CODES :
          IsFiniteSet(VacancyValueOf(code, v))
    BY StatedValues
  <1> HIDE DEF filters
  <1>5. \A name : \A code \in {"specialization"} \cup PREFERENCE_FIELD_CODES :
          listed(filters, name, code) =>
            (AnyOf(filters, name, held)
               <=> (VacancyValueOf(code, v) # {} => VacancyValueOf(code, v) \cap held # {}))
    BY <1>4, ListAsks
  <1>6. QED
    BY <1>3, <1>5 DEF PREFERENCE_FIELD_CODES, filters

\* The preferences and the budget; no least salary.
LEMMA TermsAsked ==
  ASSUME NEW v, VacancyInOrder(v), NEW c
  PROVE  LET pay    == PayOf(v)
             wanted == Of(c, "salary")
             most   == IF pay.to # Null THEN pay.to ELSE pay.from
         IN WhereTerms(Opened(v), c)
              <=> /\ \A code \in PREFERENCE_FIELD_CODES :
                       VacancyValueOf(code, v) # {} => VacancyValueOf(code, v) \cap Of(c, code) # {}
                  /\ \/ pay.negotiable \/ most = Null
                     \/ wanted.negotiable \/ wanted.from = Null \/ wanted.from <= most
  <1> DEFINE chosen(code) ==
        VacancyValueOf(code, v) # {} => VacancyValueOf(code, v) \cap Of(c, code) # {}
  <1>1. "salaryMin" \notin DOMAIN Opened(v)
    BY OnlyNamed DEF FilterNames
  <1>2. /\ AnyOf(Opened(v), "employmentTypeIds", Of(c, "employment_type_ids"))
             <=> chosen("employment_type_ids")
        /\ AnyOf(Opened(v), "workFormatIds", Of(c, "work_format_ids")) <=> chosen("work_format_ids")
        /\ AnyOf(Opened(v), "shiftIds", Of(c, "shift_ids")) <=> chosen("shift_ids")
    BY ChoicesAsked
  <1>3. (\A code \in PREFERENCE_FIELD_CODES : chosen(code))
          <=> chosen("employment_type_ids") /\ chosen("work_format_ids") /\ chosen("shift_ids")
    BY DEF PREFERENCE_FIELD_CODES
  <1> HIDE DEF chosen
  <1>4. QED
    BY <1>1, <1>2, <1>3, BudgetAsked DEF WhereTerms, If, chosen

\* A degree of the level, and one of the specializations.
LEMMA EducationAsked ==
  ASSUME NEW v, VacancyInOrder(v), NEW c
  PROVE  WhereEducation(Opened(v), c)
           <=> /\ "education_level_id" \in DOMAIN v => v["education_level_id"] \in c.degrees
               /\ VacancyValueOf("specialization", v) # {} =>
                    VacancyValueOf("specialization", v) \cap Of(c, "specialization") # {}
  <1> DEFINE filters == Opened(v)
             level == {VacancyValueOf("education_level_id", v)} \ {Null}
  <1>1. Asks(filters, "educationLevelIds", level # {}, SetToSeq(level))
    <2>1. Asks(PrefillTerms(v), "educationLevelIds", level # {}, SetToSeq(level))
      BY PrefilledTerms
    <2> HIDE DEF level
    <2>2. QED
      BY <2>1, Prefilled DEF Opened, Carries
  <1>2. level = IF "education_level_id" \in DOMAIN v THEN {v["education_level_id"]} ELSE {}
    BY StatedValues DEF VacancyValueOf
  <1> HIDE DEF filters, level
  <1>3. IsFiniteSet(level)
    BY <1>2, FS_Singleton, FS_EmptySet
  <1>4. \A held : AnyOf(filters, "educationLevelIds", held) <=> (level # {} => level \cap held # {})
    BY <1>1, <1>3, ListAsks
  <1>5. AnyOf(filters, "educationLevelIds", c.degrees)
          <=> ("education_level_id" \in DOMAIN v => v["education_level_id"] \in c.degrees)
    BY <1>2, <1>4
  <1>6. QED
    BY <1>5, ChoicesAsked DEF WhereEducation, filters

\* The years of all jobs; none in an occupation or now.
LEMMA ExperienceAsked ==
  ASSUME NEW v, NEW c
  PROVE  WhereExperience(Opened(v), c)
           <=> ("experience_years_min" \in DOMAIN v =>
                  ExperienceYears(c.jobs) >= 10 * v["experience_years_min"])
  <1> DEFINE filters == Opened(v)
  <1>1. /\ "occupationExperienceYearsMin" \notin DOMAIN filters
        /\ "currentOccupationIds" \notin DOMAIN filters
    BY OnlyNamed DEF FilterNames
  <1>2. Asks(filters, "experienceYearsMin", "experience_years_min" \in DOMAIN v,
             v["experience_years_min"])
    BY Prefilled, PrefilledTerms DEF Opened, Carries
  <1> HIDE DEF filters
  <1>3. AnyOf(filters, "currentOccupationIds", {j.occupation : j \in {k \in c.jobs : k.current}})
    BY <1>1 DEF AnyOf
  <1>4. If(filters, "occupationExperienceYearsMin",
           ExperienceYears({j \in c.jobs : j.occupation \in ToSet(filters["occupationIds"])})
             >= 10 * filters["occupationExperienceYearsMin"])
    BY <1>1 DEF If
  <1>5. If(filters, "experienceYearsMin",
           ExperienceYears(c.jobs) >= 10 * filters["experienceYearsMin"])
          <=> ("experience_years_min" \in DOMAIN v =>
                 ExperienceYears(c.jobs) >= 10 * v["experience_years_min"])
    BY <1>2 DEF If, Asks
  <1>6. QED
    BY <1>3, <1>4, <1>5 DEF WhereExperience, filters

\* Nothing of the profile's completeness or age.
LEMMA StatusAsked ==
  ASSUME NEW v, NEW c
  PROVE  WhereStatus(Opened(v), c)
  <1>1. "minCompleteness" \notin DOMAIN Opened(v) /\ "updatedSince" \notin DOMAIN Opened(v)
    BY OnlyNamed DEF FilterNames
  <1>2. QED
    BY <1>1 DEF WhereStatus, AtLeast, If

\* Whether a candidate has every skill or language a vacancy calls mandatory, at
\* its level.
Masters(v, c, code) ==
  \A r \in Mandatory(v, code) : \E s \in Of(c, code) : s.item = r.item /\ s.rank >= r.rank

\* The rows a vacancy calls mandatory are finitely many, with a level each.
LEMMA MandatoryRows ==
  ASSUME NEW v, VacancyInOrder(v), NEW code \in {"skills", "languages"}
  PROVE  /\ IsFiniteSet(Mandatory(v, code))
         /\ \A r \in Mandatory(v, code) : r.rank \in Int
  <1>1. /\ IsFiniteSet(VacancyValueOf(code, v))
        /\ \A r \in VacancyValueOf(code, v) : r.rank \in Int
    BY StatedValues
  <1>2. Mandatory(v, code) \subseteq VacancyValueOf(code, v)
    BY DEF Mandatory
  <1>3. QED
    BY <1>1, <1>2, FS_Subset

\* Sets of at most one rank have one.
LEMMA OnlyOne ==
  ASSUME NEW S, IsFiniteSet(S), Cardinality(S) <= 1, NEW x \in S, NEW y \in S
  PROVE  x = y
  <1> SUFFICES ASSUME x # y PROVE FALSE
    OBVIOUS
  <1>1. {x, y} \subseteq S
    OBVIOUS
  <1>2. IsFiniteSet({x}) /\ Cardinality({x}) = 1
    BY FS_Singleton
  <1>3. IsFiniteSet({x, y}) /\ Cardinality({x, y}) = 2
    <2>1. Cardinality({x} \cup {y}) = Cardinality({x}) + 1 /\ IsFiniteSet({x} \cup {y})
      BY <1>2, FS_AddElement
    <2>2. {x} \cup {y} = {x, y}
      OBVIOUS
    <2>3. QED
      BY <1>2, <2>1, <2>2
  <1>4. Cardinality({x, y}) <= Cardinality(S)
    BY <1>1, FS_Subset
  <1>5. Cardinality(S) \in Nat
    BY FS_CardinalityType
  <1>6. QED
    BY <1>3, <1>4, <1>5

\* Whoever has the skills is found by them; and if they are asked at one level,
\* nobody else.
LEMMA SkillsAsked ==
  ASSUME NEW v, VacancyInOrder(v), NEW c, \A s \in Of(c, "skills") : s.rank \in Int
  PROVE  /\ Masters(v, c, "skills") => WhereSkills(Opened(v), c)
         /\ WhereSkills(Opened(v), c) /\ OneFloor(v) => Masters(v, c, "skills")
  <1> DEFINE filters == Opened(v)
             rows    == Mandatory(v, "skills")
             items   == {r.item : r \in rows}
             ranks   == {r.rank : r \in rows}
             floor   == SkillFloor(rows)
             held    == SkillsAt(c, filters)
             itemOf  == [r \in rows |-> r.item]
             rankOf  == [r \in rows |-> r.rank]
  <1>1. IsFiniteSet(rows) /\ \A r \in rows : r.rank \in Int
    BY MandatoryRows
  <1>2. /\ Asks(filters, "skillIds", rows # {}, SetToSeq(items))
        /\ Asks(filters, "skillsMatchAll", rows # {}, TRUE)
        /\ Asks(filters, "skillMinLevelRank", rows # {}, floor)
    <2>1. /\ Asks(PrefillSkills(v), "skillIds", rows # {}, SetToSeq(items))
          /\ Asks(PrefillSkills(v), "skillsMatchAll", rows # {}, TRUE)
          /\ Asks(PrefillSkills(v), "skillMinLevelRank", rows # {}, floor)
      BY PrefilledSkills
    <2> HIDE DEF rows, items, floor
    <2>2. QED
      BY <2>1, Prefilled DEF Opened, Carries
  <1>3. items = {itemOf[r] : r \in DOMAIN itemOf} /\ DOMAIN itemOf = rows
    OBVIOUS
  <1>4. ranks = {rankOf[r] : r \in DOMAIN rankOf} /\ DOMAIN rankOf = rows
    OBVIOUS
  <1>5. held = {s.item : s \in {q \in Of(c, "skills") :
                  "skillMinLevelRank" \in DOMAIN filters => q.rank >= filters["skillMinLevelRank"]}}
    BY DEF SkillsAt
  <1>6. floor = Lowest(ranks)
    BY DEF SkillFloor
  <1>7. OneFloor(v) <=> Cardinality(ranks) <= 1
    BY DEF OneFloor
  <1>8. Masters(v, c, "skills")
          <=> \A r \in rows : \E s \in Of(c, "skills") : s.item = r.item /\ s.rank >= r.rank
    BY DEF Masters
  <1>9. (items = {} <=> rows = {}) /\ (ranks = {} <=> rows = {}) /\ ranks \subseteq Int
    BY <1>1
  <1> HIDE DEF filters, itemOf, rankOf, floor, held
  <1>10. IsFiniteSet(items) /\ IsFiniteSet(ranks)
    <2> HIDE DEF items, ranks, rows
    <2>1. QED
      BY <1>1, <1>3, <1>4, FewValues
  <1>11. CASE rows = {}
    <2>1. WhereSkills(filters, c)
      BY <1>2, <1>11 DEF WhereSkills, AnyOf, Asks
    <2>2. QED
      BY <1>8, <1>11, <2>1 DEF filters
  <1>12. CASE rows # {}
    <2>1. WhereSkills(filters, c) <=> items \subseteq held
      <3>1. items # {} <=> rows # {}
        BY <1>9
      <3> HIDE DEF items, ranks, rows
      <3>2. Asks(filters, "skillIds", items # {}, SetToSeq(items))
        BY <1>2, <3>1 DEF Asks
      <3>3. "skillIds" \in DOMAIN filters /\ "skillsMatchAll" \in DOMAIN filters
        BY <1>2, <1>12 DEF Asks
      <3>4. AllOf(filters, "skillIds", held) <=> items \subseteq held
        BY <1>10, <3>2, <3>3, ListAsks
      <3>5. QED
        BY <3>3, <3>4 DEF WhereSkills, held
    <2>2. held = {s.item : s \in {q \in Of(c, "skills") : q.rank >= floor}}
      BY <1>2, <1>5, <1>12 DEF Asks
    <2>3. floor \in Int /\ \A r \in rows : floor <= r.rank
      <3>1. floor \in ranks /\ \A rank \in ranks : floor <= rank
        <4> HIDE DEF ranks, rows
        <4>1. QED
          BY <1>6, <1>9, <1>10, <1>12, LowestRank
      <3>2. QED
        BY <1>9, <3>1
    <2>4. OneFloor(v) => \A r \in rows : floor = r.rank
      <3>1. floor \in ranks
        <4> HIDE DEF ranks, rows
        <4>1. QED
          BY <1>6, <1>9, <1>10, <1>12, LowestRank
      <3>2. OneFloor(v) => \A rank \in ranks : floor = rank
        <4> HIDE DEF ranks
        <4>1. QED
          BY <1>7, <1>10, <3>1, OnlyOne
      <3>3. QED
        BY <3>2
    <2>5. ASSUME Masters(v, c, "skills") PROVE items \subseteq held
      <3>1. ASSUME NEW r \in rows PROVE r.item \in held
        <4>1. PICK s \in Of(c, "skills") : s.item = r.item /\ s.rank >= r.rank
          BY <1>8, <2>5
        <4>2. s.rank >= floor
          BY <1>1, <2>3, <4>1
        <4>3. QED
          BY <2>2, <4>1, <4>2
      <3>2. QED
        BY <3>1
    <2>6. ASSUME OneFloor(v), items \subseteq held PROVE Masters(v, c, "skills")
      BY <1>8, <2>2, <2>4, <2>6
    <2>7. QED
      BY <2>1, <2>5, <2>6 DEF filters
  <1>13. QED
    BY <1>11, <1>12

\* The languages, each at its own level.
LEMMA LanguagesAsked ==
  ASSUME NEW v, VacancyInOrder(v), NEW c
  PROVE  WhereLanguages(Opened(v), c) <=> Masters(v, c, "languages")
  <1> DEFINE filters == Opened(v)
             rows    == Mandatory(v, "languages")
             asked   == [r \in rows |-> [item |-> r.item, minLevelRank |-> r.rank,
                                         certificate |-> FALSE]]
             list    == {[item |-> r.item, minLevelRank |-> r.rank, certificate |-> FALSE] :
                           r \in rows}
  <1>1. IsFiniteSet(rows) /\ \A r \in rows : r.rank \in Int
    BY MandatoryRows
  <1>2. Asks(filters, "languages", list # {}, SetToSeq(list))
    <2>1. Asks(PrefillLanguages(v), "languages", list # {}, SetToSeq(list))
      BY OneAsks DEF PrefillLanguages
    <2> HIDE DEF rows, list
    <2>2. QED
      BY <2>1, Prefilled DEF Opened, Carries
  <1>3. list = {asked[r] : r \in DOMAIN asked} /\ DOMAIN asked = rows
    OBVIOUS
  <1>4. IsFiniteSet(list)
    <2> HIDE DEF rows, asked, list
    <2>1. QED
      BY <1>1, <1>3, FewValues
  <1>5. \A r \in rows :
          Speaks(c, asked[r]) <=> \E s \in Of(c, "languages") : s.item = r.item /\ s.rank >= r.rank
    BY <1>1, NullAssumption DEF Speaks
  <1>6. "languages" \in DOMAIN filters => ToSet(filters["languages"]) = list
    <2> HIDE DEF filters, list
    <2>1. QED
      BY <1>2, <1>4, ListAsks
  <1>7. Masters(v, c, "languages") <=> \A language \in list : Speaks(c, language)
    <2>1. Masters(v, c, "languages") <=> \A r \in rows : Speaks(c, asked[r])
      BY <1>5 DEF Masters
    <2> HIDE DEF rows, asked, list
    <2>2. QED
      BY <1>3, <2>1
  <1> HIDE DEF filters, list
  <1>8. WhereLanguages(filters, c) <=> \A language \in list : Speaks(c, language)
    BY <1>2, <1>6 DEF WhereLanguages, If, Asks
  <1>9. QED
    BY <1>7, <1>8 DEF filters

\* Every attribute, and a crew of more than one.
LEMMA AttributesAsked ==
  ASSUME NEW v, VacancyInOrder(v), NEW c, Of(c, "crew_size") \in {Null} \cup Int
  PROVE  WhereAttributes(Opened(v), c)
           <=> /\ \A code \in ATTRIBUTE_FIELD_CODES :
                    VacancyValueOf(code, v) \subseteq Chosen(c, ATTRIBUTE_FIELD_CODES)
               /\ VacancyValueOf("crew_required", v) = TRUE =>
                    Of(c, "crew_size") # Null /\ Of(c, "crew_size") > 1
  <1> DEFINE filters == Opened(v)
             value(code) == VacancyValueOf(code, v)
             ids     == UNION {VacancyValueOf(code, v) : code \in ATTRIBUTE_FIELD_CODES}
             held    == Chosen(c, ATTRIBUTE_FIELD_CODES)
             crew    == Of(c, "crew_size")
  <1>1. /\ Asks(filters, "attributeIds", ids # {}, SetToSeq(ids))
        /\ Asks(filters, "attributesMatchAll", ids # {}, TRUE)
        /\ Asks(filters, "crewSizeMin", VacancyValueOf("crew_required", v) = TRUE, CREW_MINIMUM)
    <2>1. /\ Asks(PrefillAttributes(v), "attributeIds", ids # {}, SetToSeq(ids))
          /\ Asks(PrefillAttributes(v), "attributesMatchAll", ids # {}, TRUE)
          /\ Asks(PrefillAttributes(v), "crewSizeMin", VacancyValueOf("crew_required", v) = TRUE,
                  CREW_MINIMUM)
      BY PrefilledAttributes
    <2> HIDE DEF ids
    <2>2. QED
      BY <2>1, Prefilled DEF Opened, Carries
  <1>2. IsFiniteSet(ids)
    <2>1. \A code \in ATTRIBUTE_FIELD_CODES : IsFiniteSet(value(code))
      BY StatedValues
    <2>2. ids = (value("licence_ids") \cup value("transport_ids"))
                  \cup (value("tool_ids") \cup value("readiness_ids"))
      BY DEF ATTRIBUTE_FIELD_CODES
    <2> HIDE DEF ids, value
    <2>3. /\ IsFiniteSet(value("licence_ids") \cup value("transport_ids"))
          /\ IsFiniteSet(value("tool_ids") \cup value("readiness_ids"))
      BY <2>1, FS_Union DEF ATTRIBUTE_FIELD_CODES
    <2>4. QED
      BY <2>2, <2>3, FS_Union
  <1>3. ids \subseteq held
          <=> \A code \in ATTRIBUTE_FIELD_CODES : VacancyValueOf(code, v) \subseteq held
    OBVIOUS
  <1> HIDE DEF filters, ids, held
  <1>4. (IF "attributeIds" \in DOMAIN filters /\ "attributesMatchAll" \in DOMAIN filters
         THEN AllOf(filters, "attributeIds", held) ELSE AnyOf(filters, "attributeIds", held))
          <=> ids \subseteq held
    <2>1. CASE ids = {}
      BY <1>1, <2>1 DEF Asks, AnyOf
    <2>2. CASE ids # {}
      <3>1. "attributeIds" \in DOMAIN filters /\ "attributesMatchAll" \in DOMAIN filters
        BY <1>1, <2>2 DEF Asks
      <3>2. AllOf(filters, "attributeIds", held) <=> ids \subseteq held
        BY <1>1, <1>2, <3>1, ListAsks
      <3>3. QED
        BY <3>1, <3>2
    <2>3. QED
      BY <2>1, <2>2
  <1>5. If(filters, "crewSizeMin", crew # Null /\ crew >= filters["crewSizeMin"])
          <=> (VacancyValueOf("crew_required", v) = TRUE => crew # Null /\ crew > 1)
    <2>1. crew # Null => (crew >= 2 <=> crew > 1)
      OBVIOUS
    <2> HIDE DEF crew
    <2>2. QED
      BY <1>1, <2>1 DEF If, Asks, CREW_MINIMUM
  <1>6. QED
    BY <1>3, <1>4, <1>5 DEF WhereAttributes, filters, held

\* The conditions a search from a vacancy comes down to are the vacancy's own, for a
\* candidate whose levels, crew and birth date are read as such.
LEMMA PrefillSelects ==
  ASSUME NEW v, VacancyInOrder(v), NEW c,
         \A s \in Of(c, "skills") : s.rank \in Int,
         Of(c, "crew_size") \in {Null} \cup Int,
         Of(c, "date_of_birth") # Null =>
           Of(c, "date_of_birth") \in Nat \X Nat \X Nat /\ Exists(Of(c, "date_of_birth"))
  PROVE  Selects(WhereFilters(Opened(v), c, Today), Qualifies(v, c), OneFloor(v))
  <1> DEFINE filters == Opened(v)
             others  == /\ SearchableCandidate(c)
                        /\ WhereOccupation(filters, c) /\ WhereExperience(filters, c)
                        /\ WhereLanguages(filters, c) /\ WhereEducation(filters, c)
                        /\ WherePlace(filters, c) /\ WhereTerms(filters, c)
                        /\ WhereAvailable(filters, c, Today) /\ WhereAttributes(filters, c)
                        /\ WhereRestrictions(filters, c, Today)
  <1>1. WhereFilters(filters, c, Today) <=> others /\ WhereSkills(filters, c)
    BY StatusAsked DEF WhereFilters
  <1>2. Qualifies(v, c) <=> others /\ Masters(v, c, "skills")
    <2> DEFINE chosen(code) ==
          VacancyValueOf(code, v) # {} => VacancyValueOf(code, v) \cap Of(c, code) # {}
    <2>1. MeetsRequirements(v, c)
            <=> /\ Masters(v, c, "skills") /\ Masters(v, c, "languages")
                /\ \A code \in ATTRIBUTE_FIELD_CODES :
                     VacancyValueOf(code, v) \subseteq Chosen(c, ATTRIBUTE_FIELD_CODES)
                /\ \A code \in PREFERENCE_FIELD_CODES : chosen(code)
                /\ chosen("specialization")
                /\ "education_level_id" \in DOMAIN v => v["education_level_id"] \in c.degrees
                /\ "experience_years_min" \in DOMAIN v =>
                     ExperienceYears(c.jobs) >= 10 * v["experience_years_min"]
                /\ VacancyValueOf("crew_required", v) = TRUE =>
                     Of(c, "crew_size") # Null /\ Of(c, "crew_size") > 1
      <3>1. (\A code \in PREFERENCE_FIELD_CODES \cup {"specialization"} : chosen(code))
              <=> (\A code \in PREFERENCE_FIELD_CODES : chosen(code)) /\ chosen("specialization")
        OBVIOUS
      <3>2. (\A code \in {"skills", "languages"} : Masters(v, c, code))
              <=> Masters(v, c, "skills") /\ Masters(v, c, "languages")
        OBVIOUS
      <3>3. QED
        BY <3>1, <3>2, Zenon DEF MeetsRequirements, Masters
    <2>2. (\A code \in {"region_id", "district_id", "gender_id"} \cap DOMAIN v :
             Of(c, code) = v[code])
            <=> /\ \A code \in {"region_id", "district_id"} \cap DOMAIN v : Of(c, code) = v[code]
                /\ "gender_id" \in DOMAIN v => Of(c, "gender_id") = v["gender_id"]
      OBVIOUS
    <2> DEFINE preferences == \A code \in PREFERENCE_FIELD_CODES : chosen(code)
               pay    == PayOf(v)
               wanted == Of(c, "salary")
               most   == IF pay.to # Null THEN pay.to ELSE pay.from
               budget == \/ pay.negotiable \/ most = Null
                         \/ wanted.negotiable \/ wanted.from = Null \/ wanted.from <= most
    <2>3. WhereTerms(filters, c) <=> preferences /\ budget
      BY TermsAsked
    <2>4. WhereEducation(filters, c)
            <=> /\ "education_level_id" \in DOMAIN v => v["education_level_id"] \in c.degrees
                /\ chosen("specialization")
      BY EducationAsked
    <2>5. MeetsTerms(v, c)
            <=> /\ WhereOccupation(filters, c) /\ WherePlace(filters, c) /\ budget
                /\ WhereAvailable(filters, c, Today) /\ WhereRestrictions(filters, c, Today)
      <3> HIDE DEF filters
      <3>1. QED
        BY <2>2, OccupationAsked, PlaceAsked, AvailableAsked, RestrictionsAsked
           DEF MeetsTerms, filters
    <2> HIDE DEF chosen
    <2>6. MeetsRequirements(v, c)
            <=> /\ Masters(v, c, "skills") /\ WhereLanguages(filters, c) /\ preferences
                /\ WhereAttributes(filters, c) /\ WhereEducation(filters, c)
                /\ WhereExperience(filters, c)
      BY <2>1, <2>4, LanguagesAsked, AttributesAsked, ExperienceAsked
    <2> HIDE DEF filters, preferences, budget
    <2>7. QED
      BY <2>3, <2>5, <2>6 DEF Qualifies
  <1>3. QED
    BY <1>1, <1>2, SkillsAsked DEF Selects

\* The candidate's levels, crew and birth date are read as such.
LEMMA LiveReads ==
  ASSUME ValuesReadBack
  PROVE  /\ \A s \in Of(Live, "skills") : s.rank \in Int
         /\ Of(Live, "crew_size") \in {Null} \cup Int
         /\ Of(Live, "date_of_birth") # Null =>
              Of(Live, "date_of_birth") \in Nat \X Nat \X Nat /\ Exists(Of(Live, "date_of_birth"))
  <1>1. \A code \in {"skills", "crew_size", "date_of_birth"} :
          Of(Live, code) = ValueOf(code, answers, occupation)
    BY DEF Of, Live, ValueOf, Given
  <1>2. \A code \in {"skills", "crew_size", "date_of_birth"} :
          ValueOK(CandidateForm[code], Of(Live, code))
    BY <1>1, FormAssumption DEF ValuesReadBack
  <1>3. ASSUME NEW s \in Of(Live, "skills") PROVE s.rank \in Int
    <2> DEFINE field == CandidateForm["skills"]
    <2>1. RowOK(field, s)
      BY <1>2, FormAssumption DEF ValueOK, RowsOK
    <2>2. /\ s = [item |-> s.item, level |-> s.level, rank |-> Items[s.level].rank,
                  extra |-> [e \in DOMAIN field.extras |-> s.extra[e]]]
          /\ LevelUsable(field, Id(s.level))
      BY <2>1 DEF RowOK
    <2>3. s.rank = Items[s.level].rank
      BY <2>2
    <2>4. s.level \in DOMAIN Items /\ Items[s.level].rank # Null
      BY <2>2 DEF LevelUsable, Usable, Id, Words
    <2>5. QED
      BY <2>3, <2>4, ItemsAssumption
  <1>4. \A code \in {"crew_size", "date_of_birth"} :
          DayOrNumberOK(CandidateForm[code], Of(Live, code))
    BY <1>2, FormAssumption DEF ValueOK
  <1>5. QED
    BY <1>3, <1>4, FormAssumption DEF DayOrNumberOK

\* A content a search is opened from is in order, and breaks no check.
LEMMA OpeningsInOrder ==
  ASSUME NEW o \in Openings
  PROVE  /\ VacancyInOrder(o.vacancy) /\ BrokenChecks(o.vacancy) = {}
         /\ o.filters = Opened(o.vacancy)
  <1>1. PICK v \in Contents : o = [vacancy |-> v, filters |-> Prefill(VacancyCategory(v), v)]
    BY DEF Openings
  <1>2. v \in Written1 \cup Written2 /\ BrokenChecks(v) = {}
    BY DEF Contents, Stored1
  <1>3. QED
    BY <1>1, <1>2, ContentsInOrder DEF Opened

\* So the search finds whoever qualifies.
LEMMA FindsTheQualified ==
  ASSUME ValuesReadBack
  PROVE  PrefillFindsTheQualified
  BY OpeningsInOrder, LiveReads, PrefillSelects DEF PrefillFindsTheQualified

\* A vacancy's own restrictions are those its search uses, with their reason.
LEMMA RestrictionsCarried ==
  ASSUME NEW v, BrokenChecks(v) = {}, Submittable(v)
  PROVE  FiltersPermitted(Opened(v))
  <1> DEFINE filters == Opened(v)
  <1>1. "occupationExperienceYearsMin" \notin DOMAIN filters
    BY OnlyNamed DEF FilterNames
  <1>2. /\ Asks(filters, "ageMin", "age_min" \in DOMAIN v, v["age_min"])
        /\ Asks(filters, "ageMax", "age_max" \in DOMAIN v, v["age_max"])
        /\ Asks(filters, "genderId", "gender_id" \in DOMAIN v, v["gender_id"])
        /\ Asks(filters, "restrictionJustificationId", "restriction_justification_id" \in DOMAIN v,
                v["restriction_justification_id"])
    BY Prefilled, PrefilledRestrictions DEF Opened, Carries
  <1> HIDE DEF filters
  <1>3. RestrictionsUsed(filters) = RestrictionKinds(v)
    <2>1. {"ageMin", "ageMax"} \cap DOMAIN filters # {}
            <=> {"age_min", "age_max"} \cap DOMAIN v # {}
      BY <1>2 DEF Asks
    <2>2. "genderId" \in DOMAIN filters <=> "gender_id" \in DOMAIN v
      BY <1>2 DEF Asks
    <2>3. QED
      BY <2>1, <2>2 DEF RestrictionsUsed, RestrictionKinds
  <1>4. RestrictionKinds(v) # {} =>
          /\ "restriction_justification_id" \in DOMAIN v
          /\ IsJustificationValid(v["restriction_justification_id"], RestrictionKinds(v))
    <2>1. RestrictionKinds(v) # {} => JustificationOf(v) # Null
      BY DEF BrokenChecks, When
    <2>2. QED
      BY <2>1 DEF Submittable, JustificationOf
  <1>5. QED
    BY <1>1, <1>2, <1>3, <1>4 DEF FiltersPermitted, Asks, filters

\* The numbers a vacancy's search asks for are within the search's bounds.
LEMMA NumbersAccepted ==
  ASSUME NEW v, VacancyInOrder(v), BrokenChecks(v) = {},
         100 \notin {VacancyValueOf(code, v) : code \in {"age_min", "age_max"}}
  PROVE  AcceptedByDto(Opened(v))
  <1> DEFINE filters == Opened(v)
             pay     == PayOf(v)
             most    == IF pay.to # Null THEN pay.to ELSE pay.from
  <1>1. /\ "occupationExperienceYearsMin" \notin DOMAIN filters
        /\ "salaryMin" \notin DOMAIN filters /\ "minCompleteness" \notin DOMAIN filters
    BY OnlyNamed DEF FilterNames
  <1>2. /\ Asks(filters, "ageMin", "age_min" \in DOMAIN v, v["age_min"])
        /\ Asks(filters, "ageMax", "age_max" \in DOMAIN v, v["age_max"])
    BY Prefilled, PrefilledRestrictions DEF Opened, Carries
  <1>3. Asks(filters, "experienceYearsMin", "experience_years_min" \in DOMAIN v,
             v["experience_years_min"])
    BY Prefilled, PrefilledTerms DEF Opened, Carries
  <1>4. Asks(filters, "crewSizeMin", VacancyValueOf("crew_required", v) = TRUE, CREW_MINIMUM)
    BY Prefilled, PrefilledAttributes DEF Opened, Carries
  <1>5. Asks(filters, "salaryMax", ~pay.negotiable /\ most # Null, most)
    <2>1. Asks(PrefillBudget(v), "salaryMax", ~pay.negotiable /\ most # Null, most)
      BY DEF PrefillBudget, Sent, Asks
    <2> HIDE DEF most, pay
    <2>2. QED
      BY <2>1, Prefilled DEF Opened, Carries
  <1>6. most # Null => most \in Int /\ most >= 0
    <2>1. pay.from \in {Null} \cup Int /\ pay.to \in {Null} \cup Int
      <3>1. CASE "salary" \in DOMAIN v
        BY <3>1, VacancyFormAssumption DEF VacancyInOrder, StatedOK, PayHolds, PayOf, VacancyValueOf
      <3>2. CASE "salary" \notin DOMAIN v
        BY <3>2, VacancyFormAssumption DEF PayOf, VacancyValueOf, EmptyFor, NoPay
      <3>3. QED
        BY <3>1, <3>2
    <2>2. \A amount \in {pay.from, pay.to} \ {Null} : ~(amount < 0)
      BY DEF BrokenChecks, When
    <2>3. QED
      BY <2>1, <2>2
  <1>7. \A code \in {"age_min", "age_max"} \cap DOMAIN v : v[code] \in 14..99
    <2>1. \A code \in {"age_min", "age_max"} \cap DOMAIN v : v[code] \in 14..100 /\ v[code] # 100
      BY StatedValues DEF VacancyValueOf
    <2>2. QED
      BY <2>1
  <1>8. "experience_years_min" \in DOMAIN v => v["experience_years_min"] \in 0..70
    BY StatedValues
  <1> HIDE DEF filters, pay, most
  <1>9. \A name \in {"ageMin", "ageMax"} \cap DOMAIN filters : filters[name] \in 14..99
    BY <1>2, <1>7 DEF Asks
  <1>10. \A name \in {"experienceYearsMin", "occupationExperienceYearsMin"} \cap DOMAIN filters :
           filters[name] \in 0..70
    BY <1>1, <1>3, <1>8 DEF Asks
  <1>11. \A name \in {"salaryMin", "salaryMax"} \cap DOMAIN filters : filters[name] >= 0
    BY <1>1, <1>5, <1>6 DEF Asks
  <1>12. "crewSizeMin" \in DOMAIN filters => filters["crewSizeMin"] >= 1
    BY <1>4 DEF Asks, CREW_MINIMUM
  <1>13. QED
    BY <1>1, <1>9, <1>10, <1>11, <1>12 DEF AcceptedByDto, filters

\* So the search accepts the filter set of a vacancy that may be submitted.
LEMMA PermittedAlways ==
  PrefillIsPermitted
  BY OpeningsInOrder, RestrictionsCarried, NumbersAccepted DEF PrefillIsPermitted, PermittedToSearch

\* Whatever bodies an employer and a candidate send, in any order and with any
\* requests in flight: the search a vacancy opens is one the search accepts; it finds
\* whoever the vacancy would have, and nobody else unless skills are asked at several
\* levels; and a search scores in full whoever it admits without a choice
\* (search-prefill.ts:17-132, candidate-search.service.ts:501-530,
\* search-filters.ts:195-248).
THEOREM PrefillAlwaysHolds ==
  ASSUME NEW full, BodyOK(full), NEW record \in Records
  PROVE  InitWith(full, record) /\ [][Next]_vars => []PrefillHolds
  <1>1. InitWith(full, record) => IInv /\ ValuesReadBack
    BY InitInv, ReadBackInit
  <1>2. IInv /\ ValuesReadBack /\ [Next]_vars => IInv' /\ ValuesReadBack'
    BY NextInv, ReadBackNext
  <1>3. ValuesReadBack => PrefillHolds
    BY PermittedAlways, FindsTheQualified, AdmittedScoreFullAlways DEF PrefillHolds
  <1>4. QED
    BY <1>1, <1>2, <1>3, PTL

================================================================================
