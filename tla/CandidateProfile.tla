----------------------------- MODULE CandidateProfile ----------------------------
(***************************************************************************)
(* CandidatesService and HistoryService over the profile's tables: the     *)
(* profile of one candidate, its work and education history, and the       *)
(* completeness derived from both, which is BR-02's gate.                  *)
(*                                                                         *)
(* A PATCH is validated, then locks the profile row.  A history write      *)
(* locks nothing of the profile but, when it inserts, a key share; it      *)
(* reads the profile, computes the derived columns and only then waits for *)
(* the row.  A transaction publishes what it wrote when it commits.        *)
(***************************************************************************)
EXTENDS FieldRules

CONSTANTS
  Bodies,       \* the PATCH bodies a client may send: name -> field code -> raw value
  Today,        \* the calendar day on the platform
  Jobs, Degrees,  \* ids of experience and education records
  Txns,         \* requests in flight at once
  MaxRequests   \* bound: requests that arrive in one behaviour

ASSUME RecordsAssumption == Jobs \cap Degrees = {} /\ Null \notin Jobs \cup Degrees

ASSUME BoundAssumption == MaxRequests \in Nat

ASSUME BodiesAssumption == \A body \in DOMAIN Bodies : BodyOK(Bodies[body])

\* What the declared form has and the items are, as far as the theorems need it.
ASSUME FormAssumption ==
  /\ FormOK(CandidateForm) /\ FormOK(VacancyForm)
  /\ \A code \in DOMAIN CandidateForm : CandidateForm[code].parent # Null => code = "district_id"
  /\ {"primary_occupation_id", "occupation_level_id", "additional_occupation_ids",
      "skills", "languages", "region_id", "date_of_birth", "salary",
      "crew_size"} \subseteq DOMAIN CandidateForm
  /\ CandidateForm["primary_occupation_id"].kind = "single"
  /\ CandidateForm["occupation_level_id"].kind = "single"
  /\ CandidateForm["additional_occupation_ids"].kind = "multi"
  /\ \A code \in {"skills", "languages"} : CandidateForm[code].kind = "leveled"
  /\ CandidateForm["crew_size"].kind = "int"
  /\ CandidateForm["region_id"].kind = "single" /\ CandidateForm["region_id"].type = "region"
  /\ "has_certificate" \in DOMAIN CandidateForm["languages"].extras
  /\ CandidateForm["languages"].extras["has_certificate"].is = "bool"
  /\ CandidateForm["salary"].kind = "money"
  /\ CandidateForm["date_of_birth"].kind = "date"
  /\ CandidateForm["date_of_birth"].notAfter = "today"
  /\ CandidateForm["date_of_birth"].minAge = 14
  /\ RequiredForSearchable(CandidateForm, Null) # {}
  /\ IsFiniteSet(DOMAIN CandidateForm) /\ Cardinality(DOMAIN CandidateForm) < 198

\* Null is no number, no truth value, no date and no operation.
ASSUME NullAssumption ==
  /\ Null \notin Int /\ Null \notin BOOLEAN /\ Null \notin Nat \X Nat \X Nat
  /\ Null \notin {"patch", "add", "update", "remove"}

ASSUME ItemsAssumption ==
  /\ Null \notin DOMAIN Items
  /\ \A i \in DOMAIN Items : Items[i].category \in Everywhere /\ Items[i].rank \in {Null} \cup Int

ASSUME TodayAssumption == Today \in Nat \X Nat \X Nat /\ Exists(Today)

VARIABLES
  row,          \* candidate_profiles: whether it exists, and its derived columns
  answers,      \* columns, skills, languages and attributes: code -> value, if answered
  occupation,   \* candidate_occupations: the primary with its level, and the others
  history,      \* candidate_experience and candidate_education: the records kept
  pc, req, arrived,
  overtaken,    \* ghost: transactions since whose reading another one committed
  stale         \* ghost: the derived columns were written by an overtaken transaction

tables == <<row, answers, occupation, history>>

vars == <<tables, pc, req, arrived, overtaken, stale>>

--------------------------------------------------------------------------------
(* Rows and requests *)

Visibilities == {"searchable", "hidden", "visible_after_apply"}

NoRow == [exists |-> FALSE, category |-> Null, percent |-> 0, complete |-> FALSE,
          visibility |-> "hidden"]

NoAnswers == [code \in {} |-> Null]

NoOccupation == [primary |-> Null, level |-> Null, others |-> {}]

NoRequest == [op |-> Null, category |-> Null, values |-> NoAnswers, record |-> Null,
              created |-> FALSE, seen |-> {}, derived |-> Null]

Records == Jobs \cup Degrees

CategoryOf(item) == IF item = Null THEN Null ELSE Items[item].category

--------------------------------------------------------------------------------
(* applyFields *)

OccupationCodes == {"primary_occupation_id", "occupation_level_id", "additional_occupation_ids"}

Given(values, code, otherwise) == IF code \in DOMAIN values THEN values[code] ELSE otherwise

\* The three fields are one row set, rewritten from what the body leaves out too.
\* A level is a column of the primary row.
WriteOccupations(current, values) ==
  LET primary == Given(values, "primary_occupation_id", current.primary)
      level   == Given(values, "occupation_level_id", current.level)
      others  == Given(values, "additional_occupation_ids", current.others)
  IN [primary |-> primary,
      level   |-> IF primary = Null THEN Null ELSE level,
      others  |-> others \ {primary}]

\* has_certificate is stored TRUE only when it was stated.
WriteLanguages(rows) ==
  {[r EXCEPT !.extra.has_certificate = @ = TRUE] : r \in rows}

Written(code, value) == IF code = "languages" THEN WriteLanguages(value) ELSE value

\* Mutant: a body states the whole profile.
ApplyFieldsWhole(current, category, values) ==
  [code \in {c \in DOMAIN values \ OccupationCodes : Answered(CandidateForm[c], values[c])} |->
     Written(code, values[code])]

\* Sets are rewritten, not merged; what is cleared has no row.
ApplyFields(current, category, values) ==
  LET written == (DOMAIN values \cap FieldsFor(CandidateForm, category)) \ OccupationCodes
      kept    == DOMAIN current \ written
      given   == {code \in written : Answered(CandidateForm[code], values[code])}
  IN [code \in kept \cup given |->
        IF code \in given THEN Written(code, values[code]) ELSE current[code]]

--------------------------------------------------------------------------------
(* profile-state *)

\* The aggregate as transaction t reads it: what is committed, under its own writes.
OwnAnswers(t) == IF req[t].op = "patch"
                 THEN ApplyFields(answers, req[t].category, req[t].values) ELSE answers

OwnOccupation(t) == IF req[t].op = "patch"
                    THEN WriteOccupations(occupation, req[t].values) ELSE occupation

OwnHistory(t) == CASE req[t].op = "add"    -> history \cup {req[t].record}
                   [] req[t].op = "remove" -> history \ {req[t].record}
                   [] OTHER                -> history

ValueOf(code, stored, job) ==
  CASE code = "primary_occupation_id"     -> job.primary
    [] code = "occupation_level_id"       -> job.level
    [] code = "additional_occupation_ids" -> job.others
    [] OTHER -> Given(stored, code, EmptyFor(CandidateForm[code]))

FilledCodes(stored, job, kept) ==
  {code \in DOMAIN CandidateForm : Answered(CandidateForm[code], ValueOf(code, stored, job))}
  \cup (IF kept \cap Jobs # {} THEN {"experience"} ELSE {})
  \cup (IF kept \cap Degrees # {} THEN {"education"} ELSE {})

Derived(category, filled) ==
  LET c == Completeness(category, filled)
  IN [category |-> category, percent |-> c.percent, complete |-> c.complete]

\* candidate_profiles_birth_date_plausible
BirthDatePlausible(stored) ==
  LET day == Given(stored, "date_of_birth", Null) IN
  day # Null => day[1] >= 1920 /\ ~Later(day, DatabaseYearsBefore(Today, 14))

--------------------------------------------------------------------------------
(* Control *)

Started(t) == pc[t] \in {"load", "derive", "write"}

\* Mutant: a PATCH does not lock the profile row.
ExclusiveCreatedOnly(t) == Started(t) /\ req[t].created

\* FOR UPDATE, or the uncommitted insert of the row.
Exclusive(t) == Started(t) /\ (req[t].op = "patch" \/ req[t].created)

\* The foreign key of an inserted record holds a key share of the row.
KeyShare(t) == Started(t) /\ req[t].op = "add"

Others(t) == Txns \ {t}

Continue(t, next, request) ==
  /\ pc' = [pc EXCEPT ![t] = next]
  /\ req' = [req EXCEPT ![t] = request]
  /\ UNCHANGED arrived

Arrive(t, request) ==
  /\ pc[t] = "idle" /\ arrived < MaxRequests
  /\ pc' = [pc EXCEPT ![t] = "begin"]
  /\ req' = [req EXCEPT ![t] = request]
  /\ arrived' = arrived + 1
  /\ UNCHANGED <<tables, overtaken, stale>>

Refuse(t) ==
  /\ Continue(t, "idle", NoRequest)
  /\ overtaken' = overtaken \ {t}
  /\ UNCHANGED <<tables, stale>>

\* Everyone who has read, and not yet committed, is overtaken by t.
Overtake(t) ==
  overtaken' = (overtaken \ {t}) \cup {u \in Others(t) : pc[u] \in {"derive", "write"}}

--------------------------------------------------------------------------------
(* Requests *)

Regions == {Null} \cup {i \in DOMAIN Items : Items[i].type = "region"}

\* What a body comes to, as a table; one whose lookup fails is refused as well.
Validated ==
  [body \in DOMAIN Bodies |-> [category \in Everywhere |-> [region \in Regions |->
     IF LookupFails(CandidateForm, category, Bodies[body])
     THEN [values |-> NoAnswers, rules |-> {"uuid"}]
     ELSE Validate(CandidateForm, category, Bodies[body], [region_id |-> region], Today)]]]

\* patch: a body that is refused changes nothing.
BeginPatch(t, body) ==
  LET category == EffectiveCategory("primary_occupation_id", Bodies[body], row.category)
      result   == Validated[body][category][Given(answers, "region_id", Null)]
  IN /\ pc[t] = "idle"
     /\ result.rules = {}
     /\ Arrive(t, [NoRequest EXCEPT !.op = "patch", !.category = category,
                                    !.values = result.values])

\* assertExperienceCoherent is taken as met.
BeginAdd(t, id) == id \notin history /\ Arrive(t, [NoRequest EXCEPT !.op = "add", !.record = id])

\* The id may be of a record that is gone.
BeginUpdate(t, id) == Arrive(t, [NoRequest EXCEPT !.op = "update", !.record = id])

BeginRemove(t, id) == Arrive(t, [NoRequest EXCEPT !.op = "remove", !.record = id])

--------------------------------------------------------------------------------
(* Transactions *)

\* ensureProfile, then FOR UPDATE.
LockProfile(t) ==
  /\ pc[t] = "begin" /\ req[t].op = "patch"
  /\ \A u \in Others(t) : ~Exclusive(u) /\ ~KeyShare(u)
  /\ Continue(t, "load", [req[t] EXCEPT !.created = ~row.exists])
  /\ UNCHANGED <<tables, overtaken, stale>>

\* ensureProfile, then the insert of the record.
InsertRecord(t) ==
  /\ pc[t] = "begin" /\ req[t].op = "add"
  /\ \A u \in Others(t) : ~Exclusive(u) /\ req[u].record # req[t].record
  /\ req[t].record \notin history
  /\ Continue(t, "load", [req[t] EXCEPT !.created = ~row.exists])
  /\ UNCHANGED <<tables, overtaken, stale>>

\* The UPDATE or DELETE of the record waits for whoever has it; gone, it is not found.
TakeRecord(t) ==
  /\ pc[t] = "begin" /\ req[t].op \in {"update", "remove"}
  /\ \A u \in Others(t) : ~(Started(u) /\ req[u].record = req[t].record)
  /\ IF req[t].record \in history
     THEN Continue(t, "load", req[t]) /\ UNCHANGED <<tables, overtaken, stale>>
     ELSE Refuse(t)

\* applyFields of a PATCH that a CHECK refuses rolls back ...
CheckFails(t) ==
  /\ pc[t] = "load"
  /\ ~BirthDatePlausible(OwnAnswers(t))
  /\ Refuse(t)

\* ... otherwise refreshDerived reads the aggregate back ...
LoadAggregate(t) ==
  /\ pc[t] = "load"
  /\ BirthDatePlausible(OwnAnswers(t))
  /\ Continue(t, "derive",
       [req[t] EXCEPT !.seen = FilledCodes(OwnAnswers(t), OwnOccupation(t), OwnHistory(t))])
  /\ UNCHANGED <<tables, overtaken, stale>>

\* ... reads the category of the primary occupation in a statement of its own ...
ComputeDerived(t) ==
  /\ pc[t] = "derive"
  /\ Continue(t, "write",
       [req[t] EXCEPT !.derived = Derived(CategoryOf(OwnOccupation(t).primary), req[t].seen)])
  /\ UNCHANGED <<tables, overtaken, stale>>

\* ... and writes what it computed, once the row is free; then the commit.
CommitWrite(t) ==
  LET d == req[t].derived IN
  /\ pc[t] = "write"
  /\ \A u \in Others(t) : ~Exclusive(u)
  /\ answers' = OwnAnswers(t)
  /\ occupation' = OwnOccupation(t)
  /\ history' = OwnHistory(t)
  /\ row' = [row EXCEPT !.exists = TRUE, !.category = d.category,
                        !.percent = d.percent, !.complete = d.complete]
  /\ stale' = (t \in overtaken)
  /\ Overtake(t)
  /\ Continue(t, "idle", NoRequest)

\* setVisibility is one statement.
SetVisibility(visibility) ==
  /\ visibility # row.visibility
  /\ \A u \in Txns : ~Exclusive(u)
  /\ row' = [row EXCEPT !.exists = TRUE, !.visibility = visibility]
  /\ UNCHANGED <<answers, occupation, history, pc, req, arrived, overtaken, stale>>

\* The process dies or the connection drops: the transaction rolls back.
Rollback(t) == pc[t] # "idle" /\ Refuse(t)

--------------------------------------------------------------------------------

\* Not started, or one the body `full`, which the form accepts, and a record made.
InitWith(full, record) ==
  /\ pc = [t \in Txns |-> "idle"]
  /\ req = [t \in Txns |-> NoRequest]
  /\ arrived = 0
  /\ overtaken = {}
  /\ stale = FALSE
  /\ \/ row = NoRow /\ answers = NoAnswers /\ occupation = NoOccupation /\ history = {}
     \/ LET category == EffectiveCategory("primary_occupation_id", full, Null)
            result   == Validate(CandidateForm, category, full, [region_id |-> Null], Today)
        IN /\ result.rules = {}
           /\ answers = ApplyFields(NoAnswers, category, result.values)
           /\ occupation = WriteOccupations(NoOccupation, result.values)
           /\ history = {record}
           /\ LET d == Derived(category, FilledCodes(answers, occupation, history)) IN
              row = [NoRow EXCEPT !.exists = TRUE, !.category = d.category,
                                  !.percent = d.percent, !.complete = d.complete]

Next ==
  \/ \E t \in Txns :
       \/ \E body \in DOMAIN Bodies : BeginPatch(t, body)
       \/ \E id \in Records : BeginAdd(t, id) \/ BeginUpdate(t, id) \/ BeginRemove(t, id)
       \/ LockProfile(t) \/ InsertRecord(t) \/ TakeRecord(t)
       \/ CheckFails(t) \/ LoadAggregate(t) \/ ComputeDerived(t) \/ CommitWrite(t)
       \/ Rollback(t)
  \/ \E visibility \in Visibilities : SetVisibility(visibility)

--------------------------------------------------------------------------------
(* Properties *)

\* The tables and the requests have their types.
TypeOK ==
  /\ row \in [exists : BOOLEAN, category : Everywhere, percent : 0..100,
              complete : BOOLEAN, visibility : Visibilities]
  /\ DOMAIN answers \subseteq DOMAIN CandidateForm \ OccupationCodes
  /\ occupation.level # Null => occupation.primary # Null
  /\ occupation.primary \notin occupation.others
  /\ history \subseteq Records
  /\ pc \in [Txns -> {"idle", "begin", "load", "derive", "write"}]
  /\ arrived \in 0..MaxRequests

\* Nothing is in flight.  Every content of the tables is reached quietly, since a
\* request that rolls back leaves them as they are.
Quiet == \A t \in Txns : pc[t] = "idle"

\* What search and the client trust is what is stored: unless the transaction
\* that derived it was overtaken, the category, the percentage and BR-02's gate are
\* those of the rows (refreshDerived, candidates.service.ts:108-123).
Recomputed == Derived(CategoryOf(occupation.primary), FilledCodes(answers, occupation, history))

DerivedIsTrue ==
  Quiet /\ ~stale =>
    [category |-> row.category, percent |-> row.percent, complete |-> row.complete] = Recomputed

\* Nothing commits between what a PATCH reads back and its commit: only a history
\* write can be overtaken (candidates.service.ts:94-102).
PatchSeesItsCommit == \A t \in overtaken : req[t].op # "patch"

\* A client can read the profile, edit one value and send it all back: every value
\* an answer carries is accepted, and stored as it is.  Not so a district whose
\* region was changed without it (profile-state.ts:15-22).
DistrictInRegion ==
  "district_id" \in DOMAIN answers /\ "region_id" \in DOMAIN answers =>
    Items[answers["district_id"]].parent = answers["region_id"]

ReadsBack == Quiet =>
  \A code \in FieldsFor(CandidateForm, row.category) :
    LET field  == CandidateForm[code]
        value  == ValueOf(code, answers, occupation)
        region == Given(answers, "region_id", Null)
    IN \/ code = "district_id" /\ ~DistrictInRegion
       \/ ParseField(field, RawOf(field, value), [region_id |-> region], Today) = Parsed(value)

\* A PATCH stores every field of its body and no other: but for the level of a
\* primary occupation that is cleared, and an additional occupation that becomes
\* the primary one (profile-writer.ts:15-23, 84-92).
PatchTouchesItsFields ==
  [][\A t \in Txns : req[t].op = "patch" /\ CommitWrite(t) =>
       \A code \in DOMAIN CandidateForm :
         LET before == ValueOf(code, answers, occupation)
             after  == ValueOf(code, answers', occupation')
             wanted == IF code \in DOMAIN req[t].values
                       THEN Written(code, req[t].values[code]) ELSE before
         IN CASE code = "occupation_level_id" ->
                   after = IF occupation'.primary = Null THEN Null ELSE wanted
              [] code = "additional_occupation_ids" -> after = wanted \ {occupation'.primary}
              [] OTHER -> after = wanted]_vars

\* "A profile whose rows changed but whose completeness did not is exactly the
\* state BR-02 must never see" (candidates.service.ts:117-119).
SearchGateIsTrue ==
  row.complete => RequiredForSearchable(CandidateForm, CategoryOf(occupation.primary))
                    \subseteq FilledCodes(answers, occupation, history)

--------------------------------------------------------------------------------
(* The inductive invariant *)

DerivedColumns == [category : Everywhere, percent : 0..100, complete : BOOLEAN]

Occupation == {Null} \cup DOMAIN Items

\* What a body comes to: fields of the category it is validated for, and items.
ValuesOK(category, values) ==
  /\ DOMAIN values \subseteq FieldsFor(CandidateForm, category)
  /\ Given(values, "primary_occupation_id", Null) \in Occupation
  /\ Given(values, "region_id", Null) \in Regions

\* What t reads back, if it reads now.
Reading(t) == FilledCodes(OwnAnswers(t), OwnOccupation(t), OwnHistory(t))

\* Only a history write is overtaken, and only between its reading and its commit.
OvertakenOK ==
  \A t \in overtaken : t \in Txns /\ pc[t] \in {"derive", "write"} /\ req[t].op # "patch"

\* A request carries fields of its category; what it has read is still so, unless
\* it has been overtaken.
RequestOK(t) ==
  /\ DOMAIN req[t] = DOMAIN NoRequest
  /\ req[t].op = "patch" => ValuesOK(req[t].category, req[t].values)
  /\ req[t].op = "add" => req[t].record \in Records
  /\ pc[t] \in {"derive", "write"} /\ t \notin overtaken => req[t].seen = Reading(t)
  /\ pc[t] = "write" =>
       /\ req[t].derived \in DerivedColumns
       /\ t \notin overtaken =>
            req[t].derived = Derived(CategoryOf(OwnOccupation(t).primary), req[t].seen)

\* What the tables hold of the dictionary, and what was derived of them last.
TablesOK ==
  /\ occupation.primary \in Occupation
  /\ Given(answers, "region_id", Null) \in Regions
  /\ ~stale =>
       [category |-> row.category, percent |-> row.percent, complete |-> row.complete] = Recomputed

IInv ==
  /\ TypeOK
  /\ DOMAIN req = Txns /\ \A t \in Txns : RequestOK(t)
  /\ OvertakenOK
  /\ TablesOK

\* An expected pay starts from a number, or from none.
PayOK(values) == "salary" \in DOMAIN values => values["salary"].from \in Int \cup {Null}

PaysOK == PayOK(answers) /\ \A t \in Txns : PayOK(req[t].values)

\* Items that may be named, as many as may be.
ItemsOK(field, items) ==
  /\ IsFiniteSet(items) /\ TooMany(field, items) = {}
  /\ \A i \in items : Usable(Id(i), field.type, field.group)

ExtraOK(extra, value) ==
  value # Null => IF extra.is = "bool" THEN value \in BOOLEAN
                  ELSE value.is = "text" /\ value.length # 0 /\ ~(value.length > extra.max)

RowOK(field, r) ==
  /\ r = [item |-> r.item, level |-> r.level, rank |-> Items[r.level].rank,
          extra |-> [e \in DOMAIN field.extras |-> r.extra[e]]]
  /\ Usable(Id(r.item), field.type, field.group) /\ LevelUsable(field, Id(r.level))
  /\ \A e \in DOMAIN field.extras : ExtraOK(field.extras[e], r.extra[e])

\* One row of each item, with a level and extras that are theirs.
RowsOK(field, rows) ==
  /\ IsFiniteSet(rows) /\ TooMany(field, rows) = {}
  /\ \A r \in rows : RowOK(field, r)
  /\ \A r, q \in rows : r.item = q.item => r = q

\* A number is one, and a day exists.
DayOrNumberOK(field, value) ==
  value # Null => /\ field.kind = "int" => value \in Int
                  /\ field.kind = "date" => value \in Nat \X Nat \X Nat /\ Exists(value)

\* A value that is accepted again as it is, of whatever region it may be.
ReadsBackUnder(field, value, region) ==
  ParseField(field, RawOf(field, value), [region_id |-> region], Today) = Parsed(value)

BelongsTo(field, value, region) ==
  field.parent # Null /\ value # Null => UnderParent(field, Id(value), [region_id |-> region])

ValueOK(field, value) ==
  CASE field.kind = "multi"   -> ItemsOK(field, value)
    [] field.kind = "leveled" -> RowsOK(field, value)
    [] OTHER -> /\ DayOrNumberOK(field, value)
                /\ \A region \in Regions :
                     BelongsTo(field, value, region) => ReadsBackUnder(field, value, region)

\* What is stored is such, and what a request carries.
ValuesReadBack ==
  /\ \A code \in DOMAIN CandidateForm :
       ValueOK(CandidateForm[code], ValueOf(code, answers, occupation))
  /\ \A t \in Txns : \A code \in DOMAIN req[t].values :
       ValueOK(CandidateForm[code], req[t].values[code])

--------------------------------------------------------------------------------
(* The rules over sample values: constants, so evaluated once and looked at quietly *)

CONSTANTS
  Days,     \* calendar days
  Samples   \* raw values of every shape

ASSUME DaysAssumption == Days \subseteq Nat \X Nat \X Nat

ASSUME SamplesAssumption == \A raw \in Samples : RawOK(raw)

NoRegion == [region_id |-> Null]

Leapling(today, born) == today[2] = 2 /\ today[3] = 29 /\ born[2] = 3 /\ born[3] = 1

AgeOn(today, born) ==
  today[1] - born[1] -
  (IF Later(<<0, born[2], born[3]>>, <<0, today[2], today[3]>>) THEN 1 ELSE 0)

BirthDateRules(born, today) ==
  ParseField(CandidateForm["date_of_birth"], Date(born[1], born[2], born[3]),
             NoRegion, today).rules

CountsAges ==
  \A today, born \in {d \in Days : Exists(d)} :
    ~Leapling(today, born) => (BirthDateRules(born, today) = {}) = (AgeOn(today, born) >= 14)

\* A date of birth is accepted exactly from the fourteenth birthday on, whatever
\* the day; a birthday of 1 March counts a day early on 29 February
\* (field-validator.ts:293, yearsBefore).
AgeIsCounted == Quiet => CountsAges

\* Every sample that some field accepts: the field, and what the validator makes of it.
Accepted ==
  {sample \in
     UNION {{<<form[code], ParseField(form[code], raw, NoRegion, Today)>> :
               code \in DOMAIN form, raw \in Samples} : form \in {CandidateForm, VacancyForm}} :
     sample[2].rules = {}}

RoundTrips ==
  \A sample \in Accepted :
    LET field == sample[1]
        result == sample[2]
    IN ParseField(field, RawOf(field, result.value), NoRegion, Today) = result

\* Whatever a field of either form accepts it accepts again, as it is stored:
\* parsing what is read back gives the same value (field-validator.ts:60-109).
ParsedReadsBack == Quiet => RoundTrips

Storable(field, value) ==
  CASE field.kind = "leveled" -> \A r, q \in value : r.rank # Null /\ (r.item = q.item => r = q)
    [] field.kind = "money" ->
         /\ value.negotiable => value.from = Null /\ value.to = Null
         /\ value.from # Null => value.from >= 0
         /\ value.from # Null /\ value.to # Null => value.from <= value.to
    [] OTHER -> TRUE

MeetsChecks == \A sample \in Accepted : Storable(sample[1], sample[2].value)

\* Rows that are accepted meet the keys and checks of their tables: one row per
\* item, a level with a rank; a negotiable pay without a range and a range in order
\* (candidate_skills, vacancies_salary_order and its like).
ParsedIsStorable == Quiet => MeetsChecks

GatesOnRequired ==
  \A category \in Everywhere :
    LET required == RequiredForSearchable(CandidateForm, category)
        entries  == CompletenessEntries(category)
    IN /\ Completeness(category, required).complete
       /\ \A code \in required : ~Completeness(category, entries \ {code}).complete
       /\ \A code \in entries : Completeness(category, entries \ {code}).percent < 100
       /\ Completeness(category, entries).percent = 100

\* BR-02's gate is the required fields and nothing else: answering exactly them
\* opens it, leaving one out closes it, and the percentage reaches 100 only with
\* every entry (completeness.ts:5-20).
GateIsRequiredFields == Quiet => GatesOnRequired

================================================================================
