------------------------------- MODULE FieldSchemas ------------------------------
(***************************************************************************)
(* schema-types.ts, the two declarations (candidate-profile.schema.ts and  *)
(* vacancy.schema.ts) and schema-resolver.ts: which fields a form has for  *)
(* a category, which of them gate BR-02, and the completeness computed     *)
(* over them.                                                              *)
(*                                                                         *)
(* A section is a function from field codes to fields; a form is the union *)
(* of its sections.  Labels and the order on the screen are left out.      *)
(***************************************************************************)
EXTENDS Naturals, FiniteSets, TLC

CONSTANTS
  Null,           \* "no value", and the category before an occupation is chosen
  CandidateForm,  \* the form each of the two schemas declares: the declarations
  VacancyForm     \* below, which the rules and the resolver take as data

Categories == {"professional", "physical_industrial", "seasonal_agricultural",
               "service_operations", "temporary_shift"}

\* Omitted `categories`, and requiredIn 'all'.
Everywhere == Categories \cup {Null}

Manual == {"physical_industrial", "seasonal_agricultural"}

Dated == {"seasonal_agricultural", "temporary_shift"}

--------------------------------------------------------------------------------
(* schema-types *)

NoExtras    == [e \in {} |-> [is |-> "bool", max |-> Null]]
Yes         == [is |-> "bool", max |-> Null]
Note(max)   == [is |-> "text", max |-> max]

Field(kind, store) ==
  [kind |-> kind, store |-> store, only |-> Everywhere, required |-> {},
   type |-> Null, group |-> Null, parent |-> Null, levelType |-> Null,
   extras |-> NoExtras, min |-> Null, max |-> Null,
   notAfter |-> Null, minAge |-> Null, ordered |-> FALSE]

Text(min, max)   == [Field("text", "column") EXCEPT !.min = min, !.max = max]
Whole(min, max)  == [Field("int", "column") EXCEPT !.min = min, !.max = max]
Flag             == Field("bool", "column")
Day              == Field("date", "column")
Single(type)     == [Field("single", "column") EXCEPT !.type = type]
Multi(type, max) == [Field("multi", "attribute") EXCEPT !.type = type, !.max = max]

Leveled(type, levels, max, extras) ==
  [Field("leveled", type) EXCEPT
     !.type = type, !.levelType = levels, !.max = max, !.extras = extras]

Pay == [Field("money", "money") EXCEPT
          !.type = "payment_period", !.min = 0, !.max = 500000000, !.ordered = TRUE]

In(store, field)       == [field EXCEPT !.store = store]
Only(where, field)     == [field EXCEPT !.only = where]
Required(where, field) == [field EXCEPT !.required = where]

\* A multi-select of the `attribute` type, narrowed to one group.
Attribute(group, max, where) == Only(where, [Multi("attribute", max) EXCEPT !.group = group])

Region == Required(Everywhere, Single("region"))

\* Districts are regions with a parent.
District == [Region EXCEPT !.parent = "region_id"]

--------------------------------------------------------------------------------
(* candidate-profile.schema *)

Personal ==
  [full_name     |-> Required(Everywhere, Text(3, 120)),
   date_of_birth |-> Required(Everywhere, [Day EXCEPT !.notAfter = "today", !.minAge = 14]),
   gender_id     |-> Single("gender")]

Location ==
  [region_id           |-> Region,
   district_id         |-> District,
   settlement          |-> Text(Null, 120),
   willing_to_relocate |-> Flag,
   willing_to_travel   |-> Flag]

TargetWork ==
  [primary_occupation_id     |-> Required(Everywhere, In("primary", Single("occupation"))),
   occupation_level_id       |-> In("level", Single("skill_level")),
   additional_occupation_ids |-> In("additional", Multi("occupation", 4)),
   industry_ids              |-> Multi("industry", 5)]

Skills == [skills |-> Leveled("skill", "skill_level", 30, NoExtras)]

Languages ==
  [languages |-> Leveled("language", "language_level", 10,
                   [has_certificate |-> Yes, certificate_note |-> Note(200)])]

Preferences ==
  [employment_type_ids |-> Multi("employment_type", 6),
   work_format_ids     |-> Multi("work_format", 4),
   shift_ids           |-> Multi("shift", 4),
   salary              |-> Pay,
   available_from      |-> Required(Dated, Day)]

ProfessionalDetails ==
  [specialization |-> Only({"professional"}, Multi("specialization", 3)),
   portfolio_url  |-> Only({"professional"},
                        [Field("url", "attribute") EXCEPT !.max = 300])]

WorkAttributes ==
  [licence_ids   |-> Attribute("licence", 6, Manual \cup {"service_operations"}),
   transport_ids |-> Attribute("transport", 4, Categories \ {"professional"}),
   tool_ids      |-> Attribute("tools", 10, Manual),
   readiness_ids |-> Attribute("readiness", 6, Categories \ {"professional"})]

Crew == [crew_size |-> Only(Manual, In("attribute", Whole(1, 200)))]

CANDIDATE_PROFILE_SCHEMA ==
  Personal @@ Location @@ TargetWork @@ Skills @@ Languages @@ Preferences
  @@ ProfessionalDetails @@ WorkAttributes @@ Crew

\* The sections another editor fills; each counts once and is never required.
BespokeSections == {"experience", "education"}

\* purpose -> most files of it.
AttachmentSlots == [cv |-> 1, photo |-> 1, certificate |-> 10, evidence |-> 10]

--------------------------------------------------------------------------------
(* vacancy.schema *)

Basics ==
  [occupation_id |-> Required(Everywhere, Single("occupation")),
   title         |-> Required(Everywhere, Text(5, 160)),
   description   |-> Required(Everywhere, Text(20, 5000)),
   worker_count  |-> Required(Everywhere, Whole(1, 10000))]

Workplace ==
  [region_id       |-> Region,
   district_id     |-> District,
   address         |-> Text(Null, 300),
   work_format_ids |-> Multi("work_format", 4)]

Schedule ==
  [employment_type_ids |-> Required(Everywhere, Multi("employment_type", 6)),
   shift_ids           |-> Required({"temporary_shift"}, Multi("shift", 4)),
   hours_per_day       |-> Required(Dated, In("attribute", Whole(1, 24))),
   salary              |-> Required(Everywhere, Pay)]

Dates ==
  [starts_on   |-> Required({"seasonal_agricultural"}, Day),
   ends_on     |-> Required(Dated, Day),
   deadline_on |-> Day]

Requirements ==
  LET mandatory == [is_mandatory |-> Yes] IN
  [skills               |-> Leveled("skill", "skill_level", 20, mandatory),
   languages            |-> Leveled("language", "language_level", 10, mandatory),
   experience_years_min |-> In("attribute", Whole(0, 50)),
   education_level_id   |-> In("attribute", Single("education_level"))]

RequiredAttributes ==
  WorkAttributes @@
  [crew_required  |-> Only(Manual, In("attribute", Flag)),
   specialization |-> Only({"professional"}, Multi("specialization", 5))]

Restrictions ==
  [age_min                        |-> Whole(14, 100),
   age_max                        |-> Whole(14, 100),
   gender_id                      |-> Single("gender"),
   restriction_justification_id   |-> Single("restriction_justification"),
   restriction_justification_note |-> Text(Null, 1000)]

VACANCY_SCHEMA ==
  Basics @@ Workplace @@ Schedule @@ Dates @@ Requirements @@ RequiredAttributes @@ Restrictions

--------------------------------------------------------------------------------
(* schema-resolver *)

AppliesTo(field, category) == category \in field.only

IsRequiredIn(field, category) == category \in field.required

FieldsFor(form, category) == {code \in DOMAIN form : AppliesTo(form[code], category)}

RequiredForSearchable(form, category) ==
  {code \in FieldsFor(form, category) : IsRequiredIn(form[code], category)}

--------------------------------------------------------------------------------
(* completeness *)

\* What the percentage of a profile is measured over.
CompletenessEntries(category) == FieldsFor(CandidateForm, category) \cup BespokeSections

\* Math.round of the share, in per cent.
Percent(part, whole) == (200 * part + whole) \div (2 * whole)

Completeness(category, filled) ==
  LET entries == CompletenessEntries(category) IN
  [percent  |-> Percent(Cardinality(entries \cap filled), Cardinality(entries)),
   complete |-> RequiredForSearchable(CandidateForm, category) \subseteq filled]

================================================================================
