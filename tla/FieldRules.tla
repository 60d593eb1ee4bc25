-------------------------------- MODULE FieldRules -------------------------------
(***************************************************************************)
(* field-validator.ts: what the validator makes of one raw JSON value, and *)
(* field-validator.service.ts: of a whole PATCH body.                      *)
(*                                                                         *)
(* A raw value is a tagged record.  A string keeps what the rules tell     *)
(* apart: its trimmed length, the dictionary id, the calendar date or the  *)
(* http link it spells.  A parsed value carries the names of the rules it  *)
(* breaks; messages and paths are left out.                                *)
(***************************************************************************)
EXTENDS FieldSchemas, Integers, SequencesExt

CONSTANT Items   \* dictionary items: id -> [type, group, parent, rank, active, merged, category]

--------------------------------------------------------------------------------
(* Raw values *)

Absent == [is |-> "absent"]     \* null or undefined

Words(length) == [is |-> "text", length |-> length, id |-> Null, day |-> Null, link |-> FALSE]
Id(id)        == [Words(36) EXCEPT !.id = id]
Date(y, m, d) == [Words(10) EXCEPT !.day = <<y, m, d>>]
Link(length)  == [Words(length) EXCEPT !.link = TRUE]

Number(value) == [is |-> "number", value |-> value, whole |-> TRUE]
Half(value)   == [is |-> "number", value |-> value, whole |-> FALSE]   \* value + 1/2
Truth(value)  == [is |-> "bool", value |-> value]
List(items)   == [is |-> "list", items |-> items]
Object(at)    == [is |-> "object", at |-> at]

At(object, key) == IF key \in DOMAIN object.at THEN object.at[key] ELSE Absent

Blank == Words(0)               \* ""

\* What a value of the request is, as far as the theorems need it.
PlainOK(raw) ==
  /\ raw # Null
  /\ raw.is = "text" => raw.day \in {Null} \cup (Nat \X Nat \X Nat)
  /\ raw.is = "number" => raw.value \in Int
  /\ raw.is = "bool" => raw.value \in BOOLEAN

PartsOK(raw) == raw.is = "object" => \A part \in Range(raw.at) : PlainOK(part)

RawOK(raw) ==
  /\ PlainOK(raw) /\ PartsOK(raw)
  /\ raw.is = "list" =>
       raw.items \in Seq(ToSet(raw.items)) /\ \A entry \in ToSet(raw.items) : PartsOK(entry)

BodyOK(body) == \A code \in DOMAIN body : RawOK(body[code])

--------------------------------------------------------------------------------
(* Parsed values *)

Parsed(value) == [value |-> value, rules |-> {}]
Broken(rules) == [value |-> Null, rules |-> rules]

When(broken, rule) == IF broken THEN {rule} ELSE {}

Unless(rules, value) == IF rules = {} THEN Parsed(value) ELSE Broken(rules)

\* Of two alternatives, the rules of the first that is broken.
FirstOf(checks) ==
  {checks[i].rule : i \in {n \in DOMAIN checks :
                            ~checks[n].holds /\ \A m \in 1..(n - 1) : checks[m].holds}}

Check(rule, holds) == [rule |-> rule, holds |-> holds]

NoPay == [from |-> Null, to |-> Null, period |-> Null, negotiable |-> FALSE]

EmptyFor(field) == CASE field.kind = "money"                -> NoPay
                     [] field.kind \in {"multi", "leveled"} -> {}
                     [] OTHER                               -> Null

Kinds == {"text", "url", "int", "bool", "date", "money", "single", "multi", "leveled"}

\* What a declared field has, as far as the theorems need it.
FieldOK(field) ==
  /\ field.kind \in Kinds
  /\ field.min \in {Null} \cup Nat /\ field.max \in {Null} \cup Nat
  /\ field.parent # Null => field.kind = "single" /\ field.parent = "region_id"
  /\ field.kind = "money" => field.ordered /\ field.min # Null
  /\ {"itemId", "levelId"} \cap DOMAIN field.extras = {}
  /\ \A e \in DOMAIN field.extras : field.extras[e].is \in {"bool", "text"}

FormOK(form) == \A code \in DOMAIN form : FieldOK(form[code])

--------------------------------------------------------------------------------
(* Texts, numbers, dates *)

Within(value, field) ==
  /\ field.min # Null => field.min <= value
  /\ field.max # Null => value <= field.max

ParseText(field, raw) ==
  IF raw.is # "text" THEN Broken({"isString"})
  ELSE IF raw.length = 0 THEN Parsed(Null)
  ELSE Unless(IF Within(raw.length, field) THEN {} ELSE {"length"}, raw)

ParseUrl(field, raw) ==
  LET text == ParseText(field, raw) IN
  IF text.rules # {} \/ text.value = Null \/ raw.link THEN text ELSE Broken({"isUrl"})

ParseNumber(field, raw) ==
  IF raw.is # "number" THEN Broken({"isNumber"})
  ELSE Unless(FirstOf(<<Check("isInt", raw.whole), Check("range", Within(raw.value, field))>>),
              raw.value)

Leap(y) == y % 4 = 0 /\ (y % 100 = 0 => y % 400 = 0)

LastDay(y, m) == CASE m = 2             -> IF Leap(y) THEN 29 ELSE 28
                   [] m \in {4, 6, 9, 11} -> 30
                   [] OTHER             -> 31

Exists(day) == day[2] \in 1..12 /\ day[3] \in 1..LastDay(day[1], day[2])

\* ISO dates sort as text.
Later(a, b) == \/ a[1] > b[1]
               \/ a[1] = b[1] /\ a[2] > b[2]
               \/ a[1] = b[1] /\ a[2] = b[2] /\ a[3] > b[3]

\* Date.UTC rolls 29 February over into 1 March.
YearsBefore(day, years) ==
  IF day[2] = 2 /\ day[3] > LastDay(day[1] - years, 2)
  THEN <<day[1] - years, 3, 1>>
  ELSE <<day[1] - years, day[2], day[3]>>

\* The database clamps 29 February to the 28th instead.
DatabaseYearsBefore(day, years) ==
  <<day[1] - years, day[2],
    IF day[2] = 2 /\ day[3] = 29 THEN LastDay(day[1] - years, 2) ELSE day[3]>>

\* Mutant: the age is read off the years alone.
OldEnoughByYear(field, day, today) == field.minAge # Null => day[1] <= today[1] - field.minAge

OldEnough(field, day, today) ==
  field.minAge # Null => ~Later(day, YearsBefore(today, field.minAge))

ParseDate(field, raw, today) ==
  IF raw.is # "text" \/ raw.day = Null THEN Broken({"isDate"})
  ELSE Unless(FirstOf(<<
         Check("isDate", Exists(raw.day)),
         Check("notAfter", field.notAfter = "today" => ~Later(raw.day, today)),
         Check("minAgeYears", OldEnough(field, raw.day, today))>>), raw.day)

--------------------------------------------------------------------------------
(* Dictionary values *)

IsUuid(raw) == raw.is = "text" /\ raw.id # Null

\* Inactive and merged items are refused on a write.
Usable(raw, type, group) ==
  /\ IsUuid(raw) /\ raw.id \in DOMAIN Items
  /\ LET item == Items[raw.id] IN
       /\ item.active /\ item.merged = Null
       /\ item.type = type
       /\ group # Null => item.group = group

\* `stored` is what the profile has; the request's own region is not in it.
UnderParent(field, raw, stored) ==
  field.parent # Null /\ stored[field.parent] # Null =>
    Items[raw.id].parent = stored[field.parent]

ParseSingle(field, raw, stored) ==
  IF ~IsUuid(raw) THEN Broken({"isUuid"})
  ELSE IF ~Usable(raw, field.type, field.group) THEN Broken({"dictionaryItem"})
  ELSE Unless(When(~UnderParent(field, raw, stored), "parentField"), raw.id)

TooMany(field, rows) == When(field.max # Null /\ Cardinality(rows) > field.max, "maxItems")

ParseMulti(field, raw) ==
  LET given == ToSet(raw.items)
      rules == {IF IsUuid(r) THEN "dictionaryItem" ELSE "isUuid" :
                  r \in {g \in given : ~Usable(g, field.type, field.group)}}
  IN IF raw.is # "list" THEN Broken({"isArray"})
     ELSE Unless(rules \cup TooMany(field, given), {r.id : r \in given})

--------------------------------------------------------------------------------
(* Leveled rows *)

\* Declared extras only, `bool` or `text`.
ExtraRules(field, entry) ==
  When(\E e \in DOMAIN field.extras :
         LET raw == At(entry, e) IN
         /\ raw \notin {Absent, Blank}
         /\ \/ raw.is # field.extras[e].is
            \/ raw.is = "text" /\ raw.length > field.extras[e].max,
       "extra")

Extras(field, entry) ==
  [e \in DOMAIN field.extras |->
     LET raw == At(entry, e) IN
     CASE raw.is = "bool"                    -> raw.value
       [] raw.is = "text" /\ raw.length # 0  -> raw
       [] OTHER                              -> Null]

LevelUsable(field, raw) ==
  Usable(raw, field.levelType, Null) /\ Items[raw.id].rank # Null

EntryRules(field, entry) ==
  IF entry.is # "object" THEN {"isObject"}
  ELSE IF ~IsUuid(At(entry, "itemId")) THEN {"isUuid"}
  ELSE IF ~Usable(At(entry, "itemId"), field.type, field.group) THEN {"dictionaryItem"}
  ELSE IF ~LevelUsable(field, At(entry, "levelId")) THEN {"dictionaryItem"} ELSE {}

RowOf(field, entry) ==
  [item  |-> At(entry, "itemId").id,
   level |-> At(entry, "levelId").id,
   rank  |-> Items[At(entry, "levelId").id].rank,
   extra |-> Extras(field, entry)]

SameItem(entry, other) ==
  entry.is = "object" /\ IsUuid(At(entry, "itemId")) /\ At(entry, "itemId").id = At(other, "itemId").id

\* The first entry of an item that makes a row decides, whatever its extras break;
\* later ones are skipped.
Rows(field, entries) ==
  LET sound == {i \in DOMAIN entries : EntryRules(field, entries[i]) = {}}
      fresh == {i \in DOMAIN entries :
                  ~\E j \in sound : j < i /\ SameItem(entries[i], entries[j])}
  IN [rows  |-> {RowOf(field, entries[i]) : i \in sound \cap fresh},
      rules |-> (UNION {EntryRules(field, entries[i]) : i \in fresh}) \cup
                (UNION {ExtraRules(field, entries[i]) : i \in sound \cap fresh})]

Taken(field, result) == Unless(result.rules \cup TooMany(field, result.rows), result.rows)

ParseLeveled(field, raw) ==
  IF raw.is # "list" THEN Broken({"isArray"}) ELSE Taken(field, Rows(field, raw.items))

--------------------------------------------------------------------------------
(* Money *)

\* numberOrNull: absent and not a number are different things.
Amount(raw) == IF raw.is = "number" THEN raw.value ELSE Null

NegotiableAlone(negotiable, from, to) == negotiable => from = Null /\ to = Null

InOrder(field, from, to) == field.ordered /\ from # Null /\ to # Null => from <= to

MoneyRules(field, from, to, object) ==
  LET period == At(object, "periodId") IN
  When(\E a \in {"from", "to"} : At(object, a).is \notin {"absent", "number"}, "isNumber") \cup
  When(\E a \in {from, to} \ {Null} : ~Within(a, field), "range") \cup
  When(~InOrder(field, from, to), "order") \cup
  When(~NegotiableAlone(At(object, "isNegotiable") = Truth(TRUE), from, to), "negotiable") \cup
  When(period.is = "text" /\ ~Usable(period, field.type, Null), "dictionaryItem")

ParseMoney(field, raw) ==
  LET from   == Amount(At(raw, "from"))
      to     == Amount(At(raw, "to"))
      period == At(raw, "periodId")
  IN IF raw.is # "object" THEN Broken({"isObject"})
     ELSE Unless(MoneyRules(field, from, to, raw),
                 [from |-> from, to |-> to,
                  period |-> IF period.is = "text" THEN period.id ELSE Null,
                  negotiable |-> At(raw, "isNegotiable") = Truth(TRUE)])

--------------------------------------------------------------------------------
(* parseField, and validate over a body *)

ParseField(field, raw, stored, today) ==
  IF raw \in {Absent, Blank} THEN Parsed(EmptyFor(field))
  ELSE CASE field.kind = "text"    -> ParseText(field, raw)
         [] field.kind = "url"     -> ParseUrl(field, raw)
         [] field.kind = "int"     -> ParseNumber(field, raw)
         [] field.kind = "bool"    -> IF raw.is = "bool" THEN Parsed(raw.value)
                                      ELSE Broken({"isBoolean"})
         [] field.kind = "date"    -> ParseDate(field, raw, today)
         [] field.kind = "money"   -> ParseMoney(field, raw)
         [] field.kind = "single"  -> ParseSingle(field, raw, stored)
         [] field.kind = "multi"   -> ParseMulti(field, raw)
         [] field.kind = "leveled" -> ParseLeveled(field, raw)

\* The strings looked up as dictionary ids; only a list is filtered to ids first.
IdsIn(field, raw) ==
  LET Strings(raws) == {r \in raws : r.is = "text"} IN
  CASE field.kind = "single" -> Strings({raw})
    [] field.kind = "multi" /\ raw.is = "list" -> {r \in ToSet(raw.items) : IsUuid(r)}
    [] field.kind = "leveled" /\ raw.is = "list" ->
         Strings({At(entry, key) : entry \in {e \in ToSet(raw.items) : e.is = "object"},
                                   key \in {"itemId", "levelId"}})
    [] field.kind = "money" /\ raw.is = "object" -> Strings({At(raw, "periodId")})
    [] OTHER -> {}

\* The id column is a uuid: a string that is none makes the lookup fail.
LookupFails(form, category, body) ==
  \E code \in DOMAIN body \cap FieldsFor(form, category) :
    \E r \in IdsIn(form[code], body[code]) : ~IsUuid(r)

BrokenRules(parsed) == UNION {parsed[code].rules : code \in DOMAIN parsed}

UnknownFields(body, parsed) ==
  IF DOMAIN body \subseteq DOMAIN parsed THEN {} ELSE {"unknownField"}

\* What was parsed of a body, and the rules it breaks.
Verdict(body, parsed) ==
  [values |-> [code \in {c \in DOMAIN parsed : parsed[c].rules = {}} |-> parsed[code].value],
   rules  |-> BrokenRules(parsed) \cup UnknownFields(body, parsed)]

\* A body: field code -> raw value.
Validate(form, category, body, stored, today) ==
  Verdict(body, [code \in DOMAIN body \cap FieldsFor(form, category) |->
                   ParseField(form[code], body[code], stored, today)])

\* The category a body is validated against: of the occupation it sets, if it is
\* one that has a category, otherwise the stored one.
EffectiveCategory(field, body, storedCategory) ==
  LET raw == IF field \in DOMAIN body THEN body[field] ELSE Absent IN
  IF IsUuid(raw) /\ raw.id \in DOMAIN Items /\ Items[raw.id].category # Null
  THEN Items[raw.id].category ELSE storedCategory

--------------------------------------------------------------------------------
(* What is answered, and what is read back: toFields, isAnswered *)

Answered(field, value) == value # EmptyFor(field)

\* The raw value an answer carries for a stored one.  Mutant: without the period.
RawPayBare(pay) ==
  LET Side(amount) == IF amount = Null THEN Absent ELSE Number(amount) IN
  Object([from |-> Side(pay.from), to |-> Side(pay.to), isNegotiable |-> Truth(pay.negotiable)])

RawPay(pay) ==
  LET Side(amount) == IF amount = Null THEN Absent ELSE Number(amount) IN
  Object([from |-> Side(pay.from), to |-> Side(pay.to),
          periodId |-> IF pay.period = Null THEN Absent ELSE Id(pay.period),
          isNegotiable |-> Truth(pay.negotiable)])

RawRow(field, r) ==
  LET Extra(e) == IF r.extra[e] = Null THEN Absent
                  ELSE IF field.extras[e].is = "bool" THEN Truth(r.extra[e]) ELSE r.extra[e]
  IN Object([key \in {"itemId", "levelId"} \cup DOMAIN field.extras |->
               CASE key = "itemId"  -> Id(r.item)
                 [] key = "levelId" -> Id(r.level)
                 [] OTHER           -> Extra(key)])

RawOf(field, value) ==
  CASE field.kind = "multi"   -> List(SetToSeq({Id(i) : i \in value}))
    [] field.kind = "leveled" -> List(SetToSeq({RawRow(field, r) : r \in value}))
    [] field.kind = "money"   -> RawPay(value)
    [] OTHER ->
         IF value = Null THEN Absent
         ELSE CASE field.kind = "single" -> Id(value)
                [] field.kind = "int"    -> Number(value)
                [] field.kind = "bool"   -> Truth(value)
                [] field.kind = "date"   -> Date(value[1], value[2], value[3])
                [] OTHER                 -> value

================================================================================
