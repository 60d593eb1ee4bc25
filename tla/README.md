# A TLA+ model of the Headhunter backend

This directory holds TLA+ specifications of the NestJS/PostgreSQL API in `src/`
(a recruitment platform: candidates, employers, vacancies, applications,
invitations, interviews, chat, search), configurations that model-check them with TLC,
and theorems checked with TLAPS.

The program is a set of HTTP handlers over one PostgreSQL database. It keeps no
state in memory that outlives a request: whatever can go wrong goes wrong between
the statements of concurrent requests, or at a crash between two transactions.
The models therefore all have the same shape:

* tables are functions from row ids to records (only the columns some decision
  reads);
* a request occupies a *slot* (`Txns`, `Requests`); `pc[t]` is the statement it
  will run next, `req[t]` what it carries and has read;
* PostgreSQL runs at READ COMMITTED (the default; nothing in `src/` asks for
  another level). A statement sees what is committed when it starts; a write is
  kept in `req[t]` and published by the action that commits; a row lock is held
  from the statement that takes it until the transaction ends, so its holders are
  read off the program counters;
* a request may die before any statement (`Rollback`, `Crash`), which is also
  what a deadlock's victim and a lost connection look like;
* where a service reads *outside* its transaction and then writes by id, the
  model has exactly two steps, and what the first one read is stale by right.

The pure rules (which fields a form has, what the validator makes of a value, which
candidates a filter admits) are operators without state, checked over sample values
against a statement of what each is for.

## Components

| Component (under `src/src`) | State it keeps | Operations | What makes it correct | Modelled in |
|---|---|---|---|---|
| Applications `modules/applications` | `applications`, `application_stage_history`, `vacancies.hired_count` | apply, withdraw, moveStage, ensureInterviewStage | one active application per pair; only to open vacancies; stage machine; history = path of stages; counter = hires | `Applications`, `HiringBoard` |
| Vacancies `modules/vacancies` | `vacancies`, `vacancy_status_history` | create, patch, submit, moderate, changeStatus | CHECKs never fire; history records the status; published once; review precedes publication | `Vacancies`, `VacancyStatus`; what a patch stores: `VacancyFields`; beside its readers: `Listings` |
| Sessions `modules/auth/session.service.ts` | `sessions` | issue, rotate, revoke one, revoke all, isActive | one live token per family; families are chains; revocation is final | `Sessions` |
| Idempotency `infra/idempotency` | `idempotency_keys` | run | at most one effect per key; a replay is the original | `Idempotency` |
| Interviews `modules/interviews` | `interviews`, `interview_status_history` | schedule, reschedule, cancel, respond | details fit the type; `responded_at` fits the status; history records the status | `Interviews`, and the stage half of schedule in `Applications` |
| Invitations `modules/invitations` | `invitations`, `invitation_status_history` | invite, respond | one open invitation per employer, candidate and vacancy; an answer is final | `Invitations`, `Engagement` |
| Hiring interaction, contact exposure `infra/privacy` | none (derived) | between, expose | BR-09: a live application or an accepted invitation stands behind everything that passes | `between` in `Engagement`; expose planned |
| Chat `modules/chat` | `conversations`, `messages`, `conversation_blocks` | open, send, markRead, block, unblock, report | one thread per pair; nobody writes to a stranger or past a block; activity and read times agree with the messages | `Chat`, `Engagement` (not report, attachments, lists) |
| Employers, verification `modules/employers` | employer and company rows, submissions, history | upsert, submit, decide | completeness agrees with the rows; one open submission; no badge without documents | `Employers`, `Records` |
| OTP `modules/auth/otp.service.ts` | `otp_challenges` | send, verify | one live code; every guess counted; a code used once | `Otp`, `SignIn` |
| Accounts, roles `modules/auth`, `modules/users` | `users`, `user_roles`, status history | login by phone and by Telegram, link, selectRoles, switch, requestDeletion, block | one account per credential; status changes are on record; a block bites | `Accounts`, `SignIn` |
| Request guards, rate limit `infra/api`, `infra/rate-limit` | window counters | consume | never more than the limit in a window | `RateLimit`, `SignIn` (not the routes' metadata) |
| Candidate profile `modules/candidates` | profile, skills, experience, education, derived completeness | patch, history add/update/remove, setVisibility | completeness agrees with the rows; a patch touches its fields | `CandidateProfile` |
| Attachments, files `infra/files`, `modules/candidates` | `stored_files`, messages in Telegram | upload, retire, remove, download | no live row without its message; a slot keeps its newest | `Files`, `Records` |
| Field schemas `modules/schemas`, `candidates/completeness.ts` | none | fieldsFor, parseField, validate, completeness | what is accepted is storable and reads back; BR-02's gate is the required fields | `FieldSchemas`, `FieldRules` (not the schema endpoint's version) |
| Search `modules/candidate-search` | none (read-only SQL) | search, count, prefill, score, sort | the prefill finds whom the vacancy would accept; pages and count add up | `Search`, `Matching` (not the vacancy feeds' ranking) |
| Saved items, complaints `modules/discovery` | `saved_vacancies`, `complaints`, `saved_candidates`, `vacancy_shortlists` | save, unsave, note, shortlist, report | one open complaint; nothing kept is lost | `Discovery`, `Listings` |
| Dictionaries, seeds `modules/dictionaries` | `dictionary_items`, translations, the revision sequence | seed, delta, tag | no delta skips a change; a tag never lies; a seed completes | `Dictionaries` (one type; not the fallback chain or the manifest) |
| Bootstrap, configuration, i18n, health | none | - | - | no: wiring, formatting, pure I/O |

How they interact: `apply` takes a `FOR SHARE` lock on the vacancy that
`changeStatus` and a hire's `hired_count` update must wait for; `schedule` runs
`ensureInterviewStage` inside its own transaction, so it locks and moves an
application; apply, invite and send run inside `IdempotencyService.run`; login
issues sessions; BR-09's gate and chat are derived from applications and
invitations. `POST /auth/otp/verify` consumes a code in one transaction and opens the
account in another, behind the rate limiter; a verification submission names files
that their owner may remove meanwhile; a vacancy's requirements become the filters
that meet candidates' profiles; every id a form stores was judged against the
dictionaries. The hard behaviours are listed in `PROJECT.json` under `hazards`,
each at its line.

## Modules

**`ApplicationStatus`, `VacancyStatus`** translate `application-status.ts` and
`vacancy-status.ts`: the stage machine (`CanTransition`, `ActorFor`,
`OccupiesActiveSlot`) and the transition table, `IsEditable`, `CanSubmitFrom`,
`IsOpenForApplications`. They have no state.

**`Applications`** is `ApplicationsService` statement by statement, with the two
writers it shares rows with. Each operation and its actions:

| Operation | Actions |
|---|---|
| `apply` / `insertApplication` | `BeginApply` (reads today) → `LockVacancy` (`FOR SHARE`, open?) → `CheckActive` (friendly check) → `Insert` (unique index) → `CommitApply` |
| `withdraw`, `moveStage` / `moveWithin` | `BeginWithdraw`, `BeginMoveStage` → `LockApp` (`FOR UPDATE`, `MayMove`) → `CountHire` for a hire → `CommitMove` |
| `InterviewsService.schedule` + `ensureInterviewStage` | `BeginSchedule` → `PeekStage` (unlocked) → `LockForInterview` or `InsertInterview` → `CommitMove` or `CommitInterview` |
| `VacanciesService.changeStatus` | `BeginChangeStatus` (unlocked read) → `WriteVacancy` → `CommitVacancy` |
| midnight; a dying request | `DeadlinePasses`; `Rollback` |

`WaitsFor(t)` is the whole of the locking: which slots the next statement of `t`
must wait for. The `FOR SHARE`, `FOR UPDATE`, foreign-key and unique-index waits
are the ones PostgreSQL documents for the statements the service issues.

**`HiringBoard`** is the abstract specification: the same tables changed only by
whole operations, one at a time, without requests or locks.
`Applications!ImplementsHiringBoard` is the refinement, with the identity mapping
on the tables: all that statements, locks, waits and rollbacks add is stuttering.

**`Vacancies`**: every writer reads and decides outside its transaction (`Begin…`)
and then writes by id (`CommitPatch`, `CommitStatus`). The fields of a vacancy are
abstracted to what review depends on, its `restriction`; `published_at` is the
position of the publication in the history.

**`Sessions`**: `rotate` locks the presented token's row (`LockToken`), and either
inserts a child (`CommitRotate`) or, on a revoked token, sweeps the family. The
sweeps (`revokeFamily`, `revokeAllForUser`, and the one-row logouts) are one
UPDATE: it fixes its rows in a snapshot, then takes their locks in any order
(`TakeRow`), re-checking each, and commits.

**`Idempotency`**: `run` is lookup, claim (its own transaction), work (the
caller's transaction) and record (another). `Crash` may fall between any two.
The work is external to the service: it creates one resource or refuses.

**`Interviews`**: `schedule`, and the three handlers that read a row outside their
transaction and update by id. Texts are absent, blank (white space) or given,
which is all the DTO, the rule and the CHECK tell apart.

**`Invitations`**: `invite` is its gates, read before any transaction
(`BeginInvite`), the friendly check (`CheckOpen`), the INSERT that waits on the
partial unique index (`Insert`) and `CommitInvite`; `respond` is `LockInvitation`
(`FOR UPDATE`, `canRespond`) and `CommitRespond`. A general invitation has `Null`
for its vacancy, which the index, `NULLS NOT DISTINCT`, compares like any value.

**`Chat`**: `send` is two unlocked reads (`BeginSend`: the blocks,
`AskInteraction`: the hiring interaction), then the transaction `InsertMessage`,
`Touch` (the UPDATE of `last_message_at`, which takes the row), `CommitMessage`.
`markRead` stamps its time when its UPDATE begins (`Mark`) and waits for the row
(`CommitMark`). `clock` gives every `now()` a time of its own, and two fields of
`req`, `gateAt` and `seen`, only remember what the properties ask about. The
variable `linked` belongs to another component: `Chat` reads it and never writes it.

**`Engagement`** composes them: `Linked` is `HiringInteractionService.between`,
computed live from the applications of `HiringBoard` and the invitations, and it
is what `Chat` asks (`Talk == INSTANCE Chat WITH linked <- Linked`). Applications
enter as the abstract board because `Applications` is shown to implement it, so
what holds of every behaviour of the board holds of the service's; the vacancy's
deadline, which the board does not have, is left out of `OpenVacancies`.
`between` reads applications, then invitations; here it is one step.

**`Otp`**, **`Accounts`**, **`RateLimit`**: the three services statement by statement.
`Otp.send` supersedes the live code and inserts its own under the partial unique index;
`verify` locks the row it found (`LockCode`), counts the guess and consumes. In
`Accounts` nothing is locked but by writing: a login looks up and later inserts or
updates (`Create`, `Fill`, `Link` and their commits), and only the unique indexes of
`phone` and `telegram_user_id` decide between two. `RateLimit` is one upsert whose
`now()` is older than the row it waited for. **`SignIn`** puts them on one clock and
under one bound, and joins the two transactions of a phone login.

**`Employers`** is `EmployersService` and `VerificationService`: `upsert` recomputes the
stored completeness; `submit` checks its files outside the transaction, inserts under
the open-submission index and locks the employer last; `decide` takes the open
submission first. **`Files`** is the chain upload, insert, list, retire (each its own
statement or its own call to Telegram), with a process dying between any two. Removing
a row never removes the message. **`Records`** composes them on one account's files.

**`CandidateProfile`**: `patch` validates, locks the profile row (`LockProfile`), writes,
re-reads (`LoadAggregate`), derives (`ComputeDerived`) and commits; the history requests
do the last three without the lock. `stale` and `overtaken` remember, for the
properties, which transaction was passed by another.

**`FieldSchemas`**, **`FieldRules`**: the two declarations as functions from field codes
to fields, `fieldsFor`, `isRequiredIn`, `computeCompleteness`; and every parser of
`field-validator.ts` over raw values that keep only what a rule tells apart. The rules
and the resolver take a form as data (`CandidateForm`, `VacancyForm`); the runs give
them the two declarations.
**`VacancyFields`** is what a PATCH makes of a stored vacancy and the CHECKs between its
columns. **`Search`** is the WHERE, the score, the sort keys and the count of candidate
search, and the prefill. **`Matching`** sets profile, vacancy and search against each
other: the profile is the one `CandidateProfile` keeps, the vacancies are all that two
bodies reach.

**`Discovery`**: every writing request is a check in one statement and a write in
another (`Begin`, `Commit`); what changed in between is settled by a key. **`Listings`**
runs it beside `Vacancies`.

**`Dictionaries`**: a seeder is one transaction over the items of the data file
(`ReadItem`, `InsertItem`, `UpdateItem`, `ReadLabels`, `WriteLabels`, `Activate`,
`Commit`), whose revisions come from a sequence that no rollback gives back; a client's
request is `AskTag`, `ReadVersion`, `ReadRows`, `Deliver`. The office that retires,
merges and corrects items is announced by the tables and the delta, and is not written
yet: it is modelled from them.

**`MC…`** modules instantiate these for TLC: model values, symmetry, and, for
`Interviews`, `Records`, `Profile` and `Dictionaries`, the sample inputs.

**`ApplicationsProofs`**, **`InterviewsProofs`**, **`ListingsProofs`**,
**`SignInProofs`** (with the proofs about `Sessions`, what signing in opens),
**`EngagementProofs`** (with the proofs about `Idempotency`, the protocol messages and
invitations are sent under), **`RecordsProofs`**, **`DictionariesProofs`**,
**`MatchingProofs`**: the proofs. `Sessions` and `Idempotency` have names of their own
(`SessionsInit`, `RunInit`, …), so that their proofs can stand beside others'.

## What the runs check

| Run | Question | Result |
|---|---|---|
| `applications` | Three concurrent requests of every kind, five in all, two candidates and two applications on one vacancy: BR-06, BR-07, BR-08 and the hire counter under every interleaving; the inductive invariant; refinement of `HiringBoard` | holds |
| `applications_live` | Does every request end? Three requests of one candidate, two application ids, deadlocks possible | holds under fairness |
| `vacancies` | Three racing writers of one vacancy, moderation off, beside two people who save, note, shortlist and report, six requests in all (`MCListings`) | holds |
| `sessions` | Three racing rotations, logouts and sweeps over four sessions | holds |
| `idempotency` | Four arrivals on two keys, three at a time, dying anywhere | holds |
| `interviews` | Three racing writers of one interview, with right, wrong and blank details | holds |
| `engagement` | One employer and one candidate who apply, move, invite, answer, open, write, block and read, two requests of each service at a time, six operations in all: does the chat do only what applications and invitations allow? | holds |
| `signin` | Codes, logins, links, deletions and blocks on two accounts, two requests of each service at a time, three in all, under a limit, over a clock of three ticks | holds |
| `records` | One employer's profile, submissions and decisions, and the files they cite: two requests of each, four in all, dying anywhere | holds |
| `profile` | Three requests on one profile, two at a time, from sixteen bodies; every field rule over every sample; every vacancy two bodies reach, with the search it opens | holds |
| `dictionaries` | Two seeders that overlap and die, two releases, one act of the office, one lost answer: are copies true, and does everybody get there? | holds under fairness |
| `profile_gate` | `SearchGateIsTrue`: `candidates.service.ts:117` | violated: an experience entry recomputes the completeness without the lock a PATCH takes, and the loser's stale gate stays |

A run checks few, named properties; where several statements make one idea they are
conjuncts of one definition (`RowsHold`, `CodesHold`, `GateHolds`, …), each with its own
name and comment in the module it belongs to. Where an invariant is proved, what makes it
inductive is among the conjuncts, or in an `IInv` made of them: what each request in
flight carries and relies on (`RequestOK` and its like). TLC checks those too.

Every property of a passing run is paired in `PROJECT.json` with a mutant, the
operator defined just before the one it replaces (`… Mutant: …`), that makes it
fail: a lock not taken, an index absent, a stamp not cleared, a check skipped.

### Bounds, and why they are enough

`MaxRequests` (in `Sessions` `MaxCalls`, in `Idempotency` `MaxAttempts`) limits the
requests that arrive in a behaviour, never what a request does. Each hazard here involves two requests, or
three when a third must set the scene while two race; slots (`Txns`) are three and
the arrivals allow one or two serial ones first (an apply before two moves). One
vacancy suffices because no statement touches two; two candidates and two
applications give every pair of equal and different keys. `Targets` leaves out
stages that the machine treats as it treats `interview` (the intermediate ones).
In `engagement` one application, two invitations (to the vacancy and general, or
one after the other) and two thread ids give every pair of equal and different
keys; a message needs three operations first (an interaction, a thread, a gate),
which leaves three of the six to race it. In `sessions` four rows hold a chain of three
and a second family.

`signin` starts from empty tables or with a registered account (`Registered`), so its
three requests can all race; `MaxAttempts`, `ResendDelay` and `Ttl` are 1 and `Window`
2 on a clock of three ticks, which reaches the last attempt, the first permitted
resend, the expiry and the turn of a window. `records` starts from every combination
of a complete or incomplete employer and files that are or are not there; two
submissions and two files are one that is open and one that is raced. In `profile` the
bodies are one per rule that couples two fields (region and district, primary and
additional occupation, level without primary, an undated leap-day birth, a birth date
only the CHECK refuses, repeated skills); `Samples` has every shape of raw value, each
limit of the declarations on both sides, and each kind of dictionary item, active,
retired, of the wrong type or group; `Days` has the ends of February and its
neighbours in leap years and others. `Cap` is 2, so three candidates pass it. In
`dictionaries` two items give an order in which two seeders can wait for each other,
two releases a re-seed that changes something. Symmetry is
used on ids only; the liveness run has none.

### Fairness

`Applications!FairSpec` asks two things. A statement that waits for nobody, and a commit, is
eventually run (`WF_vars(Step(t))`): the Node process and the database keep
running; a request that dies instead takes `Rollback`. And PostgreSQL's deadlock
detector (`deadlock_timeout`, on by default) ends every cycle of waits: weak
fairness of `Rollback(t)` *while `t` is on a cycle*. Rollbacks in general are not
fair, and arrivals are not.

`Dictionaries!Spec` asks two things: the next statement of a seeder runs when the rows
it needs are free (`WF_vars(Seeding(s))`; deaths are `Crash`, which is not fair), and a
client goes on with its request and asks again at every launch (`WF_vars(Fetching)`;
losses are bounded and not fair). No detector is needed there: every seeder walks the
items in the same order, and `AllSettles` fails when one does not.

`CHECK_DEADLOCK FALSE` stands in every configuration because a bounded behaviour
stops when its requests have all arrived and ended.

### Where the code and its comments part

The violated run, `profile_gate`, and these, which were met while modelling and have no
run. Vacancies, sessions, idempotency, interviews, chat:

* `vacancies.service.ts:380`: `changeStatus` writes a transition of the status it read
  outside its transaction, so a resume that read `paused` reopens a vacancy closed
  meanwhile, against "Terminal" in `vacancy-status.ts:27`. `OnlyStaleRequestReopens` is
  what remains: nothing else reopens one.
* `vacancies.service.ts:383`: `changeStatus` asks the transition table alone, so
  `PUT status` publishes a restricted draft that no moderator has seen, and without the
  checks of submit, against lines 297-299.
* `session.service.ts:125`: the reuse sweep's snapshot misses the uncommitted child of a
  rotation, against "revokes the entire family" (lines 80-81).
* `idempotency.service.ts:94`: a crash between the work and the record of its resource
  leaves the key in progress for ever although the work committed, against lines 76-77.
* `interviews.service.ts:217`: a confirmation is attached to a time set after the
  candidate's request was read, against `interview-rules.ts:92-94`.
* `vacancies.service.ts:156`: `patch` decides "editable" on a status read outside
  its transaction, so an edit can land while the vacancy is under moderation
  (`vacancy-status.ts:39` says an edit mid-review must not).
* `vacancies.service.ts:260`: submitting a rejected vacancy without editing it
  passes `canSubmitFrom` and then meets a transition the table lacks, which
  `applyStatus` (line 430) calls unreachable through a route.
* `session.service.ts:217`: terminate-all misses an uncommitted child as the
  family sweep does.
* `idempotency.service.ts:82`: the second of two concurrent claims fails on the
  primary key with an unhandled error; lines 40-41 say it waits and finds the
  first one's result.
* `applications.service.ts:343`: the unlocked read lets an interview be written
  for an application ended in between; and for a `hired` one `schedule` is refused
  where lines 333-334 say it is left alone.
* `interviews.service.ts:146,217`: reschedule and respond overwrite a cancellation
  that commits in between.
* `interview-rules.ts:33`: a stray detail of white space passes the rule and fails
  the CHECK, as an internal error.
* `invitations.service.ts:126-131` and `chat.service.ts:192-196`: the gates are
  asked before the idempotency key is looked up, so the retry of a request that did
  commit is refused once the vacancy has closed or the candidate has withdrawn,
  where lines 118-119 and 181 promise that it replays or is safe.
* `chat.service.ts:245`: `now()` is when the transaction began, so of two racing
  senders the one that began first may write `last_message_at` last and set it
  back; `ActivityIsReal` is what remains true. By the same rule a message that
  commits after a `markRead` may carry an earlier time and is born read
  (line 317: "everything up to now has been seen"); `MarkCoversSeen` is the half
  that holds.

Signing in, employers, files:

* `otp.service.ts:74`: of two concurrent sends both can succeed, the second superseding
  the first; the comment has the index refuse one.
* `auth.service.ts:83`: a Telegram login of a known account whose phone another account
  holds violates the unique index and answers 500 ("Known Telegram id - sign in").
  Lines 113-116: two Telegram accounts with one phone that link at once overwrite each
  other.
* `users.service.ts:101`: `requestDeletion` overwrites a block that commits in between,
  and two taps write two history rows; `StatusOnRecord` is what remains.
* `verification.service.ts:138,225`: `verified` is not terminal (two decisions leave a
  submission `verified` under an employer `rejected`), and a decision can leave an open
  submission under an employer who is not under review, against
  `migrations/20260805150000_create_employers.ts:18-19`. A document cited by a
  submission may be gone when it commits.
* `attachments.service.ts:115` retires "oldest first"; the list is newest first, so of
  several superseded files the newest goes first, and the oldest stays if the process dies.
* Concurrent upserts of different types leave a company row on an individual;
  `POST /files` with purpose `cv` is not held to the slot's limit; an upload that is slow
  enough is retired by its own list; a timeout leaves a message no row names.

Profile, search, saved items, dictionaries:

* `field-validator.ts:448-451`: the region a district is judged under is the stored one,
  never the request's. Line 554: the comment on repeated items says which is kept, and
  the first is. A birth date before 1920 passes the validator and fails the CHECK, an id
  that is no UUID fails the query, both as internal errors. A level without a primary
  occupation is dropped silently. Required fields can be cleared, of an active vacancy
  too, and a PATCH that breaks a CHECK between two columns answers 500.
* `yearsBefore` counts 29 February forward where PostgreSQL counts it back: a person born
  on 1 March passes a day early.
* `search-prefill.ts`: preferred requirements are dropped where the comment has the score
  reward them; "match all" with an id named twice finds nobody; the form takes an age
  limit of 100, the DTO 99; salaries are compared without their period. The vacancy
  feeds sort by `published_at` with no unique tiebreak.
* `search-query.ts:367-370`: the languages' share "counts requirements met, not rows", and
  the query counts rows: of a language required twice one is counted, so that a candidate
  who meets both requirements does not score in full. `AdmittedScoreFull` leaves such
  filters out.
* `discovery.service.ts:431`: a vacancy can be saved and reported whatever its status, and
  the saved list shows one that is under moderation again. A note of spaces passes the
  DTO and fails the CHECK.
* A revision is taken before its transaction commits: two writers other than the seeder
  (which is alone by deployment) would let a client skip the slower one's change. The
  model assumes the office does not write while a seeder runs; without that,
  `NothingMissed` fails. A seed activates again what the office retired or merged, and
  the second of two overlapping seeders rewrites what it had read too early.
* `schemas.service.ts`: the attachments of a form are labelled from a dictionary, but the
  form's tag holds the schema version alone; and `DEPLOYMENT.md:54-57` (migrate, seed,
  start) lets a client keep the old form under the new version.

## What is proved

For every value of the constants (any number of accounts, vacancies, keys, rows, files and
slots), from the named assumptions of each module alone. They say that `Null` and the like
are no ids, that bounds and limits are natural numbers, and what the code fixes by its
types: in `Applications` `Targets` are stages an employer may ask for; the notes of
`Discovery` are not the mark of a row without one; a route limits subjects that have a
limit; a slot of the form has a purpose and holds at least one file; a behaviour uses
finitely many file ids; a data file names an item once; in `CandidateProfile` and
`Matching` a declared field is as `schema-types.ts` and the two forms have it (`FieldOK`:
a kind, limits that are numbers, a parent only for an option, amounts of pay ordered and
with a least one, extras that are texts or flags), the forms declare the kinds of the
fields that are columns or that a search is opened with and the candidate's has only the
district under a parent, requires something of everybody and has fewer than 198 fields
(from 200 entries on, a percentage would round up to 100 with one missing), a vacancy's
age limits lie between 14 and 100, its years of experience between 0 and 70, and its
workers are at least one; a level's rank is a whole number and today a day that exists; a
raw value is JSON (`RawOK`: the numbers in a body, in lists and objects too, are whole
ones or halves, lists are finite, and the date a text spells is three numbers); rivals
have positive ids, and what a sort compares of them is a number or missing, a filter's
list is finite and names no `Null`.

| Theorem | Statement |
|---|---|
| `ApplicationsProofs!LocksHold` | `Spec => []IInv` |
| `ApplicationsProofs!TypeCorrect` | `Spec => []TypeOK` |
| `ApplicationsProofs!OneActive` | `Spec => []OneActivePerPair` (BR-07) |
| `ApplicationsProofs!AppliesOnlyToOpen` | `Spec => ApplyOnlyToOpen` (BR-06) |
| `ApplicationsProofs!StageMachine` | `Spec => StagesFollowMachine` |
| `ApplicationsProofs!Implements` | `Spec => ImplementsHiringBoard` |
| `ApplicationsProofs!TablesAlwaysAgree` | `Spec => []TablesAgree` (the hire counter, BR-08) |
| `EngagementProofs!ClaimsHold` | `RunSpec => []RunInv` |
| `EngagementProofs!OncePerKey` | `RunSpec => []AtMostOncePerKey` |
| `EngagementProofs!ReplaysOriginal` | `RunSpec => []ReplaysTheOriginal` |
| `SignInProofs!LocksHold`, `TypeCorrect` | `SessionsSpec => []SessionsInv`, `SessionsSpec => []TypeOK` |
| `SignInProofs!OneLive` | `SessionsSpec => []OneLivePerFamily` |
| `SignInProofs!Chain` | `SessionsSpec => []FamilyIsChain` |
| `SignInProofs!RevokedStays` | `SessionsSpec => RevokedForEver` |
| `SignInProofs!SweepComplete` | `SessionsSpec => SweepRevokesWhatItSaw` |
| `InterviewsProofs!ChecksAlwaysHold` | `Spec => []ChecksHold` |
| `InterviewsProofs!HistoryAlwaysRecordsStatus` | `Spec => []HistoryRecordsStatus` |
| `ListingsProofs!ListingsAlwaysHold` | `Spec => []ListingsHold` |
| `ListingsProofs!HistoryAlwaysRecordsStatus` | `Spec => []HistoryRecordsStatus` |
| `ListingsProofs!StaleReadsAlone` | `Spec => OnlyStaleReadsEscape` |
| `ListingsProofs!WhatIsKeptStays` | `Spec => KeptStays` |
| `SignInProofs!LimitAlwaysHolds` | `Spec => []LimitHolds` |
| `SignInProofs!CodesAlwaysHold` | `Spec => []CodesHold` |
| `SignInProofs!AccountsAlwaysHold` | `Spec => []AccountsHold` |
| `SignInProofs!StatusAlwaysOnRecord` | `Spec => []StatusOnRecord` |
| `SignInProofs!OnlyLiveCodesEverOpen` | `Spec => OnlyLiveCodesOpen` |
| `SignInProofs!BlockAlwaysStops` | `Spec => BlockStops` |
| `EngagementProofs!RowsAlwaysHold` | `Spec => []RowsHold` |
| `EngagementProofs!MessagesAlwaysNeedConsent` | `Spec => []MessagesNeedConsent` (BR-09) |
| `EngagementProofs!BlocksAlwaysStopSends` | `Spec => BlocksStopSends` |
| `EngagementProofs!MarksAlwaysCoverSeen` | `Spec => MarksCoverSeen` |
| `RecordsProofs!EmployerAlwaysHolds` | `Spec => []EmployerHolds` |
| `RecordsProofs!VerifiedAlwaysHasEvidence` | `Spec => []VerifiedHasEvidence` (BR-03) |
| `RecordsProofs!HistoryAlwaysNamesStatus` | `Spec => []HistoryNamesStatus` |
| `RecordsProofs!FilesAlwaysHold` | `Spec => []FilesHold` |
| `DictionariesProofs!CopiesAlwaysHold` | `Spec => []CopiesHold` (BR-13) |
| `DictionariesProofs!SeedsAlwaysSettle` | `Spec => SeedsSettle` |
| `MatchingProofs!GateAlwaysHolds` | `InitWith(full, record) /\ [][Next]_vars => []GateHolds` (BR-02) |
| `MatchingProofs!AgesAlwaysAgree` | the same `=> []AgesAgree` |
| `MatchingProofs!PatchAlwaysTouchesItsFields` | the same `=> PatchTouchesItsFields` |
| `MatchingProofs!PagesAlwaysAddUp` | the same `=> []PagesAddUp`, if `full` is `BodyOK` |
| `MatchingProofs!AnswersAlwaysSurvive` | the same `=> []AnswersSurvive`, if `full` is `BodyOK` |
| `MatchingProofs!PrefillAlwaysHolds` | the same `=> []PrefillHolds`, if `full` is `BodyOK` |

Here `full` is any body and `record` any record: a behaviour starts from empty tables or,
if the form accepts `full`, from what it stores; the run starts from one such body.

`Vacancies`, `Discovery`, `Otp`, `Accounts`, `RateLimit`, `Invitations`, `Chat`,
`Employers` and `Files` are proved about in the modules that compose them, through the
instances: a lemma for each action, and a frame lemma that says what a step of one
component leaves to the other.

**Applications.** `OneActivePerPair` is not inductive: `CommitApply` publishes a row on the strength
of what `Insert` saw, a statement earlier. `IInv` says what each lock lets a
request rely on in between: `RowsOK` (a row names its vacancy and candidate),
`RequestsOK` (a request carries what its next statements need), and `LocksOK`:
under `FOR UPDATE` the remembered stage is the current one and nobody else holds
the row; under `FOR SHARE` the vacancy stays open and has no pending writer; a
pending hire's count is current; an uncommitted application is the only claim on
its id and its pair. Each action preserves it because of what it waits for
(`Granted`), and every published change then has a serial counterpart, which is
the step of the refinement. The proof of `LocksHold` has a lemma per action; the
frame lemma says that an action of one slot leaves the others' parts alone unless
it changes a row they hold. `TablesAgree` is then proved of the board, not of the
statements: a step of `HiringBoard` that hires adds one application to a finite set and
one to the counter, and appends to one history; the refinement carries it over.

**Idempotency.** `AtMostOncePerKey` holds because of the claim, which is committed
before the work and outlives whoever made it. `ClaimsOK` says so: the holder of a
claim is the only request at work on its key and has created nothing before
(`RequestOK`); nothing is created under a key that is not claimed
(`OriginsClaimed`); what a claim points to was created for it (`ClaimsReplayable`).
A crash takes away a holder and never a claim, which is why it preserves all three.

**Sessions.** `SessionsInv` adds three parts to the two invariants: a row exists in a family
that some issue opened (`RowsOK`), so a fresh id is no family's name; a row has one
writer at a time (`LocksOK`); and a request at its commit finds the row as its lock
found it (`RequestOK`: the token is live, the child is nobody's, what a sweep has
taken is live and what it has not is waiting or already revoked). A rotation then
replaces the family's only live row by another, and a sweep writes live rows only,
which is also why revocation is final.

**Interviews.** Requests write by id what they decided on a row read before. What saves
the CHECKs is that rows are never deleted, so the row is still there, and that a request
carries a whole decision (`RequestOK`): details that the rule has judged together, a
status with the `responded` that goes with it. No lock is needed, and what is lost by
having none (an overwritten cancellation) is listed above.

**Listings.** `published_at` is never unset, and a request that read a status past
publication proves the publication it relies on; so a late write by id may be stale but
never breaks a CHECK. `OnlyStaleReadsEscape` and `KeptStays` are then step properties of
the same invariant: which request can have read what.

**SignIn.** Four invariants over one clock. The counter of a window covers the requests it
let through, whichever upsert arrives late. A code has one holder of its row lock and a
phone one pending insert; every code that opened an account is consumed, and the opened
ones are a finite set that the logins count. Claims on phones and Telegram ids, pending
ones included, are unique, because the index makes the second claimant wait; a phone is
set once. A request that passed the guards did so before the block that would have
stopped it (`GuardsOK`), which is all that a block read outside the transaction promises.

**Engagement.** A slot of the partial unique index has one pending insert, and a status read
under `FOR UPDATE` is current, so answers are final. A message's gate was read before
the message (`gateAt`) and the clock never goes back; consent is monotonic, because an
application keeps its candidate and an accepted invitation stays accepted; together they
give `MessagesNeedConsent` although nothing of it is locked.

**Records.** *Files.* A row keeps its purpose, message and time, and a deleted file stays
deleted, so `Newer(f)` only grows: what a list found outnumbered stays outnumbered, in
whatever order uploads publish. A file beyond its slot's number always has a request that
is to list or to retire it (`ExcessIsCovered`), or the purpose is marked `overfull`; when
no such request is left, the oldest file of a slot over its limit would be beyond its
number and uncovered. That there is an oldest is the least-number principle, by
well-founded induction. *Verification.* `VerifiedHasEvidence` is not
inductive: the files were looked up before the transaction and may be gone since. What
stays is what `RequestOK` and `SubmissionsOK` say: their rows and purposes are for good;
a pending submission's id is nobody else's and, under review, its insert the only one
(`InsertsApart`); and whoever is past `not_submitted` has a submission that covers the
type, which no form can change any more. The stored completeness agrees with the answers
after every commit, because it is derived under the lock it is stored under; the
percentage is 100 exactly if nothing is missing, by arithmetic over the four or the seven
required fields.

**Dictionaries.** A revision is taken long before its transaction commits, so that no delta
skips one is not a fact about the sequence. It holds because of two others. While the
tables do not say what the release declares, nobody has committed since the first seeder
started (a commit is always of a whole walk, `WalkOK`, and leaves the tables `settled`),
so every pending row is newer than the whole type (`PendingOK`). Once they do say it, a
seeder that had read them too early still rewrites rows, under revisions that a client's
version may cover already, but only with the content they have, and never under an older
revision than the row had, because it waited for the row. So each code stays as it is,
overtakes the version of the type, or keeps its content (`Advanced`), and both copies, the
client's and the one an undelivered answer would make, stay `Current` for their version.
That `TypeVersion` is the greatest revision, and exists, is the least-number principle
again.

**Profile.** `GateHolds` speaks of rest; what carries it there is in `RequestOK`: what a
transaction has read back is still what it would read (`Reading`), and what it derived is
derived of that, unless it has been overtaken. A commit overtakes whoever has read; a
PATCH is never among them, because it holds the row exclusively from its lock to its
commit and every commit waits for such a row (`OvertakenOK`). So a commit that was not
overtaken stores what its own rows say, and one that was is marked `stale`. That ages agree
is arithmetic over days that exist, by the lexicographic order of dates; that a PATCH
touches its fields alone rests on its values being fields of its category (`ValuesOK`),
and an unanswered value being the one that is read where there is no row.

**What the validator accepts.** `AnswersSurvive` speaks of what is stored, so the invariant
it needs, `ValuesReadBack`, speaks of what is stored and of what is on its way to be:
every value is in order for its field (`ValueOK`). A value in order is one that, written
out as `toFields` writes it, parses to itself: for the kinds with one value that is what
`ValueOK` says, under every region its district could belong to; lists and levelled rows
are in order by what their entries are, since the rows a list of entries leaves are the
sound ones of an item's first mention (`Rows` says so of all entries at once, so that no
induction along the list is needed), and the entries of stored rows mention each item
once. What `Validate` accepts is in order (`AcceptedValue`, kind by kind), a step stores
only what a request carries and a request carries only what a body was parsed to
(`CarriedAlong`), the tables drop only a level without an occupation and an additional
occupation that becomes the primary (`AppliedInOrder`). A district is then the one answer
that can stop reading back: when a PATCH moves its region, which `ReadsBack` excepts. That
a vacancy's PATCH breaks only CHECKs between two fields follows field by field from the
limits its form declares (`AcceptedNumber`, `PatchedInOrder`).

**Search.** Scores and experience are sums over sets of any size. The library's induction
takes an operator as a parameter, which the provers cannot instantiate; a set can stand in
for it: a set of numbers that holds 0 and the successor of each of its members holds them
all, since what it lacked would have a least element (`AllNumbers`). Along the size of a
set a fold then exists, is the one there is (`FoldIsUnique`) and unfolds (`FoldUnfolds`),
which gives the three facts that scores need: a sum of shares of weights is at most the
weights' (`SharesBound`), the common denominator is a multiple of every group's
(`ProductDivides`), and numbers stay numbers (`FoldType`). So each sort compares five
numbers of which the last is the candidate's own (`SortKeys`), and at the least place where
two keys differ one is smaller (`OneOfTwoFirst`). The pay a candidate states is a number
because the validator let nothing else through, in every request on its way too
(`PaysOK`).

**The search a vacancy opens.** `Prefill` lays nine filter sets side by side, and which
filters there are, with which values, is what everything rests on: `Asks` says it of one
name, `Among` that sets with different names stay what they are when they are put
together, and the `Prefilled...` lemmas of every filter. Each clause of `WhereFilters` then
comes down to the vacancy's own words by a lemma of its own (`PlaceAsked` to
`StatusAsked`), over lists of ids that hold each id once (`ListAsks`): an age, turned into
a birth date, by `DatabaseAges`; the skills by `SkillsAsked`, which is the one clause that
is not an equivalence, since the lowest of the asked levels stands for all of them
(`LowestRank`). This uses what the forms let through, on both sides: a stored vacancy's
ages, levels and pay are numbers within the limits of its form (`VacancyInOrder`), and so
are the candidate's levels, crew and birth date, by `ValuesReadBack` again (`LiveReads`).

Only model-checked: `RequestsEnd` and `AllSettles`, since liveness under fairness is
outside the prover's reach. Every invariant and every action property of a run is a
theorem.

## Plan

Written, in this order: statuses → `HiringBoard`, `Applications` → `Vacancies` →
`Sessions` → `Idempotency` → `Interviews` → proofs of `Applications` →
`Invitations`, `Chat`, `Engagement` → proofs of `Idempotency` and `Sessions` → `Otp`,
`Accounts`, `RateLimit`, `SignIn` → `Employers`, `Files`, `Records` → `FieldSchemas`,
`FieldRules`, `CandidateProfile`, `VacancyFields`, `Search`, `Matching` → `Dictionaries`
→ `Discovery`, `Listings` → proofs of `Interviews`, `Listings`, `SignIn`, `Engagement`,
`Records`, `Dictionaries` and `Matching`.

Next, most important first:

1. Contact exposure: which fields `expose` hands out, over the interaction of
   `Engagement`.
2. The schema endpoint's version and tag beside a deployment.

## Not modelled

Bootstrap, configuration, health, logging, i18n and locale formatting have no state of
their own. The literal data of the dictionaries (two fifths of the lines of the
implementation are that, messages and generated types) is content: `MCProfile` and
`MCDictionaries` carry small dictionaries of the same shape. Request validation by DTOs,
authentication of the caller and ownership checks (a row of another employer is
"not found") are taken as passed: a slot's request is one that reached the
service's state. Left out of modelled parts: internal notes, read projections and card
columns, the ranking of the vacancy feeds, contact exposure, the attachments of a
message, the locale fallback chain, the dictionary manifest, `schema_versions` and the
form's tag, the verification of Telegram's token, and time stamps that nothing decides
on. Transport failures inside a transaction are its rollback; a failure of the database
itself is outside the models.

## Running

`tlc -config MCApplications.cfg MCApplications` and likewise for the others;
`tlapm ApplicationsProofs.tla` and likewise for the other proof modules.
