-------------------------------- MODULE Employers --------------------------------
(***************************************************************************)
(* EmployersService and VerificationService: the profile of one employer,  *)
(* the completeness derived from it, and the verification machine that     *)
(* BR-03 rests on (section 6.1).                                           *)
(*                                                                         *)
(* submit and decide read the status before their transactions begin; the  *)
(* transactions lock the submission first and the employers row last, and  *)
(* publish what they wrote at commit.                                      *)
(***************************************************************************)
EXTENDS Naturals, Sequences, FiniteSets

CONSTANTS
  Answers,      \* the sets of fields a profile form may carry filled in
  Evidence,     \* the sets of files a submission may name
  Submissions,  \* ids the verification_submissions table may hand out
  Txns,         \* requests in flight at once
  MaxRequests,  \* bound: requests that arrive in one behaviour
  Null

VARIABLES
  review,      \* EMPLOYER_VERIFICATION_ENABLED
  profile,     \* the employers row
  company,     \* the companies row: its filled columns, Null without a row
  submission,  \* verification_submissions and their files: id -> row
  history,     \* employer_verification_history, in order
  live,        \* the employer's files that are not deleted
  purposeOf,   \* the purpose of each of the employer's files
  pc, req, arrived

tables == <<profile, company, submission, history>>

vars == <<tables, review, live, purposeOf, pc, req, arrived>>

--------------------------------------------------------------------------------
(* employer-requirements *)

EmployerColumns == {"contactPhone", "regionId", "description", "fullName"}

CompanyColumns == {"legalName", "publicName", "industryId", "contactPersonName"}

Types == {"company", "individual"}

RequiredFields(type) ==
  {"contactPhone", "regionId", "description"} \cup
  (IF type = "company" THEN CompanyColumns ELSE {"fullName"})

\* id_document is declared optional, and so is the free-form `evidence`.
RequiredEvidence(type) == IF type = "company" THEN {"company_registration"} ELSE {}

--------------------------------------------------------------------------------
(* Rows and requests *)

Statuses == {"not_submitted", "under_review", "verified", "rejected", "changes_required"}

Decisions == {"verified", "rejected", "changes_required"}

Profile == [type     : Types \cup {Null},
            filled   : SUBSET EmployerColumns,
            status   : Statuses,
            stamped  : BOOLEAN,     \* verified_at is set
            percent  : Nat,
            complete : BOOLEAN]

NoProfile == [type |-> Null, filled |-> {}, status |-> "not_submitted",
              stamped |-> FALSE, percent |-> 0, complete |-> FALSE]

Row == [status : Statuses \cup {Null}, files : Evidence \cup {{}}]

NoRow == [status |-> Null, files |-> {}]

HistoryRow == [from : Statuses, to : Statuses]

NoRequest == [op |-> Null, type |-> Null, answers |-> {}, files |-> {}, to |-> Null,
              read |-> Null, target |-> Null]

Ops == {"upsert", "submit", "decide"}

Request == [op      : Ops \cup {Null},
            type    : Types \cup {Null},
            answers : Answers \cup {{}},
            files   : Evidence \cup {{}},
            to      : Statuses \cup {Null},
            read    : Statuses \cup {Null},
            target  : Submissions \cup {Null}]

Exists == profile.type # Null

Open == {s \in Submissions : submission[s].status = "under_review"}

--------------------------------------------------------------------------------
(* Completeness *)

CompanyFilled == IF company = Null THEN {} ELSE company

Missing(type, filled) == RequiredFields(type) \ filled

\* Math.round of the share, in per cent.
Percent(part, whole) == (200 * part + whole) \div (2 * whole)

Derived(row, companyFilled) ==
  LET missing == Missing(row.type, row.filled \cup companyFilled)
      whole   == Cardinality(RequiredFields(row.type))
  IN [row EXCEPT !.percent = Percent(whole - Cardinality(missing), whole),
                 !.complete = missing = {}]

\* BR-03, and canPublish of the profile answer.
CanPublish == profile.complete /\ profile.status = "verified"

--------------------------------------------------------------------------------
(* Control *)

\* Transactions that hold the employers row.
RowHolders == {t \in Txns : pc[t] = "commit"}

\* Transactions whose uncommitted insert or decision is on an index entry of the
\* open submission.
OpenWriters(t) ==
  {u \in Txns \ {t} : pc[u] \in {"row", "commit"} /\ req[u].target # Null}

Arrive(t, statement, request) ==
  /\ pc[t] = "idle"
  /\ arrived < MaxRequests
  /\ pc' = [pc EXCEPT ![t] = statement]
  /\ req' = [req EXCEPT ![t] = request]
  /\ arrived' = arrived + 1
  /\ UNCHANGED <<tables, review, live, purposeOf>>

Goto(t, next) ==
  pc' = [pc EXCEPT ![t] = next] /\ UNCHANGED <<review, live, purposeOf, arrived>>

Finish(t) == Goto(t, "idle") /\ req' = [req EXCEPT ![t] = NoRequest]

Refuse(t) == Finish(t) /\ UNCHANGED tables

Continue(t, next, request) ==
  Goto(t, next) /\ req' = [req EXCEPT ![t] = request] /\ UNCHANGED tables

\* The statement that writes the employers row waits for whoever holds it.
LockRow(t) == pc[t] = "row" /\ RowHolders = {} /\ Continue(t, "commit", req[t])

--------------------------------------------------------------------------------
(* upsert *)

\* `type` is settable at creation only.
BeginUpsert(t, type, answers) ==
  /\ Exists => profile.type = type
  /\ Arrive(t, "row", [NoRequest EXCEPT !.op = "upsert", !.type = type, !.answers = answers])

\* Mutant: completeness follows the type of the form instead of the profile's.
StoredOfForm(row, r) == [Derived([row EXCEPT !.type = r.type], CompanyFilled') EXCEPT !.type = row.type]

Stored(row, r) == Derived(row, CompanyFilled')

\* ON CONFLICT leaves the type alone, but the companies row follows the form's.
CommitUpsert(t) ==
  LET r   == req[t]
      row == [profile EXCEPT !.type = IF Exists THEN @ ELSE r.type,
                             !.filled = r.answers \cap EmployerColumns]
  IN /\ pc[t] = "commit" /\ r.op = "upsert"
     /\ company' = IF r.type = "company" THEN r.answers \cap CompanyColumns ELSE company
     /\ profile' = Stored(row, r)
     /\ Finish(t)
     /\ UNCHANGED <<submission, history>>

--------------------------------------------------------------------------------
(* applyStatus *)

WithStatus(row, status) == [row EXCEPT !.status = status, !.stamped = (status = "verified")]

\* Mutant: what no administrator decided leaves no row.
ApplyStatusSilent(from, to) ==
  /\ profile' = WithStatus(profile, to)
  /\ history' = IF review THEN Append(history, [from |-> from, to |-> to]) ELSE history

ApplyStatus(from, to) ==
  /\ profile' = WithStatus(profile, to)
  /\ history' = Append(history, [from |-> from, to |-> to])

--------------------------------------------------------------------------------
(* submit *)

CanSubmitFrom(status) == status \in {"not_submitted", "changes_required", "rejected"}

Decided == IF review THEN "under_review" ELSE "verified"

BeginSubmit(t, files) ==
  /\ Exists /\ profile.complete /\ CanSubmitFrom(profile.status)
  /\ Arrive(t, "files", [NoRequest EXCEPT !.op = "submit", !.type = profile.type,
                           !.files = files, !.to = Decided, !.read = profile.status])

\* Mutant: a document counts whatever its purpose.
CoversAny(files, type) == files # {} \/ RequiredEvidence(type) = {}

Covers(files, type) == RequiredEvidence(type) \subseteq {purposeOf[f] : f \in files}

\* ownedFiles, a statement of its own before the transaction.
CheckFiles(t) ==
  LET ok == req[t].files \subseteq live /\ Covers(req[t].files, req[t].type) IN
  /\ pc[t] = "files"
  /\ \/ ok /\ Continue(t, "insert", req[t])
     \/ ~ok /\ Refuse(t)

\* verification_submissions_one_open_idx.
MayInsert(t) == review => Open = {}

InsertSubmission(t) ==
  /\ pc[t] = "insert"
  /\ review => OpenWriters(t) = {}
  /\ \/ /\ MayInsert(t)
        /\ \E s \in Submissions :
             /\ submission[s] = NoRow
             /\ \A u \in Txns : req[u].target # s
             /\ Continue(t, "row", [req[t] EXCEPT !.target = s])
     \/ ~MayInsert(t) /\ Refuse(t)

CommitSubmit(t) ==
  LET r == req[t] IN
  /\ pc[t] = "commit" /\ r.op = "submit"
  /\ submission' = [submission EXCEPT ![r.target] = [status |-> r.to, files |-> r.files]]
  /\ ApplyStatus(r.read, r.to)
  /\ Finish(t)
  /\ UNCHANGED company

--------------------------------------------------------------------------------
(* decide *)

\* A decision other than an approval has a reason.
BeginDecide(t, to, reasoned) ==
  /\ Exists /\ profile.status = "under_review"
  /\ to = "verified" \/ reasoned
  /\ Arrive(t, "find", [NoRequest EXCEPT !.op = "decide", !.to = to, !.read = profile.status])

\* The UPDATE of the open submission starts: its snapshot finds the row ...
FindOpen(t) ==
  /\ pc[t] = "find"
  /\ Continue(t, "take",
       [req[t] EXCEPT !.target = IF Open = {} THEN Null ELSE CHOOSE s \in Open : TRUE])

\* ... and it waits for the row; if it is decided by then, it updates nothing.
TakeOpen(t) ==
  LET s == req[t].target IN
  /\ pc[t] = "take"
  /\ s # Null => \A u \in Txns \ {t} : ~(req[u].target = s /\ pc[u] \in {"row", "commit"})
  /\ Continue(t, "row", [req[t] EXCEPT !.target = IF s \in Open THEN s ELSE Null])

CommitDecide(t) ==
  LET r == req[t] IN
  /\ pc[t] = "commit" /\ r.op = "decide"
  /\ submission' = [s \in Submissions |->
       IF s = r.target THEN [submission[s] EXCEPT !.status = r.to] ELSE submission[s]]
  /\ ApplyStatus(r.read, r.to)
  /\ Finish(t)
  /\ UNCHANGED company

--------------------------------------------------------------------------------

\* The process dies or the connection drops: the open transaction rolls back.
Rollback(t) == pc[t] # "idle" /\ Refuse(t)

\* No profile yet, or one that was filled in before.
Init ==
  /\ review \in BOOLEAN
  /\ \/ profile = NoProfile /\ company = Null
     \/ \E type \in Types, answers \in Answers :
          LET columns == answers \cap CompanyColumns
              row == [NoProfile EXCEPT !.type = type, !.filled = answers \cap EmployerColumns]
          IN IF type = "company" THEN profile = Derived(row, columns) /\ company = columns
             ELSE profile = Derived(row, {}) /\ company = Null
  /\ submission = [s \in Submissions |-> NoRow]
  /\ history = <<>>
  /\ pc = [t \in Txns |-> "idle"]
  /\ req = [t \in Txns |-> NoRequest]

Upserting(t) ==
  \/ \E type \in Types, answers \in Answers : BeginUpsert(t, type, answers)
  \/ LockRow(t) \/ CommitUpsert(t)

Submitting(t) ==
  \/ \E files \in Evidence : BeginSubmit(t, files)
  \/ CheckFiles(t) \/ InsertSubmission(t) \/ CommitSubmit(t)

Deciding(t) ==
  \/ \E to \in Decisions, reasoned \in BOOLEAN : BeginDecide(t, to, reasoned)
  \/ FindOpen(t) \/ TakeOpen(t) \/ CommitDecide(t)

Next == \E t \in Txns : Upserting(t) \/ Submitting(t) \/ Deciding(t) \/ Rollback(t)

--------------------------------------------------------------------------------
(* Properties *)

\* Columns and request fields stay within their ranges, the CHECK on verified_at
\* and the one on the percentage included.
TypeOK ==
  /\ profile \in Profile /\ profile.percent <= 100
  /\ profile.stamped <=> profile.status = "verified"
  /\ company \in {Null} \cup SUBSET CompanyColumns
  /\ submission \in [Submissions -> Row]
  /\ history \in Seq(HistoryRow)
  /\ pc \in [Txns -> {"idle", "files", "insert", "find", "take", "row", "commit"}]
  /\ req \in [Txns -> Request]

\* BR-03 reads the stored completeness: it is always what the stored answers of the
\* profile's own type give, also when forms of two types race each other.
DerivedAgrees ==
  Exists => LET derived == Derived(profile, CompanyFilled) IN
            /\ profile.percent = derived.percent
            /\ profile.complete <=> derived.complete
            /\ profile.complete <=> profile.percent = 100

\* The documents that the profile's type requires are among the files of a submission.
EvidenceOnFile ==
  \E s \in Submissions :
    /\ submission[s].status # Null
    /\ \A code \in RequiredEvidence(profile.type) :
         \E f \in submission[s].files : purposeOf[f] = code

\* A verified employer once submitted every document that is required of its type;
\* whoever raced whom, the badge does not stand on nothing.
VerifiedHasEvidence == profile.status = "verified" => EvidenceOnFile

\* The queue holds at most one attempt of an employer, however often submit is tapped.
OneOpenSubmission == review => \A r, s \in Open : r = s

\* BR-08: the last history row names the status the employer has.
HistoryNamesStatus ==
  profile.status = IF history = <<>> THEN "not_submitted" ELSE history[Len(history)].to

\* Statements of a submission, and of a decision.
SubmitPcs == {"files", "insert", "row", "commit"}

DecidePcs == {"find", "take", "row", "commit"}

\* Statements that hold what the request has written.
Holding == {"row", "commit"}

\* What a request carries: for a submission the type of the profile, files that were
\* found to cover it and an id that is not in use; for a decision a status, and a
\* submission to decide unless somebody has been faster.
RequestOK(t) ==
  LET r == req[t] IN
  /\ pc[t] = "idle" => r.op = Null /\ r.target = Null
  /\ pc[t] # "idle" => r.op \in Ops
  /\ pc[t] \in {"files", "insert"} => r.op = "submit"
  /\ pc[t] \in {"find", "take"} => r.op = "decide"
  /\ r.op = "upsert" => pc[t] \in Holding /\ r.type \in Types /\ r.target = Null
  /\ r.op = "submit" =>
       /\ pc[t] \in SubmitPcs /\ Exists /\ r.type = profile.type
       /\ r.read \in Statuses /\ r.to = Decided /\ r.files \in Evidence
       /\ pc[t] # "files" => /\ \A f \in r.files : purposeOf[f] # Null
                             /\ Covers(r.files, r.type)
       /\ pc[t] \in Holding => r.target # Null /\ submission[r.target].status = Null
       /\ pc[t] \in Holding /\ review => Open = {}
       /\ pc[t] \notin Holding => r.target = Null
  /\ r.op = "decide" =>
       /\ pc[t] \in DecidePcs /\ Exists /\ profile.status # "not_submitted"
       /\ r.read = "under_review" /\ r.to \in Decisions
       /\ r.target # Null => submission[r.target].status # Null

\* Two submissions insert different rows, and under review only one inserts at a time.
InsertsApart ==
  \A t, u \in Txns :
    (/\ t # u /\ req[t].op = "submit" /\ pc[t] \in Holding
     /\ req[u].op = "submit" /\ pc[u] \in Holding) =>
    req[t].target # req[u].target /\ ~review

\* Whoever is past the first status has a profile and has submitted; the files of a
\* submission are the employer's, and were there.
SubmissionsOK ==
  /\ profile.status # "not_submitted" => Exists /\ EvidenceOnFile
  /\ \A s \in Submissions :
       IF submission[s].status = Null THEN submission[s] = NoRow
       ELSE \A f \in submission[s].files : purposeOf[f] # Null
  /\ ~review => Open = {}

\* Inductive.
IInv ==
  /\ TypeOK /\ DerivedAgrees /\ OneOpenSubmission /\ HistoryNamesStatus
  /\ (\A t \in Txns : RequestOK(t)) /\ InsertsApart /\ SubmissionsOK

================================================================================
