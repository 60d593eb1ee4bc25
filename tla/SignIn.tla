--------------------------------- MODULE SignIn ---------------------------------
(***************************************************************************)
(* The way into an account: one-time codes (Otp), the accounts they open   *)
(* (Accounts) and the counters in front of both (RateLimit), on one clock  *)
(* and under one bound of requests.                                        *)
(*                                                                         *)
(* POST /auth/otp/verify is two transactions: the code is consumed in the  *)
(* first, and the second finds or creates the account.                     *)
(***************************************************************************)
EXTENDS Naturals, FiniteSets, Sequences

CONSTANTS
  Phones, Dialled, Codes, Secrets, MaxAttempts, ResendDelay, Ttl,  \* Otp
  Users, Telegrams, Roles,                                \* Accounts
  Subjects, Limit, Routes, Window,                        \* RateLimit
  Txns,         \* requests in flight at once, in each service
  MaxClock,     \* bound: the last time a behaviour reaches
  MaxRequests,  \* bound: requests that arrive in one behaviour
  Null

ASSUME NullAssumption ==
  Null \notin Phones \cup Codes \cup Secrets \cup Users \cup Telegrams \cup Roles

\* Dialled bounds the phones that codes are asked for.
ASSUME DialledAssumption == Dialled \subseteq Phones

ASSUME NumbersAssumption ==
  /\ {MaxAttempts, ResendDelay, Ttl, MaxClock, MaxRequests} \subseteq Nat
  /\ Window \in Nat \ {0} /\ Limit \in [Subjects -> Nat]
  /\ Routes \subseteq Seq(Subjects)

VARIABLES
  code, wrong, opened, otpPc, otpReq,                       \* Otp
  user, history, deletion, token, since, userPc, userReq,   \* Accounts
  counter, passed, rules, now,                              \* RateLimit
  verified,  \* requests between their two transactions, per phone
  logins,    \* logins by phone so far, per phone
  clock, arrived

codes    == <<code, wrong, opened, otpPc, otpReq>>
accounts == <<user, history, deletion, token, since, userPc, userReq>>
counters == <<counter, passed, rules, now>>

vars == <<codes, accounts, counters, verified, logins, clock, arrived>>

\* Keys are pairs of a phone and a purpose; one purpose stands for the four.
Otp == INSTANCE Otp WITH Keys <- Dialled, pc <- otpPc, req <- otpReq

Account == INSTANCE Accounts WITH pc <- userPc, req <- userReq

Rate == INSTANCE RateLimit

--------------------------------------------------------------------------------

Init ==
  /\ Otp!Init /\ Account!Init /\ Rate!Init
  /\ verified = [p \in Dialled |-> 0]
  /\ logins = [p \in Dialled |-> 0]
  /\ arrived = 0

Tick == Otp!Tick /\ UNCHANGED <<accounts, counters, verified, logins>>

Coding ==
  /\ \E t \in Txns : Otp!Sending(t) \/ Otp!Verifying(t) \/ Otp!Rollback(t)
  /\ verified' = [p \in Dialled |-> verified[p] +
       Cardinality({c \in Codes : code[c].key = p /\ opened'[c] # opened[c]})]
  /\ UNCHANGED <<accounts, counters, logins>>

\* verifyOtp goes on with the account; between the two it may die.
PhoneLogin(t, p) ==
  /\ verified[p] > 0
  /\ verified' = [verified EXCEPT ![p] = @ - 1]
  /\ \/ Account!BeginPhoneLogin(t, p) /\ logins' = [logins EXCEPT ![p] = @ + 1]
     \/ UNCHANGED <<accounts, logins, arrived>>
  /\ UNCHANGED <<codes, counters, clock>>

Accounting ==
  /\ \/ \E t \in Txns : Account!LoggingIn(t) \/ Account!Managing(t) \/ Account!Rollback(t)
     \/ Account!Signing
     \/ \E u \in Users, s \in Account!Statuses : Account!SetStatus(u, s)
  /\ UNCHANGED <<codes, counters, verified, logins, clock>>

Counting == Rate!Next /\ UNCHANGED <<codes, accounts, verified, logins>>

Next ==
  \/ Tick
  \/ Coding
  \/ \E t \in Txns, p \in Dialled : PhoneLogin(t, p)
  \/ Accounting
  \/ Counting

Spec == Init /\ [][Next]_vars

--------------------------------------------------------------------------------
(* Properties *)

\* The codes of a phone that let somebody in.
Opened(p) == {c \in Codes : code[c].key = p /\ opened[c] = 1}

\* Every login by phone has a code of its own behind it, sent to that phone: no
\* two requests get in on one code.
LoginsAreEarned ==
  \A p \in Dialled :
    logins[p] + verified[p] <= Cardinality({c \in Codes : code[c].key = p /\ code[c].consumed})

\* The same of the codes that opened the door, which is inductive.
LoginsOpened ==
  /\ verified \in [Dialled -> Nat] /\ logins \in [Dialled -> Nat]
  /\ \A p \in Dialled : /\ IsFiniteSet({c \in Codes : code[c].key = p})
                        /\ logins[p] + verified[p] <= Cardinality(Opened(p))

\* A code is the only live one of its phone, every wrong guess at it is counted, and
\* it lets in one request, whatever sends and guesses race.
CodesHold == Otp!IInv /\ LoginsOpened /\ LoginsAreEarned

\* A phone and a Telegram account each lead to one account, and a token that shows a
\* phone shows the account's.
AccountsHold ==
  /\ Account!TypeOK /\ Account!ControlOK
  /\ Account!OneAccountPerCredential /\ Account!TokenMatchesPhone

\* Only a code that was live, and whose limit was not reached, opens anything.
OnlyLiveCodesOpen == Otp!OnlyLiveCodesOpen

\* The last change on record is the status the account has.
StatusOnRecord == Account!StatusOnRecord

\* A blocked account writes nothing through a request that began after the block.
BlockStopsNewRequests == Account!BlockStopsNewRequests

\* No window lets more requests through than its limit.
LimitHolds == Rate!IInv

\* Inductive.
IInv == Otp!IInv /\ LoginsOpened /\ Account!IInv /\ Rate!IInv

================================================================================
