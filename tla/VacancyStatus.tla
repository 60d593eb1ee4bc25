----------------------------- MODULE VacancyStatus -----------------------------
(***************************************************************************)
(* The vacancy status machine: modules/vacancies/vacancy-status.           *)
(***************************************************************************)

VacancyStatuses ==
  {"draft", "under_moderation", "active", "paused", "closed", "rejected"}

\* TRANSITIONS as a set of edges.
VacancyTransitions ==
  {<<"draft", "under_moderation">>, <<"draft", "active">>,
   <<"under_moderation", "active">>, <<"under_moderation", "rejected">>,
   <<"rejected", "draft">>,
   <<"active", "paused">>, <<"active", "closed">>,
   <<"active", "under_moderation">>,
   <<"paused", "active">>, <<"paused", "closed">>,
   <<"paused", "under_moderation">>}

VacancyCanTransition(from, to) == <<from, to>> \in VacancyTransitions

\* May the employer still edit the content?
IsEditable(status) == status \in {"draft", "rejected", "active", "paused"}

\* Statuses a submission may start from.
CanSubmitFrom(status) == status \in {"draft", "rejected"}

\* Accepting applications: active, and the deadline (if any) has not passed on
\* the day the caller looked at the calendar.
IsOpenForApplications(status, deadlinePassed) ==
  status = "active" /\ ~deadlinePassed

================================================================================
