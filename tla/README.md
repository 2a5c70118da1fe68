# A verification project for the job-portal backend

This directory holds TLA+ models of the FastAPI / SQLAlchemy / PostgreSQL backend in `src/app`,
the TLC configurations that check them on small instances, and proofs checked by TLAPS for every
value of the constants. Every definition is translated from the source; `PROJECT.json` ("map")
says from which lines.

## 1. The system

The backend is one asyncio process per replica, several replicas over one PostgreSQL database.
A request gets a session (`config.get_db`) and runs a *service* (`app/service`) that reads and
writes through *repositories* (`app/repository`). Background jobs (`app/jobs`) do the same on a
timer. Components share nothing in memory that matters; **they interact through rows**, and
what makes the code hard is that almost every operation is *read, decide, await, write*:

* each `await` is a point where another session's commit may come in between;
* isolation is READ COMMITTED, and of what is modelled only `complete_order_payment` and the status update of the
  applicants page lock a row they are going to write;
* the ORM's identity map keeps the attributes of a row as first read, and its `UPDATE` names the
  columns whose value differs from that;
* some operations commit in the middle; a crash, a timeout or a later refusal leaves the first half;
* what finally excludes a bad state is often a (partial) unique index, whose refusal must be handled;
* external events (the payment provider's webhooks, customers, expiring periods) come at any time.

### Inventory

| Component (source under `src/app`) | State it keeps | Operations | Talks to | Correct when |
|---|---|---|---|---|
| Razorpay payments (`service/payment_service.py`, `controller/payment.py`, `jobs/payment_reconciliation_scheduler.py`) | `user_subscriptions` rows PENDING/ACTIVE/PAYMENT_FAILED with order and payment ids; history; notifications | create order, pending lookup (sync), checkout verification, webhooks captured / paid / failed, reconciliation run | provider over HTTP; subscription table; bootstrap; notifications | paid only for a captured payment of the right order and price; once; a captured payment is credited; no plan lost on the way; nobody waits for a lock in a circle |
| Subscription lifecycle (`service/subscription/user_subscription_service.py`) | the same rows, history | lookup with expiry, assign, subscribe, renew, cancel, change, suspend, resume, expire, reset usage | bootstrap, notifications, activity log | one active plan per user and role; transitions legal; a request that succeeds has its effect |
| Bootstrap (`subscription_bootstrap_service.py`) | default plans, default rows, default settings | ensure default plan / subscription, startup backfill | plan catalogue, settings | every user has a plan, never two |
| Plan catalogue (`subscription_service.py`, `super_admin/settings_service.py`) | `subscriptions`: plans with `is_active`, `is_default`; the setting that names the default plan | create, update, set default, delete; update settings | lifecycle, payments (`is_active`), bootstrap | there is always a default plan, and flag and setting name the same one |
| Usage limits (`subscription_validator.py`) | `subscription_usage` counters per period | check, consume, reset | invitations, AI services, jobs, resumes | no counted use without the thing used; overrun bounded |
| Candidate invitations (`employer_service/invitations_service.py`) | `candidate_invitations` | send, view, accept, reject | usage limits, notifications | one open invitation per candidate and job; an answer stays |
| Job applications (`job_application_service.py`, `employer_service/job_applicants_service.py`, `shortlisted_candidates_service.py`) | `job_applications` status and history | apply, withdraw, status update, bulk update, shortlist, remove | jobs, interviews, notifications | legal transitions; what the candidate or the employer closed is not reopened; the history tells the status; one application per candidate and job |
| Interviews (`employer_service/interview_service.py`) | `interviews` | schedule, reschedule, update, cancel, complete | applications | a settled interview stays; no round number or slot given twice |
| Job postings (`employer_service/job_service.py`, `super_admin/dashboard_api_service.py`) | `jobs`: status, deadline, idempotency key, soft deletion | create, update, close, delete, expiry on read; bulk activation, pause, closing and deletion by super administrators | plan limits, job alerts | published jobs within the plan's limit; a published job is announced |
| Job alerts and digests (`job_alert_notification_service.py`, `jobs/job_alert_digest_scheduler.py`) | deliveries, keyed by alert and window; what a loop remembers of its last run | match, deliver, digest, retry | notifications, e-mail, advisory lock | a digest is mailed once |
| Candidate resumes (`candidate_service.py`, `repository/candidate_repo.py`) | resume rows; the profile's `active_resume_id` | upload, choose default, archive, restore, copy, delete, resolve default on read | plan limits, file store | one default; resumes within the plan's limit |
| Profile sections (same files) | JSON lists of skills, education, experience, certifications, projects, languages in one details row | add, update, delete an entry; replace the certifications | resumes (the same profile page) | no two skills of one name |
| Notifications (`notification_service.py`) | `notifications`, unique (recipient, event key) | create, bulk create, read, delete | every service | no duplicate; never disturbs the caller |
| Registration (`authentication/auth_service.py`) | e-mail and mobile codes; user, role, plan, profile, company rows | send and verify codes, register | bootstrap, e-mail | a code works once; an account is whole; company numbers are free |
| Login and passwords (same file) | password, `password_reset_tokens`, `user_sessions` | login, forgot, reset, change, sign out of one or all | every request | a code resets once; a sign-out of all ends every earlier session |
| AI services of employers (`ai_job_description_service.py`, `ai_message_drafting_service.py`, `candidate_ai_insights_service.py`, `ai_candidate_matching_service.py`, all in `employer_service`) | monthly counters; one `candidate_ai_insights` row per candidate; a cache of descriptions | generate, improve, regenerate, draft, insights, matching run | usage limits, external provider | monthly limits overrun boundedly; an insight is of the data its hash names |
| Rate limiter (`security/rate_limiter.py`) | per process, counts and windows by rule and key | check | authentication endpoints | a span as long as a window lets a bounded number through |
| Maintenance mode (`middleware/maintenance_mode.py`) | none: it reads the settings row for each request | check | settings | - |
| The rest of the profiles, resume extraction, AI writing for candidates, ranking, search, dashboards, contact, messaging, administration | rows of one owner; objects in S3 | CRUD, queries | external services | no interaction between components beyond deletion |

`PROJECT.json` lists every component with its status, and under "hazards" what is hard to test,
each at its line with the properties that would catch it.

## 2. The modules

```
 UserSubscriptions      the table: rows, queries, unique indexes
      ^ EXTENDS
 RazorpayProvider       the provider: orders, payments, captures     (external)
      ^ EXTENDS
 RazorpayPayments       sessions, row locks, identity maps, scheduler  -- implements --> SubscriptionPayment
      ^ EXTENDS                                                            (abstract promise)
 MCRazorpayPayments, RazorpayPayments_proofs

 SubscriptionRows      the rows of one user and role, commit by commit
      ^ EXTENDS                            ^ INSTANCE, for each owner
 SubscriptionLifecycle                 RazorpayPayments

 SubscriptionLifecycle, PlanCatalogue       <- MCSubscriptions <- Subscriptions_proofs
 HiringPipeline                             <- MCHiringPipeline, HiringPipeline_proofs
 Registration, Credentials, JobPosting      <- MCAccounts, Registration_proofs, Credentials_proofs
 CandidateInvitations, AIGeneration,        <- MCPortal, Limits_proofs, JobPosting_proofs
 JobPosting, JobAlertDigests,                     ^ EXTENDS
 CandidateResumes, ProfileSections,             Portal_proofs
 RateLimiter
```

`MCSubscriptions`, `MCAccounts` and `MCPortal` put modules side by side that share no state. In the
code they meet in rows that none of them writes for another (a plan's `is_active`, a user that
registration leaves to login), so nothing is gained by interleaving them: a variable chosen in the
first state (`moving`, `part`) says which of them a behaviour is of, and each behaviour is one of
that module's own specification, or starts in a state it reaches (the drafts of `MCAccounts`). The
theorems are about those specifications, and that the composition implements each of them is a theorem
too (`SideBySideIsBoth`, `PartsAreTheirOwn`), but for `MCAccounts`, whose parts start further on.

### RazorpayPayments (with UserSubscriptions and RazorpayProvider)

State: `subs`, the committed rows, one per order and one per owner for the default plan; `lock`,
who holds each row's lock; `verified`, the PAYMENT_VERIFIED history rows; `keys`, the event keys
of the orders' announcements that exist; and for every session its program counter `pc`, its arguments `job`, its
identity map `loaded` and its uncommitted writes `buf`. One action is the code between two points
where another session can come in:

| Code | Actions |
|---|---|
| `create_subscription_order` | `CreateOrder`, (`FetchOrder` … `Activate` for a pending one), `ExpireLapsed`, `PostOrder`, `InsertPending` |
| `get_pending_subscription_payment(sync=True)` | `SyncPending`, then `FetchOrder` … `Activate` |
| webhook `payment.captured`, `order.paid` | `WebhookCaptured`, [`FetchOrderPayments`,] `LockOrder` … `Activate` |
| `verify_checkout_payment` | `VerifyCheckout`, `LockOrder` … `Activate` |
| webhook `payment.failed`, `mark_order_failed` | `WebhookFailed`, `MarkOrderFailed` |
| `complete_order_payment` | `LockOrder`, `FetchAndValidate`, `ExpireDuplicates`, `Activate` |
| `execute_payment_reconciliation` | `SchedulerReads`, `SchedulerTakesRow`, `FetchOrder` … `Activate`, `SchedulerEnds` |
| `get_active_subscription`, `_expire_if_needed`, `ensure_user_subscription` | `LookUpActive`, `ExpireLapsed`, `EnsureDefault`, `InsertDefault` |
| crash, cancelled request, `command_timeout` | `Interrupted` |
| the recipient deletes notifications | `AnnouncementDeleted` |

Two library behaviours are modelled as the code meets them. A `SELECT … FOR UPDATE` in a session
that has loaded the row returns the loaded attributes (`Seen`). A session bound to a connection
that is already in a transaction (the scheduler's, after `pg_try_advisory_lock`) joins it, its
`commit()` does not end it, and closing the connection rolls it back (`Activate` for `Scheduler`
only writes `buf`; `SchedulerEnds` drops it).

The lookups and the default plan are in this module because they race with payments on the same
index; what the index makes of a default plan inserted twice is in `InsertDefault`. Renewal and
resumption of an expired row are not here but in SubscriptionLifecycle, and so are the keys of what an expiry
announces: `ExpireLapsed` may fail or succeed whatever happened before. Amounts are `Price` and `Charged[p]`; a period is a Boolean `over` that time may set.

### SubscriptionRows, where payments and lifecycle meet

Payments and the lifecycle write the same rows. `SubscriptionRows` says what one commit may do to the
rows of one user and role: `PaymentActs` (an order is placed, fails, or is paid and every other
plan is expired with it), `LookUpActs` (a plan is expired, one is started where none runs) and
`TimePasses`. `SubscriptionLifecycle` EXTENDS it and takes `PaymentActs` for everything payments do (assume);
`RazorpayPayments` instantiates it for every owner's rows (`RowsOf`, `Lifecycle(u)`) and its property
`ActsAsTheLifecycleAssumes` says that it does nothing else (guarantee). A completion
commits the rows it buffered at once (`Committed`), so that no second row of the owner is ever seen half
done.

### SubscriptionLifecycle

The rest of `user_subscription_service.py` for one user in one role: `row` (status and period of
each row), `renewed` (RENEWED history), `keys` (the announcements that exist), `deleted` (how many of a row's
renewals' announcements its owner has deleted), and per session the step and the row *as it was
read* (`job.seen`). `Begin` is the read and the checks; `Expire`, `Ensure`, `Insert`,
`CommitRenewal`, `CommitChange`, `CommitStatus` are the commits. `Written` is the ORM's rule for
the status column: written when it differs from what was read. The payment flow appears from
outside (`PaymentCommits`, a step of `PaymentActs`), time as `Lapse`, and deletion by the recipient, which frees a
key, as `NotificationDeleted`. An event key names the row and the event only, so that a row that is renewed a second
time, or lapses a second time after a renewal or a resumption, fails on the earlier announcement as long as that
exists: the commit of the renewal is lost, and the row stays ACTIVE past its end.
`RenewedAsAnnounced` and `LapsedEventuallyExpired` say exactly that and that nothing else goes wrong.
`RunningEndsOnPurpose` is about the
hazard of a row expired for an end date that has moved since: a plan whose period runs ends only by who
means to end it, or by who read it with its period over. `REFUNDED` is a legal status that no code
writes and is left out.

### PlanCatalogue

The plans of candidates and which of them is the default, said in two places: the flag of a plan
(`plan`; one at a time by a partial unique index, `OneDefault`) and the setting that assignments read
first (`configured`). `admin` keeps what a session read and is about to write.

| Code | Actions |
|---|---|
| `SubscriptionService.create` | `CreatePlan`, `InsertPlan`, `SyncDefaultSetting` |
| `update` | `UpdatePlan`, `SaveUpdate`, `SyncDefaultSetting` |
| `set_default`, `update_settings` | `SetDefault` or `UpdateSettings`, `SaveDefault` |
| `delete` | `DeletePlan`, `RemovePlan` |
| `get_assignment_default_plan`, `ensure_user_subscription`, `assign`, `subscribe` | `ResolveDefault` or `ChoosePlan`, then `AssignPlan` or `RepairDefault` |
| `bootstrap_defaults_and_assignments` | `StartReplica`, `BootstrapDefault` |
| refused statement, crash, cancelled request | `PlanRequestInterrupted` |

`FlushedRow` is the ORM's rule once more, and what the races come from. A `set_default` of a plan
that has lost the flag meanwhile takes it from all the others and writes nothing of its own, because
`is_default` looks unchanged: no plan is the default until the next assignment without a usable
setting (`ensure_default_plan`) repairs it. A plan switched off or deleted by a request that read it
before it became the default does the same. `update` lets a default plan that nobody is assigned to
change its type. `create` and `update` commit the flag and the setting in two transactions, and
`update_settings` leaves out a setting that looks unchanged. The properties name exactly these
cases and say that nothing else does it.

### CandidateInvitations

One employer's invitations for a weekly limit: `SendInvitation`, `CheckInvitable`,
`CreateInvitation` (commits), `ConsumeLimit`, `IncrementUsage` (an atomic upsert) for the senders;
`GetInvitationDetails`/`MarkViewed` and `RespondInvitation`/`UpdateStatus`/`NotifyEmployer` for the
candidates. `WeekTurns` and `ResetUsage` move the counters from outside. Two sessions of a candidate overwrite each
other's answers, or an answer with VIEWED, from a status read before; an invitation so reopened is told from one never
answered by `responded` (`responded_at`, which nothing clears), and `task.read` is what a session found, so that the properties say
that nothing else does it.

### AIGeneration

What one employer lets an AI provider write, under five monthly limits: `usedInMonth` is the month's
counter of each, `insight` the row of each candidate (the hash, of which data its text is, and whether the
response can be made of it, `valid`),
`data` the version of the candidate's data, `described` the cache of job descriptions, and
`generation` what a request read and carries.

| Code | Actions |
|---|---|
| `generate_description`, `improve_description`, `regenerate_section` | `GenerateDescription`, `CacheGet`, `CallDescription`, `RecordDescription`, `CacheSet` |
| `generate_draft`, `improve_message` | `GenerateDraft`, `CallDraft`, `RecordDraft` |
| `get_insights` | `GetInsights`, `BuildCandidateContext`, `GetCachedInsight`, `CallInsight`, `LookUpInsight`, `StoreInsight` |
| `generate_matches` | `GenerateMatches`, `CheckAnalyses`, `RecordMatches` |
| the candidate edits; month, `reset_usage`; cache; crash or refusal | `DataChanges`; `ResetMonth`; `CacheExpires`; `GenerationEnds` |

The limit is checked before the provider is asked, which may take a minute, and the use is added
after; a limit of the plan that is absent (unlimited) is not an instance here. `upsert_insight`
selects the row again, but a session that has loaded it gets its own copy, and the flush writes
only the columns that differ from that copy (`Stored`). A request to regenerate unchanged data thus
writes its text but not the hash over a row that another request has rewritten for newer data, and
so does one that found no row at first (`late`), and one that found a malformed row of the current data, which
`get_insights` treats as none (`IsCurrent`); the row then claims to be current with a text of
the old data until the data change again. `raced` remembers these rows, and `HashTellsText` says that
nothing else separates the two. What is written is well formed, so a malformed row is one of an earlier form, in the first state.

### JobPosting

The jobs of one employer under the plan's `max_published_jobs`: `posting` is the table with status,
soft deletion, `closed_at`, deadline, the fields of the duplicate index and the idempotency key.

| Code | Actions |
|---|---|
| `create_post_job` | `CreatePostJob` (limit), `FindEarlierJob`, `InsertJob`, `NotifyMatchingJobAlerts` |
| `update_job` | `UpdateJob`, `CheckPublishLimit`, `SelectJob`, `WriteJob` |
| `close_job`, `delete_job` | `CloseJob`, `DeleteJob`, `WriteJob` |
| `expire_jobs_past_deadline`, with every list | `ExpireJobsPastDeadline` |
| `bulk_action_jobs` of super administrators | `BulkActivate` (limit), `ActivateJobs`; `BulkPause`, `BulkClose`, `BulkDelete` |
| midnight; crash or cancelled request | `DayPasses`; `OrderCutOff`, `BulkActivateCutOff` |

A bulk activation counts the open jobs with the jobs of its batch that are not open, and then publishes
the whole batch whatever has become of it (`listed`): it reopens what was closed in between, and
one that names open jobs only is not compared with the limit at all. A paused job is INACTIVE, a status
the employer's pages do not know. A job is one object in a request's session, so `Written` writes what the request changed, and the
"status before" that `update_job` compares is the status after (finding). A job that was closed and
is published again keeps `closed_at` and never expires. `reopen_job` calls a repository method that
does not exist and writes nothing.

### JobAlertDigests

The digest loop of every replica: `scheduler[i]` is the loop with what it remembers of its last run,
`lock` the advisory lock, `kept` the deliveries that are committed, `mails` what was sent. `Tick` or
`TickSkipped`, `ReserveDelivery`, `SendDigestEmail`, `MarkSent`, `InAppDigestFails`,
`StatementFails`, `EndRun` follow `execute_due_digests` and `_run_digest_with_lock`;
`StartScheduler`, `ProcessEnds`, `ConnectionRecycled`, `ClockSetBack` and `WindowBecomesDue` are the environment. As
in the reconciliation, the session joins the transaction of the lock's connection (`joined`): its
commits keep nothing, and the keys that should stop a second mail are not there. What remains is the
time of the last run in memory, hence a bound by starts. `process_due_notifications` disowns a last run that is
not before the present one (`DueSince`), so a clock that is set back counts like a start.

### CandidateResumes

A candidate's resumes: the flag (`active`), the profile's `pointer`, `removed` and `archived`.
`UploadResume` … `PointAtResume` is the upload with its three transactions; `SetActiveResume` and
`ResolveDefaultResume` (with every list and download) end in `ActivateResume`; `DeleteResume`,
`SetResumeArchived` and `DuplicateResume` each in one transaction of theirs. A deleted resume stays the
profile's pointer, since the UPDATE has been synchronised to the loaded row before the code asks
whether it was active (`candidate_repo.py:613`); the next `ResolveDefaultResume` replaces it.

### ProfileSections

The sections of a candidate's profile are JSON lists in a row of `candidate_resume_details`: `rows`
are the rows by the session that made each, `committed` the visible ones, `older` their order in time
(the latest counts: the one to which all others committed are older), `editing` the request of a session with the list it has read or will write.

| Code | Actions |
|---|---|
| `add_skill`, `update_skill` | `AddSkill` or `UpdateSkill` (the name is looked for), `ReadSkills`, `WriteSection` |
| `add_`, `update_`, `delete_` of the other sections; `delete_skill`; a skill's other fields | `AddEntry`, `UpdateEntry`, `UpdateOtherFields`, `DeleteEntry`, `WriteSection` |
| `update_certifications` | `ReplaceCertifications`, `WriteSection` |
| `get_or_create_resume_detail` without a row | `CreateRow` in between |
| 404, crash or cancelled request | `EditCutOff` |

Every change writes a whole list, so two requests that race lose an entry (the later list wins); what
is not lost is that names are distinct, and that only because `ReadSkills`, which selects the row
again, gets the list in which the name was looked for (the identity map keeps the row as loaded).
Requests that race before there is a row look for the name in no list at all and both names may
stay; so may a request that looked in a row which is no longer the latest. `SkillsSettled` says
when neither is under way.

### RateLimiter

`Check` is a request at one endpoint: the rules count it in order up to the first that refuses.
Storage in memory is per process (`hits[w]`) and is lost with it (`RestartWorker`). `admitted` is
the history the property is about. With a storage URL the `limits` library counts instead; that
is external.

### Registration

`emailCode`, `mobileRow`, `account` (which of the five committed parts a person has) and `company`.

| Code | Actions |
|---|---|
| `send_otp_service` | `SendOtp`, `InvalidateCodes`, `CreateCode` |
| `verify_otp_service` | `VerifyOtp`, `MarkCode`, `MarkEmail` |
| `send_mobile_otp_service` | `SendMobileOtp`, `ReplaceRows` |
| `verify_mobile_otp_service` | `VerifyMobileOtp`, `MarkRow` |
| `candidate_register_service`, `employer_register_service` | `Register`, `CreateUser`, `ClearCodes`, `AddRole`, `AssignPlan`, `AddCandidateProfile` or `CountCompanies`, `AddCompany` |
| time; exception, crash or cancelled request | `CodeAges`, `RowExpires`; `BreakOff` |

Every repository call commits, so a registration is six transactions in a row. Ids of rows are never
used again, so a new mobile row (`NewRow`) is none that a request under way still means to delete.

### Credentials

One user's `password`, `token` (`user_sessions`) and `resetCode`. `Login`/`CreateSession`,
`ForgotPassword`/`InvalidateOldTokens`/`CreateResetToken`, `ResetPassword` and
`ChangePassword`/`UpdatePassword`/`MarkTokenAsUsed`, `SignOut`, `SignOutAll`/`LogoutAllSessions`;
`CutShort` and `ResetCodeExpires`. `opened` remembers the password a session was opened with and
`current` the passwords valid since the last sign-out of all, for `StaleLoginsBounded`.

### HiringPipeline

The applications of one candidate to one job and their interviews, written by three sides.
`application` keeps each row's status, whether `shortlisted_at` is set, and the last status its
history recorded; `interview` keeps application, round, slot and status; `pc` and `job` are what a
session is doing and what it *read* (`read`, `dated`, `row`). Session kinds are disjoint sets:

| Code | Actions |
|---|---|
| `apply_for_job`, `apply_for_job_with_resume_upload` | `ApplyForJob`, `InsertApplication` |
| candidate's `withdraw_application`, `update_status` | `WithdrawApplication`, `UpdateOwnStatus`, then `AnswerApplication` (an UPDATE statement) |
| applicants page: `update_application_status`, which holds the row's lock from its read to its commit | `UpdateApplicationStatus` |
| shortlist page: `update_status` | `UpdateStatus`, `WriteApplications` |
| `bulk_update_status`, `bulk_reject` | `BulkUpdateStatus`, `WriteApplications` |
| `shortlist_candidate`, `unshortlist_candidate` | `ShortlistCandidate`, `UnshortlistCandidate`, `WriteApplications` |
| `schedule_interview`, `schedule_interview_rounds` | `ScheduleInterview`, `ValidateRoundLimit`, `LookForDuplicate`, `CreateInterview` |
| `update_interview` | `UpdateInterview`, `LookForDuplicate`, `SaveInterview` |
| `cancel_interview`, `complete_interview`, `mark_no_show` | `SettleInterview`, `SaveInterview` |
| crash, cancelled request, timeout | `Interrupted` |

`Flushed` is the ORM's rule: a column is written when its new value differs from the one read.
Each page has its transition table (`EmployerTransitions`, `ShortlistTransitions`). The row lock of the applicants page makes it
one step, although the other pages' reads do not wait for it: their writes come before its read or after its commit.
The job is open all along; closing it, nudges, notes, interviewers and e-mails are left out.

## 3. What is checked

Every passing property has a mutant in `PROJECT.json`: the code changed the way a plausible bug
would change it, under which TLC finds the property violated.

| Run | Properties | Shows |
|---|---|---|
| `payments_races` | `SingleCompleter`, `NoDeadlock`, `PromiseKept`, `CoverNeverDropped` | two orders, two requests and the scheduler with every way to complete: implements `SubscriptionPayment`; nobody waits for a session that waits for it; no committed state leaves the owner without the plan they had, but by time or by an expiry or a failure recorded of a row that has changed since |
| `payments_one_request` | `PaidOnlyWhenCaptured`, `ActsAsTheLifecycleAssumes`, `StatusFollowsTable`, `CapturedEventuallyPaid` | one request at a time, interrupted anywhere, with failures, short payments, lookups, lapsing plans and a switched plan; the rows change as the lifecycle assumes and in no other way; a provider that redelivers gets a payment through, unless its order was marked failed or the plan is off |
| `lifecycle_lookups` | `LapsedEventuallyExpired` | two sessions that look up, renew and resume while periods end and notifications are deleted: only the announcement of an earlier expiry keeps a lapsed row active |
| `lifecycle_races` | `OneActivePlan`, `RenewedAsAnnounced`, `RunningEndsOnPurpose`, `LegalUnlessDisturbed`, `DefaultStaysUnlessStale`, `SettingFollowsUnlessStale` | two sessions, all operations on a user's rows but payments; two that look up, renew and resume while notifications are deleted; two sessions that renew, suspend, resume and expire while payments come in and periods end; two sessions, all operations on the plans |
| `hiring_races` | `HistoryTellsStatus`, `AppliedBounded`, `RoundSharedBounded`, `ClosedStaysUnlessStale`, `SettledStaysUnlessStale` | two sessions of the candidate, or two schedulers, beside one session of another kind, on three applications and two interviews |
| `accounts_races` | `CodesBounded`, `WholeUnlessCutOff`, `NextCompanyFree`, `ResetsBounded`, `StaleLoginsBounded`, `PublishedBounded` | two sessions that verify, or register rivals, or use one user's passwords and codes, cut off anywhere; a recruiter and a super administrator at an employer's jobs |
| `portal_races` | `PortalTypeOK`, `OverrunBounded`, `UsesAreInvitations`, `DoubledBounded`, `AnswerStaysUnlessStale`, `PublishedBounded`, `MailedOncePerStart`, `DefaultsBounded`, `ResumesBounded`, `SlidingBound`, `MonthOverrunBounded`, `HashTellsText`, `SkillsStayDistinct` | two senders and a reader over two weeks; two readers and a sender; two recruiters over two days; two replicas with restarts; two tabs; a limiter that restarts; two requests to the AI services; two sessions that edit a profile's sections |

The runs below are expected to be violated; each is a disagreement between the code and what a
comment, a docstring or a test says ("findings"):

| Run | Violated | Scenario |
|---|---|---|
| `payments_verified_twice` | `VerifiedOnce` | a synchronising lookup read the order before a webhook completed it, waits for the lock, and completes it again from stale attributes |
| `payments_late_failure` | `StatusFollowsTable` | a failure webhook of a first attempt overwrites the completion of a second one |
| `payments_reconciliation` | `ReconciliationKept` | the scheduler's commits are rolled back with its connection |
| `lifecycle_notification` | `NotificationNeverInterrupts` | the second renewal of a row fails on its announcement's unique key, while the first notification exists |
| `portal_alerts` | `PublishedIsAnnounced` | a draft is created, an edit publishes it, and nobody looks for the alerts that match |

Other races that the code does not exclude are part of the models and bound what can be claimed:
with two sessions a resumption overwrites a cancellation and a lookup expires a row renewed
meanwhile (so `LegalUnlessDisturbed` speaks of undisturbed rows only), and a renewal or an expiry fails on an
earlier announcement (so `RenewedAsAnnounced` and `LapsedEventuallyExpired` speak of the keys there are); two sessions of an employer
invite a candidate twice and exceed the weekly limit (so `DoubledBounded` and `OverrunBounded` bound
by how much); with two sessions of a candidate the details page overwrites an answer with VIEWED (so
`AnswerStaysUnlessStale` is about who had found the invitation unanswered, and `DoubledBounded` about invitations never answered). A stale request of the shortlist page reopens a withdrawn
application, a stale update revives a cancelled interview, two sessions apply twice or give one
round number twice (after which `get_duplicate_interview` fails for that round with more than one
row): the hiring properties say that nothing *but* such a stale request does it, and how far it
goes. The history row of `withdraw_application` names WITHDRAWN as the old status too, because the
old status is read after the UPDATE has synchronised the session; `recorded` is the new status only.
Two recruiters, or one and a super administrator, publish past the plan's limit, two requests to the AI services exceed a
monthly one or mix an insight's hash and text, two tabs leave two active resumes or exceed theirs,
two visitors have two usable codes, two resets use one code, a login under way outlives a sign-out
of all sessions, and a rival employer's company number leaves a user without a profile who is then
refused as registered: the bounds count the requests that run at once, the cut-off requests, or the
starts, and say that nothing else adds to them.

### Bounds

* Two request sessions suffice for every race here: a race is one session's step between another's
  read and write. The scheduler is a third session where it matters.
* Payments: two orders for switching plans and for lock cycles; one order with two payments for
  repeated attempts; `verified` counts to two, because "twice" is what matters. `BatchLimit` 1: a
  reconciliation keeps the lock of its row and asks for the owner's other rows.
* `Ops` selects the operations of a run; together the passing runs fire every action.
* `ActsAsTheLifecycleAssumes` is checked with one request at a time; that it holds when requests and
  the scheduler race is the theorem `LifecycleAssumesRightly`.
* `MCSubscriptions` divides the operations, since all of them with payments and deletions are too many for a run
  (`moving`): all but those; deletions with the operations that announce or give an expired row a new period (look up, renew, resume); payments with the
  operations that act on what they read (renew, suspend, resume, expire); the plans. The theorems are about all together.
* Of the type invariants the runs check `PortalTypeOK` only: the others are theorems.
* `NewOwners`: users registered since the startup backfill, who may lack the default row.
* `Rows` in SubscriptionLifecycle bounds the rows ever inserted (an insert with no spare name waits
  for its request to be cut off); two are enough for a second active row. `MaxDeletions` is 1: one announcement of a row's renewals is deleted,
  so that the row can be renewed a second time and no third.
* Plans: `LastPlan` 2, the one of the bootstrap and one beside it; four revisions: a default plan, a
  plain one, one switched off, and a default of another type. Making the bootstrap's plan a second
  time while another exists needs a third; what that step does is in the proofs.
* `hiring_races`: `MaxActive` is 1 instead of 20 so that the round limit is met; `Requested` and
  `Outcomes` keep a closing, a reopening and a settling status each (`REJECTED`, `WITHDRAWN`;
  `CANCELLED`, `RESCHEDULED`), `SHORTLISTED`, `APPLIED` and `INTERVIEW_SCHEDULED` coming from
  their own operations; one round and one slot beside "no round"; three applications, one more than two sessions that
  race can leave. Two sessions of the candidate, or two schedulers, work at once with one session
  of another kind (`MCHiringPipeline` chooses which; the theorems are about any numbers of all).
* `accounts_races`: for the administrator's part, three drafts, two of them of the same details, batches
  of two jobs, a limit of 1 and one day; what a recruiter and an administrator can reach at most is
  one job more than `PublishedBounded` allows. Otherwise three persons, of whom two have both codes verified at the start, so that two
  registrations meet in the company numbers while one person's codes are raced for (`moving` keeps
  the two apart, as persons meet in the numbers only); three codes and three rows (`LastRow`) per
  person, one more than two sessions can leave usable; two passwords, tokens and reset codes;
  `MaxCuts` 1.
* `portal_races`: limits of 1 (2 for resumes, instead of at least 5) with two sessions, so that they are
  met and overrun; three invitations over weeks 0 and 1 (`LastWeek`); one candidate and job
  (`Pairs`); two readers meet in a part of its own ("answers"), beside one sender and over two invitations; days 0 and 1 (`LastDay`); two digest windows (`LastWindow`) and three starts of two
  replicas and clocks set back (`MaxStarts`); three resumes (`LastResume`); rules of 2 requests in 2 seconds by address and
  1 in 3 by address and account, over four seconds (`LastTick`) with one restart (`MaxRestarts`), so that
  a window ends and the next begins within a span; monthly limits of 1 (2 for analyses, at most 2
  at once, `CandidateLimit`), one candidate whose data change once (`LastVersion`), and three requests
  (`MaxGenerations`): a row, and two requests that race to replace it; two sections, two entries ever
  (`LastEntry`) of one name, and one list that replaces the certifications: a repeated name needs no more.
* Symmetry is used in safety runs only, on sets whose members the module never tells apart.
* Deadlock is not checked where the bounds let a behaviour end, as in `accounts_races`,
  `portal_races` and `portal_alerts` (the last code, job, resume or second is used up), and in
  `payments_reconciliation`, whose only order was placed and its payment failed. Everywhere else it is.

### Fairness

`payments_one_request` (`RedeliverySpec`) assumes that a request or a run goes on or is cut off (`GoesOn`, weakly
fair: sessions do not stop), that the provider delivers the webhook of a payment captured at the asked price again and
again, as it does until it gets an answer of success, and that no step of its handling fails every time it is tried
(`Succeeds`: strong, because a row lock may be taken and released, and a session taken by other requests, in between).
A failure recorded before the capture, or a plan switched off, makes the code refuse the captured payment for good;
`CapturedEventuallyPaid` excuses these two and nothing else.

`lifecycle_lookups` (`LookupFairness`) assumes that a request goes on or is cut off, that the owner asks for the plan
again and again, and that an expiry that nothing refuses is not cut off every time. Nothing is assumed of
renewals, resumptions and deletions. In neither run is a user's other action, or a crash, assumed to happen.

## 4. What is proved

TLAPS, for all values of the constants under the named assumptions (`TableAssumption`,
`PaymentsAssumption`, `LifecycleAssumption`, `PlanCatalogueAssumption`, `InvitationsAssumption`, `AIGenerationAssumption`,
`NoInsightAssumption`,
`JobAlertDigestsAssumption`, `RateLimiterAssumption`, `HiringAssumption`, `JobPostingAssumption`, `OrdersAssumption`, `CandidateResumesAssumption`, `ProfileSectionsAssumption`,
`RegistrationAssumption`, `CredentialsAssumption`): that constants are of their kinds, sets of
sessions and rows finite where they are counted, and "none" values not members of them.

* `RazorpayPayments_proofs` — `TypeCorrect`, `OneCompleter`, `PaidIsCaptured`, `LocksAcyclic`,
  `CoverStays`, `LegalStatuses`, `PromiseIsKept`, `VerifiedOnceAtATime`, `LifecycleAssumesRightly`.
  `TypeOK` alone is not inductive: a step uses the row its job names, so `TypedJobs` ties the job
  to the step. `SingleCompleter` follows from `LocksHeld`: a session in a completing step holds the
  lock of its row, and a lock has one holder. `PaidOnlyWhenCaptured` needs `SettleInv`: a session
  past validation carries a payment that is captured, of its order and price; the rows buffered by
  the scheduler, and committed rows, are paid by such payments; and captured is a state a payment
  never leaves.
  `Flow` says who has locked and read what: copies and buffered writes are of rows of the session's
  owner that it has locked (`WorkSteps`, `CopiesOf`); a request holds the order it completes, and
  its owner's other plans only once it has expired them (`RequestOf`); the orders of a scheduler's
  run are of different owners, and its locks are of owners it has come to (`SchedulerInv`). A request
  that holds a lock and waits, waits for an active plan of its order's owner. There is only one
  (the index), so the session that has it is not such a request too, and must be the scheduler. The
  scheduler in turn would have to wait for the request's order: while it expires duplicates it waits
  for active plans only, and there is the one it has; while it asks for an order it has locked no row
  of that order's owner. So there is no circle. `CoverNeverDropped` follows from `Flow` step by step: whoever expires the other
  plans of an owner commits that together with the activation of its own.
  `LifecycleAssumesRightly` maps every commit to a step of `SubscriptionRows` or a stutter, for every owner:
  what a commit writes is the session's buffer (`CommittedRows`); a status is one of the table's
  (`StatusKnown`), a row exists once its order is placed, and whoever activates a row has buffered the expiry of
  every other active plan of that owner and holds their locks (`Flow`, `ActivatedTable`), so that what another owner
  sees is untouched (`OwnerSees`). It needs no hypothesis on outcomes: a late failure is `OrderFails`.
  `LegalStatuses` and `PromiseIsKept`, the refinement of `SubscriptionPayment`, have the hypothesis
  `OneAtATime \/ []OneOutcome`: requests are served one at a time beside the reconciliation job, or no
  order gets both a failed and a captured payment (or the provider's `payment.failed` is not
  configured). Without it both are false, since a failure that another request has read of may
  overwrite a completion (`payments_late_failure`). `OutcomesInv`: a failure is recorded only of
  orders with a failed payment, and status and payment of a row go together; then every step leaves
  an order as it is, places it, settles it or fails it (`OrdersStep`). What differs is why a failure
  never meets a paid order (`OutcomeFits`): one outcome means that there is no payment to have paid it;
  one request means that what it read still stands (`ReadsStand`: the row it is about to expire is
  active, the one it completes or fails is pending), because neither time nor the reconciliation,
  which commits nothing, changes a status. `VerifiedOnceAtATime` draws the other conclusion: what
  `payments_verified_twice` refutes for two requests holds of one, since an order that has been
  verified is never pending again (`VerifiedInv`).
* `Subscriptions_proofs`, of the lifecycle — `LifecycleTypeCorrect`, `RenewalsAreAnnounced`, `OneActive`,
  `StatusesFollowTable`, `RunningIsKept`.
  `Inv` adds to `TypeOK` that a session about to write has a row (`HasRow`).
  `RenewedAsAnnounced` is inductive beside it: a renewal is recorded with its key or not at all, and a deletion moves one from
  the keys to the deleted. `OneActivePlan` is
  inductive as `Sole` (any two active rows are the same row), since every write that activates a
  row is accepted by the index or happens when no other row is active. `LegalUnlessDisturbed` needs
  `AllDecided`: a session about to write has accepted the status it read for its operation, and one
  about to expire a row has read it with its period over; if the row still has that status, what
  `Written` makes of it is in the table. `RunningIsKept` goes by who handles which row (`HandledRow`) and which steps end a
  plan at all (`EndsIt`): a renewal, a change or a resumption leaves the row it writes active with a
  period that runs, and a session expires only what it read as over.
* `Subscriptions_proofs`, of the catalogue — `PlansTypeCorrect`, `DefaultPlanStays`, `SettingFollows`.
  `PlanInv` adds to the types what a request remembers (`RequestOk`): who takes the flag from the
  others gives it to its own plan, an update of a default plan leaves it one within its type, and a
  plan read with the flag is not deleted. A request that is not stale then writes exactly what it
  meant to (`FreshFlush`), so its plan is the only default (`FreshDefault`) or the defaults are
  untouched (`FreshUpdate`, `FreshInsert`, `FreshRemove`), and both properties follow step by step
  (`FreshSteps`).
* `HiringPipeline_proofs` — `HiringTypeCorrect`, `HistoryIsTold`, `SettledInterviewStays`,
  `ClosedApplicationStays`, `AppliedIsBounded`, `RoundSharedIsBounded`. `JobsOk` ties a session's step to what it will write
  (a scheduler gives INTERVIEW_SCHEDULED; whoever changes an interview read it open), from which
  `SettledStaysUnlessStale` follows. `ClosedStaysUnlessStale` needs `MovesOk`: what a session is
  going to write is a status its table allows from every status it *read*, so that a closed
  application moves only if it was read in another status, or by the shortlist's buttons. `HistoryTellsStatus` is inductive for all rows (`AllTold`). The two
  bounds count sessions as well as rows: applications plus sessions about to insert one
  (`AppliedInv`), interviews that have or are about to get a round plus sessions about to create
  one (`SharedBy`); whoever joins found nobody there, so all that share from then on are sessions
  (`SessionsEachTheirOwn`). `RefersToLive` and `RefersToInterview` say that what a request refers
  to still exists.
* `Limits_proofs`, of invitations — `InvitationsTypeCorrect`, `OverrunIsBounded`, `DoubledIsBounded`,
  `AnswersStay`, `UsesAreCovered`. `UseInv`: uses plus the sessions that have passed the check but not yet
  counted are at most the limit plus the senders, less one; weeks to come are unused
  (`FutureUnused`). The open invitations of a pair that were never answered are counted with the sessions about to create
  one in the same way. Both that bound and `AnswersStay` hold for any number of a candidate's sessions; they need
  `ReadInv`: a session about to write an answer or VIEWED has read the invitation open (`HasRead`), and an
  answered one has its `responded` (`AnsweredOnce`), which no write takes back, so that a stale VIEWED reopens an
  invitation without making it one never answered. `OwedInv`: the uses of all weeks with those that senders still
  owe (`Owing`) are at most the invitations sent. That adding one to a week adds one to the sum over
  weeks (`SumGrows`) is proved by counting units, by induction on finite sets (their strict subsets
  are well-founded, `FS_StrictSubsetOrderingWellFounded`; a least counterexample is picked).
* `Limits_proofs`, of the AI services — `AIGenerationTypeCorrect`, `HashesTellTexts`,
  `MonthOverrunIsBounded`. `AITyped` adds to the types that a request for insights has a candidate,
  and that a row it has loaded is still there. `Decided`: a request that found a row, and was not told
  to regenerate, goes on only with data of another hash than the row's, or with a row that is malformed, and so it writes the hash with the
  text, or `raced` tells it. `Fits` is stronger than a sum: some request was checked last (`w`), the counter with *its* use
  fits the limit with what all the other requests under way may add, each at most one use (or
  `CandidateLimit` analyses); a step of any session keeps such a request or leaves none under way.
* `Limits_proofs`, of the digests — `DigestsTypeCorrect`, `DigestsOncePerStart`. `DigestInv`: the mails
  of a digest with the processes that may still send it (`StillMailing`) are at most the starts and the times a clock was set back. A loop
  may mail a window that it has not come to, or one it is at and has the alert before it; mailing
  takes the alert away, the end of a run remembers the window, and only a start or a clock set back forgets.
* `Limits_proofs`, of the rate limiter — `RateTypeCorrect`, `SlidingIsBounded`. The log does not
  say who let a request through, so `RateInv` is that it *can be* handed out (`Assigned`) to the workers and to
  those that are gone. What a worker let through since its window began is at most its count and the
  limit (`WindowOk`), one less after the first second of the window, and so it is of the window before; a
  span as long as the window therefore has less than twice the limit of it (`SpanOfWorker`). A restart
  hands one such share to those that are gone. The shares add up by `UnionBound`.
* `JobPosting_proofs` — `PostingTypeCorrect`, `PublishedIsBounded`. Jobs that are open or that an
  administrator has listed are counted together (`Promised`), so that an activation changes nothing;
  what all administrators have listed is at most a batch each, because a listed job is told by an
  administrator and a place in a batch (`UnionBounded`, an injection into pairs).
* `Portal_proofs`, of resumes and sections — `ResumesTypeCorrect`, `DefaultsAreBounded`,
  `ResumesAreBounded`, `SectionsTypeCorrect`, `DistinctSkillsStay`.
  These bounds are inductive with the sessions that are on their way to add one counted in
  (`Opening` of the recruiters, `Inserting`, `Adding`): when a session passes the check, the others
  are at most all of the sessions but itself.
  `DistinctSkillsStay`, of ProfileSections: `SkillsSettled` is preserved once a request that waits
  to read has looked for its name in the list it will get (`LookedFor`), which is the invariant
  proved first; then a request that reads finds its name in the list at its own entry only.
  That the row a request selects exists (`SectionsTypeCorrect`) needs `Ordered`: the rows that are made,
  committed or not yet, are in a strict order, so that committing one of them (`RowCommitted`) or giving one up
  (`RowGivenUp`) leaves a latest one among the committed (`LatestThere`).
* `Portal_proofs`, of the composition — `PartsAreTheirOwn`, `PortalTypeCorrect`: a step of the portal is a
  step of the part that moves and a stutter of the others (`PortalStep`), so the portal implements the
  specification of each part, and the theorems of `Limits_proofs` and `JobPosting_proofs` are theorems about
  it. `SideBySideIsBoth` in `Subscriptions_proofs` says the same of the lifecycle and the catalogue.
* `Registration_proofs` — `RegistrationTypeCorrect`, `AccountsAreWhole`, `CompaniesAreDense`,
  `CodesAreBounded`.
  `AccountInv` says of a session past the user's insertion which parts its person has, and that
  no other session registers that person (the index on users), so that a session that ends leaves
  an account whole or cut off. `NumberInv`: a count read earlier is not above the companies there are.
  `CodesBounded` is inductive as `BoundInv`: usable codes with the sessions about to insert one are at
  most the visitors; and whichever sessions about to replace a person's rows are set aside, the rows
  that none of them will delete are at most as many as the others. The bound on all rows is the
  case of none set aside; a session that replaces rows needs the case in which it is.
* `Credentials_proofs` — `CredentialsTypeCorrect`, `ResetsAreBounded`, `StaleLoginsAreBounded`. For
  a code (`CodeInv`), until it is marked used its resets are the cuts and the sessions about to mark
  it; from then on nobody starts with it, and the resets and the sessions about to make one are
  bounded by the cuts and all sessions. Active sessions opened with a password given up plus logins
  under way with one (`Stale`, `LoggingIn`) are fewer than the clients, since the session that signs
  everybody out is not logging in.

Every type invariant is a theorem of its module, because every other proof cites it; `PortalTypeOK` of `MCPortal`,
which picks the one of the part that moves, follows from the seven (`PortalTypeCorrect`).

Only model-checked: the liveness properties `LapsedEventuallyExpired` and
`CapturedEventuallyPaid` (liveness under fairness and ENABLED are outside the provers' reach). Every
other property of a passing run is stated by a theorem. The induction theorems of the library take an operator as
a parameter, which the provers cannot instantiate; the one induction that was needed, on sums, is
written out over a well-founded order instead.

## 5. What is not modelled, and the plan

Left out on purpose: resume extraction, prompts and scoring (pure functions of external data), search
and dashboards (read-only), CRUD of rows one user owns (a profile's personal details and links, followed companies, saved jobs,
messages), the settings other than the default plan (columns of one row), approvals of
employers and companies (they assign a string to a timestamp column, `employer_repo.py:269`, which
the database driver refuses, so that they fail before they write anything), contact tickets (their retry is called by
nothing), maintenance mode (it keeps no state: the settings are read for each request),
serialisation, logging, authorisation by role (static), generated migrations other than the
indexes they create. Within the modelled parts: matching of alerts and the texts of mails, nudges and
notes of recruiters, skills and locations of jobs, file storage and share links of resumes, a profile's completion percentage and visibility, the
activity log, the master code of development.

What would come next:

1. **HiringSystem** — what applications and interviews promise their candidate, as an abstract
   specification, with `HiringPipeline` shown to implement it as far as its races allow; the
   openness of the job (JobPosting) and nudges join it.
2. **SubscriptionSystem** — the lifecycle and the payments over one table, without the detour through
   `SubscriptionRows`, and the plans of `PlanCatalogue` under both.
3. **JobAlerts** — the instant alerts with their retries, beside the digests.
4. **ActivityLog** — entries written after a commit and never committed.

Theorems still worth proving: with the abstract specification of hiring (1), its refinement.
