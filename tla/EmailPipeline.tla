---------------------------- MODULE EmailPipeline ----------------------------
(***************************************************************************)
(* One public reply on its way to the customer: the EmailDelivery row that *)
(* TicketsService.createMessage commits, the BullMQ job that points at it, *)
(* the EmailWorker slots that run the job, the recovery pass that repairs  *)
(* what crashes leave behind, the provider, and the provider's webhooks.   *)
(*                                                                         *)
(* PostgreSQL and Redis are separate stores: no two of the database, queue *)
(* and provider calls of one handler are one step.                         *)
(***************************************************************************)

EXTENDS DeliveryStatus, FiniteSets

CONSTANTS
  Deliveries,    (* deliveries, numbered in the order of their createdAt   *)
  Slots,         (* concurrent job executions of all the email workers     *)
  NoSlot,        (* nobody holds a job's lock                              *)
  MaxAttempts,   (* the job option "attempts": 5 in the code               *)
  RecoveryBatch, (* how many PENDING rows a recovery pass takes: 100       *)
  Events,        (* the event types the provider is subscribed for         *)
  SlowAttempts,  (* may an attempt outlive the 10 minute staleness window? *)
  MaxFaults      (* bound: crashes, stalls, failed calls in one behaviour  *)

ASSUME PipelineAssumption ==
  /\ Deliveries \subseteq Nat \ {0}
  /\ NoSlot \notin Slots
  /\ MaxAttempts \in Nat \ {0}
  /\ RecoveryBatch \in Nat \ {0}
  /\ Events \subseteq EventTypes
  /\ SlowAttempts \in BOOLEAN
  /\ MaxFaults \in Nat

VARIABLES
  status,        (* EmailDelivery.status, "NONE" before the row exists     *)
  stale,         (* lastAttemptAt is more than 10 minutes ago              *)
  linked,        (* providerMessageId is set                               *)
  job,           (* state of job email-delivery-<id>, "none" if absent     *)
  lock,          (* the slot that holds the job's lock                     *)
  attemptsMade,  (* failed attempts of the job                             *)
  ensure,        (* progress of each caller's ensureEmailDeliveryQueued    *)
  pc,            (* what each slot is doing ...                            *)
  task,          (* ... for which delivery                                 *)
  final,         (* attemptsMade + 1 >= attempts when the job was taken    *)
  permanent,     (* the error the slot caught is a non-retryable one       *)
  mails,         (* emails the provider accepted                           *)
  emitted,       (* webhook events the provider has sent, again and again  *)
  processed,     (* WebhookEvent rows                                      *)
  faults         (* faults so far                                          *)

rowVars      == <<status, stale, linked>>
jobVars      == <<job, lock, attemptsMade>>
slotVars     == <<pc, task, final, permanent>>
providerVars == <<mails, emitted>>
vars == <<rowVars, jobVars, ensure, slotVars, providerVars, processed, faults>>

JobStates == {"none", "waiting", "active", "delayed", "completed", "failed"}

Callers == {"api", "recovery"}

NoTask == 0

\* "taken" has the job, "read" has the row, "sending" has claimed it and may
\* have a request at the provider, "accepted" has the provider's answer,
\* "recorded" has written SENT, "caught" is in the catch block; the last three
\* are about to tell BullMQ how the job ended.
PCs == {"idle", "taken", "read", "sending", "accepted", "recorded", "caught",
        "returning", "throwing", "unrecoverable"}

\* The slots with an attempt to send d that is not over.
Senders(d) == {s \in Slots : /\ task[s] = d
                             /\ pc[s] \in {"sending", "accepted", "recorded", "caught"}}

Fault == /\ faults < MaxFaults
         /\ faults' = faults + 1

Init ==
  /\ status       = [d \in Deliveries |-> "NONE"]
  /\ stale        = [d \in Deliveries |-> FALSE]
  /\ linked       = [d \in Deliveries |-> FALSE]
  /\ job          = [d \in Deliveries |-> "none"]
  /\ lock         = [d \in Deliveries |-> NoSlot]
  /\ attemptsMade = [d \in Deliveries |-> 0]
  /\ ensure       = [c \in Callers |-> [d \in Deliveries |-> "idle"]]
  /\ pc           = [s \in Slots |-> "idle"]
  /\ task         = [s \in Slots |-> NoTask]
  /\ final        = [s \in Slots |-> FALSE]
  /\ permanent    = [s \in Slots |-> FALSE]
  /\ mails        = [d \in Deliveries |-> 0]
  /\ emitted      = [d \in Deliveries |-> {}]
  /\ processed    = [d \in Deliveries |-> {}]
  /\ faults       = 0

-----------------------------------------------------------------------------
(* TicketsService.createMessage of a PUBLIC_REPLY: the transaction commits   *)
(* the row, and only then the API asks for a job.                            *)

CreateReply(d) ==
  /\ status[d] = "NONE"
  /\ \A e \in Deliveries : e < d => status[e] # "NONE"
  /\ \/ /\ status' = [status EXCEPT ![d] = "PENDING"]
        /\ ensure' = [ensure EXCEPT !["api"][d] = "due"]
     \/ \* the customer has no email address
        /\ status' = [status EXCEPT ![d] = "FAILED"]
        /\ UNCHANGED ensure
  /\ UNCHANGED <<stale, linked, jobVars, slotVars, providerVars, processed, faults>>

-----------------------------------------------------------------------------
(* JobsService.ensureEmailDeliveryQueued, run by the API and by recovery.    *)
(* Its calls to Redis are separate: what it saw may be gone when it acts.    *)

\* getJob and getState; a job that is still to run, or running, is left alone.
InspectJob(c, d) ==
  /\ ensure[c][d] = "due"
  /\ ensure' = [ensure EXCEPT ![c][d] =
                  IF job[d] \in {"waiting", "active", "delayed"} THEN "idle" ELSE job[d]]
  /\ UNCHANGED <<rowVars, jobVars, slotVars, providerVars, processed, faults>>

\* existing.retry() throws when the job is no longer in the failed set.
RetryFailedJob(c, d) ==
  /\ ensure[c][d] = "failed"
  /\ ensure' = [ensure EXCEPT ![c][d] = "idle"]
  /\ job' = [job EXCEPT ![d] = IF @ = "failed" THEN "waiting" ELSE @]
  /\ UNCHANGED <<rowVars, lock, attemptsMade, slotVars, providerVars, processed, faults>>

\* Mutant of RemoveCompletedJob: a completed job is taken for a queued one.
RemoveCompletedJobKeeps(c, d) ==
  /\ ensure[c][d] = "completed"
  /\ ensure' = [ensure EXCEPT ![c][d] = "idle"]
  /\ UNCHANGED <<rowVars, jobVars, slotVars, providerVars, processed, faults>>

\* existing.remove() throws when a worker holds the job; otherwise add follows.
RemoveCompletedJob(c, d) ==
  /\ ensure[c][d] = "completed"
  /\ IF job[d] = "active"
     THEN /\ ensure' = [ensure EXCEPT ![c][d] = "idle"]
          /\ UNCHANGED <<job, attemptsMade>>
     ELSE /\ ensure' = [ensure EXCEPT ![c][d] = "none"]
          /\ job' = [job EXCEPT ![d] = "none"]
          /\ attemptsMade' = [attemptsMade EXCEPT ![d] = 0]
  /\ UNCHANGED <<rowVars, lock, slotVars, providerVars, processed, faults>>

\* add with the id of an existing job leaves that job as it is.
AddJob(c, d) ==
  /\ ensure[c][d] = "none"
  /\ ensure' = [ensure EXCEPT ![c][d] = "idle"]
  /\ job' = [job EXCEPT ![d] = IF @ = "none" THEN "waiting" ELSE @]
  /\ UNCHANGED <<rowVars, lock, attemptsMade, slotVars, providerVars, processed, faults>>

\* Redis is down, or the caller dies.  The API logs, recovery counts; neither
\* tries again by itself.
EnqueueFails(c, d) ==
  /\ ensure[c][d] # "idle"
  /\ Fault
  /\ ensure' = [ensure EXCEPT ![c][d] = "idle"]
  /\ UNCHANGED <<rowVars, jobVars, slotVars, providerVars, processed>>

EnsureEmailDeliveryQueued(c, d) ==
  \/ InspectJob(c, d)
  \/ RetryFailedJob(c, d)
  \/ RemoveCompletedJob(c, d)
  \/ AddJob(c, d)

-----------------------------------------------------------------------------
(* EmailWorker.processRecovery, every minute.                                *)

\* The compare-and-set repeats the condition the stale rows were read with.
ResetStale(d) ==
  /\ status[d] = "SENDING"
  /\ stale[d]
  /\ status' = [status EXCEPT ![d] = "PENDING"]
  /\ UNCHANGED <<stale, linked, jobVars, ensure, slotVars, providerVars, processed, faults>>

PendingRows == {d \in Deliveries : status[d] = "PENDING"}

\* Mutant of Oldest: the batch is taken before the rows are filtered by status.
OldestOfAll(rows) == {d \in rows : Cardinality({e \in Deliveries : e < d}) < RecoveryBatch}

\* orderBy createdAt, take RecoveryBatch
Oldest(rows) == {d \in rows : Cardinality({e \in rows : e < d}) < RecoveryBatch}

ScanPending ==
  /\ \A d \in Deliveries : ensure["recovery"][d] = "idle"
  /\ PendingRows # {}
  /\ ensure' = [ensure EXCEPT !["recovery"] =
                  [d \in Deliveries |-> IF d \in Oldest(PendingRows) THEN "due" ELSE "idle"]]
  /\ UNCHANGED <<rowVars, jobVars, slotVars, providerVars, processed, faults>>

-----------------------------------------------------------------------------
(* EmailWorker.processTicketReply, one step per database or provider call.   *)

Goto(s, to) == pc' = [pc EXCEPT ![s] = to]

ReadDelivery(s) ==
  /\ pc[s] = "taken"
  /\ Goto(s, IF status[task[s]] \in TerminalStatuses THEN "returning" ELSE "read")
  /\ UNCHANGED <<rowVars, jobVars, ensure, task, final, permanent, providerVars, processed, faults>>

\* Mutant of ClaimDelivery: the row is not compared, only found undecided.
ClaimDeliveryUnguarded(s) ==
  /\ pc[s] = "read"
  /\ IF status[task[s]] \in Undecided
     THEN /\ status' = [status EXCEPT ![task[s]] = "SENDING"]
          /\ stale' = [stale EXCEPT ![task[s]] = FALSE]
          /\ Goto(s, "sending")
     ELSE /\ Goto(s, "returning")
          /\ UNCHANGED <<status, stale>>
  /\ UNCHANGED <<linked, jobVars, ensure, task, final, permanent, providerVars, processed, faults>>

\* updateMany where status = PENDING: only one job execution gets the row.
ClaimDelivery(s) ==
  /\ pc[s] = "read"
  /\ IF status[task[s]] = "PENDING"
     THEN /\ status' = [status EXCEPT ![task[s]] = "SENDING"]
          /\ stale' = [stale EXCEPT ![task[s]] = FALSE]
          /\ Goto(s, "sending")
     ELSE /\ Goto(s, "returning")
          /\ UNCHANGED <<status, stale>>
  /\ UNCHANGED <<linked, jobVars, ensure, task, final, permanent, providerVars, processed, faults>>

\* Mutant of SetFromSending: an update by id only.
SetById(d, to) == status' = [status EXCEPT ![d] = to]

\* An update conditional on SENDING, whose count the code looks at only to
\* decide whether to publish.
SetFromSending(d, to) ==
  status' = [status EXCEPT ![d] = IF @ = "SENDING" THEN to ELSE @]

RecordSent(s) ==
  /\ pc[s] = "accepted"
  /\ SetFromSending(task[s], "SENT")
  /\ linked' = [linked EXCEPT ![task[s]] = @ \/ status[task[s]] = "SENDING"]
  /\ Goto(s, "recorded")
  /\ UNCHANGED <<stale, jobVars, ensure, task, final, permanent, providerVars, processed, faults>>

\* updateMany where providerMessageId is null
LinkProviderMessage(s) ==
  /\ pc[s] = "recorded"
  /\ linked' = [linked EXCEPT ![task[s]] = TRUE]
  /\ Goto(s, "returning")
  /\ UNCHANGED <<status, stale, jobVars, ensure, task, final, permanent, providerVars, processed, faults>>

\* The catch block: give up, or give the row back for the next attempt.
RecordFailure(s) ==
  /\ pc[s] = "caught"
  /\ SetFromSending(task[s], IF permanent[s] \/ final[s] THEN "FAILED" ELSE "PENDING")
  /\ Goto(s, IF permanent[s] THEN "unrecoverable" ELSE "throwing")
  /\ UNCHANGED <<stale, linked, jobVars, ensure, task, final, permanent, providerVars, processed, faults>>

\* A query of processTicketReply fails.  Inside the try block the error is
\* caught, and counts as retryable; elsewhere BullMQ gets it.
DatabaseFails(s) ==
  /\ pc[s] \in {"taken", "read", "accepted", "recorded", "caught"}
  /\ Fault
  /\ Goto(s, IF pc[s] \in {"accepted", "recorded"} THEN "caught" ELSE "throwing")
  /\ permanent' = [permanent EXCEPT ![s] = FALSE]
  /\ UNCHANGED <<rowVars, jobVars, ensure, task, final, providerVars, processed>>

-----------------------------------------------------------------------------
(* The provider, called by EmailService.sendTicketReply.                     *)

\* Mutant of AcceptedEmails: the request carries no idempotency key.
AcceptedEmailsNoKey(d) == mails[d] + 1

\* The idempotency key is the delivery's id: the provider answers a key it
\* already knows with the email it already accepted.
AcceptedEmails(d) == IF mails[d] = 0 THEN 1 ELSE mails[d]

ProviderAccepts(s) ==
  /\ pc[s] = "sending"
  /\ mails' = [mails EXCEPT ![task[s]] = AcceptedEmails(task[s])]
  /\ Goto(s, "accepted")
  /\ UNCHANGED <<rowVars, jobVars, ensure, task, final, permanent, emitted, processed, faults>>

\* No answer, 408, 429 or 5xx.  The email may have been accepted all the same.
ProviderUnavailable(s) ==
  /\ pc[s] = "sending"
  /\ Fault
  /\ \/ mails' = [mails EXCEPT ![task[s]] = AcceptedEmails(task[s])]
     \/ UNCHANGED mails
  /\ Goto(s, "caught")
  /\ permanent' = [permanent EXCEPT ![s] = FALSE]
  /\ UNCHANGED <<rowVars, jobVars, ensure, task, final, emitted, processed>>

\* Any other status: the request is invalid, or (409) its key is in use by
\* another request or was used with another subject or customer name.
ProviderRejects(s) ==
  /\ pc[s] = "sending"
  /\ Goto(s, "caught")
  /\ permanent' = [permanent EXCEPT ![s] = TRUE]
  /\ UNCHANGED <<rowVars, jobVars, ensure, task, final, providerVars, processed, faults>>

ProviderAnswers(s) ==
  \/ ProviderAccepts(s)
  \/ ProviderUnavailable(s)
  \/ ProviderRejects(s)

Outcomes == {"delivered", "bounced", "suppressed", "failed"}

\* What happens to an accepted email: one outcome, with delays only before it
\* and a complaint only about a delivered email.
ProviderEmits(d, e) ==
  /\ mails[d] > 0
  /\ e \notin emitted[d]
  /\ e \in Outcomes \cup {"delivery_delayed"} => emitted[d] \cap Outcomes = {}
  /\ e = "complained" => "delivered" \in emitted[d]
  /\ emitted' = [emitted EXCEPT ![d] = @ \cup {e}]
  /\ UNCHANGED <<rowVars, jobVars, ensure, slotVars, mails, processed, faults>>

-----------------------------------------------------------------------------
(* OutboundEmailEventsService.handle.  Webhooks arrive in any order and more *)
(* than once; the unique key of WebhookEvent makes a repeated one a no-op.   *)

\* Mutant of HandleWebhook: the event's email id is not stored on the row.
HandleWebhookUnlinked(d, e) ==
  /\ e \in emitted[d]
  /\ e \notin processed[d]
  /\ processed' = [processed EXCEPT ![d] = @ \cup {e}]
  /\ status' = [status EXCEPT ![d] = IF @ \in AllowedFrom(e) THEN EventStatus[e] ELSE @]
  /\ UNCHANGED <<stale, linked, jobVars, ensure, slotVars, providerVars, faults>>

HandleWebhook(d, e) ==
  /\ e \in emitted[d]
  /\ e \notin processed[d]
  /\ processed' = [processed EXCEPT ![d] = @ \cup {e}]
  /\ linked' = [linked EXCEPT ![d] = TRUE]
  /\ status' = [status EXCEPT ![d] = IF @ \in AllowedFrom(e) THEN EventStatus[e] ELSE @]
  /\ UNCHANGED <<stale, jobVars, ensure, slotVars, providerVars, faults>>

-----------------------------------------------------------------------------
(* BullMQ: the part of the queue the code relies on.                         *)

TakeJob(s, d) ==
  /\ pc[s] = "idle"
  /\ job[d] = "waiting"
  /\ job' = [job EXCEPT ![d] = "active"]
  /\ lock' = [lock EXCEPT ![d] = s]
  /\ Goto(s, "taken")
  /\ task' = [task EXCEPT ![s] = d]
  /\ final' = [final EXCEPT ![s] = attemptsMade[d] + 1 >= MaxAttempts]
  /\ UNCHANGED <<rowVars, attemptsMade, ensure, permanent, providerVars, processed, faults>>

\* The slot is free again, and what it does not hold any more it forgets.
Free(s) ==
  /\ Goto(s, "idle")
  /\ task' = [task EXCEPT ![s] = NoTask]
  /\ final' = [final EXCEPT ![s] = FALSE]
  /\ permanent' = [permanent EXCEPT ![s] = FALSE]

\* A slot that lost the lock to the stalled check cannot end the job.
EndJob(s, to, made) ==
  LET d == task[s] IN
  IF lock[d] = s
  THEN /\ job' = [job EXCEPT ![d] = to]
       /\ lock' = [lock EXCEPT ![d] = NoSlot]
       /\ attemptsMade' = [attemptsMade EXCEPT ![d] = made]
  ELSE UNCHANGED jobVars

CompleteJob(s) ==
  /\ pc[s] = "returning"
  /\ EndJob(s, "completed", attemptsMade[task[s]])
  /\ Free(s)
  /\ UNCHANGED <<rowVars, ensure, providerVars, processed, faults>>

\* attemptsMade stays at MaxAttempts when a failed job was retried by hand.
FailJob(s) ==
  /\ pc[s] \in {"throwing", "unrecoverable"}
  /\ EndJob(s, IF pc[s] = "unrecoverable" \/ final[s] THEN "failed" ELSE "delayed",
            IF attemptsMade[task[s]] < MaxAttempts THEN attemptsMade[task[s]] + 1 ELSE MaxAttempts)
  /\ Free(s)
  /\ UNCHANGED <<rowVars, ensure, providerVars, processed, faults>>

BackoffEnds(d) ==
  /\ job[d] = "delayed"
  /\ job' = [job EXCEPT ![d] = "waiting"]
  /\ UNCHANGED <<rowVars, lock, attemptsMade, ensure, slotVars, providerVars, processed, faults>>

\* The slot that holds the job's lock is still executing it.
Held(d) == lock[d] \in Slots /\ task[lock[d]] = d

\* The lock was not renewed in time: the job is run again, or failed when it
\* has stalled before.
Stall(d) ==
  /\ job[d] = "active"
  /\ \E to \in {"waiting", "failed"} : job' = [job EXCEPT ![d] = to]
  /\ lock' = [lock EXCEPT ![d] = NoSlot]
  /\ UNCHANGED <<rowVars, attemptsMade, ensure, slotVars, providerVars, processed>>

\* ... because its worker is gone ...
StallOfDeadSlot(d) == ~ Held(d) /\ Stall(d) /\ UNCHANGED faults

\* ... or only blocked, and about to go on with the job it lost.
StallOfLiveSlot(d) == Held(d) /\ Stall(d) /\ Fault

\* removeOnComplete and removeOnFail
ExpireJob(d) ==
  /\ job[d] \in {"completed", "failed"}
  /\ job' = [job EXCEPT ![d] = "none"]
  /\ attemptsMade' = [attemptsMade EXCEPT ![d] = 0]
  /\ UNCHANGED <<rowVars, lock, ensure, slotVars, providerVars, processed, faults>>

Crash(s) ==
  /\ pc[s] # "idle"
  /\ Fault
  /\ Free(s)
  /\ UNCHANGED <<rowVars, jobVars, ensure, providerVars, processed>>

\* Ten minutes have passed since the claim.
AttemptAges(d) ==
  /\ status[d] = "SENDING"
  /\ ~ stale[d]
  /\ IF Senders(d) = {} THEN UNCHANGED faults ELSE SlowAttempts /\ Fault
  /\ stale' = [stale EXCEPT ![d] = TRUE]
  /\ UNCHANGED <<status, linked, jobVars, ensure, slotVars, providerVars, processed>>

-----------------------------------------------------------------------------

SlotStep(s) ==
  \/ ReadDelivery(s)
  \/ ClaimDelivery(s)
  \/ ProviderAnswers(s)
  \/ RecordSent(s)
  \/ LinkProviderMessage(s)
  \/ RecordFailure(s)
  \/ CompleteJob(s)
  \/ FailJob(s)

DeliveryStep(d) ==
  \/ CreateReply(d)
  \/ ResetStale(d)
  \/ BackoffEnds(d)
  \/ StallOfDeadSlot(d)
  \/ StallOfLiveSlot(d)
  \/ ExpireJob(d)
  \/ AttemptAges(d)

Next ==
  \/ \E s \in Slots : SlotStep(s) \/ DatabaseFails(s) \/ Crash(s)
  \/ \E s \in Slots, d \in Deliveries : TakeJob(s, d)
  \/ \E d \in Deliveries : DeliveryStep(d)
  \/ \E d \in Deliveries, e \in Events : ProviderEmits(d, e) \/ HandleWebhook(d, e)
  \/ \E c \in Callers, d \in Deliveries : EnsureEmailDeliveryQueued(c, d) \/ EnqueueFails(c, d)
  \/ ScanPending

Spec == Init /\ [][Next]_vars

\* Running slots go on, time passes, BullMQ hands out waiting jobs in order and
\* notices dead workers, and the scheduler keeps running recovery.  Faults,
\* expiry and webhooks need never happen.
Fairness ==
  /\ \A s \in Slots : WF_vars(SlotStep(s))
  /\ \A d \in Deliveries :
        /\ WF_vars(\E s \in Slots : TakeJob(s, d))
        /\ WF_vars(BackoffEnds(d))
        /\ WF_vars(StallOfDeadSlot(d))
        /\ WF_vars(AttemptAges(d) /\ UNCHANGED faults)
        /\ WF_vars(ResetStale(d))
        /\ \A c \in Callers : WF_vars(EnsureEmailDeliveryQueued(c, d))
  /\ WF_vars(ScanPending)

FairSpec == Spec /\ Fairness

-----------------------------------------------------------------------------
(* Properties.                                                               *)

TypeOK ==
  /\ status \in [Deliveries -> Statuses \cup {"NONE"}]
  /\ stale \in [Deliveries -> BOOLEAN]
  /\ linked \in [Deliveries -> BOOLEAN]
  /\ job \in [Deliveries -> JobStates]
  /\ lock \in [Deliveries -> Slots \cup {NoSlot}]
  /\ attemptsMade \in [Deliveries -> 0 .. MaxAttempts]
  /\ ensure \in [Callers -> [Deliveries -> {"idle", "due", "none", "completed", "failed"}]]
  /\ pc \in [Slots -> PCs]
  /\ task \in [Slots -> Deliveries \cup {NoTask}]
  /\ \A s \in Slots : pc[s] # "idle" => task[s] \in Deliveries
  /\ final \in [Slots -> BOOLEAN]
  /\ permanent \in [Slots -> BOOLEAN]
  /\ mails \in [Deliveries -> Nat]
  /\ emitted \in [Deliveries -> SUBSET Events]
  /\ processed \in [Deliveries -> SUBSET Events]
  /\ faults \in 0 .. MaxFaults

\* Unless an attempt can outlive the staleness window, no two job executions
\* ever send one delivery at the same time, although jobs are taken away from
\* slots that still run them and recovery hands rows out again: the claim of
\* processTicketReply and the 10 minutes of processRecovery together are a lock.
SingleSender ==
  ~ SlowAttempts => \A s, t \in Slots : \A d \in Deliveries :
                       s \in Senders(d) /\ t \in Senders(d) => s = t

\* A row whose status speaks for the provider names the provider's email, so
\* that later webhooks without tags find it by providerMessageId.
ProviderStatusIsLinked ==
  \A d \in Deliveries :
    status[d] \notin Undecided \cup {"NONE", "FAILED"} => linked[d]

Lifecycle == INSTANCE DeliveryLifecycle

\* What a processed webhook event said is never undone: neither a late worker
\* nor recovery nor an older event takes the row behind it.
WebhooksAreNotUndone ==
  \A d \in Deliveries : \A e \in processed[d] :
    Lifecycle!Rank(status[d]) >= Lifecycle!Rank(EventStatus[e])

\* Every step of the pipeline is a step of the abstract lifecycle: no progress
\* is undone, no unaccepted email is called sent, and no email is sent twice.
ImplementsLifecycle == Lifecycle!Spec

\* However jobs and rows get out of step, recovery brings every reply to a
\* decision: it does not stay PENDING or SENDING for ever.
EveryReplyIsDecided ==
  \A d \in Deliveries : status[d] # "NONE" ~> status[d] \notin Undecided

\* docs/architecture.md: "Signed webhook events reconcile delivery status".
\* The row of an email whose delivery was reported and processed says so.
DeliveredIsReconciled ==
  \A d \in Deliveries : "delivered" \in processed[d] => status[d] = "DELIVERED"

=============================================================================
