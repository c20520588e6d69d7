------------------------- MODULE EmailPipelineProofs -------------------------
(***************************************************************************)
(* What TLC checks of EmailPipeline on one or two deliveries and slots,    *)
(* proved for every number of them, every MaxAttempts and every MaxFaults. *)
(***************************************************************************)

EXTENDS EmailPipeline, TLAPS

-----------------------------------------------------------------------------
(* Type correctness.                                                         *)

USE DEF NoTask

LEMMA TypeInit == Init => TypeOK
BY PipelineAssumption DEF Init, TypeOK, JobStates, PCs, Callers, Statuses

LEMMA TypeCreateReply ==
  ASSUME TypeOK, NEW d \in Deliveries, CreateReply(d)
  PROVE  TypeOK'
BY DEF TypeOK, CreateReply, Statuses, Callers, jobVars, slotVars, providerVars

LEMMA TypeEnsure ==
  ASSUME TypeOK, NEW c \in Callers, NEW d \in Deliveries,
         EnsureEmailDeliveryQueued(c, d) \/ EnqueueFails(c, d)
  PROVE  TypeOK'
<1> USE DEF TypeOK, rowVars, jobVars, slotVars, providerVars, JobStates
<1>1. CASE InspectJob(c, d)          BY <1>1 DEF InspectJob
<1>2. CASE RetryFailedJob(c, d)      BY <1>2 DEF RetryFailedJob
<1>3. CASE RemoveCompletedJob(c, d)  BY <1>3, PipelineAssumption DEF RemoveCompletedJob
<1>4. CASE AddJob(c, d)              BY <1>4 DEF AddJob
<1>5. CASE EnqueueFails(c, d)        BY <1>5, PipelineAssumption DEF EnqueueFails, Fault
<1> QED BY <1>1, <1>2, <1>3, <1>4, <1>5 DEF EnsureEmailDeliveryQueued

LEMMA TypeScan == TypeOK /\ ScanPending => TypeOK'
BY DEF TypeOK, ScanPending, Callers, rowVars, jobVars, slotVars, providerVars

LEMMA TypeEndJob ==
  ASSUME job \in [Deliveries -> JobStates],
         lock \in [Deliveries -> Slots \cup {NoSlot}],
         attemptsMade \in [Deliveries -> 0 .. MaxAttempts],
         NEW s \in Slots, task[s] \in Deliveries,
         NEW to \in JobStates, NEW made \in 0 .. MaxAttempts,
         EndJob(s, to, made)
  PROVE  /\ job' \in [Deliveries -> JobStates]
         /\ lock' \in [Deliveries -> Slots \cup {NoSlot}]
         /\ attemptsMade' \in [Deliveries -> 0 .. MaxAttempts]
<1>1. CASE lock[task[s]] = s
  <2>1. job' \in [Deliveries -> JobStates]
    BY <1>1 DEF EndJob
  <2>2. lock' \in [Deliveries -> Slots \cup {NoSlot}]
    BY <1>1 DEF EndJob
  <2>3. attemptsMade' \in [Deliveries -> 0 .. MaxAttempts]
    BY <1>1 DEF EndJob
  <2> QED BY <2>1, <2>2, <2>3
<1>2. CASE lock[task[s]] # s
  BY <1>2 DEF EndJob, jobVars
<1> QED BY <1>1, <1>2

LEMMA TypeSlotStep ==
  ASSUME TypeOK, NEW s \in Slots, SlotStep(s) \/ DatabaseFails(s) \/ Crash(s)
  PROVE  TypeOK'
<1> USE DEF TypeOK, rowVars, jobVars, slotVars, providerVars, PCs, Goto
<1>1. CASE ReadDelivery(s)         BY <1>1 DEF ReadDelivery
<1>2. CASE ClaimDelivery(s)
  <2>1. task[s] \in Deliveries /\ UNCHANGED <<linked, jobVars, ensure, task, final, permanent, providerVars, processed, faults>>
    BY <1>2 DEF ClaimDelivery
  <2>2. status' \in [Deliveries -> Statuses \cup {"NONE"}] /\ stale' \in [Deliveries -> BOOLEAN]
    BY <1>2, <2>1 DEF ClaimDelivery, Statuses
  <2>3. pc' \in [Slots -> PCs] /\ \A t \in Slots : pc'[t] # "idle" => task[t] \in Deliveries
    BY <1>2, <2>1 DEF ClaimDelivery
  <2> QED BY <2>1, <2>2, <2>3
<1>3. CASE ProviderAccepts(s)      BY <1>3 DEF ProviderAccepts, AcceptedEmails
<1>4. CASE ProviderUnavailable(s)
  BY <1>4, PipelineAssumption DEF ProviderUnavailable, AcceptedEmails, Fault
<1>5. CASE ProviderRejects(s)      BY <1>5 DEF ProviderRejects
<1>6. CASE RecordSent(s)           BY <1>6 DEF RecordSent, SetFromSending, Statuses
<1>7. CASE LinkProviderMessage(s)  BY <1>7 DEF LinkProviderMessage
<1>8. CASE RecordFailure(s)        BY <1>8 DEF RecordFailure, SetFromSending, Statuses
<1>9. CASE CompleteJob(s)
  BY <1>9, SMTT(30) DEF CompleteJob, EndJob, Free, JobStates
<1>10. CASE FailJob(s)
  <2> DEFINE to == IF pc[s] = "unrecoverable" \/ final[s] THEN "failed" ELSE "delayed"
             made == IF attemptsMade[task[s]] < MaxAttempts
                     THEN attemptsMade[task[s]] + 1 ELSE MaxAttempts
  <2>1. task[s] \in Deliveries
    BY <1>10 DEF FailJob
  <2>2. attemptsMade[task[s]] \in 0 .. MaxAttempts /\ MaxAttempts \in Nat
    BY <2>1, PipelineAssumption
  <2>3. made \in 0 .. MaxAttempts
    BY <2>2
  <2>4. to \in JobStates /\ made \in 0 .. MaxAttempts
    BY <2>3 DEF JobStates
  <2>5. EndJob(s, to, made)
    BY <1>10 DEF FailJob
  <2> HIDE DEF to, made
  <2>6. /\ job' \in [Deliveries -> JobStates]
        /\ lock' \in [Deliveries -> Slots \cup {NoSlot}]
        /\ attemptsMade' \in [Deliveries -> 0 .. MaxAttempts]
    BY <2>1, <2>4, <2>5, TypeEndJob
  <2> QED BY <1>10, <2>6 DEF FailJob, Free
<1>11. CASE DatabaseFails(s)       BY <1>11, PipelineAssumption DEF DatabaseFails, Fault
<1>12. CASE Crash(s)               BY <1>12, PipelineAssumption DEF Crash, Free, Fault
<1> QED BY <1>1, <1>2, <1>3, <1>4, <1>5, <1>6, <1>7, <1>8, <1>9, <1>10, <1>11, <1>12
        DEF SlotStep, ProviderAnswers

LEMMA TypeTakeJob ==
  ASSUME TypeOK, NEW s \in Slots, NEW d \in Deliveries, TakeJob(s, d)
  PROVE  TypeOK'
BY PipelineAssumption
   DEF TypeOK, TakeJob, Goto, JobStates, PCs, rowVars, providerVars

LEMMA TypeDeliveryStep ==
  ASSUME TypeOK, NEW d \in Deliveries, DeliveryStep(d)
  PROVE  TypeOK'
<1> USE DEF TypeOK, rowVars, jobVars, slotVars, providerVars, JobStates
<1>1. CASE CreateReply(d)       BY <1>1, TypeCreateReply
<1>2. CASE ResetStale(d)        BY <1>2 DEF ResetStale, Statuses
<1>3. CASE BackoffEnds(d)       BY <1>3 DEF BackoffEnds
<1>4. CASE StallOfDeadSlot(d)   BY <1>4 DEF StallOfDeadSlot, Stall
<1>5. CASE StallOfLiveSlot(d)
  BY <1>5, PipelineAssumption DEF StallOfLiveSlot, Stall, Fault
<1>6. CASE ExpireJob(d)         BY <1>6, PipelineAssumption DEF ExpireJob
<1>7. CASE AttemptAges(d)       BY <1>7, PipelineAssumption DEF AttemptAges, Fault
<1> QED BY <1>1, <1>2, <1>3, <1>4, <1>5, <1>6, <1>7 DEF DeliveryStep

LEMMA TypeEvents ==
  ASSUME TypeOK, NEW d \in Deliveries, NEW e \in Events,
         ProviderEmits(d, e) \/ HandleWebhook(d, e)
  PROVE  TypeOK'
<1> USE DEF TypeOK, rowVars, jobVars, slotVars, providerVars
<1>1. CASE ProviderEmits(d, e)  BY <1>1 DEF ProviderEmits
<1>2. CASE HandleWebhook(d, e)
  <2>1. EventStatus[e] \in Statuses
    BY PipelineAssumption DEF EventStatus, EventTypes, Statuses
  <2> QED BY <1>2, <2>1 DEF HandleWebhook
<1> QED BY <1>1, <1>2

\* Every value of the constants: each variable keeps to its type, and a busy
\* slot is busy with a delivery.
THEOREM TypeCorrect == Spec => []TypeOK
<1>1. TypeOK /\ [Next]_vars => TypeOK'
  <2> SUFFICES ASSUME TypeOK, [Next]_vars PROVE TypeOK'
    OBVIOUS
  <2>1. CASE UNCHANGED vars
    BY <2>1 DEF vars, TypeOK, rowVars, jobVars, slotVars, providerVars
  <2> QED BY <2>1, TypeSlotStep, TypeTakeJob, TypeDeliveryStep, TypeEvents,
             TypeEnsure, TypeScan DEF Next
<1> QED BY TypeInit, <1>1, PTL DEF Spec

-----------------------------------------------------------------------------
(* One sender at a time.                                                     *)

\* Without slow attempts a sending slot still owns the row it claimed: nobody
\* can claim it again, and recovery does not consider it stale.
SendersOwnTheRow ==
  ~ SlowAttempts => \A d \in Deliveries :
     Senders(d) # {} => status[d] \notin {"NONE", "PENDING"} /\ ~ stale[d]

SenderInv == SingleSender /\ SendersOwnTheRow

\* The steps that start no attempt and hand out no row keep the invariant.
LEMMA SendersShrink ==
  ASSUME TypeOK, SenderInv,
         \A d \in Deliveries :
           /\ Senders(d)' \subseteq Senders(d)
           /\ Senders(d)' # {} =>
                /\ status[d] \notin {"NONE", "PENDING"} => status'[d] \notin {"NONE", "PENDING"}
                /\ stale'[d] = stale[d]
  PROVE  SenderInv'
BY DEF SenderInv, SingleSender, SendersOwnTheRow

LEMMA SenderSlotStep ==
  ASSUME TypeOK, SenderInv, NEW s \in Slots, SlotStep(s) \/ DatabaseFails(s) \/ Crash(s)
  PROVE  SenderInv'
<1>1. CASE ClaimDelivery(s) /\ status[task[s]] = "PENDING"
  <2>1. PICK d \in Deliveries : d = task[s] /\ pc[s] = "read"
    BY <1>1 DEF ClaimDelivery, TypeOK
  <2>2. ~ SlowAttempts => Senders(d) = {}
    BY <1>1, <2>1 DEF SenderInv, SendersOwnTheRow
  <2>3. Senders(d)' \subseteq Senders(d) \cup {s}
    BY <1>1, <2>1 DEF ClaimDelivery, Senders, Goto, TypeOK
  <2>4. \A e \in Deliveries \ {d} : Senders(e)' \subseteq Senders(e)
    BY <1>1, <2>1 DEF ClaimDelivery, Senders, Goto, TypeOK
  <2>5. /\ status'[d] = "SENDING" /\ ~ stale'[d]
        /\ \A e \in Deliveries \ {d} : status'[e] = status[e] /\ stale'[e] = stale[e]
    BY <1>1, <2>1 DEF ClaimDelivery, TypeOK
  <2> QED
    BY <2>2, <2>3, <2>4, <2>5 DEF SenderInv, SingleSender, SendersOwnTheRow
<1>2. CASE RecordFailure(s)
  <2>1. PICK d \in Deliveries : d = task[s] /\ pc[s] = "caught" /\ s \in Senders(d)
    BY <1>2 DEF RecordFailure, Senders, TypeOK
  <2>2. \A e \in Deliveries : Senders(e)' \subseteq Senders(e) \ {s}
    BY <1>2 DEF RecordFailure, Senders, Goto, TypeOK
  <2>3. ~ SlowAttempts => Senders(d)' = {}
    <3>1. Senders(d) \subseteq Slots
      BY DEF Senders
    <3> QED BY <2>1, <2>2, <3>1 DEF SenderInv, SingleSender
  <2>4. \A e \in Deliveries \ {d} : status'[e] = status[e]
    BY <1>2, <2>1 DEF RecordFailure, SetFromSending, TypeOK
  <2>5. stale' = stale
    BY <1>2 DEF RecordFailure
  <2> QED
    BY <2>2, <2>3, <2>4, <2>5 DEF SenderInv, SingleSender, SendersOwnTheRow
<1>3. CASE RecordSent(s)
  <2>1. \A e \in Deliveries : Senders(e)' \subseteq Senders(e)
    BY <1>3 DEF RecordSent, Senders, Goto, TypeOK
  <2>2. \A e \in Deliveries : status'[e] = status[e] \/ status'[e] = "SENT"
    BY <1>3 DEF RecordSent, SetFromSending, TypeOK
  <2> QED BY <1>3, <2>1, <2>2, SendersShrink DEF RecordSent
<1>4. ASSUME pc[s] \notin {"idle", "read"} \/ pc'[s] # "sending",
             ~ RecordFailure(s), ~ RecordSent(s),
             ~ (ClaimDelivery(s) /\ status[task[s]] = "PENDING")
      PROVE  SenderInv'
  <2>1. UNCHANGED <<status, stale>>
    BY <1>4 DEF SlotStep, ProviderAnswers, ReadDelivery, ClaimDelivery,
        ProviderAccepts, ProviderUnavailable, ProviderRejects,
        LinkProviderMessage, CompleteJob, FailJob, DatabaseFails, Crash, rowVars
  <2>2. \A e \in Deliveries : Senders(e)' \subseteq Senders(e)
    BY <1>4 DEF SlotStep, ProviderAnswers, ReadDelivery, ClaimDelivery,
        ProviderAccepts, ProviderUnavailable, ProviderRejects,
        LinkProviderMessage, CompleteJob, FailJob, DatabaseFails, Crash,
        Senders, Goto, Free, TypeOK, NoTask, PCs
  <2> QED BY <2>1, <2>2, SendersShrink
<1>5. ~ (ClaimDelivery(s) /\ status[task[s]] = "PENDING") /\ ~ RecordFailure(s) /\ ~ RecordSent(s)
      => pc[s] \notin {"idle", "read"} \/ pc'[s] # "sending"
  BY DEF SlotStep, ProviderAnswers, ReadDelivery, ClaimDelivery,
        ProviderAccepts, ProviderUnavailable, ProviderRejects,
        LinkProviderMessage, CompleteJob, FailJob, DatabaseFails, Crash,
        Goto, Free, TypeOK
<1> QED BY <1>1, <1>2, <1>3, <1>4, <1>5

LEMMA SenderOtherStep ==
  ASSUME TypeOK, SenderInv,
         \/ \E s \in Slots, d \in Deliveries : TakeJob(s, d)
         \/ \E d \in Deliveries : DeliveryStep(d)
         \/ \E d \in Deliveries, e \in Events : ProviderEmits(d, e) \/ HandleWebhook(d, e)
         \/ \E c \in Callers, d \in Deliveries :
               EnsureEmailDeliveryQueued(c, d) \/ EnqueueFails(c, d)
         \/ ScanPending
         \/ UNCHANGED vars
  PROVE  SenderInv'
<1>1. ASSUME NEW s \in Slots, NEW d \in Deliveries, TakeJob(s, d) PROVE SenderInv'
  <2>1. \A e \in Deliveries : Senders(e)' \subseteq Senders(e)
    BY <1>1 DEF TakeJob, Senders, Goto, TypeOK
  <2> QED BY <1>1, <2>1, SendersShrink DEF TakeJob, rowVars
<1>2. ASSUME NEW d \in Deliveries, CreateReply(d) \/ ResetStale(d) \/ AttemptAges(d)
      PROVE  SenderInv'
  <2>1. \A e \in Deliveries : Senders(e)' = Senders(e)
    BY <1>2 DEF CreateReply, ResetStale, AttemptAges, Senders, slotVars
  <2>2. \A e \in Deliveries \ {d} : status'[e] = status[e] /\ stale'[e] = stale[e]
    BY <1>2 DEF CreateReply, ResetStale, AttemptAges, TypeOK
  <2>3. ~ SlowAttempts => Senders(d) = {}
    BY <1>2 DEF CreateReply, ResetStale, AttemptAges, SenderInv, SendersOwnTheRow
  <2> QED
    BY <2>1, <2>2, <2>3 DEF SenderInv, SingleSender, SendersOwnTheRow
<1>3. ASSUME NEW d \in Deliveries, NEW e \in Events, HandleWebhook(d, e) PROVE SenderInv'
  <2>1. \A x \in Deliveries : Senders(x)' = Senders(x)
    BY <1>3 DEF HandleWebhook, Senders, slotVars
  <2>2. EventStatus[e] \notin {"NONE", "PENDING"}
    BY PipelineAssumption DEF EventStatus, EventTypes
  <2>3. \A x \in Deliveries : \/ status'[x] = status[x]
                              \/ status'[x] = EventStatus[e]
    BY <1>3 DEF HandleWebhook, TypeOK
  <2> QED BY <1>3, <2>1, <2>2, <2>3, SendersShrink DEF HandleWebhook
<1>4. ASSUME UNCHANGED <<rowVars, slotVars>> PROVE SenderInv'
  BY <1>4 DEF SenderInv, SingleSender, SendersOwnTheRow, Senders, rowVars, slotVars
<1>5. ASSUME NEW d \in Deliveries, DeliveryStep(d) PROVE SenderInv'
  BY <1>5, <1>2, <1>4 DEF DeliveryStep, BackoffEnds, StallOfDeadSlot, StallOfLiveSlot,
                          Stall, ExpireJob
<1>6. ASSUME NEW c \in Callers, NEW d \in Deliveries,
             EnsureEmailDeliveryQueued(c, d) \/ EnqueueFails(c, d)
      PROVE  SenderInv'
  BY <1>6, <1>4 DEF EnsureEmailDeliveryQueued, InspectJob, RetryFailedJob,
                    RemoveCompletedJob, AddJob, EnqueueFails
<1>7. ScanPending \/ UNCHANGED vars => SenderInv'
  BY <1>4 DEF ScanPending, vars
<1>8. ASSUME NEW d \in Deliveries, NEW e \in Events, ProviderEmits(d, e) PROVE SenderInv'
  BY <1>8, <1>4 DEF ProviderEmits
<1> QED BY <1>1, <1>3, <1>5, <1>6, <1>7, <1>8

\* If no attempt outlives the staleness window then, with any number of slots,
\* deliveries, crashes and stalls, a delivery is never being sent twice at once.
THEOREM OneSenderAtATime == Spec => []SingleSender
<1>1. Init => SenderInv
  BY DEF Init, SenderInv, SingleSender, SendersOwnTheRow, Senders
<1>2. TypeOK /\ SenderInv /\ [Next]_vars => SenderInv'
  BY SenderSlotStep, SenderOtherStep DEF Next
<1>3. SenderInv => SingleSender
  BY DEF SenderInv
<1> QED BY <1>1, <1>2, <1>3, TypeCorrect, PTL DEF Spec

-----------------------------------------------------------------------------
(* The abstract lifecycle.                                                   *)

\* Nothing happens to a delivery before its row is committed.
RowComesFirst ==
  /\ \A d \in Deliveries : status[d] = "NONE" =>
        /\ job[d] = "none"
        /\ \A c \in Callers : ensure[c][d] = "idle"
        /\ mails[d] = 0
  /\ \A s \in Slots : pc[s] # "idle" => status[task[s]] # "NONE"

\* One email at most, and whoever speaks of one knows that it was accepted.
AcceptedOnce ==
  /\ \A d \in Deliveries :
        /\ mails[d] \in {0, 1}
        /\ emitted[d] # {} => mails[d] = 1
        /\ status[d] \notin Undecided \cup {"NONE", "FAILED"} => mails[d] = 1
  /\ \A s \in Slots : pc[s] \in {"accepted", "recorded"} => mails[task[s]] = 1

LifecycleInv == RowComesFirst /\ AcceptedOnce

LEMMA AdvanceTo ==
  ASSUME NEW d \in Deliveries, NEW st \in Lifecycle!Statuses,
         Lifecycle!Rank(st) > Lifecycle!Rank(status[d]),
         mails[d] = 0 => st \in Lifecycle!Unproven,
         status' = [status EXCEPT ![d] = st], mails' = mails
  PROVE  Lifecycle!Advance(d)
BY DEF Lifecycle!Advance

\* An update that finds the row SENDING advances it; one that does not, stutters.
LEMMA AdvanceFromSending ==
  ASSUME TypeOK, NEW d \in Deliveries, NEW st \in {"SENT", "FAILED"},
         SetFromSending(d, st), mails' = mails, st = "SENT" => mails[d] = 1
  PROVE  [Lifecycle!Advance(d)]_<<status, mails>>
<1>1. CASE status[d] = "SENDING"
  <2>1. status' = [status EXCEPT ![d] = st]
    BY <1>1 DEF SetFromSending
  <2>2. /\ st \in Lifecycle!Statuses
        /\ Lifecycle!Rank(st) > Lifecycle!Rank(status[d])
        /\ mails[d] = 0 => st \in Lifecycle!Unproven
    BY <1>1 DEF Lifecycle!Statuses, Lifecycle!Rank, Lifecycle!Unproven
  <2> QED BY <2>1, <2>2, AdvanceTo
<1>2. CASE status[d] # "SENDING"
  BY <1>2 DEF SetFromSending, TypeOK
<1> QED BY <1>1, <1>2

LEMMA LifecycleSlotStep ==
  ASSUME TypeOK, LifecycleInv, NEW s \in Slots,
         SlotStep(s) \/ DatabaseFails(s) \/ Crash(s)
  PROVE  LifecycleInv' /\ [Lifecycle!Next]_<<status, mails>>
<1>1. PICK d \in Deliveries : d = task[s] /\ status[d] # "NONE" /\ pc[s] # "idle"
  BY DEF TypeOK, LifecycleInv, RowComesFirst, SlotStep, ProviderAnswers, ReadDelivery,
         ClaimDelivery, ProviderAccepts, ProviderUnavailable, ProviderRejects, RecordSent,
         LinkProviderMessage, RecordFailure, CompleteJob, FailJob, DatabaseFails, Crash
<1> USE <1>1 DEF TypeOK, LifecycleInv, RowComesFirst, AcceptedOnce, Undecided,
                 Lifecycle!Next, rowVars, jobVars, slotVars, providerVars, Goto
<1>2. CASE ClaimDelivery(s)
  <2>1. [Lifecycle!Attempt(d)]_<<status, mails>>
    BY <1>2 DEF ClaimDelivery, Lifecycle!Attempt
  <2>2. LifecycleInv'
    BY <1>2 DEF ClaimDelivery
  <2> QED BY <2>1, <2>2
<1>3. CASE ProviderAccepts(s) \/ ProviderUnavailable(s)
  <2>1. [Lifecycle!Mail(d)]_<<status, mails>>
    BY <1>3 DEF ProviderAccepts, ProviderUnavailable, AcceptedEmails, Lifecycle!Mail
  <2>2. LifecycleInv'
    BY <1>3 DEF ProviderAccepts, ProviderUnavailable, AcceptedEmails
  <2> QED BY <2>1, <2>2
<1>4. CASE RecordSent(s)
  <2>1. [Lifecycle!Advance(d)]_<<status, mails>>
    BY <1>4, AdvanceFromSending DEF RecordSent
  <2>2. LifecycleInv'
    BY <1>4 DEF RecordSent, SetFromSending
  <2> QED BY <2>1, <2>2
<1>5. CASE RecordFailure(s)
  <2>1. LifecycleInv'
    BY <1>5 DEF RecordFailure, SetFromSending
  <2>2. CASE permanent[s] \/ final[s]
    <3>1. SetFromSending(d, "FAILED") /\ mails' = mails
      BY <1>5, <2>2 DEF RecordFailure
    <3>2. [Lifecycle!Advance(d)]_<<status, mails>>
      BY <3>1, AdvanceFromSending
    <3> QED BY <2>1, <3>2
  <2>3. CASE ~ (permanent[s] \/ final[s])
    <3>1. [Lifecycle!Attempt(d)]_<<status, mails>>
      BY <1>5, <2>3 DEF RecordFailure, SetFromSending, Lifecycle!Attempt
    <3> QED BY <2>1, <3>1
  <2> QED BY <2>2, <2>3
<1>6. CASE CompleteJob(s) \/ FailJob(s)
  <2>1. UNCHANGED <<status, mails, emitted, ensure>>
    BY <1>6 DEF CompleteJob, FailJob
  <2>2. \A e \in Deliveries : status[e] = "NONE" => job'[e] = job[e]
    BY <1>6 DEF CompleteJob, FailJob, EndJob
  <2>3. \A t \in Slots : pc'[t] # "idle" => pc'[t] = pc[t] /\ task'[t] = task[t]
    BY <1>6 DEF CompleteJob, FailJob, Free
  <2> QED BY <2>1, <2>2, <2>3
<1>7. CASE ReadDelivery(s) \/ LinkProviderMessage(s) \/ ProviderRejects(s) \/ DatabaseFails(s)
           \/ Crash(s)
  <2>1. UNCHANGED <<status, mails, emitted, ensure, job>>
    BY <1>7 DEF ReadDelivery, LinkProviderMessage, ProviderRejects, DatabaseFails, Crash
  <2>2. \A t \in Slots :
          pc'[t] # "idle" => /\ pc[t] # "idle" /\ task'[t] = task[t]
                             /\ pc'[t] \in {"accepted", "recorded"} => pc'[t] = pc[t]
    BY <1>7 DEF ReadDelivery, LinkProviderMessage, ProviderRejects, DatabaseFails, Crash, Free
  <2> QED BY <2>1, <2>2
<1> QED BY <1>2, <1>3, <1>4, <1>5, <1>6, <1>7 DEF SlotStep, ProviderAnswers

LEMMA LifecycleDeliveryStep ==
  ASSUME TypeOK, LifecycleInv, NEW d \in Deliveries, DeliveryStep(d)
  PROVE  LifecycleInv' /\ [Lifecycle!Next]_<<status, mails>>
<1> USE DEF TypeOK, LifecycleInv, RowComesFirst, AcceptedOnce, Undecided,
            Lifecycle!Next, rowVars, jobVars, slotVars, providerVars, Callers
<1>1. CASE CreateReply(d)
  <2>1. Lifecycle!Advance(d)
    BY <1>1 DEF CreateReply, Lifecycle!Advance, Lifecycle!Rank, Lifecycle!Statuses,
                Lifecycle!Unproven
  <2>2. LifecycleInv'
    BY <1>1 DEF CreateReply
  <2> QED BY <2>1, <2>2
<1>2. CASE ResetStale(d)
  <2>1. Lifecycle!Attempt(d)
    BY <1>2 DEF ResetStale, Lifecycle!Attempt
  <2>2. LifecycleInv'
    BY <1>2 DEF ResetStale
  <2> QED BY <2>1, <2>2
<1>3. CASE BackoffEnds(d) \/ StallOfDeadSlot(d) \/ StallOfLiveSlot(d) \/ ExpireJob(d)
  <2>1. /\ UNCHANGED <<status, mails, emitted, ensure, pc, task>>
        /\ \A e \in Deliveries : job[e] = "none" => job'[e] = "none"
    BY <1>3 DEF BackoffEnds, StallOfDeadSlot, StallOfLiveSlot, Stall, ExpireJob
  <2> QED BY <2>1
<1>4. CASE AttemptAges(d)
  BY <1>4 DEF AttemptAges
<1> QED BY <1>1, <1>2, <1>3, <1>4 DEF DeliveryStep

LEMMA LifecycleOtherStep ==
  ASSUME TypeOK, LifecycleInv,
         \/ \E s \in Slots, d \in Deliveries : TakeJob(s, d)
         \/ \E d \in Deliveries, e \in Events : ProviderEmits(d, e) \/ HandleWebhook(d, e)
         \/ \E c \in Callers, d \in Deliveries :
               EnsureEmailDeliveryQueued(c, d) \/ EnqueueFails(c, d)
         \/ ScanPending
         \/ UNCHANGED vars
  PROVE  LifecycleInv' /\ [Lifecycle!Next]_<<status, mails>>
<1> USE DEF TypeOK, LifecycleInv, RowComesFirst, AcceptedOnce, Undecided,
            rowVars, jobVars, slotVars, providerVars
<1>1. ASSUME NEW s \in Slots, NEW d \in Deliveries, TakeJob(s, d)
      PROVE  LifecycleInv' /\ UNCHANGED <<status, mails>>
  BY <1>1 DEF TakeJob, Goto
<1>2. ASSUME NEW d \in Deliveries, NEW e \in Events, ProviderEmits(d, e)
      PROVE  LifecycleInv' /\ UNCHANGED <<status, mails>>
  BY <1>2 DEF ProviderEmits
<1>3. ASSUME NEW d \in Deliveries, NEW e \in Events, HandleWebhook(d, e)
      PROVE  LifecycleInv' /\ [Lifecycle!Next]_<<status, mails>>
  <2>1. mails[d] = 1 /\ mails' = mails
    BY <1>3 DEF HandleWebhook
  <2>2. status[d] \in AllowedFrom(e) =>
          /\ EventStatus[e] \in Lifecycle!Statuses
          /\ EventStatus[e] # "NONE"
          /\ Lifecycle!Rank(EventStatus[e]) > Lifecycle!Rank(status[d])
    BY PipelineAssumption
       DEF EventStatus, EventTypes, AllowedFrom, Lifecycle!Rank, Lifecycle!Statuses
  <2>3. [Lifecycle!Advance(d)]_<<status, mails>>
    <3>1. CASE status[d] \in AllowedFrom(e)
      <4>1. status' = [status EXCEPT ![d] = EventStatus[e]]
        BY <1>3, <3>1 DEF HandleWebhook
      <4>2. /\ EventStatus[e] \in Lifecycle!Statuses
            /\ Lifecycle!Rank(EventStatus[e]) > Lifecycle!Rank(status[d])
            /\ mails[d] = 0 => EventStatus[e] \in Lifecycle!Unproven
        BY <2>1, <2>2, <3>1
      <4>3. Lifecycle!Advance(d)
        BY <2>1, <4>1, <4>2, AdvanceTo
      <4> QED BY <4>3
    <3>2. CASE status[d] \notin AllowedFrom(e)
      BY <1>3, <2>1, <3>2 DEF HandleWebhook
    <3> QED BY <3>1, <3>2
  <2>4. LifecycleInv'
    BY <1>3, <2>1, <2>2 DEF HandleWebhook
  <2> QED BY <2>3, <2>4 DEF Lifecycle!Next
<1>4. ASSUME NEW c \in Callers, NEW d \in Deliveries,
             EnsureEmailDeliveryQueued(c, d) \/ EnqueueFails(c, d)
      PROVE  LifecycleInv' /\ UNCHANGED <<status, mails>>
  <2>1. status[d] # "NONE"
    BY <1>4 DEF EnsureEmailDeliveryQueued, InspectJob, RetryFailedJob,
                RemoveCompletedJob, AddJob, EnqueueFails
  <2>2. UNCHANGED <<status, mails, emitted, pc, task>>
    BY <1>4 DEF EnsureEmailDeliveryQueued, InspectJob, RetryFailedJob,
                RemoveCompletedJob, AddJob, EnqueueFails
  <2>3. \A e \in Deliveries \ {d} : job'[e] = job[e]
    BY <1>4 DEF EnsureEmailDeliveryQueued, InspectJob, RetryFailedJob,
                RemoveCompletedJob, AddJob, EnqueueFails
  <2>4. \A e \in Deliveries \ {d} : \A b \in Callers : ensure'[b][e] = ensure[b][e]
    <3>1. CASE InspectJob(c, d)          BY <3>1 DEF InspectJob
    <3>2. CASE RetryFailedJob(c, d)      BY <3>2 DEF RetryFailedJob
    <3>3. CASE RemoveCompletedJob(c, d)  BY <3>3 DEF RemoveCompletedJob
    <3>4. CASE AddJob(c, d)              BY <3>4 DEF AddJob
    <3>5. CASE EnqueueFails(c, d)        BY <3>5 DEF EnqueueFails
    <3> QED BY <1>4, <3>1, <3>2, <3>3, <3>4, <3>5 DEF EnsureEmailDeliveryQueued
  <2> QED BY <2>1, <2>2, <2>3, <2>4
<1>5. ASSUME ScanPending PROVE LifecycleInv' /\ UNCHANGED <<status, mails>>
  BY <1>5 DEF ScanPending, Oldest, PendingRows, Callers
<1>6. ASSUME UNCHANGED vars PROVE LifecycleInv' /\ UNCHANGED <<status, mails>>
  BY <1>6 DEF vars
<1> QED BY <1>1, <1>2, <1>3, <1>4, <1>5, <1>6

LEMMA LifecycleStep ==
  TypeOK /\ LifecycleInv /\ [Next]_vars
    => LifecycleInv' /\ [Lifecycle!Next]_<<status, mails>>
BY LifecycleSlotStep, LifecycleDeliveryStep, LifecycleOtherStep DEF Next

LEMMA LifecycleInit == Init => LifecycleInv /\ Lifecycle!Init
BY DEF Init, LifecycleInv, RowComesFirst, AcceptedOnce, Undecided, Lifecycle!Init, Callers

\* The pipeline implements the lifecycle: whatever fails and in whatever order,
\* no progress is undone, and a delivery that says sent was accepted, once.
THEOREM PipelineImplementsLifecycle == Spec => ImplementsLifecycle
BY LifecycleInit, LifecycleStep, TypeCorrect, PTL
   DEF Spec, ImplementsLifecycle, Lifecycle!Spec, Lifecycle!vars

-----------------------------------------------------------------------------
(* Webhooks.                                                                 *)

LEMMA RankNeverFalls ==
  ASSUME TypeOK, [Lifecycle!Next]_<<status, mails>>, NEW d \in Deliveries
  PROVE  Lifecycle!Rank(status'[d]) >= Lifecycle!Rank(status[d])
<1>1. \A st : Lifecycle!Rank(st) \in Nat
  BY DEF Lifecycle!Rank
<1>2. ASSUME NEW e \in Deliveries, Lifecycle!Attempt(e)
      PROVE  Lifecycle!Rank(status'[d]) >= Lifecycle!Rank(status[d])
  BY <1>2 DEF Lifecycle!Attempt, Lifecycle!Rank, TypeOK
<1>3. ASSUME NEW e \in Deliveries, Lifecycle!Advance(e)
      PROVE  Lifecycle!Rank(status'[d]) >= Lifecycle!Rank(status[d])
  BY <1>1, <1>3 DEF Lifecycle!Advance, TypeOK
<1>4. ASSUME status' = status
      PROVE  Lifecycle!Rank(status'[d]) >= Lifecycle!Rank(status[d])
  BY <1>1, <1>4
<1> QED BY <1>2, <1>3, <1>4 DEF Lifecycle!Next, Lifecycle!Mail

LEMMA WebhookStep ==
  ASSUME TypeOK, LifecycleInv, WebhooksAreNotUndone, [Next]_vars
  PROVE  WebhooksAreNotUndone'
<1>1. [Lifecycle!Next]_<<status, mails>>
  BY LifecycleStep
<1>2. \A st : Lifecycle!Rank(st) \in Nat
  BY DEF Lifecycle!Rank
<1>3. ASSUME UNCHANGED processed PROVE WebhooksAreNotUndone'
  <2> SUFFICES ASSUME NEW d \in Deliveries, NEW e \in processed[d]
               PROVE  Lifecycle!Rank(status'[d]) >= Lifecycle!Rank(EventStatus[e])
    BY <1>3 DEF WebhooksAreNotUndone
  <2>1. Lifecycle!Rank(status'[d]) >= Lifecycle!Rank(status[d])
    BY <1>1, RankNeverFalls
  <2> QED BY <2>1, <1>2 DEF WebhooksAreNotUndone
<1>4. ASSUME NEW d \in Deliveries, NEW e \in Events, HandleWebhook(d, e)
      PROVE  WebhooksAreNotUndone'
  <2>1. status[d] \in Statuses
    BY <1>4 DEF HandleWebhook, LifecycleInv, RowComesFirst, AcceptedOnce, TypeOK
  <2>2. Lifecycle!Rank(status'[d]) >= Lifecycle!Rank(EventStatus[e])
    <3>1. status'[d] = IF status[d] \in AllowedFrom(e) THEN EventStatus[e] ELSE status[d]
      BY <1>4 DEF HandleWebhook, TypeOK
    <3>2. status[d] \notin AllowedFrom(e) =>
            Lifecycle!Rank(status[d]) >= Lifecycle!Rank(EventStatus[e])
      BY <2>1, PipelineAssumption
         DEF Statuses, AllowedFrom, EventStatus, EventTypes, Lifecycle!Rank
    <3> QED BY <3>1, <3>2, <1>2
  <2> SUFFICES ASSUME NEW x \in Deliveries, NEW y \in processed'[x]
               PROVE  Lifecycle!Rank(status'[x]) >= Lifecycle!Rank(EventStatus[y])
    BY DEF WebhooksAreNotUndone
  <2>3. CASE x = d /\ y = e
    BY <2>2, <2>3
  <2>4. CASE ~ (x = d /\ y = e)
    <3>1. y \in processed[x]
      BY <1>4, <2>4 DEF HandleWebhook, TypeOK
    <3>2. Lifecycle!Rank(status'[x]) >= Lifecycle!Rank(status[x])
      BY <1>1, RankNeverFalls
    <3> QED BY <3>1, <3>2, <1>2 DEF WebhooksAreNotUndone
  <2> QED BY <2>3, <2>4
<1>5. UNCHANGED processed \/ \E d \in Deliveries, e \in Events : HandleWebhook(d, e)
  BY DEF Next, vars, SlotStep, ProviderAnswers, ReadDelivery, ClaimDelivery,
         ProviderAccepts, ProviderUnavailable, ProviderRejects, RecordSent,
         LinkProviderMessage, RecordFailure, CompleteJob, FailJob, DatabaseFails, Crash,
         TakeJob, DeliveryStep, CreateReply, ResetStale, BackoffEnds, StallOfDeadSlot,
         StallOfLiveSlot, Stall, ExpireJob, AttemptAges, ProviderEmits,
         EnsureEmailDeliveryQueued, InspectJob, RetryFailedJob, RemoveCompletedJob,
         AddJob, EnqueueFails, ScanPending
<1> QED BY <1>3, <1>4, <1>5

\* However late, repeated or out of order webhooks arrive, and whatever the
\* worker and recovery do meanwhile, what a processed event said stays said.
THEOREM ProcessedWebhooksStand == Spec => []WebhooksAreNotUndone
<1>1. Init => WebhooksAreNotUndone
  BY DEF Init, WebhooksAreNotUndone
<1>2. TypeOK /\ LifecycleInv /\ [Next]_vars => LifecycleInv'
  BY LifecycleStep
<1>3. TypeOK /\ LifecycleInv /\ WebhooksAreNotUndone /\ [Next]_vars => WebhooksAreNotUndone'
  BY WebhookStep
<1> QED BY <1>1, <1>2, <1>3, LifecycleInit, TypeCorrect, PTL DEF Spec

-----------------------------------------------------------------------------
(* The provider's email is named.                                            *)

\* No step unlinks a row or makes it speak for the provider unlinked.
LEMMA LinkStep ==
  ASSUME TypeOK, ProviderStatusIsLinked, [Next]_vars
  PROVE  ProviderStatusIsLinked'
<1> USE DEF ProviderStatusIsLinked, Undecided
<1>1. CASE UNCHANGED <<status, linked>>
  BY <1>1
<1>2. ASSUME NEW s \in Slots, SlotStep(s)
      PROVE  ProviderStatusIsLinked'
  <2>1. pc[s] # "idle" => task[s] \in Deliveries
    BY DEF TypeOK
  <2>2. CASE ClaimDelivery(s)
    BY <2>1, <2>2 DEF ClaimDelivery, TypeOK
  <2>3. CASE RecordSent(s)
    BY <2>1, <2>3 DEF RecordSent, SetFromSending, TypeOK
  <2>4. CASE LinkProviderMessage(s)
    BY <2>1, <2>4 DEF LinkProviderMessage, TypeOK
  <2>5. CASE RecordFailure(s)
    BY <2>1, <2>5 DEF RecordFailure, SetFromSending, TypeOK
  <2>6. CASE ~ (\/ ClaimDelivery(s) \/ RecordSent(s)
                \/ LinkProviderMessage(s) \/ RecordFailure(s))
    BY <1>1, <1>2, <2>6 DEF SlotStep, ReadDelivery, ProviderAnswers, ProviderAccepts,
       ProviderUnavailable, ProviderRejects, CompleteJob, FailJob, rowVars
  <2> QED BY <2>2, <2>3, <2>4, <2>5, <2>6
<1>3. ASSUME NEW d \in Deliveries, CreateReply(d) \/ ResetStale(d)
      PROVE  ProviderStatusIsLinked'
  BY <1>3 DEF CreateReply, ResetStale, TypeOK
<1>4. ASSUME NEW d \in Deliveries, NEW e \in Events, HandleWebhook(d, e)
      PROVE  ProviderStatusIsLinked'
  <2>1. \A x \in Deliveries \ {d} : status'[x] = status[x] /\ linked'[x] = linked[x]
    BY <1>4 DEF HandleWebhook, TypeOK
  <2>2. linked'[d]
    BY <1>4 DEF HandleWebhook, TypeOK
  <2> QED BY <2>1, <2>2
<1>5. \/ UNCHANGED <<status, linked>>
      \/ \E s \in Slots : SlotStep(s)
      \/ \E d \in Deliveries : CreateReply(d) \/ ResetStale(d)
      \/ \E d \in Deliveries, e \in Events : HandleWebhook(d, e)
  BY DEF Next, vars, rowVars, DatabaseFails, Crash, TakeJob, DeliveryStep, BackoffEnds,
         StallOfDeadSlot, StallOfLiveSlot, Stall, ExpireJob, AttemptAges, ProviderEmits,
         EnsureEmailDeliveryQueued, InspectJob, RetryFailedJob, RemoveCompletedJob,
         AddJob, EnqueueFails, ScanPending
<1> QED BY <1>1, <1>2, <1>3, <1>4, <1>5

\* Whatever a row says of an accepted email, later webhooks without tags find it.
THEOREM ProviderStatusLinked == Spec => []ProviderStatusIsLinked
<1>1. Init => ProviderStatusIsLinked
  BY DEF Init, ProviderStatusIsLinked
<1> QED BY <1>1, LinkStep, TypeCorrect, PTL DEF Spec

=============================================================================
