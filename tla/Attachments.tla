----------------------------- MODULE Attachments -----------------------------
(***************************************************************************)
(* Attachments live in two stores that share no transaction: a row in      *)
(* PostgreSQL and an object in R2 under the row's key.  The browser writes *)
(* the object itself, through a signed URL; AttachmentsService.            *)
(* completeUpload checks it, TicketsService.createMessage links it to a    *)
(* message, and the maintenance worker removes what was abandoned.         *)
(***************************************************************************)

EXTENDS Naturals

CONSTANTS
  Attachments,   (* attachment ids, each used for one initiated upload     *)
  Requests,      (* concurrent completeUpload requests                     *)
  Messages,      (* messages being created with attachments                *)
  None,          (* no message, no attachment                              *)
  RetriedPuts,   (* does the browser PUT to one URL more than once?        *)
  LateClients,   (* are uploads completed or linked after an hour or more? *)
  MaxFaults      (* bound: failed storage and database calls, crashes      *)

ASSUME AttachmentsAssumption ==
  /\ None \notin Attachments \cup Messages
  /\ RetriedPuts \in BOOLEAN
  /\ LateClients \in BOOLEAN
  /\ MaxFaults \in Nat

VARIABLES
  row,           (* Attachment.status, "none" without a row                *)
  link,          (* Attachment.messageId                                   *)
  age,           (* 0, 1: older than an hour, 2: older than a day          *)
  object,        (* what R2 holds: the right object, a wrong one, or none  *)
  url,           (* the signed upload URL                                  *)
  rpc, ratt,     (* each completeUpload request, and its attachment        *)
  mpc, want,     (* each createMessage transaction, and its attachmentIds  *)
  todo,          (* cleanup: candidates not yet looked at                  *)
  deleting,      (* cleanup: the candidate whose object is deleted         *)
  faults         (* faults so far                                          *)

rowVars     == <<row, link, age>>
storeVars   == <<object, url>>
requestVars == <<rpc, ratt>>
messageVars == <<mpc, want>>
cleanupVars == <<todo, deleting>>
vars == <<rowVars, storeVars, requestVars, messageVars, cleanupVars, faults>>

Init ==
  /\ row      = [a \in Attachments |-> "none"]
  /\ link     = [a \in Attachments |-> None]
  /\ age      = [a \in Attachments |-> 0]
  /\ object   = [a \in Attachments |-> "none"]
  /\ url      = [a \in Attachments |-> "none"]
  /\ rpc      = [r \in Requests |-> "idle"]
  /\ ratt     = [r \in Requests |-> None]
  /\ mpc      = [m \in Messages |-> "idle"]
  /\ want     = [m \in Messages |-> {}]
  /\ todo     = {}
  /\ deleting = None
  /\ faults   = 0

Fault == faults < MaxFaults /\ faults' = faults + 1

\* A client that is not late acts within the hour.
InTime(a) == LateClients \/ age[a] = 0

-----------------------------------------------------------------------------
(* AttachmentsService.initiateUpload: the row first, then the URL.           *)

InitiateUpload(a) ==
  /\ row[a] = "none" /\ url[a] = "none" /\ age[a] = 0
  /\ row' = [row EXCEPT ![a] = "PENDING"]
  /\ UNCHANGED <<link, age, storeVars, requestVars, messageVars, cleanupVars, faults>>

\* When signing fails the row is left PENDING without a URL.
SignUrl(a) ==
  /\ row[a] = "PENDING" /\ url[a] = "none" /\ age[a] = 0
  /\ url' = [url EXCEPT ![a] = "fresh"]
  /\ UNCHANGED <<rowVars, object, requestVars, messageVars, cleanupVars, faults>>

\* The URL fixes key, type and attachment-id, not the size.
PutObject(a) ==
  /\ url[a] = "fresh" \/ (url[a] = "used" /\ RetriedPuts)
  /\ url' = [url EXCEPT ![a] = "used"]
  /\ \E content \in {"right", "wrong"} : object' = [object EXCEPT ![a] = content]
  /\ UNCHANGED <<rowVars, requestVars, messageVars, cleanupVars, faults>>

\* expiresInSeconds: five minutes
UrlExpires(a) ==
  /\ url[a] \in {"fresh", "used"}
  /\ url' = [url EXCEPT ![a] = "expired"]
  /\ UNCHANGED <<rowVars, object, requestVars, messageVars, cleanupVars, faults>>

-----------------------------------------------------------------------------
(* AttachmentsService.completeUpload.                                        *)

RequestAt(r, from, to) == rpc[r] = from /\ rpc' = [rpc EXCEPT ![r] = to]

\* A missing row is a 404 and an UPLOADED one returned as it is: no effect.
ReadAttachment(r, a) ==
  /\ row[a] = "PENDING"
  /\ InTime(a)
  /\ RequestAt(r, "idle", "read")
  /\ ratt' = [ratt EXCEPT ![r] = a]
  /\ UNCHANGED <<rowVars, storeVars, messageVars, cleanupVars, faults>>

HeadObject(r) ==
  /\ RequestAt(r, "read", CASE object[ratt[r]] = "none"  -> "idle"
                            [] object[ratt[r]] = "right" -> "checked"
                            [] object[ratt[r]] = "wrong" -> "rejecting")
  /\ UNCHANGED <<rowVars, storeVars, ratt, messageVars, cleanupVars, faults>>

\* updateMany where status = PENDING; the request reports what it finds after.
MarkUploaded(r) ==
  /\ RequestAt(r, "checked", "idle")
  /\ row' = [row EXCEPT ![ratt[r]] = IF @ = "PENDING" THEN "UPLOADED" ELSE @]
  /\ UNCHANGED <<link, age, storeVars, ratt, messageVars, cleanupVars, faults>>

\* Mutant of RejectObject: a rejected object is left where it is.
RejectObjectKept(r) ==
  /\ RequestAt(r, "rejecting", "removing")
  /\ UNCHANGED <<rowVars, storeVars, ratt, messageVars, cleanupVars, faults>>

\* rejectInvalidUpload: the object, then the row if it is still PENDING.
RejectObject(r) ==
  /\ RequestAt(r, "rejecting", "removing")
  /\ object' = [object EXCEPT ![ratt[r]] = "none"]
  /\ UNCHANGED <<rowVars, url, ratt, messageVars, cleanupVars, faults>>

RejectRow(r) ==
  /\ RequestAt(r, "removing", "idle")
  /\ row' = [row EXCEPT ![ratt[r]] = IF @ = "PENDING" THEN "none" ELSE @]
  /\ UNCHANGED <<link, age, storeVars, ratt, messageVars, cleanupVars, faults>>

\* An error of either delete is swallowed, any other ends the request.
RequestFails(r) ==
  /\ rpc[r] # "idle"
  /\ rpc' = [rpc EXCEPT ![r] = "idle"]
  /\ Fault
  /\ UNCHANGED <<rowVars, storeVars, ratt, messageVars, cleanupVars>>

-----------------------------------------------------------------------------
(* TicketsService.createMessage with attachmentIds: one transaction, whose   *)
(* check and update another one can come between.                            *)

Available(a) == row[a] = "UPLOADED" /\ link[a] = None

CheckAttachments(m) ==
  /\ mpc[m] = "idle"
  /\ \E S \in SUBSET Attachments \ {{}} :
        /\ \A a \in S : Available(a) /\ InTime(a)
        /\ want' = [want EXCEPT ![m] = S]
  /\ mpc' = [mpc EXCEPT ![m] = "checked"]
  /\ UNCHANGED <<rowVars, storeVars, requestVars, cleanupVars, faults>>

\* Mutant of LinkAttachments: the count of linked rows is not compared.
LinkAttachmentsSome(m) ==
  /\ mpc[m] = "checked"
  /\ mpc' = [mpc EXCEPT ![m] = "sent"]
  /\ link' = [a \in Attachments |-> IF a \in want[m] /\ Available(a) THEN m ELSE link[a]]
  /\ UNCHANGED <<row, age, storeVars, requestVars, want, cleanupVars, faults>>

\* The update repeats the check; if it misses a row the transaction is undone.
LinkAttachments(m) ==
  /\ mpc[m] = "checked"
  /\ IF \A a \in want[m] : Available(a)
     THEN /\ mpc' = [mpc EXCEPT ![m] = "sent"]
          /\ link' = [a \in Attachments |-> IF a \in want[m] THEN m ELSE link[a]]
     ELSE /\ mpc' = [mpc EXCEPT ![m] = "refused"]
          /\ UNCHANGED link
  /\ UNCHANGED <<row, age, storeVars, requestVars, want, cleanupVars, faults>>

-----------------------------------------------------------------------------
(* AttachmentsService.cleanupAbandonedUploads, run by the one maintenance    *)
(* worker every 15 minutes.                                                  *)

\* Mutant of Candidates: a completed upload is fair game at once.
CandidatesOfAnyAge == {a \in Attachments : \/ row[a] = "PENDING" /\ age[a] >= 1
                                           \/ Available(a)}

\* Mutant of Candidates: a completed upload is thought to be in use.
CandidatesPending == {a \in Attachments : row[a] = "PENDING" /\ age[a] >= 1}

\* PENDING_UPLOAD_MAX_AGE_MS, UNLINKED_UPLOAD_MAX_AGE_MS
Candidates == {a \in Attachments : \/ row[a] = "PENDING" /\ age[a] >= 1
                                   \/ Available(a) /\ age[a] = 2}

FindCandidates ==
  /\ todo = {} /\ deleting = None
  /\ Candidates # {}
  /\ todo' = Candidates
  /\ UNCHANGED <<rowVars, storeVars, requestVars, messageVars, deleting, faults>>

DeleteObject(a) ==
  /\ a \in todo /\ deleting = None
  /\ todo' = todo \ {a}
  /\ deleting' = a
  /\ object' = [object EXCEPT ![a] = "none"]
  /\ UNCHANGED <<rowVars, url, requestVars, messageVars, faults>>

\* Mutant of DeleteRow: the row is deleted by its id only.
DeleteRowById ==
  /\ deleting # None
  /\ row' = [row EXCEPT ![deleting] = "none"]
  /\ deleting' = None
  /\ UNCHANGED <<link, age, storeVars, requestVars, messageVars, todo, faults>>

\* deleteMany where messageId is null
DeleteRow ==
  /\ deleting # None
  /\ row' = [row EXCEPT ![deleting] = IF link[deleting] = None THEN "none" ELSE @]
  /\ deleting' = None
  /\ UNCHANGED <<link, age, storeVars, requestVars, messageVars, todo, faults>>

\* A candidate whose object or row cannot be deleted is counted and left for
\* the retry of the job, which starts a new pass; so does a crash.
SkipCandidate ==
  /\ \/ deleting # None /\ deleting' = None /\ UNCHANGED todo
     \/ deleting = None /\ (\E a \in todo : todo' = todo \ {a}) /\ UNCHANGED deleting
     \/ todo \cup {deleting} # {None} /\ todo' = {} /\ deleting' = None
  /\ Fault
  /\ UNCHANGED <<rowVars, storeVars, requestVars, messageVars>>

-----------------------------------------------------------------------------

\* No completeUpload request for the attachment is under way.
NotRequested(a) == \A r \in Requests : rpc[r] # "idle" => ratt[r] # a

\* An hour, or a day, after initiateUpload.  Upload URLs have expired, and a
\* client that is not late has nothing under way.
Grow(a) ==
  /\ row[a] # "none"
  /\ age[a] < 2
  /\ url[a] \in {"none", "expired"}
  /\ LateClients \/ /\ NotRequested(a)
                    /\ \A m \in Messages : mpc[m] = "checked" => a \notin want[m]
  /\ age' = [age EXCEPT ![a] = @ + 1]
  /\ UNCHANGED <<row, link, storeVars, requestVars, messageVars, cleanupVars, faults>>

RequestStep(r) ==
  \/ HeadObject(r)
  \/ MarkUploaded(r)
  \/ RejectObject(r)
  \/ RejectRow(r)

CleanupStep == (\E a \in Attachments : DeleteObject(a)) \/ DeleteRow

Next ==
  \/ \E a \in Attachments :
        InitiateUpload(a) \/ SignUrl(a) \/ PutObject(a) \/ UrlExpires(a) \/ Grow(a)
  \/ \E r \in Requests : RequestStep(r) \/ RequestFails(r)
  \/ \E r \in Requests, a \in Attachments : ReadAttachment(r, a)
  \/ \E m \in Messages : CheckAttachments(m) \/ LinkAttachments(m)
  \/ FindCandidates \/ CleanupStep \/ SkipCandidate

Spec == Init /\ [][Next]_vars

\* Requests under way end, a client does not start the next one before the
\* last one has ended for ever, time passes, and cleanup is scheduled again
\* and again.  Nobody has to upload, complete or link anything.
Fairness ==
  /\ \A r \in Requests : WF_vars(RequestStep(r))
  /\ \A m \in Messages : WF_vars(LinkAttachments(m))
  /\ \A a \in Attachments : WF_vars(UrlExpires(a)) /\ SF_vars(Grow(a))
  /\ \A a \in Attachments : []<>NotRequested(a)
  /\ WF_vars(FindCandidates)
  /\ WF_vars(CleanupStep)

FairSpec == Spec /\ Fairness

-----------------------------------------------------------------------------
(* Properties.                                                               *)

TypeOK ==
  /\ row \in [Attachments -> {"none", "PENDING", "UPLOADED"}]
  /\ link \in [Attachments -> Messages \cup {None}]
  /\ \A a \in Attachments : link[a] # None => row[a] = "UPLOADED"
  /\ age \in [Attachments -> 0 .. 2]
  /\ object \in [Attachments -> {"none", "right", "wrong"}]
  /\ url \in [Attachments -> {"none", "fresh", "used", "expired"}]
  /\ rpc \in [Requests -> {"idle", "read", "checked", "rejecting", "removing"}]
  /\ ratt \in [Requests -> Attachments \cup {None}]
  /\ \A r \in Requests : rpc[r] # "idle" => ratt[r] \in Attachments
  /\ mpc \in [Messages -> {"idle", "checked", "sent", "refused"}]
  /\ want \in [Messages -> SUBSET Attachments]
  /\ todo \in SUBSET Attachments
  /\ deleting \in Attachments \cup {None}
  /\ faults \in 0 .. MaxFaults

\* A message that was created has every attachment it was created with, for
\* good: no other message takes one, and neither rejection nor cleanup removes
\* the row, although both act on what they read before the link was made.
MessagesKeepTheirAttachments ==
  \A m \in Messages : mpc[m] = "sent" =>
    \A a \in want[m] : link[a] = m /\ row[a] = "UPLOADED"

\* With clients that PUT once and are not late, an attachment of a message can
\* be downloaded: its object is there and is the one completeUpload checked.
LinkedObjectsAreStored ==
  ~ RetriedPuts /\ ~ LateClients =>
    \A a \in Attachments : link[a] # None => object[a] = "right"

\* With clients that PUT once, R2 holds no object that the database does not
\* know of, since cleanup would never find it.
StoredObjectsAreKnown ==
  ~ RetriedPuts => \A a \in Attachments : object[a] # "none" => row[a] # "none"

\* With such clients every upload is linked to a message or both its row and
\* its object are removed, whatever fails on the way.
AbandonedUploadsAreRemoved ==
  \A a \in Attachments :
    row[a] # "none" ~> \/ link[a] # None
                       \/ row[a] = "none" /\ object[a] = "none"

\* docs/architecture.md: "Pending and unlinked objects are cleaned by
\* maintenance jobs".  An object that cleanup deletes is not of a message.
CleanupSparesLinkedObjects ==
  [][\A a \in Attachments : DeleteObject(a) => link[a] = None]_vars

\* docs/architecture.md, the same sentence: every stored object has a row, or
\* no maintenance job will ever find it.
EveryObjectIsKnown ==
  \A a \in Attachments : object[a] # "none" => row[a] # "none"

=============================================================================
