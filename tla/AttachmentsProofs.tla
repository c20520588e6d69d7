-------------------------- MODULE AttachmentsProofs --------------------------
(***************************************************************************)
(* Theorems about Attachments, for any number of attachments, requests,    *)
(* messages and faults.                                                    *)
(***************************************************************************)

EXTENDS Attachments, TLAPS

-----------------------------------------------------------------------------
(* Types.                                                                    *)

LEMMA InitTypeOK == Init => TypeOK
  BY AttachmentsAssumption DEF Init, TypeOK

LEMMA NextTypeOK ==
  ASSUME TypeOK, [Next]_vars
  PROVE  TypeOK'
<1> USE AttachmentsAssumption DEF TypeOK, rowVars, storeVars, requestVars, messageVars,
        cleanupVars, RequestAt, Fault
<1>1. ASSUME NEW a \in Attachments,
             InitiateUpload(a) \/ SignUrl(a) \/ PutObject(a) \/ UrlExpires(a) \/ Grow(a)
      PROVE  TypeOK'
  <2>1. CASE InitiateUpload(a)
    BY <2>1 DEF InitiateUpload
  <2>2. CASE SignUrl(a)
    BY <2>2 DEF SignUrl
  <2>3. CASE PutObject(a)
    BY <2>3 DEF PutObject
  <2>4. CASE UrlExpires(a)
    BY <2>4 DEF UrlExpires
  <2>5. CASE Grow(a)
    BY <2>5 DEF Grow
  <2> QED BY <1>1, <2>1, <2>2, <2>3, <2>4, <2>5
<1>2. ASSUME NEW r \in Requests, RequestStep(r) \/ RequestFails(r)
      PROVE  TypeOK'
  <2>1. CASE HeadObject(r)
    BY <2>1 DEF HeadObject
  <2>2. CASE MarkUploaded(r)
    BY <2>2 DEF MarkUploaded
  <2>3. CASE RejectObject(r)
    BY <2>3 DEF RejectObject
  <2>4. CASE RejectRow(r)
    BY <2>4 DEF RejectRow
  <2>5. CASE RequestFails(r)
    BY <2>5 DEF RequestFails
  <2> QED BY <1>2, <2>1, <2>2, <2>3, <2>4, <2>5 DEF RequestStep
<1>3. ASSUME NEW r \in Requests, NEW a \in Attachments, ReadAttachment(r, a)
      PROVE  TypeOK'
  BY <1>3 DEF ReadAttachment
<1>4. ASSUME NEW m \in Messages, CheckAttachments(m) \/ LinkAttachments(m)
      PROVE  TypeOK'
  <2>1. CASE CheckAttachments(m)
    BY <2>1 DEF CheckAttachments
  <2>2. CASE LinkAttachments(m)
    BY <2>2 DEF LinkAttachments, Available
  <2> QED BY <1>4, <2>1, <2>2
<1>5. CASE FindCandidates
  BY <1>5 DEF FindCandidates, Candidates
<1>6. ASSUME NEW a \in Attachments, DeleteObject(a)
      PROVE  TypeOK'
  BY <1>6 DEF DeleteObject
<1>7. CASE DeleteRow
  BY <1>7 DEF DeleteRow
<1>8. CASE SkipCandidate
  BY <1>8 DEF SkipCandidate
<1>9. CASE UNCHANGED vars
  BY <1>9 DEF vars
<1> QED BY <1>1, <1>2, <1>3, <1>4, <1>5, <1>6, <1>7, <1>8, <1>9 DEF Next, CleanupStep

\* The values the variables take, and that only uploaded attachments are linked.
THEOREM TypeCorrect == Spec => []TypeOK
  BY InitTypeOK, NextTypeOK, PTL DEF Spec

-----------------------------------------------------------------------------
(* Messages keep their attachments.                                          *)

LinksStand ==
  \A m \in Messages : mpc[m] = "sent" => \A a \in want[m] : link[a] = m

\* Only LinkAttachments changes a link, and only of attachments without one.
THEOREM AttachmentsStay == Spec => []MessagesKeepTheirAttachments
<1>1. Init => LinksStand
  BY DEF Init, LinksStand
<1>2. ASSUME TypeOK, LinksStand, [Next]_vars PROVE LinksStand'
  <2>1. CASE UNCHANGED <<link, mpc, want>>
    BY <1>2, <2>1 DEF LinksStand
  <2>2. ASSUME NEW m \in Messages, CheckAttachments(m) PROVE LinksStand'
    BY <1>2, <2>2 DEF CheckAttachments, LinksStand, TypeOK, rowVars
  <2>3. ASSUME NEW m \in Messages, LinkAttachments(m) PROVE LinksStand'
    <3>1. CASE \A a \in want[m] : Available(a)
      <4>1. /\ link' = [a \in Attachments |-> IF a \in want[m] THEN m ELSE link[a]]
            /\ mpc' = [mpc EXCEPT ![m] = "sent"]
            /\ want' = want
        BY <2>3, <3>1 DEF LinkAttachments
      <4>2. ASSUME NEW n \in Messages, mpc'[n] = "sent", NEW a \in want[n]
            PROVE  link'[a] = n
        <5>1. CASE n = m
          BY <1>2, <4>1, <5>1 DEF TypeOK
        <5>2. CASE n # m
          <6>1. link[a] = n /\ a \in Attachments
            BY <1>2, <4>1, <4>2, <5>2 DEF LinksStand, TypeOK
          <6>2. a \notin want[m]
            BY <3>1, <6>1, AttachmentsAssumption DEF Available
          <6> QED BY <4>1, <6>1, <6>2
        <5> QED BY <5>1, <5>2
      <4> QED BY <4>1, <4>2 DEF LinksStand
    <3>2. CASE ~ \A a \in want[m] : Available(a)
      BY <1>2, <2>3, <3>2 DEF LinkAttachments, LinksStand, TypeOK
    <3> QED BY <3>1, <3>2
  <2> QED
    BY <1>2, <2>1, <2>2, <2>3 DEF Next, RequestStep, CleanupStep, vars, rowVars, messageVars,
       InitiateUpload, SignUrl, PutObject, UrlExpires, Grow, HeadObject, MarkUploaded,
       RejectObject, RejectRow, RequestFails, ReadAttachment, FindCandidates, DeleteObject,
       DeleteRow, SkipCandidate
<1>3. TypeOK /\ LinksStand => MessagesKeepTheirAttachments
  BY AttachmentsAssumption DEF TypeOK, LinksStand, MessagesKeepTheirAttachments
<1> QED BY TypeCorrect, <1>1, <1>2, <1>3, PTL DEF Spec

-----------------------------------------------------------------------------
(* Stored objects are known, if clients PUT once.                            *)

\* A URL that was not used yet has a row and no object; it is not signed again.
FreshUrls ==
  \A a \in Attachments :
    /\ url[a] = "fresh" => row[a] = "PENDING" /\ object[a] = "none"
    /\ url[a] = "none" => object[a] = "none"
    /\ url[a] \in {"fresh", "used"} => age[a] = 0

\* A request that has seen an object knows that no other one will be stored.
RequestsSawThePut ==
  \A r \in Requests :
    /\ rpc[r] \in {"checked", "rejecting", "removing"} => url[ratt[r]] \in {"used", "expired"}
    /\ rpc[r] = "removing" => object[ratt[r]] = "none"

\* Cleanup only looks at rows whose URLs have expired.
CleanupIsLate ==
  /\ \A a \in todo : age[a] > 0
  /\ deleting # None => age[deleting] > 0 /\ object[deleting] = "none"

KnownInv ==
  ~ RetriedPuts => StoredObjectsAreKnown /\ FreshUrls /\ RequestsSawThePut /\ CleanupIsLate

LEMMA KnownStep ==
  ASSUME TypeOK, KnownInv, [Next]_vars
  PROVE  KnownInv'
<1> SUFFICES ASSUME ~ RetriedPuts
             PROVE  (StoredObjectsAreKnown /\ FreshUrls /\ RequestsSawThePut /\ CleanupIsLate)'
  BY DEF KnownInv
<1> USE AttachmentsAssumption DEF TypeOK, KnownInv, StoredObjectsAreKnown, FreshUrls,
        RequestsSawThePut, CleanupIsLate, rowVars, storeVars, requestVars, messageVars,
        cleanupVars, RequestAt, Fault
<1>1. ASSUME NEW a \in Attachments, InitiateUpload(a)
      PROVE  KnownInv'
  BY <1>1 DEF InitiateUpload
<1>2. ASSUME NEW a \in Attachments, SignUrl(a)
      PROVE  KnownInv'
  BY <1>2 DEF SignUrl
<1>3. ASSUME NEW a \in Attachments, PutObject(a)
      PROVE  KnownInv'
  BY <1>3 DEF PutObject
<1>4. ASSUME NEW a \in Attachments, UrlExpires(a)
      PROVE  KnownInv'
  BY <1>4 DEF UrlExpires
<1>5. ASSUME NEW a \in Attachments, Grow(a)
      PROVE  KnownInv'
  BY <1>5 DEF Grow
<1>6. ASSUME NEW r \in Requests, HeadObject(r)
      PROVE  KnownInv'
  BY <1>6 DEF HeadObject
<1>7. ASSUME NEW r \in Requests, MarkUploaded(r)
      PROVE  KnownInv'
  BY <1>7 DEF MarkUploaded
<1>8. ASSUME NEW r \in Requests, RejectObject(r)
      PROVE  KnownInv'
  BY <1>8 DEF RejectObject
<1>9. ASSUME NEW r \in Requests, RejectRow(r)
      PROVE  KnownInv'
  BY <1>9 DEF RejectRow
<1>10. ASSUME NEW r \in Requests, RequestFails(r)
      PROVE  KnownInv'
  BY <1>10 DEF RequestFails
<1>11. ASSUME NEW r \in Requests, NEW a \in Attachments, ReadAttachment(r, a)
      PROVE  KnownInv'
  BY <1>11 DEF ReadAttachment
<1>12. ASSUME NEW m \in Messages, CheckAttachments(m) \/ LinkAttachments(m)
      PROVE  KnownInv'
  BY <1>12 DEF CheckAttachments, LinkAttachments
<1>13. CASE FindCandidates
  BY <1>13 DEF FindCandidates, Candidates, Available
<1>14. ASSUME NEW a \in Attachments, DeleteObject(a)
      PROVE  KnownInv'
  BY <1>14 DEF DeleteObject
<1>15. CASE DeleteRow
  BY <1>15 DEF DeleteRow
<1>16. CASE SkipCandidate
  BY <1>16 DEF SkipCandidate
<1>17. CASE UNCHANGED vars
  BY <1>17 DEF vars
<1> QED BY <1>1, <1>2, <1>3, <1>4, <1>5, <1>6, <1>7, <1>8, <1>9, <1>10, <1>11, <1>12, <1>13,
           <1>14, <1>15, <1>16, <1>17 DEF Next, RequestStep, CleanupStep

\* An object that a late answer or a late cleanup deals with cannot come back.
THEOREM ObjectsAreKnown == Spec => []StoredObjectsAreKnown
<1>1. Init => KnownInv
  BY DEF Init, KnownInv, StoredObjectsAreKnown, FreshUrls, RequestsSawThePut, CleanupIsLate
<1>2. KnownInv => StoredObjectsAreKnown
  BY DEF KnownInv, StoredObjectsAreKnown
<1> QED BY TypeCorrect, KnownStep, <1>1, <1>2, PTL DEF Spec

-----------------------------------------------------------------------------
(* Linked objects are stored, if clients PUT once and are not late.          *)

\* With orderly clients, an upload that a message has, or may still get, has the
\* object that was checked.
UploadsAreStored ==
  \A a \in Attachments :
    row[a] = "UPLOADED" /\ (age[a] < 2 \/ link[a] # None) => object[a] = "right"

\* Nothing is under way for an attachment that is older than an hour, and what
\* a request found is still there.
RequestsAreInTime ==
  /\ \A r \in Requests :
        /\ rpc[r] # "idle" => age[ratt[r]] = 0
        /\ rpc[r] = "checked" => object[ratt[r]] = "right"
        /\ rpc[r] \in {"rejecting", "removing"} => object[ratt[r]] # "right"
  /\ \A m \in Messages : mpc[m] = "checked" => \A a \in want[m] : age[a] = 0

\* What cleanup has chosen stays unlinked.
CleanupIsRight ==
  \A a \in Attachments : a \in todo \/ a = deleting =>
    link[a] = None /\ (row[a] = "UPLOADED" => age[a] = 2)

StoredInv ==
  ~ RetriedPuts /\ ~ LateClients => UploadsAreStored /\ RequestsAreInTime /\ CleanupIsRight

LEMMA StoredStep ==
  ASSUME TypeOK, KnownInv, StoredInv, [Next]_vars
  PROVE  StoredInv'
<1> SUFFICES ASSUME ~ RetriedPuts, ~ LateClients
             PROVE  (UploadsAreStored /\ RequestsAreInTime /\ CleanupIsRight)'
  BY DEF StoredInv
<1> USE AttachmentsAssumption DEF TypeOK, KnownInv, StoredObjectsAreKnown, FreshUrls,
        RequestsSawThePut, CleanupIsLate, StoredInv, UploadsAreStored, RequestsAreInTime,
        CleanupIsRight, rowVars, storeVars, requestVars, messageVars, cleanupVars,
        RequestAt, Fault
<1>1. ASSUME NEW a \in Attachments, InitiateUpload(a)
      PROVE  StoredInv'
  BY <1>1 DEF InitiateUpload
<1>2. ASSUME NEW a \in Attachments, SignUrl(a)
      PROVE  StoredInv'
  BY <1>2 DEF SignUrl
<1>3. ASSUME NEW a \in Attachments, PutObject(a)
      PROVE  StoredInv'
  BY <1>3 DEF PutObject
<1>4. ASSUME NEW a \in Attachments, UrlExpires(a)
      PROVE  StoredInv'
  BY <1>4 DEF UrlExpires
<1>5. ASSUME NEW a \in Attachments, Grow(a)
      PROVE  StoredInv'
  BY <1>5 DEF Grow, NotRequested
<1>6. ASSUME NEW r \in Requests, HeadObject(r)
      PROVE  StoredInv'
  BY <1>6 DEF HeadObject
<1>7. ASSUME NEW r \in Requests, MarkUploaded(r)
      PROVE  StoredInv'
  BY <1>7 DEF MarkUploaded
<1>8. ASSUME NEW r \in Requests, RejectObject(r)
      PROVE  StoredInv'
  BY <1>8 DEF RejectObject
<1>9. ASSUME NEW r \in Requests, RejectRow(r)
      PROVE  StoredInv'
  BY <1>9 DEF RejectRow
<1>10. ASSUME NEW r \in Requests, RequestFails(r)
      PROVE  StoredInv'
  BY <1>10 DEF RequestFails
<1>11. ASSUME NEW r \in Requests, NEW a \in Attachments, ReadAttachment(r, a)
      PROVE  StoredInv'
  BY <1>11 DEF ReadAttachment, InTime
<1>12. ASSUME NEW m \in Messages, CheckAttachments(m)
      PROVE  StoredInv'
  BY <1>12 DEF CheckAttachments, InTime
<1>13. ASSUME NEW m \in Messages, LinkAttachments(m)
      PROVE  StoredInv'
  BY <1>13 DEF LinkAttachments, Available
<1>14. CASE FindCandidates
  BY <1>14 DEF FindCandidates, Candidates, Available
<1>15. ASSUME NEW a \in Attachments, DeleteObject(a)
      PROVE  StoredInv'
  BY <1>15 DEF DeleteObject
<1>16. CASE DeleteRow
  BY <1>16 DEF DeleteRow
<1>17. CASE SkipCandidate
  BY <1>17 DEF SkipCandidate
<1>18. CASE UNCHANGED vars
  BY <1>18 DEF vars
<1> QED BY <1>1, <1>2, <1>3, <1>4, <1>5, <1>6, <1>7, <1>8, <1>9, <1>10, <1>11, <1>12, <1>13,
           <1>14, <1>15, <1>16, <1>17, <1>18 DEF Next, RequestStep, CleanupStep

\* What completeUpload checked is what a reader of the message downloads.
THEOREM LinkedAreStored == Spec => []LinkedObjectsAreStored
<1>1. Init => KnownInv /\ StoredInv
  BY DEF Init, KnownInv, StoredObjectsAreKnown, FreshUrls, RequestsSawThePut, CleanupIsLate,
         StoredInv, UploadsAreStored, RequestsAreInTime, CleanupIsRight
<1>2. TypeOK /\ StoredInv => LinkedObjectsAreStored
  BY DEF TypeOK, StoredInv, UploadsAreStored, LinkedObjectsAreStored
<1> QED BY TypeCorrect, KnownStep, StoredStep, <1>1, <1>2, PTL DEF Spec

=============================================================================
