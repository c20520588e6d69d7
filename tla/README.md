# OpsDesk: verification project

OpsDesk is a multi-tenant help desk: a NestJS API and its background workers
(`src/apps/api`), a Next.js web application (`src/apps/web`), PostgreSQL through
Prisma, Redis with BullMQ for jobs and the Socket.IO adapter, Cloudflare R2 for
attachments, and Resend for email in both directions.  This directory holds TLA+
models of the parts in which several processes, stores or messages have to agree,
TLC configurations that check them, and TLAPS proofs about them.

Run from this directory, for example

    tlc -workers 2 -config MCEmailPipeline.cfg MCEmailPipeline
    tlapm EmailPipelineProofs.tla

`PROJECT.json` lists the runs, the theorems, the mutants of the models that each
property is known to catch, and the source lines every definition translates.

## 1. The system

### 1.1 Components

| component | state | operations | talks to |
|---|---|---|---|
| **Outbound email** (`jobs/`, `email/`) | `EmailDelivery` rows; BullMQ job `email-delivery-<id>`; `WebhookEvent` rows | create the row with the reply, ensure a job, take / claim / send / record, recover stale and pending rows, apply webhooks | Postgres, Redis, Resend, realtime |
| **Attachments** (`attachments/`, `storage/`) | `Attachment` rows; R2 objects; signed URLs | initiate, PUT by the browser, complete, reject, link to a message, clean up, download | Postgres, R2, tickets, maintenance worker |
| **Team** (`organizations/`, `members/`, `invitations/`, `tenancy/`) | `Membership`, `Invitation`, `AuditLog` rows | found, invite, cancel, accept, change a role, guard a request | Postgres, realtime |
| **Tickets, messages, tags** (`tickets/`, `tags/`) | `Ticket`, `Message`, `TicketTag` rows, lifecycle timestamps | create, edit, status, assign, tag, message, list, timeline | Postgres, outbound email, attachments, realtime |
| **Inbound email** (`email/inbound-*`) | `WebhookEvent`, `Message`, `Ticket` | verify, route by reply address, deduplicate, thread, reopen | Resend, Postgres, realtime |
| **Realtime gateway** (`realtime/`) | rooms of every socket, and the record of them | authenticate, join and leave organization and ticket rooms, revalidate, publish | Redis adapter, every service |
| **Realtime client** (`components/realtime/`) | refs of joined rooms and pending joins, TanStack Query's cache | connect, join and leave for the page shown, recover, invalidate | gateway, API |
| **Ticket page** (`lib/tickets/`, `components/tickets/`) | cached ticket and messages, mutations, the draft | change, compose, send, refetch | API, realtime client |
| **Inbox and customer list** | filter and page in the address, one cached answer per address | filter, search, page, refetch | API, realtime client |
| **Customers** (`customers/`, `components/customers/`) | `Customer` rows; the page and its form | create, update, archive, restore | Postgres, tickets |
| **Sessions, workspaces, users** (`users/`, `auth/`, `app/`, `components/organizations/`) | session, preference cookie, `User` rows, what each tab shows | sign in and out, sync the user, found, accept, switch | Auth0, API |
| **RBAC** (`rbac/`) | none: a table | role to permissions | every controller |
| **Audit** (`audit/`) | `AuditLog` rows | record inside a transaction, list by page and limit | every service |
| **Team page** (`components/team/`) | two queries, the rendered role, mutations, the invite dialog | list, invite, cancel, change a role, refresh | API |
| **Job health** (`observability/`, `health/`) | heartbeats in Redis, alerts of the monitor | beat, monitor queues, readiness | Redis |
| **Analytics** | none | aggregate queries | Postgres |
| **Configuration, rate limits, CSRF, OpenAPI** | framework state | - | - |
| **Rest of the web application, demo data** | layout, proxy, seeds | - | API |

### 1.2 What is hard

* *Two stores, no transaction.*  The delivery row is in Postgres and its job in
  Redis; the attachment row is in Postgres and its object in R2.  Every crash
  between two calls leaves them apart, and only a periodic pass (email recovery,
  attachment cleanup) brings them together.
* *Jobs run more than once.*  BullMQ gives a stalled job to another slot while the
  first one may still be at the provider, and recovery hands out rows whose attempt
  is merely slow.  The claim (`updateMany where status = PENDING`), the ten-minute
  window and the idempotency key are what keeps it one email.
* *Events in any order.*  Webhooks are repeated, delayed and reordered, and meet a
  row the worker has not finished with.
* *Checks before transactions.*  The tenancy guard's role, `cancel`'s row,
  `completeUpload`'s HEAD, cleanup's candidate list and the uniqueness of a
  customer's address are all read earlier than they are used.
* *Concurrent administrators.*  Last-owner protection, one pending invitation per
  address and the audit trail depend on Serializable transactions.
* *Awaits.*  A handler of the gateway, and the provider in the browser, go on after
  lookups and acknowledgments in a world that has changed: the socket has left, the
  connection is another one, the page is gone.
* *Caches.*  A page shows what it fetched.  Events, mutations and refetches overlap,
  and each may bring back what another one has just replaced.
* *Many tabs, one cookie.*  Tabs outlive sessions, requests for the preference
  overlap, and the first page of an account sends two requests that both create it.

### 1.3 What makes each component correct

* Outbound email: a reply is decided in the end; the provider accepts it once; the
  row never claims more than the provider did, and progress is never undone; one
  sender at a time while attempts keep to the window.
* Attachments: a message keeps the attachments it was created with; what it links
  is stored and was checked; nothing is stored without a row; nothing abandoned
  stays.
* Team: an owner remains; invitations and members match; a cancellation holds; the
  audit trail has no gap.
* Tickets: status changes follow the transition table whatever runs at the same
  time; lifecycle timestamps and audit trail agree with the status; a change that was
  validated before a customer's reply and takes effect after it was validated from
  `OPEN` (that it then takes effect at all is a disagreement, section 4.3).
* Inbound email: an email makes one message however often it is delivered, and
  reopens its ticket.
* Realtime: a socket starts to hear of an organization only on a membership lookup
  of its own; every room is on record, so that leaving leaves it; the client ends up
  in the rooms of the page it shows; a recovered page misses nothing.
* Pages: what is shown catches up with what is stored; nobody's own change or
  message disappears again; a status is refused only on a page that is out of date; a
  page of a list that was chosen from an answer up to date, by the button of the page
  shown, is not empty unless tickets have changed.
* Team page: an older fetch takes back nothing the page was told it changed; after a
  change of one's own role the page is rendered with the role that is left.
* Customers: a request that overlapped no other one writes only what is legal; an
  address is taken twice only by requests that overlapped.
* Workspaces: nobody is sent where they cannot go.  The preference is that of the tab
  that changed last, when the requests that store it are answered, granted and in
  order.  The switcher lists the workspace shown, unless the refresh of its list was
  given up.  A first visit that fails leaves the `User` row for the next.

The hazards behind these, each at its line, are in `PROJECT.json`.

## 2. The plan

| | module | what it is | state |
|---|---|---|---|
| 1 | `DeliveryStatus` | the status column and what each webhook event may do to it | done |
| 2 | `DeliveryLifecycle` | abstract: what the pipeline promises about a delivery | done |
| 3 | `EmailPipeline`, `MCEmailPipeline`, `EmailPipelineProofs` | row, job, slots, recovery, provider, webhooks | done; its safety is proved |
| 4 | `Attachments`, `MCAttachments`, `AttachmentsProofs` | rows, objects, completion, linking, cleanup | done; its safety is proved |
| 5 | `Team`, `MCTeam`, `TeamProofs` | memberships, invitations, role changes, audit | done; proved |
| 6 | `Tickets` | status compare-and-set, timestamps, replies, assignment, tags of one ticket | done, without editing and assignment audit |
| 7 | `InboundEmail`, `MCInboundEmail`, `InboundEmailProofs` | redelivered and concurrent `email.received`, reopening; composed with `Tickets` | done; proved |
| 8 | `RoomAccess` | abstract: who may start to hear of what | done |
| 9 | `RealtimeGateway`, `MCRealtimeGateway` | rooms, join and leave over awaits, revalidation; implements `RoomAccess` | done; proved |
| 10 | `RealtimeClient`, `MCRealtime`, `RealtimeProofs` (of both) | provider, bridges, connection and cached conversation, composed with the gateway | done; proved |
| 11 | `TicketPage`, `MCTicketPage`, `TicketPageProofs` | controls, composer, queries and events of the pages of one ticket | done; proved |
| 12 | `Directory`, `MCDirectory` | customers under overlapping requests of pages | done; proved |
| 13 | `Lists`, `MCLists`, `DirectoryAndListsProofs` (of both) | inbox and customer list: addresses, cached answers, paging | done; proved |
| 14 | `Workspaces`, `MCWorkspaces`, `WorkspacesProofs` | sessions, the User row, workspaces, tabs and the cookie | done; proved |
| 15 | `TeamPage`, `MCTeamPage` | the team page's queries, rendered role, mutations and dialog | done; checked |

`EmailPipeline` and `Attachments` meet in `TicketsService.createMessage`, whose one
transaction writes the delivery row and links the attachments.  They share no other
state, so each models its own part of that transaction.  `InboundEmail` EXTENDS
`Tickets`, and `RealtimeClient` EXTENDS `RealtimeGateway`.  The modules of pages have
the steps of their requests apart where something can come between them that the page
can tell (`TicketPage`'s validation and compare-and-set, `Directory`'s reads,
`TeamPage`'s guard and `cancel`); a transaction that is Serializable, or whose inside
another module has, is one step there.

What could follow: theorems about `TeamPage`, the pages of the audit log that are read
while it grows, and the cache of user profiles.

## 3. The models

All modules abstract data to what the properties tell apart (a delivery is a number,
a user is a model value) and keep the control: every early return, condition of an
`updateMany`, catch block and order of calls.  One action is one atomic effect: a
database transaction or statement, a Redis command or script, a provider or storage
call.

### 3.1 `EmailPipeline`

| state | code |
|---|---|
| `status`, `linked`, `stale` | `EmailDelivery.status`, whether `providerMessageId` is set, whether `lastAttemptAt` is outside the window |
| `job`, `lock`, `attemptsMade` | the BullMQ job: its set, its lock's holder, its failed attempts |
| `ensure` | how far each caller of `ensureEmailDeliveryQueued` (the API, recovery) has come, and what state of the job it saw |
| `pc`, `task`, `final`, `permanent` | each worker slot in `processTicketReply` |
| `mails`, `emitted`, `processed` | what Resend accepted and reports; the `WebhookEvent` rows |

`CreateReply` is the transaction of `createMessage`; `InspectJob`,
`RetryFailedJob`, `RemoveCompletedJob` and `AddJob` are the separate Redis calls of
`ensureEmailDeliveryQueued`; `ReadDelivery`, `ClaimDelivery`, `ProviderAccepts` /
`ProviderUnavailable` / `ProviderRejects`, `RecordSent`, `LinkProviderMessage`,
`RecordFailure` are `processTicketReply`; `ResetStale` and `ScanPending` are
`processRecovery`; `HandleWebhook` is the transaction of
`OutboundEmailEventsService.handle`.  Resend and BullMQ are external: their actions
model what the code relies on (an idempotency key is accepted once; a lock lost to
the stalled check cannot end the job; adding an existing id has no effect).
`DeliveryLifecycle` is implemented by identity on `status` and `mails`.

Left out: `attemptCount` and `lastError`; realtime and log messages; a statement
that was applied although the client saw an error (its repetition is covered by
crash after it); the expiry of an idempotency key after 24 hours, so "one email"
means within that day; that recovery shares the slots of the worker, and that two
recovery passes overlap (jobs of one scheduler are far apart).

### 3.2 `Attachments`

| state | code |
|---|---|
| `row`, `link`, `age` | `Attachment.status`, `messageId`, `createdAt` against the two cleanup ages |
| `object`, `url` | what R2 holds under the row's key; the signed URL |
| `rpc`, `ratt` | each `completeUpload` request |
| `mpc`, `want` | each `createMessage` transaction with `attachmentIds` |
| `todo`, `deleting` | `cleanupAbandonedUploads` |

`InitiateUpload`, `SignUrl`, `PutObject` and `UrlExpires` are an upload;
`ReadAttachment`, `HeadObject`, `MarkUploaded`, `RejectObject`, `RejectRow` are
`completeUpload` and `rejectInvalidUpload`; `CheckAttachments` and
`LinkAttachments` are the attachment part of `createMessage` (Read Committed: the
check and the update are apart, and the count of updated rows decides);
`FindCandidates`, `DeleteObject`, `DeleteRow` are cleanup.

An object is right or wrong; the name, type and size rules that decide it are not
modelled.  The candidates are not cut off at 100.  Two constants describe clients:
`RetriedPuts` (a URL is used more than once) and `LateClients` (an upload is
completed or linked after the ages at which cleanup may take it).

### 3.3 `Team`

| state | code |
|---|---|
| `role` | `Membership.role` of each user in one organization |
| `inv`, `expired` | `Invitation` rows: address, role, `acceptedAt`, `canceledAt`, `expiresAt` |
| `audited` | the from and to roles of the latest audit entry about a member |
| `req` | each HTTP request: the role the guard found, what its transaction has read |

`Authorize` is the guard.  `ReadTarget` / `UpdateRole`, `ReadInvited` /
`CreateInvitation` and `ReadInvitation` / `AcceptInvitation` are the reads and the
commit of `updateRole`, `create` and `accept`, which are Serializable: the commit is
refused when what was read has been overwritten.  PostgreSQL lets some such
transactions commit when an equivalent serial order exists; they then reach a state
that the model reaches in that order.  `cancel` reads before a transaction of
default isolation and updates by id, and is modelled so.

Left out: the audit entries of invitations, the listing of organizations, tokens (an
invitation is addressed to the user whose email it names).

### 3.4 `Tickets` and `InboundEmail`

| state | code |
|---|---|
| `status`, `stamps` | `Ticket.status`; whether `resolvedAt` and `closedAt` are set |
| `statusAudit` | the latest `TICKET_STATUS_CHANGED` entry |
| `unaware` | history: since a reply, the requests that validated a change before it; until a change takes effect |
| `assignee`, `role` | `assigneeMembershipId`; whether a member is a viewer |
| `tags`, `tagAudit` | `TicketTag` rows; added less removed audit entries |
| `req` | each HTTP request: what it has read and will write |
| `event`, `messages`, `hook` | `WebhookEvent` and `TicketMessage` rows of each email; the deliveries under way |

`ReadStatus` / `UpdateStatus`, `ReadReplied` / `PostReply`, `CheckAssignee` /
`Assign`, `FindLink` / `AddTag` and `RemoveTag` are the reads and the writes of
`updateStatus`, `createMessage`, `assign`, `addTag` and `removeTag`.
`ReceiveWebhook`, `CheckEmail`, `IgnoreEmail` and `AcceptEmail` are
`handleReceivedEmail`; `AcceptEmail` is its one transaction, which holds the
unique key of its event and the ticket's row lock until it commits.  `InboundEmail`
EXTENDS `Tickets` and adds its own steps to `TicketStep`, so every property of the
ticket is checked with both components running.

Left out: editing subject, description and priority and the audit entries of
assignments (last write wins, and the values compared are read outside of the
transaction); routing, sender check and body extraction, which together are one
nondeterministic decision, since the customer's address may be edited between two
deliveries; creating tags.

### 3.5 `RealtimeGateway` and `RealtimeClient`

| state | code |
|---|---|
| `member` | `Membership` rows of each socket's user |
| `tenants`, `tickets` | `client.data.tenants`, `client.data.tickets` |
| `orgRooms`, `ticketRooms` | the adapter's rooms |
| `call` | each join command in progress: which lookup it awaits, what it has found |
| `rooms` | the provider's `joinedOrganizations`, `organizationJoins`, `joinedTickets`, `ticketJoins`, and each promise with those who await it |
| `up`, `down` | commands and answers in transit, in order |
| `cache`, `fetch`, `stale` | the conversation's query |

Each handler of the gateway runs to its next `await`: `JoinOrganization` and
`JoinTicket` begin one, `ResolveTenant`, `RefreshTenant` and `ExistsInOrganization`
are lookups, `EnterOrganization` and `EnterTicket` put the socket into a room,
`RefuseOrganization`, `RefuseTicket` and `ExpelSocket` answer an error.
`RoomAccess` is implemented with `hears` as the rooms the socket is in and `permits`
as the lookups that have found a membership and are about to be used.

`RealtimeClient` takes the provider's callbacks as operators that return its refs
and what was emitted (`JoinRoom`, `ProviderJoinTicket`, `ProviderLeaveOrganization`),
and `Settle` runs the continuations of an acknowledged join in the order they were
attached (`ResumeAll`, a recursive function of the number that have run).  The
effects and cleanups of the bridges run with the navigation that
mounts or unmounts them.  An acknowledgment of an earlier connection never arrives;
its promise is rejected after five seconds (`TimeOut`).  One organization and one
ticket of it have pages; the connection is authenticated before the model begins.
In TanStack Query an invalidation restarts a fetch under way unless the query has no
data yet, and an answer ends the query's staleness.

A step joins at most one room, so `Spare` asks for one free call number before it;
a join of the organization that only a ticket's bridge awaits marks the history as
`alone`, a navigation with a join pending as `hasty`, a refusal as `refused`.

The first connection does not refetch after its joins: the page was rendered before.

### 3.6 `TicketPage`

| state | code |
|---|---|
| `row`, `messages` | what is stored: the ticket's status and how often it changed; its messages |
| `shows`, `fetch`, `failed` | each page's two queries |
| `control` | its mutations: the status select, and one for assignee, priority, tags and the edit dialog, which change and refresh alike |
| `composer` | the draft from typing to the answer |
| `events` | the ticket and message events on their way to each page |
| `own` | history: the last change and the messages a page was told of |

`SelectStatus` is the click.  `updateStatus` is two steps, as in the code:
`ValidateStatus` reads the row and compares it with the table, `UpdateStatus` is the
compare-and-set.  `RefuseStatus` is each of its 409s: the ticket has that status or
may not change to it, or it has changed between the two steps.  `Refresh` is the
refetch after success, and `LoseAnswer` an error that says nothing of the outcome; a
change that the server makes nevertheless is one of `ChangeElsewhere`.

`Submit`, `CreateMessage`, `RefuseMessage` and `Appear` send a message.  After
`LoseMessage` the draft can be sent again, while the request given up may have been
handled, or be handled later, as one of `CreateElsewhere`.  Nothing in the code keeps
such a draft from becoming two messages, and no property speaks of it.
`ChangeElsewhere`, `CreateElsewhere` and `CustomerReplies` write what no page did.  The table of
transitions is in the code twice, in the service (`Transitions`) and in the page
(`Offers`), and so it is here.

The files of a draft are left out; what becomes of them is in `Attachments`.

### 3.7 `Directory`

`customer` and `tickets` are rows; `req` the request of each agent, with the reads
that `CustomersService` makes before its transaction as steps of their own
(`FindCustomer`, `CheckEmail`, then `CreateCustomer`, `UpdateCustomer`,
`ArchiveCustomer` or `RestoreCustomer`); `page` what the agent sees and has typed.
`CreateTicket` is the other service that depends on a customer being active.
`overtaken` and `raced` are history: which requests read before another one wrote.

### 3.8 `Lists`

`url` is the address that is rendered, `going` the one `router.replace` was given;
`cache` and `fetch` are per address.  `Select`, `Submit`, `Clear`, `NextPage` and
`PreviousPage` all go through `Replace`, which, like `updateParams`, starts from the
rendered address: the last of two quick changes wins.  `Displayed` is
`keepPreviousData`.  `Hear` is what an event does to all lists: a mounted query is
fetched anew, but a first fetch under way is left alone and is marked `unheard`.
`findMany` and `count` are one read: a change between them has an event to come.
Addresses typed by hand (a page beyond the last) are not visited, and an answer ages
(`staleTime`) only while its list is not shown.  `moved` is history: the later pages
(beyond the first) in the address that were chosen before tickets changed, or from an
answer already out of date.  The customer list is the same
machine; its filters are submitted with a form.

### 3.9 `Workspaces`

| state | code |
|---|---|
| `users`, `members`, `invited` | `User`, `Membership`, `Invitation` rows |
| `session`, `cookie` | the Auth0 session; `opsdesk_active_organization` |
| `tab` | per tab: the page, the switcher's list, a navigation under way with its API requests, a mutation under way |
| `posts` | requests of `/api/active-organization`, numbered, from the browser to the answer |
| `shown`, `flawed` | history: the workspace some tab came to last; whether a preference was lost, refused or overtaken |

`FindUser` and `CreateUser` are the two statements of `syncAuthenticatedUser`, for
each of the requests that a page sends at once; `RenderFails` is the error page.
`Land`, `NotFound` and `Arrive` end a navigation; `Arrive` runs the effect of
`ActiveOrganizationSync`.  `SelectOrganization`, `SubmitDialog` and `PressAccept`
begin the three ways to another workspace, `CreateForUser`, `Accept` and
`RefuseInvitation` are the API's part, `Validate` and `Store` the route's, and
`Continue` what the tab does then.

Of the router the model has what the code relies on: a new navigation replaces the
one under way, `router.refresh()` after `router.push()` is carried out once that has
arrived, and a refresh that runs is given up for another navigation.  Requests of a
document end with it.  Signing in returns to the address that was asked for, `/app`, a
workspace or an invitation (`proxy.ts:20`).  Nothing in the code deletes a membership.

A preference, acceptance or founding syncs the user first, in the two statements that
race.  `knew` says whether the row was there when the request was sent; if it was not,
and another request creates it meanwhile, this one may fail (`SyncFails`, and the
second answer of `MayAnswer`), or may find the row.

A tab that goes on under another account than the one it was loaded for (the session
is shared) is `mixed`: its switcher and its pages are of two accounts, and no property
is stated of it.
`listedLate` marks a tab whose refresh, which would list the workspace it came to, was
given up for another navigation; its switcher may lack the workspace until the next.

### 3.10 `TeamPage`

| state | code |
|---|---|
| `members`, `invitations` | every state the two tables have had; what a page shows is a position in them |
| `query` | the two queries: what is shown, the fetch under way, a failure, staleness |
| `rights` | the role the server rendered into the page, and `router.refresh()` |
| `request` | the role change, the cancellation and each invitation, from the click to the answer |
| `dialog` | `InviteMemberDialog`: the link it shows, the request it sent last |
| `own` | history: the latest change of each part the page was told of |

`Guard` is the tenancy guard with the role it found, which the service then goes by;
`ReadMembers` and `ReadInvitations` are the lists of the API.
`UpdateRole` and `CreateInvitation` are Serializable transactions (`Team` has their
insides), `ReadInvitation` and `CancelInvitation` the two steps of `cancel`.
`RoleChanged`, `Canceled` and `Invited` are `onSuccess`: an invalidation, which
restarts a fetch under way; `RoleSettles` refreshes the page once that fetch has
ended.  `RefreshArrives` mounts or removes what only managers see.
`RoleChangedElsewhere` and `InvitationChangesElsewhere` are others, who send this page
no event.

Left out: what is invited is always an agent; an address has only its latest
invitation; the tab stays on this page; a refresh that fails loads the document anew,
which is an initial state; the invalidation of `ticket-members`, which no part of this
page shows.

## 4. What is checked

| run | instance | what it shows |
|---|---|---|
| `pipeline` | 1 delivery, 2 slots, 2 attempts, 3 events, 2 faults, no slow attempts | types; `SingleSender`: the claim and the window are a lock; `ProviderStatusIsLinked`; `WebhooksAreNotUndone`; the pipeline implements `DeliveryLifecycle` |
| `pipeline_live` | 2 deliveries, 1 slot, recovery takes 1 row, slow attempts, 1 fault | `EveryReplyIsDecided`: no reply is lost, and none starved by an older row |
| `attachments` | 2 attachments, 2 requests, 2 messages, orderly clients, 1 fault | `MessagesKeepTheirAttachments`, `LinkedObjectsAreStored`, `StoredObjectsAreKnown`, `AbandonedUploadsAreRemoved` |
| `team` | 2 users, 2 invitations, 2 requests, three roles | types and the five team properties |
| `tickets` | 1 ticket, 2 requests, 2 emails, 2 deliveries, 1 tag, 1 member | types; `TimestampsMatchStatus`, `LateChangesReplaceOpen`, `StatusTrailIsTrue`, `TagTrailAddsUp`, `EmailMakesOneMessage` |
| `tickets_closed` | 1 ticket, 2 requests | **violated**: `ClosedTicketsGetNoReply` |
| `realtime` | 2 connections, 1 organization, 1 ticket, 1 delivery update, 2 navigations, 4 joins at a time | `NoRoomsLeftBehind`, `RoomsOfThePage`, `RecoveredPagesAreFresh`; the gateway implements `RoomAccess` |
| `ticket_page` | 1 page, 1 fault; both controls and 2 changes, or the composer, 1 change and 3 messages | `PagesCatchUp`, `OwnChangesAreShown`, `OwnMessagesAreShown`, `RefusalsMeanStalePages` |
| `directory` | 2 agents, 2 customers, 1 address | `DuplicatesNeedARace`, `WritesAreLegal` (of requests that were not overtaken) |
| `lists` | 2 tickets, pages of 1, 3 addresses, 1 change, 1 fault | `ShownListCatchesUp`, `EmptyPagesNeedAChange` (of pages chosen up to date and by their own button) |
| `workspaces` | 1 fault; 2 tabs, 2 accounts, 3 moves (2 if one is new), or 1 tab, 2 accounts (1 new), 1 workspace to be founded, 3 or 4 moves | `NobodyIsSentAstray`, `RememberedIsShown` (unless lost, refused or overtaken), `ShownIsListed` (unless the refresh was given up), `FailedVisitsCanBeRepeated` |
| `team_page` | 2 people, 1 fault; 3 role changes, or 1 role change, 2 changes of invitations, 2 invitations sent | `OwnRightsAreShown`, `OwnChangesAreShown` |

Other configurations, which can be run by hand:

| configuration | module | what it shows |
|---|---|---|
| `MCAttachmentsLate.cfg` | `MCAttachments` | `MessagesKeepTheirAttachments` with repeated PUTs and late clients |
| `MCEmailPipelineReconcile.cfg` | `MCEmailPipeline` | **violated**: `DeliveredIsReconciled` |
| `MCAttachmentsCleanup.cfg` | `MCAttachments` | **violated**: `CleanupSparesLinkedObjects` |
| `MCAttachmentsOrphan.cfg` | `MCAttachments` | **violated**: `EveryObjectIsKnown` |
| `MCTeamCancel.cfg` | `MCTeam` | **violated**: `AcceptedIsNotCanceled` |
| `MCInboundEmailReply.cfg` | `MCInboundEmail` | **violated**: `RepliesKeepTicketsOpen` |
| `MCTeamPageLinks.cfg` | `MCTeamPage` | **violated**: `LinkOfThisDialog` |
| `MCRealtimeGateway.cfg` | `MCRealtimeGateway` | `RoomsAreRecorded` and `RoomAccess` for a client that sends any command, with 2 organizations |
| `MCRealtimeLeave.cfg` | `MCRealtimeGateway` | **violated**: `TicketRoomsNeedTheirOrganization` |
| `MCTicketPageNote.cfg` | `MCTicketPage` | **violated**: `NotesStayInternal` |

### 4.1 Bounds

* `MaxFaults` counts what fails in one behaviour: crashes, failed calls, stalls of
  live slots, attempts outside the window; in the browser, fetches that fail and
  answers that are lost.  Two in the pipeline are enough for a fault during the
  repair of another one; nothing else bounds it.  Expiry of jobs, backoff, stalls of
  dead slots and recovery passes are unbounded.
* Two slots, requests, agents or users are the least that race.  Deliveries do not
  interact except through the recovery batch, so one suffices everywhere but in
  `pipeline_live`.
* `MaxAttempts` is 2, so that there is a last attempt and one before it.
* The invitation ids bound how many invitations are created: two are one pending
  invitation too many.
* `Tickets`, `InboundEmail`, `RealtimeGateway` and `Directory` have no bound but the
  sizes of their sets.  Two emails are one more than a ticket needs to be reopened
  while the other is under way; two commands of one connection are a join that is
  overtaken; two customers are what one address can be taken by.
* `realtime`: two connections are one break; two navigations leave a page and come
  back to it; four calls are the joins of both rooms before and after a break.  One
  delivery update stands for all that is written: messages, which are also published
  to the organization's room, only add a second way to hear of the same.
  Of the gateway this run shows what a browser's commands bring about;
  `MCRealtimeGateway.cfg` has any commands of two organizations, and the theorems about
  the gateway hold for any commands at all.
* `ticket_page`: one page suffices, for others reach it only by what they store and
  the events of it, which `ChangeElsewhere`, `CreateElsewhere` and `CustomerReplies` give.  Controls and
  composer share only the queries, so a behaviour uses one or the other (the state
  constraint `OneAtATime`).  Two changes take the ticket from a status and back to it;
  three
  messages are one by the page between two by others.
* `lists`: with pages of one ticket, two tickets are a full last page, and one change
  empties it.
* `workspaces`: three moves join or switch, change the tab, and sign out or go back; two
  accounts are the least for a cookie of another one.  A new account in
  one tab, or one that founds nothing, has four moves; two tabs of a new account, which
  race to create its row, have two (`OneTabOrTwo`).
* `team_page`: four states of the memberships are a change of one's own between two of
  others.  A page that regains management with an older fetch still under way needs
  five, and is beyond the bound.  Beside invitations there is one role change
  (`RolesOrInvitations`): an invitation by others, or the end of one, beside one of the
  page's own.
* Symmetry is used only where no liveness property is checked; the deliveries, which
  are ordered, are never symmetric.

The theorems of section 5 carry most of these results to all sizes; for the late
clients and repeated PUTs that `attachments` leaves out, `AttachmentsStay` and
`ObjectsAreKnown` do.

### 4.2 Fairness

`EmailPipeline!FairSpec`: a slot that runs goes on; a waiting job is taken; delays
and the window end; the stalled check notices a dead holder; the scheduler runs
recovery every minute.  Faults are not fair and are bounded, webhooks need never
come, and completed jobs need not expire.

`Attachments!FairSpec`: requests end; URLs expire; rows grow old; cleanup, which is
scheduled every 15 minutes, runs.  Ageing is strongly fair, since in an orderly
client's case it waits for requests under way, and no client overlaps its requests
for ever (`[]<>NotRequested(a)`).  No client has to complete or link anything.

The browser's modules state what catches up as invariants (either it is shown, or
the step that will show it is pending), which need no fairness and can be proved.

### 4.3 Disagreements found

* `tickets_closed`.  `createMessage` reads the status at the start of a Read
  Committed transaction; a ticket closed in between gets a public reply all the same,
  although the code says "Closed tickets must be reopened before sending a public
  reply" (`tickets.service.ts:1354`).
* `MCInboundEmailReply`.  `updateStatus` compares and sets the status only.  A customer's reply
  to an `OPEN` ticket leaves it `OPEN`, so a change to `RESOLVED` or `PENDING` that was
  validated before the reply succeeds after it, although the code says "A customer reply
  means this ticket requires agent attention again" (`inbound-email.service.ts:429`).
  Where the reply did change the status, the compare-and-set refuses the change
  (`LateChangesReplaceOpen`).
* `MCTeamPageLinks`.  The answer to an invitation sets the link of the dialog whatever it
  is by then.  Closed while its request is pending, opened again and sent for another
  address, it shows the first address's link under "Share this link with the invited
  person" (`invite-member-dialog.tsx:278`).
* `MCEmailPipelineReconcile`.  The provider accepts an email and the answer is lost
  (or the update fails) on the last attempt; the worker writes `FAILED`; the delivered
  webhook then finds a status outside `allowedCurrentStatuses` and leaves it.
  `docs/architecture.md:35` says that webhooks reconcile delivery status.
* `MCAttachmentsCleanup`.  Cleanup reads its candidates once, and deletes the object
  of each before looking at its row again.  A message that links the attachment in
  between keeps a row without an object.
* `MCAttachmentsOrphan`.  A rejected upload loses object and row, but its signed URL
  stays valid for the rest of five minutes; a second PUT stores an object no row
  names and no job looks for.
* `MCTeamCancel`.  `cancel` checks `acceptedAt` before its transaction and updates by
  id: an invitation accepted in between is canceled, and audited as canceled,
  although the code says "Accepted invitations cannot be canceled".  The other
  direction holds (`CanceledMakesNoMember`).
* `MCRealtimeLeave`.  `joinTicket` checks `client.data.tenants` before it awaits the
  membership and the ticket; an `organization.leave` handled meanwhile finds no ticket
  room to leave, and the join then enters the ticket's room.
  `docs/architecture.md:47`: "Leaving an organization also leaves its ticket rooms."
* `MCTicketPageNote`.  The composer of a closed ticket writes internal notes; when the
  ticket is reopened while one is being typed, the kind goes back to the one selected,
  a public reply, and the note is mailed.  `docs/architecture.md:35`: "Internal notes
  do not send email."

Met on the way, with nothing more at stake: `assign` checks the assignee's role
outside of its transaction, so a viewer can hold a ticket; a join that times out
after a reconnect removes the pending join that replaced it
(`realtime-provider.tsx:300`), and a room may then be left behind; two requests that
overlap can give two active customers one address, or a ticket to a customer archived
meanwhile; a workspace whose preference could not be stored is founded although the
dialog reports an error, and founded again on the next try; of two quick changes of
the inbox's filters the first is lost; an event that finds the first fetch of a list
under way does not start it again; a later page can be empty when it was chosen from an
answer out of date, or by the button of a page that has just been left; a reply whose
answer was lost is created again when its draft is sent again; a switcher whose refresh
was given up lacks the workspace shown; preferences sent in quick succession are stored
in the order of their answers.  The properties of the pages, customers and workspaces
exempt these cases by name (`raced`, `overtaken`, `unheard`, `moved`,
`listedLate`, `mixed`, `flawed`) and say nothing of them.

## 5. What is proved

For every value of the constants that satisfies the module's assumption
(finiteness of the users, model values that are not members of the sets, ranges of
numbers, and for `Lists` that the first page is an address).

* `EmailPipelineProofs!TypeCorrect`.
* `OneSenderAtATime`, of `SingleSender`.  Exclusion alone is not inductive: a second
  slot might claim a row whose sender is still at work.  `SenderInv` adds `SendersOwnTheRow`: while a
  sender is at work its row is neither `PENDING` nor stale.  Nobody can claim it then,
  and recovery, the only other way back to `PENDING`, passes it over, because without
  slow attempts a row does not become stale while it has a sender.
* `PipelineImplementsLifecycle`.  `LifecycleInv` says that nothing happens to a
  delivery before its row exists (`RowComesFirst`), and that there is at most one
  email of it and whoever speaks of one - a row beyond `SENDING`, an event, a slot
  about to write `SENT` - knows that it was accepted (`AcceptedOnce`).  Each step then
  is a step of `DeliveryLifecycle` or a stutter.
* `ProcessedWebhooksStand`, of `WebhooksAreNotUndone`, from `RankNeverFalls`: a step
  never takes a row back in rank, and the handler leaves it at least at the rank of
  its event.
* `AttachmentsProofs!TypeCorrect` (which includes that only uploaded rows are
  linked) and `AttachmentsStay`: only `LinkAttachments` changes a link, and only of
  attachments without one (`LinksStand`).
* `ProviderStatusLinked`: `LinkStep`, one case per way a delivery's row changes.
* `ObjectsAreKnown`, of `StoredObjectsAreKnown`, from `KnownInv`: whoever is about to
  delete a row - a rejecting request, a cleanup pass - has deleted its object, and no
  other can be stored, since the URL was used (`RequestsSawThePut`) or has expired
  (`CleanupIsLate`).
* `LinkedAreStored`, of `LinkedObjectsAreStored`, from `StoredInv` on top of it: what a
  request found in R2 is still there when it acts on it (`RequestsAreInTime`), and
  cleanup never deals with an upload that can still be linked (`CleanupIsRight`).
* `TeamProofs!TypeCorrect`, and `LastOwnerStays` from `OwnerInv`: a request about to
  demote an owner has seen a second owner, and its commit is refused unless the
  owners are those it saw.  `OnePending` from `InvitersSawNoneOpen`: a request about
  to invite saw only rows that were not pending, and rows never become pending again.
  `MembersAndInvitations`, `CancellationStands` and `AuditTrail` follow from the
  types and what each commit compares.
* `InboundEmailProofs!TypeCorrect` (which includes that a request about to change the
  status asks for a transition the table allows from what it read), and from
  `LifecycleStep` - all that ever happens to a ticket is an allowed transition from
  its present status or a reopening - `StampsStayTrue` and
  `StatusTrail`; `TagTrail` and `OneMessage` from the unique keys.  These invariants
  are inductive together with the types.  `LateChangesReplaceOnlyOpen`, of
  `LateChangesReplaceOpen`, adds `UnansweredIsOpen`: while some request has validated
  before a reply and nothing has changed since, the ticket is `OPEN`, so that the
  compare-and-set of a change read from another status fails.
* `RealtimeProofs`, of the gateway: `RoomsAreAlwaysRecorded`, with `Unconnected` (a
  socket has no command and no room before it is connected), since a room is entered
  and recorded in one step; and `GatewayImplementsRoomAccess`, one case per handler
  step: a lookup that finds a membership is a `Permit`, entering a room a `Hear`,
  everything else withdraws or stutters.
* `RealtimeProofs`, of the browser: `ProviderKeepsItsPromises` is the invariant
  `ClientInv`, in parts: `Kept` (types), `Untouched` (connections to come are new),
  `Severed` (without a connection nothing is in transit, joined or pending),
  `OneOrganization` (the gateway deals only with the organization and the ticket of
  the pages, and whom it admitted is a member) and `Provided`.  The last says of the
  provider's refs and queues that a number in use is in exactly one place - a command
  on its way up, a lookup, an answer on its way down -, that its promise has the room
  of its command, and that every waiter of a bridge that is not mounted, or of an
  earlier connection, is canceled (`Good`, `GoneCanceled`).  It is proved call by call:
  each operator of the provider keeps `Good`, and `ResumeAll`, being a recursive
  function, by an induction over the number of waiters that have run, written as the
  least counterexample (`LeastNumber`, from `NatLessThanWellFounded`), since the
  library's induction rules cannot be instantiated.
* `BrowserIsAClient`: the composition implements the gateway's own specification, so
  what is proved of the gateway for all clients holds with this one.
* `NothingIsLeftBehind`, of `NoRoomsLeftBehind`, from `TakenBack`: while connected, a
  room the server has the socket in, and which no mounted bridge needs, is about to
  be left by a command under way, or its join is about to be answered, and then the
  waiters, all canceled, send the leave.  The exception is in the code: a join of the
  organization that only the ticket's bridge awaits is taken back by nobody.
* `RoomsAgree`, of `RoomsOfThePage`, from `Smoothly`: while connected, and as long as no
  page was left with a join pending and no join was refused, the provider has joined
  the rooms the page needs, or awaits exactly one answer with all its waiters: the
  organization's, or, being in the organization, the ticket's (`Steady`); the awaited
  join is the last command under way (`LastInLine`); and the server has the socket in
  every room joined or answered for, with no leave of it under way (`Entered`).  A
  handler's answer keeps all this because of `OnlyExpelled`: of the handlers only the
  one whose membership is gone takes a socket out of rooms no leave was sent for.  `TakenBack` gives the
  converse, that no room is kept.
* `RecoveredAreFresh`, of `RecoveredPagesAreFresh`, from `CatchesUp`: while caught up, the
  page is the ticket's, its room is joined, and each committed message or update is
  still unpublished, or has an event to come, or is being fetched, or is in the cache.
* `TicketPageProofs`: `PagesAlwaysCatchUp`.  `PagesCatchUp` is inductive with the types
  and with what fresh message ids need (`Counted`): whatever changes what is stored is
  announced to every page or refetched by the page that did it, and an answer is out
  of date only if an announcement is still to come.  `OwnMessagesAreAlwaysShown`
  follows.  `OwnChangesAreAlwaysShown` needs `Confirmed`, which follows a version from
  the API's answer to the refetch that includes it.  `OnlyStalePagesAreRefused`, of
  both refusals, needs that a request carries a transition the page offered from the
  status it showed, and that a row that still has the version shown has the status
  shown, which validation then read.
* `DirectoryAndListsProofs`, of `Directory`: `DirInv` carries, for each request that
  was not overtaken, that what its checks have found still holds (`Prepared`);
  `DuplicatesAlwaysNeedARace` and `WritesAreAlwaysLegal` follow at the write.  Of
  requests that were overtaken neither says anything.
* `DirectoryAndListsProofs`, of `Lists`: `ShownListAlwaysCatchesUp`, from `ListsInv`: an
  answer that is out of date, cached or about to be, is stale, or has an event to come,
  or was found under way by one; and the list shown is not stale without a fetch.
  `EmptyPagesAlwaysNeedAChange` combines the arithmetic of `totalPages`
  (`LastPageIsNotEmpty`, for every page size and total) with `PagesExistUnmoved`: a page
  that was offered by the page shown, from an answer up to date, and since whose choice
  no ticket has changed, exists.  All other pages are in `moved`, and exempt.
* `WorkspacesProofs`: `WorkspacesCorrect` is `WorkspacesInv`: of each tab, what it shows
  belongs to the account it was loaded for (`Shows`, `Lists`), and what its navigation
  has asked and been told is true and fits the tab (`Reads`, `Fits`); of each request
  to store the preference, who waits for it (`Requested`).  `SentWhereTheyBelong`,
  `SwitcherListsTheShown` (but for `listedLate` and `mixed` tabs) and
  `FailedVisitsLeaveAUser` follow.  `PreferenceFollows`, of
  `RememberedIsShown`, needs `FollowedInv`: unless something was lost, refused,
  given up or answered out of order, a tab is still to come to a workspace (`Sure`), or the last request sent
  is for the workspace shown last, or none is under way and the cookie names it.

Every invariant and every action property without fairness that a passing run checks
is stated by a theorem, but for those of `TeamPage`.  Only model-checked: these, and
the liveness properties, since fairness is beyond the prover.

## 6. What is not modelled

* Analytics (queries only), configuration, rate limits, CSRF, OpenAPI, logging,
  metrics, layout, the API proxy and the demo data have no state whose steps
  interleave.
* Job health compares timestamps with a clock and reports; nothing depends on it.
* The cache of user profiles (a minute in the API's memory), and an email address
  that two identities of Auth0 share.
* Downloads, timelines and the list of audit entries only read.
