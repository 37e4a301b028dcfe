# Unified Inbox: a TLA+ verification project

Unified Inbox is a multi-tenant inbox for WhatsApp and Instagram messages: a
NestJS API (`apps/api`) on PostgreSQL (Prisma), Redis (BullMQ queues and
pub/sub) and a Next.js web client (`apps/web`). This directory models the parts
of it whose correctness depends on interleaving, failure and retry.

## Inventory

Paths are below `apps/api/src` unless they start with `apps/`.

| Component | State | Operations | What is hard, and what makes it correct |
|---|---|---|---|
| outbound delivery (`outbound/`) | `Message.deliveryStatus`, `providerMessageId`, four timestamp columns; the BullMQ queue `outbound-messages` | enqueue; a run claims QUEUED/FAILED rows, loads, sends, records SENT or FAILED and rethrows for a retry | a run may die, lose its job lock, fail between two statements, or not hear the provider. SENDING must act as a lease, timestamps must agree with the status, the status must not claim more than the provider said |
| webhook intake (`webhooks/webhooks.service.ts`, `webhooks.queue.service.ts`) | `RawWebhookEvent` (unique dedupe key), the queue `raw-webhook-events` | store the payload, enqueue it, answer 200; duplicates of a PENDING event are enqueued again | the provider repeats webhooks, row and job are written apart. What was acknowledged must not be lost |
| webhook worker (`webhooks/webhooks.worker.service.ts`) | conversations, messages, the raw event's status | one transaction per run: status updates, channel, conversation, message, PROCESSED; then the events; FAILED on the last attempt | runs race for one conversation, statements fail inside a PostgreSQL transaction, commits lose their answer. PROCESSED must mean stored, each message announced once |
| payload normalization (`webhooks/*-payload.ts`) | none | extract account, message, dedupe key, statuses from nested bodies | batched and partial bodies |
| team and invitations (`team/`) | `Membership.role`, `Invitation` | create, revoke, accept invitations; change roles; remove members | requests of several owners race; all but acceptance lock every membership of the organization. An owner must remain, only owners decide, an assignee must be a member |
| conversations (`conversations/`) | status, assignee, read mark, last message, notes, tags | list, open (marks read), send, assign, resolve and reopen, notes, tags | read-then-write transactions that race with each other and with the webhook worker. Nothing unseen may be marked read, a reply needs an open conversation, the audit log must match |
| channels (`channels/`) | `ChannelAccount`, `Channel` | connect or disconnect WhatsApp or Instagram, list | the webhook worker upserts the same rows and hangs messages on them; deletes cascade |
| authentication (`auth/`) | password hash, `sessionVersion`, reset and verification tokens; signed session cookies | login, bootstrap of the first owner, reset, verification, owner recovery, session check | links used twice or at once, sessions that outlive a reset, one active token per user, several ways to set a first password |
| realtime events (`events/`) | per organization: subject, reference count, transport state with a generation; Redis handlers | subscribe, finalize, emit, retry, tear down | a subscription's answer arrives after the last listener left and a new one came; connections to Redis break, and ioredis repairs them on its own |
| inbox page (`apps/web/src/app/inbox`) | conversation list, selection, messages, notes, optimistic changes | fetches, server events, user actions | answers out of order, events during an optimistic change, lost events, changes without an event |
| audit log, crypto, dev, health, wiring, other pages | none of their own | queries, helpers, forms | sequential |

How they interact: the controllers call the services; services write PostgreSQL
and emit through `EventsService`; conversations enqueue to the outbound queue
and the webhook service to the webhook queue; the two workers take jobs from
them, and the webhook worker's status updates write the rows the outbound worker
writes. Removal of a member writes conversations; assignment of a conversation
refers to memberships. An accepted invitation may create or activate an account
and signs a session. The web client learns of changes by server-sent events and
fetches what they name again.

`PROJECT.json` lists every component with its status, and under `hazards` what
in this code a test would hardly reach, line by line.

## Modules

| Module | Models |
|---|---|
| `BullQueue` | a BullMQ queue as `outbound.queue.service.ts` and `webhooks.queue.service.ts` configure it: job ids, attempts, kept failed jobs, job locks and the stalled check. External: what it does is what BullMQ documents for these options |
| `OutboundDelivery` | creation of an outbound message, its enqueueing, runs of the outbound worker, the provider, status webhooks; extends `BullQueue` |
| `MessageLifecycle` | the abstract specification `OutboundDelivery` implements |
| `WebhookPipeline` | webhook requests, raw events, runs of the webhook worker, the transaction of a run; extends `BullQueue` |
| `WebhookPayload` | the extraction functions of `whatsapp-payload.ts` and `instagram-payload.ts` as operators on nested records |
| `TeamMembership` | memberships, invitations and assignments of one organization at statement level |
| `AccountAccess` | accounts, passwords, session versions and cookies: login, the guard, bootstrap, owner recovery, and `acceptInvite` as far as it creates or activates accounts |
| `AuthLinks` | password reset and e-mail verification tokens, from the request to the mail and the confirmation |
| `ConversationOps` | one channel and one conversation: connect, disconnect, inbound messages, opening, the lock of a reply, status, notes, tags |
| `EventsFanout` | server-sent events of one organization: listeners, `EventsService` and `RedisPubSubEventsTransport` in each API process, the Redis channel |
| `InboxPage` | the inbox page in one tab: its state variables and refs, handlers, effects, fetches and the EventSource, against a server that commits changes |
| `MC*` | small instances for TLC. `MCWebhookPipeline` feeds `WebhookPipeline` with what `WebhookPayload` extracts from five bodies, and so composes the two |
| `OutboundDeliveryProofs`, `WebhookPipelineProofs`, `TeamMembershipProofs`, `AccountAccessProofs`, `AuthLinksProofs`, `ConversationOpsProofs`, `EventsFanoutProofs`, `InboxPageProofs` | the theorems about the module each is named after |

Correspondence to the code:

- **OutboundDelivery.** Every Prisma call outside a transaction commits on its
  own, so each is an action: `Claim` (the conditional `updateMany` to SENDING),
  `Load`, `SendAccepted` / `SendRejected` / `SendAckLost`, `RecordSent`,
  `MarkMessageAsFailed`, and a `...Throws` action where the statement fails.
  The request is `CreateOutboundMessage`, `Enqueue`, `CatchEnqueueError`. A status
  webhook is a transaction that reads (`ReadForStatusUpdate`) and writes
  (`WriteStatusUpdate`) without a row lock. Body, credentials and the choice of
  the adapter are abstracted to accepted or rejected.
- **MessageLifecycle.** Two variables: what the inbox tells of a message (`told`) and
  whether the provider has it (`provider`). `OutboundDelivery!Lifecycle`
  instantiates it with `Told` (QUEUED and SENDING are "waiting"; SENT, DELIVERED
  and READ are "sent") and `AtProvider` (an accepted id that was not reported
  FAILED). What it forbids: calling failed, or trying again, what the provider
  has; calling sent what it never had; handing over twice; waiting for ever.
- **WebhookPipeline.** A run is `ReadRawEvent`, `FindConversation`,
  `CreateConversation`, `CreateMessage`, `MarkProcessed`, `Commit`, `Emit`;
  uncommitted writes are in the run and reach the rows in `Commit`. A statement
  that fails aborts the transaction: PostgreSQL then refuses the statements that
  follow, also those of a catch block.
- **TeamMembership.** A slot serves one request at a time. Reads see committed
  rows, `holds` are row locks, `shares` the FOR KEY SHARE locks of the foreign
  key, `todo` the rows the current statement has still to lock, one by one.
  Writes show in the action that commits. `Fail` is any rollback: an error, a
  timeout, or losing a deadlock.
- **AccountAccess.** Same style. A user's passwords are numbered, so that a session can
  carry the one its caller has shown (`proof`); a cookie is a record that nothing
  stores, and `Accepted` is the guard's comparison of `sessionVersion`. Bootstrap
  is `BootstrapOwner`, `LockGate` (the advisory lock), `CountAll`, `CreateOwner`; recovery
  `ReadOwner`, `LockOrganization`, `CountOwners`, `ActivateOwner`, `CommitRecovery`.
  Role changes and removals, of owners too, which `TeamMembership` models, are single
  steps here.
- **AuthLinks.** The reset and the verification code are the same code on two tables, so
  a kind tells them apart. The token's `updateMany` is two actions, what its
  snapshot finds (`FindActive`) and the wait for locked rows (`LockFound`);
  `CreateToken` is the insert under the partial unique index. The mail is
  delivered, fails, or is delivered and reported as failed.
- **ConversationOps.** Conversations go with their channel (ON DELETE CASCADE), so
  a conversation is named by the number of its channel row, and a statement by id on a
  row that is gone finds nothing. `fresh` stands for the comparison with the
  `updatedAt` that was read (`ClearUnread`). A write takes its `updatedAt` from the clock of
  the process that sends it, in milliseconds, so it may be what another transaction
  still compares: `EndWritten` leaves that open, and `tied` records the messages that
  hides. `LockForSend` is the query of a reply as it stands, which names a table that
  does not exist and always fails. What the code does behind it, the message row, its
  enqueueing and its delivery, is in `OutboundDelivery` (from
  `CreateOutboundMessage` on) and `InboxPage` (`Written`): what these two say of replies holds once
  the name is corrected.
- **EventsFanout.** `Connect` is `subscribe`, `Disconnect` its `finalize`, `TearDown`
  and `Retry` the methods behind them. A process runs alone between two awaits, so
  each is one action. `commands` are the SUBSCRIBE and UNSUBSCRIBE commands Redis
  has not answered; `Subscribed`, `SubscribeFails` and `UnsubscribeFails` are an
  answer with the promise callbacks it runs. A listener that comes back is another
  listener. `LoseConnection` is the loss of a subscriber connection: ioredis opens
  another one, subscribes what was subscribed (`Resubscribed`) and resends what was
  unanswered, and the service is told nothing. The publisher's loses the answer to a
  PUBLISH, which is sent again (`PublishUnanswered`); a PUBLISH that Redis refuses is
  logged and dropped (`PublishFails`). The ghosts `orphaned`, `dropped` and `resent`
  name what these faults touch, so that the properties excuse no more than that.
  The lengths of the retry delays, and a resubscription that Redis refuses, are left out.
- **InboxPage.** A handler runs alone up to its next await. A call is sent, handled by
  the server at some moment (`Handle`, which fixes the state its answer carries), and
  answered (`Arrive`): answers overtake each other. `selected` is the state and
  `active` the ref that `SelectionEffect` brings after it. The server is the history
  of its states; `known` and `excused` are ghosts that record when a part shows
  something older than it showed before, and `knew` is what the page knew of the list at a
  click (`Knows`), which a refused request or a second tag request writes back. A commit is
  announced or not (`told`): members are removed without an event, a worker may die
  before it emits, Redis may lose the event (`ChangeElsewhere`), and a request
  whose enqueue fails leaves its message behind (`HandleUntold`). The part that would
  have been fetched is then excused until its next fetch. A conversation is listed
  once it has a message (`Exists`).

Properties that quote a document, a comment or a test name it in their comment.

## Runs

| Run | Question | Bounds |
|---|---|---|
| `OutboundFaults` | do timestamps and status stay consistent and earned when all faults happen together? | 1 message, 2 runs, 1 provider id, 2 attempts, 1 stall. Rows share nothing, so one message suffices; the second run gives every race of two runs |
| `OutboundLiveness` | is SENDING an exclusive lease when jobs stall, is nothing sent twice, and do queue, runs and webhooks implement `MessageLifecycle`? | 2 provider ids so that a second send can happen; 3 attempts, 1 stall |
| `WebhookFaults` | is PROCESSED only reached with the message stored, and each message announced at most once? | an Instagram text and a photo of one customer, 2 runs, 3 attempts, 1 stall; crashes, stalls, failing statements and lost commit answers |
| `WebhookIntake` | is an acknowledged payload queued while PENDING, and in the end stored and shown? | 2 texts that race for one new conversation, each delivered twice by 2 concurrent requests that die, fail to enqueue or lose their answer; 2 runs that race and retry |
| `Team` | removals, role changes and assignments interleaved with invitations that are created, revoked, accepted and expire: does an owner stay, are assignees members, is no removal refused, do the locks not deadlock, do only owners decide, does only a pending invitation admit? | 2 requests at a time, an owner and a newcomer, 2 invitations to the newcomer, as owner and as agent, so that there are two owners later; 1 conversation |
| `AccountAccess` | is a session accepted only with the password it was opened with, are set passwords replaced by resets alone, do bootstrap and recovery stay closed to all but the first? | 2 requests at a time, an owner from before passwords who is invited again, a newcomer invited as agent; 2 passwords for each, so that a reset can come between any two statements |
| `AuthLinks` | does a link work once, does a delivered one last until a newer one replaces it, does a token nobody received go away? | 1 user, both kinds, 3 tokens (an old one, and two that race), 2 requests at a time, mails that fail or whose answer is lost |
| `ConversationOps` | is nothing marked read that nobody listed but what a timestamp hid, does the tag log balance, has a connected account its channel? | 3 transactions at a time, 2 inbound messages, 2 connects (so that an account comes back); any two writes may have the same millisecond |
| `EventsFanout` | while listeners, subscriptions, processes and connections to Redis come and go: is each event heard once, does a subscribed process hear, is it subscribed in the end exactly while it has listeners? | 2 processes, 2 listeners (so that one comes while the commands of the other are unanswered), 1 event; one failure of each kind: a refused subscription that is wanted, one that is not, a refused unsubscription, a lost subscriber connection, a PUBLISH that is sent twice, one that is refused |
| `InboxPage` | does what is shown belong to the active conversation, is it current when nothing is on its way, and does the page come to rest? | 2 conversations, 1 tag, 3 calls in flight, 2 surprises (user actions, changes elsewhere, announced or not, broken streams) on a page that has loaded, 1 failing request |
| `WebhookDuplicate`, `StaleSubscribe` | what a comment or a test says and the code does not do | the smallest instance that shows it |

Two more configurations of `MCConversationOps` end in a violation and are kept to
reproduce the findings below: `ChannelHistory.cfg` (`HistoryStays`) and
`SameMillisecond.cfg` (`UnreadIsKept`).

Bounds on attempts, stalls, deliveries and so on are constants of the modules
(`MaxAttempts`, `MaxStalls`, `MaxDeliveries`, `MaxFailures`, `MaxPasswords`,
`MaxConnects`, `MaxSurprises`, `MaxCalls`; `RowsLeft` in `AuthLinks`).
Sets of runs, requests, messages and provider ids are symmetric; symmetry is used in runs without
liveness only. Deadlock is checked in the team run, whose requests never run
out. Elsewhere everything may be done (every message sent, every listener gone,
every token used), and the cfg says so. In a membership's
lifetime its id is used once: a member who comes back gets a new id, which
the bound on `Members` leaves out.

Constants that narrow a run, because with another value the property fails and no
document promises it:

- `Faults` in `OutboundLiveness` has lost locks only: with a crash behind the claim
  the message stays SENDING for ever, with a lost provider answer it is sent twice.
- `Faults` in `WebhookIntake` has those of requests only: a crash of the last attempt's run
  leaves the event PENDING with a job that failed for good.
- `Faults` in `AuthLinks` has lost answers of mails only: when the statement that withdraws a
  token fails, or the process dies between the mail and it (`auth.service.ts:776-778`),
  the token stays active until it expires or is replaced, and `NoUnusableLinkRemains`
  fails. `docs/ARCHITECTURE.md:43` promises the withdrawal, not that it succeeds. The run's
  other properties are proved with that fault.

**Fairness.** Weak fairness of each run's, each request's and each transaction's next
step says that the event loop resumes every promise and that databases, Redis and
providers answer; weak fairness of `PickUp` that the BullMQ workers poll; of
`Stall` on jobs without an owner that the stalled check runs. In `AuthLinks` the steps
of a request are strongly fair: a statement that waits for a row's lock is
enabled again and again while newer requests take it, and PostgreSQL queues its
waiters. In `EventsFanout` Redis answers, timers fire and messages arrive; in
`InboxPage` calls are handled and answered, effects run and the stream
reconnects. Nothing is assumed of users, of agents elsewhere, of what the provider
reports, or of faults: they need not happen and need not stop, apart from the bounds.

## Proofs

Every safety property that a passing run checks is proved for every value of the
constants under the named ASSUMEs: any number of messages, runs, users, requests,
listeners, conversations and calls in flight. Each module's `TypeCorrect` states that its
TypeOK holds. None of the properties is inductive as it stands; what follows is
what had to be added. Four theorems assume a bound on the faults, because the code does
not keep the property without it (see Runs and Findings).

**OutboundDelivery.**
- `WellFormed` adds `Ownership` to TypeOK: a run that is not idle has a message, a
  recorded provider id was given for that message, a webhook is about an accepted message.
- `StampsAlwaysConsistent` needs `SnapshotsAged`: what a webhook has read is still
  set when it writes, `failedAt` apart, because columns other than `failedAt` are
  never cleared.
- `StatusAlwaysEarned` follows from `Ownership` and what webhooks may report.
- `LeaseIsExclusive`, `NoSendIsRepeated` and `LifecycleIsFollowed`, for crashes and
  lost locks only (`CrashAndStallOnly`), rest on `RightInv`: at most one run or one
  live provider id has the right to each message (`RunHasRight`, `PidHasRight`), a
  recording run's id is live (`RecordPending`), and a job exists only after its
  request (`JobAfterRequest`). With a lost provider answer or a failing database they
  do not hold.
- `LifecycleIsFollowed` is the safety part of the refinement: each action of
  `OutboundDelivery` maps to a step of `MessageLifecycle` or to none. It also needs
  `Begun` (nothing is reported on a provider id that was not handed out).
- The queue's lemmas (`QueueTypePreserved`, `StalledTypePreserved`,
  `AbsentJobsPreserved`) go through `QueueMove`, the one shape all steps of `BullQueue` have.

**WebhookPipeline.**
- `ProcessedIsAlwaysPersisted` rests on `References` (a run works on the payload of
  its job, and on a conversation only if that payload has a text).
- `AlwaysEmittedOnce` needs `OneStorer` (one transaction at a time is about to store a
  text, which is not there yet: the insert waits for the holder of the same key) and
  `OneAnnouncer` (one run is about to announce a stored text, which nobody has done).
- `AcknowledgedIsAlwaysQueued`, where only requests fail (`OnlyRequestsFail`), needs
  that a job in work belongs to one run (`RunsOwnJobs`), that a run which returns or
  gives up has decided its event (`RunsDecide`), and that an answer in preparation is
  already true (`AnswersKeep`).

**TeamMembership.** One inductive invariant, `TeamInv`, carries the theorems about
memberships (`TeamStaysWhole`, `AssigneesAreMembers`, `OnlyOwnersDecide`,
`LockersNeverDeadlock`, `RemovalsAreNotRefused`). Its parts: the two parties of a
request are locked or still to be locked until it decides, and then locked with the
actor an owner (`PartiesLocked`); locked rows exist (`LockedArePresent`); locks
are taken in order (`LockedInOrder`); the target of an assignment is share-locked
(`TargetStays`); a removal has found every conversation (`ToUnassign`); locks
exclude each other (`LocksExclude`). A step is shown to have a bounded effect
on the rest (`Effect`) and to restore its own slot's part (`Own`); `OthersKeep`
then preserves everything else once for all actions. The argument shows that
the `ownerCount` checks are redundant: an actor other than the target is a locked
owner and remains one. `AdmissionsAreValid` adds `InvitesReserved`: the invitation an
acceptance is about to use is locked by it and pending, although it was read before.

**AccountAccess.** `AccessInv` relates what requests have read to what is there now.
`SessionsAreEarned` needs `Earned`: a `sessionVersion` that is still the account's was
read together with the password it still has (`Fresh`), in every cookie and every
request on its way to one. It exempts the sessions `acceptInvite` signs for the holder of
another session, which it does not look at again (`team.service.ts:272-384`): a reset in
between does not stop it, and the new session has the version after the reset. `AtMostOneFirstOwner` needs the advisory lock (`LocksExclude`)
and that a database without accounts serves nobody (`Accounts`, `AllServe`).
`SetPasswordsStay` and `RecoveryStaysLastResort` need `LocksProtect`: the password
somebody is about to set is null until it is set, and while one owner is being recovered so
are those of all owners. `AccessAssumption` has an owner in an organization that is
there at the start, as the bootstrap leaves it; a database without accounts then has no
invitations to accept.

**AuthLinks.** `LinkInv` has the locks (`LocksProtect`: a token a transaction has locked
is active and locked by nobody else), who refers to which token (`References`), and
that enough unused rows are left for the requests under way (`RowsSuffice`, an argument
about cardinalities, for which links and slots are finite). `LinksWorkOnce` and
`DeliveredLinksLast` follow for each step.

**ConversationOps.** `ConversationInv`: rows are numbered as they are inserted, and one
that a transaction is about to write to stays (`Numbers`); one transaction holds the
channel it has inserted, one the account (`OneHolder`), which gives `AccountKeepsChannel`;
a list of messages is whole, `tied` ones apart, while
`updatedAt` is what its reader has seen (`ListIsWhole`), which gives `ReadIsAlwaysSeen`: a
conversation that is not unread has no message that nobody has listed, unless the
message's write had the millisecond of the one before (with `UnreadIsKept`, the same without the
exemption, `SameMillisecond.cfg` shows what that costs); the log adds up at every commit
(`TagsCounted`).

**EventsFanout.** `ListenersHearOnce` follows an event from its emitter over the
Redis channel to each process (`Travels`, `Heard`). `SubscribedAlwaysHears`, which assumes
nothing of the faults and excepts only processes whose handler a stale failure has
deleted (`orphaned`), rests on `Subscription`: the subscription a process waits
for is the last command it sent and the only one of its generation, and a channel that went
with its connection is about to be subscribed again (`Renewed`). The bound on generations in TypeOK needs a count of its own:
every generation of a process had a listener that no other had (`Connections`).

**InboxPage.** `QuietPageIsCurrent` is proved from `PageInv`. For each part of the page
(list, messages, notes) `CaughtUp` says that a fetch is on its way that will see the
latest state, or an event is that will cause such a fetch, or nothing has changed since
the state the part is known to show. `ShownMessages`, `ShownNotes` and `ShownList` then
say what the part shows once it is caught up; the list may differ from the server in
the fields that a request on its way has changed before its answer (`RightItem`), or in
its filter while the fetch for it is out (`RightFilter`). A change of which nobody is told
counts as known and excused when it is committed (`Misses`), so that what the theorem says
of the other parts does not depend on events that never come. `Spinner` has a fetch under way
while the spinner shows. `Proper` says what a call in
flight may carry. A server step either leaves a part alone, announces it, or misses the page
(`Moves`); a step of the page leaves the calls that matter in flight (`CallsKeep`) or
replaces them. `ShownAlwaysBelongs` is inductive with these types.

What the proofs changed in the models: `AtProvider` chose between overlapping guards
(`OutboundDelivery`). In `InboxPage` a click recorded a state of the list that the list did
not show (while an older list was up, or while another tag request was in flight), which
only a longer run than TLC's would have reached; `Knows` now records none in these
cases. The bound on the versions of that module's history is gone.

**Only model-checked:** liveness (`AcknowledgedIsShown`, `NoUnusableLinkRemains`,
`SubscribedIsReached`, `SubscriptionsFollowListeners`, `RefreshesEnd` and the fairness of
`ImplementsLifecycle`), which is out of the prover's reach, and what `WebhookPayload`
computes (through `MCWebhookPipeline`). That the data of the payloads satisfy
`PayloadAssumption` TLC evaluates in each run.

## Findings

- `WebhookDuplicate`: the no-op for duplicate provider ids runs in an aborted
  transaction, so the event ends FAILED (`webhooks.worker.service.ts:214`).
- `ChannelHistory.cfg`: a disconnect deletes a channel it found empty in an earlier
  statement, and with it a first message stored in between
  (`channels.service.ts:259`).
- `StaleSubscribe`: the failure of an abandoned subscription removes the handler of its
  successor, and the process stays deaf until its listeners leave
  (`redis-pubsub-events.transport.ts:88`). A test
  (`events.service.spec.ts:222`) expects the second listener to hear; it mocks the transport.
- `SameMillisecond.cfg`: the read mark is cleared where `updatedAt` is unchanged
  (`conversations.service.ts:216`), a column with milliseconds (`schema.prisma:125`). Two
  writes with the same one hide the second message from the comparison. Prisma sets the
  time before the statement waits for a row lock, so two webhooks of one customer that
  arrive together are enough, or two processes whose clocks differ.
- A reply locks its conversation in a table `"Conversation"`
  (`conversations.service.ts:260`); the schema maps it to `conversations`
  (`schema.prisma:140`), so on PostgreSQL every reply
  fails, although `docs/ARCHITECTURE.md:78-80` has it stored as QUEUED and enqueued; the
  unit tests mock the query. `LockForSend` is that statement: it fails in every state, so
  there is nothing for a run to find. The other raw queries
  (`team.service.ts:743`, `auth.service.ts:570`) use the mapped names.

Behaviour that no document or test excludes, and that the models therefore contain
without a run that fails on it:

- Two status webhooks that overlap take READ back (`webhooks.worker.service.ts:227`);
  an early status report is dropped (`:244`).
- A run that dies behind its claim leaves SENDING for ever
  (`outbound.worker.service.ts:54`), and a process that dies before `queue.add` leaves
  QUEUED without a job (`conversations.service.ts:310`).
- A job that failed for good swallows every re-enqueue of its PENDING event
  (`webhooks.queue.service.ts:62`). Of a batched body only the first text counts
  (`whatsapp-payload.ts:83`).
- A PUBLISH that Redis refuses is only logged (`events.service.ts:100`), what is published
  while a subscriber reconnects is gone (`redis-pubsub-events.transport.ts:51`), and a
  PUBLISH that ioredis sends again is heard twice (`:68`).
- Members are removed without an event although their conversations lose the assignee
  (`team.service.ts:688`); a reply whose enqueue fails stays, and neither its sender's
  page nor any other is told (`conversations.service.ts:311`); a worker that dies
  between commit and emit announces nothing (`webhooks.worker.service.ts:115`).
- A failed mail whose withdrawal fails too leaves an active token nobody has
  (`auth.service.ts:777`).
- Recovery goes on for an owner who is demoted or removed between its first two
  statements (`auth.service.ts:534`): who has the recovery secret then sets the password of an
  account that owns nothing.
- A revocation that overlaps an acceptance leaves the invitation both accepted
  and revoked (`team.service.ts:564`). `acceptInvite` looks the other row up after
  a unique violation, in a transaction that is already aborted (`:337`), and signs a
  session for the holder of one that was checked before its transaction (`:272`).
- Two requests that resolve at once both write an audit entry
  (`conversations.service.ts:507`).
- The page shows an older list when its answer is the last to arrive (`page.tsx:210`), misses
  events while the stream reconnects (`:543`), writes back what it remembered when a
  change fails (`:832`), and shows a spinner for a conversation it has left
  (`:599`). `QuietIsCurrent` excuses these, failed fetches, and changes
  announced to nobody, each for the parts it concerns and until their next fetch.

## Not modelled

What BullMQ does with job ids: both queues use ids with a colon
(`outbound.queue.service.ts:65`, `webhooks.queue.service.ts:62`), which `BullQueue` takes to be accepted as
the tests of both do; releases of BullMQ 5 (5.70.1 is locked) restrict colons in custom ids, and
where one is refused every `Enqueue` is an `EnqueueThrows`. The early return of an outbound run
whose row is missing or not OUTBOUND (`outbound.worker.service.ts:79`): rows are enqueued as
OUTBOUND, and only a deleted channel takes them away.

The inline fallback of the queues in development; signature checks and the verification
handshake of webhooks; media and message wording; audit entries other than those of
tags, which are written by the statement's own transaction; several
organizations in one account; status webhooks of Instagram, which the code does
not read; expiry of session cookies, logout (it only clears the cookie) and the
login mode that requires a verified address; members, session and layout of
the inbox page. Credential encryption, the audit log's query, development and health
endpoints, the other pages and the scripts are sequential: one request or one library
call, with nothing to interleave. Passwords, hashes and keys are data: the models only ask which
one it is.

## Plan

All components whose state several actors share are modelled, and their safety properties are
proved. What is left:

1. Facts about `WebhookPayload`: that a dedupe key determines its event, that only texts
   of the account in the body are extracted.
2. Statements for the hazards without a property that the code can be held to: at most
   one audit entry per status change, and a status that never goes back while reports
   do not overlap.
3. Shorter proofs: the steps of the three lock-based modules that leave a request's
   part alone go through one lemma in `TeamMembershipProofs` only.
