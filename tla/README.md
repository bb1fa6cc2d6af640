# Formal model of ai-apply

This directory holds TLA+ specifications of ai-apply, the configurations that check them with TLC, and proofs
that the TLA+ proof system checks. Everything is translated from the source; where a document or a comment says
something else, a run shows the difference (see "Divergences") or section 5 tells it.

## 1. The system

A user (dashboard or browser extension) starts an application with an HTTP request. The API writes an
`applications` row and an `application_jobs` row in Postgres, commits, and enqueues a BullMQ job in Redis. The
*process worker* parses the job description and generates an email (or holds the application for review), and
orders the send; the *send worker* delivers it through Gmail. A *recovery job* looks every five minutes for rows
that got stuck. Each change is published over Redis and SSE to the user's browser tabs, of which one leads and
keeps the stream. Around this core stand the accounts (sessions, keys of language models, mailbox, plans,
payments, quotas), the pages that order and show applications, and the extension.

```
HTTP command --tx--> Postgres rows --enqueue--> BullMQ --> worker --CAS, tx--> Postgres rows --> ...
                          ^                        ^          |                    |
                          +------ recovery job ----+          |    publish queue -> SSE -> client registry
                                                              |
 session, setup, plan, quota: who may order    AI gateway -> adapters (parse, write);  Gmail tokens (send)
```

### Inventory

| Component | State it keeps | Operations | Hard behaviour | Correct when |
|---|---|---|---|---|
| Rows and CAS (`models`, `transition*State.js`) | applications and application_jobs rows | read, create row, compare-and-swap | every writer may have a stale view | history kept, review_reason exact |
| BullMQ queues (`queues/*`) | one job per queue and application: state, attempts, stalls, lock | enqueue, take, finish, stall, expire | retained jobs swallow enqueues; a stalled job runs twice | every job has its row |
| Process worker | progress of each call | load, claim, generate, commit, enqueue, fail | claim races, conflict in the transaction, errors in the catch block, retried attempts | one call per row; drafts get processed |
| Send worker | progress of each call, mails sent | load, claim, deliver, mark sent, finish, requeue, fail | death between delivery and bookkeeping | one mail; "completed" means mailed |
| Commands (`applicationCommandService`, `mailService`) | progress of each request | auto-apply, continue, retry, send, cancel | check, write and enqueue are separate statements | keeps the workflow |
| Recovery (`recovery.job.js`) | progress of the sweep | pick, inspect, sync, enqueue, fail, reset | acts on what it read earlier; dies half-way | stuck work goes on |
| Business workflow (`state-model.md`) | status, email ready, send ordered, mails | generate, hold, release, order, deliver, finish, fail, reopen, cancel | none: it is the promise | all of the above implement it |
| UI status resolver | none (projection) | resolve | rows written at different times | work in progress is polled |
| Realtime publish pipeline | pending entries, committed flags, batch, duplicate registry | enqueue, mark, flush, sweep, evict, publish | flush against merge, overflow | committed changes are handed over |
| SSE stream, gateway and replay | buffer, connection, client's transport and replay queue | publish, trim, connect, replay, cut | events published while a replay is read | no gap in an answered replay |
| SSE connection registry | one response per tab | open, replace, close, reap, write | late clean-up of an earlier stream | the newest stream is served |
| Client registry and reconciliation | version and epoch, list row | event, poll, heal, hydrate, revive | reordered, duplicated, stale data | versions do not fall, an end is shown |
| Tab leadership | lease in localStorage | claim, renew, lose, close | read and write are two steps | stale leaders are told; one comes to lead |
| Database resilience | failures, opened, attempts | query, retry, open | half open without a single probe | bounded repeats |
| AI gateway | circuit, probe, keys' health | call, fall back, answer | late answers, aborts | the probe is given back |
| Provider adapters | one call | ask, repeat, judge | the reason of an error is only in its words | an outage is not held against the key |
| AI credentials | chain of keys, health cache | save, test, promote, move, delete | read first, write later | chain in order, "valid" was tested |
| Platform AI configuration | models, keys, configuration, copies, panel | save, toggle, delete, fail over, load | failover against a save, stale drafts | the model in use has a key |
| Model certification | the run and its attempts | parse, write, judge, rank | averages, unknown costs, fallbacks | a rating says what it seems to |
| Quota, usage, referral | counters, records, rewards | check, count, record, retry, reward | check long before the count | count within the limit |
| Billing and subscriptions | orders, payments, periods, campaigns | verify, webhook, grant, trial, cancel, expire | two ways to grant one payment | a payment gives access |
| Checkout pages | pages, orders, price, campaign | show, order, pay, verify, edit | what was shown is old | charged as shown, granted as ordered |
| Plan administration | plans, prices, entitlements, drafts | edit, duplicate, save | most of a save is outside its transaction | what is shown is granted |
| Gmail and OAuth tokens | tokens, lock | connect, refresh, send, disconnect | two refreshes of one token | one renewal, no revoked token |
| Authentication and session | Supabase session, page, rows of users | sign in and out, renew, request, refuse | old answers after a change | all agree on who is signed in |
| Onboarding and setup status | resumes, mailbox, choices, cached status | step, skip, upload, connect, guard | cached and failed statuses | the step shown is owed |
| Resume jobs | in-memory maps, result cache | upload, parse, store, poll, prune | shared by the file's hash | completed means stored |
| JD parsing, email drafts | none | parse, score, decide; draft, rewrite | facts displace each other; thresholds in two files | no fact hurts; a rewrite is explained |
| Apply composer and style | text, previews, style, submission | paste, preview, choose, submit | late answers | mail and text belong together |
| Applications page | cached lists, selection, bulk actions | fetch, select, delete, send | a refetch older than a deletion | deleted rows stay away |
| Details sheet and mail edits | row, sheet, requests | edit, save, send, write over | check and write are two statements | what was ordered is mailed |
| Tracker statuses | the user's list, labels | create, delete, assign | the list is written as a whole | labels are in the list |
| Extension session, status, LinkedIn page | tokens, cached status, buttons of posts | connect, renew, toggle, scan, tap | unordered requests, a stopped worker | what is shown is so |
| Model promotion | runs, offered models, panels, their requests | run, select, promote, withdraw, load | answers in any order, runs that outlast their page | what is offered passed or was confirmed |
| Administration of settings | settings, copies, pages with drafts | load, type, save key by key, look up | stale pages and copies, half a save | only what was meant is changed |
| Process lifecycle, legacy apply, users page, presentation | - | - | - | not modelled (section 6) |

`PROJECT.json` lists the same components with their source files and status, and under `hazards` each place in
the code where something can go wrong that a test would hardly reach.

## 2. Modules

```
ApplicationStore <- BullQueue <- Workers <- Commands <- Recovery <- ApplicationLifecycle   (EXTENDS)
ApplicationWorkflow  <-- INSTANCE (refinement) -- ApplicationLifecycle
ApplicationLifecycle <- UiStatus <- MCApplicationLifecycle (TLC)
ApplicationLifecycle <- LifecycleProofs (TLAPS)

PgRetries       EXTENDS AiGateway                    ExtensionStatus EXTENDS ExtensionSession LinkedInPosts
EmailDrafts     EXTENDS JdParsing                    PlatformAi      EXTENDS Certification ModelPromotion
PlanEditor      EXTENDS CheckoutPages                (each states the property of the modules it joins)
MCPlatform      EXTENDS PublishPipeline RealtimeStream ClientStore TabLeadership SseRegistry PgRetries
                        ProviderCalls PlatformAi Certification ModelPromotion ResumeJobs JdParsing
                        EmailDrafts EmailEdits ApplyComposer ApplicationsPage TrackerStatuses
                        ExtensionSession ExtensionStatus LinkedInPosts
MCAccounts      EXTENDS UserSession Onboarding AiCredentials BillingAccess CheckoutPages PlanEditor
                        QuotaAccounting MailAccounts AdminSettings
MCRealtime      EXTENDS PublishPipeline RealtimeStream ClientStore TabLeadership   (with fairness)
PlatformProofs  EXTENDS the modules of MCPlatform  (TLAPS)
PlatformTypes   EXTENDS PlatformProofs MCPlatform  (TLAPS)
AccountProofs   EXTENDS MCAccounts  (TLAPS)
```

### The application lifecycle

- **ApplicationStore**: `app` (status, whether review_reason is set, whether there is an email, retry_count) and
  `jobs` (per type, the statuses of the rows in creation order). `CasApp` and `CasJob` are
  `transitionApplicationState` and `transitionJobState`. Also the budgets (`Limit`, `spent`) of what the
  environment does.
- **BullQueue**: `bull`, per queue the one job the deterministic id allows. `Enqueue` does nothing while a job
  of that id exists, finished and retained ones included. BullMQ is a library and its side is modelled from how
  the queue modules configure it (removeOnComplete/removeOnFail, attempts, one stall).
- **Workers**: `run`, the processor calls in progress with their local variables (`row`, `made`, `seen`,
  `email`), and the history variable `mails`. One action per statement or external call of the two processors,
  their catch blocks and `safePersistApplicationFailure`; plus crash, lost lock, expiry. `DeliverThenFault`: a
  send that throws after the mail went out (touchLastUsed, mailDeliveryService.js:50-69).
- **Commands**: `reqs`, the requests in progress: retry (read, check, count, reopen, create, enqueue), continue
  (check, transaction, enqueue), send (read, check, create, enqueue), cancel (one CAS), auto-apply's enqueue.
- **Recovery**: `rec`, the sweep in progress with the row it read. `QueuedVerdict` and `ProcessingVerdict` are
  the decisions of the two loops; each repair statement is an action.
- **ApplicationLifecycle**: composition, fairness, and all properties.
- **ApplicationWorkflow**: what a user is promised, without queues, workers or recovery: the business states and
  the order in which a mail is prepared, ordered and delivered.
- **UiStatus**: the projection of rows to one status and capabilities, rule by rule, and the client's test for
  polling. No state of its own; its property reads the lifecycle's.

### Events and views

- **PublishPipeline**: `pending` is `postCommitPublishQueue`, `openTx` the transactions that have updated a row,
  `flush` the running flush with the entries it still owes, `batch` and `publishing` the batch processor and its
  overlapping `flushBatch` calls, plus the duplicate registry. A payload is a version and terminal or not.
  `fanOutRealtimePayload`'s duplicate check and emission are one synchronous step. Either read of a publication may
  be rejected (`ReadFails`): its catch logs and drops the event, whose batch entry is gone. Over Redis the event may
  get lost after that. Both are noted in `unheard`.
- **RealtimeStream**: the buffer in both modes (memory, Redis stream whose MAXLEN "~" may keep more than asked),
  the request with its replay (`conn`; Redis may refuse to answer, and the request then goes on with nothing), the
  client's transport (`phase`, attempts, backoff tiers), replay queue, batches and recovery. Event *n* carries
  version *n*.
- **SseRegistry**: `entryOf` is `connectionsByUserTab`, `stream` every response there was, with its heartbeats
  and its late close event.
- **ClientStore**: `registry`, `listRow`, `early` (the buffer before hydration), and every path that writes
  them: stream, replay, batch, poll, heal, hydration, list answer, the user's own patch. The server is a
  snapshot (version, epoch, terminal), and the stream may deliver any published snapshot at any time and again.
- **TabLeadership**: the lease; reading it (`leaseRead`) and writing it are two steps; `told` are tabs with a
  storage event to handle. Closing, killed and throttled tabs.
- **ApplicationsPage**, **ApplyComposer**, **EmailEdits**: pages with every request under way as state, so that
  answers may come in any order. In EmailEdits a letter is at the pages or in the hands of a worker
  (`letterJob`), and `redo` is its renewed processing; the sheet has its own copy, editor and requests.
- **TrackerStatuses**: `statusList` is one JSON value that dialogs read and write as a whole; `edit` is the
  request of each cell of the table, or of the bulk bar, `labelling` a worker's automatic label. Both look at the
  list as `getTrackerStatusOptions` does: read, write back (what is stored never serializes to what was read), give
  the default labels, and only then their own write, each a statement. `strayed` (history) holds the statuses that
  such overlaps have lost.
- **Onboarding**: `member` (the account), `setup` (the page's cached status and its fetch), `choices`
  (localStorage), `place` (the route and the celebration); guards are operators of the cached status.
- **ExtensionSession**, **ExtensionStatus**, **LinkedInPosts**: the extension's stored session and its renewals,
  where any answer that brings no new tokens (429, 5xx, a body without the access token) clears the session as a
  refusal does (`BadAnswer`); its cached status and the popup; one post with its buttons, scans and taps.

### Language models

- **AiGateway**: `circuit`, the calls with the credentials left to them, `health` of each credential. Late
  answers of calls from before the circuit changed are ordinary steps.
- **ProviderCalls**: one call through one of five kinds of adapters. An error is a status, a code and the words
  the retry policy looks for; `KeyRefused`, `TransportTrouble` and the repeats are the adapters' and
  `callWithRetry`'s. What AiGateway's `CredentialFails` leaves open is decided here.
- **AiCredentials**: `chain` (priority, key, status), requests with what they read (`seenKeys`), `healthCache`.
- **PlatformAi**: `catalogue`, `aiKeys`, `aiConfig`, a process's copy with its age, one administrator's panel
  and another administrator's requests, each statement of a failover a step.
- **Certification**: `bench`, a run of attempts with their text source, score and cost; averages, ranking and
  verdict as the code computes them. **ModelPromotion**: the panel around such runs: `runRows`, the offered models
  (`choice`), each administrator's page (`desk`) and its requests under way; `confirmed` is history.
- **JdParsing**, **EmailDrafts**: pure algorithms as operators over sets of facts (a text, a draft), with the
  few steps around them (attempts, the rewrite).
- **ResumeJobs**: jobs, `inflightJobs` by hash, result cache, the polled registry.

### Accounts

- **UserSession**: `login` (what Supabase keeps for the browser), `page` (AuthContext: session, token, user),
  `request`, `logout` in flight, `server` (signing keys, rows of users). A getSession that fails empties the mirrored
  token and the request goes out without a header (`SendWithoutToken`), while the session stays.
- **BillingAccess**: payments, periods, campaigns, and requests that grant with what they read (READ COMMITTED).
  **CheckoutPages** has what comes before: pages, orders and their prices, and for each order two settlements
  (`settling`), the verification's and the webhook's. Each looks for the payment (`FindsNoPayment`, `FindsPayment`),
  reads the live row (`ReadsLiveRow`) and writes what it computed from it (`WritesPeriod`), so that two of them may
  grant one payment twice or write over one another; `met` (history) notes the orders whose settlement was under way
  together with another one. `order[o].granted` are the days of access that are there for a payment.
- **PlanEditor**: `plans`, `prices`, the setting of a single popular plan (`singleBadge`), and editors with a draft
  and how far their save is.
- **AdminSettings**: `setting` (three tables), `settingCopy` of each process with what it misses, `form` (four
  kinds of pages: what they show, their draft, what their save still has to write), writes of limits that
  straggle.
- **QuotaAccounting**: counter, records, owed reconciliations, consumers between their two writes, referrals. The
  limit is the plan's quota (`planQuota`, which another plan, its end or an edit replaces at any time) and what was
  given on top (`bonusSends`); whoever looks at it may also find that there is none (`limitless`: paywall off, a
  trial by time, a plan without a quota), whereupon the application is recorded and not counted (`uncharged`).
- **MailAccounts**: the row, refresh tokens as numbers, the Redis lock, jobs that renew, a consent and a
  disconnect in progress.
- **PgRetries**: failures, the circuit, calls with their attempts. (It is checked with Platform.) It extends
  AiGateway because the property of the two circuit breakers is one. In the same way ExtensionStatus, EmailDrafts,
  PlanEditor and PlatformAi extend the modules whose property they share; they use nothing else of them.

### How code becomes steps

- *One application* in the lifecycle: no lifecycle statement touches two of them.
- *Grain.* A step is one database statement or one external call, so that anything may happen between two steps
  of a handler. A transaction is one step where it locks its row from the first update to COMMIT, and several
  where it does not. Consecutive reads before the first decision that depends on them are one step. In a
  browser, a step is what runs between two turns of the event loop.
- *Time.* Ages, debounces, cooldowns and timeouts are reached at any moment, unless the code orders them.
  Recovery looks at a queued row five minutes after its creation, when its creator has enqueued it or is dead
  (`EnqueuePending`). A processing row is examined after fifteen minutes without an update; a call may take
  longer than that, so the model allows it at any moment.
- *Data.* A text, a key, an email is a model value or the set of facts that decide about it.
- *Counters.* `Limit` and the `Max...` constants bound how often the environment acts; attempts are constants (3
  and 5 in the code).
- *History variables* (named so in their modules) only record what has happened, so that a property can leave
  out by name what the code is known not to do; section 5 tells each of these behaviours.
- Operators commented *Faulty variant*, or named `Faulty...`, are used by no action. Each stands for a plausible
  mistake at that place; substituting it must make a property fail, which shows that the property can see it.

## 3. What is checked

Lifecycle runs use two attempts per job: enough for a first attempt, a retry and exhaustion. There are two
worker replicas, each of which runs a call of either queue, wherever a lock may be lost; `LifecycleCommands` has
one, because without crashes and stalls a job is with one replica at a time and nothing depends on which.
`CHECK_DEADLOCK FALSE` is set because a sent or cancelled application, and each component once its bounds are
used up, has nothing left to do. Symmetry of replicas and requests is used in safety runs only.

The components outside the lifecycle share runs: the first state picks one of `Parts` and only that one takes
steps, so a run's states are those of each component side by side, under one type invariant. Where components do
interact, one of them models the other's side as an environment that may do anything the other does (the stream
in ClientStore, the payment provider in CheckoutPages, the send worker in EmailEdits).

| Run | Environment may | Shows |
|---|---|---|
| `LifecycleCommands` | 2 requests at a time; 1 retry, 2 continues, 2 sends, 1 permanent error | `TypeOK`, `CompletedSendMeansMailed`, `JobHasRow`, `ReviewReasonMatchesStatus`, `WorkIsWatched`, `AttemptsAreHistory` |
| `LifecycleCrashes` | crash, lost enqueue, aborted sweep, transient error, retry, 1 each | `AtMostOneMail` |
| `LifecycleTroubles` | stall under a live worker, failing statement, unclassified and permanent error, expiry, 1 each | `ExclusiveClaim`, `ImplementsWorkflow` |
| `ProcessLiveness` | crash, lost enqueue, 2 transient errors | `DraftIsProcessed` |
| `SendLiveness` | continue, send, cancel, lost enqueue, transient error, expiry | `OrderedSendSettles` |
| `Platform` | whatever the 21 parts' bounds allow | the 16 properties below |
| `Accounts` | whatever the 9 parts' bounds allow | the 9 properties below |
| `RealtimeLiveness` | the four realtime parts in smaller instances | `AnnouncedIsSeen`, `ReplayEnds`, `TerminalIsShown`, `OneLeaderComes` |
| `Doc*` | at most two events | the divergences below |

The lifecycle's properties:

- `JobHasRow`: database before queue. Whoever holds or is about to enqueue a BullMQ job, the row its worker will
  look up exists.
- `ExclusiveClaim`: BullMQ may deliver a job twice (stall, re-enqueue); the CAS queued -> processing lets one
  call execute a row, and no requeue, repair or retry makes a row claimable while it is executed.
- `AtMostOneMail`: requests, recovery and replicas in any order, one crash at any point included. One crash is
  harmless: the row stays in processing and the stalled job's second call loses its claim.
- `CompletedSendMeansMailed`: continue, send and the worker answer "already sent" when they see a completed send
  row.
- `ReviewReasonMatchesStatus`: retry and the recovery queries test review_reason next to the status.
- `AttemptsAreHistory`: no step removes a job row or rewrites one that has ended, whatever the step had read
  before. (Deleting the application itself, which takes its job rows along, is outside this model: section 6. This
  goes for `JobHasRow` too.)
- `WorkIsWatched`: while a call executes a job row, the client keeps polling the application, unless the user
  has cancelled, the mail is out, or the user has to answer first.
- `ImplementsWorkflow`: every step is a step of `ApplicationWorkflow` or leaves business state alone. In
  particular only a failed application is reopened, "sent" follows a mail, and no mail goes out before an order.
- `DraftIsProcessed`, `OrderedSendSettles`: attempts and recovery together get stuck work on.

The realtime chain's: `AnnouncedIsSeen` (a committed change that was announced is published, or its publication was
lost on the way: a rejected read, or Redis), `ReplayEnds`, `TerminalIsShown`, `OneLeaderComes`.

Those of `Platform` (a property named after its module's concern joins several of it, so that one run sees them
all):

| Property | Part | Says |
|---|---|---|
| `PlatformTypeOK` | all | types, per part |
| `CommittedIsHandedOver` | publish | whatever overflows and expires, an entry whose change is committed leaves the queue only into a batch |
| `AnsweredReplayHasNoGap` | stream | what was buffered at the request and what was fanned out while its replay was read is on the connection, except what may have been trimmed meanwhile, and unless Redis could not be read |
| `RegistryIsSound` | store | the registry's version never falls but by a hydration; a hydration leaves no newer admissible frame waiting; a row that shows an end becomes active again only for a later epoch, the user, a list, or an answer older than the list (section 5) |
| `LeadersAreKnown` | tabs | a tab that leads wrongly has a storage event coming; only a leading tab streams |
| `NewestIsServed` | registry | however late the end of earlier connections is noticed, the newest open one is the tab's |
| `JobsAreServed` | resumes | completed means stored; a hash in the map means a parse that runs |
| `BreakersAreSound` | gateway, queries | the half-open probe is held by a call that runs; a closed circuit is below its threshold; while the database's circuit is hot a query is repeated once at most |
| `VerdictsAgree` | calls | a refused key is noticed; an outage is not held against it; what lasts is not asked again |
| `PlatformAiIsSound` | platformAi, certification, promotion | the rating is fair; a model users may choose passed, or was promoted after a confirmation; the copy is of what is configured; after changes that ran alone the configured provider has a key if any has; the panel saves a model of the provider it shows |
| `JudgementsAreFair` | parsing, drafts | no fact that speaks for a description lowers its outcome; a rewrite has a reason the critique names, or opens with a greeting and a hook over a text that reads badly |
| `MailedAsShown` | edits | what the user's screen showed at the order is what the worker mails; what a sent application shows is what was mailed |
| `ComposerIsSound` | composer | what goes out was written for that text; the style stored is the one chosen last; no submission follows without the user |
| `DeletedStayGone` | page | rows whose deletion was answered do not come back to the list on screen |
| `LabelsAreListed` | tracker | no application bears a label that is not in the list, unless its deletion is clearing it or the label has strayed: a write of an older list dropped it (workers' looks at the list included), it was given when it was gone, or its deletion was cut short |
| `ExtensionIsSound` | extension, status, posts | cache and popup show the account's mode; a queued post stays queued; unless renewals crossed, the storage is emptied only of a session that has ended, by the user, by a bad answer to a renewal, or by a second attempt that failed too |

Those of `Accounts`:

| Property | Part | Says |
|---|---|---|
| `AccountsTypeOK` | all | types, per part; amounts are at least the provider's minimum |
| `SessionIsSound` | session | once nothing is under way page and user are Supabase's session, and the token is too or could not be read for the last request; an account with a good token is not thrown out |
| `OnboardingIsSound` | onboarding | the step shown is owed; ready means a resume is found; nobody leaves the dashboard for the onboarding |
| `CredentialsAreSound` | chain | priorities are 0..n-1; "valid" was tested with that key |
| `BillingIsSound` | billing | what is settled is recorded; no campaign beyond its slots; the commit of a payment leaves live access |
| `SalesAreSound` | checkout, planEditor | one discount; charged no more than shown; a payment whose settlement met no other is granted what was ordered, once, by verification or webhook, and keeps it whatever is settled later; a paid subscription never becomes a trial; what a plan shows is granted; one badge, unless saves crossed, broke off or ran with the setting off; a price is changed by a save of its own plan only |
| `SettingsAreSound` | settings | a process drops its copy when it writes; pages show what is stored until somebody writes it; a save changes what its administrator typed or had not seen |
| `CountIsBounded` | quota | what is recorded was counted, but for what was found without a limit; past its first count the counter stays within the highest limit there has been |
| `RenewalsAgree` | mail | one renewal per expiry; a revoked account's token is not accepted any more |

### Bounds

Two of whatever competes (applications, publishers, tabs, streams' tabs, calls, uploads, files, queries,
senders, fetches, cells, texts, styles, rows, views, requests, buttons, identities, keys, secrets, editors,
plans, payments, users, administrators, letters): the races listed as hazards are between two parties. Of what
is only repeated there are one or two more: three streams of two tabs (a close that outlives two successors),
three previews, three attempts, three failures of the database's circuit (its threshold in the model), two of
the gateway's.

- Queues: `MaxPending` 1 with two applications reaches the eviction; `Retained` 1, `MaxEvents` 3 and a cut reach
  replays that are trimmed between the request and its answer, and expired ones; `MaxBacklog` 1 and
  `MaxReconnects` 1 reach the recovery tiers; `MaxEarly` 1 overflows the buffer before hydration.
- `JdParsing` takes 2 samples with every set of up to three more facts; `EmailDrafts` 4 drafts, each with all
  rewrites that differ in up to `MaxTraits` = 2 traits (one of the drafts is two traits away from the rewrite the
  critique does not explain); `LinkedInPosts` 6
  posts that take every branch of the detection; `Certification` 3 parses, judge scores 50/80/100, costs 0 and
  8, two attempts as configured.
- `ProviderCalls`: five adapters, every status the code distinguishes, up to two of seven words in a message.
- `PlatformAi`: two providers with one model and one key each, all keys there and one model or none configured at
  first, two changes (a variant that starts from any set of keys also holds).
- Also held in larger instances: `MaxTurns` 2 of the session, `MaxChainWrites` 3 from an empty chain,
  `MaxModeChanges` 2, campaigns with percent and fixed discounts, plan drafts in which several things change at
  once.
- In the checkout `MaxShopTurns` 2: two orders of two pages, or one order and one change (price edited, setting
  switched, period ended); `MaxSettlements` 2, which are verification and webhook of one order or the settlements of
  two. It starts with the dearer of two price points. In the plan editor two saves, begun with a popular plan and
  the setting on; quota: plans of no and of one send, one friend, one reward, and one failure or an administrator's
  grant.
- Settings: one page of each kind, two open at a time, three edits and saves, one lookup; each kind of setting
  has one key, which is at its default at first (the proof is for any initial settings). Promotion: one
  administrator, two runs of one model, two clicks.
- `RealtimeLiveness`: one application and publisher, one version, two tabs of which one closes.

### Limits of these results

The following do not hold in the code beyond the budgets above; TLC finds a behaviour for each when its budget
is raised.

- `AtMostOneMail` fails with an error after the delivery (`fault`: a delivery that throws, or a bookkeeping
  statement that fails), because the row is requeued and the next attempt delivers again. It also fails when a
  crash after the delivery is combined with an expired job, or with a stall under a live worker: recovery resets
  the row and another send is executed while the status is still `generated`. (Two crashes alone do not
  suffice.)
- `CompletedSendMeansMailed` fails after a crash: the stalled job's next call loses its claim and returns
  normally, BullMQ counts the job completed, and recovery completes rows on that evidence.
- `DraftIsProcessed` fails with an aborted sweep (a row in `retrying` is picked up by nobody and blocks every
  retry), with an unclassified error (see DocStuck), after two crashes (the second stall fails the BullMQ job
  with attempts left, which recovery takes for one that will be retried), and after a permanent failure (see
  DocRetry).
- A queued row whose BullMQ job has failed for good is enqueued by every sweep in vain while it is retained.
- `WorkIsWatched` fails with a stall under a live worker: recovery completes the row under the call. It also
  fails when a retry is combined with a failing statement and two permanent errors, or with two sends, two
  permanent errors and an expired job.

What section 4 proves of these three says under which of the conditions they hold for every number of requests,
workers, attempts, crashes and errors; these counterexamples (and those below the theorems) are why it has them.

### Fairness

Lifecycle: weak fairness on every begun call and request and on the sweep: workers and API processes run, and
are restarted when they die. Weak fairness on the expiry of an abandoned lock: BullMQ's stalled check. Strong
fairness on `RecPick` per type: each sweep handles every row of both queries, but the model has one sweep
record, which the other type's row may occupy. There is no fairness on commands, errors, crashes and expiry.
Nothing assumes that an attempt succeeds: the error budgets are finite, as are attempts.

`RealtimeLiveness`: weak fairness on the sweep's interval, the batch timer, a flush and a publication under way
(`AnnouncedIsSeen`); on the steps of the request handler and of the client's queues (`ReplayEnds`); on the
watchdog's request, with strong fairness on its answer, which a reconnect may take away again and again
(`TerminalIsShown`); on a tab's own timers and event handlers and the expiry of a lease nobody renews, with
strong fairness on a claim that meets no other, since tabs that claim in lockstep could go on for ever but real
timers drift (`OneLeaderComes`). Requests may fail, events be lost and tabs be closed without fairness.

### Divergences

Each is a run with one property, which TLC refutes; `PROJECT.json` quotes the sentence of the repository.

- `DocCancel`: a cancel after the send worker's first read does not stop the mail.
- `DocLastAttempt`: `willBullMqRetry` is true on the last attempt, because BullMQ has not counted it yet.
- `DocRetry`: a retry of a permanently failed application is never processed: its job id belongs to the retained
  failed job, and `Queue.add` ignores it.
- `DocStuck`: an error with `retryable = false` but without an error class ends the BullMQ job and persists
  nothing; the row stays in processing for ever.

## 4. What is proved

Every theorem is about the specification as it is checked, for all values of its constants that satisfy the named
assumptions: bounds and budgets are numbers (attempts, thresholds and limits positive where the code has them so),
"nobody", "no text" and the like are no element of the set they stand beside, and what the program cannot start
without exists (a tab in SseRegistry, a file in ResumeJobs, a letter in EmailEdits, an identity in UserSession, a key
the provider accepts in AiCredentials). Sets of workers, tabs, users, uploads, texts and so on are arbitrary, infinite
ones included, except where a count is taken: the keys of a user's chain are finitely many by assumption, and the
finiteness of what the quota, the campaign slots and the Redis streams count is part of the invariant.

### The application lifecycle

| Theorem | Module | Argument |
|---|---|---|
| `TypeCorrect` | LifecycleProofs | `TypeOK` is inductive. Lemmas give the effect of each helper (CAS, Enqueue, Goto, Catch) on the one variable it changes. |
| `JobsHaveRows` | LifecycleProofs | `JobHasRow` needs `ContinueOrdersSend` (a request at the continue transaction creates a send row). Rows only grow, and only parties at an enqueue fill a queue. |
| `ClaimsAreExclusive` | LifecycleProofs | `ClaimInv`: a call past its load has an existing row; a row under execution is not queued; no two calls execute one row. The first conjunct comes from `JobHasRow`; the second is what makes the claim a lock: a requeue is done only by the call that holds the row, and no repair writes "queued" on an old row. |
| `AttemptsStayHistory` | LifecycleProofs | Every write of `jobs` is a CAS from active statuses or an append. |
| `ReviewReasonIsExact` | LifecycleProofs | A CAS clears the reason, or starts outside needs_review and keeps it. |
| `LifecycleIsWorkflow` | LifecycleProofs | Step simulation under the refinement mapping. A delivery needs `ClaimInv` (the executed row shows that the send was ordered), a repair `JobHasRow` (a second send row orders nothing new), and `WorkflowInv` adds that a call at its bookkeeping has mailed and that a request about to create a send row has seen the email, which no step takes away. |

Three properties hold under conditions only; the theorems name them, and leave everything else (how many workers,
requests, attempts, lost enqueues, transient and permanent errors) free. `Steady`: no live worker has lost its lock
(`stall`) and no finished job has outlived its retention (`expire`). `Calm`: besides, no statement has failed
(`fault`) and no replica has died. `NoRetry`: nobody has retried. `Quiet`: steady, without a retry or a failing
statement, and replicas die only where a send was ordered by hand at most once. Each is a condition on what has been
spent of the budgets, so the theorem speaks of every behaviour up to the first step that breaks it.

| Theorem | Module | Argument |
|---|---|---|
| `CompletedMeansMailedWhenCalm` | LifecycleProofs | `[](Calm => CompletedSendMeansMailed)`. `UnmailedInv`: before the first mail no call is past a delivery, the job is not completed, and every row is still queued, or its job is over, or in the hands of a live call - so nobody has evidence on which to complete it. That a call at work is the only one is the queue's lock (`HeldInv`); that the sweep's evidence still holds when it writes is `SteadyInv`. |
| `OneMailWhenQuiet` | LifecycleProofs | `[](Quiet => AtMostOneMail)`. `MailedInv`: once there is a mail the job is over or no call may deliver (`Delivered`), because the call that marks is still there, or, after a death, the newest row is in processing for good (`LatestBlocks`). It rests on `OrdersInv` (without a retry an ordered application never becomes a draft again), `SingleInv` (with one manual send no second row is created under a call that delivers) and on the claims and locks above. |
| `WorkIsWatchedWhenSteady` | LifecycleProofs | `[](Steady /\ NoRetry => WorkIsWatched)`. `MakerInv` and `SenderInv`: a call's row is the last one anybody has touched, and it is in processing while the call works, so the status the resolver reads from the newest rows is one the client polls; `DraftInv`: who may create a process row is alone. Replicas may die and statements fail. |

TLC has a counterexample for the conditions: a second mail with one stall and a cancel, with one failing statement,
with an expired job and a crash, with two sends and a crash, with two retries or one and a send and a crash; a
completed send without a mail with one crash, one stall or one failing statement; unwatched work with one stall, or
with a retry and two permanent errors. (For `expire` in the first and the third theorem TLC has none: there the
condition belongs to the invariant they are proved from.) `LifecycleCrashes` and `LifecycleCommands` have one retry, which `Quiet`
and `NoRetry` leave out: with it `AtMostOneMail` and `WorkIsWatched` are only model-checked.

### Platform (PlatformProofs)

| Theorem | Inductive invariant, and why it is needed |
|---|---|
| `LeadersStayKnown` | `LeadersAreKnown` with the types is inductive. Its two parts carry each other: a claim is two steps (read, write), the write tells every other leader, and only the handler that ends a leadership takes its event; the same step closes the stream. |
| `NewestStaysServed` | `RegistryInv`: an entry is a response of its own tab that has begun, and a response that has not begun is not open. `Removed` compares the response before it removes: without that conjunct a late close removes its successor. |
| `CommittedLeavesHandedOver` | None: every step that removes an entry is shown to spare committed ones or to batch them. The overflow needs that the entry just added is not among the committed (`EvictionSparesCommitted`). |
| `ReplaysHaveNoGap` | `OwedIsComing`: what a request is owed is written, is still to be read, or may have outlived its retention. That MAXLEN drops an event only when `Retained` newer ones exist is a lemma on cardinalities (`TrimmedIsOutlived`). |
| `BreakersStaySound` | `CircuitStaysSound` adds that a probe is out only in a half-open circuit; lemmas show that every outcome leaves a circuit in order. `NoRetryStorm` needs `RepeatsAreTries`: a call that waits for a repeat has repeated nothing since a circuit that is hot was opened, because `canRetry` is asked before the wait. |
| `VerdictsStayInAgreement` | `RequestsAreFresh`: a request that is still asked has met no trouble, one that executes began with a healthy key. The lemmas compare the classifications of one failure: what lasts or refuses the key is not repeated (`LastingIsNotRepeated`), and what is held against a key speaks of it. |
| `JobsStayServed` | `ParsesAreInflight`: a parse that runs is the one registered for its file (else an entry could be removed by an older parse's end), and a joiner joined a registered one. |
| `LabelsStayListed` | `LabelsAreListed` with the shape of the requests is inductive. A write of a whole list notes what it drops (`WriteList`), an assignment what it gives in vain; one lemma covers every other step, cells' and workers' alike, and the deletion's write is the case that leaves somebody to clear. |
| `MailStaysAsShown` | `StatusSaysJobs` (an order exists only for a generated application, a renewed processing only for a draft) keeps the two writers of the text apart; `StoredIsDue` says that the stored text is one that may be mailed. |
| `DeletedRowsStayGone` | `GoneIsSo`: a list or an answer shows a row as deleted only when it is; `NothingComesBack`: what a fetch has read has at least the deletions its list shows. |
| `ComposerStaysSound` | `TriedOnce` (automatic mode submits a text once unless the user acts) and `SaveIsTracked` (stored style, patch under way, timer and control agree). |
| `RegistryStaysSound` | Versions rise by every path but a hydration because each asks the same admission test (`UpsertRaises`, `AppliedKeepsOrder`). That a hydration loses nothing is about the frames it drains one after the other: each is past or applied, and stays past while later ones are applied (`DrainedIsPast`, by induction over the frames). |
| `ExtensionStaysSound` | A refusal that arrives was the server's answer to the session that is stored, or something crossed (`OnlyRefusalsRefuse`, `RefusalMeansEnded`); what else empties the storage says so; what cache and popup will be told is the mode or a request is under way (`StatusInv`); a post that was queued has its row (`PostInv`). |
| `JudgementsStayFair` | The draft under rewrite is the one that was judged, and its reasons are its critique's (`DraftInv`). That no fact hurts is arithmetic, rule by rule; `UnnamedRewrite` shows from the weights and thresholds of both files which rewrite the critique can leave unexplained. |
| `PlatformAiStaysSound` | `PromotionInv`: what a page shows, loads or asks for has its verdict and is its own (a confirmation is remembered), so what is offered is earned. `AiInv`: a copy is current or marked early; a request nothing came between is the only one, and what it found out statement by statement still holds (`LonelyRequestsKnow`: a failover has tried every provider that is not left in its list); the panel's options and model are those of its provider while nothing loads (`PanelFits`). Certification: two attempts when saved (`BenchInv`), sums and quotients in closed form (`TwoAttempts`), the value for money falls with the cost (`ValueForMoney`). Its hypothesis `AsShipped` is the repository's: `CERTIFICATION_ATTEMPT_COUNT` = 2, and thresholds, which the environment may change, not below 1 and 90; the rest of the property needs none of it. |

### Accounts (AccountProofs)

| Theorem | Inductive invariant, and why it is needed |
|---|---|
| `RenewalsStayInAgreement` | `LockIsHeld`: unless something excuses it, a send between lock and release holds the lock; `RowIsCurrent`: the row it refreshes is the row there is, so a second renewal would have read a token that is fresh; `RefusedIsNotAccepted`, `TokensAreIssued`: refresh tokens are numbers that only grow. |
| `CountStaysBounded` | The counter covers what is recorded and what has been counted and not recorded yet, less what was found without a limit (`CountedApps`); a consumer that has read a part of the limit, or all of it, holds no more than the highest there has been (`LimitsRead`), since what is given on top only grows and the plan's quota never exceeds its highest. |
| `BillingStaysSound` | `RowsInv`: rows of a user grow, so a row read before a write is still there. `SettleInv`: a request past its payment's commit has it recorded. `SlotsInv`: claimed slots cover the redeemed and those on the way. |
| `SettingsStaySound` | `SettingsInv`: what a copy and a page may differ in is covered by what they miss (history of the writes of others); a save writes key by key, and what it still has to write is what its administrator typed or had not seen. |
| `SessionStaysSound` | `PageMirrors`: a page that is up and not signing out has the session of its login, and its token unless that could not be read, or a sign-out of it failed; `UserIsKnownOrAsked`: a user other than the session's is there only while a request for it is under way; `RetriesAreDue`: only a refused or a missing token is renewed, so a renewal's failure is the server's word. |
| `OnboardingStaysSound` | `CopyAgrees`: what the page believes of the account, or what its answer will say, is so, except that a page may miss that it has subscribed. A write makes it false for a while; `ActionsAskAgain` says that the request under way will ask again, because it was begun by a page whose first fetch was over. `PlaceFits`, `ResumesStay` and `MailIsSeen` carry who has reached the dashboard; redirects end after two (`RedirectsEnd`). |
| `CredentialsStaySound` | `OpsFit` beside the property: a key that is put first is among those its request has listed, and an accepted check was the provider's unless it was kept. That n keys in order have the places 0 to n - 1 is the pigeonhole principle (`PlacesAreFilled`); that rows have an order by priority whatever their priorities are (`RowsHaveAnOrder`) is what makes the CHOOSE of a deletion defined. |
| `SalesStaySound` | Checkout (`ShopInv`): a page that has an order has its own, at a price and period it was shown; an order's amount, campaign and grant are those of its making (`OrderIsAsMade`); a settlement under way whose order has met no other is the only one, for a payment nobody has recorded, it brings the period ordered, and what it has read of the row is still so for every order that met none (`SettlementIsAlone`), so that its write is neither a second grant nor the loss of another's; a user has one discounted order open, and one that is settled is redeemed, unless orders overlapped or the webhook left it unclaimed (`DiscountIsOnce`). Plans (`PlanInv`): what a plan shows is granted or its grant is still to come in a save under way (`GrantsCome`); an editor between the clearing of badges and its own is alone with it, or saves crossed or the setting was off (`BadgeIsSettled`). |

### The types

| Theorem | Module | Argument |
|---|---|---|
| `AccountsKeepTheirTypes` | AccountProofs | `AccountsTypeOK` of the composition that is checked. Each part begins and moves in the composition as it does alone (`EachPartRuns`), and keeps its types alone. |
| `PlatformKeepsItsTypes` | PlatformTypes | `PlatformTypeOK`, in the same way for 21 parts (`PartsBegin`, `PartsStep`). |

Half of the parts have their types in the invariant of their safety proof. The others needed an invariant of their
own, since a type invariant is not inductive where a bound depends on something else: an epoch of the client's
registry stays within its bound because the actions left shrink as it grows (`TheStoreFits`); an event of the stream
because it was allocated before it is appended, sent or replayed (`ServerFits`), and the frames of a replay because
sorting a set of events gives a sequence of them (`FramesAre`, an induction over the number of events); a version of
the publish pipeline because a transaction is begun only below the bound and a read row is one that was committed
(`PublishInv`); a request of the gateway has an attempt to make whenever it looks at its first (`GatewayRest`); the
attempts of a certification are bounded in a run that was refused because none was made (`RefusedAtOnce`); an
adapter asks three times at most because it looks at its attempts before the next (`ThrowKeepsShape`).

Each of these invariants was checked with TLC on the instance of its run before it was proved. The proofs changed the
models in a few places. The page of applications allowed a single view, for which "the other view" is no view: it
says now that there are two, as every run had it. The gateway's chain of credentials is filtered by a recursive
function, which the prover can follow and `SelectSeq` it cannot. The replay property was false for three events and one retained: entries are trimmed between
a request and its answer, and Redis may not answer at all; the module and the property say so now. A CASE with
overlapping guards leaves the choice open in TLA+, where the code (and TLC) takes the first that holds: those are IF
chains now. Constants that stand for "none" had to be told apart from the sets they stand beside. And
`NobodyIsThrownOut` asked only that a request be idle after the step, which any idle slot satisfied: the proof went
through without its hardest part, and the property asks now for a request that ends in that step.

Two properties turned out to be false beyond the bounds of their run, and say now what is so. `NoPassiveDowngrade` (of
`RegistryIsSound`) fails with three versions: a watchdog's answer that is older than a refetched list shows an ended
application as active. `RewriteHasReason` (of `JudgementsAreFair`) fails for a draft with a greeting, a hook and six
other traits: its readability is too low, but its critique, whose thresholds are in another file, names nothing.
Section 5 tells both. `AiInit` let a model be configured whose provider has no key at all; the property was false in
the first state then.

Further assumptions on constants came with these proofs: there are posts and providers, a session may be renewed,
samples and drafts are sets of facts and traits, the first plans are finitely many with a price each, and there is an
offer that is not refused. Sums and the draining of the early frames are recursive functions, whose values for a
sequence of any length need induction; the library's theorems take an operator and cannot be instantiated here, but
one about a set of numbers can (`Induction`, proved from the least element of a finite set), and it does the frames.

Only model-checked: the liveness properties (fairness and ENABLED are out of the prover's reach); `AtMostOneMail`,
`CompletedSendMeansMailed` and `WorkIsWatched` outside the conditions of their theorems, where they hold for some
budgets only; and the rating of a certification with other constants than the repository's, for which
a recommended model may have failed an attempt. No module declares a RECURSIVE operator.

## 5. What the code does outside these results

Modelling showed the behaviours below. Unless a divergence run above covers them, they are left out of a
property by name (a history variable or a guard of the property), never by a missing action.

**Lifecycle.** The sweep ignores the outcome of its CAS processing -> retrying (recovery.job.js:236) and
enqueues a second row for work finished meanwhile; docs say CAS failures are never ignored. Its queries select
the row's retry_count and the application's under one name, so user retries are compared with the job's maximum
(applicationJobModel.js:66). A retried attempt of the process job finds its row still processing and completes
without work (processApplication.worker.js:98). Between `safePersistApplicationFailure`'s two writes the row is
failed and the application a draft that is not polled (safePersistApplicationFailure.js:37-68); the worker's
catch block may read a variable before its declaration (processApplication.worker.js:79). `canRetry` is offered
while a retry is refused for an active row, and `canSend` ignores completed sends. A poll of a terminal
application says "failed" where the list says "retrying". mailService refuses dashboard applications.

**Publishing.** An entry merged into one already committed is flushed before its own commit, and its
announcement finds nothing: the change is not published (postCommitPublishQueue.js:50-73). A publication whose
read of the row's meta data or of its bundle is rejected, or finds no row, logs and drops the event though its batch
entry is gone, and nothing repeats it; so is an event that Redis does not take (publishApplicationUpdate.js:248-255).
Recovery and pool-based transitions only enqueue; the sweep drops them after 60 s. With Redis, own events come back through
the bridge after they were recorded and are dropped as duplicates, and XADD refuses an id that is not above the
stream's top: such an event was fanned out and is missing in the replay.

**Stream and client.** For a miss or an expired replay `setHeader` after `flushHeaders` throws: `replay.end` is
never written and the client stays "replaying" (realtimeController.js). Replayed events raise the registry but
are not presented; the watchdog heals the row later. A revive raises the registry's epoch before the row is
patched, so the row's guard refuses; a user's send raises the client's epoch although the server's does not
change, so events are rejected until three rejections or ten seconds. A terminal event of a pruned application
is dropped although realtime-ordering.md lets terminal transitions always apply. More than 20 reconnects in ten
minutes end the transport for good; a heartbeat timeout leaves `disconnectedAt` null, so recovery takes the
first tier; a first connection cut before any event has neither replay nor recovery. The hydration scheduler
never removes an id from `pending`; a hydration may move the registry back; the row has no version guard, and its
guard compares epochs with the registry, which a refetched list does not raise: a watchdog's answer read before the
end patches a row active again that the list has shown as ended. In
sseSafeWrite the teardown calls removeConnection without a tab id, which does nothing; an exception other than a
reset removes the registry's entry and leaves the response open. The client polls only while disconnected or
degraded and leading.

**Tabs.** A failed first hydration leaves the leading tab without a stream. Losing the leadership pauses the
batch processor, and gaining it again does not resume it unless a replay completes. A follower's broadcastRevive
and `leader_release` are never posted.

**Database.** `recordProbeFailure` has no caller; after the first opening and cooldown `openedAt` stays set, so
the circuit does not open again until a repeat succeeds, and lets every caller through. Writes on the pool are
repeated after a lost connection though they may have been applied (pgQueryRetry.js:48): the model leaves the
effect out. Five places hold a client of the pool (10) while they wait for a second
(processApplication.worker.js:133, applyService.js:42, aiCredentialModel.js:293, planAdminService.js:57,
recovery.job.js:269): ten at once wait for each other until the connect timeout.

**AI gateway and adapters.** Late answers of calls from before the opening close the circuit or free the probe;
an abort between the check and the try block keeps the probe for good (aiGateway.js:645-654). The retry budget
decides nothing (307-333). Credentials marked rate_limited or quota_exceeded are skipped, so recovering by
success hardly happens; an unconditional success mark can clear a concurrent "invalid". A given parentSignal
disables the timeout. The adapters' errors carry words only: a 429 never marks rate_limited; exhausted quota is
not marked unless the message speaks of billing, and is thrown without trying the other keys
(aiRetryPolicy.unit.test.js feeds errors with a status, which no adapter throws). The responses API's plain
"Empty response" is not retried while the chat path's is. An abort counts as retryable and is asked up to three
times with the aborted signal. fetch failures that lost their code are final. A test whose failure names a model
is called AI_MODEL_INVALID though it may be a rate limit. A late refusal of an earlier key marks the key after
its new test.

**AI credentials.** The health cache is keyed by user, provider and credential: a key saved within its time is
judged by the old key's answer. A refused key stays in the chain, as primary if asked; the page shows an error
and keeps its old list. A retest sets the health only. The first credential saved as a backup has priority 0 and
is not active. Replacing a primary lists the others without ORDER BY; concurrent backups get the same priority;
a row unseen by a concurrent ordering keeps its offset; quick moves use the stale list.

**Platform AI, certification.** Promotion and deactivation do not invalidate the copy, deactivating a model in
use only warns, and creating a key never looks for failover; copies in other processes only age, and one read
before a write is stored after its invalidation. An overlapping failover and save may leave the configuration on
a provider without keys, or overwrite a save. Failover takes providers in name order. A weight of 0 becomes 100
at creation. Toggling a key resets a draft under edit. An attempt that fails can raise the overall score
(averages are over successful ones); an unknown cost counts as a millionth of a dollar and gets the full value
score; without platform AI the model under test judges its own mail; a failing file never falls back to the
parsed form; a run below the threshold can be promoted after a confirmation. In
the panel a history row chosen during a run gives the latest result its date; a run given up by the page goes on and
is stored; a page may show a model as offered that another administrator has withdrawn.

**Quota and billing.** The quota is checked when a send is ordered and consumed after it: sends in progress
exceed it together. Counter and record are separate writes: a failure between them counts twice, a crash between
mail and counter not at all; the INSERT path ignores the limit (the first count is not compared). A send that finds
no limit (paywall off, a trial by time, a plan with no quota or a negative one) is recorded and never counted
(referralService.js:226-229), also when there is a limit again; a limit that is lowered, by another plan, its end or
an edit of its quota, leaves the counter above it. A reward may be given though the referral's
UPDATE hit no row, and 'expired' may overwrite 'completed' (referralService.js:80, 96). Verification and webhook
together may extend access twice for one payment ("Idempotent grant", subscriptionService.js:13-18, is not under
READ COMMITTED), or one of the two extensions is written over by the other; of two payments at once one extension is
lost. (`SalesAreSound` leaves out the orders whose settlements met, and only them.) A webhook whose grant failed is redelivered as a
duplicate and never granted. The webhook claims no campaign slot, so the discount can be used again; so do two
discounted orders that are open at once. The period is the price point's at verification. With the paywall
switched off between order and verification the page gets 403 though the money was captured. "Payment
verification failed" is shown for access that was granted. A Razorpay script that does not load leaves the page
busy until it is reloaded. cancel_at_period_end outlives a later payment.

**Plans.** With the setting of a single popular plan off a save clears no badge (planAdminService.js:73), and the
badges stay when it is switched on again. Only `clearPopularExcept` is in the transaction: the other statements stay when a save fails, while
the badge's clearing is rolled back, and two plans are popular. Two popular saves that cross lock each other's
rows and wait on other connections, which PostgreSQL cannot see. Deselecting a feature does not revoke it and
the next draft selects it again; a removed price comes back; a copy made in the editor keeps price ids of its
source and has no price; a retry inserts new options again, and after a failed creation fails on the slug.
Boolean advanced features are edited as strings and refused.

**Settings.** A read that fails caches the defaults, paywall off, for thirty seconds, and one under way when
another process writes stores what it read before (settingsService.js:42-54). A save stops at the first refused
value and keeps the keys written before it; limits go on being written after a save has failed
(TrialConfigPanel.tsx:106). The billing page sends back every setting as it was loaded, those of the other pages
included. The referral page reads names getReferralSettings does not return: it always shows its defaults, and a
save resets the fields nobody touched. What is typed during a save is lost when the save's answer is shown.

**Mailbox.** A late invalid_grant marks an account revoked that was just connected again; after five seconds of
waiting a job refreshes without the lock, whose release is get-then-delete; a disconnect can delete the row of a
new connection. OAuth state and connect token are consumed by get-then-delete.

**Session.** A failing signOut's error is ignored, and the next renewal signs the page in again; a late one may
end a newer session. A user answered after a change of session shows the other account's. An outage of the keys
answers 401 JWKS_FETCH_FAILED and signs everybody out who asks. The token is mirrored although the page has
signed out. A getSession that errs (a renewal without network, a 5xx) sets the mirrored token to null and the request
goes without a header, while Supabase's session stays stored (client/src/lib/supabaseClient.ts:44-48). A second Supabase identity with a known address gets 500 for good. AMBIGUOUS is unreachable.

**Onboarding.** Polling of a parse uses fetchQuery with a stale time of five minutes and returns the cached
status; autoPopulateDefaultResume always overwrites (comments at resumeController.js:288 and userModel.js:236
say otherwise); an older parsed resume makes the setup "ready" when the newest one failed. An upload needs an AI
credential that the onboarding has no step for. A page that subscribes while its first status is read may believe
afterwards that it has no subscription, until it asks again. Without pricing the guard sends a reloaded dashboard to the
onboarding while its status loads. failed_parses is keyed by file hash across users.

**Resume jobs.** Parses are shared by hash across users, and a joiner's job completes though nothing is stored
for its user; in processJDJob a throw outside the try leaves a rejected promise in the map, and `config` is
undefined (jobHandler.js:366-382); the registry is pruned by age even while a job runs.

**Parsing and drafts.** unsupported_format and the schema_mismatch retry are unreachable; an alias title loses
its points when the ontology knows the role; an explicit title may score below an inferred one. A rejected parse
is stored twice, the second time without its outcome. The critique's "Middle section is dense" line is inverted;
invented tools never trigger a rewrite; a rewrite is kept for a higher composite or a lower risk whatever its
hard failures; a failing rewrite discards the draft. Under a greeting with a hook the opening scores so high that the
critique names nothing where readability orders the rewrite: the model is asked to improve without being told what.

**Composer and page.** A style that came due while a patch was under way is lost and the control snaps back; a
failed save is not resent. A late preview of a text that was cleared sets fields, in automatic mode with an
error. A preview may be written with the old style. A refetch joins a list's first fetch, so rows deleted
meanwhile come back; other cached views keep deleted rows until their next fetch; one missing row fails a bulk
deletion as a whole.

**Details sheet.** The detail has no job columns and never knows of a send under way: it offers editing, saving
and sending, says "Email updated" for a save that the worker overtook, and "Send queued" when the send joins a
job with the old text. patchApplicationEmail checks and then writes, also to a sent application. A late save may
land after the next send's; the process worker writes back a found text over a late save; a refetch resets the
editor. continueEmail typed for one application stays for another.

**Tracker.** Every look at the list writes back what it has read, since what is stored is never serialized as it is
(trackerStatusService.js:171-195), in statements of their own: a look that overlaps a creation wipes it, be it
another creation, an assignment, the list itself or a worker's automatic label
(applicationTrackerStatusAssignment.js:28-42), and the application labelled with it keeps an unlisted label. A status
may be given while it is deleted; a deletion that fails half-way leaves its labels; a worker that sends at once never
labels "Email Ready".

**Extension.** Renewals are not single-flight: the second is refused and clears the fresh session; one that ends
after a disconnect restores it. A renewal's answer that is not ok, 429 and 5xx included, or has no access token clears
a session that lives (serviceWorker.js:89-102), and so does any failure of the second attempt after a 401. A page with an incomplete setup asks for its status without end
(main.js:270-290, 905-915), a complete one is trusted for ever. A toggle whose status fetch fails snaps back
though it was set. A status answered after a disconnect is stored for the next account. Overlapping scans may
put two buttons in a post; a lost answer shows an error for what was queued.

**Blocked users.** requireNotBlocked guards preview, auto-apply, apply and send, not continue and retry: a
blocked user's application can still be continued and mailed. The users panel applies answers in their order of
arrival, and `working` is one id for all rows.

## 6. Not modelled, and the plan

- Company patches (nothing else reads them), the 60-second duplicate filter and rate limits (they only refuse),
  `dashboardSendRecoveryService` (it touches rows that only an older worker left).
- *Deletion of applications* in the lifecycle: bulkDeleteApplications (applicationBulkService.js:80-92) removes the
  rows, and by cascade their job rows, whatever is under way for them. `JobHasRow` and `AttemptsAreHistory` speak of
  applications that are not deleted. What a deletion does to labels is in TrackerStatuses, to the list on screen in
  ApplicationsPage.
- *Process lifecycle and shutdown*: a stop is a crash of the models, nothing relies on a clean one.
- *Legacy apply paths*: no job row or queue is involved; they end within one request. (applyService generates
  with an empty description, since getJDById returns no text; autoApplyService inserts the description outside
  its transaction.)
- *The users page*: single rows, request and response. *Presentation*: layout, texts, static pages.
- Of modelled components: edits of the referral programme's settings (they are constants), traffic weights and keys
  from the environment, endpoints no page calls, usage and
  prices of calls, retries inside vendors' libraries, the catalogue of plan features, the effect of a repeated
  database statement, prompts and tone.

Left to do: the two lifecycle properties with retries (a retry reopens what the invariants call settled, so they need
an account of which order a mail belongs to), and liveness by hand-made ranking arguments over the proved invariants.
