# Verification of phox-customer

TLA+ models of phox-customer, a CRM backend in Go (Connect/gRPC, PostgreSQL through
sqlc, Redis, IMAP/SMTP, Zoom Phone, Google Calendar), with TLC runs and TLAPS proofs.
Paths are relative to `src/`; `W` stands for `internal/campaign/worker.go`.

The program runs as several identical pods. They share PostgreSQL, Redis and the mail
server and nothing else; every pod runs every worker. Almost no handler uses a
transaction, so the hard part of the system is what happens *between* two statements:
another pod, a handler, a tracking request, an incoming mail or the end of the pod.
That is the grain of the models: **one action is one statement** (or one statement with
the reads nobody else can change in between).

## 1. The system

### Campaign e-mail

| part | code | state | operations | what is hard |
|---|---|---|---|---|
| send worker | `W`, `internal/campaign/lock.go`, `db/query/campaign.sql` | `Campaign`, `CampaignRecipient`, `CampaignStep`, the Redis leader key; per pod: jitter and cooldown | every 30 s: janitor, then for each running campaign finalize, breaker, completion, claim and send one mail | crash between SMTP and the record; loss of the lock during a tick; retries; a suppression that arrives late |
| lifecycle and editing | `internal/service/campaign/lifecycle.go`, `update_campaign.go`, `recipients.go` | the same rows | start, pause, cancel, delete, replace follow-ups and pool, requeue failed rows | status is read, compared, and written later without a condition; no transaction |
| sending budget | `W:486-540` | `mailbox_id`, `sent_at`, campaign settings | pick a mailbox below its daily cap and warm-up | mailboxes shared by campaigns, days against 24-hour periods, ticks that last over midnight, two leaders, rows that are deleted |
| tracked links | `W:427-480`, `internal/campaign/token.go` | `CampaignLink` | number the links of a mail, resolve a click | numbers from a count; 16 bits in the token; two leaders |
| tracking endpoints | `internal/campaign/tracking.go` | stamps of a row, events, suppression list | unsubscribe, open, click | "first time" is decided by a row read earlier; several statements, each may fail |
| reply and bounce attribution | `internal/mail/campaign_attribution.go` | the same | by header, else by address | two pods ingest one mail |
| suppression list | `internal/service/campaign/suppression.go` | `Suppression` | add, remove what was added by hand | the first reason wins |
| auto-draft worker | `internal/campaign/autodraft_worker.go`, `draft.go` | `Campaign.source_book_id` UNIQUE, its own leader key | every 15 min: draft a campaign from each new book that matches a template | two pods, two templates, an import under way, books that are refused (permission, mailbox off, too large, nobody to write to) and stay in the list |
| offer deadline, holidays | `internal/campaign/offer_deadline.go`, `jpholiday.go` | a custom field of the customer | write-once deadline on a business day | two first mails at once |
| domain health | `internal/campaign/health.go` | `DomainHealth`, a cache of DNS answers | ask whether a domain takes mail, for one mail or for a draft | a draft and workers look up one domain at once; a slow answer is stored after a newer one; DNS that cannot say |
| composition, ETA | `render.go`, `eta.go` | none | - | - |

Correct means: a step reaches a recipient at most once and in order; nobody is written to
after he answered, left or bounced, apart from a mail already on its way; a pause comes
into force; a running campaign comes to its end; a mailbox keeps its daily cap; a click
leads where the mail said; no answer gets lost; a book gets its draft, and a draft is announced once.

### Mail ingest

`internal/mail/imap_mailbox_worker.go`, `imap.go`, `imap_worker.go`: every pod polls both
folders of every mailbox, keeps a UID cursor in memory and stores what is new
(`MailboxMessage`, unique by Message-ID). Hard: no lock between pods; a restart loses the
cursor; mail arrives between SELECT and SEARCH; UIDVALIDITY changes; a fetch, a listing
or an insert fails; a backfill reads one folder and not the other. Correct means that no
mail is passed over, and that `synced_at` is set only when everything was read.
The single-account `IMAPWorker` is the predecessor and shares `ingestMessages`. MIME, DSN
and SMTP code parses and talks to servers; its results are choices of the models.

### Calls, calendar, books, users

| part | code | state | what is hard | correct means |
|---|---|---|---|---|
| Zoom events and recordings | `internal/zoom` | `Activity` rows by `zoom_call_id`, objects in S3 | webhook, hourly reconciliation of every pod and backfill file one call from several sides; events lost, repeated or out of order; numbers in two notations | one activity per call, at the right customer; what is linked can be played; lost events are made up for |
| incoming call stream | `internal/zoom/sse.go` | map of channels in each pod, Redis channel | streams come and go during a broadcast, channels are full, a proxy hides that a browser left | no send on a closed channel; streams end |
| redials, Google Calendar | `internal/service/redial`, `internal/gcal` | `Redial`, the calendar | row, event and the row's memory of the event are three writes in two systems | one event per redial, at its time, removed with it |
| Google connection | `internal/oauth`, `internal/gcal/real.go`, `internal/service/googleoauth` | `UserGoogleToken` | calls refresh a token and write back while the user connects another account or disconnects | the row is what the user asked for last |
| calls by hand, statuses | `internal/service/activity`, `status`, `zoomphone` | `Activity`, `Status` | a click is repeated, the look for the first one fails; the status was deleted since the page was loaded | one row per call |
| customers, contacts, search index | `internal/service/customer`, `contact`, `internal/search`, `reindex.go` | `Customer`, `Contact`, Elasticsearch | row first, index later, mail backfill last; mail arrives meanwhile; ingest and backfill compare addresses differently; rows go with their book; a rebuild of the index | past mail is shown; the index says what the rows say |
| users | `internal/service/user`, `auth/interceptor.go`, `internal/keycloakadmin` | `User`, Keycloak | account first, row later, undone if it fails; a login or an import between; an error after the commit | a creation is whole or not at all |
| mailboxes | `internal/service/mailbox`, `internal/mailu` | `Mailbox`, mail server | account, rows of several companies and permission in two systems, adoption of existing accounts, lost answers | the stored password opens the account; no account is orphaned |
| books, import | `internal/service/book` | `Book`, `Customer` | import row by row without a transaction | - |
| permits, iCal feed, recording playback, notifications, MCP server, enrichment, company settings, templates, startup | rest of `internal`, `main.go` | one table each, or none | CRUD, facades and I/O | - |

`PROJECT.json` lists every component with its state of modelling, and the hazards at the
line where they bite.

## 2. Modules

| module | models | interacts with |
|---|---|---|
| `CampaignSend` | send worker, lock, lifecycle and edit handlers, what marks rows from outside | the other campaign modules are its neighbours, cut at `Pick` (budget), `Compose` (links), `Stop` and `Suppress` (responses) |
| `DripPromise` | abstract: what a campaign promises one recipient | implemented by `CampaignSend` |
| `CampaignSendProofs` | theorems about `CampaignSend` | |
| `SendBudget` | `pickMailbox`, `effectiveCap`, the count of sent mail, what writes or deletes the rows it counts | |
| `CampaignLinks` | `buildTrackedHTML`, the link number in a click token | |
| `CampaignResponse` | unsubscribe, open, click; reply and bounce attribution; suppression list | |
| `MailIngest` | poll, cursor, fetch, ingest | hands replies and bounces to what `CampaignResponse` models |
| `AutoDraft` | auto-draft worker with the refusals of `DraftCreator.Create`, as much of `ImportBook` as it sees, deletion of a draft, a mailbox switched on or off | |
| `ZoomCalls` | call webhook, `ReconcileWorker`, `Backfiller`, `RecordingArchiver` | |
| `CustomerRecords` | requests at customers, contacts and books with index write and mail backfill, `runReindex`, the matching half of the ingest | takes up a mail where `MailIngest` has fetched it |
| `OfferDeadline` | `ensureOfferDeadline`, the working-day rule, the customer form | the step between `Recheck` and `Compose` of `CampaignSend` |
| `MailboxAccounts` | registration, password, deletion of one address by several companies over mail server and database | |
| `Redials` | the four redial operations over database and calendar, token connected and revoked | |
| `GoogleTokens` | callback, disconnection, `persistingTokenSource`, `handleTokenError` | `Redials` sees it as a user who is connected or not |
| `DomainHealth` | `MXChecker` and its cache | decides `SkipNoMX` of `CampaignSend` and the recipients of a draft |
| `CompanyUsers` | `CreateCompanyUser`, `AddCompanyUser`, `DeleteCompanyUser`, provisioning at the first request | |
| `CallLog` | `CreateActivityCall`, `MakeCall`, status changes | |
| `CallStream` | `SSEHub` and its handler | told by the webhook of `ZoomCalls` |
| `Services` | nothing of its own: puts the services that keep two things in step beside each other | `INSTANCE` of the eight modules above and of `MailIngest`; extends `CampaignLinks` |
| `CampaignResponseProofs`, `MailIngestProofs`, `AutoDraftProofs`, `SendBudgetProofs`, `ZoomCallsProofs`, `CustomerRecordsProofs`, `ServicesProofs` | theorems about these | |

`MC<module>` gives constants for TLC, `<module>_<run>.cfg` is a run. An operator whose
comment begins with "Faulty:" is not part of a specification: it is a plausible bug of
the definition after it, kept to show that a property notices it.

### CampaignSend and the code

* `rec[r]` is a `CampaignRecipient` row: `status`, `step` (`current_step`), `sentAt`
  (`sent_at` is set), `due` (`next_step_at` has passed), `attempts`, `stop`
  (`replied_at`/`unsubscribed_at` or `bounced_at`), `stale` (`locked_at` older than
  `staleClaimAfter`). `suppressed[r]` is the row of the suppression list for the address.
* `pc[w]` and `job[w]` are where the goroutine of a pod is in `tick`/`sendOne`, and its local
  variables. `lock` is the Redis key; `Dead` is the value of a pod that is gone, since a
  pod that restarts has a new value (`lock.go:15-24`).
* The worker: `TickBegin` (lock, janitor, list of campaigns), `FinalizeStoppedFollowups`,
  `TripBreaker`, `CountRemaining`, `Complete`, `SkipSend` or `Claim`, `Recheck`, then one
  of `SkipNoMX`, `CustomerLookupFailed`, `RequeueTransient`, `EndSequence`, `Compose`, then
  `SmtpAccept`, `SmtpReject` or `SmtpAcceptAndError`, then `MarkSent` or `SendFailed`.
* The surroundings: `QueryFails`, `LoseWrite`, `Crash`, `LockExpires`, `ClaimAges`,
  `FollowupDue`; `Stop`, `Suppress`, `RemoveSuppression`, `RequeueFailedRecipients`; a handler is
  `HandlerReads` and later `HandlerWrites` or `EditDeletesSteps`, `EditCreatesStep`,
  `HandlerReturns`; `pending` holds those that have read and not written.
* Histories, which no guard reads: `got`, `late`, `overrun`, `resent`, `lied`, `overtaken`.
* Abstracted: which of the claimable rows comes first (ORDER BY and SKIP LOCKED), texts,
  times (replaced by the flags above), the other campaigns of a tick. A failed janitor is a
  claim that ages later. Without Redis each pod takes itself for leader, which is the case of
  a lock that has expired.

### The other modules and the code

* `SendBudget`: the clock runs in half days, so that a campaign may start in the afternoon:
  the cap counts from midnight in Japan (`Day`), the warm-up from the start
  (`EffectiveCap`). `tick[w]` is the time a tick began and decides, as in the code, also when
  midnight passes under it: `next_step_at` counts from it (`W:381`), `sent_at` is the moment of the statement
  (`campaign.sql:350`), so a follow-up may be due on the day its row was last sent to. A mailbox that rests
  (`nextAllowed`, `cooldownUntil`) is a `Skip`. `Requeue` puts failed rows back with mailbox and `sent_at`; `Delete`
  takes rows away with their campaign (`lifecycle.go:124`) or customer, also under a worker (status "gone").
  `missed` is a history: mails of the day that no row records, or records no longer.
* `CampaignLinks`: `known`, `next` and `body` are the local map, counter and the URLs left in
  `buildTrackedHTML`; `Token` is the branch `idx > 65535` with the width as a constant. `crossed` (workers that have not been alone
  while composing) and `doubtful` (numbers they gave) are histories.
* `CampaignResponse`: a call is at `mark`, `suppress`, `event` or `notify`; `already` is what it read
  of the row before it marked it. A failed statement ends the call or not as in the handler.
* `MailIngest`: `poll[p]` is what `fetchSince` and `ingestMessages` have in local variables:
  folder, backfill or not, UIDNEXT of SELECT, and the fetched mails; `cursor[p]` is the
  `UIDCursor`. Mail is a member of a set with a kind.
* `AutoDraft`: `books` in order of creation, `cand` the candidates a tick has left and `book` the one its loop is at,
  `Oldest` the ORDER BY and LIMIT, `Readable` what `Create` refuses: mailboxes the creator may not use or that are
  switched off (`draft.go:139-149`), a book he may not read, more than `MaxRecipients` (`draft.go:207`), nobody
  to write to. `Insert` is the transaction with the unique index.

* `ZoomCalls`: `job[w]` is a webhook request or the run of a pod, at the statement it comes to next;
  a number is a sequence of digits, since the notation decides who is found (`E164`, `Local`,
  `PhoneToDigits`), with numbers of Japan and of other countries; `store` is what lies under the one S3 key of a call. `age` counts hours, so that the
  look-back has an end.
* `CustomerRecords`: versions stand for the contents of a row; `job[k]` keeps the documents a request has
  still to write, as the code does in its variables. `Match` and `BackfillActivities` are one
  statement, divided where its snapshot is taken, because a mail may be stored in between. Addresses are two relations,
  since the code compares in two ways: `Exact` for the ingest, which lowers the address of the mail and compares with
  what was typed (`imap_worker.go:336`, `activity.sql:218`), `Alike` for the backfill, without case and for
  sent mail by substring (`mailbox_message.sql:42-43`). `DeleteBook` is the cascade, past the index.
* `OfferDeadline`: days are numbers, day 0 is a Sunday; `LastTabled` is the end of `jpholiday.go`.
  `OfferDeadlineDate` is the loop of the code, `WorkingDayFrom` what it should compute.
* `MailboxAccounts`, `Redials`, `CompanyUsers`: one action per call of the other system or statement, with
  a lost answer where the call may have been done. `stale`, `crossed` and `orphaned`, `slips`, `entered` and `doubts`
  are histories of why the two sides may differ; no guard but that of `CheckDeletion` (a row made again is never an
  owner's) reads them.
* `MailboxAccounts` has one address, and a row of it in each company, as the index is per company
  (`000011:22-23`): the second company adopts the account and changes its password. `SetPassword` and `Adopt` may
  set the password and lose the answer (`mailu/client.go:76`), `Die` ends a request between two steps.
* `CompanyUsers`: `Answer` is the end of `CreateRow`, where `GetCompany` may fail after the commit ("late").
* `GoogleTokens`: `call[c].row` is the token a calendar call read and goes on with, whatever happens to the row.
  A refresh token is a grant and a number, an access token is the grant it belongs to. `wish` and `astray` are
  histories: what the user asked for last, and which grants calls held when he did.
* `DomainHealth`: `look[a][d]` is where a send or a draft is with a domain; the goroutines of `CheckMany` are
  its domains, each at a stage of its own. `dns` is the world, `lastGone` a history of it.
* `CallLog`: `click[k]` is a request from the page's choice of a status to the insert. `Look` may fail, and the
  insert follows all the same; `together` (pairs of clicks under way at a time) and `blind` (clicks whose look
  failed) are histories.
* `CallStream`: `sending[p]` is the rest of the round of a hub that holds the read lock; `Locked` is the
  condition of the write lock.
* `Services` explores the small services in one run. They share no state: `part` is chosen at the
  beginning, the module of that name takes its steps, and the variables of the others stay at
  their first value. The properties are those of the modules. `PartsRunAlone` (section 4) proves that
  this is each service by itself.

## 3. Runs

| run | size | what it checks | what it shows |
|---|---|---|---|
| `send_mail` | 2 pods, 1 row, 2 steps, 2 attempts, 3 faults, start and cancel; 1.4M states | `TypeOK`, `SingleHolder`, `AtMostOnce`, `LateMailBound`, `ClosedRowsStayClosed`, `CompletedIsDrained`, `OverrunBound` | the claim keeps two pods apart even when both think they lead; the janitor's choice to fail and not to requeue is what makes sending at-most-once; one late mail at most, and one mail for each pod after a cancellation or completion |
| `send_campaign` | 1 pod, 1 row, 2 steps, 1 fault, fair; start, pause, edit; 250k states | `StepsInOrder`, `KeepsPromise`, `DrainsUnlessBlocked` | follow-ups deleted and created under the worker never put a step out of order; `CampaignSend` implements `DripPromise`; a running campaign comes to an end unless a suppressed row is in the way |
| `send_stuck` | 1 pod, fair | `CompletesWhenNothingLeft` violated | a queued row suppressed elsewhere is not claimed, not closed, and counted: the campaign runs for ever |
| `send_cancel` | 1 pod | `CancelledIsFinal` violated | a handler or completion that read the status earlier overwrites "cancelled" |
| `ingest_polls` | 2 pods, a mail sent and one received, 1 fault of any kind | `NothingSkipped`, `SyncedMeansComplete` | the cursor passes only what is filed, older than the look-back of a day, or taken by a fault; `synced_at` tells the truth |
| `response_signals` | 2 calls, 1 row, unsubscribe, reply, hard and soft bounce, operator at the list, 1 fault | `FirstIsReported`, `OptOutRecorded` | concurrent handlers never leave a signal to each other; what the page promised is in the database |
| `budget_shared` | 2 leaders, 2 campaigns on 1 mailbox, 3 rows, 2 days, a follow-up campaign in warm-up, 1 fault or request; 2.75M states | `TypeOK`, `BudgetBound` | the cap holds over midnight, restarts, requeues and follow-ups, up to one mail for each leader beyond the first and the mails no row records: lost, overwritten by a follow-up of the same day, or deleted |
| `autodraft_pods` | 2 pods, 2 templates, 3 books (one empty, one that grows past the limit of recipients, one good behind them), a list of 2, a mailbox that may be switched off, 1 request, 1 fault, fair; 273k states | `TypeOK`, `AnnouncesItsOwn`, `EveryBookDrafted` | every draft is announced once, whichever pod made it; a book that can be drafted is, unless books that cannot fill the list in front of it |
| `calls_reconcile` | 1 webhook handler, 2 pods, 1 call, 3 customers (one with the number, one in Texas with the same last ten digits, one whose number differs in a digit), 1 fault, 2 deliveries, fair; 614k states | `TypeOK`, `FiledOnceAndRight`, `RecordingPlays`, `EveryCallRecorded` | the unique index keeps three writers apart; the call is at the caller or his foreign twin and nobody else; the object is there before its link; what webhooks lose the reconciliation files |
| `calls_landline` | 1 call from 03-1234-5678 | `EveryCallRecorded` violated | a landline in the notation of Zoom has other last ten digits than in the row |
| `records_race` | 2 pods, 1 mail, 2 requests at a time, 3 in all, 2 customers in 2 books and a contact, one address with a capital, 1 fault; 943k states | `TypeOK`, `PastMailShown`, `IndexMatchesRow` | a registration shows past mail though ingest and other registrations are under way, up to mail that was just being filed and later mail only the backfill would match; the index follows the row unless two writers cross or a book is deleted |
| `services_all` | ten services, one at a time; 305k states | `AllTypesOK`, `ClickGoesWhereTheMailSaid`, `CredentialsAgree`, `NoOrphan`, `EventMatchesRow`, `OneDeadline`, `CreationIsWhole`, `ClicksCountOnce`, `NoSendOnClosed`, `ConnectionIsTheUsers`, `RefusedOnEvidence`, `ClientsLeave`, `EveryMailFiled` | see below |

`services_all`, part by part:

* `links` (2 workers, 2 URLs, 2 rows of which the token holds one, 2 faults): numbering by count leads every click
  where the mail said, over failed inserts, crashes and beyond the width of the token, unless the number was
  given while two workers composed.
* `accounts` (3 requests of 2 companies, 1 fault): the password in each row opens the account over failures and
  their rollback, lost answers and pods that die, but for the rows `CredentialsAgree` names; no account
  that a registration made is left behind.
* `redials` (4 requests, 1 fault, 3 versions): creation, change, failed event, resync and removal leave one event at
  the right time or none.
* `offer` (2 rows of one customer, 3 days, a Friday and a Monday that are holidays, the table ends on day 9):
  all mails print one date, over midnight, refusals and another campaign.
* `users` (2 creations, 2 owners, 1 deletion, 2 mishaps, logins and imports): no half creation; an error after the
  commit leaves a whole one.
* `log` (2 clicks, window 2, 2 seconds, 2 statuses, any look may fail): a repeated click that looks finds the first row,
  whatever its status is now.
* `streams` (2 streams, 1 pod, 1 slot, 3 notices, fair): locks keep `close` and `send` apart, streams end.
* `tokens` (2 grants, 2 calls, 1 new refresh token per grant): the row is what the user asked for last, up to calls
  that were under way when he did and calls that cross over a new refresh token.
* `health` (1 domain, 2 askers, cache for 1 tick, 3 ticks): a refusal rests on a lookup within the life of the cache, also
  when a slow "no" is stored after a newer "yes". Domains meet only where `CheckMany` reads the cache.
* `ingest` (1 pod, a mail sent and a reply, 1 fault, fair): nothing is left behind after a failed fetch,
  a restart or a new UIDVALIDITY.

### Bounds

`MaxStep`, `MaxAttempts`, `MaxFaults`, `MaxMishaps`, `MaxSlips`, `MaxTries`, `MaxTime`, `MaxClock`, `LastDay`,
`MaxRecipients`, `CandidateLimit`, `MaxRotations`, `MaxRows`, `MaxIdx`, `MaxVersion`, `MaxRequests`, `MaxDeliveries`, `MaxNotices`, `MaxPriority` and `Window`
are bounds of instances (`MaxAttempts` and the cap are 3 and 100 in the code, a draft has 10,000 recipients at
most, the list of candidates 50 books, the width of a token is 2^16; `Ttl` is 30 days in the code, a tick is longer than a lookup). Rows of a campaign interact only through the breaker, the count of what remains and
the choice of the next claim, so one row with two pods has the races; the proofs hold for
any number. Two steps are needed for order and for a follow-up that disappears, two
attempts for a retry, three faults for the longest chain of interest: the lock is lost, a
claim ages under its worker, and a pod dies or SMTP lies. A fault is what the
infrastructure does against the code (crash, lost write, lost lock); stopping a campaign,
answers and suppressions are not counted. Two calls or pods are enough for every property
stated about a pair.
Two customers whose numbers end in the same ten digits bring the choice by last contact, a third with another number
what must not be chosen; one mail with three records that carry its address, one of them for the backfill only,
brings registrations to the same statement; a list of two candidates and two books that cannot be drafted fill it;
a tick that begins before midnight and marks after it makes a follow-up of the day; two companies meet at an address, three requests at an address let one
be refused while another removes, and the fourth redial request is the resync after a failure
and a change. Two notices more than a channel has slots lose one.
Symmetry of the pods or requests is used in safety runs only. `records_race` and `services_all` do not
search for deadlocks: their requests are counted and come to an end.

### Fairness

* `CampaignSend`: each pod has a ticker (`W:90-106`) and no step of a tick waits for another
  pod, so a tick or a step of it happens: WF of `Tick(w) \/ SendOne(w)`. SF of `Claim`: a worker
  that reaches the choice of a mailbox in tick after tick finds, at some time, the window
  open and a mailbox with budget - a day later at the latest. Keys of dead pods expire
  (TTL), days go by (`FollowupDue`, `ClaimAges`). Nothing is assumed of users, SMTP or faults.
* `MailIngest`: the ticker of each pod. Nothing is assumed of the server.
* `ZoomCalls`: the ticker of each pod and the hours; a run is cut off after 30 minutes. No webhook need come.
* `CallStream`: the timer of `sseMaxLifetime` (`sse.go:233`), a hub that goes on sending, and SF of
  `Unsubscribe`: a writer that waits for a `sync.RWMutex` keeps new readers out.
* `AutoDraft`: the ticker, the TTL (five minutes against a quarter of an hour, `autodraft_worker.go`, so the
  key always expires between ticks). Nothing is assumed of imports and users.

### Where code and comments part

Three runs end in a counterexample on purpose (see "findings" in `PROJECT.json`). Further
divergences met on the way appear in the models as the exceptions of a property:

* `lied` in `AtMostOnce`: an SMTP error after the server took the mail is retried (`W:363-371`),
  although `W:35-37` and `recipients.go:60-61` say that the worker never sends again by itself.
* `unread` in `NothingSkipped`: `uidsSince` (`imap.go:443-455`) takes a listing that broke off for
  complete, `imap.go:309-310` says that only a complete fetch moves the cursor.
* `freed` in `OptOutRecorded`: an unsubscription of an address already listed by hand keeps the
  reason "manual", which an operator may remove.
* `Cardinality(Workers) - 1` in `BudgetBound`: the count of sent mail does not see the mail of
  another leader; `W:50-51` calls the cap safe when the lock is lost.
* `missed` in `BudgetBound`, next to mails whose record failed: a tick that begins before midnight and marks after it makes
  a follow-up due on the day its row was sent to (`W:381` against `campaign.sql:350`), and the mark of the follow-up
  overwrites `sent_at`, so two mails count as one; and `DeleteCampaign` (`lifecycle.go:124`) takes the rows
  out of the count, whose mails went out all the same.
* `resent` and `overtaken` in `CompletedIsDrained`: `RequeueFailedRecipients` puts rows back into a campaign that is
  completed or cancelled, and the janitor fails a row somebody still sends.
* `Crowded` in `EveryBookDrafted`: 50 books that cannot be drafted fill the list in every tick, of all companies, and
  the books behind them wait for ever, although `autodraft_worker.go:52-54` counts on reaching them.
  After a user deletes a draft the book is drafted again (`MaxRequests`), against "one draft per book" in
  migration 000018:66-67; the unique index speaks of drafts at one time.
* `doubtful` in `ClickGoesWhereTheMailSaid`: `W:453-454` says that there is no conflict since there is one leader. The
  lock can expire under a slow tick; then two workers compose, one number is given to two URLs, and ON CONFLICT
  DO UPDATE redirects a mail that is out.
* `Found` in `FiledOnceAndRight`: `activity.sql:240-241` takes the last ten digits of a number for unique. They are in Japan;
  +1 903 724 1917 and 090-3724-1917 end in the same (`customer_match.go:44` expects numbers from abroad), and the call
  is filed at whichever of the two was in contact last.
* `missed` in `PastMailShown`: an address is stored as it was typed (`create_customer.go:49`), and the ingest looks a
  mail up by its address in small letters (`imap_worker.go:336`). A customer typed with a capital gets his past mails
  by the backfill and none of those that come later. A sent mail is matched by substring, so that of ruben@x is put
  on the timeline of ben@x (`mailbox_message.sql:42-43`); the relation `Alike` is free to say so, and the property
  asks only that the mail is shown.
* `DeleteBook` (`delete_book.go:26`) takes its customers by cascade (000000:108) and leaves their documents in the index
  until the next rebuild (`blurred` in `IndexMatchesRow`).
* `UpdateCampaign` may replace follow-ups of a campaign that was started since its check
  (`update_campaign.go:103`); `StepsInOrder` is checked with that race in.

* `fetchSince` moves the cursor when the fetch succeeded (`imap.go:237`), before a mail is stored;
  `imap.go:234` says that it moves only when they were taken in. A mail whose insert failed comes back
  only if the pod restarts within a day (`dropped` in `NothingSkipped`).
* `tracking.go:34-36` wants a notification once per recipient and kind; two pods that ingest one
  reply, or two clicks at once, both read the row before either stamps it, and both notify.
* `create_customer.go:58-60`: a mail that was resolved before the customer's row and stored after the backfill is on no
  timeline (`excused` in `PastMailShown`).
* `create_mailbox.go:78-80` means to line up the credentials; registering an address again sets the
  password at the server before the index refuses the row, and the old row no longer opens the account. So does a
  registration of the address by another company, its change of the password and its deletion of the account, since
  the index is per company (000011:22-23); an answer of the mail server that is lost after it set the password
  (`update_mailbox.go:48-50` returns without the row); and a pod that dies before the row (`stale` in `CredentialsAgree`).
  A pod that dies between `CreateUser` and the INSERT leaves an account without a row (`orphaned` in `NoOrphan`).
* `create_activity_call.go:62` claims parallel requests too; two that look before either inserts both
  insert (`together` in `ClicksCountOnce`), and so does one whose look fails, because any error is taken for "none"
  (`:67-72`, `blind`).
* `create_company_user.go:102-105` can answer an error when everything is committed ("late" in `CreationIsWhole`): the
  caller is told that it failed, and account and row are there.
* `create_book.go:47-49` says calls cannot be recorded without a default status; `DeleteStatus` removes the
  last unused one all the same, and `ChooseStatus` is then not enabled.
* `delete_company_user.go:26` wants to keep the company from locking itself out: two owners who delete each
  other at the same time leave it without an owner. A deleted user comes back at his next request,
  intended by `interceptor.go:179-182`, but in the default company. Somebody who logs in or is imported while he is
  created makes the creation fail and be undone, and his row stays without an account (`entered` in
  `CreationIsWhole`): tokens and lists of accounts outlive the account. A creation whose pod dies between the account
  and the row leaves the account; in the model it is a request that takes no further step.
* `health.go:82` keeps recipients when DNS cannot say. A lookup of the address that times out (`health.go:127`) is
  taken for "there is none" and kept for 30 days; when `MXCheckBudget` of a draft runs out under such a lookup, its
  recipients are skipped for good. `LookupHost` and `BudgetSpent` have both, and `RefusedOnEvidence` leaves them out.
* `real.go:22-23` deletes a token that Google refused so that the user may connect again. The row is written and deleted by
  user alone (`real.go:140`, `160`, `196`): a refresh that began earlier brings a disconnected account back if the
  refresh token was new, puts the access token of the old account beside the refresh token of the new one, or deletes the
  new connection (`astray` and `missed` in `ConnectionIsTheUsers`).
* `update_redial.go:69` patches the event in the calendar of whoever edits; an event that is not there counts as
  patched (`real.go:239-256`), so a colleague's event keeps the old time. `Redials` has one user.

## 4. Proofs

### The send worker

`CampaignSendProofs` proves, for any set of pods, any finite set of recipients and any
bounds, from `SendConstants` only:

| theorem | says |
|---|---|
| `TypeCorrect` | `Spec => []TypeOK` |
| `OneHolder` | `Spec => []SingleHolder` |
| `NoDoubleSend` | `Spec => []AtMostOnce` |
| `FewLateMails` | `Spec => []LateMailBound` |
| `ClosedForGood` | `Spec => ClosedRowsStayClosed` |
| `InOrder` | `Spec => []StepsInOrder` |
| `FewOverruns` | `Spec => []OverrunBound` |
| `CompletedMeansDrained` | `Spec => []CompletedIsDrained` |
| `PromiseKept` | `Spec => KeepsPromise`, when neither "lie" nor "requeue" is in `Operations` |

Apart from `TypeOK` none of these properties is inductive. `IInv` is `TypeOK` and, for every row the operator
has not requeued, `RowInv`: one holder (`HeldAlone`); a held row is "sending", or "failed" by the janitor,
hence never queued and never claimed again (`HeldIsOut`); the step its holder sends is
still the step the row is at (`HeldIsCurrent`); what is still to come has not been sent
(`QueuedIsUnsent`, `HeldIsUnsent`, for rows SMTP did not lie about); a late mail means that the row is
blocked for good and was the last thing its holder had to send (`LateIsBlocked`, `LateIsLast`).
Requeued rows have to be left out: the operator's button puts a failed row back although
the janitor may have failed it under a worker that still holds it.

The proof goes row by row. `TickRow`, `SendOneRow`, `TroubleRow` and `EnvironmentRow` show that the
actions preserve `RowInv(r)`; `EndWithOther` and `Frame` dispose of the rows an action does not
touch; `NextInv` puts them together and PTL concludes. `ClosedForGood` is a property of a step
from `IInv`: whoever holds a row finds it sending or failed, so no late writer opens a closed one.

The others each add what they need:

* `InOrder` rests on `OInv`, which leaves no row out: everything before the step a row is at, or
  its holder is sending, has been sent (`Before`), and a worker about to record a step has sent it.
  So requeues and two holders of one row can repeat a step but not swap two.
* `FewOverruns` rests on `OverrunInv`: who claimed since the campaign stopped is past the part of its
  tick that leads to a claim, and a new tick gets there only in a running campaign.
* `CompletedMeansDrained` rests on `IInv` and `DrainInv`: an undisturbed row is let go before it is
  closed, so `Remaining = {}` stays true from the count to the status, whatever runs in between.
* `PromiseKept` is the refinement: `HonestInv` (`IInv`, nothing requeued, nothing misreported)
  makes every step one of `DripPromise` or a stutter. `PhaseHeld`, `PhaseFree` and `SamePhase` compute the
  phase; the only step that raises `mails` is `SmtpAccept`, by one since the step was unsent.
  The two assumptions are needed: a requeue reopens a closed recipient and a
  misreported mail leaves twice.

TLC checks the properties of all these theorems in `send_mail` and `send_campaign`.

### The other components

Every theorem is about any number of pods, rows, requests and mails; the last column has what else is assumed
(constants named in capitals are the `ASSUME` of the module, which TLC evaluates in every run).

| module | theorem | says | assumes |
|---|---|---|---|
| `CampaignResponseProofs` | `ResponseTypeCorrect` | `Spec => []TypeOK` | `ResponseConstants` |
| | `NoSignalLost` | `Spec => []FirstIsReported` | |
| | `OptOutsStay` | `Spec => []OptOutRecorded` | |
| `MailIngestProofs` | `IngestTypeCorrect` | `Spec => []TypeOK` | `IngestConstants` |
| | `CursorSkipsNothing` | `Spec => []NothingSkipped` | |
| | `SyncedWhenComplete` | `Spec => SyncedMeansComplete` | |
| `AutoDraftProofs` | `DraftsTyped` | `Spec => []TypeOK` | `AutoDraftConstants` |
| | `AnnouncedOnce` | `Spec => []AnnouncesItsOwn` | finitely many pods |
| `SendBudgetProofs` | `SendBudgetTyped` | `Spec => []TypeOK` | `BudgetConstants`: finitely many pods, campaigns and rows |
| | `WithinBudget` | `Spec => []BudgetBound` | |
| `ZoomCallsProofs` | `ZoomCallsTyped` | `Spec => []TypeOK` | `CallConstants` |
| | `CallsFiledOnceAndRight` | `Spec => []FiledOnceAndRight` | `PartyConstants`: what has the code of Japan is a number of Japan, others are any numbers; one party of a call is of the company |
| | `RecordingsPlay` | `Spec => []RecordingPlays` | |
| `CustomerRecordsProofs` | `RecordsTyped` | `Spec => []TypeOK` | `RecordConstants` |
| | `SearchFindsTheRows` | `Spec => []IndexMatchesRow` | |
| | `PastMailsAreShown` | `Spec => []PastMailShown` | |
| `ServicesProofs` | `ClicksArrive` | `Spec => []ClickGoesWhereTheMailSaid` | `LinkConstants` |
| | `OneCallPerWindow` | `Log!Spec => []ClicksCountOnce` | the window is positive |
| | `NeverSendsOnClosed` | `Streams!Spec => []NoSendOnClosed` | nothing |
| | `WholeCreations` | `Users!Spec => []CreationIsWhole` | a new account is none of the owners' |
| | `ConnectionStays` | `Tokens!Spec => []ConnectionIsTheUsers` | `NoGrant` is no grant, `MaxRotations` a number |
| | `RefusalsHaveEvidence` | `Health!Spec => RefusedOnEvidence` | the life of the cache is at least one tick |
| | `RowOpensAccount` | `Accounts!Spec => []CredentialsAgree` | `AccountsConstants`: `None` is no request, every request has a company |
| | `NoAccountLeft` | `Accounts!Spec => []NoOrphan` | `AccountsConstants` |
| | `CalendarFollowsRow` | `Planned!Spec => []EventMatchesRow` | `None` is no request |
| | `OneDateForAll` | `Offer!Spec => []OneDeadline` | `WorkingDaysReturn`: every two weeks of the table have a working day |
| | `AllPartsTyped` | `AllSpec => []AllTypesOK` | `ServicesConstants` |
| | `PartsRunAlone` | `AllSpec`, which the run checks with fairness added, implies the safety part of every service's specification | `LinkConstants` |

The argument of each. Hardly one of these properties is inductive as it stands; the invariant that carries it says what
those who are under way hold in their hands.

* `NoSignalLost`: `FirstIsReported` is not inductive, since a handler under way may be one that leaves the report to
  another. `ReportInv` names who reports: somebody who read the column before it was set
  (`SomebodyReports`), and a handler that read it set read the truth (`AlreadyIsStamped`).
  `HandlerReports` shows that each step hands the duty on, fulfils it or is torn.
* `OptOutsStay`: `OptOutInv` says of an unsubscription at each stage what is on record already (`Stages`), and of every
  stamp who will enter it (`SomebodyLists`). `RecordStays` shows that nothing but the operator takes an
  entry off.
* `CursorSkipsNothing`: `IngestInv` adds that UIDs are given once and no cursor is ahead of its folder (`Numbers`),
  so mail that arrives later is not passed, and that the mail being filed is stored (`Batch`).
  `FetchKeeps` is the heart: what lies between the old cursor and the UIDNEXT of the SELECT is in the batch.
* `SyncedWhenComplete`: `SyncInv` adds `ReadSoFar`: while nothing failed a backfill has filed what it found in the folders
  behind it, and has what it has not filed of its folder at hand. A folder with mail is never taken for empty.
* `AnnouncedOnce`: `DraftInv` counts the pods that made a draft and have not announced it. The lock and
  the order of the candidates are not used.
* `WithinBudget`: `BudgetInv` is a ledger. What a mailbox mailed today is counted by the query, missed, or in the
  hands of a worker between the mail and its record (`Accounted`); what is counted, with the workers that picked the
  mailbox, exceeds the budget by less than there are workers (`Covered`), since the last to pick found room
  for one. A worker that sends has its row to itself unless it is deleted (`OwnRow`). What the row recorded of
  today moves to `missed` when it is claimed, before a new record overwrites it, and so do rows that are deleted, so
  the two sides of the ledger change together.
* `CallsFiledOnceAndRight`: a worker that is about to insert has a customer whose number is the other party's (`Knows`).
  That the search finds no other rests on `SameNumber`: the form of Zoom and the one people write agree in
  their last ten digits only for one Japanese number; when one of the two is foreign the property allows the twin, and
  nobody else. Once comes from the unique index.
* `RecordingsPlay`: what a worker archives Zoom had ready, and it links what it has put there (`Knows`, `Archived`); an
  object is replaced and never removed.
* `SearchFindsTheRows`: `RecordInv` says that a customer whose document is not that of his row has one request, and one
  only, that waits to write just this row, and that a rebuild, which has dropped the document, has the row
  (`Indexed`). Excused are requests that cross, writes that fail and customers that went with their book; a rebuild
  ends the excuse unless something crosses it.
* `PastMailsAreShown`: a stored mail of somebody whose past was looked for is on a timeline, in the hands of a pod
  that is about to put it there, or on the list of a request (`MailsKept`). A pod that resolved the mail before the
  row was there stores it after the list was made: these are the excused. The list has what the backfill would
  find (`Alike`), which is more than the ingest finds (`Exact`); a mail the ingest resolved without finding a record
  that the backfill had been through already is `missed` for this record, and the proof shows that there is no other gap.
* `ClicksArrive`: `LinkInv` says that the rows are numbered from 0 without a gap (`Contiguous`), that two workers which
  compose know of each other (`CrossingsKnown`), and that a worker alone holds the count of the rows as its next
  number and knows the row of each URL (`KnowsRows`). So a worker alone takes a number that is free, and a number that
  is taken again becomes doubtful in the same step; every other goes on leading where it led (`Leads`). Any number
  of workers.
* `OneCallPerWindow`: clicks under way at a time know each other (`UnderWayKnown`), a click is one call
  (`OneCallEach`), and one that looked and found nothing is past the window of every call but those
  of its neighbours (`PastTheWindow`).
* `NeverSendsOnClosed`: `HubInv` says that the map holds the handlers between Subscribe and Unsubscribe, and that a round
  of sends, which holds the lock, lies within it.
* `WholeCreations`: `CreationInv` says for each step of a creation where its account and its row are and who else may have
  made the row (`Progress`), and that a deletion which was checked names one row (`OneTarget`).
* `ConnectionStays`: `TokenInv` follows every copy of a refresh token, in the row and in the calls: nobody is ahead
  of Google, a call with a new token is the only one that has it (`NewestToken`), and a call that started under an earlier
  wish of the user is known as astray (`Strays`).
* `RefusalsHaveEvidence`: a lookup spans at most one tick, so a "no" is dated one tick too late at most (`StoredNo`) however
  late it is stored, and the cache throws it away in time.
* `RowOpensAccount`, `NoAccountLeft`: requests that are under way together are known as crossed, and their rows as
  stale (`CrossingKnown`). One that is alone has, from setting the password to writing the row, the account
  (`HasTheAccount`); a row opens the account unless it is stale or its request is about to write it (`RowOpens`), and an account that a request
  made has a row, is about to get or lose one, or is known to be orphaned (`MadeIsKnown`).
* `CalendarFollowsRow`: as long as no requests crossed one runs at a time, and its stage
  says what is on the other side (`Underway`). That is what a crash or a lost answer leaves
  behind, and what the undoing or the next request starts from.
* `OneDateForAll`: `OfferDate` shows that the recursive function of the code returns the first working day from the day
  it is asked for: such a day exists within two weeks, and of the days for which the function did not find it, the one
  nearest to its working day would have a nearer one after it. Then the date is decided once, and who holds a date holds that one (`OfferInv`).
* `AllPartsTyped`, `PartsRunAlone`: a step of one part is a step of its module and a stutter of the others (`PartSteps`), so
  what is proved of a service holds of the run that explores it.

TLC checks each of these properties in the runs above, and the new invariants were put to it as invariants of
those runs before they were proved; the types of `CampaignResponse` and `MailIngest` by themselves are proved only.

Every invariant and every safety property of a step that a passing run checks is thus proved. Only model-checked are the
five properties that something happens: `DrainsUnlessBlocked`, `EveryBookDrafted`, `EveryCallRecorded`, `ClientsLeave`
and `EveryMailFiled`. Liveness under fairness and ENABLED are out of the prover's reach. So are
induction theorems with an operator as a parameter; where a proof needs induction over numbers it takes the
smallest counterexample instead (`SmallestNat`).

## 5. Not modelled

* Several campaigns in one tick of `CampaignSend` (they meet in `SendBudget`), replacement of texts
  and of the mailbox pool, the send window as a time of day.
* Mail without Message-ID, which is stored under an invented ID or passed over; the legacy
  IMAP worker; an hour's worth of clock skew between pods.
* Opens and clicks are in `CampaignResponse`, but no passing run includes them: they take the same path as
  a reply, without the list.
* A change of the mail address of a customer (`UpdateCustomer` with a new one): addresses are constants of
  `CustomerRecords`. In `MailboxAccounts`, `CompanyUsers` (but for its commit) and `CallLog` a statement of the database
  that failed has written nothing. The deletion of a mailbox row, which sets `mailbox_id` of its mails to NULL, is
  not in `SendBudget`.
* Permits and roles, the iCal feed, mail templates, company settings, notifications, recording playback, the
  MCP server, enrichment: one statement per operation, or none. The models take their
  callers for allowed.
* Refresh of the Zoom token, the report on a sender's domain, the completion estimate.
* Half of the Go code is generated (`gen/pb`, 23,400 lines of protobuf, and the scanning of rows in
  `gen/sqlc`). It has no behaviour of its own: the queries are modelled where they are called, the messages not
  at all. The map therefore covers a small share of all lines and most of the lines that
  decide something.

## 6. Plan

1. Several campaigns in `CampaignSend` composed with `SendBudget` at `Pick` and `OfferDeadline` before `Compose`.
2. The cached token of the Zoom client under concurrent calls; several mail domains in one draft.
3. Grants of mailboxes and permits of books while their holder is deleted.

Theorems to come: that `SendBudget`'s pick and `OfferDeadline`'s write, put into the send worker, keep the theorems of
`CampaignSend`; `KeepsPromise` with requeues, for the recipients the operator has not touched; the exact share of
`BudgetBound` that one leader keeps to.
