# A verification of wa-server

`wa-server` is a gateway between companies' customer-service browsers and the
WhatsApp Cloud API of Meta: one Go process (`src/cmd/server/main.go`) with an
HTTP API, a webhook for Meta, a pool of five workers behind a RabbitMQ queue, a
WebSocket hub, periodic synchronisation, a PostgreSQL database and Redis.
This directory models it in TLA+, checks the models with TLC and proves
theorems about them with TLAPS.

Paths below are relative to `src/internal/` unless they start with another
directory of `src/`.

## 1. Inventory

| component | state | operations | interacts with |
|---|---|---|---|
| **outbound pipeline** `api/handlers/outbound.go`, `queue/*.go`, `repository/message.go` | rows of `messages`, queue `outbound_messages`, workers' deliveries in hand | `SendMessage` (idempotency key, insert, publish), `worker` loop, `processMessage` (look-ups, quota, send, record, broadcast, billing), `Stop` | database, broker, WhatsApp client, hub, trackers |
| **delivery status** `api/webhook/whatsapp.go` (`processStatus`) | `messages.status`, `message_id`; last broadcast | status callback: find, check the transition, update, broadcast; worker's `UpdateWAMessageID` and `SetFailed` | the workers through the row, the hub |
| **company quota** `repository/company.go`, `service/company.go` | `quota_used`, `quota_limit` | `TryIncrementQuota`, `DecrementQuota`, `Update` | the workers |
| **inbound messages, conversations** `api/webhook/whatsapp.go` (`processMessage`), `api/handlers/conversation.go`, `repository/{contact,conversation}.go` | contacts, conversations with unread counter and preview, inbound rows | upsert contact, find or create conversation, count unread, deduplicate, store, publish, broadcast; mark as read, rename, outbound preview | database, hub, an inbound queue nobody consumes |
| **companies of numbers and conversations** the same files, `repository/phone_number.go` | `phone_numbers.company_id`, `conversations.{company_id,phone_number_id}` | `resolveCompanyID`, `GetByConversationID`, assignment | webhook, workers, hub, quota |
| **WebSocket hub** `api/webhook/websocket.go` | two maps of clients, three channels, a send buffer per client | register, unregister, broadcast, evict a slow client | browsers, all broadcasters |
| **rate limiter** `ratelimit/tokenbucket.go` | tokens, time of last refill | `Allow`, `Wait`, `RoundTrip` | every call to the WhatsApp API |
| **agent trackers** `agent/agent.go` | status and counters of a worker, their copy in Redis with a time to live | `Start`, `SetRunning`, `SetIdle`, heartbeat, `Stop`, `ListAgents` | workers, Redis |
| **pricing sync** `service/pricing.go` | rows of `waba_pricing`, watermark `last_sync_pricing` | `SyncFromMeta` | Meta; the periodic goroutine and requests |
| **billing cost sync** `service/billing.go` | rows of `billing_logs` | `SyncCostsFromMeta` | Meta, the periodic goroutine |
| **phone number sync** `service/phone_number.go` | `phone_numbers` (company, active, profile) | `SyncFromMeta`, `AssignToCompany`, `UpdateIsActive`, `UpdateProfile` | Meta, administrators |
| **templates** `service/template.go`, webhook | `templates` against Meta's templates | create and sync, sync all, sync pending, edit, delete, status webhook | Meta |
| **listing** `repository/{conversation,message}.go`, `api/handlers/conversation.go` | none; a cursor or an offset that the browser brings back | pages of conversations and of messages | tables that change between pages |
| CRUD handlers, authentication, configuration, metrics, WhatsApp client | none of their own | decode, one repository call, encode | — |

What is hard here, and what makes each component correct:

* Every handler, callback and worker is a goroutine; each of its database,
  broker and HTTP calls is atomic, nothing spans two of them (there is not one
  transaction on these paths). A check and the update that relies on it are
  separate statements.
* The queue delivers at least once. The process may be killed anywhere, or be
  told to stop, which cancels the context of calls under way.
* Meta repeats and reorders callbacks, and may send one before the worker has
  stored the id by which it is found.
* The outbound pipeline is correct when quota neither leaks silently nor
  exceeds its limit, a key stores one message, a message is sent once unless
  redelivered, every published message is eventually processed while the process
  has a connection, and the stored outcome is true.
* A message's status is correct when it moves one way and ends where Meta's
  reports end, and when browsers are shown what is stored.
* Inbound: no message lost, counted or stored twice; unread counter equals the
  messages since it was last reset.
* Companies: what happens in a conversation is told to, paid by and answered
  from the companies and numbers that the customer wrote to.
* Hub: a channel is closed once and never sent to afterwards, a dead client is
  eventually forgotten, a company sees only its own broadcasts and in order.
* Rate limiter: in any interval of length t at most burst + rate·t calls, and
  while a call waits, a bucket of two tokens or more loses nothing (one of a
  single token loses what comes after the token, less than a pause). Trackers: a running worker stays listed, a
  stopped one is shown as stopped; `Stop` returns.
* Synchronisation: nothing behind the watermark is missing unnoticed; a local
  change survives a synchronisation that started before it; a row stays with
  the template it mirrors.
* Listing: what is repeated or lost between two pages is known.

`PROJECT.json` lists the hazards line by line with the properties that watch
them, and for each mapped definition the lines it models.

## 2. Modules

| module | content | proofs |
|---|---|---|
| `DeliveryQueue`, `OutboundPipeline` | abstract queue with redelivery; handler, queue, workers, quota, crash, stop, connection, which implement it | `OutboundPipelineProofs` |
| `StatusContract`, `DeliveryStatus` | abstract one-way status; worker and callbacks on one row implement it | `DeliveryStatusProofs` |
| `ConversationContract`, `InboundConversation` | webhook messages, unread counter, mark-as-read, rename, previews implement the contract of the row | `InboundConversationProofs` |
| `CompanyFeed`, `WebSocketHub` | a company's ordered feed; registration, eviction, broadcast implement it | `WebSocketHubProofs` |
| `PhoneSync`, `MetaSync` | phone numbers; on top of them prices, watermark, the periodic goroutine | `MetaSyncProofs` |
| `TemplateSync` | template rows against Meta's templates | `TemplateSyncProofs` |
| `RuntimeClock`, `TokenBucket`, `AgentTracker`, `WorkerRuntime` | clock, rate limiter and trackers; composed into the life of the worker pool | `WorkerRuntimeProofs` |
| `Listing` | pages of conversations and messages | `ListingProofs` |
| `Routing` | company and number of a conversation, across webhook, workers, hub and quota | second part of `ListingProofs` |

Components meet in four ways. The row of a message is written by workers and
callbacks: both are in `DeliveryStatus`, and `OutboundPipeline` leaves the
callbacks out. The row of a conversation is written by webhook and browsers: both
are in `InboundConversation`. A broadcast is one step everywhere but in
`WebSocketHub`. A request to Meta is one step everywhere but in `WorkerRuntime`,
which composes `TokenBucket` and `AgentTracker` and in return leaves out what
a message does to tables. `Routing` is the cross-section through all of them that
is about companies. `MetaSync` extends `PhoneSync`, because one goroutine runs
both and the watermark is a column of phone numbers.

## 3. DeliveryQueue and OutboundPipeline

`DeliveryQueue` is the promise between broker and workers: a message is
published once, kept until it is acknowledged, delivered to one consumer at a
time (that it is delivered at all is `QueueDrains`), acknowledged for good by the
consumer that has it, and delivered again only after `Unlink`; no `Relink` while a consumer still works on a message of the old
link. In `OutboundPipeline` the link is the connection, and a message is held by
the workers that have it in their channel or in hand (`Holders`). `ConnLoss`,
`Crash` and `ShutDown` implement `Unlink`, `Restart` implements `Relink`, an `Ack`
on a dead channel implements `LetGo`.

| TLA+ | code |
|---|---|
| `CheckKey`, `InsertRow`, `PublishOutbound` | `OutboundHandler.SendMessage` cut at its three calls |
| `Deliver`, `Take`, `Exit` | the consumers of `RabbitMQ.Consume` and the `select` of `worker` |
| `LookUp`, `Reserve`, `SendAccepted`/`SendRefused`/`SendTimedOut`, `Refund`, `SetFailed`, `RecordSent`, `Bill`, `Ack` | `processMessage`, one action per call, then `msg.Ack` |
| `Stop`, `ShutDown`, `Crash`, `Restart`, `ConnLoss` | `WorkerPool.Stop`, the end of `run` in main, a kill, `WorkerPool.Start` in a new container, the broker connection |
| `SetLimit` | `CompanyService.Update` |

A row of `messages` is named by the request that inserted it. `copy[r]` is the
broker's copy; without publisher confirms, a publish that a breaking connection
loses is the same as one that comes after the break. `job`, `inbox` and `pc`
are the workers' memory. `sends`, `confirmed` and `leaked` are history: what the
API accepted, how many of a company's sends returned an id, and how many
reservations nobody will release. After `Stop` the context is cancelled: every
call made with it fails, although what it asked for may have been executed.
A handler's own context is not the pool's; handlers go on until the process
ends. `SetLimit` is atomic: the read and write of `CompanyService.Update` are
two statements, but it writes no column that anyone else here writes.
Payload, template parameters, reply context and the look-up's result are left
out; the preview and `UpdateConversation` broadcast of `SendMessage` are in
`InboundConversation`. The look-up may fail at any time: contact
and phone number rows are not modelled.

The bounds `MaxCrashes`, `MaxStops`, `MaxDrops`, `MaxFaults`, `MaxTimeouts` cap the
disturbances; in `MCOutboundPipeline`, `MaxDisturbances` caps their sum.

Properties: `QuotaAccounting` (used = confirmed + leaked + reserved),
`OneDeliveryAtATime` (it implements `DeliveryQueue`),
`SendsBoundedByRedelivery`, `OneMessagePerKey`, `PendingIsUnderway` (why a row can still be pending),
`OutcomeIsTrue`, and under fairness `QueueDrains`: every published message is
taken off the queue in the end, or the process stays up for ever with its
connection lost.

Runs:

* **outbound_safety** — three requests: two under one key (a client's
  concurrent retry) and one competing with them for a quota of one; two
  workers, symmetric; at most two disturbances of five kinds. Two workers and
  two messages in flight suffice for every conflict over quota, copy or key,
  since each involves two parties; two disturbances cover a failure during the
  recovery from another. About 275 000 states. `CHECK_DEADLOCK FALSE` because
  the system rests when all requests are answered and, after a lost connection,
  when its workers have left.
* **outbound_liveness** — a message of a company and one of an unassigned
  number, limits that change between 0 and 1, a crash, a stop and a lost
  connection: `QueueDrains`.
* **outbound_reconnect** (violation) — `queue/rabbitmq.go:23` says that the wrapper
  has reconnection support (`Reconnects`). After one lost connection all workers
  have left their loops, and the process stays up without one.

Fairness (`FairSpec`): each worker's next call, its `select`, the broker's
delivery of a ready message, the end of a stopping process, and `Restart`, all
weak. Goroutines are scheduled fairly and all modelled calls return (HTTP calls
have deadlines or contexts); the broker delivers while there is a consumer;
`deployments/docker-compose.yml:70` says `restart: unless-stopped`. Requests,
administrators and disturbances get no fairness.

## 4. StatusContract and DeliveryStatus

`StatusContract` is the promise: pending → sent → delivered → read, or failed
before delivery, except that a message delivered a second time by the queue may
be marked failed, and that after two overlapping updates of the row any reported
status may stay.

`DeliveryStatus` is one row. The worker sends (`SendAccepted`, `SendRefused`,
`SendTimedOut`), stores the id (`UpdateWAMessageID`, only on a pending row) or marks
the row failed (`SetFailed`, unconditionally), broadcasts and acknowledges. Each
callback is a `Hook`: it finds the row by id and checks the transition in one
step (`HookReads`, or `HookMisses` when no row has the id or the query fails),
writes by primary key in the next (`HookWrites`), and broadcasts in a third
(`HookNotifies`). `Report` is Meta: per accepted send it reports sent,
delivered, read in this order, or failed before delivered; a callback may carry
any status already reported, so duplicates, delays and reordering are all there.
Several statuses in one webhook request are handled one after another by the
code; treating them as independent callbacks allows more. Unknown status words
are left out: every case of `isValidStatusTransition` rejects them. `Crash`
kills callbacks under way and makes the worker start over unless it had
acknowledged; the id of the second send is new. The calls before the send
(look-ups, quota) can only fail the message, as a refused send does; a cancelled
context is one of the faults that `MaxFaults` counts.

`early`, `raced`, `crossed`, `handled` and `missed` are history: a read receipt
handled before the delivery receipt, two updates that overlapped, two updates
that overlapped counting their broadcasts, and what callbacks found or missed.

Properties: `OneWayUnlessRaced` (it implements `StatusContract` with
`redelivered <- crashes > 0`), `CatchesUp`, `ShownIsStored`.
The conditions of the last two are exactly what the code does not protect
against: a delivery receipt that comes before the id is stored is dropped, and
then the read receipt is dropped too; a read receipt handled first is dropped
for ever, since Meta was answered 200; the worker broadcasts "sent" after a
callback may have broadcast "delivered"; `failMessage` broadcasts nothing.

Runs:

* **status_safety** — three callbacks, so that a receipt, its duplicate and a
  later receipt meet; one crash, so two sends and two ids; one database fault.
  About 316 000 states with the callbacks symmetric. `CHECK_DEADLOCK FALSE`
  because a message has an end.
* **status_oneway** (violation) — `SESSION_PROGRESS.md:287` says the transitions
  are enforced one-way; without any failure, two copies of a delivery receipt
  around a read receipt bring the row from read back to delivered.

## 5. ConversationContract and InboundConversation

One customer, one conversation row, three of its columns (`unread`, `preview`,
`name`), the messages table, and what the browsers were last shown.
`ConversationContract` is the promise: however many statements it takes, a delivery
of a message adds at most one to the counter (`counted` remembers which have), a
reply only changes the preview, mark-as-read only empties the counter, renaming
only changes the name. A message that is delivered twice may count twice. The
promise is void once two operations have
overlapped, because `ConversationRepository.Update` writes all columns from a
copy read earlier.

| TLA+ | code |
|---|---|
| `ContactFails`, `FindConversation`, `CreateConversation`, `IncrementUnread`, `UpdateConversation`, `CheckDuplicate`, `StoreMessage`, `ShowMessage`, `ShowConversation` | `processMessage` (`api/webhook/whatsapp.go:160`), cut at each database call and broadcast |
| `MarkAsRead` | `markAsRead`: one statement, no broadcast |
| `ReadToRename`, `Rename` | `renameConversation`: read, then write |
| `ReadToReply`, `Reply`, `ShowReply` | the preview update in `OutboundHandler.SendMessage` |
| `Abandon` | the request's context is cancelled, or the process is killed |

A `Call` is one webhook delivery of one message, `msg[c]` which; two calls with
one message are a redelivery by Meta. Several messages in one request are
handled one after another; as separate calls they may also overlap, which allows
more. A `Desk` is one browser request. `copy[x]` is the row in memory with the
operation's changes already made, since nothing sees them before they are
written. `Abandon` ends one operation between two of its steps; a kill ends all
of them. After a cancelled context the code would still broadcast a message
already stored; `Abandon` also allows that it does not. `since` is the set of
messages stored since the last mark-as-read, what the counter is meant to count.
`raced`, `crossed`, `beaten` and `early` record the overlaps the code does not
protect against: a write under another's copy, a write between another's read
and its broadcast, two calls about to create the row, a mark-as-read between a
message's being counted and its being stored.

Left out: the other columns (`last_customer_message_at` and the 24 hour flag
are written together with the counter and behave like it; status and agent are
never changed), the contact (upserted first, never read back; only its failure
matters), media and reply context, the company a broadcast goes to, and
`PublishInbound`, which fills a queue that nothing consumes.
`ensureConversation` changes nothing: it looks the contact up with an empty
company id, which PostgreSQL rejects as a UUID, and then inserts a contact
without a company into a column that is NOT NULL, so it always answers 500.

Properties: `AnsweredIsStored`, `ShownOnce`, `UnreadCovers`, `UnreadExact`,
`BadgeIsRow`, and `NoLostUpdate`, the refinement of the contract.

Runs:

* **inbound_safety** — three calls for two messages, so a message, its
  redelivery and another one may all overlap; one browser request of any kind;
  one database fault, one abandoned operation. About 496 000 states up to
  symmetry. `CHECK_DEADLOCK FALSE` because calls and requests come to an end.

## 6. CompanyFeed and WebSocketHub

`CompanyFeed` is the promise to one connection: from the moment it joins, a
gap-free sequence of its company's broadcasts, in order. `WebSocketHub` is the
goroutine `Run` with its three channels, and per connection `readPump` and
`writePump` and the channel `Send`.

`TakeRegister`, `TakeUnregister` and `TakeBroadcast` are the cases of `Run`'s
`select`; handing out one broadcast takes one step per client (`Serve`, or `Evict`
when `Send` is full), during which no other case is taken. Go's map order is
random, so is the order of these steps. `members` stands for both maps: they
always hold the same connections, and a company's part is found with `Owner`.
`HandleWS` is its blocking send to `register` and the start of the two goroutines;
the send is where it may wait, and the goroutines touch nothing of the hub before
it. `Leave` is `readPump`'s deferred function, `WriterEnds` each way in which
`writePump` returns, with its `closeConn`. A message is taken from `Send` and
written in one step. Time is left out: `Vanish` followed by `ReadFails` is the read
deadline of 60 seconds, a failing `WriterEnds` the write deadline of 10. Client
ids are taken to be distinct. `taken` and `start` say how many of its company's
broadcasts the hub had taken, in all and when the connection joined.

Properties: `ClosedOnce` (a second close, or a send to a closed channel, would end
the process), `InOrder` (refinement of `CompanyFeed`), and under fairness
`MembersAreTold`, `DeadForgotten`. A client that connects and
disconnects at once may leave both a registration and a departure waiting, and
`select` may take the departure first: the hub then keeps a dead client until its
buffer of 256 is full. `DeadForgotten` excepts exactly these (`overtaken`). For the
same reason a broadcast made after a client's `HandleWS` may miss it.

Runs:

* **hub** — two connections of one company, which come and go, beside a company
  without any, two broadcasts to either; capacity one everywhere, so that each
  channel fills and blocks: one broadcast fills a client's buffer, the next
  evicts. Capacities of 100 and 256 differ only in how long filling takes.
  29 637 states. `CHECK_DEADLOCK FALSE`: connections and broadcasts come to an end.

Fairness (`FairSpec`): weak for handing out a broadcast and for the goroutines;
strong for the cases of `select`, which Go chooses at random among the ready ones,
and for `Leave`, which waits in a channel's first-in-first-out queue of senders.
Browsers and broadcasters get none.

## 7. Synchronisation with Meta: PhoneSync, MetaSync, TemplateSync

### Numbers and prices

| TLA+ | code |
|---|---|
| `ListNumbers`, `FindCompany`, `Upsert`, `FetchProfile`, `StoreProfile`, `PhonesDone` | `PhoneNumberService.SyncFromMeta`, cut at its calls |
| `PhoneRequest` | what administrators, Meta and customers do meanwhile: assign, switch on and off, list, publish a profile, write from a number |
| `ReadWatermark`, `Skip`, `Ask`, `UpsertPricing`, `UpdateLastSyncPricing` | `PricingService.SyncFromMeta` |
| `Tick`, `Request`, `PhonesEnd`, `Abandon`, `Crash` | the periodic goroutine of `cmd/server/main.go`, POST requests, their cancellation, a kill |
| `TimePasses`, `Use` | days, and Meta's figures |

A *syncer* is the periodic goroutine or a request; several run at once and
nothing keeps them apart. The watermark is column `last_sync_pricing` of the
numbers, hence one module extends the other. Meta is asked for `DAILY` buckets; a
point's end is the end of its day, also while the day lasts (`running` says
whether Meta already reports it), and its figure is final once the day is over.
`LookBack` is the range of a synchronisation without a watermark, 30 days in the
code; a day is reported whole if it ended after the start of the range. An answer
whose first entry has no points is stored without moving the watermark
(`NewMark`, `KeepLastSyncPricing`). `gap`, `partial` and `skipped` are history:
points whose upsert failed, days that were fetched before their end, and days that
were already beyond the look-back when a synchronisation found no watermark. They
are exactly how a figure can stay wrong behind the watermark.

Properties: `NothingLostBehindMark`, `FiguresGrow` (answers stored in the wrong
order), `AssignmentKept` (a number's company changes only by an administrator or
by a synchronisation that found a conversation) and, under fairness,
`UsageIsSettled`.

* **metasync** — one number, one line of prices, the ticker and one request at
  a time, three days and a look-back of one, so that the first day falls out of
  it; two uses of the line, one failed call or one cut. `OneSide` restricts the instance to behaviours in which either the
  numbers or the prices move: the two share the existence of rows and the ticker,
  both of which are in both halves. A second number would add only an
  independent row, a second line an independent column. 226 096 states.

Fairness (`FairSpec`): the ticker fires and its goroutine goes on, since its calls
have a client timeout. Requests and time get none; `UsageIsSettled` says what the
goroutine does once the day after a use has come.

### Templates

| TLA+ | code |
|---|---|
| `Create`, `Insert` | `TemplateService.CreateAndSync` |
| `ListTemplates`, `LookUp`, `Insert`/`Update` | `SyncAll` |
| `ListPending`, `Check`, `StoreStatus` | `SyncPendingStatus` |
| `Hear`, `Update` | `processTemplateStatusUpdate` |
| `Edit` | `PUT /api/v1/templates/{id}` |
| `DeleteRead`, `DeleteMeta`, `Remove` | `TemplateService.Delete` |
| `MakeAtMeta`, `DeleteAtMeta`, `Decide` | Meta and the business manager |

Columns are reduced to those by which rows and templates are matched
(`wa_template_id`, `meta_name`, `language`), the status with `is_verified`, and
the number of a text. `Unique` is the UNIQUE constraint, which also holds for the
empty string. `adrift` names templates that may lack a row because of something
that did happen: somebody made it at Meta, edited or deleted its row, or a call
failed. `Create` takes Meta's answer, which may be APPROVED or REJECTED at once. An
event may lack Meta's id and then leaves the row's as it is (`Told`). `approved` and
`asked` are history: the names and languages that Meta approved, and the rows
whose status was once asked for by the name alone (`SyncPendingStatus`).

Properties: `IdentityAgrees` (a row never mixes one template's id with another's
name), `Covered`, `EditsKept`, `VerifiedByMeta` (a row is verified only by an
approval of its name and language, or of its name if it is in `asked`, unless an
administrator edited it).

* **templates** — two names in two languages, two ids of Meta's, three rows ever,
  two processes; `Budget` allows three decisions, failures, edits, removals, look-ups by
  name and templates together, while synchronisations and events are unlimited.
  Two processes show every overlap of a read and a write; two languages are what
  confuses a look-up by name, and a second name is what it must not reach.
  Symmetric in names, languages, rows and processes. 912 938 states.
  `CHECK_DEADLOCK FALSE`: with the budget used up nothing may be left to do.

## 8. Runtime, listing, routing

### TokenBucket, AgentTracker, WorkerRuntime

`TokenBucket` counts tokens in ticks of refill (`PerToken` ticks make one), so
all arithmetic is exact; the code's is in floating point. `Pause` is the sleep
between two tries, `Patience` the deadline of the HTTP client. `RoundTrip`,
`WaitTry`, `WaitEnds` and `Answered` are `Transport.RoundTrip` and `Wait`.
`AgentTracker` is the record in memory, its heartbeat goroutine and its entry in
Redis with a time to live. `WorkerRuntime` composes both with the life of the
worker pool: `Begins` to `Unwinds` are `worker`; `Cancels`, `StopsTracker` and
`Stops` are `WorkerPool.Stop`. Timers are served before the clock moves on
(`NobodyOversleeps`, `BeatsAreServed`): a goroutine's delay is short against
the seconds of the clock.

Properties: `NeverTooMany` (the promise of a token bucket for every interval),
`NoneWasted` (while a client waits the bucket holds less than a token and a
pause's refill, which only a bucket of one token cannot hold), `StoppedIsFinal` (though a heartbeat may fire and `SetIdle` may run
after `Stop`), `HeartbeatsHold`, and under fairness `StopReturns`, also for a
worker that waits for a token.

* **runtime** — one worker and one other client share a bucket of two tokens;
  a token takes two ticks, a try is repeated every tick, deadlines are three
  ticks, entries in Redis live two; time up to 4, one message, one failure. A
  bucket of two is emptied and refilled within that horizon, a deadline passes,
  an entry expires; trackers of different workers share nothing.
  1 033 096 states. `CHECK_DEADLOCK FALSE`: time ends.

Fairness: a worker goes on (weak); a `select` that again and again finds the
context done takes that case in the end (strong, `Leaves`); `Stop` goes on.
Neither messages nor the clock are relied upon: the tries of a waiting worker end
because its context is cancelled.

### Listing

A walk through the pages of the conversations (`OpenConversations`,
`ConversationPage`: a cursor of time and id, the time cut to seconds by
RFC 3339) or of a conversation's messages (`OpenMessages`, `MessagePage`: an
offset), while rows are written (`Write`, `Store`). `Lag` is the time between
taking `updated_at` and the commit, so times may go back. Of the filters, unread
and read are modelled; the search by name and the restriction to a number select
rows the same way, and the summary of numbers is one query.

Properties: `ListedOnce`, `SkippedShareASecond`, `MessagesReached`,
`RepeatsAreArrivals`. They state the exact conditions under which a row is lost
or repeated.

* **listing** — three rows, pages of one row (a walk has up to four pages),
  seconds of two moments, so that rows may share the second but not the
  moment. `OneList`: the two lists share no state. `NotAll` keeps one
  conversation unwritten, which the properties are about. `OneWalk` ends a
  behaviour with its walk: the next walk starts in any state of the rows anyway.
  307 318 states.

### Routing

Who is told, who answers and who pays, when numbers are assigned to companies at
any time. The webhook finds the company by the number that was written to
(`Receive`, `Resolve`, `FindNumber`, `FindConversation`, `CreateConversation`,
`Show`); the worker by the number in the conversation (`LookUp`, `Charge`, `Send`,
`Refund`, `ShowSent`); replies, typing and receipts (`SendMessage`, `SendTyping`,
`ProcessStatus`) by the company in the conversation. `Upsert` and `AssignCompany`
write the table of numbers. `owners[k]` is history: the companies that had a
number that customer k wrote to, since then. One reply of a conversation is in the
queue at a time; retries, crashes and failing refunds are in `OutboundPipeline`.
The deletion of a company is left out. `Tell` may reach nobody: the broadcast may
be dropped or the company have no browser.

Properties: `OwnersAreTold`, `NumberIsKept`,
`ChargesAreSettled`.

* **routing** — two numbers, two companies of which one is the default, one
  customer, two deliveries at a time, one worker, a quota of one, one failed
  query. Customers share only numbers; two numbers let one customer write to
  both, and one be given away while a reply of the other is under way.
  `Apart` leaves out that two deliveries overlap with a worker's sending: a second
  delivery matters while the conversation is being created, a worker after that.
  1 019 249 states.

## 9. Observations

What the models had to say about the code. The first two are shown by runs that
expect a violation; the others are named exceptions in the properties, or the
reason why something is not in a model.

* Two copies of a delivery receipt around a read receipt turn "read" back into
  "delivered" (`status_oneway`).
* After the broker connection is lost, the workers leave and nothing brings them
  back until the process is started again, though the wrapper is documented to
  have reconnection support (`queue/rabbitmq.go:23`): run `outbound_reconnect`.
* A send that fails during `Stop` keeps its quota: `DecrementQuota` is called
  with the cancelled context (`queue/worker.go:273`). History `leaked`.
* Billing rows are always refused: `template_id` is NOT NULL and a foreign key
  (`migrations/008_create_billing_logs.sql:5`), and the worker's row names no
  template. `SyncCostsFromMeta` therefore never has a row to update.
* The first two messages of a new customer, delivered at once, may both try to
  create the conversation; the second is dropped and Meta answered 200. A
  redelivered message is counted as unread before it is recognised.
* A day whose prices are fetched while it lasts keeps its partial figure: once
  it is over it lies behind the watermark and is not asked for again, and until
  then the synchronisation says "already up to date" (`service/pricing.go:58`).
  The periodic goroutine runs once in 24 hours, in the middle of some day. A
  point whose upsert fails is not fetched again either, nor are days from before the
  last 30 when no number has a watermark (`service/pricing.go:55`).
* A number's profile is stored when its row is inserted and never by a later
  synchronisation: `UpdateProfile` looks for an id that `Upsert` has just made up.
  Every synchronisation sets `is_active` back to true.
* A template's edit clears `wa_template_id` and `meta_name`. A second edited row
  then violates UNIQUE on the empty string and the request answers 404;
  webhooks find no row any more, and `SyncAll` makes a duplicate. Deleting one
  row deletes all languages at Meta while the other rows stay. `SyncAll` reads the
  first page of Meta's list only. `SyncPendingStatus` may verify a row because
  another language was approved. `message_template_id` is read as a float64
  (`api/webhook/whatsapp.go:448`), exact for the ids below 2^53 that the model
  assumes.
* `RATE_LIMIT_RPS=0` makes `Wait` divide by zero (`ratelimit/tokenbucket.go:55`);
  in `processMessage` the panic is recovered and the message acknowledged though
  its row stays pending, in the periodic goroutine it ends the process. The
  models assume a positive rate.
* A worker that left its loop because the connection was lost is still listed as
  alive and idle, since its heartbeat goes on; a worker is not listed before its
  first heartbeat; a stopped one may be listed as alive until its entry expires.
* Conversations of the same second as the last row of a page may be lost between
  two pages.
* Company and number of a conversation are fixed when it is created. If the first
  message comes before the number is synchronised, replies fail for ever. After
  a reassignment, receipts and typing go to the old company, incoming messages to
  the new one; of a number without a company, the worker tells nobody.
* `PublishInbound` fills a durable queue that nothing consumes.

## 10. Proofs

All theorems hold for every value of the constants: any number of requests,
workers, companies, callbacks, numbers, days, rows, any page size, any look-back,
any burst, and any bounds on disturbances. They rest on the named ASSUMEs of the modules, which
say that counts are numbers, that null values are not elements of the
sets they stand beside, that some sets are finite (where cardinalities are
compared), that webhook calls are not browser requests, that each connection has
a company, that there is at least one day and the look-back at least one, and of the
bucket that a pause is not longer than a token's refill. `Pause <= PerToken` is the
code's integer division rounding down.

* `OutboundPipelineProofs`. `QuotaCorrect`: the inductive invariant `QuotaInv`
  is types, `DownIsIdle` (no worker of an ended process holds a job, needed at
  `Restart`) and the accounting itself; two lemmas say how the number of holders
  of a reservation changes when a worker moves. `QuotaLimitRespected`: only
  `Reserve` raises the counter, under `HasQuota`. `OneHolderEach`: `HolderInv`
  says that what a worker holds is unacknowledged, and that nothing is
  delivered without a connection. From it `ImplementsQueue`, one lemma per kind
  of step: deliveries find no holder, an acknowledgement finds the worker to be
  the only one, and a restart finds no holder at all. `OnePerKey`: `KeyInv` adds that what is
  published has a row (`Backed`) and that two rows never share a key
  (`UniqueKeys`, by the unique index that `InsertRow` obeys). `SendsBounded`:
  `BudgetInv` adds to the sends of a message the one that is still due to it in a
  worker's hands or in the queue. `PendingExplained` and `OutcomesTrue` need
  `Signals` (a process that is not up was stopped or killed, and this was counted),
  that an outcome not recorded is owed to a stop or a fault (`Unrecorded`), and what
  the stored outcome says of the sends so far (`Accepted`, `Refused`).
* `DeliveryStatusProofs`. `StatusInv`: the number of sends is bounded by the
  processes (`SendsCounted`); the row is untouched until the first send is recorded
  (`FirstDelivery`); without a race at most one callback is between check and
  write, its check still valid (`OneWriter`). From it `MidWrittenOnce` and
  `ImplementsContract`. `ShownTrue` adds that without overlaps whoever is about to
  broadcast holds the stored status. `RowCatchesUp` (`CatchInv`) adds that
  callbacks under way carry reported statuses of the stored id (`Found`), that
  what the row says of that id was reported (`Justified`), and that in order the
  row is where the handled reports have brought it (`Ahead`).
* `InboundConversationProofs`. `ConvInv`: which steps belong to whom (`Roles`);
  who is past the look-up has a row (`RowExists`); a copy held without overlaps
  agrees with the row but for the operation's own change (`FreshCopies`); who is
  about to show a message has stored it, alone (`Telling`); an answered message is
  stored unless something failed (`Keeping`). From it `ToldAtMostOnce`, `NoneLost`
  and `ImplementsContract`. `NeverHidden` adds `Covering`, the messages counted and
  not yet stored; `CounterExact` adds that what is stored was delivered by a
  call that got past storing it (`Delivered`) and that a copy about to be written
  has the row's counter (`Recounted`). `BadgeShowsRow` adds `Announcing`: undisturbed,
  whoever has written the row holds it as it is until the broadcast, and if nobody
  does, the last broadcast says what the row says.
* `WebSocketHubProofs`. `HubInv`: a connection waits in `register` at most once and
  was never a member before (`Waiting`), without which `ClosedOnce` is not
  inductive; one that does not exist is unknown to the hub (`Unborn`).
  `ImplementsFeed`, the refinement of `CompanyFeed`, needs `FeedInv`: every broadcast
  that was made and not taken waits in the channel, those of a company in order
  (`Pending`); what is being handed out is the last one taken, and goes to clients of
  its company (`Handing`); a client not yet taken has nothing (`NotYet`); and what lies
  in a client's `Send` is what its feed has next, up to the last broadcast taken while
  it is a member (`InLine`). Every step of the hub is then a step of the feed
  (`Publish`, `Join`, `Receive`) or a stutter.
* `MetaSyncProofs`. `PriceInv` with `SettledBehind`: also behind a watermark that
  somebody has read, and behind the one that somebody is going to write, every
  figure is settled or still in that one's hands; `FiguresTrue`: no figure exceeds
  Meta's, and one in hand is final or its day `partial`. A request without a
  watermark leaves only days behind that are `skipped`. From it `NothingLost` and `Growth`.
  `Assignments` and `Profiles` (a profile is written by the synchronisation that
  inserted the row) need types and what a syncer has in hand.
* `TemplateSyncProofs`. `IdentityKept`: every entry, event, list and held row that
  has an id of Meta's has the key it was issued for; ids are issued once. The three
  other theorems rest on `Copies`: all that are about to write over a row read the
  same key and text of it, which it still has unless it was edited since, because an
  edited row has no name and nobody finds it until an old copy is written back.
  `EditsAreKept` follows at once. `VerifiedIsApproved` adds that whatever says
  "approved" comes from an approval, wherever it waits (`Approvals`, `Vouching`),
  Meta's answer to a creation among it.
  `EveryTemplateHasRow` adds `Deleting` (once a name is deleted at Meta, no template
  there has the deleted row's id) and uses `Identity`: an insert is refused only
  because the row it wants to make is there.
* `ListingProofs`. `WalkInv`: a row shown is behind the cursor unless written since
  (`Behind`, which gives `NoneTwice`), and one of the beginning not yet shown is
  ahead of it or shares a page's last second (`Ahead`, which gives
  `SkipsAccounted`). `MessageInv`: at most `offset` rows sort before a message not
  yet shown (`ToCome`), and the offset counts the rows shown, repetitions no more
  than arrivals (`Repeats`).
  The module also proves `Routing`'s properties, by `RoutingInv`: what the company of a
  conversation, of a delivery and of a job may be, in terms of the numbers its customer
  wrote to (`May`, `RowOK`, `HookOK`, `JobOK`), and that who wrote to a number belongs
  to those its company answers for (`NumbersOK`). From it `OwnersOnly`, `NumbersKept`
  and `ChargesSettled`.
* `WorkerRuntimeProofs`. `BucketInv`: requests let through since an instant plus
  what the bucket holds is within the capacity and the refill (`Accounted`); a
  sleeper was refused, so the bucket held less than a token when it went to sleep,
  and it wakes within a pause (`Waiting`). `TrackerInv`: trackers are closed only
  when all workers have left (`Ended`), and an entry holds what the last heartbeat
  wrote and outlives the next ring (`Punctual`).

Only model-checked: liveness (`QueueDrains`, `MembersAreTold`,
`DeadForgotten`, `UsageIsSettled`, `StopReturns`), which is out of the prover's
reach. Every other property of the passing runs is a theorem. The inductive
invariants were checked by TLC on the instances of the runs before they were proved.

## 11. Not modelled

* **CRUD of users, companies, contacts and phone numbers; authentication.** One
  statement per request, or a stateless token; no state that several actors
  share beyond what is above.
* **Billing cost synchronisation**: there are no rows it could update (section 9).
* **WhatsApp client**: what its calls may answer is in the modules of its callers;
  the JSON of requests is formatting.
* **Configuration, metrics, phone normalisation, the browser application.**
* Functions without a caller: `IncrementQuota`, `IncrementQuotaWithLock`,
  `AssignAgent`, `Update24hWindow`, `GetAgentCount`.

## 12. Running

In this directory, with the TLA+ tools and the community modules:
`tlc -workers 2 -config OutboundPipeline_safety.cfg MCOutboundPipeline.tla`, and
likewise for the others: `X.cfg` and `X_*.cfg` belong to `MCX.tla`.
`tlapm OutboundPipelineProofs.tla`, and so on for the other `*Proofs` modules.
The operators marked "Mutant of" are faulty variants of the definition they
precede or follow; each property of a passing run is violated when its mutant,
listed in `PROJECT.json`, takes that definition's place.
