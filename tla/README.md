# PetWalker: a TLA+ model of the backend and its live clients

PetWalker is a marketplace for pet walkers and sitters: a NestJS backend over
Postgres, Redis and Stripe, with a web and a mobile client. Owners book
offerings of providers, pay through Stripe, follow a walk live, chat and
review. This directory specifies the parts of the program whose correctness
depends on the order in which things happen, checks them with TLC on small
instances and proves the main results with TLAPS for every instance.

Line references are to the repository, e.g. `bookings.service.ts:176` is
`src/backend/src/modules/bookings/bookings.service.ts`, line 176.

## How the program runs

One Node process serves all requests. Handlers are `async`; they interleave at
every `await`, which is where a statement goes to Postgres (READ COMMITTED) or
a call goes to Stripe. There are no `SELECT ... FOR UPDATE`, no version columns
and no retries: a handler reads a row, judges it, and writes it by id some
awaits later. What is in memory (webhook ids already seen, buffers of tracking
samples, promises under way) is gone when the process dies; the tables, Stripe
and Redis stay. So the unit of the models is one statement or one transaction:
it is atomic, and everything may happen between two of them.

## Inventory

| Component | State | Operations | Talks to | Hard behaviours | What makes it correct |
|---|---|---|---|---|---|
| Booking policy (`state-machine.ts`, `cancellation-policy.ts`) | none | `tryTransition`, `computeCancellationOutcome` | used by the handlers | the late boundary | the table of transitions; who pays for a cancellation |
| Booking handlers (`bookings.service.ts`, `availability-check.ts`) | `bookings`, `walks`, `provider_slots` | create, confirm, start, end, cancel | payments (`refundForCancelledBooking`), notifications (`notifyAsync`) | stale reads, races for a slot, death between statements | no double booking; slots, walks and money columns match the status; the lifecycle |
| Payments (`payments.service.ts`, `stripe.service.ts`) | `payments`, `seenEventIds` (memory), Stripe | createIntentForBooking, webhooks, refundForCancelledBooking, onboarding, saved cards | Stripe, `bookings` | repeated, reordered and lost events, restarts, concurrent pay calls | the table never runs ahead of Stripe; money taken is booked; one charge per booking |
| Recurring series (`recurring-series.service.ts`, `recurrence-dates.ts`) | `recurring_series`, `bookings` | create, cancelRemaining, date generation | booking tables, notifications | races with the handlers of single bookings; midweek starts, biweekly strides, the cap | a series is made whole; its cancellation leaves nothing behind and spares other bookings; dates follow the rule |
| Recurring series form (`recurring/new/page.tsx`) | the form | its fields, the estimate, submit | series create | an estimate by another algorithm; limits that change with the service | what can be sent is valid; the number announced is the number made |
| Free times (`free-slots.service.ts`) | none | window mode, slot mode | bookings, availability, busy blocks | windows that nest, touch, cross midnight; times past or too soon | of the times ahead, those shown are those create takes |
| Slot generation and search (`slot-generator.service.ts`, `providers.service.ts`) | `provider_slots` | generate, search | availability | old slots beside new ones | - |
| Calendar sync (`calendar-sync.service.ts`, `google-tokens.service.ts`, `calendar.controller.ts`) | `google_oauth_tokens`, `external_busy_blocks` | sweep, manual sync, callback, disconnect | Google, availability checks | syncs that overlap, tokens that go while Google is asked | blocks settle to what Google says |
| WebSocket routes (`web/src/lib/ws.ts`, `ws.bootstrap.ts`, `room-registry.ts`) | the client's socket and timer, the rooms | connect, reconnect, close; join, leave, broadcast | the gateways | a close during an await; two ends that learn of it at different times | one connection per page, and an attempt under way while there is none |
| Walk tracking (`tracking.gateway.ts`, `walks.service.ts`) | `walks.polyline`, buffers in memory | ping, flush, end | rooms, the handler of end | flushes beside each other, failing, after the end; restarts | no sample is lost but in two named cases, none is counted twice |
| Chat (`chat.gateway.ts`, `messages.service.ts`, `chat-panel.tsx`) | `messages`; the panel's history and live messages | send by socket or REST, broadcast, fetch | rooms, the query cache | messages stored but not broadcast; fetches older than the messages they miss | the panel catches up |
| Notifications (`notifications.service.ts`, `push.worker.ts`, `web-notifications.service.ts`) | BullMQ queue, `web_notifications` | notifyAsync, worker, inbox | Expo | retries after a partial send | what is told has happened |
| Reviews, favorites, pets, profiles, storage, auth | their tables | single statements | - | unique keys | - |
| Web and mobile clients | caches | screens | REST, WebSocket | - | - |

`PROJECT.json` lists the same components with their status, and every hazard
met in this code with the property that would catch it or the reason why none
does yet.

## Modules

| Module | What it is |
|---|---|
| `BookingPolicy` | the pure rules: `From`, `To`, `TryTransition`, `CancellationOutcome` |
| `BookingLifecycle` | abstract specification: one variable `status`, actions `Book` and `Advance` |
| `Bookings` | the booking handlers, detailed; refines `BookingLifecycle` when requests do not overlap |
| `MCBookings` | instance for TLC: windows and symmetry |
| `Bookings_proofs` | invariants and action properties for any number of overlapping requests |
| `Payments` | payments, webhooks, refunds and Stripe, beside booking handlers that write on stale reads |
| `MCPayments` | instance for TLC: symmetry |
| `Payments_proofs` | invariants of the payments side; webhooks keep the lifecycle; how a charge can be forgotten |
| `RecurrenceDates` | the dates of a recurrence rule as a function, and what the rule means |
| `RecurringSeries` | extends `Bookings` and `RecurrenceDates`: series beside single bookings |
| `RecurringForm` | extends `RecurrenceDates`: the page that asks for a series |
| `WsRoute` | one WebSocket route between a page and the server |
| `WalkTrail` | abstract specification: samples held, stored, and the views of the polyline that flushes write over |
| `Tracking` | extends `WsRoute`: live tracking; implements `WalkTrail` |
| `Chat` | extends `WsRoute`: the chat gateway and a panel |
| `Realtime` | composes the two routes |
| `Realtime_proofs` | one connection per page, no sample twice, and the refinement of `WalkTrail`, for any constants |
| `CalendarSync` | the Google calendar of a provider and its syncs |
| `FreeTimes` | extends `CalendarSync`: the picker's times against the checks of create |
| `RecurrenceDates_proofs`, `RecurringSeries_proofs`, `RecurringForm_proofs`, `FreeTimes_proofs` | what each of these is checked for, for any constants |
| `DataLemmas` | facts on numbers and finite sets that these proofs share |
| `MCRecurringSeries`, `MCRecurringForm`, `MCRealtime`, `MCFreeTimes` | instances for TLC |

`BookingLifecycle` is the seam: `Bookings` implements it as long as requests do
not overlap, and a webhook, which writes `bookings.status` itself, must keep to
it always. `Payments` does not rely on it: its booking handlers judge a status
and write the next one later, by id, as the code does.

### Bookings

| State | Code |
|---|---|
| `booking` | the `bookings` table: status, offering, start, duration, and the money columns of a cancellation |
| `walk` | the `walks` table: no row, a row without `ended_at`, a row with it |
| `slot` | `provider_slots`, by its unique index on offering and start |
| `req` | the locals of each handler between two awaits, with the place it is at (`pc`) |
| `now` | the clock |
| `refunds`, `told` | what was handed to the payments and the notifications service |

| Action | Code |
|---|---|
| `CreateCheck` | create up to the transaction: lead time, availability, `hasOverlap` (65-161) |
| `CreateSelect` | the unlocked SELECT of the open slot (172-196) |
| `CreateInsert` | INSERT of the booking and UPDATE of the slot by id, commit (198-235) |
| `ReadAndJudge` | `findVisibleRow`, `tryTransition`, the outcome of a cancellation |
| `WriteConfirm`, `WriteStart`, `WriteEnd`, `WriteCancel` | the UPDATE by id alone; start and end write `walks` in the same transaction |
| `ReleaseSlot` | cancel's second statement (430-437) |
| `Finish` | the synchronous tail: refund call, notification, answer |
| `Abort` | a statement throws or the process dies; what is committed stays |

A 403, 404, 409 or 422 changes nothing, so calls that end in one are not made,
except where the refusal comes after a read that others may change
(`CreateSelect`). The transaction of create is two actions since its SELECT
takes no lock; those of start and end are one, since their first statement
locks the row of the booking and the `walks` row is written only there. The
overlap query is the only one of create's checks that reads what other handlers
write, so the checks are one action at the moment of that query; the clock may
still move between any two steps. Times are small integers and durations are in
the same unit; half-open ranges collide as `tstzrange &&` makes them. The weekly availability rows, which
the code compares in UTC within one day, are a constant set of windows on the
same time line.

### Payments

| State | Code |
|---|---|
| `status`, `cancelled` | `bookings.status`, the only column payments reads or writes; the bookings whose cancellation columns are written |
| `writer` | confirm, start, end and cancel calls: judged and about to write, or about to release the slot |
| `payment` | the `payments` table by its unique intent id; `charge` says whether `stripe_charge_id` is set |
| `stripe` | external: payment intents and the total refunded |
| `outbox` | external: events Stripe has not been answered 200 for |
| `seen` | `seenEventIds` (72-73), lost on a restart |
| `pay`, `hook`, `call` | createIntentForBooking calls, webhook handlers and refund calls in flight |

| Action | Code |
|---|---|
| `PayRead`, `PayLookup`, `PayMint`, `PayInsert` | the four awaits of createIntentForBooking (133-197) |
| `Deliver` | the check of `seenEventIds` and the add, in one synchronous piece (229-231) |
| `ApplyIntentSucceeded`, `ConfirmPaid` | the two statements of applyIntentSucceeded (264-283), not in a transaction |
| `ApplyIntentFailed`, `ApplyChargeRefunded` | one UPDATE each |
| `HookFails` | a statement throws: 500, the id stays in `seenEventIds` |
| `ReadPayment`, `IssueRefund` | refundForCancelledBooking (314-330); its caller drops errors |
| `Capture`, `Decline`, `RefundPart` | external: the owner, the card and support at Stripe |
| `Create`, `Judge`, `WriteStatus`, `HandOver` | the booking handlers as payments sees them: a booking is made; a status is read and judged; the next one is written by id, whatever the status is by then; cancel leaves a refund call behind, or none |
| `Restart` | the process dies and comes back |

An event is named by its type, its intent and the total it carries, which is
what makes two events differ for the code. Events stay in the outbox until
they are answered 200, may be taken in any order, and may be delivered again
after an answer that got lost (`Acknowledge`). This is Stripe as the real service uses it; the in-process double of
development mode delivers each event once and forgets everything when the
process ends. Amounts are in units of a part
refund; `Price = 2` gives one partial and one full refund. The cancellation of a
series, the other writer of `bookings.status`, is left out: it writes no
cancellation columns and makes no refund call.

### RecurringSeries and RecurrenceDates

A handler of `Request` works either on a single booking (`req`, all actions of
`Bookings`) or on a series (`call`), over the same tables.

| State | Code |
|---|---|
| `series`, `seriesOf` | `recurring_series` and `bookings.recurring_series_id`; the status `none` is a row that does not exist, `cancelled` one whose `cancelled_at` is set |
| `call` | the locals of create and cancelRemaining |
| `heard` | the last notification about a series |

| Action | Code |
|---|---|
| `SeriesStart` | create up to the loop: `generateRecurrenceDates`, the clock (140-161) |
| `SeriesCheckDate` | one turn of the loop (162-176); a date refused ends the call |
| `SeriesInsert` | the transaction (186-233) |
| `SeriesCancelStart`, `SeriesCancelSelect`, `SeriesCancelWrite` | the two SELECTs and the transaction of cancelRemaining (268-325) |
| `SeriesTell`, `SeriesAbort` | the synchronous tail; a death |

`Dates` is `generateRecurrenceDates`: weeks counted from the Sunday before the
start, a stride of one or two, weekdays and times in the order of the request,
days off skipped, sorted and cut at the cap; `DatesOf` is its value for each
rule. A rule may name a weekday or a time twice, as the request schema lets it,
and then makes two sessions at one time. `Meant` says the same of the rule
without any order of computation; `FollowsRule` compares them.

### RecurringForm

`form` is the `useState` of the page; each action is one `onChange`, `addTime`,
`removeTime`, `toggleDay` or the button. `Scan` is the loop of
`estimatedSessions`, day by day, with its two ways to stop. The first service is
that of the link or walking, offered or not. The page and the backend see the
same days off.

### WsRoute, Tracking, Chat

| State | Code |
|---|---|
| `client` | `connect()` of `ws.ts`: waiting for a token, for the timer, up, or off; `stopped`, `socket` |
| `conn` | both ends of every connection; the server's end is being checked, joined, or one that closed while it was checked (`missed`, then `leaked` into the room) |
| `room` | the set of `RoomRegistry` |
| `buffer`, `timer` | `ProviderState` of each socket |
| `flush` | calls of `flush` under way: the batch, the polyline read |
| `polyline`, `walk`, `counted` | the `walks` row; what end computed the distance from |
| `post` | the handler of each message |
| `table`, `history`, `live`, `fetch` | `messages`; what the panel has fetched, has been told, is fetching |

| Action | Code |
|---|---|
| `NoToken`, `OpenSocket`, `TimerFires`, `SeeClose`, `Unmount` | `ws.ts` 42-121 |
| `Join`, `Refuse`, `MissClose`, `Leave`, `DropAll` | the handshake, the rooms, a restart |
| `Ping`, `LosePing` | `onMessage` of the tracking gateway (139-195); a sample nobody listens to |
| `FlushTimer`, `FlushRead`, `FlushWrite`, `FlushFails` | `flush` (197-216) and the two statements of `appendSamples` (46-66) |
| `EndRead`, `EndWrite` | the walk's part of end's transaction (369-383) |
| `Send`, `SendUnheard`, `PostInsert`, `PostAnnounce`, `PostAnswer`, `PostFails` | `send` of the panel, of the gateway and of the service |
| `FetchRead`, `FetchDone`, `FetchFails` | the history query |

A page has one client, a client at most one connection (`OneConnectionPerPage`
shows it), but the server may hold ends of several, as it learns of a close
late. Another page has a client of its own, so one page is enough for
what a page sees; of the other side of a chat only what it sends matters. The
routes share neither rooms nor clients, so a behaviour is about one of them
(`path`). A socket that is still connecting counts as the client's socket: a
sample sent then is dropped, a chat message goes over REST (`Connecting`).

`WalkTrail` is what tracking promises: a sample shown is held until it is
stored, unless the process dies (`Crash`), and a flush stores its samples over
the view of the polyline it has read (`Look`, `Store`). With a view that is
still the polyline, what is stored stays; flushes that overlap (two full
batches, or the buffer of a closed socket beside that of its successor) write
over an older view, undo what was stored since, and a third one may bring it
back. After a failed flush the batch is
held in the buffer of its socket; if that socket is closed, no code looks
there again, which is why `ShownIsStored` excepts failures.

### CalendarSync and FreeTimes

| State | Code |
|---|---|
| `google`, `granted` | external: the provider's calendar, and whether Google accepts the refresh token |
| `connected` | there is a row in `google_oauth_tokens` |
| `blocks` | `external_busy_blocks`, by their window (the hash that is their unique key) |
| `sync` | runs of `runSync` under way; `seen` is what the DELETE saw |
| `now`, `availability`, `booked` | the clock; `provider_availability`; the bookings that are not cancelled |

| Action | Code |
|---|---|
| `StartSync` | a turn of the sweep, syncOne, the sync after a callback |
| `TokenGiven`, `TokenGone`, `TokenRevoked` | `getValidAccessToken` (110-143) |
| `DropTokens`, `WipeBlocks` | runSync's answer to `invalid_grant` (131-143) |
| `GoogleAnswers`, `GoogleRefuses` | `getBusyWindows` |
| `SyncDelete`, `SyncInsert`, `SyncCollides` | the transaction under READ COMMITTED: the DELETE sees the rows committed when it starts; the INSERT of a block another sync has inserted since fails |
| `Callback`, `Disconnect` | the controller |
| `Tick`, `ReplaceAvailability`, `Book`, `CancelBooking` | what else changes the answers |

`ComputeWindowMode` is the picker's algorithm: open windows per UTC day clamped
to the query, candidates on the grid, a scan of sorted busy windows that ends
early. `Takes` is what create checks of a time, the five minutes of lead time
(`bookings.service.ts:86-91`) included. The cap of 200 answers is left out.

The service does not know the present: it clamps its windows to the query
(`free-slots.service.ts:215`) and never to now, and the web asks from local
midnight (`free-slot-picker.tsx:84-88`, `date-then-time-picker.tsx:116-118`). So
it answers with times that are past or less than five minutes ahead, which
create refuses with `SCHEDULED_AT_TOO_SOON`. `FreeSlotPicker` takes them out
(`Future`, 138-144; its "earliest available" button does not,
121-136 and 188-194).
`DateThenTimePicker`, which the booking wizard uses, shows them, and the owner
learns of it from the 422. `OffersWhatCreateTakes` says what is right of both:
the first shows exactly the times of its grid that create would take at that
moment; whatever else the service offers is refused for being too soon and for
nothing else. What a picker still shows a while later is up to the check of
create.

The comment of disconnect (`calendar.controller.ts:171-173`) says that the
synced busy windows are wiped with the tokens; the code deletes the tokens and
then sweeps the accounts that are still connected, so the blocks stay
(`Disconnect`). The comment at `calendar-sync.service.ts:134-136` says to keep
the blocks of an account that was unlinked at Google; the code deletes them
(`WipeBlocks`). Neither has a run of its own: one action shows it.

## Runs

| Run | Instance | Shows |
|---|---|---|
| `bookings_serial` | 2 bookings, 1 handler that may die anywhere, a slot-mode and a window-mode offering, 3 starts, 2 durations, clock 0..1 | the promises of the component when requests do not overlap: `NoDoubleBooking`, `LiveHoldsSlot`, `WalkFollowsStatus`, `CancellationIffCancelled`, `CancellationIsPolicy`, `ToldWhatHappened`, and that the handlers implement `BookingLifecycle` |
| `bookings_concurrent` | 2 bookings, 2 handlers that may die anywhere, one slot | what survives every race: `WalkBacksStatus`, `SlotHolderMatches`, `ToldIsWritten`, `HandlersAreSound`, `ReopenedAfterCancellation`, `LegalUnlessStale` |
| `bookings_live` | 1 booking, 2 handlers that do not die, two offerings | `CancelledFreesSlot`, `OwedRefundIssued` under fairness |
| `bookings_slot_race` (violation) | 2 bookings, 2 handlers, one slot | `SlotReservedOnce`: two live bookings for one slot |
| `bookings_stale_write` (violation) | the same | `ImplementsLifecycle`: a booking leaves a terminal status |
| `payments_races` | 1 booking, 1 intent, 2 booking handlers, 2 webhook handlers, 2 refund calls, 1 restart, failing statements, late confirmation of a declined intent, partial refunds | `InFlightIsSound`, `LedgerBacked`, `RefundsAreOwed`, `WebhooksKeepLifecycle`, `ForgottenOnlyBy` |
| `payments_live` | 1 booking, 2 intents, 1 handler of each kind, 2 restarts, refunds by hand | `ChargedOnce`, `CaptureNotForgotten`, `CaptureIsBooked`, `RefundIsBooked` under fairness |
| `series_races` | 1 series, 2 bookings, 2 handlers that may die anywhere, a slot-mode walking offering, rules with one date, two dates and one date twice, clock 0..1 | `SeriesIsComplete`, `CancelledSeriesLeavesNoneBehind`, `UnpricedOnlyBySeries`, `SlotsSurviveSeries` |
| `recurring_form` | weeks of 3 days, days of 2 hours, a cap of 4, a scan limit of 8, 3 services of which 2 are offered, 4 calendars of days off, 6 days to pick from | `SubmittableIsValid`, `DatesFollowRule`, `EstimateAgrees` |
| `realtime` | 1 page, 2 connections; 2 samples in batches of 2, 2 flushes; 2 messages of 2 users; 1 failure or restart | `OneConnectionPerPage`, `TrailIsSound`, `ImplementsTrail`, `ShownIsStored`, `CatchUp`, under fairness |
| `free_times` | 2 syncs, 3 answers of Google, 2 events, 1 failure, 2 availabilities, up to 2 live bookings, 16 queries, a week of 2 days of 6 units, a clock before and amid it | `OffersWhatCreateTakes`, `SyncSettles`, under fairness |
| `payments_refund_lost` (violation) | 1 booking, 2 intents, no restart | `PaidCancellationRefunded`: the refund call reads the row of an earlier failed attempt and gives up |

Why the bounds are enough. Every booking property speaks of at most two
bookings and one slot, and a race needs two handlers; a third handler adds only
orders of the same pairs of statements. Starts 1..3 with durations 1 and 2 give
disjoint, touching and overlapping ranges, and with `LateWindow = 2` and a clock
that moves from 0 to 1 a booking is cancelled before, at and after the late
boundary. Each payment property speaks of one or two intents; a second handler
is what a repeated delivery needs, a second restart what a crash during the
redelivery needs. Two booking handlers are what a stale write needs. Most
invariants and action properties are proved besides for any bounds; those that
are not are listed at the end of "Proofs". `CHECK_DEADLOCK FALSE`
is set since all ids, intents and restarts of an instance can be used up, after
which nothing has to happen. The models have no locks to wait for: of the row
locks of a transaction, a deadlock that Postgres breaks is an `Abort`.

In `series_races` the two handlers are a series against a single booking, two
series calls, or two single ones; one date makes room for a single booking
beside the series, two dates make the transaction insert several rows, and a
date twice makes sessions that the time alone does not tell apart. Its view
leaves out what was handed to payments and notifications, the status a handler
read once it has judged it, and all but the series of a call that has only its
tail left: no guard and no property of the run looks at them. `recurring_form` covers starts on each weekday, days off before,
across and after the week's end, and rules beyond the cap and the scan limit;
the arithmetic does not depend on the length of the week. In `realtime` two
connections are what a page and a late close need, two flushes what a stale
write needs, and a second failure would only repeat the first. It takes
three samples for one to be undone by a flush and brought back by another;
`TrackingImplementsTrail` is proved for any number. In `free_times`
two syncs are what a collision needs; the answers nest, touch and cross
midnight, and the second moment of the clock is past some of the times asked
for, at one and just before another.

Named bounds: `IdLeft` (a create call starts only while an id is left for it),
`MaxNow`, the sets `Intent`, `Hook`, `Call`, `Request`, `Series`, `Rule`, `Socket`,
`Writer`, `Sample`, `Flusher`, `Message`, `Sync`, `Instant`, `GoogleBusy`, `Booking`, and
`MaxRestarts`, `MaxFailures`, `MaxTrouble`, `MaxEvents`, `MaxBookings`; `IdsLeftFor`
(a series starts only while there are ids for all its sessions), `Unused` (a
connection id is used again when both its ends are gone), `OpenTracking` (and
nothing of its last use is in a buffer).

### Three disagreements with the repository's own words

`bookings_slot_race` contradicts the comment at `bookings.service.ts:225-229`:
the second transaction does not see `status='booked'` on its SELECT, because it
may have selected before the first committed, and the UPDATE does not look at
the status again. `bookings_stale_write` contradicts the lifecycle of
`docs/architecture.md:72` and `state-machine.ts:36`. `payments_refund_lost`
contradicts `docs/architecture.md:73` and `bookings.service.ts:439`.

### What the passing runs leave out, and what TLC shows there

Some properties hold only in the scenario their run describes. These were run
as well:

- Two overlapping requests: `NoDoubleBooking` fails for window-mode offerings
  (both pass `hasOverlap` before either inserts), `LiveHoldsSlot` and
  `ImplementsLifecycle` fail as in the two violation runs.
- `bookings_live` with `MayAbort = TRUE`: a handler that dies after
  `WriteCancel` leaves the slot with the cancelled booking or never makes the
  refund call; a second cancel is refused by the table.
- `payments_live` with two pay calls, or with `Reconfirm`: `ChargedOnce` fails.
  Two calls mint an intent each; a declined intent is still payable at Stripe
  after a new one was minted.
- `ChargedOnce` counts charges that are kept. A pay call that read the booking
  before it was cancelled can still mint an intent for it after the refund, and
  a late payment of a cancelled booking is kept. A pay call that finds a payment
  of which support refunded a part mints a new intent too: that payment does not
  count as kept.
- `payments_live` with `MayFail = TRUE`: Stripe's retry is dropped as already
  seen, so the capture is booked only after a restart, if there is one.
- `payments_live` with two webhook handlers and a restart: the second delivery
  is answered 200 while the first is still being applied; when the process dies
  then, the event is gone.
- Persisting `seenEventIds`, which `docs/payments.md` plans, without moving the
  add behind the processing breaks `CaptureIsBooked` even with one handler:
  that is the mutant `RestartRemembers`.
- `RefundIsBooked` is about a refund that is told of when its charge is booked
  already. A `charge.refunded` that is delivered before the
  `payment_intent.succeeded` of its charge finds no row (`stripe_charge_id` is
  not written yet), is answered 200 and is lost
  (`payments.service.ts:300-309`): the run contains it, and without that clause
  the property fails. Of two totals the smaller may be applied last, so that the
  table ends with it; `LedgerBacked` and `RefundIsBooked` both allow that.
- A refund call asks for what was missing in the row it read. When events or
  another call change the row before it asks, its amount is stale; no property
  judges the amount. `IssueRefund` takes Stripe to refuse what goes beyond the
  charge, and the type of `stripe` rests on that.
- A booking may have left `cancelled` again while its refund call is under way,
  by a stale confirm, start or end. `RefundsAreOwed` and `InFlightIsSound` say
  that its cancellation was written, which stays so.

- Series: the dates of one series are not checked against each other, so two
  times of a day closer than the duration make sessions that overlap; a session
  of a slot-mode offering reserves no slot, and its slot is still offered.
  cancelRemaining writes no money columns and asks for no refund, also for
  sessions paid (`UnpricedOnlyBySeries` says that nothing else does so), while
  `docs/architecture.md:73` speaks of the cancellation of a booking. With no session left ahead it
  answers 0 and does not mark the series.
- A rule that names a weekday or a time twice makes two sessions at one time
  (`SeriesIsComplete` counts them as the dates do).
- A confirm or start that read its session before the series was cancelled
  brings the status back, as in `bookings_stale_write`; the cancellation
  columns stay, which is how `CancelledSeriesLeavesNoneBehind` is stated.
- Tracking does not keep what is stored: overlapping flushes lose samples
  (`Store` with an old view). Two samples with the same time in one batch would both be stored;
  a phone's samples have distinct times. `counted` may miss samples that are
  stored after `EndRead`.
- Chat: `CatchUp` with live messages of the kind `early` fails. A message that
  arrives before the first history is shown, but the fetch under way goes on
  and may have read the table before the others. A message typed between the
  handshake and the join is lost. Fetching again after the network comes back
  (react-query's default) is not modelled; it only brings more.
- A sync under way when the provider disconnects for good inserts its blocks
  afterwards and nothing removes them: `SyncSettles` speaks of connected
  providers. A sync that was told `invalid_grant` deletes the tokens of a
  consent given since.

### Fairness

`Bookings!FairSpec` has weak fairness of each handler's next step and of
nothing else: a statement sent to Postgres is answered and the event loop runs
the continuation. Nobody has to issue a request (`CreateCheck`, `ReadAndJudge`),
time need not pass, and nothing has to fail. `Payments!FairSpec` adds that
Stripe delivers each event that is in the outbox when a handler is free, which
is what its retries amount to. Users, the card, support and restarts are not
fair. `bookings_live` has no `Abort`, since a handler that died does not go on;
`payments_live` has restarts, since there the event is delivered again.
`TrackingFairness`: a timer that is armed fires, the close of a joined socket is
noticed, a statement is answered. `ChatFairness`: a request of the panel is
answered; nobody has to send, and no connection has to come up.
`CalendarFairness`: some sync starts again and again (the sweep, every half
hour), and each sync under way goes on; Google's changes and the provider's
clicks are not fair, and bounded, so that there is a time after the last one.

### Mutants

Each property of a passing run comes with a mutant, an operator right before
the definition it stands for, that breaks it as a plausible bug would: a check
dropped, a row not written, an answer given too early, an amount added up.
They are not used by any specification.

## Proofs

Each proof module shows that an inductive invariant holds for every value of
the constants and reads the properties off it; TLC agreed to the invariants on
instances first. Assumed of the constants is what their `ASSUME`s say (times
and amounts are naturals, the absent id is none of the ids, the intents are
finitely many, an answer of Google is a finite set of windows) and, in the
theorems on dates and the form, the hypotheses named below. No theorem on
bookings, payments, series, tracking or free times assumes that requests do not
overlap, that nothing fails or that nothing is delivered twice.

**Bookings.** The table invariants are not inductive alone, since a write goes
by what its handler read before. `HandlersAreSound` says what of it is still
true: the row exists, and once written is not pending again; the status that
was read allows the action; a handler about to end a walking booking knows
that its walks row exists, since walks rows never vanish; a cancellation in
flight carries an outcome of the policy, and one that denied the refund was late
and stays late, because the clock only goes forward; past its write, the money
columns are filled for good, because no statement clears them, and what it is
about to tell is written. With that conjunct, each action preserves each other
conjunct (`NextIInv`), however many requests overlap. What is *not* there is
that a row still has the status that was read: this is what the violation runs
exploit. One conjunct, `RefundsAreBacked` (a refund call is for a
booking with a cancellation on record, and for the full price), is a conjunct of the
invariant and proved without a run of its own; `CancellationIsPolicy` is
checked for one handler and proved for any number of them. `OnlyStaleBreaksLifecycle` says that this is the only way out of the
lifecycle, and `NothingToldTooSoon` that no notification runs ahead of the
tables in spite of it.

**Payments.** `InFlightIsSound` is the strengthening, with what is only proved:
two pay calls never insert a row for the same intent (`InsertsApart`), and a
handler that releases a slot has written the cancellation (`WriterSound`). An
event in the outbox or in a handler tells the truth about Stripe for as long as
it is under way, because charges and refunds are never undone (`Keeps`,
`TruthStays`); a refund call is about a booking whose cancellation is written.
`LedgerBacked` and `RefundsAreOwed` are preserved by it with all scenarios on:
booking handlers that write on stale reads, failing statements, late
confirmations, partial refunds, restarts. `PaymentsKeepLifecycle` shows that
every step but such a write by id, `ConfirmPaid` included, is a step of
`BookingLifecycle` or a stutter.

`CaptureInv` adds that an event marked as seen was true when it came
(`SeenWasTrue`), so that a new capture's event is not dropped as a repetition,
and that between its two statements a handler has recorded the charge
(`ChargeRecorded`). From it, `CaptureForgottenOnlyBy` follows action by action: a
charge that is booked or whose event is still to be applied stays so, except in
two steps, which the theorem names. It assumes neither that statements succeed
nor that deliveries do not overlap.

**Live tracking.** `Realtime_proofs` has two invariants. `WsInv`: the client is
up exactly when it holds a socket, and that is the only open one; what either
route does to the connection is a `WsStep`, so it is shown once for both.
`TrailInv`: no buffer and no batch has a time twice; the buffer of a socket and
the batches taken from it have none in common, since a failed flush puts its
batch back (`OnceConcatenated`); all times in memory and in polylines that were
read are at most the last one sent, so that the next is new. Each step is taken
apart into a change of one buffer (`BufferChanges`) and of one flush
(`FlushChanges`). From it follow `TrailIsSound` (`MergedIsSound`: a time is in
what was read, or once in the batch) and, with what buffers and batches hold
between them (`Loaded`) and the polylines read (`Seen`), that each step is one
of `WalkTrail` or a stutter.

**Dates.** `generateRecurrenceDates` pushes an instant per week, weekday and
time, sorts and cuts. `Pushes` is the set of turns of the loops and `Smallest`
the sort, which needs no recursion: the i-th value is the one with fewer than i
below it and at least i up to it. `DatesFollowTheRule` shows that different
turns push different instants, that the turns are exactly what `Meant` says
(the arithmetic of weeks and strides, `DataLemmas`) and that the i-th value
exists (`PositionTaken`). Its hypothesis, that a rule names no weekday and no
time twice, is what the form's own checks guarantee (`RuleIsAccepted`); the
request schema does not, and with a repetition a session is made twice, which
the series do without: their results are for any rule. A
time is read as any number of minutes, since the schema lets `99:99` through:
distinct times that lie a day apart can then meet, so the theorem takes times
below `DayLength`.

**Series.** A series cancels bookings without the policy, so `IInv` of
`Bookings` does not hold beside it; its part on the tables does. `SeriesInv`
adds what series and single bookings leave each other: a session's series
exists; a slot's holder is no session; a call that makes a series is the only
one with its id; a call about to cancel has selected every walk still ahead
except those another handler has started or cancelled since. For
`SeriesIsComplete` it matches the sessions of a series one to one with the dates
of its rule, which are a sequence and may repeat. The theorems need no
hypothesis.

**Form.** `FormInv` bounds the number of times by the limit of the service
chosen, though service, days and times change in any order. That the backend
makes of a form what it shows follows with `DatesFollowTheRule`. For the
estimate, `Scan` is a recursive function over days; its proof shows that a
function with these equations exists and is the only one, by taking the first
day at which two would differ (`LeastNatural`), since the induction theorems of
the library cannot be used, and then compares its value on each day with the
dates up to that day. Both theorems are about providers who published hours
(`Availability # {}`): for one who did not, `timeInWindow` accepts an empty
time.

**Free times.** `TimesInv` holds of the tables whatever the syncs do. The rest
is about one state: the busy windows are all the blockers in the order of their
starts (`BusyWindowsInOrder`), so ending the scan at the first that starts too
late loses no overlap (`ScanFindsOverlap`); cutting them to those that meet the
query changes no answer within it (`BlockersAreConflicts`); clamping the rows
of availability to the query hides no time a create would take, and a window
never reaches over midnight (`OpenWindowsAreAvailability`). The lead time is left
to `Future`, at any reading of the clock.

Only model-checked are:

- the liveness properties (TLAPS has no fairness reasoning and no ENABLED):
  `CancelledFreesSlot`, `OwedRefundIssued`, `CaptureIsBooked`, `RefundIsBooked`,
  `ShownIsStored`, `CatchUp`, `SyncSettles`;
- what holds only of requests that do not overlap, of deliveries one at a time
  or of one pay call at a time, which the code does not see to:
  `NoDoubleBooking`, `LiveHoldsSlot`, `WalkFollowsStatus`,
  `CancellationIffCancelled`, `ToldWhatHappened` and `ImplementsLifecycle` of
  `bookings_serial`, `ChargedOnce` and `CaptureNotForgotten` of `payments_live`.
  Proved for any requests and deliveries is what is left of them:
  `SlotHolderMatches`, `WalkBacksStatus`, `ToldIsWritten`, `LegalUnlessStale`,
  `ForgottenOnlyBy`;
- the violation runs, which are counterexamples.

## Not modelled

- Slot generation: one read, then inserts that skip what exists. `pruneStale`
  has no caller. The slots it leaves from an earlier duration or availability
  are listed as a hazard; create checks each booking again (`CreateCheck`).
- Slot mode of free times: one SELECT and a filter by busy blocks.
- The booking wizard, the pickers, the trail map and the other pages of the web
  client, and the mobile screens: rendering and local form state, one call per
  button; the mobile client's socket is the code of `ws.ts` again. They are most
  of the repository's lines, and hold no state that two actors share.
- Notifications: BullMQ keeps the queue and repeats jobs; the worker is a loop
  of requests, the inbox single statements.
- Address resolution, provider search, reviews, favorites, pets, profiles:
  queries and single statements guarded by unique keys.
- Onboarding, saved cards, reports and PDF, storage, authentication: calls to
  Stripe, S3 and Cognito with one statement each.
- Reads, formatting, validation of DTOs, logging, `updated_at`, audit columns.
- Seeds, translations, generated code and the vendored API documentation.

Create's checks on owner, pet, offering and address only refuse a call.

## Plan

What is left:

1. The safety part of the chat: what a panel shows was stored, each message once.
2. Safety lemmas below the liveness properties, of the form "while the promise is
   open, the action that keeps it stays possible", which say all that TLAPS can
   say of them.
