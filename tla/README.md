# TLA+ models of the support chat backend

The backend is a customer-support chat: customers write in one conversation each, staff answer.
Several identical Node.js processes ("servers") share MongoDB, Redis and BullMQ queues; clients talk
to any of them by REST and Socket.IO. What one request does between two `await`s is atomic on its
server and nothing else is: the interesting behaviour is what requests, socket handlers, timers and
queue workers of several servers do to the shared documents and keys between each other's calls.
The modules here model that. Paths are relative to the repository root.

- [Inventory](#inventory)
- [How the code is modelled](#how-the-code-is-modelled)
- [Modules](#modules)
- [Model-checking runs](#model-checking-runs)
- [Fairness](#fairness)
- [What is proved](#what-is-proved)
- [Where the code and its comments differ](#where-the-code-and-its-comments-differ)
- [What is not modelled](#what-is-not-modelled)
- [Plan](#plan)

## Inventory

| Component (`src/src/...`) | State it keeps | Operations | Talks to |
| --- | --- | --- | --- |
| **Assignment** `modules/agents/services/{assignment,agents}.service.ts`, primitives of `chat/services/conversations.service.ts` | conversation `status`, `assignedAgentId`; profile `activeChats`, `maxConcurrentChats`, `availability`; Redis `agents:rebalance-lock`; per server the flag `draining` and a promise chain per conversation | autoAssign, drainQueue, claim, transfer, close, staffReplyGuard, setAvailability, setLimit, requeueAgentChats, rebalance (every 30 s) | presence (who is connected), chat gateway (a customer's message, a staff reply), users (roles) |
| **Profiles** `setAvailability`, `ensureProfiles` of `agents.service.ts`, `core/database/mongo.ts` | one row per agent, created on first use; the unique index and the start that waits for it | setAvailability, ensureProfiles, ensureIndexes, listen | Assignment reads the rows |
| **Routing order** `candidatesFor`, `listQueue` of the same files | `lastMessageAt`, `lastAssignedAt`, skills, topic | the order of the queue and of the candidates | Assignment |
| **Chat gateway** `modules/chat/chat.gateway.ts`, `services/messages.service.ts` | messages with `status`, `deliveredAt`, `readAt`; conversation `lastMessageAt/Preview`; rooms of the Socket.IO adapter; per socket typing timers | `message:send`, `message:read`, `conversation:join`, `conversation:leave`, `typing:set`, connect, disconnect | history cache, Assignment, push |
| **History** `messages.service.ts` (`getHistory`, `streamAll`), `chat-export.service.ts`, `common/utils/pagination.ts` | none but a client's cursor | keyset pages, export stream | history cache |
| **History cache** `chat/services/message-cache.service.ts` | Redis version counter and one key per version and page size | get, set, invalidate | MongoDB through `getHistory` |
| **Presence** `modules/presence` | Redis: leases of sockets per user, online set, sweep lock; per server the grace timers; the rooms `presence:*` a socket follows | connect, disconnect, settle, heartbeat, sweep, publish, shutdown, `presence:subscribe` | Assignment (`onChange`), metrics, `main.ts` |
| **Push queue** `push/services/push-queue.service.ts`, `web-push.sender.ts` | BullMQ jobs; counters `sent` and `failed` | queue a message, fan out, deliver, `failed` event | push subscriptions, chat gateway |
| **Push subscriptions** `push/services/push-subscriptions.service.ts` | one row per browser | save with pruning, mark, remove | push queue |
| **Metrics** `modules/metrics/metrics.{service,gateway}.ts` | Redis counters per minute and day, broadcast lock | recordMessage, broadcast, `metrics:subscribe` | chat gateway, presence |
| **Analytics** `modules/metrics/analytics.service.ts` | none but a cache of 60 s | the daily report | messages |
| **REST limiter** `common/middleware/rate-limit.ts` | one Redis counter per client | count, refuse, fail open | every route |
| **Auth, sessions, users** `modules/auth`, `modules/users`, `core/session`, `common/guards` | accounts with their approval and role, Redis sessions with their CSRF token; in the browser a cookie and the page's token | register, approve, login with regeneration, logout, CSRF token, requireAuth, change of role | Assignment (roles), sockets (the handshake reads the session) |
| **Plumbing** `core`, `realtime`, `common`, `docs`, `scripts`, `main.ts`, `app.ts` | connections, the sliding window of one socket | start, stop, validation, errors | all |

What makes this hard:

- **Two documents, no transaction.** A slot is reserved in a profile and the conversation assigned in
  another document; the counter and the assignments must still agree, whoever interferes.
- **Read, await, write.** `close`, `transfer`, `rebalance`, `conversation:join`, the reply guard and
  the cache fill all act on something they read before an `await`.
- **Every server does everything.** Timers (rebalance, sweep, broadcast) are kept to one server by
  Redis locks that expire and are not deleted; leases and grace timers of different servers race.
- **Partial failure.** A call throws, or a process dies, between two writes; another server's sweep or
  the next rebalance has to repair it.
- **One browser, many requests.** Each request works on its own copy of the session and saves it, or
  renews its cookie, when it is done.
- **At-least-once.** Clients retry sends, BullMQ retries jobs and runs stalled ones again.
- **Boundaries.** Equal timestamps at the seam of two pages, days of 23 and 25 hours, limits at the
  limit.

`PROJECT.json` lists each of these hazards at its line with the properties that watch it.

## How the code is modelled

A server's request, handler, timer or job is a *task* (`Procs`, or a component-specific name). A step
of a task is one call to MongoDB, Redis or another service, together with the synchronous code that
runs until the next `await`. Local variables that survive an `await` are in `job` (or a variable named
after the method). A task that throws or whose process dies stops where it is: `Abort(p)`,
`...Fails(p)`, `Crash(s)`, bounded by `MaxFaults`.

Time is not counted. A timer that is armed, a lock or a key with a time to live may fire or expire at
any moment the code allows, which covers every relative speed. Where an order of instants matters
(`createdAt`, `lastMessageAt`), there is a logical clock.

*Data* is abstracted to what the properties tell apart: a message is a model value, a history page is
the number of writes the database had seen when it was loaded, a user or socket is a model value.

Operators marked "Variant" are slips one could make in the code. No behaviour of the specifications
uses them; they are what each property is shown to notice.

History variables (`excused`, `drifted`, `settled`, `asked`, ...) only record what has happened; no
guard of a modelled operation reads one. Bounds (`MaxCalls`, `MaxFaults`, ...) stand in guards of
inputs and faults, and not in guards of what the program does with them. The one exception is
`Assign` of Routing: an assignment takes an instant of the logical clock, which ends at `MaxTime`.
Behaviours are cut off there; `NobodyWaits` and `LoadedAlike` are about every state before that.

## Modules

Two modules say what a part promises and not how: **Ownership** (a conversation has one agent or none,
and whoever has it keeps it until a hand-over ordered while they had it, or until it is closed) and
**Receipts** (a message is saved once, goes forward from sent to delivered to read, and is announced at
most once, after it was saved). Assignment implements the first (`ServedOnOrders`, a refinement mapping
that reads the orders off the tasks under way), Messages the second (`KeepsReceipts`).

**Assignment** — `Request(p)` starts a task for a client's call: `Message`, `Claim`, `Reply`,
`Transfer`, `Close`, `SetAvailability`, `SetLimit`, `PresenceChange`; `Rebalance(p)` starts the
timer's. The rest of `Work(p)` are the steps:

| Steps | Code |
| --- | --- |
| `AutoRead`, `Rank`, `Pick`, `AutoReserve`, `AutoAssign`, `AutoUndo` | `autoAssign`/`assignNow`: read the conversation, candidates, take each in turn, reserve, assign if unassigned, undo |
| `Drain`, `DrainNext`, `DrainFails` | `drainQueue` with its flag and the `finally` |
| `ClaimRead`, `ClaimReserve`, `ClaimAssign`, `GiveBack` | `claim` |
| `ReplyRead`, `SaveReply` | `staffReplyGuard` and the message saved after it |
| `MoveCheck`, `MoveReserve`, `Move`, `MoveFree` | `transfer`, to an agent or to the queue |
| `CloseWrite`, `CloseFree` | `close` |
| `Status`, `Offline`, `Requeue`, `RequeueNext`, `RequeueFree` | availability and presence changes, `requeueAgentChats` |
| `Roster`, `Count`, `Sync`, `Snapshot`, `NextStaff`, `Orphans` | `rebalance` |

`Elapse` is the passing of 60 s after a disconnect, `SetRole` a change of role in `users`. `reserveSlot`
reads the limit in one call and compares `activeChats` with it in the next: `auto[p].room` keeps it.
The order of candidates is left open here (any candidate may be next), so what holds does not depend
on it; **Routing** is about that order: skills first, then the number of conversations, then the last assignment,
a queue cut off at `QueueLimit` (50), one event at a time on one server.

**Profiles** — one agent's profile. `BuildIndex`, `BuildFails` and `Listen` are the start of a server,
`SetAvailability` and `EnsureProfiles` start a request, `Upsert` and `Insert` the two halves of an upsert
that finds nothing (another may insert in between), `Update` what `setAvailability` does when the unique
index refuses its insert, `Answer` the response.

**HistoryCache** — `Write` and `Invalidate` for the four methods that change messages; `Read`, `Hit`,
`Miss`, `Load`, `Store`, `Answer` for `getHistory`; `InvalidateSkipped`, `ReadWithoutCache`,
`StoreFails` when Redis is away; `PageExpires` (5 min), `VersionExpires` (24 h).

**OpenThread** — one who opens a conversation while others write to it. It holds the state of
HistoryCache (`Cache == INSTANCE HistoryCache`), of the room and of one screen: `Save`, `Saved`, `Emit`
and `HandlerFails` are `message:send` as far as the cache and the room are concerned, `Enter` the join,
`Get` and `Shown` the first page, `OtherRequests` whoever else fills the cache. `WaitsForRoom` says
whether the client asks for the page after the ack of its join.

**History** — `NextPage` and `NextBatch` read by cursor while `Save` adds messages whose
`<<createdAt, _id>>` come from clocks of several servers.

**Messages** — one conversation, a customer side and a staff side: `Send` (save by `clientMessageId`,
touch, emit, look into the room, deliver), `Join` (enter the room, receive, report), `Read`, `Leave`.
**Rooms** — the connect of a customer (`Find`, `Create`, `FindAgain`, `EnterOwn`) and the commands
`join` and `leave` that wait for `ready`, up to `MaxOpen` unanswered at a time. **Typing** — the
timers of `typing:set` (`Handle`, `Elapse`), the stop by a message, a leave or a disconnect, and the
screens that get the updates.

**Presence** — `Register`/`Unregister` are the ADD and REMOVE scripts, `TimerFires`, `Settle`, `Look`,
`Publish` the grace timer and what follows, `Heartbeat`/`Renew`, `SweepStart`, `SweepSettle`,
`SweepLook` the two intervals, `Stop`, `CloseIo`, `Exit` the order of `main.ts`, `Crash` a process that
dies. **Watchers** — `presence:subscribe` of one socket: `Subscribe` reads and leaves its presence
rooms, `Join` joins the ones asked for after the await, `Answer` acks.

**Sessions** — accounts (`Register`, `UpdateApproval`) and one browser that may have several requests
under way: `Send`, `Load` by the session middleware, then `IssueCsrfToken`, `Login`/`Regenerated`,
`Logout` or `RequireAuth`, `Save`, and `Answer`, which sets the cookie and the page's token. That a
request keeps its own copy of the session, saves it only when it has changed it and renews the cookie it
came with is express-session's (external).

**PushQueue** — `Who`, `Viewers`, `List`, `Add`, `Finish` of the message job, `Find`, `Send`, `Mark`,
`Purge` of a deliver job; stalls, retries and removed job ids as BullMQ does them (external).
**PushSubscriptions** — `Upsert`, `Find`, `Delete` of a save; `Mark` stands for the success and failure
marks, which move `updatedAt` since the schema keeps timestamps.

**Metrics** — `Record` and the two increments that come late; `IncrFails`, an increment that is given up,
counted or not; `IncrResent`, one that has counted and is sent again, since the client of
`core/redis/redis.ts` has no limit of retries and resends what was not answered when the connection was
lost (`twiceOfMinute`, `twiceOfDay` record it); `Broadcast`, `Subscribe`, `ReadSeries`, `ReadDay`, `Emit` of a
round. The chart's own read of the minutes, a second one of the kind of `ReadSeries`, is left out. **Analytics** — `Compute` is `daily`: labels, slots and counts in a zone
whose clocks change. **RateLimit** — `Count` (INCR and TTL), `Expire`, `Decide`, `FailsOpen`.

Components meet through shared state that is modelled on both sides only where it can go wrong:
Assignment sees presence as the value its `onChange` gives it; Messages leaves cache and assignment to
their modules, OpenThread joins room and cache; PushQueue sees the rows as inputs that change under it.
`MCParts` joins the eight modules that share no state with another and have safety properties to check
(Sessions, which it extends, and History, PushSubscriptions, Rooms, Analytics, Profiles, OpenThread, Metrics), `MCLive` three in which
something must happen in the end (HistoryCache, RateLimit, Presence with a server that dies).

## Model-checking runs

Each `MC<module>.tla` extends its module and gives the small instance its functions; the `.cfg` gives
the constants. "States" are distinct states.

| Run | States | Asks |
| --- | --- | --- |
| `assignment_calls` (TypeOK, ClosedIsUnassigned, CounterExact, CapacityRespected, DrainFlagHeld, ServedOnOrders) | 868,505 | Two agents, two conversations, any three calls of clients, two tasks at a time of one server interleaved at every call: what each pair of tasks may do to the other. Three calls reach claim against transfer against close, and a drain that starts while another runs. `ServedOnOrders` is the refinement of Ownership. |
| `assignment_heal` (CountersHeal, WaitingServed) | 674,176 | Two servers, one agent, one conversation, three of: a message, a close, an agent who goes away or comes back, a change of role; rebalances without end, one failure of a call or of a server. Counters become right for good, whether a requeue's or a close's release was lost or a re-count overtook something, and nobody waits for ever beside a free agent. A queue of several is in `assignment_calls` and `routing`. |
| `routing` (NobodyWaits, LoadedAlike) | 1,997,558 | Every order of messages, closes and changes of two agents, with and without a skill, limits 1 and 3, three conversations. Unequal limits let one agent be full while another is free. |
| `messages` (NoMissedDelivery, LatestOnTop, KeepsReceipts, Announced) | 728,518 | One message of each side, three sockets, four calls: a send, a join, a read and one more, which may be an attempt of the same send or the message that races with the read; two instants so that `createdAt` may be equal, one failure. `KeepsReceipts` is the refinement of Receipts. |
| `presence_servers` (LeasedIsOnline, LiveIsOnline) | 1,365,354 | One user with two tabs on two servers, one shutdown, one failure. Users share nothing but the sweep, so one is enough. |
| `push` (OthersOnce, FailuresCounted, Delivered) | 808,119 | Three rows of two browsers, two failures, one stalled worker, one forgotten job, one change of a row or of the assignee. `DeliverAttempts` is 3 where the code has 5: two failures and a stall cannot use up either. |
| `typing` (IndicatorBacked, ShownWhileTyping, IndicatorEnds) | 503,856 | Two tabs of one user and one of another before one screen, three events, one look, one fault. |
| `metrics` (BecomesRight) | 1,115,014 | Two rounds over three minutes and two days, one message, one fault (an increment given up or sent again, a server that dies), a lock that may lapse at any moment. |
| `parts` (Complete; AtMostDevices; OneThread, WhereAsked; DaysCountedRight; OverOnlyByResends; EndedForGood, OnlyApproved, StillLoggedIn; OneProfile, ChoiceKept; SeesAll) | 2,809,215 | The eight modules of `MCParts`: a behaviour exercises one of them and the others stay in one initial state, since their steps change nothing its properties read. Sessions: two requests at a time; ids and tokens up to 5 are enough for a token, a login and a second one. Profiles: three requests at a time, four in all, so that two creations race and a choice is made meanwhile. OpenThread: two requests, two messages, one failure of Redis or of a handler. Metrics: the bounds of `metrics`. |
| `live` (LimitHolds, LetInAgain; AnswerIsFresh, StaleEnds; GoneGoesOffline) | 284,034 | The three modules of `MCLive`. Cache: two requests at a time, three writes, two failures of Redis, one expiry of the version key: two readers and a writer in turn are what an overtaken store needs. Limiter: three clients, a limit of two, two windows. Presence: one tab, two servers of which one dies or stops. |
| `analytics_skipped_day` (EachDayOnce, expected to fail) | | The first finding below. |
| `watch_list` (ListReplaced, expected to fail) | | The second: two commands of one socket and two users. |

The instances are symmetric where `SYMMETRY` says so, and only in runs without liveness properties.
`CHECK_DEADLOCK FALSE` stands in those runs whose system really comes to rest: clients have nothing
left to ask, all jobs are over, the report is made. The others never rest: Assignment and
Messages have an explicit `Quiet` step, so that any other stop is reported as a deadlock; they are the
ones in which a task could get stuck. In `parts`, `MaxOpen` is 1 and `WaitsForRoom` is TRUE: with two
unanswered commands of one socket WhereAsked fails, and SeesAll fails for a client that does not wait
for its room (see below).

Every property of a passing run is also checked against a slip in the code it is about: `PROJECT.json`
names, for each, the definition and the variant under which TLC finds the property violated.

## Fairness

- A task that runs takes its next step (`WF` per task): promises settle, Node.js runs their
  continuations. Where a failure is possible it is a competing step, and a fault is never fair.
- `SF` of `AutoRead`: the promise chain of a conversation is first come, first served, so a task that
  waits for its turn is not overtaken for ever. `SF` of `Rebalance` and of `Broadcast`: intervals
  call them again and again, also when a task slot is busy or the lock is taken for a while.
- Locks, leases and keys with a time to live expire (`WF`); armed timers fire (`WF`).
- Presence: replies come back, each server keeps sweeping and sending heartbeats while it runs.
- The queue runs every job it holds (`WF`), as BullMQ does while a worker is up.
- RateLimit: a client that was refused asks again (`SF`, an assumption about the client; the property
  is about such clients).
- `live` joins modules whose behaviours are apart: `LiveSpec` takes the fairness of each, and of
  `SweepStart` only in the behaviours that are about presence, since the others never change its state.
- Clients' requests, faults, crashes, shutdowns, changes of roles or rows are never fair. So `Enter` and
  `Handle` of Typing are not fair either: the indicator ends without them.

Without fairness each of these liveness properties fails at once by stuttering; with it each fails
under its mutant.

## What is proved

TLAPS checks 46 theorems for every value of the constants, from the assumptions named in the
modules (`None` is no conversation, agent, user or message; limits and bounds are numbers; the sets of
chats and tasks are finite). Theorems with an assumption of their own: `LoadsBalanced` and
`RoutingTyped` (finitely many conversations), `NobodyWaitsBesideAFreeAgent` (no more of them than
`listQueue` returns), `ReadersMissNothing` and `ReadingTyped` (finitely many keys), `ClientIsWhereAsked` (`MaxOpen = 1`: the client waits for the
answer to a command) and `ViewerSeesAll` (`WaitsForRoom`: the client asks for the page after the ack of
its join). The queue's limit and the last two are real conditions: without them the properties fail (see
below).

Every module that states a type invariant has it proved (`TypeCorrect`, `PresenceTyped`, `CacheTyped`,
`RequestsTyped`, `MessagesTyped`, `RoutingTyped`, `TypingTyped`, `QueueTyped`, `SocketsTyped`,
`DevicesTyped`, `CountersTyped`, `ReadingTyped`). Besides the types they say what relates the variables,
and that is where the work is: that a job which waits or runs has an attempt left, that a timer belongs
to a socket in the room, that a socket which is gone is in no room, that no message is
counted twice unless its increment was sent again.
Where the bounds of counters are part of them, the proof also shows that each bound is in the guards.

**AssignmentProofs.**
- `TypeCorrect` (`Spec => []TypeOK`). TypeOK is inductive since it also says which steps have a
  conversation and an agent at hand (`Fits`): without that, an update at `job[p].agent` could be one
  at `None`. One lemma per family of steps (`AutoTypes`, `DrainTypes`, `ClaimTypes`, ...).
- `ClosedNeverAssigned` and `KeepsThePromise` (`Spec => ServedOnOrders`, the refinement of Ownership).
  Both rest on `NextOwnership`: whatever task takes a step, a conversation is left alone, given to
  somebody while open and unassigned, handed over by a task that names its assignee, closed and
  unassigned at once, or reopened as it is. This is the argument for the conditional updates of
  `conversations.service.ts`: the filter, not what the task has read, decides. `NextOrders` adds that an
  order appears only with its assignee in place, in a step that leaves the conversations alone.
- `FlagHeld` (DrainFlagHeld) from `DrainInv`: a task drains only at the labels of `drainQueue`, where it
  has found the flag down (`Fitting`), so a step keeps the flag, raises it or lowers it together with
  the one task that drains (`FlagKept`, `FlagRaised`, `FlagLowered`).
- `SlotsCounted` (CounterExact) and `LimitRespected` (CapacityRespected) from `SlotInv`. For each agent a
  step keeps the books (`Kept`), takes a slot, returns one, turns one into a chat or takes a chat away
  for a slot to return (`Takes`, `Frees`, `Wins`, `Loses`), or recounts; the sets win or lose one element
  and the counter follows. That needs what the next step relies on: a requeue's chats are those of the
  agent at hand, a transfer's two agents differ, a closed conversation has no agent. The limit then
  follows from the order "reserve, then assign": the counter, not the chats, is compared with the
  capacity, and the capacity a task has read is still the limit of anybody who is not excused
  (`WithinLimit`).

**PresenceProofs.** `PresenceTyped`; `LeasedAreOnline`, which is inductive relative to TypeOK, since
only ADD makes a lease and SETTLE takes out nobody who has one; `LiveAreOnline`, via the
strengthening that, while no fault has happened, a connected registered socket has a *live* lease
(`LiveUnlessFaults`), and that a state without faults comes from one without (`FaultsStay`).

**MessagesProofs.** A step rests, saves a message, announces one or only moves a handler (`NextKinds`).
- `KeepsItsReceipts` (`Spec => KeepsReceipts`, the refinement of Receipts) from `IInv`: what a step has
  at hand (`Held`), that one handler at most has a message between its insert and its announcement
  (`Alone`, by the unique `clientMessageId`), and that what such a handler has is not announced yet
  (`Pending`). Without `Alone` a second attempt of a send could announce what the first has announced.
- `MessagesTyped`: what a handler has read, found or made is well typed at each of its steps.
- `NothingMissed` (NoMissedDelivery): a handler looks into the room after the insert, a join looks for
  messages after it has entered; whichever comes second sees the other. `NewestOnTop` (LatestOnTop): the
  touch is conditional on a newer instant, in whatever order handlers arrive.

**PartsProofs** proves the components that `MCParts` brings together, in the names it gives their state.
`PartsAreSpecs` says that a behaviour of the instance is one of each of them.

*Sessions.* A step keeps or drops a request's copy of the session, loads one, ends the stored
one, makes a new one or saves it; each invariant is proved along these kinds.
- `EndedStaysEnded` and `OnlyApprovedLogin` from `IInv`: ids are used once (`Used`) and a session that
  is about to be saved is unknown to the store and to every other request (`Unshared`), which is why no
  save can bring back what a logout has deleted; `Trusted` carries approval from what a login has read
  to the session it saves.
- `StaysLoggedIn` (StillLoggedIn), for a browser that waits for its answers, from `BInv`: ids are unique
  in the store (`Single`), one request is under way (`Alone`), and it knows what the browser will have
  when it is answered (`Waits`).

*Profiles.* `OneProfileEach` and `ChoiceStays` from `PInv`: before a server listens nobody asks
(`NotYet`), and the agent's own request that is answered last is the one that wrote the row (`Setter`).

*Rooms.* `OneThreadKept`: a thread is made while there is none, and a tab enters no room but that one.
`ClientIsWhereAsked` (WhereAsked) from `RoomsFollow`: of a client that waits for its answers, the only
command in flight is the last one given (`Commanded`), and a join that reads the database does so after
`ready`, so neither the thread entered on connect nor an overtaken command undoes what was asked.
`SocketsTyped` says the last of these of every client, and that a socket that is gone is in no room: what
was in flight when it went does not bring it back (`RefusedTyped`, `EnterTyped`).

*PushSubscriptions.* `DevicesCapped` (AtMostDevices) from `DevInv`. The count of a user's rows is not
inductive: a save deletes rows that it looked up some steps ago, and others may have taken them over,
given them up or deleted them meanwhile. `WithinReach` quantifies over the sets `Q` of deletions under
way: the rows that none of `Q` will delete (`Spared`) are at most `MaxDevices` plus the saves outside
`Q` that have yet to prune. A row that changes hands is a new row for everybody who looked it up.
`DevicesTyped`: a row that is there has a user and an id (`Held`), so what is to be deleted are ids that
rows have had, never the absence of one.

*OpenThread.* `ViewerSeesAll` (SeesAll) from `ThreadInv`: a page has what was invalidated when anybody
read its version, or an older one (`PagesFresh`), and the request was made in the room (`Viewing`). So a
message is old enough to be on the page that is being fetched, has been heard, or is still on its way
(`MessagesKnown`, `OnItsWay`). `ViewerPagesFresh` needs no assumption about the client: what HistoryCache
promises of its pages (AnswerIsFresh, CachedPageFresh) it keeps between the gateway's steps, whoever
opens or leaves the conversation meanwhile and whatever handler fails.

*History.* `ReadersMissNothing` (Complete) from `HistInv`: what was there at first and has not been read
is past the cursor. For that the list a query returns must exist: `Sortable` says that a finite set can
be listed in any strict total order, `IndexOrder` that the keys are in one (because an `_id` is unique,
whatever createdAt it comes with), `ListsAll` that the list has every message. `ReadingTyped` adds that
the cursor is the end of what was read: the oldest of the screen, since a page is put before it reversed,
or the last row of the file (`EndsOfJoined`).

*Analytics.* `EveryDayCounted` (DaysCountedRight) from `DayInv`. Days begin at whole slots
(`WholeSlots`), and no multiple of the slot length lies between an instant and the beginning of its slot
(`NoSeam`), so both are on the same day (`SameDay`). Every instant up to the horizon has a day
(`DayFound`), and a day is shorter than two times 24 h even when the clocks change (`ShortDay`), which is
how far the window reaches back beyond the oldest label: what is outside it is on no day of the report.

*Metrics.* `OvercountsOnlyByResends` (OverOnlyByResends) from `CountInv`: what is counted under a key and
what is under way to it are together at most what was sent and what was sent again after it had counted
(`MinutesFit`, `DaysFit`), and what a round has read is at most what that was then, which only grows
(`StillFits`, since `sent` and the resends never go down). `Total` is the sum of a series, written as
a cardinality, so that `TotalGrows` and `TotalCounts` follow from the library's theorems on finite sets.
`CountersTyped` adds that all minutes together stay within the messages (`NextTotal`), hence every day
does (`TotalOfPart`), and that no round is of a minute still to come (`NextRoundMinute`).

**LiveProofs** proves two components of `MCLive`; `LiveAreSpecs` says that a behaviour of the instance
is one of the cache, of the limiter and of presence, whose theorems are in PresenceProofs.

*HistoryCache.* `CacheTyped`, `AnswersAreFresh`, `CacheIsFresh` from the inductive invariant
`IInv`. AnswerIsFresh alone is not inductive: what the reader may store is judged by a version another
reader compares later. IInv adds that no stamp is from the future (`StampsOK`), that equal versions
within a life of the version key stand for the same last write (`Agreement`), and that a page was loaded
after its version was read. This is the "no stale-write race" of the design: a slow reader stores under
the version it read *before* it loaded.

*RateLimit.* `LimitKept`: INCR gives every request of a window a number of its own, so those
that were let through and those that may still be (`Passing`, a finite set) are together not more than
the numbers up to the limit. `RequestsTyped`: a counter with a time to live has counted something.

**PushQueueProofs.** `NotifiedOnce` (OthersOnce) and `FailuresAreCounted` from `QInv`: a device's job is
added once and goes through its attempts one after the other; what was accepted in all but the present
attempt the queue did not hear about (`Heard`), and `failed` was counted in the one step that makes the
job fail for good (`Counted`). Both speak of a queue that has forgotten no job, as the properties do.
`QueueTyped` speaks of every queue: a job that waits or runs has an attempt left (`MsgFits`, `JobFits`),
whatever its earlier attempts ended in.

**TypingProofs.** `NobodyTypesForNothing` (IndicatorBacked) and `TypingIsShown` (ShownWhileTyping). A
screen shows what has arrived, so the invariant is about what is on the way, in order: after a start the
stop follows, unless the timer runs or the server died (`Followed`); while the timer of a user's only
socket (`Sole`) runs, the last update on the way to a screen that was told is a start (`Shown`).
`TypingTyped`: a timer belongs to a socket that is in the room, since a leave and a disconnect clear it.

**RoutingProofs.** `LoadsBalanced` (LoadedAlike). While nothing is closed and nobody changes, everybody
is online (`RInv`), so an agent who gets a conversation was compared with everybody alike who has room.
`NobodyWaitsBesideAFreeAgent` (NobodyWaits) from `QInv`: who waits is on the list of conversations still
to be treated, or nobody is free (`Treated`). When an event makes room, the list is read anew, and it has
everybody who waits, since it can be sorted (`Sortable`) and is not cut off (`QueueCovers`).
`RoutingTyped`: only open conversations are held, whoever waits has written, and the list is no longer
than there are conversations, which needs it to name each of them once (`ListFits`).

Only model-checked: liveness (the temporal prover does not reason about fairness and ENABLED here);
the refutations below; and Watchers, which has no property that holds.

## Where the code and its comments differ

Found while modelling. The first two are checked runs; the others are stated as properties in their
modules, most under a heading "... the code does not do", and can be seen with the run's configuration
and the change named here. Line numbers are of `src/src/...`.

| Module: property | The comment or doc | What the code does | Seen with |
| --- | --- | --- | --- |
| Analytics: EachDayOnce | `metrics/analytics.service.ts:46-49,71` messages per calendar day, any time zone | labels are instants 24 h apart (72): around a change of the clocks a day comes twice or not at all | run `analytics_skipped_day` |
| Watchers: ListReplaced | `docs/realtime-events.md:42` replaces your watch list | rooms are left before an await and joined after it (`presence/presence.gateway.ts:25`): two commands at once leave the socket with both lists | run `watch_list` |
| Assignment: CounterAlwaysExact | `agents/models/agent-profile.types.ts:14` open chats right now, changed atomically | `close` releases the slot of the assignee it read (`assignment.service.ts:157-164`), though a transfer came between | `assignment_calls` |
| Assignment: SyncOnlyRepairs | `assignment.service.ts:229` the re-count fixes counter drift | the count is written after other tasks may have assigned (243): an exact counter can be made wrong until the next round | `assignment_heal` with a call "claim" |
| Assignment: ReserveBelowCapacity | `agents.service.ts:117` takes a slot if below capacity | the limit is read first and may be lowered before the update (121) | `assignment_calls` |
| Assignment: ReplyInOwnChat | `assignment.service.ts` staffReplyGuard: another agent's chat is blocked | the message is saved after the guard (`chat.gateway.ts:104-106`); the chat may have moved | `assignment_calls` |
| Routing: LongestWaitFirst | `assignment.service.ts:104` oldest first | the queue is ordered by the *last* message (`conversations.service.ts:142`): who writes again goes to the back | `routing` |
| Routing: NobodyWaits | `assignment.service.ts:104` until the queue or the free agents run out | `listQueue` stops at 50 and a skipped conversation is not replaced (`conversations.service.ts:140`) | `routing` with QueueLimit 1 |
| HistoryCache: NeverReadAgain | `chat/services/message-cache.service.ts:21-22,27` an older page is never read again | an invalidation that finds Redis away is dropped (75-77) | `live` |
| Messages: ReadWasDelivered | `messages.service.ts:147-148` a read message gets a deliveredAt first | a message saved between the two updates (149-150) becomes read without | `messages` |
| Messages: FoundIsMine | `messages.service.ts:109` returns exactly what this call changed | rows are found again by `deliveredAt` (124): two joins in one millisecond find each other's | `messages` |
| Messages: BadgeRight | `docs/realtime-events.md:55` unreadCount: just display it | counts are read and published apart (`chat.gateway.ts:234-236`): an older one may come last | `messages` |
| Messages: ToldForward | `docs/realtime-events.md:69` the status only moves forward | the sender is told `delivered` after somebody else told it `read` (`chat.gateway.ts:119`) | `messages` |
| Rooms: RoomsCapped, WhereAsked | `docs/realtime-events.md:37,38` max 50 open at once; leave | the number is looked up before an await, the room joined after it (`chat.gateway.ts:78,82-89`); a leave in between is undone | `parts` with MaxOpen 2; RoomsCapped as `Sockets!RoomsCapped` |
| OpenThread: SeesAll | `docs/realtime-events.md:37` customers auto-join | the join goes on after the connect (`chat.gateway.ts:67-73`) and nothing tells the client when it is done: a message emitted between the first page and the join is on neither | `parts` with WaitsForRoom FALSE |
| Sessions: StillLoggedIn without "shared" | `core/session/session.ts:50` active users stay logged in | the answer of a request that was under way during a login renews the cookie of the session the login has ended | `parts` |
| Typing: IndicatorEnds without "lost" | `docs/realtime-events.md:41` the server clears it by itself after 6 s | the timer dies with its process (`chat.gateway.ts:177`) | `typing` |
| Presence: LiveReturns | `presence/presence.store.ts:9` online = at least one live socket | a heartbeat renews only what is there (74): once swept, a live socket never comes back | `presence_servers` with `FairSpec` |
| Presence: ShownAgrees | `presence.service.ts:13,19` two servers can never disagree | what a settlement publishes was read before (85-86): an older answer may be sent last | `presence_servers` |
| Presence: GraceKept | `presence.service.ts:6,16` a reload does not flicker | a sweep of another server settles a user whose grace period runs (`presence.store.ts:90-91`) | `presence_servers` |
| Presence: CleanExit | `presence.service.ts:42` settles pending checks on shutdown | presence stops before the sockets are closed (`main.ts:84-90`) | `presence_servers` with MaxExits 2 |
| PushQueue: QueuedOnce | `push/services/push-queue.service.ts:40` the same message is never queued twice | completed jobs beyond the newest 1000 and failed ones beyond the newest 5000 are removed with their ids (60-61) | `push` |
| PushQueue: PushOnlyUnwatched | `docs/realtime-events.md:118` only pushes when the recipient is not looking | viewers are looked up once, deliveries come later (112-115) | `push` |
| PushQueue: RightReader | `push-queue.service.ts:33-34`, `schemas/push-subscription.schema.ts:17` the other side of the chat | the row is found by id and may by then be another account's (139) | `push` |
| PushSubscriptions: NewestKept | `push-subscriptions.service.ts:40` keep only the newest N | the extra rows are deleted after they were looked up (41-46); marks also move `updatedAt` | `parts`, as `Devices!NewestKept` |
| Metrics: OneBroadcaster | `metrics/metrics.service.ts:92` one server does it | the lock lasts 4.5 s, a slow round longer (198) | `metrics` |

## What is not modelled

- **Of accounts and sessions**: the idle expiry after 7 days, the in-memory session store of a server
  without Redis, lists and names of users, passwords and the guards that only look at one request
  (permissions, validation).
- **The limiter of one socket's events** (`realtime/socket-handler.ts`): one list of one socket, without
  an await.
- **Web Push encryption, CSV and JSON of an export, mappers, DTOs, guards, validation, OpenAPI**: pure
  conversions or checks of one request.
- **Redis connections, the Streams adapter, connection state recovery**: libraries. That a call fails is
  a fault in the modules; that an update of one server overtakes one of another is modelled.
- **The in-memory stores of local development** (presence, metrics) and the fallbacks of one server
  without Redis.
- **Other numbers of the dashboard**, the 60 s cache and the closed conversations of the report.
- `agents` broadcasts (`agent:status`, `announce`): emitted, never read back.
- **Steps taken together.** `Assignment.Rank` reads the profiles, the presence and the users in one step
  where `assignment.service.ts:58-59` has a call for each; the
  reservation compares the counter again, and no property depends on the others staying as they were.
  `Sessions.Save` is one save: express-session also saves a changed session while the response ends, so a
  second tab that already has the new cookie, and logs out within that instant, could see its session
  come back. `Presence.CloseIo` waits for every settlement of the server where `stop()`
  (`presence.service.ts:48`) awaits those that were pending when it began.
- **A failure of the promise chain.** `void run.finally(...)` (`assignment.service.ts:81`) passes a failure on
  to a promise nobody handles, which by Node.js' default ends the process. The failure of the one
  task is `Abort`; that the server's other tasks end with it is one more fault for each of them.
- **Resent commands other than the counters'.** The client resends any command whose reply was lost. A
  second INCR of the REST limiter or of the cache's version only refuses a caller earlier or invalidates
  once more; a second SET NX of a lock finds the first and skips a round. Only the message counters
  are modelled with it.
- **BullMQ's limit on stalls** (`maxStalledCount`): a job that stalls once more than it allows fails at once.
  `JobCrash` and `MsgCrash` always let it run again; the run has one stall, which the default allows.

## Plan

Written in this order, since most depends on the first ones: Assignment, HistoryCache, Presence with
their proofs; Messages, Rooms, Typing, PushQueue, PushSubscriptions, Routing, History, Metrics,
Analytics, RateLimit; then the abstract specifications Ownership and Receipts with their refinements,
OpenThread, Sessions, Profiles and Watchers.

Next:

1. The in-memory presence store and the window of one socket's events: each belongs to one server and
   has no `await` inside, so little can interleave; they come last.
2. Every safety property of the runs and every type invariant has its theorem; what is left is
   liveness, which stays with TLC.
