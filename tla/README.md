# Dota-AI-Decision-Lab in TLA+

Models of the backend in `app/`, the TLC runs that check them on small instances, and proofs that
TLAPS checks for every value of the constants. Every action names, in `PROJECT.json` ("map"), the
lines of the function it stands for. This file says what the system consists of, what is modelled and
how, what the runs and the proofs show, and what comes next.

Contents: 1 the system, 2 the modules and the code, 3 the runs, 4 bounds, 5 fairness, 6 the proofs,
7 where the code and its documents disagree, 8 what is not modelled, 9 the plan.

## 1. The system

One supervised asyncio process and one PostgreSQL database. The process keeps almost nothing in
memory; what must survive is a row, and what must still be done is a row of `durable_jobs`. Two feeds
(Raybet odds, DLTV match messages) and several HTTP providers are collected as raw events; what they
mean is recorded in `domain_events`; a dispatcher turns each event into jobs; workers run them; a
reconciliation that runs at the start and every minute compares the tables and puts back what is
missing. One map of a series runs through this chain:

    identity, market, draft, history        (what is known of a map)
                     |
    bootstrap -> live messages -> checkpoint events -> snapshot -> AI decisions -> notification
                     |                                    |             |
                     |                                    |             +-> portfolio position
                     v                                    v
               series frame: map ends -> postmatch result -> settlement -> evaluation -> reports
                                    \-> closing odds

Beside it stand the web application's accounts and commerce: logins, passes and subscriptions that are
bought through Paddle, codes that invite accounts, the access they give, and the control plane in
which administrators configure the models.

| Part | State | Operations | Hard about it | Correct when |
| --- | --- | --- | --- | --- |
| Job queue, `app/jobs/repository.py` | `durable_jobs`, `durable_job_attempts` | enqueue, claim, renew, succeed, fail, reclaim, reopen | leases against live workers, crashes between steps | every running job has one open attempt, its owner's; nothing done is undone |
| Job runner and supervisor, `app/jobs/runner.py`, `app/runtime/` | worker loops, heartbeats | poll, run handler and renewal, settle, cancel, restart `run()` | a handler and a renewal race; `run()` raises while loops live on | only who claimed an attempt ends it; every job settles |
| Dispatcher and event log, `app/events/` | `domain_events`, outbox | record, dispatch a batch, publish | one transaction for a batch, unordered events | an event has its job exactly when it is processed |
| Live collection, `app/live/`, `app/snapshots/triggers.py` | observations, the collector's last readings | message, bootstrap, reconnect, sweep | two clocks, sparse messages, lost commits, restarts | no checkpoint of a live stream is skipped or early; what is shown as fresh is |
| Market registry and collection, `app/market/` | registry of odds ids, observations | connect, publish, discover, refresh, recover | odds before their registry, a reconnect that hides a change | no price stays missed |
| Identity, `app/identity/`, `app/history/identity.py` | teams, provider mappings, series, slots, maps | resolve, link, merge, repair | providers that know teams by name or by number, two meetings of the same teams | merges leave nothing behind; a series is one meeting |
| Team registry and rosters, `app/identity/roster_sync.py`, `team_registry_*.py` | memberships with their times, jobs of the refresh cycle | schedule, look up, enter and close memberships, the two commands | a worker and a command in overlapping transactions, incomplete answers | the history tells what was answered |
| Drafts, `app/draft/coordinator.py`, `role_assignment.py` | archived payloads, drafts, role evidence | bootstrap, resolve roles, repair, replace, score | payloads that grow poorer, rows that are stamped while a decision reads | verified positions stay; a decision sees what was there at its time |
| History, `app/history/` | facts of two providers, ratings, forms, player figures | sync, postmatch response, build as of a cutoff | facts that come late, conflicts, a chain of ratings | nothing leaks from after a decision; what was read stays |
| Snapshots and what they derive, `app/snapshots/` | `decision_snapshots`, odds path, alignment | build, gate, persist, replay, derive | data that is late; jobs that run twice | what can be decided is decided, once; what is derived is earned |
| AI decisions, `app/ai/`, `app/jobs/handlers.py` | `ai_decisions`, lanes in memory | fan out, prepare, infer, persist, batch | HTTP between two transactions, several workers, cancellation | one decision per lane at a time; every batch is judged; a first BUY is sent |
| Portfolio, `app/evaluation/portfolio.py` | accounts, positions, ledger | reserve a stake, settle a map | result and decision cross | accounts balance, stakes are covered, nothing is settled twice |
| Map end and result, `app/live/collector.py`, `app/evaluation/settlement.py`, `metrics.py` | series frames, facts, evidence, `map_results`, evaluations | end, resolve, settle, evaluate, sweep | lost frames, results that come late, providers that disagree | an ended map gets its result, a decision its evaluation |
| Future odds, `app/evaluation/future_odds.py` | `decision_future_odds` | schedule, capture, capture closing, retry | late and repeated captures | the evidence does not depend on when the job ran; MISSING is not final |
| Reports and readiness, `app/evaluation/`, `app/web/performance.py` | none of their own | quality, benchmark, backtest, leaderboard, latency, pages, funnel | the same tables read by different queries | reports that name one sample agree on it; the money adds up in each |
| Passes and rewards, `app/promotions/`, `app/entitlements/` | purchases, grants, attributions | checkout, webhook, claim, reward, revoke | webhooks out of order, two transactions, two payers | access is paid for; rewards stay within the cap and apart; a refund ends them |
| Subscriptions, `app/billing/` | purchases, webhooks, subscriptions, entitlements | checkout, webhook in three steps | webhooks out of order, repeated, run side by side | the newest webhook decides; a refund blocks |
| Authentication, `app/auth/` | users, identities, codes, sessions | request and type a code, return from a provider, end a session | a mail between two transactions, two logins that create one account | a code opens once; a proof keeps its account |
| Runtime configuration, `app/runtime_config/` | slots, secrets, policy, revisions | edit, publish, freeze for a call | workers read what administrators change | what is active can be prepared; a version names its settings |
| Notifications, `app/notifications/`, QQ and WeChat transports | credential files, bindings, deliveries, contacts, cursors, the bridge's buffer and outbox | log in, pair, unbind, prepare, send, retry, expire, poll, subscribe | files beside rows, a send between two transactions | a message is not repeated without a loss, nor sent after a revocation; a failed login takes nothing away; the last word of a group counts |
| Draft engine, replay, providers, web API, frontend, tools | rows they write or read | parse, compute, render | arithmetic and I/O | see section 8 |

`PROJECT.json` lists all 30 components with their sources, and the hazards: the places where a wrong
step would be hard to test, each with the property that would catch it or the reason why none does.

## 2. The modules and the code

    component modules                             proofs                 run host
    JobContract <--refines-- JobRunner -> JobQueue  JobRunnerProofs      MCJobRunner (violation runs),
                                                                         MCSending, MCEvidence
    Notifications -> Bindings                     NotificationsProofs    MCSending
    QqSending -> QqInbox                          NotificationsProofs    MCSending
    Drafts                                        AccessProofs           MCEvidence
    LiveState                                     JobRunnerProofs        MCEvidence
    Trends                                                               MCEvidence
    Portfolio                                     PortfolioProofs        those of AiDecisions and Reports
    AiDecisions -> Portfolio                      AiDecisionsProofs      MCAiDecisions, MCAccess, MCSnapshots
    Accounts, Subscriptions, RuntimeConfig        AccessProofs           MCAccess
    LiveCheckpoints, Market                       ObservedProofs         MCObserved
    Teams, Series, Rosters                        ObservedProofs         MCObserved
    Snapshots                                     AiDecisionsProofs      MCSnapshots
    Commerce                                      CommerceProofs         MCCommerce
    History                                       CommerceProofs         MCCommerce
    Outcomes, FutureOdds, Readiness               OutcomesProofs         MCOutcomes
    Reports -> Portfolio                          OutcomesProofs         MCOutcomes

`->` is EXTENDS. Most hosts hold several modules that share nothing: the variable `part` names the one
a behaviour is about while the others stand still, so the states of such a run are the sum of theirs
and not the product. The bounds of each part stand in its host, next to the values of its constants.

The modules meet at two tables: what one records as an event or enqueues as a job, another takes up.
They are not put into one state space; each assumes of the others what they promise. Snapshots,
AiDecisions, Outcomes and FutureOdds treat a job the way `JobContract` allows: it is there until it
has succeeded or has failed for good, it may run more than once, and it may be repeated after its work
was committed. `JobRunner` is shown to keep that contract.

In every module one action is one database transaction, unless another transaction can overtake it
between its reads and its writes; then it is two. Where a handler awaits something between two
transactions, every await is a place where others may act.

**JobQueue** is `JobRepository`: one operator per method, on the rows of a job and its attempts
(`Insert`, `Reopen`, `Claim`, `Renew`, `Succeed`, `Fail`, `Release`, `ReclaimExpired`). Time is reduced
to the two comparisons the code makes: a row is due or not, a lease is fresh or has expired. `Release`
is the `fail()` of a cancelled loop.

**JobRunner** is `JobRunner.run()` with its worker loops, the supervisor that calls it again and the
processes that come and go. A loop has a program counter (`poll`, `wait`, `drain`, `reap`, `settle`,
`release`), the job in hand, the state of its handler task and the verdict. `HandlerFirst`,
`RenewalLost`, `RenewalDrained` and `Reaped` are the outcomes of `asyncio.wait` over the handler and
the renewal. `ClaimRaises` is the exception in `_claim_one` that `_worker_loop` does not catch: `run()`
raises, the sibling loops of the same process go on, and `RestartRun` starts loops with the same
worker ids.

**JobContract** is the abstract specification: none -> open -> succeeded or failed, failed -> open when
someone asks again; success only after the work was carried out at least once.

**Portfolio** is `TournamentPortfolioService` in whole cents: the account of an experiment, the
position of a decision, the reservation, and the settlement of a map (`Verdict`, `Payout`,
`SettledPositions`, `SettledAccounts`). `Rounded` is the half-up rounding of `_money`.

**AiDecisions** follows the jobs of one tournament event: `FanOut` (dispatcher) and `Backfill`
(reconciliation) create RUN_AI_PROVIDER jobs; `Claim`, `Prepare`, `Infer`, `Write`, `Commit` are the
phases of a handler, with the lane it waits in (`lane`), what it has read and the locks it holds
(`task`); `Cancel`, `Crash`, `PrepareRaises`, `PersistRaises` are the ways it can end early; `judged`
and `sent` are the notification batches; `FactArrives`, `Resolve`, `Settle` and `Sweep` bring the
result and settle the map, beside the settlement that PERSIST makes itself.

**LiveCheckpoints** is the collector's handling of match messages for one map: the merge with the last
observation, the two clocks, `record_crossed_checkpoints`, the bootstrap, and the reconciliation's two
sweeps (MAP_STARTED, overdue checkpoints). `LostMessage` is a transaction that fails after the collector
changed its own memory. One tick is one reconciliation interval.

**Drafts** is the draft of one live map: `Fetch` (a bootstrap of DLTV's payload) and `Repair` (of a legacy
draft) open a run, `Process` archives the payload, resolves the positions and appends a draft unless
it adds nothing (`Adds`), `Build` computes the curve of a draft for the event or for the sweep. Rows are
appended and stamped, never changed; `Seen(at)` is what a decision at a time loads: draft, sides and
roster, which may come from three different rows.

**LiveState** is what a decision is shown of the running game and how old it is: `ReduceMessage` merges
a sparse message over the newest row, a bootstrap writes a row of its own in two steps (`Answer`,
`BootstrapCommits`), `FreshFields` reads the age of each field from the raw events.

**Trends** is what a snapshot derives from the rows of odds and game: the greedy pairing of market moves
with game moves and its verdict (`TemporalAligner`), the displayed path of prices and its drift
(`_odds_path`), the last flip of the lead and the momentum windows (`_live_trend`).

**Market** is the prices of one match: `Handshake`, `Connected` and `Disconnect` of the socket, the changes
on the wire (`Publish`, `Receive`), the registry of odds ids, and the refreshes that are asked for once
per deduplication key (`Request`, `AnswerArrives`, `Refresh`, `RequestFails`).

**Teams** follows one match through the providers that know teams by name and those that know them by
number: placeholders, their merge into the team of that name, the facts and the result that are moved
with them, and the conflicts that end when both speak of the same team. **Series** is how the schedule
(`Project`), the market (`Link`), live games (`Bootstrap`), history (`Store`) and prices (`Collect`) of two
meetings of the same teams find their series, slot and map.

**Rosters** is what the registry knows of who plays: `ScheduleRefresh` enqueues the job of a cycle once, a
lookup (of the worker, or of one of the two commands) asks for one club after the other (`Answered`), opens and
closes memberships in its transaction (`SyncTeam`), and commits or fails as a whole (`CommitLookup`,
`LookupFails`). `mixed` remembers the clubs that two transactions looked up at once.

**Snapshots** is the event log, the dispatcher's batches, the BUILD_SNAPSHOT handler and the replay of
checkpoints that have no snapshot. The contents of a snapshot are two numbers: the time it was decided
at, and the version of the data it saw; that is what its hash depends on.

**Commerce** is the purchase of a pass (`Ask`, `Reserve`, `OpenTransaction`, `Finalize`: the row is
written before and after Paddle is called), the webhooks of a payment and of its refund (`ApplyEvent`,
`FindPayer`, `Qualify`, `RevokeReward`: separate transactions), the claim of an invitation
(`Claim`, `ClaimCommits`), and the grants that result. `Access` is `access_scope`. Grants are keyed by
where they come from; a reward is two grants, the inviter's and the invited account's.

**Accounts** is `EmailAuthService`: a code is stored, mailed and recorded in three steps under the lock of
its inbox; a callback of Google or Steam that finds no account (`FindNobody`) creates one in a later
transaction (`Join`), where another login may have come first.

**Subscriptions** is the Pro plan: checkouts, and webhooks that are read, applied and closed in three
steps of their own (`Read`, `Apply`, `CompleteCheckout`), in any order, repeated and side by side. At this
commit the application mounts the passes only; the handlers are modelled as they are written.

**RuntimeConfig** is the control plane: slots with provider, model and tuning, secrets under a master
key, the decision policy; a PATCH is validated (`Validate`) and written (`SelectRow`, `Upsert`) in different
transactions, jobs are scheduled by what the control plane calls `Active` and freeze what `CanPrepare`
finds (`FreezeCall`).

**Outcomes** is one map after its last message: `Frame` compares a series frame with the last one that
was stored; `Identify` and `Bootstrap` give the map its identity; `Resolve` asks the providers and
settles; `Settle` is the SETTLE_MAP handler; `Evaluate` evaluates every decision there is; `Reconcile`
is the part of the sweep about results, settlements and evaluations. A job is identified by its dedupe
key; `NextQuarter` is the turn of the quarter of an hour that names the sweep's postmatch key.

**FutureOdds** is one capture, of a time horizon or of the closing pair. Time is counted in the buckets
of five minutes that the retry keys name. `Captured` is `capture`/`capture_closing`; `Reconcile` is
`_reconcile_future_odds`.

**History** is `app/history`: `persist_bundle` with its conflicts (`Merged`, `Stored`), the postmatch job that
asks without a transaction and stores in one, and `sync_historical`, which takes its cutoff first and
builds ratings, forms and player figures as of it. Every figure is stood for by the maps it rests on;
`built` keeps the teams and the cutoffs of the syncs that have finished.

**Reports** is the quality gate, the benchmark, the backtest, the leaderboard, the latency report and the
performance pages as functions of the stored rows, which `Persist`, `ReportWinner`, `SettleMap`, `Close`,
`CaptureHorizon` and `EvaluateSnapshot` write in any order; `Page` is a reader who turns the pages while
they do. An event is an account of Portfolio, whose operators fund, reserve and settle. **Readiness** is
the funnel of one series and its first blocker.

**Bindings** is who may be reached where: the credential files of the WeChat accounts (`store`), the
rows of `notification_bindings`, what a user's entitlement and preference allow (`access`), the QR
login of each user (`QrStart`, `QrSave`, `QrBind`, `QrBindRaises`, `QrFinish`: `_complete` writes files
before and after its transaction), pairing codes, and the two steps of a DELETE (`Disable`, `Revoke`).

**Notifications** is one batch of decisions: `Prepare` makes the deliveries and the job in the
transaction of the last decision; a handler lists them (`ListBatch`), looks at the age, the result and
the accounts once (`Check`), and then for each target starts the delivery, sends, and marks the
outcome in another transaction. `LeaseLost` gives the job to a second handler while the first still
runs. `lost` counts the attempts whose outcome no transaction recorded, `grace` the messages that were
in hand when their destination lost its permission.

**QqInbox** is what groups tell the QQ bots. The bridge process keeps a numbered `buffer` in memory
(`Arrive`, which shifts out the oldest event of a full one; `BridgeRestarts`, after which the numbers go
on from the highest cursor on disk). `run_inbound` polls one account after the other (`NextRound`, `Ask`,
`Answer` with its second read from 0, `SaveCursor`); `_handle_message` is two steps, because the reply is
awaited between them: `TakeEffect` writes the order, `Reply` may save the contact once more for its
label. A batch that fails anywhere is read again (`PollFails`, `ServiceRestarts`). The QR login of a user
adds and removes accounts, with their cursors (`ScanSaves`, `ScanBinds`, `ScanBindRaises`, `RevokeBot`).
Three variables remember what the code does not: `dropped` (events that left the buffer unread), `behind`
(bots whose cursor was saved for a batch of a bridge that is gone) and `undone` (orders that the save of
a label took back).

**QqSending** is one batch on its way to the configured QQ targets and the groups that have subscribed:
`PrepareQq` enqueues the job; a handler reads switch and targets (`LookForTargets`), then the age and the
result (`CheckAge`), then posts to each target. A call lives in the bridge and outlives the handler:
`AnsweredFromOutbox`, or `PostText`, `TextReaches`, `TextRecorded`, with `TextRefused`, `CallTimesOut`,
`SenderDies`, `LeaseRunsOut` and `BridgeDies` between them. `risked` are the targets of which two calls
were open together, or a message was out and not recorded when the bridge died.

The definitions whose name begins with `Slip` are single mistakes, each before the definition it would
replace: a guard that is dropped, a key that is not looked at, a reset that is forgotten. No
specification uses them. Each property of a passing run is violated when one of them replaces its
neighbour; `PROJECT.json` ("mutants") says which.


## 3. The runs

Passing runs (`tlc -config X.cfg M`):

| Run | Module, cfg | What it asks |
| --- | --- | --- |
| job_runner | MCSending, JobRunner.cfg | Two jobs on the one slot of a worker group, three runs, two faults: `AttemptsAreKept` (exactly the running jobs have an open attempt, the last one, their owner's; attempts beyond `max_attempts` were paid for by expired leases), `AttemptHistory` (a closed attempt is never rewritten), `ImplementsContract`. Users bind and unbind accounts, or a batch goes to two accounts: `SendingIsSound` (nothing is sent twice without a loss, nor after a revocation; a job that succeeded answered for its batch; a failed login strands nobody). Groups order and a batch goes to QQ: `QqIsSound` (no event in the buffer is passed over unless its bot's cursor was saved for a bridge that is gone; the newest order of a group counts unless it waits, was lost or was undone; a target gets the batch once unless it was risked; a job that succeeded reached all it owed) |
| evidence | MCEvidence, Evidence.cfg | One job on two slots, under fairness: `EveryJobSettles`, and `OnlyClaimantSettlesPerProcess`. A draft: `DraftIsWhole`, `DecisionIsTimeless`, and under fairness `DraftGetsReady`. The running game: `LiveIsFresh`. What is derived: `EvidenceIsEarned` |
| ai_portfolio | MCAccess, AiPortfolio.cfg | One experiment bets on two snapshots of a map whose results agree or not: `LedgerIsSound` (accounts balance, stakes were covered; a cent of tolerance is the code's), `SettledOnce`. Logins: `CodesAreSound`. Subscriptions: `LatestWebhookDecides`, `RefundKeepsBlocked`. Administrators: `SettingsAreSound` |
| observed | MCObserved, Observed.cfg | A live map: `NoCheckpointSkipped`, `StartIsRecorded`, `NeverEarlyOnRealTime`. Its prices: `NoPriceMissed`. Its teams, series and rosters: `IdentityIsTold` (a merge leaves nothing behind, a series is one meeting, the roster history tells each answer) |
| snapshots | MCSnapshots, Snapshots.cfg | The event log: `JobPerProcessedEvent`, and under fairness `CheckpointIsDecided`. Two experiments, two snapshots, two workers, one fault: `LaneExclusive`, `BuysAreSent` (every batch is judged, a first BUY is sent), and under fairness `EveryDecisionSettles` |
| commerce | MCCommerce, Commerce.cfg | `AccessIsPaidFor`, `RewardsKeepTheRules` (within the cap, apart), `RefundEndsReward`, `PaymentIsHonoured`. History: `HistoryIsSound` (no figure leaks from the future, the chain of ratings holds), `AsOfIsStable` |
| outcomes | MCOutcomes, Outcomes.cfg | `EndedMapHasResult`, `EveryDecisionEvaluated` under fairness; of one capture `HorizonIsTimeless`, `CapturesAreAnswered`; of the reports `ReportsAgree`; of the funnel `FunnelAddsUp` |

They have between about 150,000 and 500,000 distinct states each.

Every module has its type invariant; it is proved where the module has proofs, and checked as a part
of the invariants above where it has none.

Runs that end in a counterexample, each about one sentence of the repository (section 7):
`job_runner_restart`, `ai_lane_orphan`, `ai_settlement_race`, `snapshot_redelivery`, `odds_path`.

## 4. Bounds

`MaxFaults`, `MaxAiFaults`, `MaxMishaps`, `MaxOddsFaults` count what goes wrong and need not: crashes,
lost commits, failed transactions, repeated jobs, cancellations. Everything that goes on without a
fault is unbounded or bounded by a small set of inputs. The bounds that are not constants are named
operators of the host module, with a comment each.

- JobRunner: `MaxRuns` = `MaxFaults` + 1, because each run after the first costs a fault; so no
  process is left that cannot restart. Two jobs are needed for a slot to have a choice, two slots for
  two owners of one job, `MaxAttempts` 2 for a retry that is the last one, `ReopenAttempts` 1 for a
  reopened budget. `MCPids` is the number of worker ids there can be.
- AiDecisions: two snapshots of one map give the order of a lane and the first and second BUY; two
  experiments the batch; two workers, fewer than the tasks, the pool that is full of waiters. A
  bankroll of two cents, stakes of one cent and of two and a half, and odds of 1.50 put the rounding on
  its edge. The two concerns have a part of a run each, because together their states multiply.
- LiveCheckpoints: two checkpoints exactly the grace apart (the least `ScheduleAssumption` allows), a
  broadcast clock at most `Lead` ahead, seven ticks so that the grace of the second one ends inside.
  The model has one reconnect at a time (`Regained`) and two discoveries, so two bootstraps.
- Market: two odds ids, three publications, a clock that spans two minutes and an hour's turn, so that
  keys of the recovery repeat and renew. Two hypotheses are bounds too, and the code guarantees
  neither. `FewConnects`: a second connection within one minute reuses the key of the recovery and asks
  for nothing, so a change between the two stays missed. `QuietLearning`: a price that moves while the
  request that learns its odds id is under way is dropped as unknown, and the answer is older than it.
- Teams: two real teams, the providers of the code; answers name both (`BothNamed`). Series: two meetings
  of the same teams, two maps of the one; one game without a number. That the meetings are farther apart
  than the window of start times (`FarApart`) is a hypothesis: the code has no other way to tell two meetings
  of the same teams in one tournament from each other.
- Rosters: one club and two players; a cycle of two instants out of three, so that there is the discovery and
  a cycle before the start; one failure. `OneCommand`: of one club the two commands differ only if it is
  disputed. `EventFirst` and `QuietTime` order steps that have nothing to do with each other: the event is
  known from the start, and while a lookup is open only its answers move the clock. `FailsEntering`: the
  failure comes where it costs an entry.
- Drafts: the providers change twice, one run fails, five instants. LiveState: two fields of two values,
  three ticks past a limit of one. `QuietBootstrap` is a hypothesis: no message is stored while a
  bootstrap's answer waits for its commit; the code takes no lock that would guarantee it.
- Trends: three settings of `limit`, each long enough in odds, in live rows or in instants for the
  corner it is about (a pair of lags, a flip, a packet that moves both sides).
- Snapshots: two checkpoints, of which the newest may be undecidable, one odds move, a batch limit that
  the events exceed, two changes of the data (a market is linked; it changes again), one fault.
- Commerce: three accounts where one can be invited and an inviter, two purchases, by one account or by
  two, one of an event and one of a series; a cap of one reward, so that two invited payers compete for
  it; rewards of two days and one day, and one day that passes.
- Accounts: two people, two inboxes, an identity of Google and one of Steam, two codes of two tries; one
  session ends or one account is disabled (`FewLogins`). Subscriptions: one purchase, recurring or of a
  fixed term, four webhooks, two of them side by side (`FewWebhooks`). RuntimeConfig: two slots, three
  models, two master keys, two administrators, in two themes (`OnlySecrets`, `OnlyRevisions`).
  `OneUpsertAtATime` is a hypothesis of `VersionNamesSettings`: two transactions that read one revision and
  both write the next one give two settings one name, and the row is read without a lock.
- History: two maps, one of the synced series and one of a team in it, two providers that may
  disagree or answer late, six instants.
- Outcomes: two winners for a conflict, two decisions for one that is late and one that is later, one
  fault. `MCOutcomes` leaves out the frames that follow the one that ended the map, which say nothing
  new, and a second decision on a map whose providers disagree. FutureOdds: three prices for a horizon,
  the least for a first pair that differs from the newest one, and two for a closing; a retry window of
  two buckets; five buckets, so that the window of a horizon closes inside.
- Reports: two snapshots of one map, the second of which adds to the first, and one of another; a bankroll
  that two bets exceed. Readiness: two maps, one of which gets as far as a snapshot.
- Notifications: two users and two accounts, so that an account can be disputed and a user can change
  from one to the other; two handlers, the one that lost its lease and the one that took over; one
  mishap; two attempts. They have two themes. In `logins` nothing is sent, u1 has the pairing code
  and makes the deletions, u2 scans one account (`OnlyLogins`). In `sending` each user scans an account
  of their own, u1 withdraws once while the batch is out, and the switch and the age change where a
  handler looks at them (`OnlySending`).
- QQ: a shared bot and one of a user, a group each; a buffer of one event, so that the second message
  pushes the first out; two mishaps; two calls. The second message takes the order of the first group back
  or is one of the other group, and the login moves between two rounds (`OnlyInbox`). For the sending one group is
  configured and one subscribes, before the batch or between two runs of the job (`OnlyBatch`). Batches of
  several messages, and sending while the inbox works, are the theorem's.
- The handlers are interchangeable, so are the jobs of the runner
  and the odds ids.

The proofs of section 6 need none of these bounds but the four hypotheses named above, which they
state: `FewConnects`, `QuietLearning`, `QuietBootstrap`, `OneUpsertAtATime`.

## 5. Fairness

Safety is checked without fairness. The modules that are not named here have only safety; of Commerce,
that the payment provider repeats a webhook until it is answered is behind `PaymentIsHonoured`, which
says what an answer means. Liveness assumes weak fairness of what the process keeps doing; where a
property says that something that stays true once it is true comes to hold, it is written `[]<>`:

- JobRunner: the event loop runs every ready task (`LoopProgress`), the supervisor and the operator
  restart what has stopped (`main.py`, `Supervisor`), `PeriodicWorker` runs the reconciliation, time
  passes for leases and retries. Faults, shutdowns, enqueues and reopenings are never owed. A handler
  returns because each of its requests has a timeout.
- AiDecisions: the pool of handlers goes on while one of them can, and the settlement worker polls.
  Snapshots, results and failures are not owed. That a handler waiting for its lane goes on is part of
  what is checked, not assumed: its step is enabled only when the lane lets it in.
- Snapshots: dispatcher, replay, and the workers as long as a job waits; not the events themselves nor
  the data.
- Drafts: the refresh and the repair come back while there is something to do, a run that was begun is
  processed, jobs are run and swept. The providers owe nothing: that they know the draft is a
  hypothesis of `DraftGetsReady`.
- Outcomes: the workers run a job while one is queued that can succeed (`Handler`), the reconciliation
  comes back for a map that has ended and is silent, quarters of an hour pass. Neither the feed, nor a
  provider's answer, nor the identification of the map is owed: they are hypotheses of the properties.

`FutureOdds` needs no fairness: its clock does not pass a bucket while a job is due or before the
sweep, unless a fault is spent on it, so its properties are invariants over time.

## 6. The proofs

Eight modules hold theorems. Each theorem is proved for every value of the constants that satisfies the
named assumption of its module, over the definitions TLC runs. A theorem is about the specification of
its component alone; the hosts of section 3 add only bounds. The one exception is `IdentityAlwaysTold`: it is
about the host `MCObserved`, whose property joins three components. Every inductive invariant was first checked
by TLC on the instance of the run.

| Theorem | Says | Rests on |
| --- | --- | --- |
| `JobRunnerProofs`: `TypeCorrect`, `AttemptsAlwaysKept` | `RunnerTypeOK`, `AttemptsAreKept` (ledger and budget) | `RunnerInv`, with the lemma that every method of `JobRepository` keeps `QueueInv` |
| `HistoryAlways`, `OwnershipHeld` | a closed attempt is never rewritten; only its claimant ends an attempt while no `run()` is repeated in one process | `RunnerInv`, and `OwnershipInv` for the second |
| `Implementation` | JobRunner implements `JobContract` | `RunnerInv`; one lemma per action shows a contract step or a stutter |
| `LiveAlwaysFresh` | `LiveIsFresh`, under `QuietBootstrap` | `LiveInv` |
| `NotificationsProofs`: `SendingAlwaysSound` | `SendingIsSound` | `SendingInv` |
| `QqAlwaysSound` | `QqIsSound` | `QqInv`, under `QqAssumption` |
| `AiDecisionsProofs`: `AiTypes`, `LedgerAlwaysSound`, `LanesAlwaysExclusive`, `BuysAlwaysSent`, `PositionsSettledOnce` | types, `LedgerIsSound`, `LaneExclusive`, `BuysAreSent`, `SettledOnce` | `AiInv` |
| `SnapshotTypes`, `NoEventForgotten` | an event has a job exactly when it is processed | `SnapshotInv` |
| `ObservedProofs`: `CheckpointTypes`, `CheckpointsKept`, `StartKept`, `RealTimeHolds` | no checkpoint of a live stream is skipped; a running clock has its start; none is early on real time | `CheckpointInv`, under `ScheduleAssumption` |
| `NoPriceIsMissed` | `NoPriceMissed`, under `FewConnects` and `QuietLearning` | `MarketInv` |
| `RostersAlwaysTold` | `RosterIsTold`, without the bounds of the host | `RosterInv` |
| `IdentityAlwaysTold` | `IdentityIsTold`: of teams under `BothNamed`, of series under `FarApart`, of rosters | `NamedInv`, `SeriesInv`, `RosterInv` |
| `OutcomesProofs`: `OutcomeTypes` | types; a result rests on a stored fact that a provider published | `TypeOK`, inductive as it stands |
| `OddsTypes`, `HorizonsAreTimeless`, `CapturesAlwaysAnswered` | what a horizon records does not depend on when its job ran; MISSING is not final | `OddsInv`, `AnswerInv` |
| `FunnelAlwaysAddsUp` | `FunnelAddsUp` | `ReadinessInv` |
| `ReportsAlwaysAgree` | `ReportsAgree`: samples, gate, money and pages | `ReportsInv`, under `ReportsAssumption` |
| `CommerceProofs`: `CommerceTypes`, `PassesArePaidFor`, `RewardRulesKept`, `RefundTakesRewards`, `PayersAreServed` | types, `AccessIsPaidFor`, `RewardsKeepTheRules`, `RefundEndsReward`, `PaymentIsHonoured` | `CommerceInv` |
| `HistoryAlwaysSound`, `WhatWasBuiltStays` | `HistoryIsSound`, `AsOfIsStable` | `HistoryInv` |
| `AccessProofs`: `BillingTypes`, `NewestWebhookDecides`, `RefundsStay` | types, `LatestWebhookDecides`, `RefundKeepsBlocked` | `BillingInv` |
| `CodesAlwaysSound` | `CodesAreSound` | `LoginInv` |
| `SettingsAlwaysSound` | `SettingsAreSound`, under `OneUpsertAtATime` | `ConfigInv` |
| `DraftsStayWhole`, `DecisionsAreTimeless` | `DraftIsWhole`, `DecisionIsTimeless` | `DraftInv` |

**The job runner.** `QueueInv` joins the rows, the ledger and the budget. It is not inductive under
the runner alone: a loop acts on the job it *believes* it holds. `RunnerInv` adds `Hand(l)` for every
loop (while the lease in the table is its own, the attempt it would end is the open one), `Running`
and `WorkDone` (a handler that returned has carried out its work), which the refinement needs. For
`OnlyClaimantSettlesPerProcess` one must know that a worker id that is used again comes later
(`LaterAreOthers`): a loop that is settling cannot meet a younger loop under its own id as long as
`run()` was not restarted in its process. That this condition is needed is what `job_runner_restart` shows.

**Notifications.** `SendingInv` has three parts. `BindingsInv`: one login holds the lock, each login knows
which files were there before it (`LoginKnows`), and an active binding has its credential unless it was
crossed (`Kept`). `CoreInv` counts: the messages sent to a destination are at most the ones its row
accounts for and the answers that were lost (`Counted`), and those sent after a revocation were in hand
when it came (`Lent`). `JobInv`: what a handler has left to do or has answered is its whole batch
(`Answers`), whichever of two handlers ends the job.

**QQ.** `QqInv` joins the two modules. `BufferSound`: events lie in the order in which they came, and while
an older order of a group is in the buffer so is its newest one; a shift takes the oldest first, which
keeps it so. `PollSound`: a batch begins at or after its bot's cursor, and ends where the bridge was, as long as it is
the bridge that gave it. `HandledSound` is `NothingSkipped` with what the poll under way owes: an event
up to the end of a batch that may move the cursor (`Trusted`) is still to do or handled. `WordSound` says
the same of the newest orders, and that an older order in the batch is `Followed` by the newest one, which is
why repeating a batch does no harm in the end. `CallsSound`, `RowOK` and `OncePerTarget` tie calls, outbox
and handlers to the messages that have arrived: while a call is unsent, nothing is recorded and nothing
has reached its target, unless it was risked.

**AI decisions.** `AiInv` says what a handler may rely on between its transactions: its job and its
record (`HandlersKnowTheirJob`), its lane (`LanesAreHeld`), the bankroll it was shown (`BankrollsStay`: no
other handler takes from the account while the lane is held, and a settlement only adds), the row of
its snapshot (`WritersSeeAll`: of two concurrent writers the second reads what the first committed). To
this come `NothingLost`, `ResultsAreKnown`, `BooksBalance`, `StakesWereCovered`, `NoBatchForgotten` and
`FirstBuyIsSent`.

**The portfolio.** `PortfolioProofs` has no theorem of a specification; it holds the lemmas on the operators
of Portfolio that the decisions and the reports both rest on. The accounts are sums over the positions; the
sum of the library is a recursive function over the subsets of a finite set, and the lemmas `SumsExist`,
`SumsAgree` and `SumUnfolds` get at its values by well-founded induction over those subsets (a smallest set
for which the claim fails has none). Funding, reserving and settling keep `BooksBalance`.

**Checkpoints.** `NoCheckpointSkipped` compares observations with events; it is kept only because
every stored clock that passed a checkpoint either was covered by an event in the same transaction or
is still within the sweep's reach (`Covered`, `WithinReach`), which is where the assumption on the
distance of checkpoints and grace (`ScheduleAssumption`) is used.

**The running game.** `LiveIsFresh` follows from three facts about the shown row: what it says of a field
was true at the time the raw events prove for the field, or later (`ShownWasTrue`), nothing is from the
future, and an answer that is being processed is no older than the row (`AnswerIsNewest`), which is
what `QuietBootstrap` is needed for.

**Snapshots.** `JobPerProcessedEvent` needs to know that a replayed checkpoint was dispatched before
(`ReplayAfterDispatch`): the replay inserts a job without an event.

**Market.** The newest price of a learned odds id is recorded, or on the wire, or awaited from a refresh
that is due (`LearnedAreTold`); with nothing under way only the first is left. That the answer of a refresh
is what RayBet shows of a new id (`LearnsWhatIs`) is where `QuietLearning` enters, and that a new
connection has a refresh of its own is where `FewConnects` does.

**Teams.** `TeamsInv` says how the copies of a name hang together: a mapping names the team or the placeholder of
its own provider (`MappingsName`), the series has one team for each side (`SeriesIsOfTwo`), the record of a map names
what is mapped (`FactsFollow`), the evidence what the record names (`EvidenceFollows`). A merge moves all of
them in one transaction, so nothing is left behind (`MergedWhole`). That a conflict is real needs more: records are
complete (`FactsAreFull`, where `BothNamed` enters), the result is that of its evidence (`ResultIsOfEvidence`), and
a conflict lasts only as long as some side is mapped to a mere number (`ConflictIsOfNumbers`); the merge of
the last number is the step that takes it back (`AgreeAtLast`).

**Series.** Whatever attaches to a series attaches to one that is scheduled at a time of its own meeting
(`Attached`), because a candidate lies within the window of what is shown, and `FarApart` leaves no other
meeting there. The projection of a page is a fold over its matches in any order; its value is reached by
well-founded induction over the subsets of the matches (`FoldsExist`, `FoldsAgree`, `FoldsAreGood`).

**Rosters.** An open lookup is newer than all that was told of its club (`NewerThanTold`), the changes it has
ready still apply to the rows as they are (`ChangesStillApply`) and rest on its answers
(`ChangesHaveReasons`), each unless another transaction looks the same club up (`NotShared`). So a commit writes
one more answer into a history that tells all the earlier ones (`HistoryOfAnswer`).

**Future odds.** A price that arrives later leaves the first price of each leg alone, so it cannot
change a captured pair, but only because a captured pair has both legs (`CapturedBoth`) and no price
is from the future (`PricesArePast`). For `CapturesAreAnswered`, `AnswerInv` counts: every bucket of the
retry window that is over without an answer had a job that failed, was repeated too early or cost a
fault (`Counted`, `RepeatsCameEarly`, `JobsKnowTheirTime`), so an unanswered capture has used up as many
faults as it had buckets.

**The funnel.** The rows of a map follow its identity (`ReadinessInv`); that the stages are cumulative
and the blockers are looked for in the order of the stages makes the two meet (`FunnelMeetsList`).

**The reports.** `ReportsInv` is what the tables have in common while the jobs write them in any order:
the books of the accounts (`BooksBalance`), the ledger from which all the money of an account can be told
(`MoneyBooked`), whose a position is (`Owned`, `DecisionsFunded`), when each result came (`ResultsDated`),
by which winner a decision was graded (`GradesStand`) and a bet settled (`BetsGraded`), and what a reader
of the pages has seen of those who were listed when they began (`WalkGoesOn`: a new decision only pushes the old
ones back). The reports are then compared at one state. `SamplesAgree`: a winner is never taken back, so a map
that is clean now was clean whenever something of it was graded; the first forecast of a map is the same in its
event and across the events because a map belongs to one event. `GateIsEarned`: `pnl >= 0` with a settled bet
whose line is known needs a bet that was won, as no stake is zero. `MoneyAddsUp`: a placed bet moves nothing, so the instants
the curve leaves out add nothing (`SumLeavesOut`), and a sum over the accounts is one over the bets (`SumOfSums`).
These two are in `ReportsAssumption`: the event of a map's series is written once, while it is empty
(`app/providers/liquipedia/projection.py:109`), and `validate_ai_decision` refuses a stake that is not
positive. The rest of it gives the constants their types.

**Commerce.** What the three tables know of each other: the provider's events happened in their order
(`EventsInOrder`), the row of a purchase knows which of them were applied (`RowKnowsEvents`), an attribution
says which rewards exist (`RewardsFollowAttribution`). `RewardsWithinCap` and `RewardWindowsApart` are then
inductive: a reward is granted under the inviter's lock, after the last one ends (`LargestOfFinite`).

**Access.** `BillingInv` adds to `LatestWebhookDecides` that a verdict is one of a webhook that was sent. `LoginInv`:
only the last code of an inbox is open (`CodesClose`), an address has one account, a session's proof
still belongs to its account. `ConfigInv`: a validated change applies to the row as it is now
(`Applies`), a call is one of its slot's revision. `DraftInv`: stamps rise, a verified draft is followed only
by verified ones, and what is stored of the sides agrees; that a decision is timeless is then a matter
of rows that are appended after it (`LastIsNewest`, `NewestIsKept`, `SeenIsKept`).

**History.** `HistoryInv` says of each table what it owes the facts and the cutoffs of the syncs that have
finished. A response moves a fact on (`MovesTo`): its time only falls, and when it falls or a winner is
added the fact is dated by the commit, which lies after every cutoff. So a fact that a finished sync
could not read as it now counts came late (`CameLate`), and every map that did not come late and counts
from before a cutoff is rated (`AllRated`). A map rated later is therefore newer than every row there is,
which gives the chain, or came late, which is the exception. For forms the invariant is that building
again as of a past cutoff adds nothing (`FormKnown`). The proof found the property too strong as it first
stood: a sync builds forms for its own two teams only, so a later sync of another series may add an
older form of a team that was in none. `SettledFor` says so.

What stays with TLC: every liveness property and everything about ENABLED, which the prover does not
handle; and `EvidenceIsEarned`, whose module sorts sequences, takes percentiles of them and folds over what
grows: no induction rule that takes an operator can be instantiated, and the way of the portfolio's sums
does not lead to an order. All the other safety properties of the runs are theorems. History
lost its folds: what a job rates, and in which order, is stated in closed form (`Precedes`, `RatedUpTo`).

## 7. Where the code and its documents disagree

Five sentences of the repository are false of the code, each shown by a run that ends in a
counterexample (`PROJECT.json`, "findings"):

- `job_runner_restart`: after `run()` has raised in one worker loop its siblings live on; the
  supervisor's next `run()` uses the same worker ids, so a loop of the old run can end an attempt that a
  loop of the new one claimed (`app/jobs/runner.py:49`).
- `ai_lane_orphan`: a waiter that is cancelled before it enters its lane leaves its token behind; the lane
  is idle and still nobody with a later token enters until the process ends (`app/ai/lanes.py:52`).
- `ai_settlement_race`: a decision that read no result is committed after the settlement of its map
  has looked for open positions; no later job releases its stake (`app/evaluation/portfolio.py:236`).
- `snapshot_redelivery`: a BUILD_SNAPSHOT job that runs twice over changed data stores a second
  snapshot of the same event (`app/jobs/handlers.py:339`).
- `odds_path`: a packet that moves both selections makes two points of one instant, of which the displayed
  path keeps the first, a pair the market never quoted (`app/snapshots/builder.py:1121`); a test says that
  the current price survives.

Divergences met while modelling that have no run of their own, because the properties state what the
code does do:

- Market: a second connection within a minute asks for no recovery, and a price that changes while its
  odds id is being learned is dropped (section 4; `app/market/registry_recovery.py`).
- Live state: the answer of a bootstrap is archived with the time it was received and processed later; a
  message in between makes the observation that is shown older than its freshness says.
- Runtime configuration: the upsert reads the revision without a lock (`OneUpsertAtATime`).
- History: a rating that rests on a map that came late is dated by that map and goes on from newer
  ones, so the payload of an earlier decision can change (`CameLate`).
- Commerce: the payer of a purchase is looked up before the refund is and the reward written after it,
  in transactions of their own, so a reward can outlive its refund
  (`docs/BILLING_ENTITLEMENTS.md:86`); `RefundEndsReward` says which step ends it.
- Future odds: a MISSING capture is retried, but a retry reads the same first prices of the window, so
  it can only succeed when a price is stored late (`docs/ARCHITECTURE.md:4856`,
  `app/evaluation/future_odds.py:92`).
- Evaluation: the sweep's key for a snapshot is used once and reopened only when its job failed for good
  (`app/jobs/reconciliation.py:857`); of two decisions that both come after their map's evaluation the
  second is never evaluated. `EveryDecisionEvaluated` leaves exactly this case out (`LeftOut`).
- Rosters: the refresh "when a RayBet event is first discovered" goes by the time at which the canonical event
  was created, which Liquipedia's schedule does; an event that RayBet lists more than a day later and
  after its start is never looked up (`docs/TEAM_ROSTER_REGISTRY.md:104`,
  `app/identity/team_registry_schedule.py:131`). A club that a command and the worker look up at once may
  enter a player twice (`mixed`).
- Settlement: while a result exists a SETTLE_MAP job that has failed for good is not enqueued again
  (`docs/ARCHITECTURE.md:4257`).
- Notifications: a new binding answers that its notifications are on, while `_ensure_preference` leaves a
  preference that was switched off as it is (`app/notifications/center.py`).
- QQ: `_handle_message` keeps the contact it read before the order and, after the reply, saves it again with the
  sender's name: the first 订阅通知 or 退订通知 of a chat that has no label yet is taken back although it was
  confirmed (`app/providers/qq_bot/service.py:306`; README.md:108 says that it subscribes the group). `undone`.
- QQ: the outbox also keeps an answer without a message id, which the client takes for an error each
  time; the job then fails for good although the message is there.
- Notifications: a decision job that is repeated may add a delivery for a destination that is new, but
  the job's key exists and may have been used up, so no job sends it.
- An evaluation that runs before the closing odds are captured has no closing line value, and nothing
  runs it again when they are.

## 8. What is not modelled

Parts that are left out and why (`PROJECT.json`, "components", has the status of every one):

- Not yet: e-mail notifications, the outbox (its hub has no subscriber), grants by hand,
  health and the back-off of the supervisor.
- Numbers without control: the draft engine, the arithmetic of ratings and scores, the shadow audits.
- Translation and I/O: provider clients and parsers, prompts and views, the web API's routes, the
  frontend, migrations, tools, deployment; offline replay.

Inside the modules that are there:

- Jobs: priorities, payloads and what is logged; `SKIP LOCKED` is the freedom of every loop to claim any
  due job that no other transaction holds.
- AiDecisions: what a model answers is a choice of stake, odds and action; the size of prompts, the
  cost of tokens and the retries inside one HTTP call are left out. The rows of the ledger are in Reports.
- LiveCheckpoints: one map, one reconnect at a time (`Regained`); drafts and odds have no part in it.
  LiveState: the fields of a state beyond two kinds.
- Market: the pairing of two legs and the HTTP transport. Trends: the calibration of the offsets.
- Drafts: the numbers of a curve. Rosters: what a profile shows, staff, players' names, how a club comes by its
  mapping.
- Snapshots: the window of three hours in which checkpoints are replayed.
- Commerce: disabled accounts, the days in which a code may be claimed, signatures; one delivery of an
  event is handled at a time; a pending checkout is young or older than an hour (`LAPSED`).
- Accounts: OAuth exchanges, CSRF, cookies. RuntimeConfig: the tests of a connection.
- History: Elo, weights and z-scores, the limits of 20 and 100 maps, role baselines.
- Outcomes: the two days after which the sweep gives up, the branch that repairs placeholder teams,
  postmatch jobs of two quarters of an hour at once, a provider that changes its own answer, the
  advanced result. `linked` stands for the mapping of the series and of the map together.
- Reports: bootstrap intervals, calibration bins, rendering.
- Bindings and Notifications: an account stands for the one chat it reaches; the age of a snapshot and
  the result of its map are one flag (`stale`); several logins of one user, e-mail
  and the limiter of pairing attempts. A channel that is switched off (`muted`) leaves its deliveries
  open while the job succeeds, which `SuccessAnswersForAll` excepts.
- QqInbox and QqSending: private chats, their commands and pairing; configured targets that are private chats; the
  deliveries of bound users, which go out before the direct targets (those of Notifications are alike; here
  one of them may fail); how long the bridge takes to connect a new account.
- FutureOdds: the identity gates of a pair and decisions that are made after the end of the map.

## 9. The plan

| | Part | State |
| --- | --- | --- |
| 1 | Job queue and runner | modelled, checked, proved with its refinement |
| 2 | Portfolio and AI decisions | modelled, checked, safety proved |
| 3 | Live checkpoints, live state, snapshots, drafts, market | modelled, checked, safety proved |
| 4 | Commerce, subscriptions, accounts, runtime configuration | modelled, checked, safety proved |
| 5 | Outcomes, future odds, readiness | modelled, checked, safety proved |
| 6 | Notifications to WeChat and QQ | modelled, checked, safety proved; left: e-mail, private QQ chats |
| 7 | Reports | modelled, checked, safety proved |
| 8 | History | modelled, checked, safety proved; left: what a figure says of its maps |
| 9 | Identity of teams and series, rosters | modelled, checked, safety proved |
| 10 | Trends | modelled, checked; folds over growing sequences, last |
| 11 | Contents of a decision's context, e-mail, grants by hand, supervisor | to model |
