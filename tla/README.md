# TLA+ models of the 1KV backend

This directory holds a verification project for `1k-validators-be`, the backend of the
Thousand Validators Programme: it watches candidate nodes through substrate-telemetry,
decides which candidates are valid, scores them, and nominates valid ones from the programme's
accounts, mostly through time-delayed proxies.  The modules model the parts of it in which
steps interleave, fail or are repeated; TLC checks them on small instances, and TLAPS proves
the safety properties of all of them but `Telemetry` and `Scoring` for every instance.

Paths below are relative to `packages/`; `common/` stands for `common/src/`.

## The system

One Node.js process (`core`) with one event loop; MongoDB keeps what survives a restart; the
chain is reached through an API connection.  Everything concurrent is a set of `async`
functions that interleave at each `await`: cron jobs (one instance of each, `preventOverlap`),
the handlers of telemetry messages and of chain events (any number, nobody awaits them),
callbacks of sent transactions, HTTP requests.

| Component | State | Operations | Talks to | Module |
|---|---|---|---|---|
| Delayed nominations (`nominator/`, `scorekeeper/Round.ts`, `Nominating.ts`, `ExecutionJob.ts`, `CancelJob.ts`) | `delayedtxes`, `nominations`; announcements on chain | `startRound`, `doNominations`, `nominate`, `sendProxyDelayTx`, `cancelTx`, `executionJob`, `cancelJob` | chain, database | `ProxyNomination` |
| Immediate nominations (`nominator.ts`, `NominatorTx.ts`) | `Nominator.current`; nominations on chain | `sendProxyTx`, `sendStakingTx` and its callback | chain, database | `StakingTx` |
| Start-up and scheduling (`core/src/index.ts`, `scorekeeper.ts`, `jobs/`) | stage of `start()`, jobs, their status | `begin`, `setupCronJob`, `startJob`, 18 jobs | everything | `Runtime` |
| API connection (`ApiHandler.ts`) | websocket, endpoint, `connectionAttempt` | `getApi`, `connectWithRetry`, `healthCheck`, `handleError` | every caller | `ApiConnection`, `Runtime` |
| Candidate records at a start (`utils/CleanDB.ts`, `RegisterHandler.ts`, `db/queries/Candidate.ts`) | slot, name, stash, `nodeRefs`, faults | `cleanDB`, `clearCandidates`, `addCandidate`, the handler of someOffline events | configuration, telemetry | `CandidateRegistry` |
| Telemetry client (`telemetry/src/Telemetry`) | socket, maps `memNodes`, `disconnectedNodes`, `offlineNodes` | `start`, `reconnect`, `handleTelemetryMessage`, `checkOffline` | feed, online records | `Telemetry` |
| Online records (`db/queries/Candidate.ts`, `TelemetryNode.ts`) | `onlineSince`, `offlineSince`, `nodeRefs`, the reason ONLINE | `reportOnline`, `reportOffline` | called by telemetry | `Telemetry`, `CandidateRegistry` |
| Validity (`constraints/`, `ConstraintsJob.ts`) | a candidate's `invalidity` array and `valid` | `checkCandidate` with 14 checks, `setCandidateInvalidity`, `setValid` | validity job, rounds, telemetry | `Validity` |
| Scoring (`constraints/ScoreCandidates.ts`, `ScoreMetadata.ts`, `score.ts`) | metadata and scores per session | `scoreAllCandidates`, `setScoreMetadata`, `setValidatorScore` | score job, rounds | `Scoring` |
| Block scanner (`BlockDataJob.ts`) | block index, rewards, payouts | forward and backward scan | chain | `BlockIndex` |
| Era points, inclusion | rows and total per era; `inclusion` | `eraPointsJob`, `inclusionJob` | chain, each other's rows | `EraStatistics` |
| Era statistics, active marks | validator sets, identities, ranks, `active` | `eraStatsJob`, `activeValidatorJob` | chain, each other's rows | `ValidatorSets` |
| Number of nominations, other statistics jobs, gateway, Matrix, metrics, status UI, config | – | – | – | not modelled |

What is hard: rows read at the start of a job that runs for minutes; a database row, an
announcement and a transaction that must agree although a crash or a failed call may fall
between any two of them; a callback that learns of the outcome after its caller returned; a
feed that is replayed after each reconnection; several parties that each ask for a new
connection; two runs writing one candidate's record, each in two updates; three queries whose
answers are stored as if they were one.  `PROJECT.json` lists these hazards line by line.

What would make each part correct:

- *Nominations*: one delayed call per nominator; it is sent after its delay and not before;
  its row is deleted only after it was sent, and is deleted in the end; announcements do not
  stay on chain; immediate nominations land in different eras and are what is shown.
- *Process and API*: one attempt to connect at a time; an endpoint that answers is reached;
  jobs go on.
- *Records*: one record per candidate, the configured ones active, their history kept, and
  references counted anew, but for those that could not be reset.
- *Telemetry*: a name is declared offline only when no node of it is known; a connected
  node is online in the end; both but for names whose messages crossed.
- *Validity*: one reason of each type; a valid verdict is backed by reasons; verdict and
  reasons follow the facts in the end.  *Scores* follow what is known in the end.
- *Block scanner*: every block is scanned in the end, and the payouts of a block within the
  index are recorded, rewards before the payout itself.
- *Statistics*: a total means that its rows are there; every era is recorded; sets, marks,
  ranks and inclusion are right in the end.

## Modules

| Module | What it is |
|---|---|
| `ProxyNomination` | the life of a delayed nomination: rounds, execution job, cancel job, chain, database, start-up, crashes |
| `NominationPromise` | what that workflow promises of each nominator; `ProxyNomination` implements it |
| `ProxyNominationProofs` | theorems about `ProxyNomination` |
| `StakingTx` | nominations that are sent at once, and the callback that rewrites the current targets |
| `StakingTxProofs` | theorems about `StakingTx` |
| `ApiConnection` | the shared connection to the chain, over an external WsProvider; has no run of its own |
| `Runtime` | the process around it: `start()`, cron jobs, the handler of events, death and restart (extends `ApiConnection`) |
| `RuntimeProofs` | theorems about `Runtime` and `ApiConnection` |
| `CandidateRegistry` | the candidates collection over several starts with changing configuration files |
| `RegistryProofs` | theorems about `CandidateRegistry` |
| `Telemetry` | telemetry client and online records |
| `Validity` | overlapping runs over the candidates, and telemetry's writes to the same records |
| `ValidityProofs` | theorems about `Validity` |
| `Scoring` | overlapping passes of the score job and of rounds |
| `EraLedger` | what the jobs that write down eras promise; `EraStatistics` and `ValidatorSets` implement it |
| `EraStatistics` | era points and inclusion |
| `EraStatisticsProofs` | theorems about `EraStatistics` |
| `ValidatorSets` | validator sets, identities, ranks and active marks |
| `ValidatorSetsProofs` | theorems about `ValidatorSets` |
| `ScanPromise` | what the block scanner promises of its index and rows; `BlockIndex` implements it |
| `BlockIndex` | the block scanner, the rows it writes and the index it keeps |
| `BlockIndexProofs` | theorems about `BlockIndex` |
| `MC...` | sequences and functions the `.cfg` files give to the constants |

Each action is the stretch of code between two awaits that touch shared state; `PROJECT.json`
maps every definition to its lines.  A definition marked as a variant in its comment is a
plausible wrong form of the next one, which a property rejects; no specification uses it.

### ProxyNomination

A round, an execution job and a cancel job are processes with a stage each (`roundPc`,
`execPc`, `cancelPc`).  `delayed` and `nominations` are the two collections; `announcements`
and `active` are the chain's proxy announcements and nominations; `pool` holds what was
broadcast and is not yet in a block.

| Code | Actions |
|---|---|
| `ScoreKeeper.begin` | `Begin`, `BeginFails` |
| `startRound` up to the groups | `StartRound`, `SkipRound` |
| `doNominations`' loop, `shouldNominate` | `CheckDelayed`, `CheckEra`, `NextGroup`, `FinishRound` |
| `nominate`, `sendProxyDelayTx` | `ReadNumber`, `InsertDelayedTx`, `AnnounceTx` |
| `executionJob` | `StartExecution`, `ReadDelayed`, `CheckCommission`, `CancelAnnounced`, `SendExecution`, `SetNomination`, `DeleteDelayedTx`, `FinishExecution` |
| `cancelJob` | `StartCancel`, `ReadAnnouncements`, `CancelOne`, `NextCancelGroup`, `FinishCancel` |
| the chain (external) | `NewBlock`, `IncludeTx`, `LoseTx`, `ChangeCommission` |
| the process | `Crash` |

Faults: `"call"` (a call to the chain or the database fails, with what the code returns then),
`"loss"` (a transaction is dropped or usurped), `"crash"`, `"boot"` (the first round throws,
and `begin` returns false: no job runs).  `MaxFaults` bounds their number.

Abstractions.  A slate stands for a list of targets and its call hash; commission is a set of
slates over the limit.  A transaction of the pool lands in the block after the latest one, and
two of the same content are one.  The round's choice of a slate is free (scores and
`autoNumNominations` are not modelled), and so is a nominator's balance.  `startRound` in a
cron job takes all groups: the filter by age in `MainScorekeeperJob.ts:48` has an `async`
predicate and keeps every element; the first round of `begin` takes the ready ones, and here
all, which allows more.  `lastNominatedEraIndex` does not appear, since its only reader is the
condition of `MainScorekeeperJob.ts:60`, always true for the same reason.  `shouldNominate`'s
calls in `startRound` only set a status and are left out.  A commission that cannot be read
counts as valid.  Failed reads that end a job early are `FinishExecution` and `FinishCancel`
under a fault.  `sendStakingTx` returns once the transaction is broadcast and the names were
read; the callback's late writes of the current targets are not modelled, but what it may set
(`didSend`) while the caller still waits is.  `nominations` is a sequence, in the order of the
collection: `setNomination` always gets an empty block hash from that return, so when a row of
the nominator and the era exists it goes on to `findOneAndUpdate` with one argument, which is
the update; without a filter it overwrites the first row of the collection (`Recorded`).  It
also catches every exception of its own, so that `SetNomination` may leave the collection as it
was while the job goes on to delete the row.
Left out: dry run, direct nominators and
proxies without delay (`StakingTx`), changed configuration after a restart, a forced round with
no ready nominator.

### StakingTx

A round (`roundPc`) visits the nominators and gives each a slice of the ranked candidates;
`sent` holds what was broadcast, each transaction with the stage of its callback.  `heard` is
false for a transaction whose process died.

| Code | Actions |
|---|---|
| `doNominations`, `nominate`, `sendProxyTx` | `StartRound`, `Visit`, `Send`, `ReadHash`, `RecordRow`, `FinishRound` |
| the callback of `sendStakingTx` | `ReadCurrent`, `ClearCurrent`, `ReadEra`, `PushTarget` |
| the chain, the process (external) | `NewEra`, `IncludeTx`, `LoseTx`, `FinaliseTx`, `Crash` |

`ReadHash` says whether the callback had finished its first part when the caller looked at its
answer, so a row holds the block hash or none.  `rows` is a sequence, and `SetNomination`
overwrites its first row when the row it finds has no block hash, as in `ProxyNomination`.

A round starts every five minutes, and at once when the process has started (`begin`).  That it
starts before the callbacks of what the same process sent are through is the fault `"late"`
(`Settled`).  Of what an earlier process sent a round knows nothing: it may nominate for an
account whose last transaction is still in the pool, and both may land in one era.  `crossed`
remembers such transactions, one decided on while the other waited.  Left out: times of
nominations, which decide nothing, and the choice of the number of nominations (`Numbers`).

### ApiConnection and Runtime

`connectWithRetry` keeps one promise; the model counts what is behind it, executors waiting for
the websocket (`dials`) and timers (`timers`), so that it can say that there is one.  The
WsProvider is external: `connect()` throws while there is a websocket, `disconnect()` takes
effect with the close event, which fails the requests under way first.

| Code | Actions |
|---|---|
| `connectWithRetry`, `connect`, the `connected` and `disconnected` handlers | `Open`, `Refuse`, `CloseEvent`, `FinishClose`, `Retry` |
| `getApi` and a call | `Call`, `Answer`, `TimeOut` |
| the rate-limit branch of `handleError` | `HitLimit` |
| `healthCheck` | `CheckHealth`, `Healthy`, `Unhealthy` |
| the endpoint (external) | `FallSilent` |
| `start`, `initScorekeeper`, `begin` | `Start`, `Made`, `Begin`, `BeginFails`, `PrepareFails`, `Crash`, `Probe`, `Restart` |
| `setupCronJob`, `updateJobStatus` | `Tick`, `GoOn`, `Finish` |
| the handler of someOffline events | `SomeOffline`, `Handled`, `Unhandled` |

A job is a number of calls, each of which may fail and end the run, or be caught.  `Jobs` with
any value at their configuration key are enabled, `false` as well (`StartCronJobs.ts:27`).
After a failed first round `begin()` returns false and nothing looks at it: the process stays up
without a job (`stage = "jobless"`).  Left out: the decorated types, `getApiAt`, intervals.

### CandidateRegistry

The collection is a sequence in insertion order, for it has no unique index and `findOne`
answers a match of its own choosing.  A start goes through `phase`s, one query a step.

| Code | Actions |
|---|---|
| `start`, `cleanDB` | `Begin`, `Clean`, `DeleteMissing` |
| `clearCandidates`, `addCleanCandidates`, `addCandidate` | `ClearCandidate`, `AddCandidate` |
| `reportOnline`, `reportOffline`, `mergeTelemetryNodeToCandidate` | `ReportOnline`, `ReportOffline` |
| `registerAPIHandler`, `pushFaultEvent` | `SomeOffline`, `ReadSession`, `FindAccused`, `PushFault` |
| the process, sessions (external) | `Crash`, `NewSession` |

A report of a node is one step here; `Telemetry` takes it apart.  `nodeRefs` of a new candidate
is null, and a pipeline's `$add` keeps null.  The handler of events is registered before the
database is cleaned, so it runs in every phase of a start.

`cleanDB` swallows its failures and `start()` ignores its answer: `Clean` resets the references
of any of the telemetry nodes, and of the candidates before the one that failed; `left`
remembers what this start failed to reset.  `addCandidate` updates whichever record has the slot
or the name (`Matches`); when two have, one the slot and the other the name, the entry is
`collided`, and the collection then holds two records of one slot or one name.

### Telemetry

Each open socket has its list of announced nodes (`told`); each message is handled by a
handler with a stage, and `checkOffline` runs before the message proper.  Nobody awaits a handler
(`TelemetryWS.ts:39`), so several run at once and interleave at each query.  `late` holds the
writes of `setCandidateOnlineNotValid`, which `reportOffline` starts and does not await.  The
record of a name is `online`, `offline`, `nodeRefs`.

Two handlers of one name can spoil its record: one reads it to report the name offline while the
other puts a node of it online, or both find no record and each makes one.  `mixed` remembers
the names to which this happened in the life of the process, and the properties except them.  A
departure handled while a node of the name is
being put online is taken off the map with it (`"brief"`), and never reported.

| Code | Actions |
|---|---|
| `registerTelemetryWs`, `reconnect` | `Dial`, `DialFails`, `Drop` |
| `cleanDB`, `clearCandidates`, new maps | `Restart` |
| `handleTelemetryMessage` | `ReceiveAdded`, `ReceiveRemoved`, `ReceiveOther`, `HandleMessage`, `Settle` |
| `checkOffline` | `CheckOffline`, `MarkOffline` |
| `reportOffline`, `reportTelemetryNodeOffline` | `ReportOffline`, `DecrementRefs`, `GoOffline`, `Revalidate`, `LateInvalid`, `LateReset` |
| `reportOnline`, `reportTelemetryNodeOnline` | `ReportOnline`, `AddNew`, `UpdateExisting`, `UpdateOfflineTime`, `AddRef` |
| feed and clock (external) | `Join`, `Leave`, `FiveMinutes` |

Abstractions.  The two updates of `setCandidateInvalidity` and the following update are one here
(`Validity` takes them apart).  Dialing and opening are one step.  The clock is `FiveMinutes`,
possible when no report of the name is under way, since five minutes are long beside a handler.
Database failures, locations, versions and `mergeTelemetryNodeToCandidate` are left out.

### Validity

The validity job and a nomination round each work through a snapshot of the records: `Start`,
`Take`, then per check `Judge` (the decision and the first update) and `Push` (the second
update), `Conclude` (`setValid`), `Finish`; a round goes on to `Select`.  Telemetry writes
ONLINE (`Announce`, `PushOnline`) and then `onlineSince` (`SetSince`).  A check may fail to be
made, in one of four ways that the constants assign to checks: an exception ends the
candidate's run, the answer is false and nothing is stored (commission), the check passes and
nothing is stored (Kusama rank), or the reason is stored as failed and the exception goes on
(client version).

| Code | Actions |
|---|---|
| `validityJob`, `startRound` | `Start`, `Take`, `Finish`, `Select`, `Abort` |
| `checkCandidate` and the checks | `Judge`, `Push`, `Conclude` |
| `setCandidateOnlineValid`, `setCandidateOnlineNotValid` | `Announce`, `PushOnline`, `SetSince` |
| time, facts, the process (external) | `Age`, `AgeSnapshot`, `ChangeFact`, `Crash` |

Abstractions.  What a check decides by is membership in `passes`, except for the time online:
of `onlineSince` only matters whether it is set and within sixteen hours (`recent`).  Time makes
a record old and what was read of it (`Age`); that a run has read a record which grows old while
a new announcement keeps the record itself recent (`AgeSnapshot`) counts as a fault, since it
takes a run over the sixteenth hour, and else the job could meet that moment each time.  Checks
that only look at the record decide by the snapshot.  The `invalidity` array is a set: that it
has one element per type is a checked property, not an assumption.  A check's read and its
first update are one step, since no other process looks at the fact in between.  Telemetry
writes one record at a time (their overlap is `Telemetry`'s subject).  A run forgets what it
read of a candidate it is through with, but for the verdict, by which the round picks.  The
last-valid time and the set of candidates, which changes at restarts only, are left out.

### Scoring

Each pass (the score job, a round) reads the valid candidates, measures quantiles and
locations, stores them as the session's metadata, reads the latest metadata back, and then
scores its own list, a candidate's row at a time.

| Code | Actions |
|---|---|
| `scoreAllCandidates`, `scoreJob` | `ReadList`, `ReadSession` |
| `setScoreMetadata`, `getLatestValidatorScoreMetadata` | `Measure`, `SaveMetadata`, `ReadMetadata` |
| `scoreCandidate`, `setValidatorScore` | `FindRow`, `SaveRow` |
| the world and the process (external) | `ChangeValues`, `NewSession`, `Crash` |

There is one component of each shape: `rank` (more is better), `offline` (less is), `location`.
Scores are in thousandths, rounded down.  Left out: components that add a constant, the total
with its random factor.  The find and the write of the metadata are one step; its time stamp,
by which the latest is chosen, is taken between them.

### EraStatistics and ValidatorSets

| Code | Actions |
|---|---|
| `eraPointsJob`, `individualEraPointsJob`, `setTotalEraPoints` | `StartPoints`, `PassEra`, `AskEra`, `SearchFails`, `SaveRow`, `SaveTotal`, `FinishPoints` |
| `findEraBlockHash` | `Search` |
| `inclusionJob` | `StartInclusion`, `Include`, `FinishInclusion` |
| `eraStatsJob` | `StartStats`, `Identify`, `Identified`, `Rank`, `ReadSession`, `ReadEra`, `ReadValidators`, `SaveSet`, `PassEra`, `ReadPast`, `FillEra`, `ErasDone`, `FinishStats` |
| `activeValidatorJob` | `StartMarking`, `Mark` |
| the chain, the process (external) | `NewEra`, `NewSession`, `Move`, `Crash` |

`ErasRecorded` rests on the whole search for a block of an era: an estimate, back by a third of
the expected length of an era, forward by the whole of it, over eras of uneven lengths.  The
search counts in thirds of a block, since on the test network a third of the length is a
fraction, of which a node may or may not take the whole part.  Over an era shorter than the
third it may step to and fro without end: the job is then in `pc = "endless"`, and only a query
that fails gets it out.  The find and the write of an inclusion are one step; the span
inclusion and the last era, which the same job writes, are left out.

In `ValidatorSets` session, era and validators are three steps, the era being the planned one;
for a past era the validators (`ReadPast`) and the session (`FillEra`) are two searches, each of
which may find no block: of the first, that gives an empty list, which the job does not take for
an error; of the second, the era is passed by.  Searches may fail in this way while the chain is
young (`YoungUntil`), where the estimate falls outside the chain, and always for an era that has
not begun.  Identities are looked up by name, as `setIdentity` does, and one without a name is
not stored.  A start deletes the identities of all candidates (`Cleaned`).

Both implement `EraLedger`, a page per era that is drafted and then sealed with the truth.  In
`EraStatistics` the page is the rows stored or lost and an era is sealed when its total is stored;
the truth is the final points.  In `ValidatorSets` the page is the set of validators, drafts may
stand one era ahead, and an era is sealed when its set was stored from queries that all fell in
it.  `SeenErasAreTrue` says what a sealed set is; the ledger says moreover what an era not sealed
may hold: the set of the era itself or of the one before, or of nobody, never that of a later one.

### BlockIndex

The job (`pc`, `target`, `at`, `floor`) loops forward from the index to the head it read, then
backward `Threshold` blocks; `scanning` says it is inside `processBlock`.  The extrinsics of a
block are `tasks`, each working through its calls of `payoutStakers`: the context is read, and
the rows of the validator, of the nominators and of the payout are written, each group by
concurrent lookups and then saves.  `rows` counts the rows of each key, since nothing makes a
key unique in the database.  A task is `own` while the run that started it waits for it: when
another task throws, `Promise.all` rejects, the run ends, and the task goes on as an orphan.

| Code | Actions |
|---|---|
| `blockJob` | `StartJob`, `Turn` |
| `processBlock`, `parseExtrinsics` | `ProcessBlock`, `BlockDone` |
| `processPayoutStakers`, `setReward`, `setPayoutTransaction` | `ReadContext`, `FindRows`, `SaveRows` |
| the chain, the process (external) | `NewBlock`, `Crash` |

What `processPayoutStakers` and `processBlock` leave without an exception, when something cannot
be read, goes to the history variable `skipped`; a commission of zero is always such a case
(`BlockDataJob.ts:240`).  The two updates of the index after a block, by `processBlock` and by
the loop, write the same bounds and are one.  A group's lookups come before all its saves; a
save that finds the row of an earlier one only updates it, hence the free count in `Insert`.
Two orphans of one extrinsic at the same place are one, which needs two faults.  The chain only
grows: the job reads the best block, which is not final (`ChainMeta.ts:125`), and what it would
make of one that is reorganised away is not modelled.  Prices, amounts
and the queries that sum rewards up are left out.

`ScanPromise` has the index, the rows that are there and what was given up, and no job: an index
that grows by blocks whose payouts are stored or given up.  In the mapping the loops, tasks and
orphans disappear, and `stored` is the set of keys with at least one row.

## Runs

All are expected to pass but `Registry_removed`, which shows where the code and its comments part.

| Run | Checks | Instance | What it shows |
|---|---|---|---|
| `ProxyNomination_jobs` | `OnePendingPerNominator`, `RecordedWasSent`, `ResendsOnlyAfterFault`, `ImplementsPromise` | 1 nominator, 3 blocks, 1 fault of any kind, a risky slate | the promise holds through every interleaving of round and jobs with a fault at any step, and nothing is recorded that was not sent |
| `ProxyNomination_settles` | `DelayedTxSettles`, `AnnouncementsDoNotLinger` | 1 nominator, 4 blocks, 1 crash or lost transaction | rows leave the database and announcements the chain in the end |
| `StakingTx_rounds` | `CurrentOfOneNomination`, `RowsWereSent`, `OneNominationPerEra`, `NominatedIsShown` | 2 nominators, 2 candidates, 2 eras, 1 fault of any of six kinds | callbacks of several rounds and nominators overlap, a restart starts a round at once, and rows are overwritten |
| `Runtime_calls` | `OneAttempt`, `NobodyForgotten`, `ReachesGood`, `JobsGoOn` | 3 endpoints, one down, 3 troubles, 1 crash; 3 jobs, one of them not configured | the process reaches the chain and goes on, and no caller waits for nothing |
| `Registry_starts` | `RegistryTypeOK`, `OneRecordPerCandidate`, `UpMeansConfigured`, `TelemetryNodesCounted`, `HistoryKept` | 3 starts, 4 files, 1 failed registration, cleaning that fails, 1 node of a name, events that report validators | starts cut short anywhere leave sound records, and references that are those of this process and what was left |
| `Registry_removed` | `OthersAreRemoved` (violated) | 2 starts, 4 files | a candidate that left the file is not removed |
| `Telemetry_refs` | `TypeOK`, `RefsCoverKnownNodes`, `OfflineOnlyWhenGone`, `ConnectedStaysOnline` | 2 nodes of a candidate, of another name, or of both, 2 handlers, 1 lost socket, 1 restart | messages of nodes that share a name are handled at once; a node that stays is online in the end |
| `Validity_converges` | `OneReasonPerType`, `ValidIsExplained`, `PickedIsExplained`, `VerdictsConverge` | 1 candidate, 2 checks, 1 fault | both runs and telemetry write one record at once |
| `Scoring_passes` | `TypeOK`, `ScoresCatchUp` | 2 candidates, 2 passes, 2 sessions, 1 event | scores follow what is known |
| `EraStatistics_jobs` | `TotalMeansRows`, `ImplementsLedger`, `ErasRecorded`, `InclusionCatchesUp` | 4 eras, 5 layouts of their lengths, 2 faults | eras are recorded once and for all, and counted |
| `ValidatorSets_jobs` | `SeenErasAreTrue`, `ImplementsLedger`, `StandingCatchesUp` | 3 sessions over an era's end, 2 candidates and a parent, a candidate without an identity name, 1 change of an identity, 1 fault | what straddling queries store is mended, and what is right is left alone |
| `BlockIndex_scan` | `IndexedIsRecorded`, `PayoutAfterRewards`, `ImplementsPromise`, `EveryBlockScanned` | blocks to 3, 3 extrinsics (a batch, a call without commission, a failed call), 1 fault | nothing within the index is missing, and the index covers every block in the end |

### Bounds

`MaxBlock` with `Delay = 1` leaves room for an announcement, its maturity and one block more
(`settles`: until it is too old); the era changes at block 3 in `jobs`, where a second nomination
matters.  `settles` has `MaxPending = 1`, so that a round that finds a pending row is skipped, and
no failed call, which is for `jobs`: that the workflow also settles when a call failed is not
shown, though a crash at the same step loses as much and more, except for an announcement sent
without its row.  One slate is enough because the properties compare a call with itself.  The
runs of `ProxyNomination` have one nominator; that rows of several do not mix rests on the
theorems, which are about any number.  One fault in a behaviour, at any step, is what a restart
or a retry of the code is meant for; the theorems have no bound on faults.

In `StakingTx`, two eras make two nominations of one account.  The candidates of a round are
enough for one account, so that the other is left to the next round and overlaps with it; slices
of one ranking for several accounts in one round are not in the run.  To overwrite a row takes one
recorded before finality, without a block hash, and a second nomination of its era, which one
fault (a call that fails in its block, or a restart at once) brings about.  In `Runtime`, three
endpoints (one down, one that may fall silent, one more) are the least with which going to the
next may fail twice; three troubles let a lost socket, a rate limit and a silent endpoint meet.
In `CandidateRegistry`, the four files let a candidate join, leave, come back, change its stash or
its name, and take the slot of one and the name of another; three starts let one that was cut
short follow another; with one node of a name, counts of several rest on the theorem.  In `Telemetry`, two nodes of a name and two handlers are the least with
which messages of one name meet; a candidate's name and another one go through different
queries.  `Crowds` names the pairs of nodes that may join: two of the candidate, two of the other
name, or one of each.  There is one socket, so that the second dial after an error and a close
waits for it; with two sockets, and then two handlers and two nodes of a name, the safety
properties were found to hold as well, in a run too long to keep together with liveness.
`MaxDrops` and `MaxRestarts` are 1.

In `Validity`, one candidate is enough because records of different candidates do not interact;
of the two checks one is decided by the snapshot and stored also without earlier reasons (the
time online), the other is read afresh, stored only beside earlier reasons, and may be
unreadable (the commission).  The two other ways to fail (client version, Kusama rank) take
lists of checks whose state space is beyond a run of some minutes; safety for them rests on the
theorems, and `VerdictsConverge` is not shown for them.  In `Scoring`, an event may fall
between any two of a pass's queries.  In `EraStatistics`, the lengths of the eras go
from a third of the expected one to four times it, with two layouts more: one with an era of a
sixth of the expected length, over which the search circles, and one with an expected length of 4,
whose third is a fraction.  `MaxTests` is the number of blocks after which a search counts as one
without end; with so few blocks, one that ends does so far sooner.  In `ValidatorSets`, the first
session is the last of an era, where planned and active era differ; `YoungUntil` lets searches
fail until the second era has begun; the named identities of the instance have different names,
since accounts of one name overwrite each other's record (see below), and one candidate has
an identity without a name; a session is longer than one query.  In
`BlockIndex`, the first run may find the head anywhere from block 1 to 3, so that block 1 is
the first block scanned or reached backward, and block 2 forward or backward; `Threshold = 3`
takes two blocks per run and passes below block 0 when started at an odd block; `MaxDepth = 1`
ends the descent there.

`CHECK_DEADLOCK FALSE` stands in `ProxyNomination_jobs` (after a failed first round no job runs,
and the bounded chain comes to its end), in the runs of `CandidateRegistry` (after the last start
nothing has to happen) and in `Scoring_passes` (with no valid candidate there is nothing to score).

### Fairness

Weak fairness of each job: cron starts it again and again and the event loop runs what it
started.  Of `NewBlock` and of including each transaction that stays in the pool: the chain
lives.  Of `Begin`: the process is restarted after a crash.  In `Telemetry`, weak fairness of
dials, handlers and pending writes; strong fairness of `FiveMinutes` and of the delivery of
joins and leaves, since both compete with other messages for a handler that is idle again and
again.  In `Validity`, weak fairness of starting the validity job and of going on with a run;
rounds start when they like.  In `BlockIndex`, weak fairness of the job's start, of its steps, of
the tasks it waits for (not of orphans), and of the chain.  In `StakingTx`, of rounds and of each
transaction's block, finality and callback.  In `Scoring`, `EraStatistics` and `ValidatorSets`,
of the jobs, and of eras and sessions coming to an end.  In `Runtime`, of the events of the
socket, the timers, the health check, the jobs, `start()` and restarts; and strong fairness of a
restart at an endpoint that answers, since each start orders the endpoints at random
(`ApiHandler` shuffles them), so the good ones cannot come last for ever.

Nothing is assumed about faults but their finite number: with a check that fails for ever the
old verdict stays, as `CheckCandidates.ts:165` says.

## What the properties leave out

While the models were written, these behaviours of the code turned out to be real.  Four of them
contradict a comment or a message of the repository; a run shows the first, and the models of the
other three contain what leads to them, which their properties except by name:

- A candidate that has left the configuration file stays in the database, with a null stash
  (`Registry_removed`): `deleteCandidatesWithMissingFields` asks for stashes that do not exist or
  are empty, and null is neither (`Candidate.ts:1091`), while `core/src/index.ts:146` and `:176`
  and `Candidate.ts:622` speak of removal.  `HistoryKept` accordingly says nothing of a candidate
  outside the file.
- A candidate with a connected node may be taken offline by the departure of another
  (`mixed`): `reportOffline` reads `nodeRefs` before the new node's handler has added
  its reference, and does not await its own writes (`Candidate.ts:507`), while `Candidate.ts:497`
  says that such a candidate is not made invalid.
- Over an era shorter than a third of the expected length the search for a block has no end
  (`Search` then stops at `MaxTests`), so `EraPointsJob.ts:63`, "if a record doesn't exist, create it", is not
  kept.  `ErasRecorded` is stated for eras longer than that and whole thirds (`ThirdLong`).
- An era may be stored without validators (`ValidatorsAtEra`): `getValidatorsAtEra` answers
  an empty list when it finds no block (`Validators.ts:119`), which the test of
  `EraStatsJob.ts:89` takes for validators.

The others are in the actions, and the properties above are stated so that they hold in spite of
them:

- The execution job does not read the blacklist (`ExecutionJob.ts:120`): a blacklisted
  announcement that matures before the cancel job runs is executed, where
  `docs/docs/backend/config.md:167` says it is ignored.
- A call cancelled for its commission keeps its row (`ExecutionJob.ts:99`), and the nominator
  makes no nomination while the commission stays high.
- After a lost socket the feed announces connected nodes again and a candidate's `nodeRefs`
  counts them twice; a new candidate's is null and stays so (`Candidate.ts:498`, `:400`).  The
  departure of its only node is then taken for that of one of several.
- After a restart a round may nominate again for an account whose transaction is still in the
  pool, and both land in one era (`OneNominationPerEra` excepts what `crossed`).
- `setNomination` overwrites the first row of the collection, whosever it is, where it means to
  update the one it found (`Nomination.ts:31`).
- A name that gets the slot of one record and was the name of another leaves two records of
  one slot or name (`Candidate.ts:78`); a start whose cleaning failed goes on with the old
  references (`CleanDB.ts:48`).
- A validator of a someOffline event that is no candidate ends the handler
  (`RegisterHandler.ts:21`): later candidates get no fault.
- A round filters the records it read before its own checks (`Round.ts:125`) and so may
  nominate a candidate it has just found invalid.
- Any value at a job's enabling key enables it (`StartCronJobs.ts:27`); `finished` overwrites
  `errored` at once in the status (`SetupCronJob.ts:69`); the filter of old nominators has an
  `async` predicate and keeps all (`MainScorekeeperJob.ts:48`).
- A first round that fails leaves a process without jobs (`scorekeeper.ts:293`).
- `setIdentity` looks identities up by name, so accounts of one name overwrite each other's
  record; and a candidate's identity that changed keeps its old sub-accounts until the next
  start.
- A staker paid twice in a batch gets two rows for one era, and payouts of a validator without
  commission are never recorded (`BlockDataJob.ts:383`, `:240`).

## Proofs

All proofs are checked by `tlapm` to the last leaf.  They assume the `ASSUME`s of the modules:
bounds are numbers, lists given as constants are sequences over their sets (without repetition
where they come from a query by distinct key), the eras of a chain have ascending first blocks
and elect someone, `None` and `Null` are not values of another kind.  TLC evaluates them in the
runs.  Two theorems moreover name a hypothesis on the configuration (`DistinctGroups`, no account
is configured twice; `DistinctEntries`, no file has a slot or a name twice), which nothing in the
code enforces and the runs' instances satisfy.  Nothing else is assumed: the theorems hold for any
number of nominators, slates, blocks, sessions, candidates, files, checks, endpoints, faults and
crashes.

The type invariant of each of these modules is a theorem (`TypeCorrect`, or `...Typed`), and of
them only that of `CandidateRegistry`, which says that counts do not fall below zero, is checked
in a run as well; those of `Telemetry` and `Scoring` are checked only.  Where
it is not inductive by itself (a count that must not fall below zero, a position within a list,
a variable whose meaning depends on a stage), it is proved as part of a stronger one; `IndInv`
is the inductive invariant of each module.

`ProxyNominationProofs`:

- `TypeCorrect`: `Spec => []TypeOK`, by one lemma per group of actions.
- `Inductive`: `Spec => []IndInv`.  `OnePendingPerNominator` is not inductive: a round inserts
  a row several steps after it has seen that there is none.  `RoundClear` carries that
  knowledge from `CheckDelayed` to `InsertDelayedTx`; it survives since no other process
  inserts rows and rounds do not overlap.  `SnapshotCurrent` is not inductive either: a delete
  must not hit a record still in the snapshot, for which `HandApart` (the record in hand is not
  one of those left) and the uniqueness of rows are needed.  `OnePending` and
  `SnapshotStaysCurrent` follow.
- `SendInvariant`, `ResendNeedsFault`: without a fault so far, a row that was broadcast is the
  one the job holds after sending, so it is not sent a second time.
- `KeepsPromise`: `Spec => ImplementsPromise`.  Under the mapping (block, the row of each
  nominator, the nominators whose row was broadcast) a round's insert is `Schedule`, a broadcast
  `Send`, a delete `Settle`, a block `Tick`, and every other step a stutter; `SendInvariant`
  gives each its guard.
- `RowTellsOfBroadcast`: `Spec => []RecordedWasSent`.  A nomination is recorded several steps
  after its call was sent, in an era read at the job's start; the invariant adds that this era
  is never ahead of the chain's, and `SendInvariant` that what is in hand was broadcast.

`ValidityProofs`:

- `TypeCorrect` and `ReasonsDistinct`: each of the two updates of `setCandidateInvalidity`
  keeps reasons distinct by itself, so no interleaving can break it.
- `VerdictExplained`: `Spec => []ValidIsExplained`.  Inductive with `VerdictBacked`: as long as
  a run may still set the verdict to valid (it has passed all checks so far, and its snapshot
  had reasons), there is a reason stored for each check it has made; reasons are replaced but
  never removed, and `setValid` does nothing for a snapshot without reasons.
- `PickedHasReasons`: `Spec => []PickedIsExplained`.  The verdicts a round picks by are as old
  as its start, and the records have since been written by three parties; what carries over is
  that a verdict read as valid had its reasons (`ReadIsExplained`) and that no step of anybody
  takes the type of a reason off a record (`StoredGrows`).

`StakingTxProofs`:

- `NominatedOncePerEra`: `Spec => OneNominationPerEra`, for any configuration.  A guard read in one
  step protects a transaction that lands many steps later, so the invariant says of the pool that
  transactions of one nominator that wait together have crossed (`PoolCrossed`), and that what
  waits, or is about to be sent, without having crossed another is for a nominator whose last
  nomination is of an earlier era (`PoolOld`).
- `RecordedWasSent`: `Spec => []RowsWereSent`, for any configuration.  `sent` grows and finality is
  for ever, so a row stays true, and an overwritten one becomes another true one; that a row is
  true when stored needs `InHand`: after sending, what the round has in hand is the last
  transaction sent, and it holds no block hash before.
- `ShownIsOneNomination`: `Spec => []CurrentOfOneNomination`, with `DistinctGroups`: a round that
  visits an account twice before its first transaction is in a block would send a second.  No two
  transactions whose way is not over are of one nominator, and none is of a nominator the
  round has still before it (`Apart`), unless a round was ever late.  A callback past the wipe has
  written exactly its first targets (`CallbackOK`).

`RuntimeProofs`:

- `NeverTwoAttempts`: `Spec => []OneAttempt`.  `Tied` says that an attempt is under way exactly
  when the socket is not connected, and then waits for exactly one thing, the websocket or a
  timer.  The invariant holds between actions only: `connect` and `disconnect` pass through
  states with an attempt on a socket that is not yet gone, and the lemmas about them take
  `Tied` or the weaker `Loose` to `Tied`.  `~attempt => listening` is needed since only the
  handler of "disconnected" begins an attempt for a lost socket.
- `NobodyIsForgotten`: `Spec => []NobodyForgotten`.  Every action that ends an attempt, or
  closes a socket, wakes or fails those who depend on it.  It needs the invariant above, and
  that a process that is down has no websocket (`Served`), since a crash drops callers and
  connection at once and a start makes the one before the other.

`RegistryProofs`:

- `TelemetryCountsHold`: `TelemetryNodesCounted`, for any files and any failure of the cleaning.
   A start resets the counts, or `left` has what it did not, before the process is told of nodes,
  and a count that is null while nodes are connected means that their name is a candidate's
  (`Counted`).
- `OneRecordHolds`, `HistoryHolds`: `OneRecordPerCandidate` and `HistoryKept`, for any files: an
  entry that answers to one record only updates it in place, and one that answers to two is
  remembered.
- `UpMeansConfiguredHolds`: `UpMeansConfigured`, with `DistinctEntries`.  `ClearInv` says that
  what is still active is on the list of names to clear, `AddInv` that the active records are
  those of the part of the file already handled, but for at most as many as failed; both unless
  two records collided.

`EraStatisticsProofs`:

- `TotalComesLast`: `Spec => []TotalMeansRows`.  While the job stores an era (`InHandInv`), it
  has the era's final points in hand, and a row neither stored nor lost is among those still to
  be written; the total comes when none is left.
- `KeepsLedger`: `Spec => ImplementsLedger`, every step of either job a `Draft`, a `Seal`, a `Tick`
  or a stutter.  A row is a draft only because the era in hand has no total; an era is sealed only
  once it is over.  For that, `LedgerInv` adds that the job works on eras before the one that was
  active at its start, and that only validators with points have rows.

`ValidatorSetsProofs`:

- `SeenStaysTrue`: `Spec => []SeenErasAreTrue`, a set stored from queries that fell in its era
  is the era's, and no later run overwrites it with another.  The danger is a run that read a
  planned era and then stores the validators of the session before.  `ReadInv` bounds how far
  the three queries may straddle (one session); `SeenInv` says that the eras seen were over or
  running when the job read its own, hence a straddling run writes only eras not yet seen.
- `KeepsLedger`: `Spec => ImplementsLedger`, from the same invariant and `NearInv`: what the job is
  about to store of an era are the validators of that era, of the one before, or nobody when no
  block was found.

`BlockIndexProofs`:

- `PayoutRowComesLast`: `PayoutAfterRewards`.  `TaskOK` keeps, for each task whoever started it,
  that the calls before its own are done with, and that rows its lookups found and rows of its
  earlier writes are there.
- `IndexTellsTheTruth`: `Spec => []IndexedIsRecorded`.  A block enters the index several steps
  after it was scanned, perhaps in a later run.  `ScanCovered` says that each extrinsic of the
  block the job waits for is done with or has a task of its own run, `LoopAdjacent` that the
  blocks between the index and the loop's position are recorded, even where the index could not
  be widened.
- `KeepsScanPromise`: `Spec => ImplementsPromise`.  A step of a task is a `Store` or a `GiveUp`,
  whoever waits for it; a turn of the loop is a `Widen`, by more than one block when the index could
  not be stored for a while, for which `LoopAdjacent` gives the guard.  The rest are stutters.

TLC confirms each inductive invariant on the instance of a run (that of `BlockIndex` with the blocks
near the scanned ones in place of all integers).
What all proofs keep needing about sequences (an update, an appended element, a tail, what
`SelectSeq` or a first match returns) is stated as lemmas at the head of each module.

Only model-checked: all liveness properties, since liveness under fairness and `ENABLED` are out
of the prover's reach; the safety properties of `Telemetry`; and the types of `Scoring`.
`ErasRecorded` and `ScoresCatchUp` moreover rest on what a search over blocks and a sort
compute, which would need induction over data.

## Not modelled, and the plan

What is left:

1. Proofs about `Telemetry`, whose safety properties now hold for any number of handlers but for
   the names in `mixed`.
2. An abstract specification of the candidates' records over restarts, with `CandidateRegistry`
   shown to implement it; `HistoryKept` and `UpMeansConfigured` are its steps and its state.
3. In `StakingTx`, the choice of the number of nominations from the stakes.

Not modelled: the number of nominations (one synchronous loop over the chain's stakes in
floating point; it need not end, see the hazards); session keys, preferences, locations,
nominator stakes and unclaimed eras, jobs that overwrite one value per candidate which nobody
else writes; the random factor of scores; the REST gateway (reads); Matrix, metrics, logging,
the status page, reading the configuration.
