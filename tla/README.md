# jvgy in TLA+

jvgy watches one Twitch channel: it transcribes the stream's audio, reads its
chat, asks a language model for summaries of both, posts them to Discord and
answers some chat messages, all under a daily spending ceiling. It is one Rust
process of about ten tokio tasks joined by channels. This directory models the
parts of it whose correctness depends on order, time, failure, counting or the
shape of a text, checks the models with TLC and proves the most important
properties with TLAPS.
Paths below are relative to the repository root (`src/src/...` in
`PROJECT.json`, where the repository is mounted at `src/`).

## 1. The system

`src/main.rs` builds everything, spawns the workers under
`supervisor::Supervisor`, waits for SIGINT or SIGTERM, cancels the shared token
and joins the workers.

| component | source | state | operations |
|---|---|---|---|
| cost governor | `cost.rs` | `day` mutex, `spent_micros`, `tripped` atomics | `allowed`, `record`, both through `maybe_reset_day` |
| rate limiter | `discord/ratelimit.rs` | tokens, `last` | `try_acquire_at`, `acquire` |
| aggregator | `aggregate.rs`, `aggregate/window.rs`, `aggregate/trigger.rs` | window of entries with a running token count, `manual`, `last_fire` | the five `select!` branches and `do_summary` |
| Discord output | `discord.rs` | the receiver, a limiter | `run`: receive, post, drain on shutdown |
| supervision | `supervisor.rs`, `backoff.rs`, `shutdown.rs`, `main.rs` | the join handles, each loop's backoff | `spawn`, restart loop, `shutdown_and_join` |
| stream lifecycle | `twitch/lifecycle.rs`, `twitch/hls.rs` | current status, pending confirmations, the status watch | poll, debounce, publish, notify |
| audio pipeline | `audio/pipeline.rs` and the rest of `audio/` | streamlink and ffmpeg children, VAD, chunk channel of two | `run`, `capture_loop`, `stt_loop` |
| chat ingestion | `twitch/chat.rs` | IRC connection, broadcast sender, outbound queue | `event_loop`, `send` |
| interaction engine | `interaction.rs`, `interaction/*.rs` | user registry, reply limiter, last-reply times | `handle`: greet, easter egg, reply |
| user registry | `interaction/registry.rs` | bounded map of users | `observe`, eviction |
| storage writer | `storage.rs` | three row buffers, the queue | `run`, `flush` |
| Helix client | `twitch/helix.rs` | cached application token | `app_token`, queries |
| HLS resolution | `twitch/hls.rs` | none | access token, playlist, `pick_audio_only` |
| LLM and speech-to-text clients | `analysis.rs`, `stt.rs` | none | HTTP requests, parsing, pricing |
| Discord embeds | `discord/embed.rs` | none | `chunk_text`, `truncate_chars`, `insight_payload` |
| configuration | `config.rs` | the process environment, once | `load_dotenv`, `from_env`, `normalize_channel` |
| logging, types | `logging.rs`, `types.rs`, `util.rs`, `lib.rs` | none | start-up, plain data |

### How the parts interact

* **Messages.** Chat goes out on a broadcast (aggregator, interaction, storage
  receive); transcripts on an mpsc from audio to the aggregator; posts
  (`OutMessage`) on an mpsc from aggregator and lifecycle to the output worker;
  replies on an mpsc from interaction to chat; records on a bounded queue
  (`try_send`, shed when full) to storage.
* **Shared state.** The cost governor is behind an `Arc` and is called by the
  aggregator, the STT loop and the interaction engine from different threads.
  The stream's status is a `watch`: receivers see the last value only.
* **Control.** One cancellation token. Every worker selects on it. The
  lifecycle and audio workers are supervised: whether they return or panic they
  are restarted with exponential backoff until the token is cancelled. The
  others own their receivers, are spawned once and never restarted.

### What is hard about it

* `cost.rs` uses one mutex for the day and two relaxed atomics for the rest;
  three threads call it around the ceiling and around midnight.
* `do_summary` awaits the LLM for up to a minute between rendering a prompt and
  marking its entries, fails, is retried, and runs inside a `select!` branch
  that competes with chat, timer, status and shutdown.
* Shutdown races: the output worker drains and leaves while the aggregator is
  still producing its last message; the joins have a timeout each.
* The rate limiter refills in floating point around sleeps.
* A worker that restarts loses what it believed, while the watch and the
  channels survive it.
* The chat broadcast overwrites what a slow engine has not read; the engine
  asks the governor, awaits two HTTP requests and only then spends.
* A token's life is counted from the moment its answer arrives, which is not
  the moment it was issued.
* Producers of records never wait; the storage channel, its buffers and the
  POST in flight each hold some of them when the program stops.
* Splitting, slicing and scanning text has its errors at the boundaries: empty
  text, a word above the limit, a line without its successor.

The list of hazards, each at its line with the properties that would catch it,
is `hazards` in `PROJECT.json`.

### What makes each part correct

* cost governor: the spend recorded in a day is bounded; the switch is on
  exactly when the ceiling is reached; it is reported once; a refusal is
  justified by the same day's spend; every call returns.
* rate limiter: grants over any interval are bounded by burst plus refill;
  a sleeping caller gets its token.
* aggregator: the token budget holds; every entry is summarized at most once
  and never marked without having been in a prompt; commands and overdue
  windows are acted on; the loop ends.
* shutdown: what was queued at cancellation is posted; nobody waits for a reader
  that has gone; the process exits within a known time whatever hangs.
* lifecycle: every published change is a confirmed one; go-live and go-offline
  notices alternate but for one repetition per restart; a lasting change is
  published.
* audio: captures run only while the stream is online; children never outlive
  the worker; overload sheds audio and never blocks capture.
* supervision: backoff is bounded and starts over only after a healthy run; a
  failing worker is restarted for ever, and cancellation ends the loop.
* storage: rows are posted in order and at most once; what is lost is known;
  the writer ends.
* chat and interaction: a message is answered at most once and in order; a lag
  costs only what was overwritten; paid replies go through every gate.
* user registry: bounded, and it forgets the least recently seen.
* Helix client: a token that was not withdrawn leaves the cache before its life
  ends; a dead one is replaced, by `get_stream` at once and by
  `get_users_created_at` when its time is over.
* edges: splitting a text loses nothing of it; the audio-only variant is
  preferred to any other that has a URL of its own; a harmless reply is posted as
  it is and the first balanced object of an answer is parsed; configuration means
  what is set.

## 2. Modules

| module | models | kind |
|---|---|---|
| `CostGovernor` | `cost.rs` and its three callers | specification, inductive invariant |
| `RateLimiter` | `discord/ratelimit.rs` | specification |
| `Aggregator` | `aggregate.rs`, `window.rs`, `trigger.rs` | specification |
| `Drain` | `discord.rs`, `shutdown_and_join`, the end of `main.rs`, over an instance of `Aggregator` | composition |
| `StatusWatch` | the status watch and the token that the next two share | shared state |
| `Lifecycle` | `twitch/lifecycle.rs` under the restart loop of `supervisor.rs` | specification, inductive invariant |
| `AudioPipeline` | `audio/pipeline.rs` | specification, inductive invariant |
| `LossyLog` | what `storage.rs` promises | abstract specification |
| `Storage` | `storage.rs`, its producers and the senders `main.rs` keeps | specification, implements `LossyLog` |
| `Registry` | `interaction/registry.rs` | component of `Chat` |
| `Chat` | `twitch/chat.rs`, `interaction.rs` and the two channels between them | composition |
| `Supervisor` | `supervisor.rs`, `backoff.rs` | component of `Watcher` |
| `Helix` | `twitch/helix.rs` | component of `Watcher` |
| `Watcher` | a supervised worker with the Helix client it makes for each run | composition |
| `Text` | the `str` methods that the next four use | operators |
| `Embeds` | `discord/embed.rs` | operators |
| `Playlist` | `pick_audio_only` of `twitch/hls.rs` | operators |
| `Replies` | `sanitize` of `interaction/persona.rs`, `parse_insight` of `analysis.rs` | operators |
| `Config` | `config.rs` | operators |
| `Edges` | the calls of those operators, each with what its caller counts on | specification over inputs |
| `MC_CostGovernor`, `MC_Drain` | | instances |
| `LimitsProofs` | `CostGovernor`, `RateLimiter` | theorems and proofs |
| `StreamProofs` | `Lifecycle`, `AudioPipeline` and the two together | theorems and proofs |
| `AggregatorProofs`, `DrainProofs`, `StorageProofs`, `ChatProofs`, `WatcherProofs`, `EdgesProofs` | the module each is named after | theorems and proofs |

Where a `.cfg` can give every constant its value there is no MC module.
Definitions called `X_Variant` under a `Mutant:` comment are broken versions of
`X`, listed in `PROJECT.json` with the property each violates.

### CostGovernor

One action per atomic access. `ReadClock` is the call of `current_day()`, which
comes before the mutex is taken; `SameDay` is lock, compare, unlock; `NewDay`
to `Unlock` is the critical section of a reset, with `ClearSpent` and
`ClearTripped` in either order because both stores are `Relaxed` (`pending` is
the set not yet visible); `Allow`/`Refuse` the load; `AddSpend` the
`fetch_add` and the comparison; `SwapTripped` the `swap`. `Ask`, `Answered` and
`GaveUp` stand for the callers: what they do between calls of the governor.
`Midnight` moves the wall clock. Amounts are integers; `SubMicro` grains make
a micro-dollar so that the truncation in `record` is in the model: a call cheaper
than that adds nothing, and the bound on the spend is one on what is recorded.

`charged`, `reports`, `straddled`, ... are history. `straddled` says that a
call was past its clock read when midnight struck: the code makes no promise
for the day that follows such a call, so the properties except that day, and
`cost_stuck_trip` shows what happens on it.

### RateLimiter

Exact integer arithmetic: a token is `Window` units and a tick refills
`Capacity` of them, the ratio of the code. What `f64` rounding could change is
modelled by `Slack`: a sleep may end that many units early. `Grant` and `Deny`
are the two outcomes of `try_acquire_at`; `Acquire`/`GiveUp` is a non-blocking
caller, `Sleep`/`Wake` the loop of `acquire`.

### Aggregator

State of the window and trigger as in the code; `tokens` is the running count
the code keeps, not the sum. `Push` is append, count and `evict`'s loop.
`ReceiveChat`, `ReceiveTranscript`, `StatusChanged`, `TimerTick`, `ShutDown`
are the branches of `select!`; `do_summary` is cut at its awaits (`asked`,
`notice`, `insight`), `Return` is what the calling branch does after it. The
governor's answers are free choices here. Time is relative: an age saturates
one past `MaxAge`, `sinceFire` at `Interval`, so the state space is finite
without a clock. `told` counts the successful summaries an entry was in and is
history.

### Drain

All of `Aggregator` (instance `A`), the output worker (`Receive`, `Post`,
`StartDrain`, `TryReceive`, `Drained`, `ChannelClosed`, `Leave`), the lifecycle
worker as the writer of the status and the other sender (`Lifecycle`), the other
workers, which may end at any time after cancellation or never, and `main`, which
awaits the handles in the order they were spawned with a fresh timeout each.

That `try_recv` finds nothing (`Drained`) and that the receiver is dropped on
return (`Leave`) are two steps. A message sent between them is accepted and
lost: `BacklogPosted` promises only what was queued at cancellation.

### Lifecycle

The supervised loop is `Spawn` (fresh locals), `Panic`, `BackoffOver` and
`Stop`; the worker's iteration is `PollSucceeds` (one of `Agree`, `Doubt`,
`Change`) or `PollFails`, then `Notify` if an announcement is wanted, then
`Wake`. `run` returns no error, so a panic is the only way a restart comes
about. `live` is what Twitch reports and flips at any time. History: `streak`
counts the successful polls in a row that said the same; `repeats` counts
announcements that said what the one before them said.

A restarted worker takes the stream to be off while the watch may say online.
If the stream has really ended meanwhile, its polls agree with it and offline
is never published. The second half of `StatusPublished` therefore excepts
restarts; the first half, for a stream that is on, needs no exception.

### AudioPipeline

`run` (`at`), `capture_loop` (`capture`) and `stt_loop` (`stt`) with an action
per await or branch. The watch is its latest value and, for each of the two
receivers, whether the latest version is unseen; a clone copies that bit, and
`borrow` does not clear it. Child processes are the set `running`: they may
exit at any time, a start may fail after the first of two has succeeded, and
nothing makes a child exit but a kill. Looking at the watch, creating the
tasks and waiting are separate steps, so a status change may come between any
two of them.

`status` and `shutdown` are declared in `StatusWatch`, which `Lifecycle` extends
too, and they have no other variable in common. The conjunction of their
specifications is therefore the two workers in one program: a step that changes
the watch is the lifecycle's `PollSucceeds` and the pipeline's `Publish` at once.

### LossyLog and Storage

`LossyLog` is what producers may count on: rows of a table are posted in the
order they were offered, each at most once, in batches of bounded size, and
none once the log is closed. It says nothing of which rows are posted.

`Storage` is the writer: `Offer` is a producer's `try_send`, `Cancelled`,
`Tick`, `Recv` and `Closed` the branches of `select!`, and a flush is cut at
its POST (`Flush` takes the buffer, `Answer` is any outcome of the request).
`flush_all` posts table after table, so `todo` holds the tables still to post
and `IsNext` their order. A record is its table and its number. `senders` says
who still holds the channel open: `main` keeps `store_opt` until it returns,
so `Closed` is never the way the loop ends while the program runs. `Exit` is
the end of the process, which drops the task wherever it awaits. The refinement
maps `closed` to "the loop has ended or is gone" and the rest by name.

### Registry and Chat

`Registry` keeps of a profile what decisions depend on: when the user was last
seen and whether the account's age is known. `Observe` is the update with the
eviction before it; ties of `last_seen` are a free choice.

`Chat` joins the chat worker (`Receive`, `Say`, `ChatEnds`) to the interaction
engine by a broadcast that keeps `Cap` messages (`sent` and `pos` are enough to
say what is kept) and by the outbound channel `out`. `Handle` is everything the
engine does with a message up to its first await: observe, remember, easter
egg, gates; it then awaits the age request (`AgeAnswer`), the reply
(`ReplyAnswer`) or, from the timer, a proactive post (`ProactiveAnswer`). Who
wrote a message and what it says are chosen when it is handled. The governor
is the variable `tripped`, which other workers may set and midnight clear at
any time. The chat worker's own send is one step, since nothing in its loop
depends on the outcome.

### Supervisor, Helix and Watcher

`Supervisor` is the restart loop of one worker: `Exited` (return, error and
panic alike), the sleep with its jitter as any delay between half and all of
the capped exponential, `Restart`, and the two ways out. `attempt` saturates
like `saturating_add`, the exponent and the delay at their caps. `failures` is
history and does not saturate with them.

`Helix` is the token cache. A token's life runs from the moment it is issued
and the client's count from the moment it arrives, as in the code; either request
lasts at most the client's timeout. A token that has just arrived is used
whatever is left of its life, so only tokens from the cache (`source`) have the
margin's protection. `Revoke` withdraws one; `Refused` is a 401, which clears the
cache for `get_stream` only.

`Watcher` composes them: the worker makes a new client for every run, so
`Exits` is the worker's end and the client's at once, and `Tick` passes time
for both.

### Text, Embeds, Playlist, Replies, Config and Edges

Pure functions, as operators over short sequences of tokens, without
`RECURSIVE`. `Edges` calls each with every input up to its bound; a state is one
call with its result, and each property compares results with a definition that
does not use the loop that computes them. `Text` is external: it is what the
library's methods do. In `Config` one variable stands for all that are read
alike, in the code's order.

## 3. Runs

| run | states | question | result |
|---|---|---|---|
| `cost` | 357,044 | two workers, three days, bills of 0, 1 and 5 grains | ceiling, switch, single report, refusals, termination hold |
| `cost_stuck_trip` | | does a tripped switch always stand for a ceiling reached? | no: `TripMeansCeiling` fails |
| `rate` | 8,389 | the limiter with early wake-ups | bound and liveness hold |
| `aggregate` | 191,240 | the whole loop with texts of 1, 3 and 5 tokens in a budget of 4 | all hold |
| `drain` | 514,961 | from start to exit, workers may hang | all hold |
| `drain_final` | | does the final summary reach Discord? | not always: `FinalSummaryPosted` fails |
| `lifecycle` | 12,998 | three confirmations, failing polls, two panics, every configuration | all hold |
| `audio` | 2,422 | three media modes, flickering status, dying children, slow provider | all hold |
| `storage` | 79,644 | three tables through a full channel, failing inserts, cancellation, exit | all hold, and `Storage` implements `LossyLog` |
| `chat` | 311,747 | three users and three messages, lag, failing calls, trips by others | all hold |
| `watcher` | 63,876 | restarts through every saturation, tokens with lives around the margin, withdrawals | all hold |
| `edges` | 117,957 | every short text, playlist, insight, answer, environment and channel | all hold |

What the passing runs check, property by property:

* `DailySpendBounded`, `KillSwitchExact`, `OneReportPerDay`,
  `RefusalJustified`, `CallReturns`: the spend of a day stays below the ceiling
  plus one bill per worker, the switch is on exactly when the ceiling is
  reached, one caller is told, a refusal has its reason, no call is stuck.
* `RateBound`, `AcquireReturns`: grants over any interval are at most a full
  bucket and its refill; a sleeper gets its token.
* `WindowBudget` (with the types), `SummarizedOnce`, `DueAttempted`,
  `LoopEnds`: the running count is the sum, the window is ordered and within
  its budget; an entry is marked exactly when one successful prompt had it; a
  command and an overdue window are acted on; the loop ends.
* `DrainBounded`: joining lasts at most one timeout for each worker.
  `BacklogPosted`: what was queued at cancellation has been posted when the output
  worker is about to return, and once it has nothing is left in an open channel.
  `ProcessExits`.
* `ConfirmedChange`, `NoticesAlternate`, `StatusPublished`, `LoopEnds` of the
  lifecycle.
* `NoOrphans`, `NoLostWakeup`, `CaptureStops`, `Recaptures` of the audio worker.
* `RowsAccounted`: an accepted record is in exactly one place, and posted,
  buffered and queued records are in order; the buffers stay below `BATCH`, so
  the drop-oldest at `MAX_BUFFER` is never reached. `LogImplemented`,
  `AcceptedPosted`, `WriterEnds`.
* `AnswersInOrder`: the replies sent and waiting answer messages in the order of
  the chat and each at most once. `LagLosesOldest`: a slow engine loses only
  what was overwritten. `LeastRecentForgotten`, `OneCallAfterTrip`,
  `EngineFollows`.
* `BackoffHonest`: the wait follows `base * 2^failures`, capped, through every
  saturation. `CacheHonest`: unless it was withdrawn, a token is taken from the
  cache only within its life; it may die while a request is made with it only if
  that request and the one which fetched it together exceed the margin; and a
  dead one costs `get_stream` one poll. `StaleRunsOut`,
  `LoopGoesOnUntilCancelled`.
* `ChunksFaithful`: splitting loses no character and breaks no word that fits, and
  a summary is cut only behind the last embed a message may have.
  `AudioPreferred`: the URL returned is that of the first audio-only variant which
  owns one, else of the last owner. `AnswersUsed`, `ConfigFaithful`.

The type invariants of `Aggregator`, `Drain`, `AudioPipeline`, `Storage`,
`Chat`, `Supervisor` and `Helix` are conjuncts of one of these; those of the
governor, the limiter and the lifecycle, and their inductive invariants, are
proved and need no run.

### Where code and documentation differ

Two runs find a violation of a sentence of the documentation; `findings` in
`PROJECT.json` quotes it.

* `cost_stuck_trip`: a reset between `fetch_add` and `swap` leaves the switch
  on with no spend: everything paid stops until the next midnight.
* `drain_final`: the output worker drains what is queued when the token is
  cancelled; the aggregator's last summary is usually still being written and
  is lost.

In three places a passing property states what the code does where a sentence of
the repository says more; that sentence is false of the program:

* Exit in time. "`Ctrl-C` (or `SIGTERM` in a container) triggers a graceful drain:
  stop ingestion → final summary → kill subprocesses → exit within
  `SHUTDOWN_TIMEOUT_SECS`" (`README.md:60-61`, likewise `DEPLOY.md:106-107`), and
  "wait for their supervision loops to finish, bounded by `timeout`"
  (`supervisor.rs:90-91`). `shutdown_and_join` gives each handle a timeout of its
  own, so workers that hang add up. `DrainBounded` is the bound the code keeps,
  one timeout for each worker; `drained <= Timeout`, the promise, fails in the
  model as soon as two of them hang.
* Whole summaries. "Split a long summary across multiple embeds (Discord:
  4096/embed, ~10/msg) instead of truncating" (`discord/embed.rs:109-110`), but
  `take(8)` drops what is beyond eight embeds. `ChunksFaithful` allows exactly
  that cut, which the run has: six characters with a blank among them may need a
  third piece, and the model's messages have room for two.
* Audio only. "return the `audio_only` media-playlist URL, falling back to the last
  variant URL if no audio-only rendition exists" (`twitch/hls.rs:106-107`). The
  search for a variant's URL skips every line that begins with `#`, other variants'
  tags among them. So of the playlist `video, audio, url, video, url` the first URL
  counts as the video's, the audio tag is never looked at and the last URL, a
  video's, is returned. `AudioPreferred` says for every playlist which variant a
  URL is taken to belong to and what follows.

Others were read off the code while modelling and have no run of their own:

* `cost.rs:59`: a caller that reads the date, is delayed across midnight and
  then takes the mutex sets the day back and wipes the spend of the new day.
* `audio/pipeline.rs:254`, `interaction.rs`: only the aggregator posts the
  kill-switch notice; a trip that STT or the interaction engine causes is not
  announced, though `DEPLOY.md:108-109` reads as if every one were.
* `analysis.rs:93`, `audio/pipeline.rs:263`: an insight that does not parse and
  a blank transcript are billed but not recorded, against `cost.rs:1`.
* `window.rs:64`: the window's age limit is enforced on push only, so after a
  quiet spell a prompt may hold entries of any age, against `window.rs:1-2`.
* `main.rs:52`: `store_opt` keeps a storage sender until `main` returns,
  although `main.rs:229` drops the others "so channels close once workers exit".
* `storage.rs:3`: "drop-oldest", but the bounded channel sheds the newest and
  `MAX_BUFFER` is unreachable (`RowsAccounted`).
* `interaction.rs:8`: every send is said to be gated by the governor; the easter
  egg is not, as it costs nothing.
* `discord/embed.rs:91`: the mood field alone is not truncated.
* `interaction/persona.rs:80`: a command behind a tab survives, and a doubled
  `@` keeps a mass mention; `AnswersUsed` says exactly when.
* `analysis.rs:136`: "first balanced object", but the slice goes to the last
  closing brace.
* `config.rs`: a blank numeric variable stops the start; a line `=value` in
  `.env` panics.
* `helix.rs:122`: `get_users_created_at` keeps a token after a 401, so it fails
  until the token's time is over or `get_stream` clears it (`StaleRunsOut`).
* `twitch/chat.rs:156`, `aggregate.rs:65`: a branch on a closed channel is
  always ready and the loop spins.

### Bounds, and why they are enough

* `cost`: two workers show every race of two calls (the steps of a third
  commute with one of them or repeat a race); the proofs cover any number.
  Three days allow a caller to be two resets behind. The second
  bill of 2 reaches the ceiling of 4 exactly and one already under way passes
  it.
* `rate`: `N` is 3 and does not divide the window of 7; the proof covers all.
  `MaxAge` is longer than two windows, so burst and refill both fall into one
  measured interval.
* `aggregate`: a budget of 4 with texts of 1, 3 and 5 makes up to four entries,
  evictions of several at once and a text above the whole budget. `MaxAge` 1
  gives ages below, at and above the limit. `Interval` 2 leaves a tick that
  must not fire. `OutCap` 1 makes the sender wait; `MaxOwed` 1 bounds only how
  many ticks a long await may owe.
* `drain`: the window is as small as it can be (one entry), because the
  aggregator has its own run; one other worker, three handles, one tick of
  timeout: a join that ends by return, by timeout, and the sum of several.
* `lifecycle`: with three confirmations a change can be doubted, doubted again,
  and dropped or confirmed; two restarts show that a second one costs no more
  than the first. The proofs cover any number of both.
* `audio`: the only bound is the code's own channel of two; the state space is
  the model's complete one.
* `storage`: two records of each of three tables fill the channel of two, and a
  buffer of two is full with the second; `MaxBuffer` 3 is above the batch as in
  the code. The refinement is proved for all sizes.
* `chat`: a broadcast that keeps one of three messages lags by one and by two;
  a registry of two evicts with the third user; a bucket of one refuses the
  second call; an outbound channel of one drops the second reply. A context of
  two drops its oldest.
* `watcher`: with a base of 1, a cap of 6 and an exponent cap of 3 the delay
  saturates before the exponent and the exponent before the counter (5), and
  failures go beyond all of them. Lives of 1, 4 and 5 with a margin of 2 are
  below the margin, and above it by as much and more; a request may take the
  whole timeout of 2.
* `edges`: six characters with a limit of up to 3 give words below, at and above
  the limit, in any order with blanks; two embeds of three leave text over;
  five lines hold two variants with and without a URL; two lines of a file may
  name one variable twice.

### Fairness

* `CostGovernor`: a thread inside a call is scheduled (`WF` of its steps). That
  it gets the mutex is not assumed for a holder that never releases it: weak
  fairness is of the whole call, and `CallReturns` would fail if `Unlock`
  could be blocked. Requests, answers and midnights are not fair.
* `RateLimiter`: time passes; a timer that is over wakes its task.
* `Aggregator`: `select!` picks at random among ready branches, hence strong
  fairness of the timer, status and shutdown branches; chat and transcripts
  need none. The HTTP client times out after 60 seconds (`main.rs`), hence weak
  fairness of `LlmFails \/ LlmAnswers`. tokio's mpsc queues waiting senders
  fairly and the output worker receives until it closes, hence strong fairness
  of the sends and weak of `TakeOut`.
* `Drain`: only the main task and time are fair. No worker is assumed to make
  progress, which is the point of the timeout.
* `Lifecycle`: timers fire, requests time out after 60 seconds, the output
  channel makes room or closes; `Stop` competes with a sleep in `select!` and
  is strongly fair. That polls succeed is a premise of `StatusPublished`, not
  an assumption.
* `AudioPipeline`: the tasks are scheduled; the branches of the capture's
  `select!` are strongly fair each, since it picks at random among those ready;
  the provider's requests time out. Children are not assumed to exit.
* `Storage`: a POST answers or times out (`WF` of `Flush` and `Answer`);
  `select!` is random (`SF` of `Cancelled`, `Tick`, `Recv`). Producers, `main`
  and the operator owe nothing, and the process may exit at any time after
  `main` has returned.
* `Chat`: requests time out; the branches of both loops are strongly fair each,
  but the chat worker ends only after cancellation. New messages, lag, trips
  and the timer of proactive posts are not fair.
* `Watcher`: a request ends within its timeout, timers fire, time passes; the
  worker sees a cancelled token between two requests. That it fails, succeeds
  or panics is not assumed.
* `Edges` has no behaviour beyond one call.

## 4. Proofs

| theorem | says | for |
|---|---|---|
| `SpendBounded`, `SwitchExact`, `SingleReport`, `RefusalsJustified` | the governor's four safety properties | any workers, prices, days |
| `RateBounded` | the bound on grants | any capacity, window, slack |
| `ChangesConfirmed`, `NoticesAlternating`, `WatchAgreement` | the lifecycle's | any confirmations, restarts |
| `NothingOrphaned`, `NoWakeupLost` | `NoOrphans`, `NoLostWakeup` | every mode of the pipeline |
| `CaptureFollowsWorker` | a capture that goes on has a wake-up coming when the lifecycle worker, not restarted, takes the stream to be off; and so does a pipeline that waits for a stream that is on | both workers in one program |
| `SummarizedAtMostOnce`, `WindowWithinBudget` | `SummarizedOnce`, `WindowBudget` | any texts, budget, limits, intervals |
| `JoinsBounded`, `BacklogAlwaysPosted` | `DrainBounded`, `BacklogPosted` | any workers, timeout, aggregator |
| `WindowKeptInProgram` | the aggregator's two invariants in the whole program | the same |
| `ImplementsLog` | refinement: `LogImplemented` | any capacity, batch, number of records |
| `RowsAlwaysAccounted` | `RowsAccounted` | the same |
| `OneCall`, `ForgetsLeastRecent` | `OneCallAfterTrip`, `LeastRecentForgotten` | any users, capacities, chat |
| `RepliesInOrder`, `OnlyOldestLost` | `AnswersInOrder`, `LagLosesOldest` | the same |
| `CacheAlwaysHonest` | `CacheHonest` | any lives, margin, timeout, backoff |
| `BackoffAlwaysHonest` | `BackoffHonest` | any base, caps, number of failures |
| `ChunksAlwaysFaithful` | `ChunksFaithful` | summaries of any length, any limits |
| `AudioAlwaysPreferred` | `AudioPreferred` | playlists of any length |
| `AnswersAlwaysUsed` | `AnswersUsed` | answers of any length |
| `ConfigAlwaysFaithful` | `ConfigFaithful` | files and channels of any length |

Each proof has an invariant that is inductive: it holds in the initial states,
every action keeps it, and it implies the property. TLC was used to find the
invariants; `tlapm` checks the three facts for every value of the constants,
under the assumptions named in the modules (sizes are natural numbers, some
positive; `MaxBill` bounds the bills; the margin is at least the timeout;
`Batch < MaxBuffer`; the exponent's cap reaches the delay's), which TLC
evaluates in the runs. With the properties go the types: every type invariant
(`TypeOK`, `RateTypeOK`, `AudioTypeOK`, ...) is proved, alone or as a part. So
every safety property that a run checks is also a theorem.

**Induction.** Sums over the window, the rows of a table in the channel and the
powers of two of the backoff are recursive functions. `SetInduction` is
induction on the natural numbers for a set, from the well-foundedness of `<`.
With it a lemma shows that a function with the defining equations exists
(`SumsExist`, `SelectsExist`, `PowersExist`), a second that the model's
`CHOOSE`n one is equal to any such (`TokensOfIs`, `RowsOfIs`, `ShiftedIs`), and a
third gives what the proofs use: what one more element at the end adds and what
the first one takes away (`SumAppended`, `SumSplits`, `RowsOfAppend`,
`RowsOfTail`). Where the model itself is a loop, `LoopExists` in `EdgesProofs`
does the first step once for all loops over an input.

**Governor.** None of the safety properties is inductive alone. `IInv` adds:

* `ClockInv`, which always holds: no one has read a day that has not come, and
  a store is pending only while somebody resets;
* for a day that no call straddled, `DayInv` (every call in flight works on
  today; the one that resets is alone past the mutex), `SpentInv` and
  `ReportInv` (what the cells hold is what was charged and reported since
  midnight, or nothing has been when the cell is stale), `SwitchInv` (a reached
  ceiling has tripped the switch or somebody is about to) and `LateInv`.
* `LateInv` is the heart of the bound: a worker whose charge reached the
  ceiling cannot charge again before asking, and when it asks the switch is
  on. So each worker overshoots at most once and the excess is below one bill
  per worker.

A midnight that nobody straddles makes every cell stale (`day # today`), which
satisfies all parts at once; the first caller's reset makes them fresh, alone
past the mutex.

**Limiter.** `Account` is the inductive form: what was granted, what is left and
what is still to be refilled come out of a full bucket and the time elapsed.

**Lifecycle.** `PendingInv` says that what is pending are successful polls in a
row that disagreed, so a confirmed change has a long enough streak behind it;
`NoticeInv` says what the next announcement would be and that one which repeats
the last has a restart to pay for it, which a panic provides; `BeliefInv` ties
the watch to the worker.

**Pipeline.** `ChildrenInv` says where in `capture_loop` which child may run and
that both tasks have ended before `run` looks at the status again. `WakeupInv`
adds to `NoLostWakeup` that a look at the watch which found it online or
offline is still right or has left the version unseen: the clone for the
capture inherits that bit.

**Stream.** `CaptureFollowsWorker` conjoins the two: the lifecycle's
`WatchAgrees` (the watch says what the worker believes) is about the same
variable as the pipeline's `NoLostWakeup` (what the watch says has been seen or
will be), and no step of either is needed beyond its own proof. Its first half
holds after any number of restarts; the second excepts them, as a restarted
worker may believe in an ended stream that the watch still has on.

**Aggregator.** `BudgetInv` joins the types, the running count as the sum of the
window and the order by age. A push adds its estimate to both; eviction drops a
prefix and takes off the count exactly that prefix's sum, so the saturating
subtraction never saturates and what remains is within the budget, whichever
of age and tokens made it stop. `PromptInv` is nearly `SummarizedOnce` itself; the work is in
its lemmas. `EvictedInRange` shows that eviction stops, at the latest with an
empty window (a least such point exists by the well-foundedness of `<`),
`PushKeeps` that it takes from the front while the new entry is unmarked at the
end, `MarkKeeps` that an answer marks what its prompt had, which needs that the
prompt still has all that is unmarked: no branch of `select!` runs while the
request is awaited.

**Drain.** `JoinInv`: what has been waited is at most a timeout for every handle
behind and the present wait. `QueueInv`: what was queued at cancellation is
among what is queued until the worker has found the channel empty, and only its
return closes the channel. Every action of the composition is one of the
aggregator's or leaves its variables alone (`StepsOfAggregator`), so `DrainProofs`
instantiates `AggregatorProofs` and cites its step lemmas for the composition's
steps: nothing about the window is proved twice, and `BacklogPosted` gets its
aggregator's types from there.

**Storage.** `LogInv` orders each table's rows across the three places they may
be in, each row being `Behind` whatever is still queued or yet to be offered,
and says that a full buffer is about to be posted and an empty one is not. So
a `Flush` appends at least one and at most `Batch` rows, all newer than those
before; every other step leaves `posted` alone and at most closes the log.
`RowsInv` adds where every row is: `Pieces` is the equation of `RowsAccounted`,
which each move of a record keeps by the associativity of concatenation, and
`Posting` says that a summary is always about to be posted and that the last
flush asks for every buffer. That `push_bounded` only appends needs `LogInv`:
at `select!` a buffer is below `Batch`, so below `MaxBuffer`.

**Chat.** `CallInv`: after an overrun the switch is still on and no request is
under way that had its leave before. `RegistryInv`: nobody spoke after the last
message, and whoever is forgotten was outlived by a full registry. `ReadInv`:
what was handled are positions in increasing order, of which only those that
left the broadcast are missing, and the context is their end. `ReplyInv`: a
message that the engine is working at is the last it read and has no answer
yet, so its answer goes behind all others, whichever of them the chat worker
has said by then.

**Watcher.** `TokenInv`: a token on its way has lost at most the time waited for
it, which the timeout bounds and the margin covers; once stored, the client's
count and the token's life go down together. They stay apart by the margin less
what the token's own request took (`SpareInv`), and so long may a request made
with a cached token last before the token dies. `BackoffInv`: the counter is one
ahead of the failures until it saturates; by then the exponent has reached its
cap and the delay its own, beyond which doubling changes nothing.

**Edges.** A loop of the code is a recursive function of how much of the input
has been gone through, and its proof has the shape of a proof of a loop: a
lemma that the function has its equations (`VisitingLines`, `LoadingLines`,
`KeepingChars`, `SplittingText`, `Spreading`, `Chunking`), an invariant
(`PickedInv`, `LoadedInv`, `KeptInv`, `SplitInv`, `Held`) with a lemma for one
turn, and what it says at the end. What a text becomes is followed by positions:
`Within` says that one text is found in another after so many characters, and
trimming, taking and splitting each give such a part, so that a statement about
the result is one about characters of the input.

* `AudioPreferred`: what is chosen so far is the URL of the last owner visited, or
  of the first audio owner once there is one; the variants visited are exactly
  the owners, as the scan goes on behind the URL it has found.
* `ConfigFaithful`: a variable set so far is the process's, or the first of the
  file's lines that name it; the channel's forms are taken apart from the left,
  each part being stripped or absent.
* `AnswersUsed`: what is kept so far has a mention only where the line has two
  `@` in a row; the slice parsed is the text from one brace to another.
* `ChunksFaithful`: `Laid` puts pieces behind one another on the text, and
  `Parted` says that the words are such pieces, cut at the blanks. `Held` says
  that the pieces put out are laid from the beginning, each for a reason
  (`Fits`), that the current piece follows them, and that it ends where the
  words read so far end. The reasons are about the next word, which is not read
  when a piece is put out, so `WordAtIs` finds it from the position alone.

Left to TLC: every liveness property, as what depends on fairness is out of the
provers' reach (`CallReturns`, `AcquireReturns`, `DueAttempted`, the two
`LoopEnds`, `ProcessExits`, `StatusPublished`, `CaptureStops`, `Recaptures`,
`AcceptedPosted`, `WriterEnds`, `EngineFollows`, `StaleRunsOut`,
`LoopGoesOnUntilCancelled`).

## 5. Plan

1. (done) cost governor, rate limiter, aggregator, shutdown, lifecycle under
   its supervisor, audio pipeline; proofs of the governor, the limiter and the
   lifecycle.
2. (done) supervision and backoff with the Helix client; storage with its
   abstract log and the refinement; chat, broadcast with lag, interaction gates
   and the user registry; the text algorithms and the configuration.
3. (done) proofs of the aggregator's summaries, of the drain, of the storage's
   refinement, of the token cache, the registry and the call after a trip.
4. (done) proofs of the window's budget, in the program as well, of the backlog,
   the accounting of rows, the order of replies, the cost of a lag and the
   backoff.
5. (done) the lifecycle and the audio pipeline over one status watch, with the
   pipeline's invariants proved and what follows for the two together.
6. (done) proofs about the text algorithms and the configuration.

What would come next: the lifecycle and the pipeline in one run, for a liveness
property across both: a lasting change of the stream ends or starts a capture.

Runs are kept few: each module gets one passing run with all its properties.

## 6. Not modelled, and why

* Voice activity and WAV (`audio/vad.rs`, `audio/wav.rs`): floating-point energy
  of samples and a fixed header; no state a property could be about.
* Logging and types: set-up and plain data.
* LLM and STT clients, and the HTTP requests of HLS resolution: HTTP and JSON.
  Their outcomes (answer, failure, billed but unusable, no playlist) are choices
  of the callers' models. `parse_insight` and `pick_audio_only` are modelled.
* The go-live and offline payloads of `embed.rs` and the prompts of
  `persona.rs`: wording and layout.
* The signal handlers and the construction of the workers in `main.rs`.
* twitch-irc: reconnecting and refreshing the bot's token are the library's.
* The wall clock going backwards: `maybe_reset_day` compares for inequality, so
  the day resets; the code promises nothing for it.
* Floating point in the rate limiter other than the early wake-up.
* Processor time: two `select!` branches that are always ready once their
  channel is closed (`aggregate.rs`, `twitch/chat.rs`) spin without a change of
  state; no property over states sees them.
