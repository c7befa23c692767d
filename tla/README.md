# Minh-Kit-Hehe in TLA+

Minh-Kit-Hehe is a Go library for services (lifecycle, workers, Kafka, rate
limits, transactions, encrypted columns, servers) with a code generator for
service skeletons. This directory models the parts that are concurrent, that
fail half way or that depend on time, checks them with TLC and proves the most
important results with TLAPS. Paths below are relative to the repository.

## Inventory

| part | state | operations | what is hard about it |
|---|---|---|---|
| `lifecycle/lifecycle.go` | components, wait group, signal and stop contexts | Register, Run | concurrent stops under one deadline, signals and cancellations at every point, failing starts |
| `lifecycle/group.go` | list of children | Start, Stop | errors and hanging children in the middle of a sequence |
| `worker/main.go` | cancel function, wait group | Start, Run, Stop | handlers that never end, a second Start |
| `kafka/consumer_component.go`, `kafka/kafka.go` | run context, consumer group, session, offsets | Start, Stop, consumeLoop, ConsumeClaim, Close | crashes, rebalances and commits between handler and mark; sleeps against cancellation |
| `kafka/producer_component.go`, `kafka/kafka.go` | producers by name, two goroutines | InitAsyncProducer, SendMessageAsync, Start, Stop, Close | sends against Close, nobody reading outcomes |
| `ratelimit/grpc.go` | tokens, lastRefill | Take | rounding, time |
| `ratelimit/multi.go` | rules, buckets by key (memory or Redis) | Limit, ResetLevelRateLimit | concurrent first requests, several levels, Redis failing in between |
| `transaction/transaction.go` | transaction in the context, connection pool | BeginTransaction and its end function, Commit, Rollback | panics and errors through `defer`, nesting, lost commits |
| `gorm/driver/securestring`, `kms` | text and its encryption, data and master keys | Scan, Value, String, Encrypt, Decrypt, ReEncrypt | lazily cached text, values scanned again, columns rewrapped late |
| `db/rds_mysql_driver.go` | token, TLS error | NewDriver, rotation, Open | retries that must fit into a validity |
| `server/main.go` | two servers, shutdown functions | Run, the end function | parallel shutdowns, `Fatal` in one of them |
| `kafka/metrics.go` | adapters per registry and global, two locks | GetOrRegister, Unregister | names, kinds and clients that meet in one registry after sanitising, a panic under a lock |
| `metrics/metrics.go` | custom metrics, server | AddCustomMetric, RemoveCustomMetric, Start, Stop | a registry shared with others, a goroutine that comes late |
| `db/session_guard_plugin.go`, `db/database.go` | pool, plugin flag | New | pool limits |
| `cron`, `redis`, `attributes`, `workflow/temporal` | schedulers, clients | Start, Stop, lookups | retries, missing values |
| `internal/command` | files of the generated service | new, implement, gen, clean, model | repeated and interrupted runs over edited files |
| `internal/template/service-kit` | infrastructure, components, both servers | infra.New, main, Start and Stop of the servers | concurrent stops of what depends on each other |
| `logger`, `tracing`, `client`, `secrets`, `response_wrapper`, `base_service`, `utils` | configuration | constructors | nothing that a model tells more about than the code |

How they interact: a service registers its servers, consumers, workers and
clients with one `Lifecycle`, which calls their Start in order and their Stop
concurrently; a `Group` is a component made of components. Consumers use the
consumer groups of the `KafkaClient`, which is itself a component, so that its
Close runs beside their Stop. Handlers use transactions and encrypted columns
over one pool of connections, which the RDS driver opens with its token.

The hazards of this code, each at its line and with the properties that would
catch it going wrong, are listed in `PROJECT.json`.

## Modules

Each module names the files it is translated from in its head comment; the
exact lines of each definition are in `PROJECT.json`. Operators whose comment
begins with "Mutant" are altered versions of the definition after them; no
specification uses them. They show that the properties can fail.

| module | models | state and actions |
|---|---|---|
| `Component` | the `Component` interface | abstract: a component is started once, stopped only if it started, and then one result comes back |
| `Service` | a generated service | the composition: `infra.New`, then `Lifecycle` over a database client, a `Group` (any component, `MetricsServer`, `Worker`), a gRPC and an HTTP server; where each request is |
| `Lifecycle` | `Lifecycle` | `pc`, `i`, `wg` are Run's control state; one action per step of its two loops, per goroutine step and per event (signal, cancellation, tick) |
| `Group` | `Group` | the loop index and the state of each child; the result of each child is nondeterministic |
| `Worker` | `Worker` | one state per goroutine of each batch, the contexts that are done, the wait group |
| `MetricsServer` | `Metrics` as a component | `m.server`, the goroutine that serves, service_up |
| `KafkaConsumer` | consumer component, loop, claim | broker offsets, the loop's position, the session; a crash keeps the broker's state only |
| `KafkaProducer` | asynchronous producer and component | the producer's state and where each message is |
| `TokenBucket` | `TokenBucket` | tokens and lastRefill with an integer clock, beside two reference buckets |
| `RateLimit`, `MCRateLimit` | `MultiLevelLimiter` | where each request is, the buckets; rules and requests are constants that `MCRateLimit` defines |
| `Transaction` | `Transaction` over the pool | frames (request, depth), how their work ended, their transaction |
| `SecureString` | driver and envelope encryption | the column, the values handlers hold, the keys, what a caller of ReEncrypt has yet to write back; ciphers are symbolic |
| `RdsToken` | the RDS driver | where the rotation is, the age of the token, how long AWS has answered |
| `Server` | `Server.Run` | both servers, both shutdowns, every request, whether an HTTP connection is unused, and why the process was ended |
| `PromRegistry` | `kafka.PromRegistry` | Prometheus' collectors and help texts, the shared adapters, each registry's map, both locks, where each goroutine is in GetOrRegister |
| `Metrics`, `MCMetrics` | custom metrics beside the adapters | the map of custom metrics; extends `PromRegistry` |
| `Scaffold` | `new`, `implement` | the files they write, as what is known of them: RPCs, methods, module paths; the step the command is at; a service name is a sequence of pieces, the template's two placeholders among them |
| `ProtoGen` | `gen`, `clean` | the swagger files as the number of wrappers, the output directories; protoc is external |
| `ModelGen` | `model` | the SQL file's lines, the model and store files, what main.go wires; a word of a table's name is the abbreviation it begins with and the rest |
| `CodeGen`, `MCCodeGen` | the code generator | composes the three over one `cmd`; `new` writes files of all of them; flags, tables and SQL files are constants that `MCCodeGen` defines |
| `ServiceProofs` | | theorems about `Lifecycle`, `Group`, `Worker`, `MetricsServer` and the whole service |
| `KafkaProofs` | | theorems about `KafkaConsumer`, `KafkaProducer`, `PromRegistry` and `Metrics` |
| `DatabaseProofs` | | theorems about `Transaction` and `RdsToken` |
| `CodeGenProofs`, `TokenBucketProofs`, `RateLimitProofs`, `SecureStringProofs`, `ServerProofs` | | theorems about the module each one extends |

What is outside `src/` (sarama and the broker, database/sql, Redis, AWS, gRPC
and net/http, signals, time) is modelled from how the code uses it, as weakly as
that allows, and marked external in the map.

Abstractions that matter:

- `Lifecycle`: time passes only while Run stops; registration precedes Run.
- `Service`: main's context is never cancelled, as in the template, so that
  `Cancel` is a step of `Lifecycle` (and of its proofs) only. Redis and Kafka
  clients as components close like the database and are left out. The group
  is not in the template; it stands for the components its comments suggest.
  A handler uses the database once, at its end.
- `PromRegistry`: a name is its base and a separator. A panic ends the call, as
  where a server recovers; otherwise it ends the process. One goroutine adds
  and removes custom metrics, whose map has no lock.
- `CodeGen`: the commands touch disjoint files except for `new`, so each
  behaviour follows one of them beside `new` (`task`); `model` reads nothing of
  what `new` writes for the others, so where it is followed a kill leaves those
  files whole. Kills and failed writes leave a file as it was, empty or cut off,
  the template's included. Of the template's two protos the health one is written
  first; while it is missing or cut off the developer edits no RPC and gen, which
  protoc would end, is not run. The contents of files are what a
  property tells apart: an RPC, a method, a path as its components, a line of
  SQL by what the patterns see.
- `KafkaConsumer`: one partition, one member. The group's offset is what any
  member would resume from.
- `KafkaProducer`: one producer. An outcome that nobody reads occupies a place
  in sarama's buffer; which message is read first is open.
- `RateLimit`: time is a token that comes back; `TokenBucket` has the
  arithmetic. Rule and level names are their indexes, so two rules of the same
  name, which would share buckets, are not in the model.
- `TokenBucket`: the rate is a fraction and the product exact; the code uses
  float64.
- `Transaction`: two ways to use the end function, as `defer end(err)` and in a
  deferred closure, decide which failures it sees. Statements are not modelled.
- `ModelGen`: title case has a capital only where a word begins, so the Id, Url,
  Uri and Json that `toPascalCaseModel` replaces anywhere in the joined name are
  those that words begin with (`IDentity` for `identities`); a word is therefore
  split there.
- `SecureString`: any value may be scanned at any time, also over a text it holds
  (`reused`). KMS unwraps a data key only for the master key that wrapped it.
  The master key is set when the process is configured, so that another one
  comes with a restart, which drops all values. Nothing in the repository calls
  `ReEncrypt`; its caller is external, and reads the column, rewraps it and writes
  it back in separate steps. Such a write may replace a text that was saved in
  between; no property speaks about that. Values are not shared between goroutines.
- `RdsToken`: ten seconds are one tick; a step that is due is taken at once.
  Signing is cut off after ten seconds, but `LoadDefaultConfig` before it has no
  timeout: `BuildTime` is what both take at most, an assumption about AWS and not
  about the code. The run has 4 ticks, the most for which the times of the code
  fit together. A build may fail if AWS did not answer all the time from its
  beginning on. Password authentication is not modelled.
- `Server`: both servers are configured. net/http's Shutdown also waits for
  connections that have not brought a request; one such connection is modelled,
  and its client may leave it unused for ever. An accept that fails for good, of
  either server, ends the process.

## Runs

| run | properties | instance | distinct states |
|---|---|---|---|
| `service` | ReturnAfterEveryStop, StopAfterAllStarted, ComponentContract, ReverseStopOrder, StopIsComplete, NothingOutlivesRun, FailuresOnlyInShutdown, ServiceStops | 4 components, a group of 3, 2 starts of a pool of 1, 1 request by either server, 1 tick | 303634 |
| `kafka_consumer` | CommittedWasHandled, InFlightNotCommitted, QuietAfterStop, LoopEnds, EventuallyHandled | 3 messages, 1 restart | 40708 |
| `kafka_producer` | CloseEnds, SendersReleased | 3 messages, room for 1 | 103128 |
| `token_bucket` | NeverOvergrants, HalfRateGuaranteed | burst 2, rate 2/3, 14 ticks | 2148 |
| `rate_limit` | TokensConserved, AllowedIsPaid, RejectedIsExhausted | 4 requests, 2 rules, 1 refill per key | 53326 |
| `transaction` | NilMeansCommitted, NoConnectionLeaks, StuckOnlyByNesting | 2 nesting requests, 2 connections | 158509 |
| `secure_string` | ColumnReadable, SavesWhatItWasGiven | 2 values, 2 texts, 2 data keys, 2 master keys | 55496 |
| `rds_token` | FreshUnlessSeriesFailed, RenewedAfterOutage | the times of the code, builds of up to 40 s | 143329 |
| `server` | DrainedAtEnd, ShutdownEnds | 2 requests per server, one of each never ends, 1 unused connection, 2 ticks | 2626 |
| `codegen` | HandlersComplete, ImportsResolve, DocWrappedOnce, ParseMatchesReference, MainIsBacked, EditsSurvive | 3 RPCs, 6 names, 7 sets of flags, 2 tables, every SQL file of up to 5 lines | 2092800 |
| `metrics` | UpdatesExported, LockLeaksOnForeignClash | 2 clients, 2 goroutines, 2 spellings, 4 kinds, 3 custom metrics | 446069 |

Why the bounds are enough. In `service` each component is of another kind: one
that closes at once, one that may fail, one whose Stop ignores its context and
one that gives up with it; each can be the last to stop. A request arrives by
either server and meets every state of the others; requests do not wait for each
other, so one shows what several would. Two batches are the
fewest in which one cancel function is overwritten. With three messages one can
be committed, one in flight and one waiting when the process crashes; the
second session begins at a committed offset. Room for one message makes the
second sender wait. A rate of 2/3 leaves a fraction at most instants, and 14
ticks contain several refills of the whole bucket. Two requests with one key
compete for its last token, and one refill brings a bucket back after it was
empty. Two nesting requests over two connections are the smallest pool that can
deadlock. Two copies of a handler method are the first that should not be there,
and two swagger files are one that protoc writes anew and one that it does not.
A SQL file of that length holds a statement that is not closed, one without a
name or a column and a complete one after it. Two spellings, clients and
goroutines are the fewest that can meet under one name. `RdsToken` is checked with the real
numbers, and ages are told apart to ten ticks beyond the validity, so that an
expired token is seen. Of the six service names two are plain, two contain a
placeholder and two are refused.

One run looks for a violation and finds it. `secure_string_save` asks whether
saving a value keeps the secret, as `gorm/driver/securestring/README.md:3` says
("automatic encryption when saving to the database and lazy decryption when
reading"). It does not: Value writes NULL while the text is empty, and a value
that was loaded has no text until String is called, so that loading and saving
a row loses the secret.

Other places where the words and the code differ, which the models show as they
are and no run asks about:

- `lifecycle/lifecycle.go:21` says "reverse-order stop". The goroutines are
  started in reverse order and call Stop in any order.
- `ratelimit/README.md:368` says "refilled at a rate of `MaxRequests / 60` per
  second". Each refill loses its fraction; `HalfRateGuaranteed` says how much
  that can cost.
- `ratelimit/multi.go:27` documents BurstSize. With Redis the burst is
  MaxRequests (line 113).
- `db/rds_mysql_driver.go:133` says "exit if token cannot be refresh token". The
  rotation goes on, on which `RenewedAfterOutage` rests.

- `internal/command/utils.go:161` says "Filter out existing handler methods".
  The pattern at line 152 begins with `func $` and matches nothing, so every
  implement appends all the methods again.
- `internal/command/utils.go:93` filters the RPCs the interface file lists and
  line 144 replaces the file by the rest: a second implement leaves an empty
  interface, a third a full one.
- `internal/command/clean.go:16` says "Remove all generated proto files". What
  gen wrote to another `--pb-dir` stays, and the template's document goes.

What the models show and no document speaks about: `gen` wraps the template's
own swagger file once more on every run, and one that was cut off ends every
later gen at that file until clean. `--lang GO` is accepted and then protoc is
called without arguments. A service name that contains `service-kit` or
`ServiceKit`, as `myServiceKit`, which is valid, may get different module paths in
different files. `model` wires the tables of the last
SQL file only, never repairs a file that was cut off, and names the store's model
`UserIdentity` where the model file has `UserIDentity`: a table with a word that
begins with an abbreviation does not compile, whatever was written. Removing a custom metric may
unregister the collector of somebody else. A metrics server whose port is taken
leaves service_up at one, and its goroutine panics when it is scheduled after
Stop has returned. The gRPC component's Stop reports an error whenever it has
served, because GracefulStop has closed the listener before.

What the passing properties leave open is as telling. A message whose handler
failed is committed with the next success (`CommittedWasHandled` counts it as
handled). No property says that a transaction that failed is rolled back, because
the end function does not see every failure: `defer end(err)` commits after an
error, and a deferred closure commits after a panic. `SavesWhatItWasGiven` says of
a value that is scanned a second time only what a save writes: String returns the
text of the first scan, although the driver's README (line 5) calls it compatible
with `database/sql`, where one variable is scanned for row after row.
`StopAfterAllStarted` states what a failing Start leads to: what has started is not
stopped. `MainIsBacked` excepts the main.go of a run that itself ignored a failed
write, and takes a file that was cut off as one that exists: no later run writes
it again. `ServiceStops` and `ShutdownEnds` except handlers that
never return, because those Stops have no deadline, and `ServiceStops` also the
pool whose cancel function was overwritten. `FailuresOnlyInShutdown` says no more
because in a shutdown the pool may be closed under a handler. `EditsSurvive`
excepts the handler file that is cut off in a write. `ShutdownEnds` counts a `Fatal`
as an end: a shutdown that begins before gRPC's Serve ends so, and one in which an
HTTP connection is unused for the whole timeout, whatever gRPC handlers do.

### Fairness

Weak fairness stands for a goroutine that can run and is scheduled, for time
that passes and for a deadline that expires. No handler is assumed to return,
with two exceptions: `Heedful` handlers of `Worker` return once their context
is done, and `Transaction`'s work ends. Signals, cancellations and calls of Stop
are never forced. In `Service` every step happens at most once per process or
request, so weak fairness of all of them together (`Progress`) is enough;
handlers of requests and of workers that ignore their context are left out of
it. Strong fairness is used three times: `KafkaConsumer` joins a
group that is open again and again, and does take a message that it could take
again and again; `KafkaProducer` accepts a sender that waits while places become
free (Go serves the senders of a channel in order); `Transaction` gives a
connection to a request that waits while connections become free (database/sql
serves them in order). In `KafkaProducer` a Close follows a cancelled context,
because Lifecycle then stops every component.

## Proofs

Every theorem about a component is about its specification with the constants
as parameters: the numbers of components, children, goroutines, requests,
messages, keys and ticks are whatever the named assumptions of the modules allow.
Each proof defines an inductive invariant (`IInv`, or with the part's name, as
`ProducerInv`) as a conjunction of named parts, shows that `Init` implies it and
that every action keeps it (one lemma per action or group of actions), and derives
the properties. Where one proof module extends several specifications, the names
of all but one have a prefix (`ProducerSpec`, `MetricsSpec`, `TokenSpec`).

`ServiceProofs` is about the composition, in five parts.

- *Lifecycle*, for any number of components and any timeout: its safety
  invariants and that it implements `Component`. The inductive invariant adds
  where the loops are: which components have started or have a goroutine given
  `pc` and the index, and that the counter of the wait group is the cardinality of
  the components whose Stop is pending. The latter needs the finiteness of that
  set and the cardinality of a set with one element more or less
  (`FiniteSetTheorems`). The refinement follows, one step per action.
- *The service implements Lifecycle* (`ServiceIsLifecycle`), so that it inherits
  the above. The template registers four components with given numbers, and
  theorems that refer to them have the hypothesis `FourRegistered`, N = 4.
- *Group*, for any number of children: Stop keeps the reverse order and is
  complete. The invariant says that the children after the index of Stop's loop
  have results, the ones before it have not been asked, and errs is set exactly
  when a child has returned an error.
- *Worker* and *MetricsServer*: the wait group counts the running goroutines of
  every batch, also when a second Start has overwritten the cancel function; and a
  goroutine that comes after Stop has only a server that was shut down.
- *The whole*: a request fails only in the shutdown, and nothing outlives a Run
  that returned nil. These need what links the parts (`ServiceInv`): the state of
  each server as a function of its component's state in Lifecycle, requests only
  behind a server that is up, the pool closed only by the Stop of its client, and
  children of the group that return only with the part they stand for.

`KafkaProofs` has three parts. *The consumer*: for any number of messages and
crashes the group's offset passes only messages whose handler returned or that were skipped,
the message in a handler is not committed, and no handler runs after a
Stop that returned nil. None of these is inductive: a commit takes what was marked,
and a mark what was read. The invariant says that in a session everything before
the position is handled or skipped, that what is marked and committed is not
beyond it, and that a handler runs only in a session.

*The asynchronous producer*: for any messages and room for any number, sarama
never holds more than it has room for, and a Stop that returned nil has left no
goroutine behind (`WatchersCorrect`). There may be infinitely many messages, so
that the invariant says that finitely many are held before it counts them.

*The metrics registry*: for any clients, goroutines, names and custom metrics, an
adapter's updates reach what Prometheus exports (`ExportedCorrect`), a panic leaks
the global lock only after a clash with a foreign collector (`LeakCorrect`), and a
call that has ended never holds its registry's lock (`LockCorrect`). `LockInv` ties
each lock to the caller between its Lock and its deferred Unlock. `SharedInv` says
that a registry's map has nothing but the shared adapters. A custom metric that is
added must not take a name over from an adapter: a name with a collector or an
adapter has a help text, which Prometheus does not forget (`HelpInv`), so that
the adapter's collector stays the exported one unless it was removed or
the name was somebody else's (`ExportInv`).

`RateLimitProofs` proves for any rules, levels and requests that concurrent
requests neither lose nor duplicate tokens, that who is allowed has paid at every
level, and that who is rejected met a bucket that was used up.
`TokensConserved` speaks of buckets that exist; a reset in Redis removes one, so
that the invariant also says that for a key without a bucket as much was taken as
given back. `RejectedIsExhausted` needs that a bucket is never over its capacity.

`DatabaseProofs` proves of `Transaction`, for any requests and size of the pool, that an end
function that returned nil has committed, that the pool hands out no connection it
does not have and that a request that is over holds none. The invariant says which frames are live, given the phase and depth of
their request: only these hold a connection, their end functions have not
returned, and only an end function commits. The set of requests may be infinite;
the frames with a connection are finitely many.

`SecureStringProofs` proves for any values, texts and numbers of keys that the
column can be read back through every save, restart and ReEncrypt, and that a save
writes the text the value was last given. That the column opens is not inductive
alone, for a value may be saved, and a rewrapped column written back, long after
the row was read: the invariant says of every value and of what the caller of
ReEncrypt holds that it opens. That saves write the text given (`GivenCorrect`)
needs that a value which was not scanned over a text holds the text given or none.

`ServerProofs` proves for any requests and timeout that nothing is handled when
the end function has returned. The invariant is that the wait group counts the shutdowns that are
not over, and that a server whose shutdown began takes no request and is empty
when it is over.

`TokenBucketProofs` proves for every capacity and rate that the truncated refill
never grants a whole token more than a continuous bucket, and never rejects what
a bucket at half the rate would allow. The invariant relates both reference
buckets to the tokens and to the time since the last refill; the argument is
that a refill adds at least one token and forgets less than one, so that it
forgets less than half. The products of variables are bounded in lemmas of their
own (`DivisionBounds`, `ProductMonotonic`), because the provers do linear
arithmetic.

Of `RdsToken`, `DatabaseProofs` proves both guarantees of the rotation from the one assumption
that the period and the builds of a series, with the pauses between them, do not
exceed the validity, for any duration of a build.
The invariant bounds the token's age at each point of a series (`AgeBound`), and
the time AWS can have answered while the token is still older than that
(`OutageBound`).

`CodeGenProofs` is about the commands of the generator, interrupted at any step,
repeated and mixed with edits, for any RPCs, flags, tables and SQL files
(`CodeGenAssumption` says no more than that the template has a health RPC and
that these constants have their types). The invariant has one part per command:

- `ScaffoldInv`: what a generation was asked for has its handler also while the
  next command runs; with it follow `HandlersCorrect` and the handler file's part
  of `EditsCorrect`.
- `ProtoInv`: while swagger files are being wrapped, the merged document is on
  the list only as protoc has just written it (`Wrappable`), whence `WrapCorrect`.
- `ModelInv`: until a write of the running command fails, each of its tables has
  its files (`Backed`) or is still to do. main.go, written last, then wires only
  tables with files (`MainCorrect`), also if earlier commands failed.

`ParseCorrect` says that the line-by-line parser of `model` finds, in a file of any
length, exactly the complete CREATE statements with their columns. It takes an
induction over the lines. The least-number principle for the natural numbers
(`Least`, from `WellFoundedInduction`) gives induction for a set (`Induction`),
with which the parser's states exist as a recursive function (`StatesExist`); the
second induction shows `Agrees`: after n lines the parser has listed the statements
that are complete by then, and its current table is the open statement, if there
is one.

Model-checked only:

- everything under fairness (`ServiceStops`, `LoopEnds`, `EventuallyHandled`,
  `CloseEnds`, `SendersReleased`, `StuckOnlyByNesting`, `ShutdownEnds`): the prover
  has no rules for liveness and ENABLED;
- `ImportsResolve`: it is about folds of replacements over sequences of words, in
  every order of three rules, for six given names; TLC evaluates all of them.

## Not modelled

Logging, tracing spans, HTTP metrics and formats; the set-up of clients
(interceptors, TLS, SCRAM); secrets, response wrapper, base service and generated
code, which keep no state that a property could be about. `cron` and
`workflow/temporal` hand Start and Stop on to their libraries. `attributes` looks
values up in headers. The session guard checks one statement at a time. The
synchronous producer passes one call on. `StartMetricsServer` and
`StartMetricsServerWithContext` serve the same endpoint as the component without
its Stop. A data race on a string or a map (`kafka/kafka.go:153`,
`db/rds_mysql_driver.go:181`, `metrics/metrics.go:193`) is listed as a hazard; its
outcome, a torn token or the end of the process, is below these models.

## Plan

1. Done: the core (`Lifecycle`, Kafka, rate limits, transactions, encryption,
   RDS token, `Server`), the composition `Service`, the code generator and the
   metrics registry.
2. Done: the proofs of every safety property of every run but `ImportsResolve`.
3. Extraction of attributes and key collisions as operators with a reference
   definition, cron and Temporal as components of `Service`.
