# agent-guard in TLA+

Models of the parts of agent-guard whose correctness depends on the order in
which things happen. TLC checks them on small instances; TLAPS proves the main
safety properties for every value of the constants. `PROJECT.json` maps every
definition to the code it models, and lists the hazards the properties are about.

## The system

| Part | Code | Modelled in |
|---|---|---|
| Hash-chained audit log | `agentguard-core/src/decision/{log,chain}.rs` | `AuditLog`, promise in `AuditTrail` |
| Policy store and hot reload | `agentguard-core/src/policy/store.rs`, `agentguard-server/src/{server,authzen}.rs` | `PolicyReload` |
| Signals of the file watcher | `agentguard-policy/src/watcher.rs` | `PolicyWatch` |
| API-key file: commands and watcher | `agentguard-auth/src/api_key.rs`, `agentguard-cli/src/commands/apikey.rs`, `server.rs` | `ApiKeyStore` |
| Evaluation over HTTP and gRPC, authentication | `agentguard-server/src/{authzen,grpc,auth_layer,audit}.rs` | `PdpServer` |
| What a request says, to Cedar and on record | `agentguard-core/src/{request,context,action}.rs`, `decision/record.rs`, `observability/span.rs`, `authzen.rs`, `commands/authorize.rs` | `DecisionRequests` |
| Decision cache | `agentguard-core/src/{decision/cache,authorize/engine}.rs` | `DecisionCache`, promise in `FreshEvaluation` |
| Delegation tokens, revocation store | `agentguard-core/src/delegation.rs`, `agentguard-redis-store` | `Delegation`, `Matching` |
| Key registry, JWKS refresh, JWT validation | `agentguard-core/src/auth_keys.rs`, `agentguard-auth/src/{jwt,oidc}.rs` | `TokenKeys` |
| DPoP proofs and replay tracking | `agentguard-auth/src/{dpop,jti}.rs` | `DpopReplay` |
| Startup, listeners, signals, readiness, shutdown | `agentguard-server/src/{main,server,listener,authzen}.rs` | `ServerLifecycle` |
| Metrics, event sinks | `agentguard-telemetry` | `Metrics`, `MetricLabels`, `EventSinks` |
| Commands on the audit log, export formats | `agentguard-cli/src/commands/{audit,log}.rs`, `decision/formatter.rs` | `AuditCommands`, `ExportFormats` |

A request is authenticated against the key set (kept current by the key
watcher), evaluated against the policy snapshot (kept current by the policy
watcher and SIGHUP) through the snapshot's decision cache, appended to the audit
log, and then answered. `PdpServer` abstracts its neighbours to what it sees of
them: a key verification with an open outcome, a policy generation that a reload
increments, an append that succeeds, fails, or fails with its record written.
`AuditLog`, `PolicyReload`, `ApiKeyStore`, `DecisionCache` and `DecisionRequests`
are what is behind these.

## The modules

**AuditLog.** Threads of one process append and rotate through one handle. The
files are one sequence of lines tagged with their segment, so that a rotation
only appends to `segs`; `sidecar` and `segs[s].cid` are the chain-id sidecars.
`guard`, `head`, `id` are the `Option<File>` and `HashChainInner`; `rotLock` and
`fileLock` the two mutexes. A call goes through `check` (rotate_if_needed),
`close`, `rename`, `reopen` (rotate_inner), `sidecar`, `lock`, `write` (append).
A write lands whole, not at all, torn, or without its newline; its rollback may
fail; `Stop` ends the process anywhere and `OpenOk`/`OpenRefused` are
`open_internal`. A hash is the sequence of records it commits to: the HMAC is
taken to be free of collisions. Only the chained mode is modelled.

**AuditTrail.** What the log promises: one trail that only grows, holding every
acknowledged record, and no record twice. `AuditLog` implements it through the
mapping `trail <- Trail`, the readable records in chain order.

**PolicyReload.** The startup load, the watcher's load and the SIGHUP load run
`AuthorizerHandle::load` a file at a time (`List`, `Read`, `Parse`, `Install`)
while `Edit` changes the store. `unseen` is what notify's PollWatcher, an
external library, has yet to report: it is taken to report every file written
since its last scan. The walk lists the directory at once; a file over a size
limit is a file that does not load. `errors` counts I/O errors, which
`Path::exists` turns into "absent".

**PolicyWatch.** The hand-over inside the watcher: `PendingSignals` under its
mutex, filled by the callback of notify's thread (`record_event`, `record_error`)
and drained by the task (`events`, `take_errors`) at most once per debounce
window. `PolicyReload` starts where this ends, with one flag that says changed.

**ApiKeyStore.** `file` is what is on disk: absent, invalid (`Bad`), or a key set.
The server's `FromConfig`, `LoadConfig`, `ReadBaseline`, `Poll`, `Exists` and
`Reload` look at it separately, since it may change between any two looks. A
command loads (`Begin`) and saves (`SaveOk`, `SaveFails`); `Replace` is whoever
else writes the file. Ids are UUIDs and never drawn twice. No lock orders the
commands: `overtaken`, a history variable, has those whose copy is not of the
file as it is, because another writer came after their load or their own
`Path::exists` failed, and `acked` the revocations reported since one of them
last wrote the file over.

**PdpServer.** A request passes `verify`, `enter`, `handle`, `decide` and
`append` (sync writer) or `await` (async writer). `authFree` and `workFree` are
the semaphores, `config` the choice of audit writer and of authentication. A
blocking job outlives a client that hangs up (`gone`). A
single evaluation, by HTTP or gRPC, is a batch of one that is counted. Status
codes stand for the kinds of refusal; gRPC's map onto them.

**DecisionRequests.** One request from its body, or from the file of `agentguard
authorize`, through `evaluation_request_for_caller` (identity and tenant against
the caller's), the mapping to Cedar's types, the evaluation, the record and the
answer. Every rejection is a step of its own.

**DecisionCache.** A call of `authorize` reads the policy version for its key, and
again in `get`, looks the key up, evaluates on a miss, reads the version and the
clock again in `put`, and fills the map, evicting at the capacity. None of this
is one critical section, so the steps of two calls, of `invalidate_all`,
`set_policy_version`, `sweep_stale` and of a reload interleave. `set_policy_version`
stores any number; it is modelled for callers that never set it back (no code of
the repository calls it but a test, with rising numbers), since going back to an
earlier version makes the entries of that version good again. Each policy
generation has a cache of its own; a call stays with the one it pinned. A key is
a question with its version: the canonical JSON and its hash are taken to be
free of collisions. The recency list of the `LruCache` is the relation `older` on the
keys of the map: the most recent key has every other one before it, and the one that
has none before it is evicted. `config` is what the strict or the lenient reader makes of
the environment's settings.

**FreshEvaluation.** What the cache must not change: each call is answered by
Cedar, from the policies that served when it began. `DecisionCache` implements it.

**Delegation.** `Mint` and `MintAttenuated` make grants, with the attenuation checks
of `mint_attenuated`; `Verify` is `verify` with its checks in order, then the
lookup in the revocation store, whose command is executed at any moment between
request and answer, within the client's timeout, and may get lost on either way.
`StartRevoke` computes the retention from the skew of the moment, and
`SetClockSkew` raises or lowers it. Time passes in half seconds because the code
truncates to seconds; processes and store share one clock.

**Matching.** `glob_match` and the typed constraints (`has_typed_inputs`,
`evaluate`) as recursive operators beside reference definitions: a pattern
matches when it can be split; a constraint is true in three-valued logic.

**TokenKeys.** The registry's `add`, `rotate` and eviction; `discover` with its
attempts; the refresh task that fetches a document and then adds its keys one at
a time; `validate`, whose sums are those of signed integers up to `IntMax`.

**DpopReplay.** `verify_proof` with its checks in order and `check_and_record`,
whose clock is read before the lock, up to `MaxPause` earlier.

**Metrics**, **MetricLabels.** The maps of `metrics.rs` with the locks of the two halves
of `record_decision` and of a scrape. `Metrics` leaves open how labels are joined to
a key (`KeyOf`) and shown (`ShownAs`); `MetricLabels` has the join with the separator,
the split and the escapes, and the runs use those.

**EventSinks.** The line sinks with failing and partial writes; the exporter's breaker
with overlapping flushes.

**ServerLifecycle.** `run` from its command line: the startup steps in their order
with the fault that stops each, the listener and gRPC checks, the signal loop
(a signal is remembered from the moment its handler exists), the readiness
probe, the shutdown channel, draining, and the join of both servers.

**AuditCommands**, **ExportFormats.** The commands run beside a server that appends and
rotates: listing files, opening them one by one, the in-place rewrite of `audit erase`
in its steps, and `audit rotate`. The log is the sequence of its files, and what a
reader has got so far a sequence of files too. `ExportFormats` has CEF and LEEF.

The `MC*` modules choose instances, and put parts beside each other that share no
state: `MCService` (`AuditLog`, `PdpServer`, `PolicyReload`), `MCDecisions`
(`DecisionCache`, `Delegation` with `Matching`), `MCCredentials` (`ApiKeyStore`,
`TokenKeys`, `DpopReplay`) and `MCOperations` (the rest). A behavior is of one of
the parts, so the state space is their sum.


## What TLC checks

| Run | Question | Result |
|---|---|---|
| `service` | Audit log: handle on the files' end, acknowledged records kept, log reopens, trail implemented, with torn writes, lost sidecars and stops. Decision point: permits conserved, answers audited, one generation per response, batches complete, single decisions counted, for both kinds of audit writer with authentication and for none of either | holds |
| `progress` | With calls of `rotate` every call of the log returns; every request ends; only valid snapshots are served, with SIGHUPs, startup edits and I/O errors, and undisturbed by these no edit is forgotten and a valid store is served in the end | holds |
| `decisions` | No hit predates an invalidation its call began after, none outlives the TTL of its effect, the map stays within its capacity and counts every lookup, and callers cannot tell the cache from an evaluation. A grant never exceeds its ancestors, a revocation is kept until its deadline, and the matchers agree with their reference definitions | holds |
| `credentials` | No update of the key file forgotten, revocations durable and effective, keys change only to one whole valid file's or to none, with commands overlapping, replacements and I/O errors. Rotated keys end with their grace, accepted tokens are current, refreshes reach the issuer's keys, replay verdicts are right | holds |
| `operations` | Metrics tell what was recorded; labels and exported fields read back; sinks keep what they acknowledged and the breaker closes again; no open socket that should not be, a drained exit after SIGTERM; requests stay about the same caller; commands find and leave the right lines; changes are signalled once and in the end | holds |
| `audit_log_unterminated` | Acknowledged records kept after a write that lost its newline | violated |
| `key_file_errors` | An I/O error leaves the active keys as they are | violated |
| `batch_uncounted` | Every decision that is answered is counted | violated |
| `rotate_revives` | `get` begins to return a key only as the active one | violated |
| `revocation_lapses` | No verify begun after a revoke returned Ok accepts the token | violated |
| `drain_tls` | No request that was accepted is lost before `run` has returned | violated |
| `watch_errors` | An error is reported once until the next event | violated |

The violated properties are what a comment of the code says; each is a finding of
`PROJECT.json`, with the comment it quotes:

- A write that lost only its newline parses, so startup accepts the file and the
  next record joins that line (`log.rs:575` against `log.rs:354`).
- `Path::exists` answers false when it fails, so `reload_from_file` installs an
  empty key set (`api_key.rs:136` against `api_key.rs:132`). `KeysWholeOrNone` says
  what holds of every other reload.
- `evaluations` records no decision (`authzen.rs:779` against the help text at
  `metrics.rs:325`). `DecisionsCounted` is about single evaluations.
- `rotate` renews the grace of all previous entries of an id, so a key whose grace
  had ended comes back (`auth_keys.rs:185` against lines 172 and 196). `GraceEnds`
  says what does hold: it ends again with the grace of the last rotate.
- The retention of a revocation is computed with the skew of the moment. A
  verifier with a larger one, or one given a larger one later, accepts the token
  when the entry is gone; so does one whose `EXISTS` is executed a second or more
  after it read the clock, which the client's timeout of three seconds allows
  (`delegation.rs:1004` against `delegation.rs:28`). `RevokedStaysRevoked` is about
  what the store is asked for, `retain_until_unix`, and says what the added second
  buys.
- The TLS listener is told to shut down, not to drain (`server.rs:233` against
  `server.rs:97` and the runbook, `docs/operations/runbook.md:146`).
  `DrainedBeforeExit` is about the others.
- `queue_new_error` remembers the last error only, so two that alternate are
  reported every time (`watcher.rs:111` against `watcher.rs:170`). Moreover an error
  that does not fit in the queue is remembered, and not reported.

The constants describe the environment, and the guarantees depend on it. These
settings, or weaker premises, make a property fail.

Audit log and its commands:

- `ReopensOwnLog` with `ClockMonotonic = FALSE`: segments are ordered by the
  wall-clock time in their names, so a clock that steps back between two
  rotations makes `open_internal` refuse the log (`log.rs:251`).
- `HandleExtendsDisk` with `Rotations = {x1, x2}`: two calls of `rotate` in a row
  leave an empty newest segment, from which the next open takes a zero head
  (`log.rs:172`). With `MaxLines = 1` and two threads the same happens without
  calls of `rotate`: the size of a line being written counts, the write is rolled
  back, and the other thread rotates the file that is empty again (`log.rs:234`).
- `ReadComplete` and `EraseKeepsPlaces` hold of commands that met no rotation, and
  no append or failed write. A rotation between the listing and the opening of
  the active path hides a file from a reader (`log.rs:469`). `audit erase` in place
  covers only the active file; lines appended between its read and its rewrite
  are lost, a kill after the truncation loses the file, and the error of the last
  buffered write is dropped with the writer (`audit.rs:117`). `audit rotate` leaves
  a running server appending to the renamed file.

Policies and keys:

- `ServesStoreEventually` without `Undisturbed`: an edit between the startup load
  and the watcher's first scan is never reported (`server.rs:171`), and a SIGHUP
  reload that read the store before an edit can swap its snapshot in after the
  watcher's newer one (`authzen.rs:328`).
- `RevocationDurable` is about revocations that no writer has written over
  without having seen them. Two commands that overlap do that, since neither takes a
  lock: the one that loaded earlier saves its copy over a reported revocation
  (`apikey.rs:143`). So does a command whose `Path::exists` failed, which starts from
  an empty store (`apikey.rs:32`).
- In `PolicyReload` an I/O error of `Path::exists` may leave policies or the schema
  out of a snapshot that is then served (`store.rs:49`), of which `ServesOnlyValid`
  holds.
- `NoUpdateForgotten` and `RevocationReachesServer` except an attempt that met an I/O
  error and a file written over by somebody who had not seen it (`failed`,
  `meddled`). A failed reload is not tried again before the next change, and a file
  replaced and put back around the second read of a poll leaves other keys serving
  (`server.rs:402`).

Tokens:

- `RevokedStaysRevoked` assumes that verifiers and store have clocks that agree.
  Revoking a grant does not revoke its children.
- `HitsPostdateInvalidation` needs a policy version that is never set back.
- `KeysConverge` is about refreshes that do not overlap and documents within the
  cap. A key the issuer has withdrawn stays until it is evicted.
- `LabelsRecovered` is about labels without the separator `\x1f`; with it two label
  tuples share a series. A carriage return is not read back as one: `escape_label`
  writes `\r` (`metrics.rs:506`), which is no escape of the exposition format. The
  `escape` of the CEF and LEEF exports leaves one as it is.

Server:

- `AcknowledgedLines` excepts events given to a JSONL sink after its shutdown: `emit`
  answers Ok and drops them (`jsonl.rs:47`).
- `ShutdownEnds` excepts a `ctrl_c()` that cannot install its handler, which parks
  the loop. A SIGINT during a SIGHUP reload is lost, a SIGTERM is not.
- `SocketsGuarded` is about `run`; `build_router`, for embedders, has no listener
  to check. A chain secret of blanks decodes to no bytes, and chains the log.
- The audit record keeps ids only, and no trace id (`record.rs:25`).

**Bounds.** `AuditLog`: five records with two lines to a segment give several
rotations with two appends racing for each; two timestamps cover equal and
later ones. `PolicyReload`: two policies against a limit of one, and two
edits, which is one during and one after a load, with one SIGHUP and one read
error. `ApiKeyStore`: two keys and
two commands, which may overlap, one replacement, and one I/O error, each of which
may come between any two looks of the server. `PdpServer`: two
requests on one slot of each pool exhaust it; batches of zero to three
evaluations with a limit of two cover empty, partial, full and oversized. The
semantics of a batch are tried where they differ, from two evaluations up to the limit.
`DecisionCache`: two threads and three calls, so that one call fills while another
looks up and a third hits; one reload, one invalidation or version change, a
capacity of one, two and zero, and TTLs longer and shorter than the clock.
`Delegation`: two signers with the same key id, two processes, and two seconds in
steps of a half. In one part a parent and a child are minted and verified without the
store; in the other one token is verified and revoked with three calls of the store.
A token lives up to two seconds and skews are zero or one, so tokens expire, and
revocations too, within the bound. `TokenKeys`: room for two
key ids with three in use, and four documents; integers up to seven overflow within
the clock. `DpopReplay`: two verifiers and two identifiers for one entry, and twice
the TTL. `Metrics`: three label tuples for a cap of two. `EventSinks`: `BREAK_AFTER` as
it is. `ServerLifecycle`: two requests, one SIGHUP, two probes, and every
combination of listener, authentication and fault the checks tell apart. The
other instances are one request, two lines and two commands, four signals. The
`Max...` constants bound environment steps only; the proofs leave them open.
Deadlock is not checked where all bounded work may be done.

**Fairness.** Weak fairness of the steps inside a call or job (a thread holding
a mutex does a bounded number of file operations), of the polling loops
(`tokio::time::interval` and notify's thread keep running), of handlers that
can go on, of discovery and the refresh task (each fetch has a timeout), and of the
process in `ServerLifecycle` with the requests it is answering (their handlers end:
`RequestsEnd`). `EmitsResume` assumes a program that goes on flushing, which is
strong fairness of `StartFlush`: a task that emits again and again also flushes
again and again. Callers, operators, edits, signals, hang-ups, outages and stops
are never assumed to act.

## What is proved

A theorem holds for every value of the constants that satisfies the `ASSUME` of its
module. Those assumptions are types, finiteness of the sets that are counted, that a
marker such as `NoValue` is none of the values it marks, and limits the code refuses
to be zero; TLC evaluates them in every run. What a theorem assumes beyond that is
said here. The inductive invariants were checked with TLC on the instances of the
runs before they were proved.

`AuditLogProofs`: `TypesHold` for every use of the log, with the places where each
lock is held. `AckedAlwaysPersisted` under `WholeLines` only (no write cut between a
line and its newline, which the finding shows is needed), so for calls of `rotate`
and a clock that steps back as well: `DurableInv` says each record is in one line at
most, a file that accepts appends ends in a whole line, and of each call where its
record may be. Under `SafeUse` (moreover rotation by size only with room for more
than one line, and a clock that does not step back; the settings above show that
each is needed): `ChainInvariant`, `HandleAlwaysExtendsDisk`, `AlwaysReopensOwnLog`,
and the refinement `LogImplementsTrail`. The inductive invariant `ChainInv` adds to
the properties what links the files to the calls: the stored lines form one chain in write order with only the last unreadable,
no rotated segment is empty, timestamps follow the rotations, and a thread that
is closing or renaming has lines to rotate. Without the last two, the head
could be reloaded from an empty or a wrong segment.

`PolicyReloadProofs`: `AlwaysServesOnlyValid` without any assumption on the
environment, by `ValidInv` (a load never holds more policies than the limit);
`NeverForgetsAnEdit`, which is about an undisturbed server (no SIGHUP, no edit
during startup, no I/O error so far), by `FollowInv` (each file a load has read is
as it was read, unless the watcher knows better).

`CommandProofs` is about the commands that share a file with a running server.
Of `ApiKeyStore` it assumes nothing: commands overlap, anybody replaces the file, and
lookups, reads and saves fail. `KeysAlwaysWhole`: the keys that serve change to those
of one whole file or to none, unless a lookup fails. `RevocationAlwaysDurable`, by
`FileInv`: a command that is not `overtaken` holds a copy with every revocation of the
file, so only an overtaken one, or a writer from outside, ends a reported revocation.
`NeverForgetsAnUpdate`, by `KeyInv`: as long as nobody meddled, records only go from
absent to live to revoked, and what the watcher compared, what the server loaded and
what is on disk follow each other in that order.

`CommandsStaySound` (`AuditCommands`), for any subjects, lines, rotations and commands:
`CommandsInv` says that no two intact lines have one place and that the files beyond
the server's are empty; that a reader without a rotation has all of every other file
and a beginning of the server's; and that the lines an eraser holds agree with the
log's and never go to a file beyond the server's. Completeness follows file by file.
That a confirmed chain is a beginning of the log follows from the last line down:
each line has its predecessor, so a greatest missing place cannot exist.

`PdpServerProofs`, for any finite set of requests, any number of slots, any batch limit
and any number of reloads: `AlwaysPermitsConserved`, `AlwaysAnswersAudited`,
`AlwaysOneGeneration`, `AlwaysBatchComplete`, `AlwaysDecisionsCounted`. `PdpInv` ties
what a request has decided so far to its pinned generation, its records on the
trail and the place it has reached in its batch; the permits are a cardinality
argument of their own.

In the same module `MetricsStayTrue` (`Metrics`), for any finite set of threads, any
decisions, bucket bounds, label cap and scrapes, where two label tuples have one key
only if they are equal (no label holds the separator). Sums are cardinalities of sets
of units, so that a step that counts adds one element. `MetricsIInv` balances, for each
action and tenant, the decisions counted with the durations observed and the calls
between the two locks, and for a page being rendered what it has shown with what it
will. `RoomForDurations` is the lemma the cap rests on: each key of the durations has
a key of the totals that maps to it, so a decision that found room in the first map
finds room in the second.

`DecisionCacheProofs`, for any threads, questions, settings, reloads and bounds:
`NoHitPredatesInvalidation`, `HitsAlwaysWithinTtl`, `CacheAlwaysBounded`, and the
refinement `CacheImplementsEvaluation` of `FreshEvaluation`. `CacheInv` says of
every entry under which key, version and generation it was evaluated, and of every caller in the
middle of a call how the versions it has read relate to the entries it may meet
and to those other callers are about to insert: a fill that read its version
before an invalidation can only leave an entry no later lookup accepts. `BoundInv`
counts entries, evictions and the callers between a miss and its push (`Filling`)
against the misses; that a full map has a least recent key, so that one entry makes
room for another, is shown with the least number of keys before one.

`DelegationProofs`: `ChildrenNeverBroaden`, from the checks of `mint_attenuated`
(a pattern of a child is one of its parent's or a literal the parent's match;
`Match` is any relation in which a literal matches itself only), and
`RevocationIsRetained`, for any skews, lost answers and timeout: an entry is there
until the deadline that was asked for, and the second the adapter adds covers an
answer that takes less than one. `RevocationInv` follows a revocation from the command
on its way, through the entry, to a verification in flight that was begun afterwards.

`TokenAuthProofs`: `GracesEnd` and `AcceptedKeysCurrent` for the registry and the
validator, by `KeysInv` (the queue of ids and the table agree; no entry has a grace
beyond the last one given; what is left to add is the rest of the document, and
the ids added so far hold keys of that document only), and `VerdictsRight` for the
replay tracker, by `ReplayInv` (a record is at most a pause older than its
acceptance, and what was forgotten was forgotten in time).

`OperationsProofs` has four components with an invariant each. `SocketsOpenGuarded`
and `ExitsDrained` (`ServerLifecycle`): `LifecycleInv` says for each startup step
that is passed what it has made sure of, and that requests in flight have a server.
`SinksKeepFaith` (`EventSinks`), about events acknowledged by an open sink:
`SinksInv` says that the open line holds only
what was not acknowledged, and that without a healthy flush under way the failures
counted and those about to be are the recent ones and at most one for each other
task. `RequestsStayFaithful` (`DecisionRequests`): `RequestsInv` derives each stage
of a request from the one before, with the lemma that the prefix of an action id
that is stripped is the one put back. `BatchesExact` (`PolicyWatch`): `WatchInv` is
the types with the property, which is inductive.

The library's induction theorems cannot be used by the installed provers. Where an
argument needs induction over numbers, the proofs take the least or greatest
counterexample instead (`Least`, `Greatest`, from the well-foundedness of `<`).

Only model-checked, because the prover does not reach them:

- liveness under fairness: `CallsReturn`, `ServesStoreEventually`, `RevocationReachesServer`,
  `RequestsEnd`, `KeysConverge`, `EmitsResume`, `ShutdownEnds`, `ChangesReload`;
- what recursive or folded definitions compute, which takes induction over the
  structure of their arguments: `MatchingSound` (in a module with `RECURSIVE`, where the
  prover has no SMT backend) and `EncodingsReadBack` (folds over sequences).

## Not modelled

- The plain (unchained) audit log, a subset of the chained one without sidecars.
- Verification of a presented API key beyond its outcome: Argon2 is external, and
  expiry compares two numbers.
- SPIFFE: a thin client of the external workload API.
- Policy diff, blast radius, versions and bundles: pure functions over policies
  parsed by Cedar. (A removed policy gives an empty diff.)
- The commands `init`, `gen`, `sim`, `schema`, `validate`, `doctor` and `delegate`:
  sequential, and they print or write once what the libraries compute.
- The ECS export format: serde's JSON.
- The TypeScript and Python SDKs and the web console: separate programs, whose
  races are with Node's event loop, a child process or a shared store.
- Web site, examples, schemas, deployment.
- Cedar, hyper, tonic, rustls, Redis, notify and the OpenTelemetry SDK are external
  and appear as what this code sees of them.
