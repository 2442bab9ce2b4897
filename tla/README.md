# Lucent: TLA+ models and proofs

Lucent turns an unsigned contract call and its clear-signing descriptor into a
verdict. The hosted service (`lucent/`) sells that verdict over HTTP: to
tenants with an API key and a quota, and to anyone who pays per request with
an x402 authorization. What is hard about it is not the verdict but the
money: an irreversible settlement sits in the middle of a request that can be
retried, cancelled, raced by another request or outlived by its own
reservation. This project models that machinery, checks it with TLC and
proves its central claims with TLAPS.

## Inventory

| Part | Code | State | Operations | What is hard |
|---|---|---|---|---|
| Idempotency store | `access.py` `IdempotencyStore` | ordered entries (reserved or complete), two byte counters | reserve, commit, abort, len, cached_response_bytes | lazy expiry, stale owners, LRU eviction that must spare reservations, pre-reserved bytes |
| Token buckets | `access.py` `TokenBucketLimiter` | tokens and last refill per tenant | consume | clocks that go backwards, rounding of Retry-After |
| API keys | `access.py` `ApiKeyAuthenticator` | none after start | authenticate | none: a stateless comparison |
| Verified-source cache | `hosted.py` `VerifiedSourceCache` | LRU of results, memory of failures, keys in flight | resolve | single flight over a condition variable, byte bound, waiters |
| Payment gateway | `payments.py` `PaymentGateway` | none | challenge, verify, settle, assert_replay_proof | wall-clock window, unknown settlement outcomes |
| Facilitator | external, through `UrllibFacilitatorClient` | the transfer | verify, settle | answers lost, late effects |
| Preflight handler | `api.py` `transaction_preflight` | per request: reservation, claim, settlement_attempted | one coroutine, three awaits | interleaving and cancellation at each await |
| API-key handler | `api.py` `transaction_preflight`, `access.py` `AccessController` | every tenant's bucket, one store for all | the same coroutine with one await | tenants that share one evicting store |
| Configuration | `hosted.py`, `payments.py` `from_env` | the runtime and its parts | build once | combinations of settings against what the handler asserts |
| Source resolver | `verified_source.py` | an RPC budget | resolve_verified_source | a chain that moves between reads, proxy cycles |
| Verdict policy | `preflight.py`, `scripts/audit.py`, `comprehend.py`, `danger.py` | none | preflight_transaction, check_descriptor | precedence of four analyzers' findings, and their refinement by calldata |
| HTTP surface | `api.py` | per request: bytes received | body guard, dispatch, readiness | bodies in pieces, every mixture of credentials |
| MCP server | `scripts/mcp_server.py` | position in the input | one loop, six methods | bursts, oversized lines, end of the stream anywhere |
| Descriptor watch | `scripts/watch.py`, `resolve_proxy.py` | `watch_state.json` | a run, `--init` | upgrades between runs, killed runs, lookups that fail |
| Other scripts | `scripts/` | files | command line | text heuristics, I/O |

How they interact. `HostedRuntime.from_env` builds one access controller (quota
and an evicting store) for API keys, and for x402 two stores without
eviction: results by Idempotency-Key, and claims by signed authorization. The
handler calls the stores synchronously on the event loop; the facilitator and
the source cache are awaited, their work running in threads. The stores know
nothing of each other: that a settlement happens once is a property of the
order in which the handler uses them.

All state of the service is process-local. A restart loses it, as
`docs/HOSTED-API.md` says, so crash recovery is not a question the service
answers. The one state that is kept on disk is the watch's baseline, and
`Watch` has runs killed at every point, also while they rewrite it.

## Modules

| Module | Models | Kind |
|---|---|---|
| `Ledger` | an entry of the store; lookup, ownership, expiry | shared operators |
| `IdempotencyStore` | the store, method by method | state machine |
| `ReplayLedger` | what a store's caller may rely on | abstract specification |
| `PaidPreflight` | the x402 path with its two ledgers | state machine, composition |
| `PaidPromise` | what a paying client may rely on | abstract specification |
| `SourceCache` | the verified-source cache and its threads | state machine |
| `TokenBucket` | the limiter | state machine |
| `ApiKeyPreflight` | the API-key path: tenants, buckets and the shared store | state machine, composition |
| `VerifiedSource` | the resolver against a chain that changes | state machine |
| `Verdict` | the verdict policy, for a descriptor and for a call | functions and two operations |
| `HostedService` | configuration, body guard, dispatch and readiness, around both paths | state machine, composition |
| `McpServer` | the MCP server and its client | state machine |
| `Watch` | the drift watch, run after run | state machine |
| `MCStore`, `MCPaid`, `MCTokenBucket`, `MCApiKey`, `MCVerifiedSource`, `MCVerdict`, `MCHosted`, `MCMcpServer`, `MCWatch` | TLC instances (`SourceCache` needs none) | |
| `OrderedDict`, `PythonNone` | deletion and move to the end; the value `None` | shared operators |
| `CollectionLemmas` | finite sums, lists without repetitions, induction | lemmas |
| `IdempotencyStoreProofs`, `SourceCacheProofs`, `PaidPreflightProofs`, `ApiKeyPreflightProofs`, `VerifiedSourceProofs`, `VerdictProofs` | theorems about the module of that name | proofs |
| `PeripheryProofs` | theorems about `TokenBucket`, `HostedService`, `Watch` and `McpServer` | proofs |

Operators whose comment says "mutant" are deliberately wrong variants of the
definition that follows them. No specification uses them; they show that the
properties notice such a bug.

### IdempotencyStore, Ledger, ReplayLedger

Each method holds the store's lock from beginning to end, so each is one
action. Concurrency is in the callers: `tickets` keeps every reservation ever
handed out, and any of them may be committed or aborted at any later time, any
number of times. `store` has the OrderedDict as a mapping (`entries`, absent
keys mapped to `Absent`) and an order, and the two counters. The eviction loop
of `_make_response_room` becomes "the shortest prefix of completed entries
that is enough" (`Enough`, `ResponseVictims`); when no prefix is enough the
code has by then evicted them all (`GiveUp`). `evict` is the mode, chosen when
the store is made and fixed from then on. `published` and `reply` are history.

`ReplayLedger` has no order, no counters and no sweeps: an entry vanishes the
instant it expires and eviction may take any completed entries.
`ImplementsPromise` maps the store to it by purging expired entries, and says
that lazy sweeping is invisible to callers and that room is refused only when
it may be: an evicting store refuses only when every entry is a reservation,
and the owner of a reservation is never refused in a store that promised it
the bytes.

### PaidPreflight

One action per stretch of code between awaits, because the handler is a
coroutine on a single event loop:

| Action | Code (`transaction_preflight`) |
|---|---|
| `Arrive` | up to the verify await: reserve the key (`Collide`, `Replay`, `TurnAway`, `Admit`), first pure pass, identifier and window check |
| `VerifyReturn` | the facilitator's answer, then the claim, or abort of the key |
| `SourceReturn` | the resolution's result; commit of the tombstone and submission, or abort of both |
| `SettleReturn` | receipt, refusal or unknown outcome; commit of the result or of the terminal failure |
| `Cancel` | cancellation at an await: nothing runs |
| `Transfer` | external: the facilitator acts on a submission, possibly after the handler is gone |
| `Tick`, `StepClock` | the monotonic clock of the stores; steps of the wall clock the window is read on |

The two stores appear as `ReplayLedger` ledgers, which is what
`IdempotencyStore` is shown to implement. A request is its own token. The room
test counts entries and bytes as `reserve()` does, with one size for every
stored outcome. Payload validation is one decision, except for what the
properties need: the identifier (`IdentifierOf`), the window (`InWindow`), the
authorization inside the proof (`AuthOf`), equality of proofs on replay, and
which answers invite the client to pay or to try again (`Invites`): those of the
gateway that carry a challenge or Retry-After (`PaymentErrors`), and those of
the two ledgers and of the source that carry Retry-After (`RetryLater`; some
errors of the source do not, so this is an upper bound). `InvitationsAreSafe` compares an
invitation with what was submitted, in two places where the code knows: the
handler that submitted, and its replays, invite only if the transfer failed; the
claim store, and a handler that holds its claim, invite only while nobody has
submitted that authorization. It does not say that nobody is ever invited after
their money moved: what is refused before the claim store is asked may carry an
invitation (see Findings).

`PaidPromise` has neither clock nor ledger: requests, what became of their
settlement, and what they were told. An authorization is spent for good when it
is submitted. `KeepsPromise` maps `PaidPreflight` to it: a job is what a client
`asked` unless its replay was denied, and every answer short of settlement or
replay is a refusal (`Public`). What the map forgets is the mechanism, two stores
that expire on one clock and a window that is read on another; that it can be
forgotten is the claim.

### SourceCache

Code under the condition's lock is one action. `Look` is one turn of the loop
in `resolve()`; a thread that waits leaves the lock and looks again from the
top once notified (`LookAgain`). A resolution ends in one of the three ways
the code distinguishes. Expiry happens inside every turn, as in the code. After
`Return` a thread calls again, for any key, so new callers keep arriving and may
get the lock before a thread that was notified. The condition is not fair: when
results are never cached, because they are too large or the resolver crashes,
new callers can take the lead again and again while a waiter is woken, finds the
key in flight and waits. `ReturnsUnlessOvertaken` says that this is the only way
in which a call does not return.

### TokenBucket

`Consume` reads an arbitrary clock value, so backwards clocks are the normal
case. Tokens are integers in units of a fraction of a token; the code's
floats and its 1e-12 tolerance are rounding around the same quantities and are
not modelled. `spent`, `since` and `promise` are an observer's history. A
promise counts Retry-After from the reading at which the client was refused; a
refusal while the clock is behind `last_refill` records none (`ClockBehind`),
because the code then advertises too little.

### ApiKeyPreflight

`Arrive` is everything before the only await: authenticate, charge the bucket,
look at the key, reserve, first pass. Each way out is a disjunct of its own.

| Disjunct or action | Code |
|---|---|
| `Unauthorized`, `OverQuota` | `authenticate`, `consume`: 401 and 429, nothing but the refill changes |
| `InvalidKey`, `Collide`, `Replay`, `NoRoom` | `reserve` and the key's syntax, after the token is spent |
| `Reject`, `Admit` | the first pass; a rejected call aborts its reservation at once |
| `SourceReturn`, `SourceFail` | after the resolution: commit, or abort when the commit is refused |
| `Cancel` | cancellation at the await: the reservation stays |

The charge comes before the key is looked at, so a replay costs a token. Which
completed entry makes way is left open, since tenants cannot know the order;
`IdempotencyStore` has it.

### VerifiedSource

One action per JSON-RPC call, with the decisions up to the next call in it. The
chain is not a constant: what a contract's code, slots or beacon answer is
chosen when it is first read and remembered in `reads`, so a run covers every
small chain. `Reorg` lets the endpoint serve another block under the pinned
number between any two calls. An abandoned block is assumed not to come back:
a chain that leaves a block and returns to it between the reads and the closing
comparison is outside what the code can notice. Both budgets are charged
before a request is sent, as in `_RpcClient.call`. `Bind` is the use that
`_bind_verified_source` makes of the result.

### Verdict

The operators follow the functions of `preflight.py` and of the three
analyzers, in their order of tests; `CheckDescriptor` and
`PreflightTransaction` are the two entry points, and a state holds what each of
them said. Text is reduced to what the policy reads in it: the intent a format
states and whether a label names an argument's role. Findings below MEDIUM are
left out, for no gate reads them. A descriptor is a set of entries, a function
with its format; a call resolves to one of them, and the arguments of a function
differ in type.

### HostedService

`Boot` turns an environment into a runtime, or is refused. The environment is
abstracted to what the parsers tell apart (`Env`), and `Accepts` is the
agreement that `HostedSettings.from_env` demands; duplicate tenants pass the
settings and are refused by the authenticator (`AccessBuilds`). The runtime is
the set of parts that are not `None`.

| Action | Code (`api.py`) |
|---|---|
| `Request`, `Receive`, `Disconnect` | `MaxBodySizeMiddleware`: the declared length, then message by message; a disconnection is passed on and ends the request |
| `Enter` | `transaction_preflight` up to the first await: unreadable body, mode, API key, payment, in the code's order; the assertions on parts of the runtime are explicit outcomes |
| `Fail`, `Serve`, `Settle`, `Cancel` | the rest of the handler as one step; a settlement that is confirmed moved the money, one that failed may have (`paid`) |
| `Expire` | an entry lapses or is evicted, at any time |

The paths' interiors are `ApiKeyPreflight` and `PaidPreflight`; what this module
adds is their composition: one process, both kinds of credential in one
request, stores that must not be mixed up, and the parts of the runtime that a
path touches.

### McpServer

A line is its length and what its text turns out to be. The client is
environment: it writes lines in bursts (`Begin`, `GoOn`) and closes its end
anywhere (`Close`). The server is `Read`, one turn of the loop in `main()`, and
`Discard`, a turn of its inner loop that skips the rest of an oversized line.
Reads return at most `MaxLine + 1` bytes and block as `readline` does. What a
piece of a line reads like is left open (`Reading`): the tail of an oversized
line could be any message. A beginning cut off by the end of the stream is the
line itself when only blanks and the newline are missing, for the code strips
them (`last` is where the text ends); a shorter beginning of an object or a
scalar is no message, and one of a line that is no JSON may be any. `Dispatch`
has the methods and the ways in which a tool call ends.

### Watch

The registry's descriptors, the deployed code behind them, and the state file,
which survives the runs. `Start` reads it, `Examine` is one turn of the loop
for one descriptor, `Truncate` and `Fill` are the two halves of `write_text`,
`Stop` is an exception or a kill. Between all of these a proxy may be upgraded
(`Upgrade`) and a lookup may name no implementation. A run is over any
descriptors named on the command line, in any order. `recorded` is history: the
baseline that the first run, or the last one with `--init`, saw. When the
operator removes a torn file the history starts again (`Remove`): that the
baselines are lost with the file is outside `BaselineFaithful`.
`QuietIsAccounted` says what exit code 0 means for each status a descriptor may
have. It means least for `BASELINE`: `main` leaves the loop before `diff`, so the
first run and one with `--init` exit with 0 whatever the screens cover. And a
lookup that names no implementation leaves none to compare; the property then
covers functions only.

## Runs

| Run | Instance | Shows |
|---|---|---|
| `store` | both modes; 3 keys, 2 bodies, 2 entries, 3 tokens, 3 ticks | counters exact and memory bounded, replays faithful, refinement of `ReplayLedger` |
| `paid_safety` | 3 requests, 2 keys, 3 proofs over 2 authorizations, clock to 4 | all safety properties of the paid path, refinement of `PaidPromise` |
| `source` | 3 threads that call again and again, 3 keys, 2 entries, 2 bytes | single flight, no lost wakeup, exact bounded tables, fresh answers, a call returns unless it is overtaken without end |
| `bucket` | 1 tenant, capacity 7, rate 3, costs up to 8, readings 0..6 | bounded admission, Retry-After sufficient unless the clock was behind |
| `resolver` | 4 addresses, 3 bytecodes, 2 hops, 2 blocks under one number | results of one block, sound paths, no cycles, budgets that suffice |
| `api_key` | 3 requests, 3 tenants (one disabled), 2 keys, 2 entries | every attempt is charged, replays stay with their tenant, work in flight is safe from other tenants |
| `verdict` | 17 functions, screens with up to two faults; pairs of functions | the worst finding decides, cleared means shown, no grant but that of NFT 0 is cleared, the descriptor's verdict stands for its calls |
| `verdict_token_id` | the same | finding: a token identifier is taken for an allowance |
| `mcp` | 3 lines of 24 kinds, lengths on both sides of the limit | each line answered once at most, in order and with its own id; every request answered |
| `hosted` | every environment; 2 requests, 2 tenants, 2 proofs, 1 key | accepted settings have the parts the handler needs; verdicts are paid for once and one way; bodies are whole |
| `watch` | a proxy with 4 implementations and a plain contract | baselines are never replaced by drift; what exit code 0 means for each descriptor |
| `watch_upgrade` | the same | finding: an upgrade to unverified code exits with 0 |

Bounds. Every bound is a named constant (`MaxTime`, `MaxTokens`,
`LastArrival`, `MaxLines`, `MaxChunk`). In `store` three tokens are enough for an owner, the
one who replaced it and a bystander, and three ticks let both TTLs pass one
after the other. In `paid_safety` two of the three proofs wrap the same
authorization under different keys and two share a key; three requests give a
payer, a rewrapped retry and an interloper on the key. The times keep the
code's order: verification (1) < reservation (2) < claim (4), a payment window
of 2, one authorization valid beyond the window at first (the limit of the
window is needed for it), a clock step of 1, and the horizon lets a tombstone
lapse. A claim that is in use under another call (`claim_conflict`) is not
reached within these bounds; the theorems cover it. In `source` sizes 1, 2 and 3
against 2 bytes give fits, evictions and a result that cannot be cached; two
entries against three keys make both limits bite, and one tick against TTLs of
one expires both tables. Buckets do not interact, so one tenant suffices; rate 3 divides
neither the capacity nor most costs, so rounding happens. In `api_key` two
tenants and two keys make four slots for two entries, so the store fills with
the work of one tenant and the results of another; two tokens against three
requests reach the quota, and the reservation TTL of one tick against a result
TTL of two keeps the code's order. In `resolver` a chain of two hops out of
four addresses includes both kinds of proxy, their mixture and every cycle
through either; the call budget is the longest walk, 16, and two more, as the
code's 28 is 26 and two more, and the HTTP budget four more than that, as 32 is
to 28. In `verdict` two faulty fields suffice for the interplay of the
analyzers, which look at one field at a time: one fault to trip an analyzer
and one to be hidden by it; two functions suffice for one to hide the other; the
theorems lift both bounds. In `mcp` the limit is
three bytes and lines have 1 to 9: they fit, are oversized within one read, or
need a further read of one byte, of a full chunk, or two more; some end in
blanks, so that a read cut off by the end of the stream has all their text;
three lines put one before and one behind an oversized one. In `hosted` two requests are what a
replay, a conflict and a shared slot take, and a limit of two bytes with messages
of up to three has bodies that pass it at once and in pieces. In `watch` the
proxy's implementations are covered, uncovered, equal in functions but not in
bytes, and unverified; runs are unbounded in number. Symmetry is used for
requests, keys, bodies, addresses and proofs, as far as they are
interchangeable, and only in runs without liveness.

Fairness. `source` assumes that a notified thread gets the lock again and that
the resolver ends (it has a deadline); it does not assume that new calls
arrive, or that a notified thread gets the lock before they do: weak fairness of
`LookAgain` only says that it gets it some time. `mcp` assumes that the server,
a loop that waits only for input, takes the next turn when it can: that tools
end, and that writing to stdout does not block for ever. Nothing is assumed of
the client, which may stop writing inside a line for ever.

## Findings

* `verdict_token_id`: a test demands that the largest ERC-721 identifier is not
  called an unlimited allowance. The role of the argument is found with
  underscores ignored, the allowance without: `approve(address, uint256
  token_id)` must be presented as an NFT approval and is still reported as
  `UNLIMITED_APPROVAL`. Identifier 0 counts as a revocation of an allowance, so
  the grant of NFT 0 on a screen that says "approve nft" is cleared, where
  `comprehend.py` rates such a grant HIGH. `ClearedGrantIsTokenZero` says that no
  other grant is.
* `watch_upgrade`: the watch promises that a changed implementation is CRITICAL
  and exits non-zero. When no explorer has the new implementation's ABI,
  `live_state` returns nothing although it knows the new address; the
  descriptor is `UNRESOLVABLE` and the exit code 0.

More disagreements can be read off traces and have no run of their own.

* An invitation after the money moved. `docs/HOSTED-API.md` (line 297) says that
  an authorization whose settlement was submitted "requires reconciliation
  instead of advertising an unsafe retry". Its own handler and a verified retry
  keep to that (`InvitationsAreSafe`). But a second request with the same
  authorization that is refused before the claim store is asked, because its
  window has closed, the facilitator's verify refuses it or a replay has another
  proof, is answered 402 with a fresh challenge, and a retryable failure of
  verify with Retry-After; so is one whose key is in use, or whose store is
  full, or whose own claim lapsed while its source was resolved and was taken
  and spent by another. The code does not look at the claims there.
* Retry-After under a clock that is behind. The bucket refills from the latest
  reading ever seen (`access.py`, line 438), Retry-After counts from the missing
  tokens alone (line 448): a client refused while the clock is behind returns too
  early by as much as the clock is behind.
* A quiet first run of the watch (`watch.py`, lines 97 to 100), whatever the
  screens cover.

Two concern the paid ledgers. `docs/HOSTED-API.md` (line 237) promises that paid results
and claims remain paired; a handler cancelled during settlement leaves a
committed claim and no result. A comment in
`_commit_terminal_payment_failure` (`api.py`, line 724) speaks of a live
tombstone when the commit fails; it fails only when the reservation has
lapsed, and then the key is free. Neither endangers the money:
`AtMostOneSubmission` holds in both.

## Proofs

All theorems hold for every value of the constants that satisfies the named
assumptions, checked by TLAPS. Every invariant and every action property of a
run is also a theorem, with the exception of the two liveness properties.

*CollectionLemmas* has what the stores' proofs keep needing and the library does
not state: that a sum over a finite set, defined by recursion through a chosen
element, may be split at any element (`SumRemove`), and how a list without
repetitions (`Lists`) behaves under deletion, move to the end and selection: the
OrderedDict. Induction over numbers and finite sets is made first-order: what
is to be shown is a set of good values (`NatUp`, `SetInduction`,
`SubsetInduction`), and a bad value has a least one below it.

*IdempotencyStoreProofs* (`StoreAssumption`, `NoneAssumption`, `KeysAssumption`:
finitely many keys). The inductive invariant `StoreInv` has three layers.
`EntryOK`: a present entry carries a token that was handed out for this key and
fingerprint; a reserved one has published nothing, a complete one is what its
token published, for the TTL from then. `Sound`: the order lists the present
keys once each, and both counters are sums over the entries. `Bounded`: both
limits hold. The counters must be exact for the limits to be inductive, and the
order must be sound for the eviction loop to reach every completed entry: that
is why `make room` succeeds for the owner of a reservation. `CountersAreExact`
and `ReplaysAreFaithful` are parts of it. `PromiseIsKept` is the refinement:
each method, whatever sweep it begins with, is a step of `ReplayLedger` on the
purged entries or leaves it as it is; its core is that purging at a later time
undoes an earlier purge, and that an eviction before the purge is one after it.

*SourceCacheProofs* (`CacheAssumption`). `FlightInv` is the conjunction of
`ThreadsOK`, `SingleFlight` and `NoLostWakeup`: one leader per key is needed to
conclude that a leader who leaves takes exactly its own key out of flight, and
that everybody who waited for it is woken. Proved for `Look` and for `Leave`
once, and lifted to the actions. `CacheInv` gives `CacheBounded` for any number
of threads: the byte counter is the sum over the table, both tables agree with
their orders, and there are never more keys in flight than entries allowed.
`OnlyFreshIsServed` needs that a hit is looked up and tested at one time.

*PaidPreflightProofs* (`PaidAssumption`, `LimitsAssumption`,
`PaidNoneAssumption`). `AtMostOneSubmission` is not inductive. `WindowInv`
records what the window check established when the request was admitted: its
authorization runs out at most `MaxSkew + MaxTimeout` after that. `TombstoneInv`
says that the claim of a submitted authorization is complete and does not expire
before `ValidBefore + VerifyBound`, which follows when it is committed from
`MaxSkew + MaxTimeout + VerifyBound <= ClaimTTL`. A second request can then
reach the claim store only while the tombstone stands. The inequality is the
real content: the code's 300 s window against its 900 s claim leaves 600 s for
the verifier and for clock steps. That a verify returns within `VerifyBound` is
an assumption on the environment: the client's socket timeout bounds each read,
not the exchange. `KeyInv` gives `WorkProtected`: the entry of a handler at work
is, field by field, the one it inserted, so another request's commit or abort
(`ReleaseSpares`, `CommitSpares`) cannot touch it. The other properties rest on
four more invariants. `AnswerInv` ties each answer to the wire: served means
executed, declined means failed, anything but these and unknown means not
submitted; half of `NoFreeResult` follows. `InvitationsAreSafe` is an action
property, proved from it for the handler that submitted, and from `TombstoneInv`
for the claim store and the holder of a claim: where the claim of an
authorization is absent, reserved or owned by somebody at work, nobody has
submitted it. `StoredInv` says that a stored outcome is that of a submitted request with its key, body and
proof, `ReplayedInv` that a replay went to an equal job; they give
`ReplayBinding` and the other half. `HolderInv` says who may hold a reservation,
which makes `FailureReleases` an invariant although it speaks of what is not
there. `PaidPromiseIsKept` is the refinement of `PaidPromise`, one lemma for
each action. Arrival is an `Ask`, a `Replay` (by `StoredInv`) or a `Refuse`; a
handler that ends before submission refuses while nothing is on the wire
(`WindowInv`). The step that needs the most is submission: it finds its claim
reserved, the claim of an authorization that was ever submitted never is
(`TombstoneInv`), so nobody had submitted it before, whether or not the
tombstone still stands.

*ApiKeyPreflightProofs* (`ApiKeyAssumption`). The inductive invariant is
`TypeOK`, `StoreInv` (a reservation is held by a request at work or cancelled,
in its slot, for its call and until its time; a completed entry is the result
of a request that was served in that slot), `PhaseInv` (an answered request is
done), `ReplayInv` (a replay names a served request with the same slot and
call) and `WorkProtected`. `ReplayBinding`
and `OnlyWorkHolds` follow. `WorkProtected` alone is not inductive: that a
stale handler of the same key cannot release or overwrite a newer one's entry
needs `StoreInv`. `AttemptsAreCharged` has an invariant of its own, `QuotaInv`:
that the requests charged to a tenant are finitely many is proved along, since
each step adds one at most, and nothing is assumed about the number of requests.
`RefusalsAreFree` is an action property: only `Reject` evicts for a request that
is then refused.

*VerifiedSourceProofs* (`ResolverAssumption`: at least `5 * MaxHops + 6` RPC calls
and more HTTP requests than that). `ForkInv` says that forks of `reads` lie
between the pinned one and the present one, so equality at the end makes them
all the pinned one. `BudgetInv` gives the calls spent at each step of a hop.
`PathInv` keeps, for the hops so far and for the contract being read, the reads
they rest on. `CycleInv` strengthens `NoCycle` by what the walk has tested ahead:
while a beacon is asked, it is not one of the contracts visited.

*VerdictProofs* (`VerdictAssumption`). `AnalyzerGate`, `CallGate` and
`DescriptorGate` compute the gate from the findings, whatever the order of the
tests and however many functions there are; `WorstEntry` says that some function
alone deserves the gate of the whole descriptor; `BoundCall` says what a call without binding findings shows. The
invariant `Consistent` says that a state's verdicts are those of its descriptor
and call; the properties follow from it and the lemmas.

*PeripheryProofs* has four independent parts, each on its component's own
assumption; the components share no variable, only their module.

- `TokenBucket` (`BucketAssumption`: positive capacities, rates, costs).
  `AdmissionBound` carries the bucket's content along, which makes it inductive:
  a refill adds at most rate times the advance of `last` (`RefillGain`), an
  admission moves grains from `tokens` to `spent`. `RetrySuffices` is stated for
  the first refusal since the last admission at a reading that was not behind,
  and is kept by later refusals
  because they keep the refill; it starts from `RetryAfterCovers`, the property
  of the ceiling division.
- `HostedService` (`HostedAssumption`). `HostedInv` consists of the types,
  `HostedParts` (which parts a runtime of each mode has: this is what
  `Accepts` must guarantee for `ConfigurationServes`), `HostedRequest` (how far a
  request is, what it was charged and what it may have been told), `HostedReplay`
  and `HostedLedger`. The last is the point: an entry of the shared ledger names
  a request of the entry's own path, key, tenant and body that has its final
  answer, so a replay cannot cross from one credential to the other, and since
  the request it names never changes again (`HostedFinal`), what was replayed
  stays justified after the entry is gone.
- `Watch` (`WatchAssumption`). `WatchInv` relates three copies of a baseline:
  the file's, the run's and the history's. A run's copy differs from
  `recorded` only where the run itself took a baseline, and never where it noted
  drift; the exit code sums up the notes of the descriptors done so far.
- `McpServer` (`McpAssumption`). `ServerInv` says where the server may stand in
  the client's lines: inside a line only while it discards one of which it has
  passed over more than `MaxLine` bytes, or for ever, at the end of the stream.
  `OutInv` says that the replies so far are those which the lines before call
  for. `Said` collects the replies, because an invariant of each reply is
  easier to keep than one of each position.

`TypeCorrect` of these modules, `StoreInvariant`, `HostedInvariant`,
`WatchInvariant`, `McpInvariant` and `TombstoneHolds` have no line in a run: they
are the invariants the other proofs rest on. The inductive invariants of the
periphery were checked by TLC on the instances of the runs before they were
proved.

Some assumptions exist for the prover only: that `None` is none of the values it
is told from (`NoneAssumption` and its like, `None \notin Int` of the bucket). TLC
has it as a model value, and TLA+ leaves the comparison of untyped values open.

Checked by TLC only: `ReturnsUnlessOvertaken` and `EveryRequestAnswered`, liveness under
fairness, which this prover does not reach.

## Not modelled

Restarts of the service (its state is documented as process-local). JSON,
logging, headers and the wording of problems; `/health` and the OpenAPI
document. The contents of calldata, ABI and receipts beyond what the policy
reads. The byte-by-byte dispatch scan of `verified_source.py`: its result is a
property of the bytecode, which `VerifiedSource` takes as given, and a model of
it would be the scan again. The redaction of caller text in MCP replies, and
what the tools compute before they return or raise (the verdict tools are
`Verdict`). Overlapping runs of the watch: the job has no lock and relies on its
schedule. The scripts that only read and write files or rank text. That an
abandoned reservation disappears in the end is not a run of its own: expiry is
a comparison with the clock, and what matters about it, that nobody is harmed
before and after, is in the safety properties.

## Plan

1. Done: all modules above; every safety and action property of the runs is
   proved.
2. Composition: that each step of `PaidPreflight` and of `ApiKeyPreflight` acts
   on its stores by steps of `ReplayLedger` only. Today the agreement is by use
   of the same operators (`Ledger`), not by a theorem. And a promise of the
   API-key path, as `PaidPromise` is for the paid one.
3. The checks of calldata and of descriptors in `preflight.py`, as far as they
   are more than parsing.
