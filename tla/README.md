# TLA+ models of the proxy's transaction processor

This directory holds TLA+ models of the Go sources under `src/`:
- the modules, with the properties they state;
- the TLC configurations that model-check those properties on small pools;
- an abstract specification, `Failover`, of what the observer loops promise, with the refinements that show two of the loops implement it;
- TLAPS proofs that establish the main properties of `TxSend`, `AuctionList`, `TxQuery` and `ApiHandlers` for every value of the constants, and that `AuctionList` implements `Failover`.

`spec.md` describes a newer version of the proxy than the code under `src/`.
Where the two disagree, the models follow the code, and the disagreement is recorded as a finding in `PROJECT.json`.

## The system and its parts

A client request reaches an API handler, which calls the facade, which calls a processor.
A processor turns the request into one or more HTTP calls to *observers*, which are the nodes of the chain, one set per shard plus the metachain.
A processor works with four components:
- the **observer pool**: `GetObservers(shard)` returns the observers of one shard, and `GetAllObservers()` returns the flat list;
- the **shard router**: `ComputeShardId(address)`;
- the **address codec**: `Decode(bech32/hex)`;
- the **upstream caller**: `CallPostRestEndPoint` and `CallGetRestEndPoint`.

None of those four is under `src/`. They are modelled from spec components A-D.
The pool, router and codec are immutable after start-up (spec §5), so they become CONSTANTS.
The upstream caller is the only suspension point of a request (spec §5). It becomes a single step whose reply is chosen nondeterministically.

The code under `src/`:

| source | part | module |
|---|---|---|
| `src/process/validatorStatisticsProcessorAuction.go` lines 33-340 | `TransactionProcessor` | `TxSend`, `TxMultiSend`, `TxQuery` |
| same file, lines 1-32 | `ValidatorStatisticsProcessor.GetAuctionList` | `AuctionList` |
| same file, lines 341-2031 | tests of a newer version | not modelled (tests) |
| spec §7, the retry policy | the contract the observer loops share | `Failover` |
| `src/api/groups/baseNetworkGroup.go` | network API group | `ApiHandlers` |
| `src/unnamed/part_000` | vm-values handlers | `ApiHandlers` |
| `src/unnamed/part_003` | address handlers | `ApiHandlers` |
| `src/unnamed/part_001`, `part_002`, `part_004` | facade interface, mock facade, parser tests | not modelled (no behaviour) |

## Modules

### `ObserverPool` (spec-modelled)

The CONSTANTS of the pool are:
- `Shards`, including `Metachain`;
- `Observers` and `ObserverShard`;
- `ShardObservers[s]`, the result of `GetObservers(s)`, where `<< >>` stands for its error;
- `AllObservers`, the result of `GetAllObservers()`.

The CONSTANTS of the address codec and router are:
- `Addresses`;
- `AddressDecodes[a]`, true when `Decode(a)` succeeds;
- `AddressShard[a]`, which is `NoShard` when `ComputeShardId` fails.

`PoolAssumption` states what the proofs need:
- the functions are well-typed;
- every observer list is injective;
- `NoShard` is not a shard.

`PoolSplitAssumption` states that each shard list is the flat list filtered by shard, as the pool builds it.

The module also defines:
- `checkTransactionFields`, translated from lines 312-338: sender decodes, receiver decodes, and the signature is hex;
- `SenderShard`, translated from the decode and `ComputeShardId` steps of lines 106-114.

### `Failover`: the contract of the observer loops (spec-modelled)

Spec §7 states one retry policy for every loop over observers:
- validation errors never trigger fan-out;
- transport errors, timeouts, 404 and 408 are absorbed by the retry loop;
- any other reply is authoritative and ends the retries.

`Failover` states that policy with each reply reduced to its class: "ok", "unavailable" or "error". Its state is:
- `status`: idle, trying or done;
- `list`: the current request's candidates, in the order they are tried;
- `eligible`: the candidates the request may ask;
- `failed`: how many candidates at the front of `list` were left behind;
- `chosen`: the candidate that served the request, or `NoNode`;
- `heard`: the classes of the replies the request got, in order.

Its actions are:
- `Begin`: a request starts with some list;
- `Refuse`: a request is rejected before any candidate is asked;
- `Skip`: the next candidate is not eligible and is left out unasked;
- `PassOver`: the next candidate is eligible, was asked and answered "unavailable";
- `Serve`: the next candidate is eligible, was asked and answered "ok";
- `Abort`: the next candidate is eligible, was asked and answered "error", which ends the request;
- `GiveUp`: the list is exhausted.

What it rules out is what a slip in a loop would do:
- serving a request from a candidate other than the first one not left behind, or on a reply that is not "ok";
- passing an eligible candidate over on a reply that is not "unavailable", or without asking it;
- going on after an "ok" or an "error" reply;
- giving up with candidates left.

Each refinement maps `heard` to the classes of the calls' replies, computed by a classifier written from the spec's decision table, not from the code's branches. A slip in the code's own table then breaks the refinement.

`AuctionList` and `TxSend` each define `F == INSTANCE Failover WITH ...` and `FailoverImplemented == F!Spec`. Both refinements are proved with TLAPS; the `txsend` run also checks it.
`TxQuery` does not: `GetTransactionStatus` asks every observer and has no failover.

### `TxSend`: `SendTransaction` and `TransactionCostRequest` (lines 100-229)

State:
- `phase`: idle, calling or done;
- `op`: send or cost;
- `targets`: the observer list the loop ranges over;
- `idx`: the loop position;
- `calls`: the POSTs of this request with their replies;
- `result`: the returned (status, hash-from, error);
- `submitted`: a history variable recording which observers actually hold the transaction.

Actions:
- `StartSend(tx)` has one disjunct per early return:
  - an invalid tx returns 400;
  - a sender without a shard returns 500 ComputeShardId;
  - a shard without observers returns 500 MissingObserver;
  - otherwise the loop starts.
- `SendCall` is one loop iteration. The decision table is `Accepted` (200 and no error, line 125) and `Unavailable` (404 or 408, line 135). Anything else returns `respCode, "", err` (line 141).
- `SendExhausted` is line 144.
- `StartCost`, `CostSkipMetachain`, `CostCall` and `CostExhausted` model lines 195-228 the same way.

A reply is a status in {200, 400, 404, 408, 500} and a Go error flag.
`Delivered(r, late)` records that the observer got the transaction: it answered 200, even when the body then failed to decode, or it answered 408 after receiving it.

The refinement mapping to `Failover`:
- `list` is `targets`, the loop's whole list;
- `eligible` is the set of observers the operation may call: all of them for a send, and the non-metachain ones for a cost request;
- `failed` is `idx - 1`;
- `chosen` is `result.from` once done;
- `heard` is the calls' replies classified by `ReplyClass`, spec 4.E.2's table: 200 without error is "ok", 404 and 408 are "unavailable", anything else is "error".

A metachain observer skipped by `CostSkipMetachain` is then a `Skip`.
An unavailable reply is a `PassOver`, and an accepted one is `Serve`.
An authoritative reply is `Abort`. An early return of `StartSend` or `StartCost` is `Refuse`.

### `TxMultiSend`: `SendMultipleTransactions` with `getTxsByShardId` (lines 148-192, 293-310)

The actions are:
- `StartMulti(txs)` drops invalid transactions, returns `NoValidTransactionToSend` when none is left, and groups the rest by sender shard.
- `NextShard` picks *any* shard not yet visited, because Go map iteration order is unspecified. If `GetObservers` fails for that shard, the whole call returns `(0, ErrMissingObserver)`.
- `MultiCall` is one POST of the batch. A 200 without error adds `numOfTxs` and breaks out of the observer loop. Any other reply is logged and the loop moves on.
- `ShardExhausted` moves to the next map entry.
- `MultiDone` returns the total.

The history variable `accepted[s]` records what shard `s`'s observer reported.

Two helpers stand for loops of the code:
- `SubSeqAt(seq, K)` is the sequence of the elements of `seq` at the positions in `K`, in order: what a loop that appends the kept elements and `continue`s past the others builds. It is used for the validation loop (lines 151-162), for each group of `getTxsByShardId` and for the per-shard view `ShardCalls` of the calls. `RankIn(K, i)` is the position a kept element gets.
- `ShardSum(f)` is the sum of `f[s]` over the shards, written as the number of pairs `<<s, k>>` with `k \in 1..f[s]` (`SumPairs`).

Neither uses `SelectSeq` or a fold, so the provers can reason about them. TLC confirmed on every batch and every reachable state of the `txmultisend` run that they agree with the `SelectSeq` and `SumFunction` forms they replaced, and the three mutants still break the properties.
`ErrorsAssumption` says that `None`, the nil error, is none of the errors the call returns.

### `TxQuery`: `GetTransaction` and `GetTransactionStatus` with `parseTxStatusResponses` (lines 231-291)

Both operations range over `GetAllObservers()`.

`GetTxCall` moves on after an error and returns the first answer. `lastErr` is the outer `err` variable, and `GetTxExhausted` returns it.

`StatusCall` appends a successful answer under its observer's shard and skips an error.
`StatusParse` applies `parseTxStatusResponses`, which is translated step by step:
- drop "unknown" answers: `OkIndices(answers)` are the positions of a shard's answers that are not "unknown";
- `okResponses` gains a key only on append, so its keys are `OkShards`, the shards with such an answer;
- more than one key is an error;
- within the one key, an answer different from the first is an error. The model says this as: the kept answers form a single value;
- no key is "unknown".

This formulation avoids `SelectSeq`, about which the provers know nothing, and was checked to give the same results on every reachable state.

### `AuctionList`: `GetAuctionList` / `getAuctionListFromApi` (lines 8-31)

`StartAuction` is the `GetObservers(MetachainShardId)` lookup. `AuctionCall` is one GET, and `AuctionExhausted` returns `ErrAuctionListNotAvailable`.

The code declares `valStatsResponse` once, before the loop, and every call decodes into it. The model keeps that struct as `valStats`, the observer whose list it currently holds:
- Go's JSON decoder fills the remaining fields even when one field has the wrong type, and still reports an error. So a failed call may or may not overwrite `valStats` (`wroteData`).
- A call without error always writes it, because the observer's reply always has `data` (spec §6). That is the reply contract `ValidReply`.

The refinement mapping to `Failover`:
- `list` is `Meta`;
- `failed` is `idx - 1`;
- `chosen` is `result.data` once done;
- `heard` is the calls' replies classified by `AuctionReplyClass`: a GET without error is "ok", a failed one "unavailable" (spec 4.E: the next observer is asked).

A failed GET is `PassOver`, a successful one `Serve`, and `AuctionExhausted` is `GiveUp`. A missing metachain is `Refuse`.
Because `chosen` is the data returned, a return of data that a failed call left in `valStats` would be a `Serve` of the wrong candidate.

### `ApiHandlers`: the vm-values, address and network handlers

A gin handler runs to completion on its own goroutine and shares no mutable state, so each handler is one step from request to response.

The middleware puts the same values in every request context. `ctx` holds what the two keys the code reads hold: `elrondProxyFacade` and `elrondFacade`. For each key the value is one of:
- `absent`: `MustGet` panics;
- `wrong`: the type assertion fails and the handler answers 500 `InvalidAppContext`;
- `facade`: the handler proceeds.

`ctx` is chosen in `Init` and never changes.

A request is a record of the facts the handlers branch on:
- whether the address and key are empty;
- whether the body binds;
- whether all args are hex;
- whether the shard parses;
- whether the VM's bytes form a decimal.

Each handler's early returns are the disjuncts of its action:
- `VmValue` models `vmValueFromAccount` and the three formatting handlers;
- `AddressRead` models `getAccount`/`getTransactions` and the four handlers over them;
- `ValueForKey` models `GetValueForKey`;
- `NewNetworkGroup` models the constructor's type assertion;
- `Network` models the five network handlers.

`facadeCall` records which facade method was called, with which address and key, and whether it failed.

## Runs

| run | checks | shows |
|---|---|---|
| `txsend` (pass) | `TypeOK`, `OutcomeFromFirstDecisiveReply`, `NoDuplicateSubmission`, `CallOnlyAfterSkip`, `FailoverImplemented` | See below. |
| `txsend_nil_error` (violation) | `NilErrorOnlyWithHash` | A 400 reply without a Go error comes back as `(400, "", nil)`: no hash, no error. |
| `txquery` (pass) | `TypeOK`, `StatusMatchesReference`, `GetTransactionFirstAnswer` | See below. |
| `txquery_first_observer` (violation) | `StatusPerSpecFirstObserver` | The first replica answers "unknown" and the second a real status, or the two replicas of s0 disagree. The code then differs from spec 4.E.7's first-answer-per-shard rule. |
| `txmultisend` (pass) | `TypeOK`, `MultiOutcomeFaithful` | See below. |
| `txmultisend_missing_observer` (violation) | `MultiReportsAccepted` | s0's batch is accepted, then shard s1 (no observers) is visited, and the call returns 0. |
| `txmultisend_retry_any_failure` (violation) | `MultiStopsOnAuthoritativeReply` | A reply whose status is not 200, 404 or 408 is authoritative (spec §7). In the trace o1 answers 400 without a Go error, and the same batch is then posted to o2. |
| `handlers` (pass) | `TypeOK`, `DataOnlyFromValidatedCall` | A handler writes data only when it found the facade, all its input checks passed, and its facade call succeeded. It never calls the facade on input it rejects; a key lookup reaches the facade only with a non-empty address. |
| `handlers_bigint_status` (violation) | `ErrorNeverWith200` | `/vm-values/int` with a non-decimal result answers HTTP 200 with an error body (part_000 line 92). |
| `handlers_value_for_key_panic` (violation) | `NoPanicWithFacadeInstalled` | With the facade under `elrondProxyFacade`, `GetValueForKey` panics in `MustGet("elrondFacade")` (part_003 line 98). |
| `handlers_empty_key` (violation) | `FacadeNeverGetsEmptyKey` | An empty `:key` reaches the facade, because the second check re-tests the address (part_003 line 111). |
| `auction` (pass) | `TypeOK`, `AuctionFromFirstAnswer` | See below. |

What the passing runs show:
- **`txsend`**:
  - The loop's calls are a prefix of the targets in order, with metachain observers skipped for cost.
  - The result is fixed by the first reply that is not a skip.
  - Only a 404/408 leads to another call.
  - A second observer receives the transaction only after the earlier one timed out.
  - Both loops implement `Failover`, with the cost loop's candidates being the non-metachain observers and each reply taken by its spec class.
- **`txquery`**:
  - The status equals a set-based reference reconciliation of all answers that are not "unknown".
  - `GetTransaction` returns the first answering observer's transaction, or an error after asking them all. It never returns `(nil, nil)`.
- **`auction`**: the list returned belongs to the first metachain observer that answered without error. Data that a failed call decoded into the reused struct is never returned. `AuctionListNotAvailable` comes only after every observer failed. That the loop implements `Failover` is proved (below) rather than checked by the run: on this loop it says what `AuctionFromFirstAnswer` says.
- **`txmultisend`**: in every map order, a successful call tried each shard's observers in order until the first acceptance, and returns exactly the sum of the accepted counts.

Every property of a passing run has a mutant in `PROJECT.json`. A mutant is a plausible slip in the mapped code, and TLC finds the property violated when the mutant replaces the code's definition. The mutants are:
- a loop index starting at 0;
- a 200 counted despite a decode error;
- a retry on every failure;
- a retry on 500;
- the unknown filter left out of `parseTxStatusResponses`;
- `err :=` shadowing in `GetTransaction`;
- the ComputeShardId `continue` left out;
- stopping the multi-send loop on a 400/500;
- the hex-arg loop left out of `vmValueFromAccount`;
- a zero status on its error;
- the auction loop returning whatever the error;
- the auction loop index starting at 0;
- a retry on 500, for `FailoverImplemented` as well: the contract then sees an observer passed over after an "error" reply.

### Bounds

All three models use one pool with three shards:
- `s0` has two observers, so a retry happens and two replicas can disagree;
- `s1` has none, so `GetObservers` fails;
- the metachain has one observer, placed between the others in the flat list, so the cost loop skips it in the middle.

The addresses cover every early return:
- one decodes and is in s0;
- one is in s1;
- one decodes but has no shard;
- one does not decode.

Replies range over all five status classes, with and without a Go error. Statuses are `unknown`, `pending` and `executed`.

Multi-send batches hold up to two transactions (`MaxBatch = 2`). They are drawn from one valid transaction per sender shard and one with a signature that is not hex. That is enough to have two groups, an invalid tx dropped, and the missing-observer shard visited before or after an accepted one.

The auction run uses a pool with four metachain observers. A failed call that decoded data can then be followed by further failures before a success.

The pool's metachain always has observers, so the auction run never takes the `GetObservers` error branch of `StartAuction`. That branch is one line of code, and it is only covered by review.

The handler run enumerates every combination of the context values and the request facts, with the facade call succeeding or failing.

The loops run at most as long as the observer lists, so every state space is finite without further caps. The run sizes in distinct states are:
- `txsend`: 1285;
- `txquery`: 2974;
- `txmultisend`: 176539;
- `handlers`: 13074;
- `auction`: 218.

### Fairness and termination

No liveness property is checked. Each observer loop is a Go `range` loop over a finite slice, so it ends after at most one iteration per observer. Termination therefore rests only on each upstream call returning, and that is the HTTP client's timeout, configured outside `src/`. A liveness property here would restate that assumption.
The specifications carry no fairness. The passing runs keep deadlock checking on: an idle or finished request can always start a new one, so no state of the model is stuck.

## Proofs

Six modules hold proofs, and `tlapm` checks every one of them to the last leaf:
- `PoolLemmas`: facts about the pool that the other proofs cite, each derived from `PoolAssumption`:
  - the lists have their types;
  - no shard list names an observer twice;
  - `NoShard` is not a shard;
  - a sender shard is a shard or `NoShard`.
- `TxSendProofs`;
- `AuctionListProofs`;
- `TxQueryProofs`;
- `TxMultiSendProofs`;
- `ApiHandlersProofs`.

### `TxSendProofs`

These proofs hold for every pool that satisfies `PoolAssumption`, and for every `None` that satisfies `SendAssumption` (the nil address or error is no observer and no error):
- `TypeCorrect`: `Spec => []TypeOK`.
- `NoDuplicateSubmissionHolds`: `Spec => []NoDuplicateSubmission`.
- `CallOnlyAfterSkipHolds`: `Spec => CallOnlyAfterSkip`, an action property.

`NoDuplicateSubmission` is not inductive on its own. It is implied by `IInv`, the conjunction of `TypeOK` and three parts:
- `SkipsBeforeLast`: every call but the last was a 404/408, and while the loop runs, the last one was too.
- `SendCallsFollowTargets`:
  - for send, `targets` is injective;
  - the i-th call went to `targets[i]`;
  - while calling, exactly `idx - 1` calls were made.
- `SubmittedByCalls`: every observer in `submitted` has a call that answered 200 or 408, and a cost request submits nothing.

The argument for `NoDuplicateSubmission`:
- Two distinct submitted observers were called at positions i < j.
- Call i is not the last call, so it was a skip by `SkipsBeforeLast`.
- It delivered, so it was a 200 or a 408, by `SubmittedByCalls` and injectivity.
- A skip that was a 200 or a 408 can only be a 408.

`IInv` was model-checked as an invariant of `txsend` before it was proved.
The proof is laid out as follows:
- `IInvInit`;
- `IInvStep`, with one case per action and one step per conjunct that the action can disturb;
- an implication lemma;
- the PTL combination.

`CallOnlyAfterSkip` follows from `SkipsBeforeLast`, because a new call is only made while calling.

`TxSendImplementsFailover`: `Spec => FailoverImplemented`, that is `Spec => F!Spec`. The proof has the same layout as `AuctionImplementsFailover`:
- `TxSendRefinesInit`: `Init => F!Init`;
- `TxSendRefinesStep`: `RInv /\ [Next]_vars => [F!Next]_FVars`, where `FVars` is the tuple of mapped variables.
  - `StartRefines`: an early return of `StartSend` or `StartCost` is `Refuse`, and a loop start is `Begin`.
  - `CallRefines`: an unavailable reply is `PassOver`, an accepted reply is `Serve`, and any other reply is `Abort`. `DecisionMatchesClass` shows that the code's `Accepted`/`Unavailable` table sorts every reply as `ReplyClass` does, and `HeardAppend` that a call appends its reply's class to the mapped `heard`.
  - `CostSkipMetachain` is `Skip`.
  - The exhaustion steps are `GiveUp`.
- the PTL combination with `Spec => []RInv`.

`RInv` adds `LoopWithinTargets` (`idx <= Len(targets) + 1` while calling) to `TypeOK`. It is what makes `failed = Len(list)` hold when the loop is exhausted.
The mapped `eligible` set depends on `op`. `EligibleUnchanged` shows that it does not move while a request runs.

`OutcomeFromFirstDecisiveReplyHolds`: `Spec => []OutcomeFromFirstDecisiveReply`.
The property says where the calls went through a map `pos` from calls to positions in `targets`:
- `pos` is increasing;
- each call went to an eligible observer at its position;
- no eligible observer before the last called one was left out;
- after `SendingRequest`, every eligible observer was called.

It also says how the request ended. The inductive invariant `OInv` is `IInv /\ RInv /\ LoopPositions /\ DoneOutcome`:
- `LoopPositions` ties `pos` to the loop index: every call is at a position `<= idx` (`< idx` while calling), and every eligible observer before `idx` was called;
- `DoneOutcome` says which of four ways a finished request ended: an early error with no call, every eligible observer skipped with `idx = Len(targets) + 1`, an accepted last call, or the last call's error passed through.

When a step appends a call, the witness for `pos` is the old one extended with `idx`. When `CostSkipMetachain` moves `idx` past a metachain observer, the witness is unchanged, because that observer is not eligible. `OInv` was model-checked on `txsend` before it was proved.

### `AuctionListProofs`

These proofs hold for every pool that satisfies `PoolAssumption`, and for every `None` that satisfies `AuctionAssumption`:
- `AuctionTypeCorrect`: `Spec => []TypeOK`.
- `AuctionFromFirstAnswerHolds`: `Spec => []AuctionFromFirstAnswer`.

`AuctionFromFirstAnswer` speaks only of the final state, so it is not inductive on its own. A step into `done` needs to know what the loop did before. `AInv` adds `CallingFailedSoFar` to it and to `TypeOK`. That conjunct says that while the loop runs:
- `idx <= Len(Meta) + 1`;
- exactly `idx - 1` calls were made;
- the i-th call went to `Meta[i]` and failed.

Then:
- `AuctionCall` with a successful reply ends the loop with that observer's data, and every earlier call failed.
- `AuctionExhausted` fires at `idx = Len(Meta) + 1`, so every metachain observer was called and failed.

`AInv` was model-checked as an invariant of the `auction` run (218 states) before it was proved.

`AuctionImplementsFailover`: `Spec => FailoverImplemented`, that is `Spec => F!Spec`. The proof follows the standard refinement layout:
- `AuctionRefinesInit`: `Init => F!Init`, since `Meta` is a sequence of observers;
- `AuctionRefinesStep`: `AInv /\ [Next]_vars => [F!Next]_AFVars`, with one case per action. A failed GET appends "unavailable" to the mapped `heard` (`AHeardAppend`), a successful one "ok";
- the PTL combination with `Spec => []AInv`.

`AInv` is needed for `AuctionExhausted`. Only `CallingFailedSoFar`'s bound `idx <= Len(Meta) + 1` makes `failed = Len(list)`, the guard of `GiveUp`, hold there.

### `TxQueryProofs`

`GetTransactionFirstAnswerHolds`: `AllObservers # << >> => (Spec => []GetTransactionFirstAnswer)`.

The hypothesis is needed. With an empty pool, `GetTransaction` never enters its loop and returns `(nil, nil)` at line 246, so the property is false. Nothing under `src/` rules out an empty pool, so the hypothesis is part of the theorem rather than an assumption on the constants. This is listed as a hazard in `PROJECT.json`.

The inductive invariant `QInv` adds two parts to the property:
- `GetTypeOK`: the variables the loop uses are typed;
- `GetLoopFailedSoFar`: while the loop runs, `idx - 1` observers were asked in order, all failed, and `lastErr` is set exactly when one was asked.

The last conjunct is what makes the exhaustion branch return an error rather than nil.
`QInv` was model-checked on the `txquery` instance (2974 states) before it was proved.
`QueryAssumption` says that `None`, the nil value, is no status, observer or error.

`QueryTypeCorrect`: `Spec => []TypeOK`, for both operations.

`StatusMatchesReferenceHolds`: `Spec => []StatusMatchesReference`. It rests on two facts:
- `ParseIsReference`: for *every* map of answers `all \in [Shards -> Seq(TxStatuses)]`, `parseTxStatusResponses(all) = ReferenceStatus(AnswerPairs(all))`. `AnswerPairs(all)` is the set of (shard, status) pairs of the answers that are not "unknown". This is the translated parse shown equal to the set-based reference for all inputs, not only the small ones TLC enumerates.
- `StatusInv`: while a status request is served, `KnownAnswers` equals `AnswerPairs(responses)`, and a finished status request returned `parseTxStatusResponses(responses)`.

`StatusInv` is the part that needs induction over the run. A `StatusCall` adds one call to the calls and, when its answer is known and not "unknown", one answer to its shard's slice. The lemmas `KnownAddCall` and `AnswerPairsAppend` show that both sides then gain the same pair.

### `TxMultiSendProofs`

These proofs hold for every pool satisfying `PoolAssumption`, every `MaxBatch \in Nat \ {0}` and every `None` satisfying `ErrorsAssumption`.

The lemmas about the helpers:
- `SubSeqAtType`: `SubSeqAt(seq, K)` is a sequence over the same set, with `Cardinality(K)` elements. It rests on `RankOnto`: ranks are strictly increasing (`RankStrict`), so the rank map is an injection from `K` into `1..Cardinality(K)`, and `FS_Injection` of the library makes it a bijection.
- `SubSeqAtAppend`: appending to `seq` leaves `SubSeqAt` over the old positions unchanged, and adding the new position appends the new element. `CallsOfAppend` follows: a new call extends only its own shard's calls.
- `ShardSumZero` and `ShardSumAdd`: nothing accepted sums to 0; a shard that had accepted 0 and now accepts `v` adds `v` to the sum. Both are facts about the cardinality of disjoint unions (`FS_Union`, `FS_Product`, `FS_Interval`).

The theorems:
- `MultiTypeCorrect`: `Spec => []TypeOK`. The inductive invariant `TInv` adds `GroupsBounded`, that no group is longer than a batch. A reply reports at most the group it was sent, so this bounds `num` and keeps every reply in `Replies`. It also adds `CallingShard`. `BatchGrouping` shows that `getTxsByShardId` of the valid transactions yields such groups.
- `MultiOutcomeFaithfulHolds`: `Spec => []MultiOutcomeFaithful`.

The inductive invariant of `MultiOutcomeFaithfulHolds` is `MInv`. It is `TInv` and, while a request runs or after it returned without error:
- the shards still pending have transactions;
- `CurrentLoop`: in the observer loop, `idx - 1` observers of `cur` were called and none took the batch;
- `ShardHistory(s)` for every shard: its calls are its observers in order and none but the last took the batch. A shard not yet reached has no call. A shard that was left without a taker had every observer called. `accepted[s]` is what its last call reported;
- `total = ShardSum(accepted)`, and a return without error returned `total` with nothing pending.

`MInv` was model-checked on the `txmultisend` instance (176539 states) before it was proved. There is one lemma per action. The `MultiCall` lemma is the core: the call extends `cur`'s history by the next observer, and a reply that takes the batch moves `accepted[cur]` from 0 to its count. `ShardSumAdd` then gives the new total.
The first branch of `StartMulti` and the failing branch of `NextShard` return an error. `ErrorsAssumption` makes those states fall outside the guarded part of `MInv`.

### `ApiHandlersProofs`

These proofs hold for every `None` that satisfies `HandlerAssumption`:
- `HandlerTypeCorrect`: `Spec => []TypeOK`. Every response has status 200, 400 or 500 and a known error.
- `DataOnlyFromValidatedCallHolds`: `Spec => []DataOnlyFromValidatedCall`.

The invariant is inductive together with `TypeOK`, because every handler step writes `route`, `req`, `response` and `facadeCall` anew and leaves `ctx` unchanged. The proof has one case per handler. In each case it splits the handler into:
- the disjuncts that reject the request: they call nothing and write no data (`RejectedPost`);
- the disjunct that calls the facade: the call record is not `None` and says whether the call failed, data is written only when it did not, and for a key lookup the address was checked non-empty (`CalledPost`).

`NewNetworkGroup` changes only `group`, which the invariant does not read.

### Only model-checked

The following are only model-checked:
- The other properties of `TxMultiSend` are counterexample runs (`MultiReportsAccepted`, `MultiStopsOnAuthoritativeReply`), not theorems.
- Liveness, in general, would need fairness and `ENABLED`, which TLAPS cannot reason about here; none is checked (see Fairness and termination).
- The violation runs. They are counterexamples that TLC finds, not theorems.

To make the proofs above possible, definitions that once used `SelectSeq` or a fold were restated without them. They are `parseTxStatusResponses` (via `OkIndices`), the call order of `OutcomeFromFirstDecisiveReply` (via `pos`), and the filters and sum of `TxMultiSend` (via `SubSeqAt` and `ShardSum`). The library's theorems about sums over sets take an operator parameter, which the installed provers cannot instantiate, so a sum as a fold could not be proved about. TLC confirmed that the old and new forms agree on every reachable state, and the mutants still break the properties.

## Not modelled

- The pool, router, codec and HTTP transport themselves (I/O, outside `src/`): only their contracts are modelled.
- JSON encoding and decoding, and logging. A decode failure is the reply's error flag.
- The facade interface and mock: an interface declaration and a test double, with no behaviour of the proxy.
- The test files. Lines 341-2031 of the process file test a newer `TransactionProcessor`: a seven-argument constructor, `GetShardIDs`, a sender argument to `GetTransactionStatus`, `SimulateTransaction` and mempool views. None of these exist in lines 33-340, so the tests cannot run against this code, and there is nothing of theirs to model. They make up most of the counted source, so the map covers well under a third of it. Of the implementation, every function is mapped.
- `TransactionCostRequest`'s conversion of the cost to a string (line 214). The model abstracts reply bodies, so the `uint64` to `int` conversion is left out. It is listed as a hazard.
