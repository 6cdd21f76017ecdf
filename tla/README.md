# Agent-Ready Checkout Gateway: a verification project

TLA+ models of the checkout gateway in `src/`, the TLC runs that check them on
small instances, and TLAPS proofs of the theorems that matter most for every
instance. Line numbers below refer to the files under `src/`; `G/` stands for
`apps/gateway/app/` and `S/` for `packages/shared/shared/`.

## The system

An agent checks out for a customer in four requests:

1. `POST /intents` makes a payment intent at the payment provider (PSP) and a
   row of `order_intents` with a fresh nonce that is open for
   `NONCE_TTL_SECONDS`.
2. `POST /confirm` brings the consent transcript, signed and carrying the
   nonce. The nonce is used up, the signature verified, the consent appended to
   the hash-chained consent ledger, its hash put on the row.
3. `POST /authorize` names the intent and the hash. The policy hook is asked,
   the PSP confirms the payment, an authorization id is put on the row.
4. `POST /fulfil` names the intent and the authorization id. Receipt files are
   written and their paths put on the row.

`/confirm` and `/authorize` honour an `Idempotency-Key`. The mock agent
(`clients/mock-agent`) is a client that makes the four requests once each, in
order, after it has built a cart from the inventory and pricing servers and its
operator has approved.

### Components

| component | state | operations | shared with |
|---|---|---|---|
| Consent ledger, `S/ledger` | table `consent_ledger` | `append_entry`, `verify_chain` | called by `/confirm`; one session a call |
| Nonce service, `S/security/nonce.py` | TTLCache in memory | `is_unique` | called by `/confirm`; lost on restart |
| Idempotency service, `S/idempotency` | table `idempotency_keys` | `check_existing`, `store` | first and last thing of `/confirm`, `/authorize` |
| Intent store, `G/services/state.py` | table `order_intents` | `create`, `get`, `set_transcript_hash`, `set_authorization`, `set_fulfilled` | every handler |
| Gateway handlers, `G/api/routes.py` | the requests in flight | four endpoints | call all of the others |
| Policy hook, `G/policies` | none | `evaluate_policy` | called by `/authorize` |
| PSP adapters, `S/psp` | at the PSP | create, confirm, capture, refund | create and confirm are called |
| Receipts generator, `S/receipts` | files | `generate_receipts` | called by `/fulfil` |
| Signatures, `S/security/signatures.py`, `S/utils/crypto.py` | none | verify, hash | called by `/confirm` |
| Lifespan, context, settings, telemetry | configuration | startup | makes the services anew |
| Mock agent, `clients/mock-agent` | where its graph stands, the answers so far | five nodes: `build_cart`, `create_intent`, `confirm`, `authorize`, `fulfil` | uses the gateway and the MCP servers over HTTP |
| MCP servers | none | price and inventory by SKU, or 404 | called by the agent |
| Scripts, fixtures | none | | |

### What is hard

Handlers are coroutines of one event loop: between two awaits a handler runs
alone, and at an await any other handler may run. There are no locks, and every
service call opens a database transaction of its own under READ COMMITTED. So
what a handler read before an await may be stale after it, a handler may end at
any await, and a restart loses the nonces and the requests in flight but not the
database or the files. `PROJECT.json` lists the hazards line by line.

What makes each component correct:

- ledger: no dangling link, a chain that verifies as far as the service can
  promise it, nothing taken back;
- nonces: a used nonce is not taken again while its intent is open;
- idempotency: one key, one answer, and the answer is to the payload, of work
  that was done;
- handlers: consent before payment before receipt, and all three of the same
  order; one consent per intent; work that reached the ledger or the PSP reaches
  the row;
- store: a row never points at something that is not there, no update is lost,
  and an authorization keeps the payment reference it was given;
- agent: what it was told holds, its order is charged once and as approved, and
  its checkout comes to an end.

## Modules

| module | models | state and actions |
|---|---|---|
| `ConsentLedger` | `S/ledger` | `entries` are the committed rows, `append` the open sessions. `SelectLatest`, `Flush`, `Commit` are the three awaits of `append_entry` (service.py:29-47); `Rollback`, `Crash` its failures |
| `NonceService` | `S/security/nonce.py` | `cache` are the items of the TTLCache. `IsUnique`, `Tick`, `Restart` |
| `IdempotencyService` | `S/idempotency` | `records`, and `merge`, the sessions of `store` between SELECT and commit. Operators, no specification of its own |
| `KeyedEndpoint` | how `/confirm` and `/authorize` wrap their work in the idempotency service (routes.py:131-139, 207-215) | requests of any number of clients, `done` and `answers` as history |
| `Gateway` | `G/api/routes.py` over all of the above | composes `NonceService`, `ConsentLedger` and `IdempotencyService` by INSTANCE; one action per handler and await |
| `IntentStore` | `G/services/state.py`, the table of `G/models/intent.py` | `rows`, `open`, and `session`, the calls of `_update_fields` between SELECT and commit. Operators: `Create`, `Expire`, the three `Set...`, `Select`, `Commit` |
| `ReceiptsGenerator` | `S/receipts/generator.py` | `disk`, the files, and `stem`. `Write` writes the first n of three files |
| `OrderUpdates` | the handlers over those two, statement by statement | `handler` is where a request stands, `given` the references of the authorizations made |
| `AtomicStore` | the store as the handlers take it to be | one action per column, for any value; `OrderUpdates` refines it, and `Gateway` does: no other column is overwritten and the order of the columns is kept. That a call writes the value it was given is `CallsTakeEffect` |
| `Amounts` | `int(max_total * 100)` (routes.py:80) and `evaluate_policy` | pure operators |
| `AgentCheckout` | `clients/mock-agent`, over `Gateway` and `Amounts` | `agent` is where the graph of each agent stands, `sent` the request on its way. One action per node, and the gateway's actions as they serve an agent |
| `OrderLifecycle` | what the gateway promises of an order | `Consent`, `Pay`, `Receipt`; `Gateway` refines it |
| `MCNonceService`, `MCKeyedEndpoint`, `MCGateway`, `MCOrderUpdates`, `MCAgentCheckout` | instances for TLC | symmetry sets and values of constants; the arithmetic of `Amounts` over a range |
| `ConsentLedgerProofs`, `NonceServiceProofs`, `KeyedEndpointProofs`, `OrderUpdatesProofs`, `AmountsProofs`, `AgentCheckoutProofs` | proofs about the module of that name | |
| `GatewayProofs`, `GatewayOnceProofs` | proofs about `Gateway`: what follows what, and its components inside it; what happens once | |

`ConsentLedger` is checked as it is: its instances need no definitions.

### Correspondence

In `Gateway` a *slot* is a coroutine, `req[r]` what it serves and where it
stands. The actions of one handler, in order, with the await each ends at:

- `/intents`: `CreateIntent` (the PSP call before it moves no money and its
  failure leaves nothing).
- `/confirm`: `CheckedNew | CheckedCached | CheckedConflict` (check_existing);
  `ConfirmRefused | ConfirmReplayed | ConfirmUnsigned | ConfirmSigned`
  (from where `store.get` returns to the call of `append_entry`; the
  `await request.json()` of routes.py:153 between them does not suspend, since
  the body was read before the handler was called, so nonce and signature are
  one step); `AppendSelect`, `AppendFlush`,
  `AppendCommit`; `SetTranscriptHash`; `StoreSelect`,
  `StoreWrite | StoreClash`.
- `/authorize`: `Checked...`; `AuthorizeRefused | AuthorizeAllowed`;
  `PspConfirms | PspDeclines | PspAnswerLost`; `SetAuthorization`; `Store...`.
- `/fulfil`: `FulfilRefused | FulfilGets` (the SELECT of `get`);
  `FulfilExpired | FulfilWrites` (its session has closed: the clock, then the
  checks of the row as it was SELECTed, and the files); `SetFulfilled`.
- any await of any of them may raise: `Fail`. The process may die: `Restart`.

Without an `Idempotency-Key` the first action is the one after
`check_existing`. Refusals before any write (a missing or expired intent, a
mismatch, a denial) end the same way and are one action.

In `OrderUpdates` a handler is `ConfirmGets | AuthorizeGets | FulfilGets` (the
row as `get` answers it, and the checks), `Confirmed | Authorized | Fulfilled`
(up to the call of the `set_` method), `UpdateSelect`, `UpdateCommit`. Nonces,
signatures, ledger and keys are left out and forbid nothing: a transcript may be
confirmed any number of times, so the module allows more than the gateway does.
`ReceiptsBreak` ends `/fulfil` between two files, `End` and `Restart` end
handlers between any two statements.

In `AgentCheckout` the nodes are `BuildCart`, `PostIntents`, `PostConfirm`,
`Post(a, "authorize")`, `Post(a, "fulfil")`. A request travels (`sent`), is
served by the slot of its agent through the very actions of `Gateway`
(`Refused | Accepted`, `GoesOn`, `Answers | Breaks`), and the answer reaches the
agent if it still waits. `Raise` is whatever ends the graph on the agent's side:
the operator does not approve, a server is not reached, ten seconds are over;
the gateway goes on with what was sent. The answer of `/intents` that is lost is
`PostIntents` and then `Raise`.

### Abstractions

- A transcript is a record of the intent it names, the nonce it carries,
  whether its signature is one of the body as sent, and a text that stands for
  the other declared fields, the signature's value included. Its hash is the
  transcript itself, and a ledger hash is the sequence of contents it chains:
  SHA-256 is taken to have no collisions.
- `Parsed` is what the schema keeps of a transcript. Signature and transcript
  hash are of the body as sent (routes.py:153-172), the `payload_hash` of a key
  is of `model_dump` (routes.py:130): fields that the models do not declare are
  dropped and values normalised. So a signed body and one with a field added,
  whose signature does not verify, have one payload hash, and the second is
  given the recorded answer of the first before its signature is looked at
  (routes.py:137-139). What is promised of recorded answers (`AnswersAgree`,
  `AnsweredIsDone`) is promised up to `Parsed`. `rest` is what else the payload
  hash covers: `customer_ip`, `user_agent`, `payment_method_token`.
- One clock is both the wall clock of `expires_at` (state.py:34) and the
  monotonic one of the nonce cache (nonce.py:10): they are taken to advance
  alike. What `OneConsentPerIntent` rests on would not hold if the wall clock
  were set back.
- The nonce of an intent is the intent, an authorization id is a number never
  given before: `token_urlsafe` and `uuid4` never repeat.
- `created_at` of the ledger is distinct for every insert and grows
  (a microsecond clock of one process that does not go back).
- Of a row of `order_intents` the columns that handlers branch on are kept.
  `_update_fields` is one step in `Gateway`; that its two statements, with
  others between, amount to one step on these columns is the refinement
  `AtomicImplemented`, checked and proved. `None` stands for NULL, which is
  neither a transcript nor a key nor a number; of the authorization ids, which
  are numbers, 0 does. `payment_reference`, which no handler
  reads again, is a column in `IntentStore` alone.
- `get` suspends twice: at its SELECT, and when its session closes, after which
  it compares `expires_at` with the clock; the checks have no await. `/confirm`
  looks at columns that never change, so both are one step, as the session has
  closed. `/fulfil` is two steps (above). `/authorize` is one step at the
  SELECT: an intent that expires before the session has closed is refused, which
  leaves what a decline of the PSP leaves. In `OrderUpdates` the checks are at
  the SELECT, and the write is any number of steps later.
- In `OrderUpdates` `/authorize` and `/fulfil` bring whatever hash and
  authorization id the row has; one that brings another is refused without a
  trace.
- The PSP: the handler learns that a payment was confirmed, captured or not, or
  the call raises, with or without the payment having gone through. Every
  payment has a number of its own; the authorization id is that number, or 0
  where the answer was lost.
- The policy hook's decision about an order is the constant `Policy` of
  `Gateway`; in `AgentCheckout` it is `EvaluatePolicy` of the amount. REVIEW is
  served as ALLOW, as `/authorize` does (routes.py:260), although
  policy_hook.py:33-36 says that orders over $1,000 are escalated.
- `Amounts` has the two binary64 roundings as they are (`AmountAt`, for any
  length of the significand) and a closed form with small numbers
  (`LosesCent`): TLC's integers have 32 bits, so TLC compares the two at short
  significands and uses the closed form at 53 bits, where it is proved to be the
  same.
- An agent's prices are constants, 0 for a SKU that the servers do not know.
  The approval of the operator is the step `PostConfirm`, its refusal `Raise`.
- `answers`, `done` are history variables: no code reads them.

### Premises as constants

What the code does not control is a constant of `Gateway`, and a property that
needs one says so: `MayFail` (awaits may raise), `MayRestart`, `MayDefer` (the
PSP may answer before the money is captured). A premise about what others do at
run time is a part of the property: `[]OneSession => ...` (appends do not
overlap), `[]OneCallPerKey => ...` and `[]OneRequestPerKey => ...` (clients wait
for an answer before they use an Idempotency-Key again).

## Runs

Passing:

| run | instance | question and answer |
|---|---|---|
| `ledger_concurrent` | 3 appenders, 2 contents, 4 inserts | What holds when appends overlap, fail and crash? Links resolve (`PreviousIsEarlier`), a ledger that fails to verify has a fork an auditor can see (`BrokenMeansForked`), a fork stays (`ForkIsForever`), and appends one after the other verify (`SerialAppendsVerify`) |
| `nonce_cache` | 4 nonces, cache of 3, ttl 3, 7 ticks | Can a used nonce be taken again? Only when expired, after a restart, or when a full cache evicts it as the oldest (`ForgottenForAReason`); the cache stays within its size (`CacheBounded`) |
| `keys_overlap` | 3 requests, 2 keys, 2 payloads, 3 units of work | Whatever overlaps and fails, an answered key is never worked for again (`AnsweredIsRecorded`); for clients that wait, one answer a key (`ReplaysAgree`), and a record pairs a payload with its own response (`SerialRecordsTruthful`) |
| `gateway_lifetime` | 2 intents, 2 slots, 6 transcripts (unsigned, wrong nonce, two texts), second order denied, failures, expiry | One process: `OneConsentPerIntent`, `ReceiptShowsPayment`, the refinements `LedgerImplemented` and `LifecycleImplemented` |
| `gateway_restart` | 1 intent, 2 slots, 3 transcripts (two texts, and an unsigned one that parses like a signed one), requests with and without a key, failures, restarts | Whatever happens: `ConsentBeforePayment`, `OrderIsBacked`, `ReceiptAfterPayment`; a 200, the handler's own or a recorded one, is of work that is done and stays done (`AnsweredIsDone`); a key that was answered and is out of flight pays no more (`ConcludedKeysPayNoMore`); and an order's row is filled only in its order, although each check is an await before the write (`StoreImplemented`) |
| `gateway_progress` | 1 intent, 2 slots, 2 transcripts that parse alike, requests with and without a key, with two payment tokens, overlapping, fair | `OnePaymentPerKey`, `AnswersAgree` for clients that wait; fulfilments in turn write one set of receipts (`SerialFulfilsOnce`); a logged consent and a confirmed payment reach the row (`ConsentCounts`, `PaymentCounts`) |
| `order_updates` | 3 requests, 1 order, 1 hash, 2 payment references, 3 authorizations, 2 sets of receipts, failures and restarts at every statement | May a `set_` call be taken for one step? Yes (`AtomicImplemented`). Does the row's authorization keep its own payment reference? Unless calls overlap and the PSP gave one reference twice (`PairsAgree`). Has a call that returns written its id, or its receipts, although the UPDATE leaves out what looks unchanged? Yes (`CallsTakeEffect`); two calls with one transcript hash may leave that of a third. A row names whole sets of receipts only (`ReceiptsComplete`) |
| `agent_checkout` | 2 agents at $19.99 and $1,000.01, a nonce cache of 1, failures, restarts, expiry, deferred capture, late answers | Is an agent's 200 worth anything? The next request is refused for expiry only (`ToldIsHonoured`), and at the end everything is there (`EndMeansDone`). Is it charged once (`ChargedOnce`), as approved (`ChargedAsApproved`), and does it ever hang (`EveryCheckoutEnds`)? Do the restarts and the evictions show in the life of an order? No (`LifecycleImplemented`) |

Violated, where the code does other than the repository says:

| run | says | what happens |
|---|---|---|
| `ledger_fork` | docs/ACP.md:53, the chain can be verified by re-computing it in order of `created_at` | two overlapping `/confirm` requests chain onto one entry; `verify_chain` is False from then on |
| `keys_mixed` | README.md:125, matching payloads replay cached responses | three overlapping requests of a key leave a record with the payload of one and the response to another, as `session.merge` writes changed columns only |
| `double_fulfil` | routes.py:312, 409 "order already fulfilled" | two `/fulfil` requests both pass the check and write receipts |
| `retry_trips_replay` | docs/ACP.md:60, a key makes retries return cached responses | a retry while the first request is in flight is answered 409 for the nonce |

### Bounds

`MaxClock` (ledger inserts), `MaxAuth` (authorization ids), `MaxReceipts`
(receipt files of an order), `MaxTime` (ticks), `MaxWork` (units of work) bound
the counters. A request is let in only when it and those already in can make
their entry or id (`Room`), so that no request gets stuck half-way because of a
bound and the liveness properties are about the code. They are enough for the
cases that matter: two inserts between the SELECT and the flush of a third, a
restart between any two steps of two requests, a second consent for an intent
after a restart, an authorization replaced by another, a nonce that expires
twice, a full cache. In `gateway_restart` no time passes and the PSP captures at once: time only
refuses requests, as any refusal does, and takes nonces out of the cache, as the
restarts do; no handler looks at the capture; and `agent_checkout` has both.
`Posts` bounds the bodies that come with a key: every transcript to `/confirm`,
the signed ones to `/authorize`, with each of the `Rests` in `gateway_progress`.
In `order_updates` the three requests are what it takes for
one call to find the column as it wants it, a second to change it and the first
to leave it so; one hash is enough since hashes do not meet other columns. In
`agent_checkout` one agent's nonce evicts the other's, the price of 1999 cents
loses a cent, and the other is over the review threshold; `MaxClock` 3,
`MaxAuth` 3 and `MaxReceipts` 2 leave room for the second consent, payment and
set of receipts that `ChargedOnce` says no agent's order gets. `MCAgentCheckout`
assumes, and TLC evaluates,
that the closed form of `Amounts` is what the roundings compute (significands of
10 to 15 bits, 1 to 500 cents: `ClosedForm`) and that an order is reviewed
exactly when its price is over $1,000 (99,000 to 101,000 cents:
`ThresholdIsExact`). A mutant for every property (a dropped guard, a swapped
order, a missing key; in the modules beside what they change) shows that the
bounds suffice to see it broken.

`CHECK_DEADLOCK FALSE` is said for the ledger, the nonces and the keys alone,
which end when their bound is reached; `Gateway` can always refuse a request, and
in the other modules time passes or the process restarts.

### Fairness

`FairSpec` has weak fairness of the steps of each request in flight and of
nothing else: the event loop runs every coroutine that can go on, and the
database and the PSP answer or fail every call. It does not say that a client
sends anything. The instance has `MayFail` and `MayRestart` FALSE: with either,
`ConsentCounts` and `PaymentCounts` do not hold, since an await that raises after
the commit of the ledger, or after the PSP's answer, leaves the row without it;
no code repairs that. What does hold then is that no one was told otherwise:
`AnsweredIsDone`.

`FairAgentSpec` has weak fairness, for each agent, of the steps of its graph
(its operator answers the prompt, with y or by `Raise`) and of the gateway
serving it. No timeout is counted on: `Raise`, failures and restarts may happen
and need not. `EveryCheckoutEnds` needs that a restart closes the connections
and that every refusal is an answer.

### What rests on its premises

- `OneConsentPerIntent` and `LifecycleImplemented` need a process that lives as
  long as its intents and a cache with room: after a restart, or an eviction,
  the same or another signed transcript of the intent is accepted. Room is
  meant as `RoomForNonces`: of the intents created within the last two
  lifetimes of a nonce there are at most `NonceMax`. That no more than
  `NonceMax` intents are open at a time is not enough. A nonce that is used
  late in the life of its intent stays in the cache for a whole lifetime after
  it is of any use, and a full cache evicts the nonce that was used earliest,
  which may be the one of an intent that is open.
- `ReceiptShowsPayment` needs these and a PSP that captures what it confirms:
  the handler records the authorization whatever the status (routes.py:269).
- For the agents of `AgentCheckout` neither a restart nor the size of the cache
  matters: an agent confirms its own order, once.
- `ReplaysAgree`, `SerialRecordsTruthful`, `OnePaymentPerKey` and `AnswersAgree`
  are about clients that wait for an answer before they use the key again.
  `OnePaymentPerKey` also needs awaits that return and a process that lives: a
  request that ends between the PSP's answer and its record leaves no trace of
  its key, and its retry asks the PSP again.
- `SerialFulfilsOnce` is about `/fulfil` requests of an order that do not
  overlap, and needs awaits that return: `/fulfil` that breaks after the files
  were written leaves them, and its retry writes others.
- `AnsweredIsRecorded` and the properties of `gateway_restart` need nothing.

## Proofs

`ConsentLedgerProofs`, for any set of handlers and contents and any bound:

- `LedgerTypeCorrect`, `EveryLinkResolves`: by the inductive invariant
  `LinkInv`. `PreviousIsEarlier` alone is not inductive: a commit adds a row
  that was hashed at its flush, so the invariant says the same of flushed rows,
  of the hash a session holds between SELECT and flush, and that a non-empty
  table has a greatest `created_at` (without which CHOOSE in `LatestHash` says
  nothing).
- `SerialLedgerVerifies`, `[]OneSession => []ChainVerifies`: by `SerialInv`,
  which adds that the one open session holds the latest hash and that its row
  is younger than all others.
- `BrokenLedgersAreForked`, `ForksAreForever`: by `StampInv`, which adds to
  `LinkInv` that no two rows, committed or flushed, have one `created_at`. Of
  the rows that do not chain onto the one before them take the earliest
  (`SmallestOf`, by well-founded induction on the numbers): the row it chains
  onto has another after it, which chains onto the same hash
  (`BrokenIsForked`). Conversely the hashes of a ledger that verifies are of
  ever longer chains (`ChainGrows`), so that no two rows of it have one
  `previous_hash` (`ForkedIsBroken`): a fork, which no step takes out, never
  verifies again.

`NonceServiceProofs`, for any nonces, lifetime and size: `CacheIsBounded` and
`NothingElseForgets`, by `CacheInv`, which adds that the cache is finite, without
which its cardinality says nothing. `KeptHasRoom` is the step: what is kept for a
new nonce is smaller than the maxsize.

`KeyedEndpointProofs`, for any requests, keys, payloads and bound:

- `AnsweredKeysAreRecorded`, with whatever overlaps: a commit of `store` takes
  no key from the table (`WriteEffect`).
- `SerialRecordsAreTruthful`, `ReplaysAlwaysAgree`: by `SerialInv`. The key of a
  request in flight has no row, so its `store` can only insert, and a row is
  never changed.

`GatewayProofs`, for any slots, intents, transcripts, keys, policy and bounds,
with failures, restarts and overlapping keys, by the inductive invariant
`GatewayInv`:

- the types (`OwnTypeOK`), the links of the ledger (`LinkInv` of
  `ConsentLedgerProofs`, reused through INSTANCE: `LedgerSteps` shows that each
  action is a step or a stutter of the ledger), and
- `FlowInv`: what each request claims at the point it has reached. Past
  `ConfirmSigned` the transcript is a consent to this intent; past
  `AppendCommit` it is in the ledger; past `AuthorizeAllowed` the row holds a
  consent; past `PspConfirms` there is the payment. `ConsentBeforePayment` is
  not inductive without it: the check and the payment are in different steps,
  with other handlers between. `FlowKept` shows that the claims survive the
  steps of others since ledger, payments and consents only grow (`Grows`), and
  `SlotStep` reduces a step of one slot to that slot.

From `GatewayInv`: `GatewayTypeCorrect`, `NoPaymentWithoutConsent` (for
`ConsentBeforePayment`), `OrdersAreBacked` (`OrderIsBacked`),
`NoReceiptWithoutPayment` (`ReceiptAfterPayment`). The assumption used is
`GatewayConstants`. Then two refinements:

- `GatewayImplementsLedger` (`LedgerImplemented`), from `LedgerSteps`: what was
  proved of the ledger alone holds of it under the handlers.
  `GatewayLedgerIsAuditable` carries `PreviousIsEarlier`, `BrokenMeansForked`,
  `ForkIsForever` and `SerialAppendsVerify` over. There is no such theorem about
  the nonce cache, which only `is_unique` touches: that a handler heeds its
  answer is what `OneConsentPerIntent` depends on.
- `GatewayImplementsStore` (`StoreImplemented`): the row as the handlers have it
  is the store of `AtomicStore`, for any failures and restarts. `GatewayInv`
  says that an order at `set_auth` has a transcript; `FilledInv` adds that its
  authorization is an id (0 is the NULL column) and that the order of a slot at
  `set_fulfilled` has one. So the two models of the store meet: `OrderUpdates`
  shows that the statements of a `set_` call amount to a step of `AtomicStore`,
  and this theorem that the calls the handlers make are such steps.
  `WriteTraffic` says which steps have to do with the row: those that write a
  column (`ColumnsStay` is that none is written) and those that give a slot a
  column to write (`NoneComes`).

`GatewayOnceProofs` has what happens once. First what rests on the nonces, under
`~MayRestart` and `[]RoomForNonces` (a premise on the load, see above;
`FewIntentsLeaveRoom`: it holds of every behaviour over no more intents than
`NonceMax`), for anything else that happens:

- `ConsentIsGivenOnce` (`OneConsentPerIntent`): by `OnceInv`, on top of
  `GatewayInv`. An intent is *claimed* by its entry, or by a slot that is past
  the nonce check and has not committed its entry; it is claimed once, and a
  claimed intent is *spent*: it has expired, or the cache holds its nonce until
  it does. `NonceOutlives` ties a nonce in the cache to an intent that was
  created within the last two lifetimes, and `RoomForEach` counts: the live
  nonces are those of other such intents, so the cache is not full and evicts
  nothing. `UnseenIsUnclaimed`: a request that passes the check is the first.
- `GatewayImplementsLifecycle` (`LifecycleImplemented`): `LifecycleStep` says
  which steps log, pay and write receipts, and `OrderStep` that these are the
  steps `Consent`, `Pay` and `Receipt` of that order. That a receipt shows *the*
  consent rests on there being one.
- `ReceiptsShowThePayment` (`ReceiptShowsPayment`), with `~MayDefer` besides: the
  consent on the receipt and the consent that was paid for are of one intent.

The last two are proved from `OnlyConsents` (one consent an intent, and no slot
is about to append another), so that they can be had from another
source too, see `AgentCheckoutProofs`.

Then what rests on the Idempotency-Key:

- `AnswersOfAKeyAgree` (`AnswersAgree`), for clients that wait
  (`[]OneRequestPerKey`), with failures and restarts: by `KeysInv`. The key of a
  request in flight has no row, an open session found none, and an answer of 200
  has the payload and the body of its key's row. The theorem is about what the
  code compares, the parsed payloads (`Alike`).
- `AnswersAreOfWorkDone` (`AnsweredIsDone`), under no premise: by `DoneInv`, a
  response is of work that is done when its handler is about to store it, in
  every row, and in every answer. `LastWriteCompletes` shows it of the step that
  gets a handler there, from what `FlowInv` says of a request at its last write;
  `DoneStays` that it stays so, since ledger and payments grow and a column that
  has a value keeps one. A merge that mixes two rows of a key mixes two payloads
  of work that is done.
- `PaysOncePerKey` (`OnePaymentPerKey`), for clients that wait, under `~MayFail`
  and `~MayRestart`: by `PaidOnceInv`. A key that was paid with is *settled*: a
  request with it is past the PSP, or it has its row. `SettledStep` shows that it
  stays so, and a request at the PSP has a key that is not settled.
- `ConcludedKeysAreDone` (`ConcludedKeysPayNoMore`), under no premise: by
  `RowsInv`, every key answered 200 has a row, since what an open session writes
  is the row of its own request; and no row is ever taken out (`RowTraffic`,
  `RowsStep`). A key that no request in flight carries and that
  has a row cannot pass `check_existing`, so nothing brings it to the PSP again
  (`NoneCarries`).

Last `FulfilsOnceInTurn` (`SerialFulfilsOnce`), under `~MayFail` and
`~MayRestart`: by `FulfilInv`, an order has one set of receipts at most, and
none unless its row names receipts or a request is about to set the column.

`OrderUpdatesProofs`, for any requests, intents, hashes, references and bounds:

- `UpdatesTypeCorrect`, `ReceiptSetsAreWhole`, `StoreIsAtomic`: by the inductive
  invariant `ColumnsInv`. Beside the types it says what a row holds (an
  authorization only beside a transcript, receipts only whole and beside an
  authorization: `RowOK`), what a handler has seen and its order still has
  (`HandlerOK`), and what an open session is about to write (`SessionOK`). The
  refinement is not inductive without the last two: a guard of `AtomicStore`
  was checked by `get`, two statements and any number of other requests before
  the commit. `Grows` says that a column that has a value keeps one, so what was
  seen stays true; `CommitEffect` says which columns a commit may write.
- `PairsAgreeAlways`: by `PairsInv`, on top of `ColumnsInv`. Each open call of
  `set_authorization` has an id of its own that is in no row, what it SELECTed
  is older than what it writes, and two calls open at once are known as
  overlapped. Then a commit that leaves the reference alone found it equal to
  its own, either unchanged since or changed by an overlapping call.
- `CallsAreNotLost` (`CallsTakeEffect`): by `PairsInv` for the ids and `StemsInv`
  for the receipts. A call that is open brings a value of its own, which is in no
  row and was in none when it SELECTed, so the column looks changed and is
  written.

`AmountsProofs`, about what is charged for a price:

- `ClosedFormIsExact`: for significands of any length up to 53 bits, and any
  price that leaves one of them to spare, the division, the product, both
  rounded to the nearest even, and `int` give the price, or a cent less exactly
  when `LosesCent` says so. The division leaves max_total below or above the
  price by at most 49 hundredths of its last place (`MaxTotalOf`; 50 cannot be,
  since the remainder is a multiple of four). The product then lies in one of
  two binades, where the unit is 64 or 128 of those hundredths (`BitsOf`): at
  128 it is the price again (`ExactProduct`), at 64 it is unless more than 32
  are missing (`TruncatedProduct`); a tie goes to the price, which is even in
  these units.
- `AmountIsComputed`: so the amount in the models is that of binary64, under
  2^52 cents. `ReviewedOverThreshold`: an order is reviewed exactly when its
  price is over $1,000; the one price that matters, 100,001 cents, loses nothing.

These need recursion. That the function `PowerOfTwo` satisfies its equation is
itself proved (`Recursion`, from the least number of a set, `Induct`), and its
laws (`PowerOfSum`, `PowersGrow`, `BitsExist`) by induction over sets of numbers.

`AgentCheckoutProofs`, for any agents, prices and bounds, with failures and
restarts, on top of the theorems of `GatewayProofs` and `GatewayOnceProofs`:

- `AgentsUseTheGateway`: `AgentSpec => Spec`. So `GatewayInv`, and every theorem
  about the gateway, hold of the agents' gateway.
- `AgentTypeCorrect`, `AnswersAreHonoured`, `EndsAreDone`, `ChargedAtMostOnce`,
  `ChargesAreApproved`: by `CheckoutInv`, which relates, for each agent, its
  node, the request on its way and what the slot serves. The idea is
  `Ahead(a, endpoint)`, "the request may still come": as long as it holds the
  request had no effect yet (`ConfirmOnce`, `AuthorizeOnce`, `FulfilOnce`), and
  `OneAtATime` says that an agent never has two requests. `Asks` ties the order
  it is waiting for to the row. `ServeIsOwn` shows that serving one agent
  touches nothing of another, so each step is a matter of one agent
  (`AgentKept`). That `Price` may be any numbers, and the amount a cent less, is
  in `ChargesAreApproved`.
- `AgentsCheckOutInOrder` (`LifecycleImplemented`) and, with `~MayDefer`,
  `AgentsReceiptsShowThePayment` (`ReceiptShowsPayment`), with restarts and a
  cache of any size: `OwnOrdersOnly` gets `OnlyConsents` from `CheckoutInv`,
  where `GatewayOnceProofs` gets it from the nonces.

So every safety property and action property that a passing run checks, and
every refinement of an abstract specification or of a component, is also proved.
Only model-checked are the liveness properties `ConsentCounts`, `PaymentCounts`
and `EveryCheckoutEnds`, which need fairness and ENABLED and are out of the
prover's reach.

## Not modelled

Validation and wording of requests and responses, the agent domain allow-list
(a refusal before any effect), rate limiting, middleware, telemetry, C2PA
settings (a refusal of every `/fulfil` by configuration), the layout of
receipts, migrations. Refund and capture are called by no handler. Of the MCP
servers, the tools and manifests: stateless views of constant tables.

## Plan

In order of importance; all are done.

1. `ConsentLedger`: the ledger under concurrency; its proofs.
2. `NonceService`, `IdempotencyService`, `KeyedEndpoint`.
3. `Gateway`, composed of them; the four endpoints await by await.
4. `OrderLifecycle`, and the gateway's refinement of it.
5. `GatewayProofs`: type, consent before payment, backed orders, receipts.
6. `IntentStore`, `ReceiptsGenerator`, `OrderUpdates`, and the refinement of
   `AtomicStore`; their proofs.
7. `Amounts`: cents, binary64 and the policy threshold.
8. `AgentCheckout`: the client workflow over the gateway; its proofs.
9. `NonceServiceProofs`, `KeyedEndpointProofs`, the forks of the ledger.
10. `GatewayOnceProofs`: what holds under premises, and the refinement of
    `OrderLifecycle`; keys that are concluded, fulfilments in turn.
11. `AmountsProofs`: the roundings for every price.
12. The gateway over `AtomicStore`, and what a 200 is worth:
    `GatewayImplementsStore`, `AnswersAreOfWorkDone`, `CallsAreNotLost`.

What could follow: middleware and its rate limit, were they to hold state that
handlers share; capture and refund, once a handler calls them.
