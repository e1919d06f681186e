# Verification of the WaffleFinance settlement core

TLA+ models of the parts of this repository that decide where money goes, the TLC runs
that check them on small instances, and TLAPS proofs for every value of the constants.

## 1. The system

A swap moves value between two chains under one secret. The **user** locks the *source*
leg for a **resolver**; the resolver locks the *destination* leg for the user under the
same sha256 hashlock; the user's claim of the destination publishes the secret, and the
secret opens the source. Either leg can be refunded after its timelock by anyone.

| Part | Source | State | Operations | What makes it hard |
|---|---|---|---|---|
| EVM escrow | `contracts/contracts/HTLCEscrow.sol` | orders, pull-payment credits, ETH and token balances, registry pointer | createOrder, claimOrder, refundOrder, withdraw, setResolverRegistry | recipients that reject ETH, shared balance, timelock boundary |
| EVM resolver registry | `contracts/contracts/ResolverRegistry.sol` | resolver records, packed list with 1-based index, pooled stake | register, increaseStake, unregister, slash, setters | swap-and-pop, floor moving under registered resolvers |
| Soroban HTLC | `soroban/contracts/htlc/src/lib.rs` | orders, operating mode, deposit floor, registry pointer | create/claim/refund_order, set_mode, setters | modes change between creation and settlement |
| Soroban registry | `soroban/contracts/resolver-registry/src/lib.rs` | entries with lifecycle and unbonding window, list | register, increase_stake, request_unregister, withdraw_stake, slash, setters | slash during the window, period changed in flight |
| Cross-chain swap | both escrows, driven by `packages/sdk` | both chains, two clocks | lock, broadcast, claim, refund | secret public before its claim executes, clock skew |
| Coordinator order book | `coordinator/src/services/order-service.ts`, `persistence/orders-repo.ts`, `state-machine/order-machine.ts` | order rows, history, processed-event ledger, cursors | announce, record locks and secret, mark, expire, roll back, archive | every service call checks, awaits, then writes |
| Coordinator reconciler | `coordinator/src/reconciliation/reconciler.ts`, `ledger-cursor.ts`, `event-identity.ts` | processed-event ledger, chain and order cursors, per-run seen set, page cursor | run, claim, replay, advance, set cursor | crash between claim and replay, overlapping runs, both legs share a hashlock |
| Coordinator listeners | `coordinator/src/listeners/*` | confirmation queue, checkpoints, processed signatures | poll, replay, roll back | reorgs, gaps, out-of-order events |
| Coordinator secret service | `coordinator/src/services/secret-service.ts`, `reconciliation/secret-reconciler.ts` | encrypted preimages, key versions | reveal, re-encrypt, detect stale | rotation racing reveals |
| Resolver daemon | `resolver/src` | lifecycle, chain listeners, cursor store | run, drain, stop | shutdown racing work in flight |
| Relayer | `relayer/src` | idempotency keys, settlement jobs, retries, refund ledger | settle, retry, refund, recover | retries of what already happened |
| SDK | `packages/sdk/src` | none of its own | build, validate and send calls | passes any timelock through |
| Solana client | `packages/sdk/src/solana` | the program is not in the repository | lock, claim, refund | beta |

The coordinator only records and advises. Nothing it does can move funds, so the contracts
and their composition carry the safety of a swap, and the coordinator's models are about the
truth and completeness of what it tells others.

## 2. Modules

Definitions keep the names of the functions they translate; `PROJECT.json` maps each of them
to its lines. Amounts, hashes, addresses and ids are small sets. Operators whose comment
starts with "Mutant:" are deliberately wrong variants of the definition that follows them,
used to see that the properties notice.

### Contracts

**`HashTimeLock`** is the abstract promise of an escrow: a book of orders, each locked under
a hashlock until a timelock, claimed with a preimage in time or refunded after, once.

**`HTLCEscrow`** (`HTLCEscrow.sol`). State: `orders`, `pendingWithdrawals` (pull-payment
credits), ETH and token balances of all accounts, the registry pointer and what the registry
answers, block time. Actions: `createOrder`, `claimOrder`, `refundOrder`, `withdraw`,
`setResolverRegistry`, and the environment's `RegistryStep` and `Tick`. A push of ETH to a
contract may fail whenever it likes; `payoutBoth` then leaves a credit, as `_payoutNative`
does. The step is the whole transaction: a revert is a step not taken. `IsHashTimeLock` states
the refinement, with `BookOf` as the mapping.

**`SorobanHTLC`** (`htlc/src/lib.rs`). The same shape with the operating modes (`Live`,
`Maintenance`, `Paused`), the admin's deposit floor, signed amounts (a negative floor is an
input `set_min_safety_deposit` must refuse), and a claim window that includes the timelock
itself, one second more than the EVM side's.

**`ResolverRegistry`** and **`SorobanRegistry`** model stake, top-up, exit and slashing. The
EVM one keeps the packed list with its 1-based index and `_removeFromList`'s swap-and-pop.
The Soroban one has the two-phase exit: `request_unregister` starts an unbonding window whose
length the admin may change meanwhile, `withdraw_stake` ends it.

**`SorobanStack`** composes `SorobanHTLC` with `SorobanRegistry`: the gate of `create_order`
asks the registry's own state, both on one ledger clock.

**`AtomicSwap`** composes `HTLCEscrow` and `SorobanHTLC` in either direction with two clocks
at most `MaxSkew` apart, a secret that is public when the claim is broadcast and before it
executes, modes that interrupt the Soroban side, and a keeper who is no party to the swap.

**`Sums`** has `SumTo`, the total of a function over `1 .. n`, for the balance invariants.

### Coordinator

**`OrderLifecycle`** (order-service, orders-repo, order-machine, transaction-contract,
stale-cleanup): one order's row and its history under concurrent calls. A call passes through
`checked` (the service read the row and its checks passed), `open` (the repository read it
again in a transaction), `written` and back to `idle`, so everything another call does at an
await in between is explored. `fail` is an error of a statement in a transaction and `crash`
the end of the process. The constant `Engine` picks what a transaction is: on SQLite one connection with
BEGIN IMMEDIATE and ROLLBACK; on Postgres each statement commits by itself, because `atomic`
never binds its statements to the transaction's client.
On SQLite the BEGIN of a second transaction throws an error that `runWithRetry` does not
retry, so the call ends. An error of a statement may be one it does retry (`Retried`): the
transaction runs again, without the service's check. The model does not count the attempts.

**`Reconciler`** (reconciler, ledger-cursor, event-identity, workflow-priority-policy): one
chain, Ethereum or Soroban, seen from the first event of an order to the cursor that passes
it. `start` decides the window, `fetch` gets the events (kind by kind on Ethereum, in ledger
order from the page cursor on Soroban), `claimEvent` marks and claims one, `replay` applies
it through `replayCreated`, `replayClaimed` or `replayRefunded`, `advanceOrderCursor` and
`finish` move the cursors. `replayError` is an error inside the replay's try block, which is
logged and passed over; `chainError` one outside it, which ends the run. `leg` says whether
the chain is the order's source or destination. A service call with its reads is one step
here; what happens inside is `OrderLifecycle`'s subject. The history variable `past` collects
what has happened that a promise of the reconciler's documentation may not survive: a crash,
a swallowed error, a late announcement, an event not found, one skipped as behind its
order's cursor, an outage longer than the lookback, a scan that started at an order's cursor
on the first run, overlapping runs.

## 3. Runs

| Run | Question | Bounds |
|---|---|---|
| `escrow` | Does one order settle in its window, once, unblockably, paying everyone, as `HashTimeLock` allows? | 2 users (one a contract that may reject ETH), ETH and one token, amounts and deposits 0 and 1, timelocks 1 and 2, time to 3. Time 3 lets every order expire; further orders are covered by the proofs. |
| `soroban_one` | While Live, is exactly one of claim and refund open at every instant; do modes and floors leave the refinement intact? | one order, all modes, floors -1, 0, 1, time to 3 |
| `soroban_two` | Does the contract hold what it owes when orders share an asset? | two orders, two assets, amounts 1, time to 2: the smallest time in which refunds happen |
| `registry` | Is the list packed, are stakes backed, does only slashing deactivate? | 3 users, so that a removal hits first, middle and last slot |
| `soroban_registry` | Stakes backed, list exact, exits open and one-way under slashes and period changes? | 2 resolvers, periods 0 to 2, time to 3 |
| `soroban_stack` | Can a resolver take its stake out before an order it created expires, or create orders while leaving? | 1 resolver, 1 order, minimum period = longest timelock = 2, as the sources' constants are equal |
| `swap` | Does anyone who follows the asymmetric timelocks lose both legs; does every leg end? | one swap, timelocks 2 and 5, latency, reaction and skew 1, time to 7 |
| `orders` | Does the history account for the row, is the status backed by locks, do locks, secrets, rollbacks, cancellations and abandonments follow the table whatever they race with? (`setStatus` does not look at the status it replaces and is left out of the last one.) | SQLite, 3 calls at once, 2 locks, 1 secret, 4 transitions; calls and locks are symmetric |
| `orders_postgres` | The same history invariant on Postgres. **Violated.** | as `orders` |
| `reconciler` | Does the cursor pass only claimed events, do undisturbed runs lose none, are outcomes the source's, is everything claimed in the end? | one order on either leg, Ethereum or Soroban, blocks 2 to 4 with lookback 2 (so that the gap happens), one crash or failed call anywhere, runs one after the other |
| `reconciler_loss` | "No silent event loss" across a restart. **Violated.** | one order, one crash |
| `reconciler_leg` | Is the source lock always the source chain's? **Violated.** | one order whose destination is this chain |

What the violations show:

- *orders_postgres.* `orders-repo.ts` says that while the callback of `atomic` runs,
  `this.active` points at the transaction's connection. It never does: the callback ignores
  the scoped connection. A failure between the two statements leaves a status without its
  history row.
- *reconciler_loss.* An event is claimed in `processed_events` before it is applied. A
  process that dies in between never applies it, though the header of `reconciler.ts`
  promises that events in the window are processed even after a restart. The Solana pipeline
  claims after it applies.
- *reconciler_leg.* A created event's order is looked up by hashlock, which both legs share.
  A destination lock replayed before the source's is recorded is passed to `recordSrcLock`.

Deadlock is not checked where a bound ends the behaviours (time, orders, transitions); it is
checked for the reconciler, which can always start another run.

**Fairness.** The invariants need none. `LegsEnd` (in `swap`) assumes that both chains' clocks
keep moving whatever the admin toggles (strong fairness of the ticks), that a broadcast claim
that stays possible executes, and that some keeper calls a refund that stays possible; refunds
are open to anyone. The keeper is the assumption about the world here, not about the code.
`EventsAreClaimed` (in `reconciler`) assumes weak fairness of each run's steps: the interval
timer of `index.ts` starts runs for ever and an undisturbed run goes on. Crashes and failed
calls are bounded in number; for ever failing calls nothing can be promised.

## 4. Proofs

`HTLCEscrowProofs` proves, for any number of accounts, orders and tokens and any amounts,
`TypeOK`, `Solvency`, `EveryoneIsPaid`, `SettledInWindow`, `Finality` and the refinement
`IsHashTimeLock`. The inductive invariant is the conjunction of the state predicates,

    IInv == TypeOK /\ Solvency /\ EveryoneIsPaid /\ SettledInWindow

`Solvency` and `EveryoneIsPaid` are equalities between sums over all orders, so a step must be
shown to change both sides alike: `PayoutEffect` says what a payout does to balances and
credits whatever the pushes return, `SettleSums` and `CreateSums` what a settlement and a
creation do to the totals, `SettlementKeepsBooks`, `CreateKeepsBooks` and `WithdrawKeepsBooks`
put the two together. `TypeOK` is needed for balances to be natural numbers, and `Solvency`
for the escrow to have what a payout takes. The refinement maps the creation and
the settlement of an order and the passing of time to the abstract `Fund`, `Claim`, `Refund` and `Advance`,
and withdrawals and changes of the gate to stutters.

`ResolverRegistryProofs` proves `ListIsPacked` and `StakesAreBacked` from

    IInv == TypeOK /\ ListIsPacked /\ StakesAreBacked

`UnregisterStep` is the interesting case: the last entry moves into the hole, its index
follows, and the leaver's stake leaves the sum.

`SumsProofs` has the lemmas about `SumTo`: congruence, update of one entry, extension, sign.
`SumTo` is a recursive function, the running totals of its argument. That the totals exist and
are unique (`TotalsExist`, `TotalsAgree`) is proved from the least number principle
(`LeastNatural`), and everything else from the step `SumToStep`.

The only assumptions are `EscrowAssumption` and `RegistryAssumption`: the numeric constants are
natural numbers, amounts and deposits are sets of them, the contract is one of the accounts,
and the marks for ETH and for "no registry" are no token and no registry. Hash functions are
collision free by construction, a digest being the pair of the function and its argument.
`MaxOrders` and `MaxTime` are arbitrary, so the bounds restrict nothing in the theorems.

Only model-checked: liveness (`LegsEnd`, `EventsAreClaimed`), the properties that speak of
ENABLED (`SettlementNeverBlocked`, `ExactlyOneExit`, `ExitNeverBlocked`), which are out of the
prover's reach, `OnlySlashingDeactivates` of `ResolverRegistry`, and everything about `SorobanHTLC`, `SorobanRegistry`, `SorobanStack`,
`AtomicSwap`, `OrderLifecycle` and `Reconciler`.

## 5. Not modelled

- Ownership and admin hand-over of the contracts, timestamps and reason strings of the
  registries, ledger-entry lifetimes on Soroban, `governance.rs` and `migration.rs` (`lib.rs` calls
  the latter and declares no such module).
- ERC-20 tokens that take fees or call back; the escrow's reentrancy guard makes a call one step.
- The overflow of amounts: both contracts' languages revert or trap, a step not taken.
- Reorganisations of a chain under the reconciler; the listeners' confirmation queues.
- The Solana pipeline of the reconciler, the listeners, the secret service, the schedulers.
- Relayer, resolver daemon, SDK beyond its contract clients, frontend, dashboard, scripts.

## 6. Plan

1. `Reconciler`: two overlapping runs and two orders in a run of their own; the Solana
   pipeline, which takes signatures newest first; then a composition with `OrderLifecycle`
   that also knows destination locks.
2. `SorobanListener` (checkpoints, gaps, bounded replay), `SolanaListener` (slot regression),
   `EthereumListener` (confirmation queue), against the promise that the reconciler covers
   what they miss.
3. `Relayer`: idempotency keys, settlement and refund jobs, retry engine with its circuit
   breaker, recovery; abstract specification: each order is settled at most once.
4. `ResolverLifecycle`: the lifecycle table, forced transitions, supervisor, cursor store.
5. `SecretService`: reveal, encryption versions, re-encryption.
6. Proofs: `SorobanHTLC` (solvency, refinement of `HashTimeLock`), after which `soroban_two`
   can go; `SorobanRegistry` (`StakesAreBacked`, `ListMatchesEntries`); `OrderLifecycle`
   (`TrailAccountsForRow` on SQLite); `Reconciler` (`CursorPassesOnlyClaimed`).
