---------------------------- MODULE SorobanHTLC ----------------------------
(***************************************************************************)
(* The Stellar-side hash-time-locked escrow, soroban/contracts/htlc.       *)
(* Every entry point is one atomic action: a panic rolls the invocation    *)
(* back.  The safety deposit is paid in the order's own asset, transfers   *)
(* either succeed or panic, and only sha256 opens a hashlock.  The schema  *)
(* is current and no migration batch is running; ledger-entry lifetimes    *)
(* and the asset's class, which no entry point branches on, are left out.  *)
(*                                                                         *)
(* Accounts are 1 .. N and This is the contract's own address.             *)
(***************************************************************************)
EXTENDS Integers, Sequences, Sums

CONSTANTS
    N, This,
    Assets,
    Registries,
    Preimages,
    MIN_TIMELOCK_SECONDS, MAX_TIMELOCK_SECONDS,
    Funding,            \* what every account holds of every asset at the start
    Amounts, Deposits,  \* values create_order is called with
    MinDeposits,        \* values set_min_safety_deposit is called with
    MaxOrders, MaxTime  \* bounds of the model

Accounts == 1 .. N
Users == Accounts \ {This}
NoRegistry == 0

ASSUME SorobanAssumption ==
    /\ N \in Nat /\ This \in 1 .. N
    /\ MIN_TIMELOCK_SECONDS \in Nat /\ MAX_TIMELOCK_SECONDS \in Nat
    /\ Funding \in Nat /\ Amounts \subseteq Int /\ Deposits \subseteq Int
    /\ MinDeposits \subseteq Int /\ 0 \in MinDeposits
    /\ MaxOrders \in Nat /\ MaxTime \in Nat
    /\ NoRegistry \notin Registries

Sha256(p) == <<"sha256", p>>
Keccak256(p) == <<"keccak256", p>>
\* create_order takes any 32 bytes, a keccak256 digest included.
Hashlocks == {Sha256(p) : p \in Preimages} \cup {Keccak256(p) : p \in Preimages}

VARIABLES
    now,                \* env.ledger().timestamp()
    contract_mode,
    min_safety_deposit,
    resolver_registry,  \* the registry that gates create_order, or NoRegistry
    active,             \* active[r]: the accounts registry r reports active
    orders,             \* in order of id; next_order_id = Len(orders) + 1
    balance             \* balance[a]: the balances of asset a

config == <<contract_mode, min_safety_deposit, resolver_registry>>
vars == <<now, config, active, orders, balance>>

Init ==
    /\ now = 0
    /\ contract_mode = "Live"
    /\ min_safety_deposit \in MinDeposits \cap Nat
    /\ resolver_registry = NoRegistry
    /\ active \in [Registries -> SUBSET Users]
    /\ orders = <<>>
    /\ balance = [t \in Assets |-> [a \in Accounts |-> IF a = This THEN 0 ELSE Funding]]

\* settle_transfer inside one asset's balances; from = to changes nothing.
settle_transfer(bal, from, to, x) ==
    LET debited == [bal EXCEPT ![from] = @ - x]
    IN  [debited EXCEPT ![to] = @ + x]

require_create_claim_allowed == contract_mode = "Live"

\* Mutant: a maintenance window closes refunds as well.
require_refund_allowed_live == contract_mode = "Live"

require_refund_allowed == contract_mode # "Paused"

\* Mutant: the deposit is recorded but not collected.
create_order_amount_only(sender, beneficiary, refund_address, asset, amount, safety_deposit, hashlock, timelock_seconds) ==
    /\ Len(orders) < MaxOrders
    /\ require_create_claim_allowed
    /\ amount > 0 /\ safety_deposit >= 0 /\ safety_deposit >= min_safety_deposit
    /\ timelock_seconds \in MIN_TIMELOCK_SECONDS .. MAX_TIMELOCK_SECONDS
    /\ resolver_registry # NoRegistry => sender \in active[resolver_registry]
    /\ balance[asset][sender] >= amount
    /\ balance' = [balance EXCEPT ![asset] = settle_transfer(@, sender, This, amount)]
    /\ orders' = Append(orders,
           [sender |-> sender, beneficiary |-> beneficiary, refund_address |-> refund_address,
            asset |-> asset, amount |-> amount, safety_deposit |-> safety_deposit,
            hashlock |-> hashlock, timelock |-> now + timelock_seconds,
            status |-> "Funded", caller |-> 0])
    /\ UNCHANGED <<now, config, active>>

create_order(sender, beneficiary, refund_address, asset, amount, safety_deposit, hashlock, timelock_seconds) ==
    /\ Len(orders) < MaxOrders
    /\ require_create_claim_allowed
    /\ amount > 0 /\ safety_deposit >= 0
    /\ timelock_seconds \in MIN_TIMELOCK_SECONDS .. MAX_TIMELOCK_SECONDS
    /\ safety_deposit >= min_safety_deposit
    /\ resolver_registry # NoRegistry => sender \in active[resolver_registry]
    /\ balance[asset][sender] >= amount + safety_deposit
    /\ balance' = [balance EXCEPT ![asset] = settle_transfer(@, sender, This, amount + safety_deposit)]
    /\ orders' = Append(orders,
           [sender |-> sender, beneficiary |-> beneficiary, refund_address |-> refund_address,
            asset |-> asset, amount |-> amount, safety_deposit |-> safety_deposit,
            hashlock |-> hashlock, timelock |-> now + timelock_seconds,
            status |-> "Funded", caller |-> 0])
    /\ UNCHANGED <<now, config, active>>

\* The end of claim_order and refund_order: the amount to its recipient, the
\* deposit to the caller, and the order's final status.
settle(order_id, status, recipient, caller) ==
    LET o == orders[order_id]
        paid == settle_transfer(balance[o.asset], This, recipient, o.amount)
    IN
    /\ balance[o.asset][This] >= o.amount
    /\ o.safety_deposit > 0 => paid[This] >= o.safety_deposit
    /\ balance' = [balance EXCEPT ![o.asset] = settle_transfer(paid, This, caller, o.safety_deposit)]
    /\ orders' = [orders EXCEPT ![order_id] = [@ EXCEPT !.status = status, !.caller = caller]]
    /\ UNCHANGED <<now, config, active>>

\* Mutant: a keccak256 digest is opened as well, as on the EVM side.
claim_order_dual_hash(order_id, preimage, caller) ==
    /\ require_create_claim_allowed
    /\ orders[order_id].status = "Funded"
    /\ now <= orders[order_id].timelock
    /\ orders[order_id].hashlock \in {Sha256(preimage), Keccak256(preimage)}
    /\ settle(order_id, "Claimed", orders[order_id].beneficiary, caller)

claim_order(order_id, preimage, caller) ==
    /\ require_create_claim_allowed
    /\ orders[order_id].status = "Funded"
    /\ now <= orders[order_id].timelock
    /\ orders[order_id].hashlock = Sha256(preimage)
    /\ settle(order_id, "Claimed", orders[order_id].beneficiary, caller)

\* Mutant: a refund goes back to the account that paid the order in.
refund_order_to_sender(order_id, caller) ==
    /\ require_refund_allowed
    /\ orders[order_id].status = "Funded"
    /\ now > orders[order_id].timelock
    /\ settle(order_id, "Refunded", orders[order_id].sender, caller)

\* Mutant: refund_order forgets NotExpired.
refund_order_anytime(order_id, caller) ==
    /\ require_refund_allowed
    /\ orders[order_id].status = "Funded"
    /\ settle(order_id, "Refunded", orders[order_id].refund_address, caller)

refund_order(order_id, caller) ==
    /\ require_refund_allowed
    /\ orders[order_id].status = "Funded"
    /\ now > orders[order_id].timelock
    /\ settle(order_id, "Refunded", orders[order_id].refund_address, caller)

-----------------------------------------------------------------------------
(* Administration; the admin's role and its hand-over are not modelled.    *)

set_mode(new_mode) ==
    /\ <<contract_mode, new_mode>> \in {<<"Live", "Paused">>, <<"Live", "Maintenance">>,
                                        <<"Paused", "Live">>, <<"Maintenance", "Live">>}
    /\ contract_mode' = new_mode
    /\ UNCHANGED <<now, min_safety_deposit, resolver_registry, active, orders, balance>>

\* Mutant: a negative minimum is accepted.
set_min_safety_deposit_any(new_minimum) ==
    /\ min_safety_deposit' = new_minimum
    /\ UNCHANGED <<now, contract_mode, resolver_registry, active, orders, balance>>

set_min_safety_deposit(new_minimum) ==
    /\ new_minimum >= 0
    /\ min_safety_deposit' = new_minimum
    /\ UNCHANGED <<now, contract_mode, resolver_registry, active, orders, balance>>

\* set_resolver_registry, and clear_resolver_registry for NoRegistry.
set_resolver_registry(registry) ==
    /\ resolver_registry' = registry
    /\ UNCHANGED <<now, contract_mode, min_safety_deposit, active, orders, balance>>

\* A registry changes its mind about its accounts (SorobanRegistry models how).
RegistryStep(r, accounts) ==
    /\ active' = [active EXCEPT ![r] = accounts]
    /\ UNCHANGED <<now, config, orders, balance>>

Tick ==
    /\ now < MaxTime
    /\ now' = now + 1
    /\ UNCHANGED <<config, active, orders, balance>>

Create ==
    \E sender \in Users, beneficiary, refund_address \in Accounts, asset \in Assets,
       amount \in Amounts, safety_deposit \in Deposits, hashlock \in Hashlocks,
       timelock_seconds \in 0 .. MAX_TIMELOCK_SECONDS + 1 :
       create_order(sender, beneficiary, refund_address, asset, amount, safety_deposit, hashlock, timelock_seconds)

Claim ==
    \E order_id \in 1 .. Len(orders), preimage \in Preimages, caller \in Users :
       claim_order(order_id, preimage, caller)

Refund == \E order_id \in 1 .. Len(orders), caller \in Users : refund_order(order_id, caller)

Administer ==
    \/ \E m \in {"Live", "Paused", "Maintenance"} : set_mode(m)
    \/ \E d \in MinDeposits : set_min_safety_deposit(d)
    \/ \E r \in Registries \cup {NoRegistry} : set_resolver_registry(r)
    \/ \E r \in Registries, accounts \in SUBSET Users : RegistryStep(r, accounts)

Next == Create \/ Claim \/ Refund \/ Administer \/ Tick

Spec == Init /\ [][Next]_vars

-----------------------------------------------------------------------------
OrderType ==
    [sender : Users, beneficiary : Accounts, refund_address : Accounts, asset : Assets,
     amount : Nat, safety_deposit : Nat, hashlock : Hashlocks, timelock : Nat,
     status : {"Funded", "Claimed", "Refunded"}, caller : Users \cup {0}]

\* Types of the contract's storage and of the balances it can reach; no balance
\* goes below zero, as a token contract would panic.
TypeOK ==
    /\ now \in Nat
    /\ contract_mode \in {"Live", "Paused", "Maintenance"}
    /\ min_safety_deposit \in Nat
    /\ resolver_registry \in Registries \cup {NoRegistry}
    /\ active \in [Registries -> SUBSET Users]
    /\ orders \in Seq(OrderType)
    /\ balance \in [Assets -> [Accounts -> Nat]]

Locked(t, o) == IF o.status = "Funded" /\ o.asset = t THEN o.amount + o.safety_deposit ELSE 0

\* The contract holds at least what its funded orders lock, asset by asset.  It
\* holds more only by being a beneficiary or refund address itself.
Solvency ==
    \A t \in Assets :
      balance[t][This] >= SumTo([i \in 1 .. Len(orders) |-> Locked(t, orders[i])], Len(orders))

Payee(o) == CASE o.status = "Funded" -> This
              [] o.status = "Claimed" -> o.beneficiary
              [] o.status = "Refunded" -> o.refund_address
Delta(t, o, a) ==
    IF o.asset # t THEN 0
    ELSE (IF Payee(o) = a THEN o.amount ELSE 0)
           + (IF (IF o.status = "Funded" THEN This ELSE o.caller) = a THEN o.safety_deposit ELSE 0)
           - (IF o.sender = a THEN o.amount + o.safety_deposit ELSE 0)

\* Every account, the contract included, holds what it started with plus what
\* the statuses of the orders say it is due (create_order, claim_order,
\* refund_order).
EveryoneIsPaid ==
    \A t \in Assets, a \in Accounts :
      balance[t][a] = (IF a = This THEN 0 ELSE Funding)
                        + SumTo([i \in 1 .. Len(orders) |-> Delta(t, orders[i], a)], Len(orders))

\* While the contract is Live a funded order has exactly one way out at every
\* instant, the claim (for a sha256 hashlock) up to and including its timelock
\* and the refund after it; a maintenance window closes claims but never
\* refunds; and nothing else, not the registry nor another order, blocks either.
ExactlyOneExit ==
    \A i \in 1 .. Len(orders), a \in Users :
      LET o == orders[i]
          claimable == \E p \in Preimages : ENABLED claim_order(i, p, a)
          refundable == ENABLED refund_order(i, a)
      IN  o.status = "Funded" =>
            /\ refundable <=> (contract_mode # "Paused" /\ now > o.timelock)
            /\ contract_mode = "Live" /\ (\E p \in Preimages : o.hashlock = Sha256(p))
                 => (claimable <=> ~refundable)

\* The order book behaves as a HashTimeLock.
BookOf(os) == [i \in 1 .. Len(os) |->
                [hashlock |-> os[i].hashlock, timelock |-> os[i].timelock, status |-> os[i].status]]
Opens(p, h) == h = Sha256(p)
HTL == INSTANCE HashTimeLock WITH
         Hashlocks <- Hashlocks, Secrets <- Preimages, Opens <- Opens,
         Durations <- MIN_TIMELOCK_SECONDS .. MAX_TIMELOCK_SECONDS,
         clock <- now, book <- BookOf(orders)

\* Whatever assets, modes and registries do, the order book implements
\* HashTimeLock: an order is settled once, claimed with its secret up to the
\* timelock or refunded after it, and its terms never change.
IsHashTimeLock == HTL!Spec
=============================================================================
