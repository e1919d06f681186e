----------------------------- MODULE HTLCEscrow -----------------------------
(***************************************************************************)
(* The Ethereum-side hash-time-locked escrow, contracts/HTLCEscrow.sol.    *)
(* Every external function is one atomic action: a transaction either runs *)
(* to its end or reverts and leaves no trace, and ReentrancyGuard keeps    *)
(* the three functions that move funds from interleaving with themselves.  *)
(* The one place where another party acts inside a transaction is the ETH  *)
(* push of _payoutNative, whose outcome is a nondeterministic choice.      *)
(*                                                                         *)
(* Addresses are integers, as on the EVM: 0 is address(0), the accounts    *)
(* are 1 .. N and This is the escrow's own address, which createOrder      *)
(* accepts as a beneficiary like any other.  ERC-20 tokens are assumed to  *)
(* move exactly the amount asked for, and callers to have approved it.     *)
(***************************************************************************)
EXTENDS Integers, Sequences, Sums

CONSTANTS
    N,                  \* number of accounts
    This,               \* the escrow's address
    Contracts,          \* accounts whose receive hook may reject an ETH push
    Tokens,             \* ERC-20 token contracts
    Registries,         \* resolver registries the owner may point to
    Preimages,          \* 32-byte secrets
    MIN_TIMELOCK, MAX_TIMELOCK,
    minSafetyDeposit,
    Funding,            \* what every account holds of every asset at the start
    Amounts, Deposits,  \* values createOrder is called with
    MaxOrders, MaxTime  \* bounds of the model

Accounts == 1 .. N
Users == Accounts \ {This}
Native == 0
NoRegistry == 0

ASSUME EscrowAssumption ==
    /\ N \in Nat /\ This \in 1 .. N /\ Contracts \subseteq 1 .. N
    /\ MIN_TIMELOCK \in Nat /\ MAX_TIMELOCK \in Nat /\ minSafetyDeposit \in Nat
    /\ Funding \in Nat /\ Amounts \subseteq Nat /\ Deposits \subseteq Nat
    /\ MaxOrders \in Nat /\ MaxTime \in Nat
    /\ Native \notin Tokens /\ NoRegistry \notin Registries

\* sha256 and keccak256 are collision free: a digest is the pair of the
\* function and its argument.
Sha256(p) == <<"sha256", p>>
Keccak256(p) == <<"keccak256", p>>
Hashlocks == {Sha256(p) : p \in Preimages} \cup {Keccak256(p) : p \in Preimages}
NoDigest == <<"none">>
\* A finalised order's caller is not stored by the contract: it is the
\* indexed argument of OrderClaimed and OrderRefunded.
Nobody == 0

VARIABLES
    now,                \* block.timestamp
    resolverRegistry,   \* the registry that gates createOrder, or NoRegistry
    active,             \* active[r]: the accounts registry r reports active
    orders,             \* _orders, in order of id; _nextOrderId = Len(orders) + 1
    pendingWithdrawals, \* _pendingWithdrawals
    eth,                \* ETH balances, the escrow's included
    erc20               \* token balances, the escrow's included

vars == <<now, resolverRegistry, active, orders, pendingWithdrawals, eth, erc20>>

Init ==
    /\ now = 0
    /\ resolverRegistry \in Registries \cup {NoRegistry}
    /\ active \in [Registries -> SUBSET Users]
    /\ orders = <<>>
    /\ pendingWithdrawals = [a \in Accounts |-> 0]
    /\ eth = [a \in Accounts |-> IF a = This THEN 0 ELSE Funding]
    /\ erc20 = [t \in Tokens |-> [a \in Accounts |-> IF a = This THEN 0 ELSE Funding]]

\* A transfer inside one asset's balance table; from = to changes nothing.
Move(bal, from, to, x) ==
    LET debited == [bal EXCEPT ![from] = @ - x]
    IN  [debited EXCEPT ![to] = @ + x]

\* _pendingWithdrawals[to] += x
Credit(pending, to, x) == [pending EXCEPT ![to] = @ + x]

\* Mutant: the duration is stored as the deadline.
createOrderRelativeTimelock(sender, beneficiary, refundAddress, token, amount, safetyDeposit, hashlock, timelockSeconds) ==
    LET value == safetyDeposit + (IF token = Native THEN amount ELSE 0)
    IN
    /\ Len(orders) < MaxOrders /\ amount # 0 /\ safetyDeposit >= minSafetyDeposit
    /\ timelockSeconds >= MIN_TIMELOCK /\ timelockSeconds <= MAX_TIMELOCK
    /\ resolverRegistry # NoRegistry => sender \in active[resolverRegistry]
    /\ eth[sender] >= value
    /\ token # Native => erc20[token][sender] >= amount
    /\ eth' = Move(eth, sender, This, value)
    /\ erc20' = IF token = Native THEN erc20
                ELSE [erc20 EXCEPT ![token] = Move(@, sender, This, amount)]
    /\ orders' = Append(orders,
           [sender |-> sender, beneficiary |-> beneficiary, refundAddress |-> refundAddress,
            token |-> token, amount |-> amount, safetyDeposit |-> safetyDeposit,
            hashlock |-> hashlock, timelock |-> timelockSeconds, createdAt |-> now,
            finalisedAt |-> 0, status |-> "Funded", preimageKeccak |-> NoDigest,
            caller |-> Nobody])
    /\ UNCHANGED <<now, resolverRegistry, active, pendingWithdrawals>>

(***************************************************************************)
(* createOrder.  msg.value is amount + safetyDeposit for ETH and           *)
(* safetyDeposit for a token, so a caller who cannot pay it cannot call.   *)
(***************************************************************************)
createOrder(sender, beneficiary, refundAddress, token, amount, safetyDeposit, hashlock, timelockSeconds) ==
    LET value == safetyDeposit + (IF token = Native THEN amount ELSE 0)
    IN
    /\ Len(orders) < MaxOrders
    /\ amount # 0
    /\ timelockSeconds >= MIN_TIMELOCK /\ timelockSeconds <= MAX_TIMELOCK
    /\ safetyDeposit >= minSafetyDeposit
    /\ resolverRegistry # NoRegistry => sender \in active[resolverRegistry]
    /\ eth[sender] >= value
    /\ token # Native => erc20[token][sender] >= amount
    /\ eth' = Move(eth, sender, This, value)
    /\ erc20' = IF token = Native THEN erc20
                ELSE [erc20 EXCEPT ![token] = Move(@, sender, This, amount)]
    /\ orders' = Append(orders,
           [sender |-> sender, beneficiary |-> beneficiary, refundAddress |-> refundAddress,
            token |-> token, amount |-> amount, safetyDeposit |-> safetyDeposit,
            hashlock |-> hashlock, timelock |-> now + timelockSeconds, createdAt |-> now,
            finalisedAt |-> 0, status |-> "Funded", preimageKeccak |-> NoDigest,
            caller |-> Nobody])
    /\ UNCHANGED <<now, resolverRegistry, active, pendingWithdrawals>>

\* How much of x wei a low-level call delivers, all or nothing: a plain account
\* accepts, a contract may not, the escrow's own receive() always reverts, and
\* no call can send more than the escrow holds.
Delivered(bal, to, x) ==
    IF bal[This] < x \/ to = This THEN {0}
    ELSE IF to \in Contracts THEN {0, x} ELSE {x}

\* Mutant: a push that fails reverts the settlement.
payoutBothOrRevert(o, recipient, caller) ==
    LET due == IF o.token = Native THEN o.amount ELSE 0 IN
    /\ due \in Delivered(eth, recipient, due)
    /\ o.safetyDeposit \in Delivered(Move(eth, This, recipient, due), caller, o.safetyDeposit)
    /\ eth' = Move(Move(eth, This, recipient, due), This, caller, o.safetyDeposit)
    /\ erc20' = IF o.token = Native THEN erc20
                ELSE [erc20 EXCEPT ![o.token] = Move(@, This, recipient, o.amount)]
    /\ UNCHANGED pendingWithdrawals

\* Mutant: a deposit whose push fails is credited to the recipient of the amount.
payoutBothMiscredited(o, recipient, caller) ==
    LET due == IF o.token = Native THEN o.amount ELSE 0 IN
    \E sent \in Delivered(eth, recipient, due) :
       LET eth1 == Move(eth, This, recipient, sent) IN
       \E reward \in Delivered(eth1, caller, o.safetyDeposit) :
          /\ eth' = Move(eth1, This, caller, reward)
          /\ pendingWithdrawals' =
                Credit(pendingWithdrawals, recipient, due - sent + o.safetyDeposit - reward)
          /\ erc20' = IF o.token = Native THEN erc20
                      ELSE [erc20 EXCEPT ![o.token] = Move(@, This, recipient, o.amount)]

(***************************************************************************)
(* The two _payout calls that end claimOrder and refundOrder: the amount   *)
(* to its recipient, then the deposit in ETH to the caller.  What an ETH   *)
(* push does not deliver becomes a credit; a token transfer that fails     *)
(* would revert.                                                           *)
(***************************************************************************)
payoutBoth(o, recipient, caller) ==
    LET due == IF o.token = Native THEN o.amount ELSE 0 IN
    \E sent \in Delivered(eth, recipient, due) :
       LET eth1 == Move(eth, This, recipient, sent)
           pending1 == Credit(pendingWithdrawals, recipient, due - sent)
       IN  \E reward \in Delivered(eth1, caller, o.safetyDeposit) :
           /\ eth' = Move(eth1, This, caller, reward)
           /\ pendingWithdrawals' = Credit(pending1, caller, o.safetyDeposit - reward)
           /\ o.token # Native => erc20[o.token][This] >= o.amount
           /\ erc20' = IF o.token = Native THEN erc20
                       ELSE [erc20 EXCEPT ![o.token] = Move(@, This, recipient, o.amount)]

\* Mutant: the raw preimage is stored.
claimOrderStoringPreimage(caller, orderId, preimage) ==
    LET o == orders[orderId] IN
    /\ o.status = "Funded" /\ now < o.timelock
    /\ o.hashlock \in {Sha256(preimage), Keccak256(preimage)}
    /\ orders' = [orders EXCEPT ![orderId] =
           [@ EXCEPT !.status = "Claimed", !.finalisedAt = now,
                     !.preimageKeccak = preimage, !.caller = caller]]
    /\ payoutBoth(o, o.beneficiary, caller)
    /\ UNCHANGED <<now, resolverRegistry, active>>

\* Mutant: a claim is still accepted at the timelock.
claimOrderAtTimelock(caller, orderId, preimage) ==
    LET o == orders[orderId] IN
    /\ o.status = "Funded" /\ now <= o.timelock
    /\ o.hashlock \in {Sha256(preimage), Keccak256(preimage)}
    /\ orders' = [orders EXCEPT ![orderId] =
           [@ EXCEPT !.status = "Claimed", !.finalisedAt = now,
                     !.preimageKeccak = Keccak256(preimage), !.caller = caller]]
    /\ payoutBoth(o, o.beneficiary, caller)
    /\ UNCHANGED <<now, resolverRegistry, active>>

claimOrder(caller, orderId, preimage) ==
    LET o == orders[orderId] IN
    /\ o.status = "Funded"
    /\ now < o.timelock
    /\ o.hashlock \in {Sha256(preimage), Keccak256(preimage)}
    /\ orders' = [orders EXCEPT ![orderId] =
           [@ EXCEPT !.status = "Claimed", !.finalisedAt = now,
                     !.preimageKeccak = Keccak256(preimage), !.caller = caller]]
    /\ payoutBoth(o, o.beneficiary, caller)
    /\ UNCHANGED <<now, resolverRegistry, active>>

\* Mutant: refundOrder forgets OrderNotActionable.
refundOrderTwice(caller, orderId) ==
    LET o == orders[orderId] IN
    /\ now > o.timelock
    /\ orders' = [orders EXCEPT ![orderId] =
           [@ EXCEPT !.status = "Refunded", !.finalisedAt = now, !.caller = caller]]
    /\ payoutBoth(o, o.refundAddress, caller)
    /\ UNCHANGED <<now, resolverRegistry, active>>

\* Mutant: refundOrder forgets NotExpired.
refundOrderAnytime(caller, orderId) ==
    LET o == orders[orderId] IN
    /\ o.status = "Funded"
    /\ orders' = [orders EXCEPT ![orderId] =
           [@ EXCEPT !.status = "Refunded", !.finalisedAt = now, !.caller = caller]]
    /\ payoutBoth(o, o.refundAddress, caller)
    /\ UNCHANGED <<now, resolverRegistry, active>>

\* Mutant: only the refund address may ask for the refund.
refundOrderOwnerOnly(caller, orderId) ==
    LET o == orders[orderId] IN
    /\ o.status = "Funded" /\ now > o.timelock /\ caller = o.refundAddress
    /\ orders' = [orders EXCEPT ![orderId] =
           [@ EXCEPT !.status = "Refunded", !.finalisedAt = now, !.caller = caller]]
    /\ payoutBoth(o, o.refundAddress, caller)
    /\ UNCHANGED <<now, resolverRegistry, active>>

refundOrder(caller, orderId) ==
    LET o == orders[orderId] IN
    /\ o.status = "Funded"
    /\ now > o.timelock
    /\ orders' = [orders EXCEPT ![orderId] =
           [@ EXCEPT !.status = "Refunded", !.finalisedAt = now, !.caller = caller]]
    /\ payoutBoth(o, o.refundAddress, caller)
    /\ UNCHANGED <<now, resolverRegistry, active>>

\* Mutant: withdraw does not clear the credit.
withdrawKeepingCredit(caller) ==
    LET amount == pendingWithdrawals[caller] IN
    /\ amount # 0
    /\ amount \in Delivered(eth, caller, amount)
    /\ eth' = Move(eth, This, caller, amount)
    /\ UNCHANGED <<now, resolverRegistry, active, orders, pendingWithdrawals, erc20>>

\* Pull payment.  A transfer that fails reverts the call and keeps the credit.
withdraw(caller) ==
    LET amount == pendingWithdrawals[caller] IN
    /\ amount # 0
    /\ amount \in Delivered(eth, caller, amount)
    /\ pendingWithdrawals' = [pendingWithdrawals EXCEPT ![caller] = 0]
    /\ eth' = Move(eth, This, caller, amount)
    /\ UNCHANGED <<now, resolverRegistry, active, orders, erc20>>

\* Owner only; the gate can be repointed but not removed.
setResolverRegistry(newRegistry) ==
    /\ newRegistry # NoRegistry
    /\ resolverRegistry' = newRegistry
    /\ UNCHANGED <<now, active, orders, pendingWithdrawals, eth, erc20>>

\* A registry changes its mind about its accounts (ResolverRegistry models how).
RegistryStep(r, accounts) ==
    /\ active' = [active EXCEPT ![r] = accounts]
    /\ UNCHANGED <<now, resolverRegistry, orders, pendingWithdrawals, eth, erc20>>

\* Block timestamps only grow.
Tick ==
    /\ now < MaxTime
    /\ now' = now + 1
    /\ UNCHANGED <<resolverRegistry, active, orders, pendingWithdrawals, eth, erc20>>

Create ==
    \E sender \in Users, beneficiary, refundAddress \in Accounts, token \in Tokens \cup {Native},
       amount \in Amounts, safetyDeposit \in Deposits, hashlock \in Hashlocks,
       timelockSeconds \in 0 .. MAX_TIMELOCK + 1 :
       createOrder(sender, beneficiary, refundAddress, token, amount, safetyDeposit, hashlock, timelockSeconds)

Claim ==
    \E caller \in Users, orderId \in 1 .. Len(orders), preimage \in Preimages :
       claimOrder(caller, orderId, preimage)

Refund ==
    \E caller \in Users, orderId \in 1 .. Len(orders) : refundOrder(caller, orderId)

Withdraw == \E caller \in Users : withdraw(caller)

Administer ==
    \/ \E r \in Registries : setResolverRegistry(r)
    \/ \E r \in Registries, accounts \in SUBSET Users : RegistryStep(r, accounts)

Next == Create \/ Claim \/ Refund \/ Withdraw \/ Administer \/ Tick

Spec == Init /\ [][Next]_vars

-----------------------------------------------------------------------------
OrderType ==
    [sender : Users, beneficiary : Accounts, refundAddress : Accounts,
     token : Tokens \cup {Native}, amount : Nat, safetyDeposit : Nat,
     hashlock : Hashlocks, timelock : Nat, createdAt : Nat, finalisedAt : Nat,
     status : {"Funded", "Claimed", "Refunded"},
     preimageKeccak : {Keccak256(p) : p \in Preimages} \cup {NoDigest},
     caller : Users \cup {Nobody}]

\* Types of the contract's storage and of the balances it can reach: no
\* balance goes below zero, as uint256 arithmetic would revert.
TypeOK ==
    /\ now \in Nat
    /\ resolverRegistry \in Registries \cup {NoRegistry}
    /\ active \in [Registries -> SUBSET Users]
    /\ orders \in Seq(OrderType)
    /\ pendingWithdrawals \in [Accounts -> Nat]
    /\ eth \in [Accounts -> Nat]
    /\ erc20 \in [Tokens -> [Accounts -> Nat]]

\* What an order still keeps in the escrow, of ETH and of a token.
LockedEth(o) ==
    IF o.status # "Funded" THEN 0
    ELSE o.safetyDeposit + (IF o.token = Native THEN o.amount ELSE 0)
LockedToken(t, o) == IF o.status = "Funded" /\ o.token = t THEN o.amount ELSE 0

TotalLockedEth == SumTo([i \in 1 .. Len(orders) |-> LockedEth(orders[i])], Len(orders))
TotalLockedToken(t) == SumTo([i \in 1 .. Len(orders) |-> LockedToken(t, orders[i])], Len(orders))

\* The ETH the escrow holds is exactly what funded orders lock plus what
\* failed pushes have credited, and it holds every token its funded orders lock:
\* no sequence of claims, refunds, failed pushes and withdrawals pays one order
\* with another's money (createOrder, _payoutNative, withdraw).
Solvency ==
    /\ eth[This] = TotalLockedEth + SumTo(pendingWithdrawals, N)
    /\ \A t \in Tokens : erc20[t][This] >= TotalLockedToken(t)

\* What an order has given an account so far: minus what the sender paid in,
\* plus the amount and the deposit for whoever its status says they belong to.
Payee(o) == CASE o.status = "Funded" -> This
              [] o.status = "Claimed" -> o.beneficiary
              [] o.status = "Refunded" -> o.refundAddress
Rewarded(o) == IF o.status = "Funded" THEN This ELSE o.caller
EthDelta(o, a) ==
    LET amount == IF o.token = Native THEN o.amount ELSE 0
    IN  (IF Payee(o) = a THEN amount ELSE 0) + (IF Rewarded(o) = a THEN o.safetyDeposit ELSE 0)
          - (IF o.sender = a THEN amount + o.safetyDeposit ELSE 0)
TokenDelta(t, o, a) ==
    LET amount == IF o.token = t THEN o.amount ELSE 0
    IN  (IF Payee(o) = a THEN amount ELSE 0) - (IF o.sender = a THEN amount ELSE 0)

\* Every user owns, in hand or as a credit only they can withdraw, exactly what
\* they started with plus what the statuses of the orders say they are due: the
\* beneficiary of a claim and the refund address of a refund are paid once and
\* in full, and whoever settled the order got the deposit, however the pushes
\* went (claimOrder, refundOrder, _payoutNative, withdraw).
EveryoneIsPaid ==
    \A a \in Users :
      /\ eth[a] + pendingWithdrawals[a] =
            Funding + SumTo([i \in 1 .. Len(orders) |-> EthDelta(orders[i], a)], Len(orders))
      /\ \A t \in Tokens :
            erc20[t][a] = Funding + SumTo([i \in 1 .. Len(orders) |-> TokenDelta(t, orders[i], a)], Len(orders))

\* An order that left Funded did so inside its window: a claim with a preimage
\* of its hashlock strictly before the timelock, a refund strictly after it
\* (claimOrder's Expired, refundOrder's NotExpired).
SettledInWindow ==
    \A i \in 1 .. Len(orders) :
      LET o == orders[i] IN
      /\ o.status = "Claimed" =>
            /\ o.finalisedAt < o.timelock
            /\ \E p \in Preimages : /\ o.hashlock \in {Sha256(p), Keccak256(p)}
                                    /\ o.preimageKeccak = Keccak256(p)
      /\ o.status = "Refunded" => o.timelock < o.finalisedAt
      /\ o.status = "Funded" => o.preimageKeccak = NoDigest

\* Nothing the owner, a registry or a recipient that rejects ETH can do keeps a
\* funded order from being settled: with the preimage anyone can claim before
\* the timelock, and after it anyone can refund (claimOrder and refundOrder do
\* not consult the registry, and _payoutNative never reverts).
SettlementNeverBlocked ==
    \A i \in 1 .. Len(orders), a \in Users :
      LET o == orders[i] IN
      o.status = "Funded" =>
        /\ now < o.timelock =>
             \A p \in Preimages : o.hashlock \in {Sha256(p), Keccak256(p)} => ENABLED claimOrder(a, i, p)
        /\ now > o.timelock => ENABLED refundOrder(a, i)

Terms == {"sender", "beneficiary", "refundAddress", "token", "amount",
          "safetyDeposit", "hashlock", "timelock", "createdAt"}
KeepsOrders ==
    /\ Len(orders') >= Len(orders)
    /\ \A i \in 1 .. Len(orders) :
         /\ orders[i].status # "Funded" => orders'[i] = orders[i]
         /\ \A f \in Terms : orders'[i][f] = orders[i][f]

\* An order's terms are fixed when it is created, and its status changes once:
\* no later call rewrites a finalised order or reuses its id.
Finality == [][KeepsOrders]_vars

BookOf(os) == [i \in 1 .. Len(os) |->
                [hashlock |-> os[i].hashlock, timelock |-> os[i].timelock, status |-> os[i].status]]
Opens(p, h) == h \in {Sha256(p), Keccak256(p)}
HTL == INSTANCE HashTimeLock WITH
         Hashlocks <- Hashlocks, Secrets <- Preimages, Opens <- Opens,
         Durations <- MIN_TIMELOCK .. MAX_TIMELOCK,
         clock <- now, book <- BookOf(orders)

\* Whatever tokens, pushes, registries and owners do, the order book implements
\* HashTimeLock: an order is settled once, claimed with its secret before the
\* timelock or refunded after it.
IsHashTimeLock == HTL!Spec
=============================================================================
