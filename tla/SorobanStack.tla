---------------------------- MODULE SorobanStack ----------------------------
(***************************************************************************)
(* The two Stellar contracts together: SorobanHTLC gated by the resolver   *)
(* registry of SorobanRegistry, on one ledger clock.  What SorobanHTLC     *)
(* takes for granted about a registry is here what is_active answers.      *)
(***************************************************************************)
EXTENDS SorobanRegistry

CONSTANTS
    Assets, Preimages,
    MIN_TIMELOCK_SECONDS, MAX_TIMELOCK_SECONDS,
    Amounts, Deposits, MinDeposits,
    MaxOrders

VARIABLES
    contract_mode, min_safety_deposit, resolver_registry, orders, balance,
    gated               \* history: the orders created through the gate

htlcVars == <<contract_mode, min_safety_deposit, resolver_registry, orders, balance>>
stackVars == <<vars, htlcVars, gated>>

Registry == 1
Active == [r \in {Registry} |-> {a \in Users : is_active(a)}]

HTLC == INSTANCE SorobanHTLC WITH Registries <- {Registry}, active <- Active

\* Both are 86 400 seconds in the sources.
ASSUME StackAssumption == MAX_TIMELOCK_SECONDS = MIN_UNBONDING_PERIOD_SECS

StackInit == Init /\ HTLC!Init /\ gated = {}

\* create_order asks the configured registry, if there is one.
CreateOrder ==
    /\ UNCHANGED registryVars
    /\ HTLC!Create
    /\ gated' = IF resolver_registry = Registry THEN gated \cup {Len(orders')} ELSE gated

SettleOrder ==
    /\ UNCHANGED registryVars
    /\ HTLC!Claim \/ HTLC!Refund
    /\ UNCHANGED gated

AdministerHTLC ==
    /\ UNCHANGED registryVars
    /\ \/ \E m \in {"Live", "Paused", "Maintenance"} : HTLC!set_mode(m)
       \/ \E r \in {Registry, HTLC!NoRegistry} : HTLC!set_resolver_registry(r)
    /\ UNCHANGED gated

RegistryCall ==
    /\ SelfService \/ Govern
    /\ UNCHANGED <<htlcVars, gated>>

LedgerCloses ==
    /\ Tick
    /\ UNCHANGED <<htlcVars, gated>>

StackNext == CreateOrder \/ SettleOrder \/ AdministerHTLC \/ RegistryCall \/ LedgerCloses

StackSpec == StackInit /\ [][StackNext]_stackVars

-----------------------------------------------------------------------------
\* Until the timelock of an order created through the gate, its creator's entry
\* is still in the registry, so its stake can still be slashed, however the
\* unbonding period was changed and whenever the creator asked to leave.  (At
\* the timelock itself the order can still be claimed and the stake be gone.)
StakeOutlivesOrders ==
    \A i \in gated : now < orders[i].timelock => registered(orders[i].sender)

\* No order is created through the gate by a resolver that has asked to leave or
\* was slashed below the floor.
NoOrdersWhileLeaving ==
    [][\A i \in gated' \ gated : resolvers[orders'[i].sender].lifecycle = "Active"]_stackVars
=============================================================================
