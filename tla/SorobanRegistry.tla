-------------------------- MODULE SorobanRegistry --------------------------
(***************************************************************************)
(* The Stellar-side registry of staked resolvers,                          *)
(* soroban/contracts/resolver-registry, whose exit takes two calls and an  *)
(* unbonding window.  Every entry point is one atomic action.  Timestamps  *)
(* and totals that are only recorded, the slash condition, and the admin's *)
(* role are left out.                                                      *)
(*                                                                         *)
(* Accounts are 1 .. N; This is the registry's address.                    *)
(***************************************************************************)
EXTENDS Integers, Sequences, Sums

CONSTANTS
    N, This,
    MIN_UNBONDING_PERIOD_SECS,
    Funding,                \* stake asset every account holds at the start
    MaxStake,               \* bound on the amounts calls are made with
    MinStakes, Periods,     \* values the setters are called with
    MaxTime

Accounts == 1 .. N
Users == Accounts \ {This}

ASSUME RegistryAssumption ==
    /\ N \in Nat /\ This \in 1 .. N /\ Funding \in Nat /\ MaxStake \in Nat /\ MaxTime \in Nat
    /\ MIN_UNBONDING_PERIOD_SECS \in Nat /\ Periods \subseteq Nat /\ MinStakes \subseteq Int

VARIABLES
    now,                    \* env.ledger().timestamp()
    min_stake, slash_beneficiary, unbonding_period,
    resolvers,              \* DataKey::Resolver(a), or NoEntry
    resolver_list,          \* DataKey::ResolverList
    stake_balance           \* balances of the stake asset

config == <<min_stake, slash_beneficiary, unbonding_period>>
registryVars == <<config, resolvers, resolver_list, stake_balance>>
vars == <<now, registryVars>>

NotUnbonding == -1          \* unbonding_at: None
NoEntry == [stake |-> 0, active |-> FALSE, unbonding_at |-> NotUnbonding, lifecycle |-> "Absent"]
registered(a) == resolvers[a].lifecycle # "Absent"

Init ==
    /\ now = 0
    /\ min_stake \in MinStakes \cap Nat
    /\ slash_beneficiary \in Accounts
    /\ unbonding_period \in {p \in Periods : p >= MIN_UNBONDING_PERIOD_SECS}
    /\ resolvers = [a \in Users |-> NoEntry]
    /\ resolver_list = <<>>
    /\ stake_balance = [a \in Accounts |-> IF a = This THEN 0 ELSE Funding]

transfer(from, to, x) ==
    LET debited == [stake_balance EXCEPT ![from] = @ - x]
    IN  /\ stake_balance[from] >= x
        /\ stake_balance' = [debited EXCEPT ![to] = @ + x]

register(resolver, stake) ==
    /\ stake >= min_stake
    /\ ~registered(resolver)
    /\ transfer(resolver, This, stake)
    /\ resolvers' = [resolvers EXCEPT ![resolver] =
           [stake |-> stake, active |-> TRUE, unbonding_at |-> NotUnbonding, lifecycle |-> "Active"]]
    /\ resolver_list' = Append(resolver_list, resolver)
    /\ UNCHANGED <<now, config>>

\* Mutant: a top-up reactivates, as on the EVM side.
increase_stake_reactivating(resolver, additional) ==
    /\ additional > 0 /\ registered(resolver)
    /\ transfer(resolver, This, additional)
    /\ resolvers' = [resolvers EXCEPT ![resolver] =
           IF @.stake + additional >= min_stake /\ @.lifecycle = "Inactive"
           THEN [@ EXCEPT !.stake = @ + additional, !.active = TRUE, !.lifecycle = "Active"]
           ELSE [@ EXCEPT !.stake = @ + additional]]
    /\ UNCHANGED <<now, config, resolver_list>>

increase_stake(resolver, additional) ==
    /\ additional > 0
    /\ registered(resolver)
    /\ transfer(resolver, This, additional)
    /\ resolvers' = [resolvers EXCEPT ![resolver].stake = @ + additional]
    /\ UNCHANGED <<now, config, resolver_list>>

\* Mutant: the resolver stays eligible until it withdraws.
request_unregister_active(resolver) ==
    /\ registered(resolver) /\ resolvers[resolver].unbonding_at = NotUnbonding
    /\ resolvers' = [resolvers EXCEPT ![resolver] =
           [@ EXCEPT !.unbonding_at = now + unbonding_period, !.lifecycle = "Unbonding"]]
    /\ UNCHANGED <<now, config, resolver_list, stake_balance>>

request_unregister(resolver) ==
    /\ registered(resolver)
    /\ resolvers[resolver].unbonding_at = NotUnbonding
    /\ resolvers' = [resolvers EXCEPT ![resolver] =
           [@ EXCEPT !.active = FALSE, !.unbonding_at = now + unbonding_period, !.lifecycle = "Unbonding"]]
    /\ UNCHANGED <<now, config, resolver_list, stake_balance>>

\* Mutant: only an entry still in Unbonding may leave.
withdraw_stake_unbonding_only(resolver) ==
    /\ resolvers[resolver].lifecycle = "Unbonding"
    /\ now >= resolvers[resolver].unbonding_at
    /\ transfer(This, resolver, resolvers[resolver].stake)
    /\ resolvers' = [resolvers EXCEPT ![resolver] = NoEntry]
    /\ resolver_list' = SelectSeq(resolver_list, LAMBDA a : a # resolver)
    /\ UNCHANGED <<now, config>>

\* Mutant: the list keeps the resolver that left.
withdraw_stake_listed(resolver) ==
    /\ registered(resolver) /\ resolvers[resolver].unbonding_at # NotUnbonding
    /\ now >= resolvers[resolver].unbonding_at
    /\ transfer(This, resolver, resolvers[resolver].stake)
    /\ resolvers' = [resolvers EXCEPT ![resolver] = NoEntry]
    /\ UNCHANGED <<now, config, resolver_list>>

\* A fully slashed stake is not transferred.
withdraw_stake(resolver) ==
    /\ registered(resolver)
    /\ resolvers[resolver].unbonding_at # NotUnbonding
    /\ now >= resolvers[resolver].unbonding_at
    /\ transfer(This, resolver, resolvers[resolver].stake)
    /\ resolvers' = [resolvers EXCEPT ![resolver] = NoEntry]
    /\ resolver_list' = SelectSeq(resolver_list, LAMBDA a : a # resolver)
    /\ UNCHANGED <<now, config>>

\* Mutant: more than the stake may be taken.
slash_uncapped(resolver, amount) ==
    LET left == resolvers[resolver].stake - amount IN
    /\ amount > 0 /\ registered(resolver)
    /\ transfer(This, slash_beneficiary, amount)
    /\ resolvers' = [resolvers EXCEPT ![resolver] =
           IF left < min_stake THEN [@ EXCEPT !.stake = left, !.active = FALSE, !.lifecycle = "Inactive"]
           ELSE [@ EXCEPT !.stake = left]]
    /\ UNCHANGED <<now, config, resolver_list>>

\* Mutant: the amount asked for is paid, the amount available recorded.
slash_overpaying(resolver, amount) ==
    LET stake == resolvers[resolver].stake
        take == IF amount < stake THEN amount ELSE stake
    IN
    /\ amount > 0 /\ registered(resolver)
    /\ transfer(This, slash_beneficiary, amount)
    /\ resolvers' = [resolvers EXCEPT ![resolver] =
           IF stake - take < min_stake
           THEN [@ EXCEPT !.stake = stake - take, !.active = FALSE, !.lifecycle = "Inactive"]
           ELSE [@ EXCEPT !.stake = stake - take]]
    /\ UNCHANGED <<now, config, resolver_list>>

\* slash and slash_with_reason.
slash(resolver, amount) ==
    LET stake == resolvers[resolver].stake
        take == IF amount < stake THEN amount ELSE stake
    IN
    /\ amount > 0
    /\ registered(resolver)
    /\ transfer(This, slash_beneficiary, take)
    /\ resolvers' = [resolvers EXCEPT ![resolver] =
           IF stake - take < min_stake
           THEN [@ EXCEPT !.stake = stake - take, !.active = FALSE, !.lifecycle = "Inactive"]
           ELSE [@ EXCEPT !.stake = stake - take]]
    /\ UNCHANGED <<now, config, resolver_list>>

is_active(a) == resolvers[a].active

set_min_stake(new_minimum) ==
    /\ new_minimum >= 0
    /\ min_stake' = new_minimum
    /\ UNCHANGED <<now, slash_beneficiary, unbonding_period, resolvers, resolver_list, stake_balance>>

set_slash_beneficiary(new_beneficiary) ==
    /\ slash_beneficiary' = new_beneficiary
    /\ UNCHANGED <<now, min_stake, unbonding_period, resolvers, resolver_list, stake_balance>>

\* Mutant: any period is accepted.
set_unbonding_period_any(new_period) ==
    /\ unbonding_period' = new_period
    /\ UNCHANGED <<now, min_stake, slash_beneficiary, resolvers, resolver_list, stake_balance>>

set_unbonding_period(new_period) ==
    /\ new_period >= MIN_UNBONDING_PERIOD_SECS
    /\ unbonding_period' = new_period
    /\ UNCHANGED <<now, min_stake, slash_beneficiary, resolvers, resolver_list, stake_balance>>

Tick ==
    /\ now < MaxTime
    /\ now' = now + 1
    /\ UNCHANGED registryVars

SelfService ==
    \E resolver \in Users :
      \/ \E x \in 0 .. MaxStake : register(resolver, x) \/ increase_stake(resolver, x)
      \/ request_unregister(resolver)
      \/ withdraw_stake(resolver)

Govern ==
    \/ \E resolver \in Users, x \in 0 .. MaxStake : slash(resolver, x)
    \/ \E x \in MinStakes : set_min_stake(x)
    \/ \E a \in Accounts : set_slash_beneficiary(a)
    \/ \E p \in Periods : set_unbonding_period(p)

Next == SelfService \/ Govern \/ Tick

Spec == Init /\ [][Next]_vars

-----------------------------------------------------------------------------
InfoType ==
    [stake : Nat, active : BOOLEAN, unbonding_at : Nat \cup {NotUnbonding},
     lifecycle : {"Absent", "Active", "Unbonding", "Inactive"}]

\* Types of the registry's storage and of the stake asset's balances.
TypeOK ==
    /\ now \in Nat
    /\ min_stake \in Nat
    /\ slash_beneficiary \in Accounts
    /\ unbonding_period \in Nat
    /\ resolvers \in [Users -> InfoType]
    /\ resolver_list \in Seq(Users)
    /\ stake_balance \in [Accounts -> Nat]

StakeOf(a) == IF a \in Users THEN resolvers[a].stake ELSE 0

\* The registry holds every stake it has recorded, unbonding ones included,
\* however slashes, exits and new registrations interleave.
StakesAreBacked == stake_balance[This] >= SumTo([a \in Accounts |-> StakeOf(a)], N)

\* The list names exactly the addresses that have an entry, each once, after any
\* number of exits and registrations of the same address.
ListMatchesEntries ==
    /\ \A a \in Users : registered(a) <=> \E i \in 1 .. Len(resolver_list) : resolver_list[i] = a
    /\ \A i, j \in 1 .. Len(resolver_list) : resolver_list[i] = resolver_list[j] => i = j

\* Every way out stays open: an entry that is not unbonding can ask to leave,
\* and one whose window is over can take what is left of its stake, though it
\* was slashed below the floor, or to nothing, while it waited.
ExitNeverBlocked ==
    \A a \in Users :
      registered(a) =>
        IF resolvers[a].unbonding_at = NotUnbonding THEN ENABLED request_unregister(a)
        ELSE now >= resolvers[a].unbonding_at => ENABLED withdraw_stake(a)

OneWayOut ==
    \A a \in Users :
      LET was == resolvers[a]  is == resolvers'[a] IN
      registered(a) /\ is.lifecycle # "Absent" =>
        /\ ~was.active => ~is.active
        /\ was.unbonding_at # NotUnbonding => is.unbonding_at = was.unbonding_at
        /\ is.active <=> is.lifecycle = "Active"

\* An entry that lost its eligibility never regains it before it has left and
\* registered again, a running unbonding window is never moved (set_unbonding_period
\* does not touch entries in flight), and the legacy active flag agrees with the
\* lifecycle.
ExitIsOneWay == [][OneWayOut]_vars
=============================================================================
