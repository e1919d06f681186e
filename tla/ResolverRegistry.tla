-------------------------- MODULE ResolverRegistry --------------------------
(***************************************************************************)
(* The EVM registry of staked resolvers, contracts/ResolverRegistry.sol,   *)
(* with its packed list and 1-based index.  Every external function is one *)
(* atomic action.  Timestamps and the slash reason are only recorded, and  *)
(* are left out.  The stake asset moves exactly the amount asked for.      *)
(*                                                                         *)
(* Addresses are integers: 0 is address(0), accounts are 1 .. N, and This  *)
(* is the registry's own address.                                          *)
(***************************************************************************)
EXTENDS Integers, Sequences, Sums

CONSTANTS
    N, This,
    Funding,            \* stake asset every account holds at the start
    MaxStake,           \* bound on the amounts calls are made with
    MaxSlashed          \* bound on a resolver's totalSlashed

Accounts == 1 .. N
Users == Accounts \ {This}
ZeroAddress == 0

ASSUME RegistryAssumption ==
    /\ N \in Nat /\ This \in 1 .. N
    /\ Funding \in Nat /\ MaxStake \in Nat /\ MaxSlashed \in Nat

VARIABLES
    minStake,
    slashBeneficiary,
    resolvers,              \* _resolvers
    list,                   \* _resolverList
    index,                  \* _resolverIndex, 1-based; 0 means not registered
    balance                 \* stake asset

vars == <<minStake, slashBeneficiary, resolvers, list, index, balance>>

NoInfo == [resolver |-> ZeroAddress, stake |-> 0, totalSlashed |-> 0, active |-> FALSE]

Init ==
    /\ minStake \in 1 .. MaxStake
    /\ slashBeneficiary \in Accounts
    /\ resolvers = [a \in Accounts |-> NoInfo]
    /\ list = <<>>
    /\ index = [a \in Accounts |-> 0]
    /\ balance = [a \in Accounts |-> IF a = This THEN 0 ELSE Funding]

Transfer(from, to, x) ==
    LET debited == [balance EXCEPT ![from] = @ - x]
    IN  /\ balance[from] >= x
        /\ balance' = [debited EXCEPT ![to] = @ + x]

register(sender, stake) ==
    /\ stake >= minStake
    /\ index[sender] = 0
    /\ resolvers' = [resolvers EXCEPT ![sender] =
           [resolver |-> sender, stake |-> stake, totalSlashed |-> 0, active |-> TRUE]]
    /\ list' = Append(list, sender)
    /\ index' = [index EXCEPT ![sender] = Len(list) + 1]
    /\ Transfer(sender, This, stake)
    /\ UNCHANGED <<minStake, slashBeneficiary>>

\* A top-up that reaches the floor also restores the flag.
Raised(info, x) ==
    LET stake == info.stake + x IN
    [info EXCEPT !.stake = stake, !.active = IF stake >= minStake THEN TRUE ELSE info.active]

\* A slash that goes below the floor also clears the flag.
Lowered(info, x) ==
    LET stake == info.stake - x IN
    [info EXCEPT !.stake = stake, !.totalSlashed = info.totalSlashed + x,
                 !.active = IF stake < minStake THEN FALSE ELSE info.active]

\* Mutant: a top-up recomputes the flag, so it can also clear it.
increaseStakeRecomputing(sender, additional) ==
    /\ additional # 0 /\ index[sender] # 0
    /\ resolvers' = [resolvers EXCEPT ![sender] =
           [@ EXCEPT !.stake = @ + additional,
                     !.active = resolvers[sender].stake + additional >= minStake]]
    /\ Transfer(sender, This, additional)
    /\ UNCHANGED <<minStake, slashBeneficiary, list, index>>

increaseStake(sender, additional) ==
    /\ additional # 0
    /\ index[sender] # 0
    /\ resolvers' = [resolvers EXCEPT ![sender] = Raised(resolvers[sender], additional)]
    /\ Transfer(sender, This, additional)
    /\ UNCHANGED <<minStake, slashBeneficiary, list, index>>

\* Mutant: the moved resolver keeps its old index.
removeFromListStaleIndex(resolver, idx) ==
    LET last == Len(list) IN
    /\ list' = SubSeq([list EXCEPT ![idx] = list[last]], 1, last - 1)
    /\ index' = [index EXCEPT ![resolver] = 0]

\* _removeFromList: the last resolver moves into the vacated slot.
removeFromList(resolver, idx) ==
    LET last == Len(list)
        moved == IF idx = last THEN index ELSE [index EXCEPT ![list[last]] = idx]
    IN
    /\ list' = SubSeq([list EXCEPT ![idx] = list[last]], 1, last - 1)
    /\ index' = [moved EXCEPT ![resolver] = 0]

\* A zero stake, left by a full slash, is not transferred.
unregister(sender) ==
    /\ index[sender] # 0
    /\ removeFromList(sender, index[sender])
    /\ resolvers' = [resolvers EXCEPT ![sender] = NoInfo]
    /\ Transfer(This, sender, resolvers[sender].stake)
    /\ UNCHANGED <<minStake, slashBeneficiary>>

\* Mutant: the slashed amount stays in the resolver's stake.
slashKeepingStake(resolver, amount) ==
    /\ amount # 0 /\ index[resolver] # 0
    /\ amount <= resolvers[resolver].stake
    /\ resolvers[resolver].totalSlashed + amount <= MaxSlashed
    /\ resolvers' = [resolvers EXCEPT ![resolver] =
           [Lowered(@, amount) EXCEPT !.stake = resolvers[resolver].stake]]
    /\ Transfer(This, slashBeneficiary, amount)
    /\ UNCHANGED <<minStake, slashBeneficiary, list, index>>

slash(resolver, amount) ==
    /\ amount # 0
    /\ index[resolver] # 0
    /\ amount <= resolvers[resolver].stake
    /\ resolvers[resolver].totalSlashed + amount <= MaxSlashed
    /\ resolvers' = [resolvers EXCEPT ![resolver] = Lowered(resolvers[resolver], amount)]
    /\ Transfer(This, slashBeneficiary, amount)
    /\ UNCHANGED <<minStake, slashBeneficiary, list, index>>

\* Mutant: the floor may be removed.
setMinStakeZero(newMinStake) ==
    /\ minStake' = newMinStake
    /\ UNCHANGED <<slashBeneficiary, resolvers, list, index, balance>>

setMinStake(newMinStake) ==
    /\ newMinStake # 0
    /\ minStake' = newMinStake
    /\ UNCHANGED <<slashBeneficiary, resolvers, list, index, balance>>

setSlashBeneficiary(newBeneficiary) ==
    /\ newBeneficiary # ZeroAddress
    /\ slashBeneficiary' = newBeneficiary
    /\ UNCHANGED <<minStake, resolvers, list, index, balance>>

isActive(a) == resolvers[a].active /\ resolvers[a].stake >= minStake

SelfService ==
    \E sender \in Users :
      \/ \E x \in 0 .. MaxStake : register(sender, x) \/ increaseStake(sender, x)
      \/ unregister(sender)

\* onlyOwner; who holds that role, and its hand-over, are not modelled.
Govern ==
    \/ \E resolver \in Users, x \in 0 .. MaxStake : slash(resolver, x)
    \/ \E x \in 0 .. MaxStake + 1 : setMinStake(x)
    \/ \E a \in Accounts \cup {ZeroAddress} : setSlashBeneficiary(a)

Next == SelfService \/ Govern

Spec == Init /\ [][Next]_vars

-----------------------------------------------------------------------------
InfoType == [resolver : Accounts \cup {ZeroAddress}, stake : Nat, totalSlashed : Nat, active : BOOLEAN]

\* Types of the registry's storage and of the stake asset's balances.
TypeOK ==
    /\ minStake \in Nat \ {0}
    /\ slashBeneficiary \in Accounts
    /\ resolvers \in [Accounts -> InfoType]
    /\ list \in Seq(Accounts)
    /\ index \in [Accounts -> Nat]
    /\ balance \in [Accounts -> Nat]

\* Storage invariants I1 to I5 of the contract: the list holds each registered
\* address once, the index points back at it, and an address outside the list
\* has no record, after any sequence of registrations and swap-and-pop removals.
ListIsPacked ==
    /\ \A i \in 1 .. Len(list) : index[list[i]] = i
    /\ \A a \in Accounts :
         /\ index[a] # 0 => index[a] \in 1 .. Len(list) /\ list[index[a]] = a /\ resolvers[a].resolver = a
         /\ index[a] = 0 => resolvers[a] = NoInfo

\* The registry holds every stake it has recorded: slashes, exits and
\* re-registrations never pay one resolver out of another's stake.
StakesAreBacked == balance[This] >= SumTo([a \in Accounts |-> resolvers[a].stake], N)

\* A registered resolver that was never slashed keeps its active flag whatever
\* happens to minStake: raising the floor and lowering it again restores it
\* without a call of its own (increaseStake, setMinStake, isActive).
OnlySlashingDeactivates ==
    \A a \in Accounts :
      /\ index[a] # 0 /\ resolvers[a].totalSlashed = 0 => resolvers[a].active
      /\ isActive(a) => index[a] # 0
=============================================================================
