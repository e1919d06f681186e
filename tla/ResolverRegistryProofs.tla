----------------------- MODULE ResolverRegistryProofs -----------------------
(***************************************************************************)
(* Proofs about ResolverRegistry, for any number of accounts and any       *)
(* stakes.  The inductive invariant is the conjunction of the three        *)
(* invariants: removeFromList needs the list to be packed before it, and   *)
(* the sum of stakes needs every address outside the list to have none.    *)
(***************************************************************************)
EXTENDS ResolverRegistry, SumsProofs

Stakes(r) == [a \in Accounts |-> r[a].stake]
IInv == TypeOK /\ ListIsPacked /\ StakesAreBacked

\* A transfer keeps balances natural and moves x out of from, into to.
LEMMA TransferEffect ==
    ASSUME TypeOK, NEW from \in Accounts, NEW to \in Accounts, NEW x \in Nat, Transfer(from, to, x)
    PROVE  /\ balance' \in [Accounts -> Nat]
           /\ from # This /\ to = This => balance'[This] = balance[This] + x
           /\ from = This => balance'[This] >= balance[This] - x
<1> USE RegistryAssumption DEF Accounts
<1>1. balance \in [1 .. N -> Nat] /\ This \in 1 .. N
  BY DEF TypeOK
<1>2. balance[from] \in Nat /\ balance[to] \in Nat /\ balance[This] \in Nat /\ balance[from] >= x
  BY <1>1 DEF Transfer
<1> QED BY SMTT(60), <1>1, <1>2 DEF Transfer

\* Replacing one account's record changes the sum of stakes by the difference.
LEMMA StakeChange ==
    ASSUME resolvers \in [Accounts -> InfoType], NEW a \in Accounts, NEW info \in InfoType,
           resolvers' = [resolvers EXCEPT ![a] = info]
    PROVE  /\ resolvers' \in [Accounts -> InfoType]
           /\ resolvers[a].stake \in Nat /\ info.stake \in Nat
           /\ SumTo(Stakes(resolvers), N) \in Nat
           /\ SumTo(Stakes(resolvers'), N) = SumTo(Stakes(resolvers), N) - resolvers[a].stake + info.stake
<1>1. \A b \in Accounts : resolvers[b] \in InfoType
  OBVIOUS
<1>2. resolvers' \in [Accounts -> InfoType] /\ \A b \in Accounts : resolvers'[b] \in InfoType
  OBVIOUS
<1>3. \A i \in InfoType : i.stake \in Nat
  BY DEF InfoType
<1> DEFINE f == Stakes(resolvers)
           g == Stakes(resolvers')
<1>4. f \in [Accounts -> Nat] /\ g \in [Accounts -> Nat]
  BY <1>1, <1>2, <1>3 DEF Stakes
<1>5. \A i \in Accounts : i # a => f[i] = g[i]
  BY DEF Stakes
<1>6. f[a] = resolvers[a].stake /\ g[a] = info.stake
  BY DEF Stakes
<1>7. N \in Nat /\ Accounts = 1 .. N
  BY RegistryAssumption DEF Accounts
<1> HIDE DEF f, g
<1>8. /\ f \in [1 .. N -> Nat] /\ f \in [1 .. N -> Int] /\ g \in [1 .. N -> Int] /\ a \in 1 .. N
      /\ \A i \in 1 .. N : i # a => f[i] = g[i]
  BY <1>4, <1>5, <1>7
<1>9. SumTo(g, N) = SumTo(f, N) - f[a] + g[a]
  BY Zenon, <1>7, <1>8, SumToUpdate
<1>10. SumTo(f, N) \in Nat
  BY Zenon, <1>7, <1>8, SumToNat
<1> QED BY <1>1, <1>2, <1>3, <1>6, <1>9, <1>10 DEF f, g

\* Init: nobody is registered and nothing is staked.
LEMMA IInvInit == Init => IInv
<1> SUFFICES ASSUME Init PROVE IInv
  OBVIOUS
<1> USE RegistryAssumption DEF Accounts
<1>1. TypeOK
  BY DEF Init, TypeOK, NoInfo, InfoType, Users
<1>2. ListIsPacked
  BY DEF Init, ListIsPacked
<1>3. StakesAreBacked
  <2> DEFINE f == [a \in Accounts |-> resolvers[a].stake]
  <2>1. f \in [1 .. N -> Int] /\ \A i \in 1 .. N : f[i] = 0
    BY DEF Init, NoInfo
  <2>2. N \in Nat
    OBVIOUS
  <2> HIDE DEF f
  <2>3. SumTo(f, N) = 0
    BY <2>1, <2>2, SumToZero
  <2> QED BY <2>3 DEF StakesAreBacked, f, Init
<1> QED BY <1>1, <1>2, <1>3 DEF IInv

\* Balances and stakes move together: whatever leaves the registry was a stake.
LEMMA BackedStep ==
    ASSUME IInv, NEW a \in Accounts, NEW info \in InfoType, NEW x \in Nat,
           resolvers' = [resolvers EXCEPT ![a] = info],
           \/ /\ a # This /\ Transfer(a, This, x)
              /\ info.stake = resolvers[a].stake + x
           \/ \E to \in Accounts : /\ Transfer(This, to, x)
                                   /\ info.stake = resolvers[a].stake - x
    PROVE  balance' \in [Accounts -> Nat] /\ resolvers' \in [Accounts -> InfoType] /\ StakesAreBacked'
<1> USE DEF IInv
<1>1. This \in Accounts /\ resolvers \in [Accounts -> InfoType] /\ balance[This] \in Nat
  BY RegistryAssumption DEF Accounts, TypeOK
<1>2. /\ resolvers' \in [Accounts -> InfoType]
      /\ resolvers[a].stake \in Nat /\ info.stake \in Nat
      /\ SumTo(Stakes(resolvers), N) \in Nat
      /\ SumTo(Stakes(resolvers'), N) = SumTo(Stakes(resolvers), N) - resolvers[a].stake + info.stake
  BY Zenon, <1>1, StakeChange
<1>3. balance[This] >= SumTo(Stakes(resolvers), N)
  BY DEF StakesAreBacked, Stakes
<1>4. balance' \in [Accounts -> Nat] /\ balance'[This] >= balance[This] + info.stake - resolvers[a].stake
  <2>1. CASE a # This /\ Transfer(a, This, x) /\ info.stake = resolvers[a].stake + x
    BY <2>1, <1>1, <1>2, TransferEffect
  <2>2. CASE \E to \in Accounts : Transfer(This, to, x) /\ info.stake = resolvers[a].stake - x
    <3>1. PICK to \in Accounts : Transfer(This, to, x) /\ info.stake = resolvers[a].stake - x
      BY <2>2
    <3>2. balance' \in [Accounts -> Nat] /\ balance'[This] >= balance[This] - x
      BY <3>1, <1>1, TransferEffect
    <3> QED BY <3>1, <3>2, <1>1, <1>2
  <2> QED BY <2>1, <2>2
<1>5. balance'[This] >= SumTo(Stakes(resolvers'), N)
  BY <1>1, <1>2, <1>3, <1>4
<1> QED BY <1>2, <1>4, <1>5 DEF StakesAreBacked, Stakes

\* register appends an address that was not in the list.
LEMMA RegisterStep ==
    ASSUME IInv, NEW sender \in Users, NEW x \in Nat, register(sender, x)
    PROVE  IInv'
<1> DEFINE info == [resolver |-> sender, stake |-> x, totalSlashed |-> 0, active |-> TRUE]
<1>1. sender \in Accounts /\ sender # This /\ index[sender] = 0 /\ resolvers[sender] = NoInfo
  BY DEF Users, register, IInv, ListIsPacked
<1>2. info \in InfoType /\ info.stake = x
  BY <1>1 DEF InfoType
<1>3. resolvers' = [resolvers EXCEPT ![sender] = info] /\ Transfer(sender, This, x)
  BY DEF register
<1>4. resolvers[sender].stake = 0
  BY <1>1 DEF NoInfo
<1>5. info.stake = resolvers[sender].stake + x
  BY <1>2, <1>4
<1> HIDE DEF info
<1>6. balance' \in [Accounts -> Nat] /\ resolvers' \in [Accounts -> InfoType] /\ StakesAreBacked'
  BY Zenon, <1>1, <1>2, <1>3, <1>5, BackedStep
<1>7. TypeOK'
  BY <1>1, <1>6 DEF register, TypeOK, IInv
<1>8. ListIsPacked'
  <2>1. list \in Seq(Accounts) /\ Len(list) \in Nat /\ index \in [Accounts -> Nat]
    BY DEF IInv, TypeOK
  <2>2. \A i \in 1 .. Len(list) : list[i] \in Accounts /\ list[i] # sender /\ index[list[i]] = i
    BY <2>1, <1>1 DEF IInv, ListIsPacked
  <2>3. /\ Len(list') = Len(list) + 1 /\ list'[Len(list) + 1] = sender
        /\ \A i \in 1 .. Len(list) : list'[i] = list[i]
    BY <2>1 DEF register
  <2>4. index' = [index EXCEPT ![sender] = Len(list) + 1]
    BY DEF register
  <2>5. \A i \in 1 .. Len(list') : index'[list'[i]] = i
    BY SMTT(60), <2>1, <2>2, <2>3, <2>4, <1>1
  <2>6. ASSUME NEW a \in Accounts
        PROVE  /\ index'[a] # 0 => index'[a] \in 1 .. Len(list') /\ list'[index'[a]] = a /\ resolvers'[a].resolver = a
               /\ index'[a] = 0 => resolvers'[a] = NoInfo
    <3>1. CASE a = sender
      BY <3>1, <2>1, <2>3, <2>4, <1>1, <1>3, <1>6 DEF info, IInv, TypeOK
    <3>2. CASE a # sender
      <4>1. index'[a] = index[a] /\ resolvers'[a] = resolvers[a]
        BY <3>2, <2>1, <2>4, <1>3 DEF IInv, TypeOK
      <4> QED BY <4>1, <2>1, <2>3 DEF IInv, ListIsPacked
    <3> QED BY <3>1, <3>2
  <2> QED BY <2>5, <2>6 DEF ListIsPacked
<1> QED BY <1>6, <1>7, <1>8 DEF IInv

\* increaseStake and slash replace one record and leave the list alone.
LEMMA SameListStep ==
    ASSUME IInv, NEW a \in Accounts, NEW info \in InfoType, NEW x \in Nat,
           index[a] # 0, info.resolver = resolvers[a].resolver,
           resolvers' = [resolvers EXCEPT ![a] = info],
           \/ /\ a # This /\ Transfer(a, This, x)
              /\ info.stake = resolvers[a].stake + x
           \/ \E to \in Accounts : /\ Transfer(This, to, x)
                                   /\ info.stake = resolvers[a].stake - x,
           UNCHANGED <<minStake, slashBeneficiary, list, index>>
    PROVE  IInv'
<1>1. balance' \in [Accounts -> Nat] /\ resolvers' \in [Accounts -> InfoType] /\ StakesAreBacked'
  BY Zenon, BackedStep
<1>2. TypeOK'
  BY <1>1 DEF TypeOK, IInv
<1>3. ASSUME NEW b \in Accounts
      PROVE  /\ index[b] # 0 => index[b] \in 1 .. Len(list) /\ list[index[b]] = b /\ resolvers'[b].resolver = b
             /\ index[b] = 0 => resolvers'[b] = NoInfo
  <2>1. /\ index[b] # 0 => index[b] \in 1 .. Len(list) /\ list[index[b]] = b /\ resolvers[b].resolver = b
        /\ index[b] = 0 => resolvers[b] = NoInfo
    BY DEF IInv, ListIsPacked
  <2>2. b # a => resolvers'[b] = resolvers[b]
    BY DEF IInv, TypeOK
  <2>3. resolvers'[a] = info
    BY DEF IInv, TypeOK
  <2> QED BY <2>1, <2>2, <2>3
<1>4. ListIsPacked'
  BY <1>3 DEF ListIsPacked, IInv
<1> QED BY <1>1, <1>2, <1>4 DEF IInv

LEMMA RaisedInfo ==
    ASSUME NEW info \in InfoType, NEW x \in Nat
    PROVE  /\ Raised(info, x) \in InfoType /\ Raised(info, x).resolver = info.resolver
           /\ Raised(info, x).stake = info.stake + x
<1> DEFINE s == info.stake + x
<1>0. info.stake \in Nat /\ info.active \in BOOLEAN
  BY DEF InfoType
<1>1. s \in Nat /\ (IF s >= minStake THEN TRUE ELSE info.active) \in BOOLEAN
  <2>1. s \in Nat
    BY <1>0
  <2> HIDE DEF s
  <2>2. (IF s >= minStake THEN TRUE ELSE info.active) \in BOOLEAN
    BY <1>0, Zenon
  <2> QED BY Zenon, <2>1, <2>2
<1>2. Raised(info, x) = [info EXCEPT !.stake = s, !.active = IF s >= minStake THEN TRUE ELSE info.active]
  BY DEF Raised
<1> HIDE DEF s
<1>3. PICK b \in BOOLEAN : Raised(info, x) = [info EXCEPT !.stake = s, !.active = b]
  BY Zenon, <1>1, <1>2
<1> QED BY Zenon, <1>1, <1>3 DEF InfoType, s

LEMMA LoweredInfo ==
    ASSUME NEW info \in InfoType, NEW x \in Nat, x <= info.stake
    PROVE  /\ Lowered(info, x) \in InfoType /\ Lowered(info, x).resolver = info.resolver
           /\ Lowered(info, x).stake = info.stake - x
<1> DEFINE s == info.stake - x
           t == info.totalSlashed + x
<1>0. info.stake \in Nat /\ info.totalSlashed \in Nat /\ info.active \in BOOLEAN
  BY DEF InfoType
<1>1. s \in Nat /\ t \in Nat /\ (IF s < minStake THEN FALSE ELSE info.active) \in BOOLEAN
  <2>1. s \in Nat /\ t \in Nat
    BY <1>0
  <2> HIDE DEF s, t
  <2>2. (IF s < minStake THEN FALSE ELSE info.active) \in BOOLEAN
    BY <1>0, Zenon
  <2> QED BY Zenon, <2>1, <2>2
<1>2. Lowered(info, x) = [info EXCEPT !.stake = s, !.totalSlashed = t,
                                      !.active = IF s < minStake THEN FALSE ELSE info.active]
  BY DEF Lowered
<1> HIDE DEF s, t
<1>3. PICK b \in BOOLEAN : Lowered(info, x) = [info EXCEPT !.stake = s, !.totalSlashed = t, !.active = b]
  BY Zenon, <1>1, <1>2
<1> QED BY Zenon, <1>1, <1>3 DEF InfoType, s, t

LEMMA IncreaseStakeStep ==
    ASSUME IInv, NEW sender \in Users, NEW x \in Nat, increaseStake(sender, x)
    PROVE  IInv'
<1> DEFINE info == Raised(resolvers[sender], x)
<1>1. sender \in Accounts /\ sender # This /\ index[sender] # 0 /\ resolvers[sender] \in InfoType
  BY DEF Users, increaseStake, IInv, TypeOK
<1>2. /\ info \in InfoType /\ info.resolver = resolvers[sender].resolver
      /\ info.stake = resolvers[sender].stake + x
  BY <1>1, RaisedInfo
<1>3. resolvers' = [resolvers EXCEPT ![sender] = info] /\ Transfer(sender, This, x)
      /\ UNCHANGED <<minStake, slashBeneficiary, list, index>>
  BY DEF increaseStake
<1> HIDE DEF info
<1> QED BY Zenon, <1>1, <1>2, <1>3, SameListStep

LEMMA SlashStep ==
    ASSUME IInv, NEW resolver \in Users, NEW x \in Nat, slash(resolver, x)
    PROVE  IInv'
<1> DEFINE info == Lowered(resolvers[resolver], x)
<1>1. /\ resolver \in Accounts /\ index[resolver] # 0 /\ resolvers[resolver] \in InfoType
      /\ x <= resolvers[resolver].stake /\ slashBeneficiary \in Accounts
  BY DEF Users, slash, IInv, TypeOK
<1>2. /\ info \in InfoType /\ info.resolver = resolvers[resolver].resolver
      /\ info.stake = resolvers[resolver].stake - x
  BY <1>1, LoweredInfo
<1>3. resolvers' = [resolvers EXCEPT ![resolver] = info] /\ Transfer(This, slashBeneficiary, x)
      /\ UNCHANGED <<minStake, slashBeneficiary, list, index>>
  BY DEF slash
<1> HIDE DEF info
<1> QED BY Zenon, <1>1, <1>2, <1>3, SameListStep

\* unregister: swap-and-pop keeps the list packed, the last slot included.
LEMMA UnregisterStep ==
    ASSUME IInv, NEW sender \in Users, unregister(sender)
    PROVE  IInv'
<1> DEFINE idx == index[sender]
           last == Len(list)
           stake == resolvers[sender].stake
<1>1. sender \in Accounts /\ idx # 0 /\ resolvers[sender] \in InfoType /\ stake \in Nat
  BY DEF Users, unregister, IInv, TypeOK, InfoType
<1>2. list \in Seq(Accounts) /\ last \in Nat /\ index \in [Accounts -> Nat] /\ resolvers \in [Accounts -> InfoType]
  BY DEF IInv, TypeOK
<1>3. idx \in 1 .. last /\ list[idx] = sender /\ last \in 1 .. last /\ list[last] \in Accounts
  BY <1>1, <1>2 DEF IInv, ListIsPacked
<1>4. \A i \in 1 .. last : list[i] \in Accounts /\ index[list[i]] = i
  BY <1>2 DEF IInv, ListIsPacked
<1>5. list' = SubSeq([list EXCEPT ![idx] = list[last]], 1, last - 1)
  BY DEF unregister, removeFromList
<1>6. /\ list' \in Seq(Accounts) /\ Len(list') = last - 1
      /\ \A i \in 1 .. last - 1 : list'[i] = IF i = idx THEN list[last] ELSE list[i]
  <2> DEFINE swapped == [list EXCEPT ![idx] = list[last]]
  <2>1. /\ swapped \in Seq(Accounts) /\ Len(swapped) = last
        /\ \A i \in 1 .. last : swapped[i] = IF i = idx THEN list[last] ELSE list[i]
    BY <1>2, <1>3, <1>4
  <2>2. list' = SubSeq(swapped, 1, last - 1)
    BY <1>5
  <2> HIDE DEF swapped
  <2> QED BY SMTT(60), <2>1, <2>2, <1>2, <1>3
<1>7. /\ index' \in [Accounts -> Nat] /\ index'[sender] = 0
      /\ list[last] # sender => index'[list[last]] = idx
      /\ \A a \in Accounts : a # sender /\ a # list[last] => index'[a] = index[a]
  <2>1. CASE idx = last
    <3>1. index' = [index EXCEPT ![sender] = 0]
      BY <2>1 DEF unregister, removeFromList
    <3> QED BY <3>1, <2>1, <1>1, <1>2, <1>3
  <2>2. CASE idx # last
    <3>1. index' = [[index EXCEPT ![list[last]] = idx] EXCEPT ![sender] = 0]
      BY <2>2 DEF unregister, removeFromList
    <3> QED BY <3>1, <1>1, <1>2, <1>3
  <2> QED BY <2>1, <2>2
<1>8. resolvers' = [resolvers EXCEPT ![sender] = NoInfo] /\ Transfer(This, sender, stake)
      /\ UNCHANGED <<minStake, slashBeneficiary>>
  BY DEF unregister
<1>9. NoInfo \in InfoType /\ NoInfo.stake = stake - stake
  BY <1>1 DEF NoInfo, InfoType
<1> HIDE DEF idx, last
<1>10. balance' \in [Accounts -> Nat] /\ resolvers' \in [Accounts -> InfoType] /\ StakesAreBacked'
  <2> HIDE DEF stake
  <2> QED BY Zenon, <1>1, <1>8, <1>9, BackedStep DEF stake
<1>11. TypeOK'
  BY Zenon, <1>6, <1>7, <1>8, <1>10 DEF TypeOK, IInv
<1>12. ASSUME NEW i \in 1 .. Len(list') PROVE index'[list'[i]] = i
  <2>1. i \in 1 .. last /\ i \in 1 .. last - 1 /\ i # last
    BY <1>6, <1>2
  <2>2. CASE i = idx
    <3>1. list'[i] = list[last] /\ list[last] # sender
      BY <2>1, <2>2, <1>3, <1>4, <1>6
    <3> QED BY <3>1, <2>2, <1>7
  <2>3. CASE i # idx
    <3>1. list'[i] = list[i] /\ list[i] # sender /\ list[i] # list[last] /\ list[i] \in Accounts
      BY <2>1, <2>3, <1>3, <1>4, <1>6
    <3> QED BY <3>1, <2>1, <1>4, <1>7
  <2> QED BY <2>2, <2>3
<1>13. ASSUME NEW a \in Accounts
       PROVE  /\ index'[a] # 0 => index'[a] \in 1 .. Len(list') /\ list'[index'[a]] = a /\ resolvers'[a].resolver = a
              /\ index'[a] = 0 => resolvers'[a] = NoInfo
  <2>1. CASE a = sender
    BY <2>1, <1>2, <1>7, <1>8
  <2>2. CASE a # sender
    <3>1. resolvers'[a] = resolvers[a]
      BY <2>2, <1>2, <1>8
    <3>2. /\ index[a] # 0 => index[a] \in 1 .. last /\ list[index[a]] = a /\ resolvers[a].resolver = a
          /\ index[a] = 0 => resolvers[a] = NoInfo
      BY DEF IInv, ListIsPacked, last
    <3>3. CASE a = list[last]
      <4>1. index[a] = last /\ index'[a] = idx /\ idx # last
        BY <3>3, <2>2, <1>3, <1>4, <1>7
      <4>2. idx \in 1 .. last - 1 /\ list'[idx] = a
        BY SMTT(60), <4>1, <3>3, <1>2, <1>3, <1>6
      <4> QED BY <4>1, <4>2, <3>1, <3>2, <1>2, <1>3, <1>6
    <3>4. CASE a # list[last]
      <4>1. index'[a] = index[a]
        BY <3>4, <2>2, <1>7
      <4>2. index[a] # 0 => index[a] \in 1 .. last - 1 /\ index[a] # idx
        BY <3>2, <3>4, <2>2, <1>2, <1>3
      <4> QED BY <4>1, <4>2, <3>1, <3>2, <1>6
    <3> QED BY <3>3, <3>4
  <2> QED BY <2>1, <2>2
<1>14. ListIsPacked'
  BY <1>12, <1>13 DEF ListIsPacked
<1> QED BY <1>10, <1>11, <1>14 DEF IInv

LEMMA IInvNext == IInv /\ [Next]_vars => IInv'
<1> SUFFICES ASSUME IInv, [Next]_vars PROVE IInv'
  OBVIOUS
<1> USE RegistryAssumption
<1>1. ASSUME NEW sender \in Users, NEW x \in 0 .. MaxStake, register(sender, x) PROVE IInv'
  BY <1>1, RegisterStep
<1>2. ASSUME NEW sender \in Users, NEW x \in 0 .. MaxStake, increaseStake(sender, x) PROVE IInv'
  BY <1>2, IncreaseStakeStep
<1>3. ASSUME NEW sender \in Users, unregister(sender) PROVE IInv'
  BY <1>3, UnregisterStep
<1>4. ASSUME NEW resolver \in Users, NEW x \in 0 .. MaxStake, slash(resolver, x) PROVE IInv'
  BY <1>4, SlashStep
<1>5. ASSUME NEW x \in 0 .. MaxStake + 1, setMinStake(x) PROVE IInv'
  BY <1>5 DEF setMinStake, IInv, TypeOK, ListIsPacked, StakesAreBacked
<1>6. ASSUME NEW a \in Accounts \cup {ZeroAddress}, setSlashBeneficiary(a) PROVE IInv'
  BY <1>6 DEF setSlashBeneficiary, IInv, TypeOK, ListIsPacked, StakesAreBacked
<1>7. CASE UNCHANGED vars
  BY <1>7 DEF vars, IInv, TypeOK, ListIsPacked, StakesAreBacked
<1> QED BY <1>1, <1>2, <1>3, <1>4, <1>5, <1>6, <1>7 DEF Next, SelfService, Govern

\* Whatever the order of registrations, slashes and exits, the storage
\* invariants I1 to I5 of ResolverRegistry.sol hold between transactions.
THEOREM RegistryListIsPacked == Spec => []ListIsPacked
<1>1. IInv => ListIsPacked
  BY DEF IInv
<1> QED BY <1>1, IInvInit, IInvNext, PTL DEF Spec

\* The registry can always pay back every recorded stake.
THEOREM RegistryStakesAreBacked == Spec => []StakesAreBacked
<1>1. IInv => StakesAreBacked
  BY DEF IInv
<1> QED BY <1>1, IInvInit, IInvNext, PTL DEF Spec
=============================================================================
