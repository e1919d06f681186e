-------------------------- MODULE HTLCEscrowProofs --------------------------
(***************************************************************************)
(* What HTLCEscrow guarantees for every number of accounts, orders, tokens *)
(* and every amount.  TypeOK is inductive by itself; Solvency and          *)
(* EveryoneIsPaid are inductive with it.                                   *)
(***************************************************************************)
EXTENDS HTLCEscrow, SumsProofs

\* A transfer of what the payer has keeps every balance a natural number, and
\* moves x from the payer to the payee.
LEMMA MoveEffect ==
    ASSUME NEW bal \in [Accounts -> Nat], NEW from \in Accounts, NEW to \in Accounts,
           NEW x \in Nat, bal[from] >= x
    PROVE  /\ Move(bal, from, to, x) \in [Accounts -> Nat]
           /\ \A a \in Accounts :
                Move(bal, from, to, x)[a] =
                  bal[a] - (IF a = from THEN x ELSE 0) + (IF a = to THEN x ELSE 0)
<1> DEFINE debited == [bal EXCEPT ![from] = @ - x]
           moved == [debited EXCEPT ![to] = @ + x]
<1>1. debited \in [Accounts -> Nat]
  OBVIOUS
<1>2. \A a \in Accounts : debited[a] = bal[a] - (IF a = from THEN x ELSE 0)
  OBVIOUS
<1> HIDE DEF debited
<1>3. moved \in [Accounts -> Nat]
  BY <1>1
<1>4. \A a \in Accounts : moved[a] = debited[a] + (IF a = to THEN x ELSE 0)
  BY <1>1
<1>5. Move(bal, from, to, x) = moved
  BY DEF Move, debited
<1> HIDE DEF moved
<1> QED BY <1>1, <1>2, <1>3, <1>4, <1>5

\* Adding to one entry of a table of credits.
LEMMA CreditEffect ==
    ASSUME NEW bal \in [Accounts -> Nat], NEW to \in Accounts, NEW x \in Nat
    PROVE  /\ Credit(bal, to, x) \in [Accounts -> Nat]
           /\ \A a \in Accounts : Credit(bal, to, x)[a] = bal[a] + (IF a = to THEN x ELSE 0)
           /\ SumTo(Credit(bal, to, x), N) = SumTo(bal, N) + x
<1> DEFINE new == Credit(bal, to, x)
<1>1. new \in [Accounts -> Nat] /\ \A a \in Accounts : new[a] = bal[a] + (IF a = to THEN x ELSE 0)
  BY DEF Credit
<1>2. N \in Nat /\ to \in 1 .. N /\ bal \in [1 .. N -> Int] /\ new \in [1 .. N -> Int]
  BY <1>1, EscrowAssumption DEF Accounts
<1>3. \A i \in 1 .. N : i # to => bal[i] = new[i]
  BY <1>1, <1>2
<1>4. SumTo(new, N) = SumTo(bal, N) - bal[to] + new[to]
  <2> HIDE DEF new
  <2> QED BY Zenon, <1>2, <1>3, SumToUpdate
<1>5. SumTo(bal, N) \in Nat
  <2>1. bal \in [1 .. N -> Nat]
    BY DEF Accounts
  <2> QED BY SMTT(60), <1>2, <2>1, SumToNat
<1>6. new[to] = bal[to] + x /\ bal[to] \in Nat
  BY <1>1
<1> HIDE DEF new
<1>7. SumTo(new, N) = SumTo(bal, N) + x
  BY <1>4, <1>5, <1>6
<1> QED BY <1>1, <1>7 DEF new

\* An order's ETH amount, zero for a token order, and the token amount.
EthAmount(o) == IF o.token = Native THEN o.amount ELSE 0
TokenAmount(t, o) == IF o.token = t THEN o.amount ELSE 0

\* The two payouts of a settlement, whatever their pushes return: the
\* recipient and the caller gain their shares in hand or as a credit, and
\* what leaves the escrow is what is not credited.
LEMMA PayoutEffect ==
    ASSUME TypeOK, NEW o \in OrderType, NEW recipient \in Accounts, NEW caller \in Users,
           payoutBoth(o, recipient, caller)
    PROVE  /\ eth' \in [Accounts -> Nat]
           /\ pendingWithdrawals' \in [Accounts -> Nat]
           /\ erc20' \in [Tokens -> [Accounts -> Nat]]
           /\ \A a \in Users :
                eth'[a] + pendingWithdrawals'[a] = eth[a] + pendingWithdrawals[a]
                  + (IF recipient = a THEN EthAmount(o) ELSE 0)
                  + (IF caller = a THEN o.safetyDeposit ELSE 0)
           /\ eth'[This] - SumTo(pendingWithdrawals', N)
                = eth[This] - SumTo(pendingWithdrawals, N) - EthAmount(o) - o.safetyDeposit
           /\ \A t \in Tokens, a \in Accounts :
                erc20'[t][a] = erc20[t][a] + (IF recipient = a THEN TokenAmount(t, o) ELSE 0)
                                 - (IF a = This THEN TokenAmount(t, o) ELSE 0)
<1> USE DEF Users
<1>0. /\ This \in Accounts /\ caller \in Accounts /\ caller # This
      /\ o.amount \in Nat /\ o.safetyDeposit \in Nat /\ o.token \in Tokens \cup {Native}
      /\ eth \in [Accounts -> Nat] /\ pendingWithdrawals \in [Accounts -> Nat]
      /\ erc20 \in [Tokens -> [Accounts -> Nat]] /\ Native \notin Tokens
  BY Zenon, EscrowAssumption DEF TypeOK, OrderType, Accounts
<1> DEFINE due == EthAmount(o)
           dep == o.safetyDeposit
<1>1. PICK sent \in Delivered(eth, recipient, due) :
       \E reward \in Delivered(Move(eth, This, recipient, sent), caller, dep) :
           /\ eth' = Move(Move(eth, This, recipient, sent), This, caller, reward)
           /\ pendingWithdrawals' =
                Credit(Credit(pendingWithdrawals, recipient, due - sent), caller, dep - reward)
           /\ o.token # Native => erc20[o.token][This] >= o.amount
           /\ erc20' = IF o.token = Native THEN erc20
                       ELSE [erc20 EXCEPT ![o.token] = Move(@, This, recipient, o.amount)]
  BY DEF payoutBoth, EthAmount
<1> DEFINE eth1 == Move(eth, This, recipient, sent)
           pending1 == Credit(pendingWithdrawals, recipient, due - sent)
<1>2. PICK reward \in Delivered(eth1, caller, dep) :
           /\ eth' = Move(eth1, This, caller, reward)
           /\ pendingWithdrawals' = Credit(pending1, caller, dep - reward)
           /\ o.token # Native => erc20[o.token][This] >= o.amount
           /\ erc20' = IF o.token = Native THEN erc20
                       ELSE [erc20 EXCEPT ![o.token] = Move(@, This, recipient, o.amount)]
  BY <1>1
<1>3. due \in Nat /\ dep \in Nat
  BY <1>0 DEF EthAmount
<1> HIDE DEF due, dep
\* The first push.
<1>4. sent \in Nat /\ due - sent \in Nat /\ eth[This] >= sent /\ (recipient = This => sent = 0)
  BY <1>0, <1>1, <1>3 DEF Delivered
<1>5. /\ eth1 \in [Accounts -> Nat]
      /\ \A a \in Accounts : eth1[a] = eth[a] - (IF a = This THEN sent ELSE 0)
                                    + (IF a = recipient THEN sent ELSE 0)
  BY <1>0, <1>4, MoveEffect
<1>6. /\ pending1 \in [Accounts -> Nat]
      /\ \A a \in Accounts : pending1[a] = pendingWithdrawals[a] + (IF a = recipient THEN due - sent ELSE 0)
      /\ SumTo(pending1, N) = SumTo(pendingWithdrawals, N) + (due - sent)
  <2> DEFINE c == due - sent
  <2>1. pendingWithdrawals \in [Accounts -> Nat] /\ recipient \in Accounts /\ c \in Nat
    BY <1>0, <1>4
  <2> HIDE DEF c
  <2>2. /\ Credit(pendingWithdrawals, recipient, c) \in [Accounts -> Nat]
        /\ \A a \in Accounts : Credit(pendingWithdrawals, recipient, c)[a]
                              = pendingWithdrawals[a] + (IF a = recipient THEN c ELSE 0)
        /\ SumTo(Credit(pendingWithdrawals, recipient, c), N) = SumTo(pendingWithdrawals, N) + c
    BY <2>1, CreditEffect
  <2> QED BY <2>2 DEF c
<1> HIDE DEF eth1, pending1
\* The second push.
<1>7. reward \in Nat /\ dep - reward \in Nat /\ eth1[This] >= reward
  BY <1>0, <1>2, <1>3, <1>5 DEF Delivered
<1>8. /\ eth' \in [Accounts -> Nat]
      /\ \A a \in Accounts : eth'[a] = eth1[a] - (IF a = This THEN reward ELSE 0)
                                    + (IF a = caller THEN reward ELSE 0)
  <2>1. caller \in Accounts /\ This \in Accounts /\ reward \in Nat
    BY <1>0, <1>7
  <2>2. /\ Move(eth1, This, caller, reward) \in [Accounts -> Nat]
        /\ \A a \in Accounts : Move(eth1, This, caller, reward)[a]
              = eth1[a] - (IF a = This THEN reward ELSE 0) + (IF a = caller THEN reward ELSE 0)
    BY <2>1, <1>5, <1>7, MoveEffect
  <2>3. eth' = Move(eth1, This, caller, reward)
    BY <1>2
  <2> QED BY <2>2, <2>3
<1>10. /\ pendingWithdrawals' \in [Accounts -> Nat]
       /\ \A a \in Accounts : pendingWithdrawals'[a] = pending1[a] + (IF a = caller THEN dep - reward ELSE 0)
       /\ SumTo(pendingWithdrawals', N) = SumTo(pending1, N) + (dep - reward)
  <2> DEFINE c == dep - reward
  <2>1. caller \in Accounts /\ c \in Nat
    BY <1>0, <1>7
  <2>2. pendingWithdrawals' = Credit(pending1, caller, c)
    BY <1>2
  <2> HIDE DEF c
  <2>3. /\ Credit(pending1, caller, c) \in [Accounts -> Nat]
        /\ \A a \in Accounts : Credit(pending1, caller, c)[a] = pending1[a] + (IF a = caller THEN c ELSE 0)
        /\ SumTo(Credit(pending1, caller, c), N) = SumTo(pending1, N) + c
    BY ZenonT(60), <2>1, <1>6, CreditEffect
  <2> QED BY <2>2, <2>3 DEF c
<1>11. \A a \in Users :
         eth'[a] + pendingWithdrawals'[a] = eth[a] + pendingWithdrawals[a]
           + (IF recipient = a THEN EthAmount(o) ELSE 0)
           + (IF caller = a THEN o.safetyDeposit ELSE 0)
  <2> SUFFICES ASSUME NEW a \in Accounts, a # This
               PROVE  eth'[a] + pendingWithdrawals'[a] = eth[a] + pendingWithdrawals[a]
                        + (IF recipient = a THEN due ELSE 0) + (IF caller = a THEN dep ELSE 0)
    BY DEF due, dep
  <2>1. eth[a] \in Nat /\ pendingWithdrawals[a] \in Nat
    BY <1>0
  <2>2. eth'[a] = eth[a] + (IF a = recipient THEN sent ELSE 0) + (IF a = caller THEN reward ELSE 0)
    BY <1>0, <1>4, <1>5, <1>7, <1>8, <2>1
  <2>3. pendingWithdrawals'[a] = pendingWithdrawals[a] + (IF a = recipient THEN due - sent ELSE 0)
                    + (IF a = caller THEN dep - reward ELSE 0)
    BY <1>0, <1>6, <1>10, <2>1
  <2> QED BY <1>3, <1>4, <1>7, <2>1, <2>2, <2>3
<1>12. eth'[This] - SumTo(pendingWithdrawals', N)
         = eth[This] - SumTo(pendingWithdrawals, N) - EthAmount(o) - o.safetyDeposit
  <2>1. SumTo(pendingWithdrawals, N) \in Nat /\ eth[This] \in Nat
    BY Zenon, <1>0, EscrowAssumption, SumToNat DEF Accounts
  <2>2. eth'[This] = eth[This] - sent - reward
    BY <1>0, <1>4, <1>5, <1>7, <1>8, <2>1
  <2>3. SumTo(pendingWithdrawals', N) = SumTo(pendingWithdrawals, N) + (due - sent) + (dep - reward)
    BY <1>6, <1>10
  <2> QED BY <1>3, <1>4, <1>7, <2>1, <2>2, <2>3 DEF due, dep
<1>13. /\ erc20' \in [Tokens -> [Accounts -> Nat]]
       /\ \A t \in Tokens, a \in Accounts :
            erc20'[t][a] = erc20[t][a] + (IF recipient = a THEN TokenAmount(t, o) ELSE 0)
                             - (IF a = This THEN TokenAmount(t, o) ELSE 0)
  <2>1. CASE o.token = Native
    BY <2>1, <1>0, <1>2 DEF TokenAmount
  <2>2. CASE o.token # Native
    <3> DEFINE bal == erc20[o.token]
               new == Move(bal, This, recipient, o.amount)
    <3>1. o.token \in Tokens /\ bal \in [Accounts -> Nat] /\ bal[This] >= o.amount /\ o.amount \in Nat
      BY <2>2, <1>0, <1>2
    <3>2. /\ new \in [Accounts -> Nat]
          /\ \A a \in Accounts : new[a] = bal[a] - (IF a = This THEN o.amount ELSE 0)
                                           + (IF a = recipient THEN o.amount ELSE 0)
      <4>1. This \in Accounts
        BY <1>0
      <4> HIDE DEF bal
      <4> QED BY <3>1, <4>1, MoveEffect
    <3>3. erc20' = [erc20 EXCEPT ![o.token] = new]
      BY <2>2, <1>2
    <3> HIDE DEF new
    <3>4. erc20' \in [Tokens -> [Accounts -> Nat]]
      BY <1>0, <3>1, <3>2, <3>3
    <3>5. ASSUME NEW t \in Tokens, NEW a \in Accounts
          PROVE  erc20'[t][a] = erc20[t][a] + (IF recipient = a THEN TokenAmount(t, o) ELSE 0)
                                  - (IF a = This THEN TokenAmount(t, o) ELSE 0)
      <4>1. CASE t = o.token
        BY <4>1, <1>0, <3>1, <3>2, <3>3 DEF TokenAmount
      <4>2. CASE t # o.token
        BY <4>2, <1>0, <3>3 DEF TokenAmount
      <4> QED BY <4>1, <4>2
    <3> QED BY <3>4, <3>5
  <2> QED BY <2>1, <2>2
<1> QED BY <1>8, <1>10, <1>11, <1>12, <1>13

\* Replacing one order of the list.
LEMMA ReplaceOrder ==
    ASSUME NEW s \in Seq(OrderType), NEW k \in 1 .. Len(s), NEW o2 \in OrderType
    PROVE  /\ [s EXCEPT ![k] = o2] \in Seq(OrderType)
           /\ Len([s EXCEPT ![k] = o2]) = Len(s)
           /\ \A i \in 1 .. Len(s) : [s EXCEPT ![k] = o2][i] = IF i = k THEN o2 ELSE s[i]
<1> SUFFICES ASSUME NEW T, T = OrderType
             PROVE  /\ [s EXCEPT ![k] = o2] \in Seq(T)
                    /\ Len([s EXCEPT ![k] = o2]) = Len(s)
                    /\ \A i \in 1 .. Len(s) : [s EXCEPT ![k] = o2][i] = IF i = k THEN o2 ELSE s[i]
  OBVIOUS
<1>1. s \in Seq(T) /\ o2 \in T
  OBVIOUS
<1> QED BY <1>1

\* The integers the sums are taken over.
LEMMA OrderNumbers ==
    ASSUME NEW o \in OrderType
    PROVE  /\ LockedEth(o) \in Nat
           /\ \A t : LockedToken(t, o) \in Nat
           /\ \A a : EthDelta(o, a) \in Int
           /\ \A t, a : TokenDelta(t, o, a) \in Int
<1>1. o.amount \in Nat /\ o.safetyDeposit \in Nat
  BY DEF OrderType
<1> QED BY <1>1 DEF LockedEth, LockedToken, EthDelta, TokenDelta

\* o2 is o settled by caller in favour of recipient.
Settles(o, o2, recipient, caller) ==
    /\ o2 \in OrderType
    /\ o.status = "Funded" /\ o2.status \in {"Claimed", "Refunded"}
    /\ o2.token = o.token /\ o2.amount = o.amount /\ o2.safetyDeposit = o.safetyDeposit
    /\ o2.sender = o.sender
    /\ Payee(o2) = recipient /\ o2.caller = caller

\* What settling order k of s, giving r, does to each of the four sums.
SettledSums(s, r, k, recipient, caller) ==
    /\ Len(r) = Len(s)
    /\ SumTo([i \in 1 .. Len(r) |-> LockedEth(r[i])], Len(r))
         = SumTo([i \in 1 .. Len(s) |-> LockedEth(s[i])], Len(s)) - EthAmount(s[k]) - s[k].safetyDeposit
    /\ \A t \in Tokens :
         SumTo([i \in 1 .. Len(r) |-> LockedToken(t, r[i])], Len(r))
         = SumTo([i \in 1 .. Len(s) |-> LockedToken(t, s[i])], Len(s)) - TokenAmount(t, s[k])
    /\ \A a \in Users :
         SumTo([i \in 1 .. Len(r) |-> EthDelta(r[i], a)], Len(r))
         = SumTo([i \in 1 .. Len(s) |-> EthDelta(s[i], a)], Len(s))
             + (IF recipient = a THEN EthAmount(s[k]) ELSE 0)
             + (IF caller = a THEN s[k].safetyDeposit ELSE 0)
    /\ \A t \in Tokens, a \in Users :
         SumTo([i \in 1 .. Len(r) |-> TokenDelta(t, r[i], a)], Len(r))
         = SumTo([i \in 1 .. Len(s) |-> TokenDelta(t, s[i], a)], Len(s))
             + (IF recipient = a THEN TokenAmount(t, s[k]) ELSE 0)

LEMMA SettleSums ==
    ASSUME NEW s \in Seq(OrderType), NEW k \in 1 .. Len(s), NEW o2, NEW recipient \in Accounts,
           NEW caller \in Users, Settles(s[k], o2, recipient, caller),
           NEW r, r = [s EXCEPT ![k] = o2]
    PROVE  SettledSums(s, r, k, recipient, caller)
<1> DEFINE n == Len(s)
           o == s[k]
<1>1. /\ n \in Nat /\ o \in OrderType /\ o2 \in OrderType /\ \A i \in 1 .. n : s[i] \in OrderType
      /\ Len(r) = n /\ \A i \in 1 .. n : r[i] = IF i = k THEN o2 ELSE s[i]
  BY ReplaceOrder DEF Settles
<1>2. \A i \in 1 .. n : r[i] \in OrderType
  BY <1>1
<1>3. o.amount \in Nat /\ o.safetyDeposit \in Nat
  BY <1>1 DEF OrderType
<1>4. /\ o.status = "Funded" /\ o2.status # "Funded"
      /\ o2.token = o.token /\ o2.amount = o.amount /\ o2.safetyDeposit = o.safetyDeposit
      /\ o2.sender = o.sender /\ Payee(o2) = recipient /\ o2.caller = caller
  BY DEF Settles
<1>5. SumTo([i \in 1 .. n |-> LockedEth(r[i])], n)
        = SumTo([i \in 1 .. n |-> LockedEth(s[i])], n) - EthAmount(o) - o.safetyDeposit
  <2> DEFINE f == [i \in 1 .. n |-> LockedEth(s[i])]
             g == [i \in 1 .. n |-> LockedEth(r[i])]
  <2>1. f \in [1 .. n -> Int] /\ g \in [1 .. n -> Int]
    BY <1>1, <1>2, OrderNumbers
  <2>2. \A i \in 1 .. n : i # k => f[i] = g[i]
    BY <1>1
  <2>3. f[k] = o.safetyDeposit + EthAmount(o) /\ g[k] = 0
    BY <1>1, <1>4 DEF LockedEth, EthAmount
  <2>4. EthAmount(o) \in Nat
    BY <1>3 DEF EthAmount
  <2> HIDE DEF f, g
  <2>5. SumTo(g, n) = SumTo(f, n) - f[k] + g[k]
    BY ZenonT(60), <1>1, <2>1, <2>2, SumToUpdate
  <2>6. SumTo(f, n) \in Int
    BY Zenon, <1>1, <2>1, SumToInt
  <2>7. SumTo(g, n) = SumTo(f, n) - EthAmount(o) - o.safetyDeposit
    BY <1>3, <2>3, <2>4, <2>5, <2>6
  <2> QED BY <2>7 DEF f, g
<1>6. ASSUME NEW t \in Tokens
      PROVE  SumTo([i \in 1 .. n |-> LockedToken(t, r[i])], n)
               = SumTo([i \in 1 .. n |-> LockedToken(t, s[i])], n) - TokenAmount(t, o)
  <2> DEFINE f == [i \in 1 .. n |-> LockedToken(t, s[i])]
             g == [i \in 1 .. n |-> LockedToken(t, r[i])]
  <2>1. f \in [1 .. n -> Int] /\ g \in [1 .. n -> Int]
    BY <1>1, <1>2, OrderNumbers
  <2>2. \A i \in 1 .. n : i # k => f[i] = g[i]
    BY <1>1
  <2>3. f[k] = TokenAmount(t, o) /\ g[k] = 0
    BY <1>1, <1>4 DEF LockedToken, TokenAmount
  <2>4. TokenAmount(t, o) \in Nat
    BY <1>3 DEF TokenAmount
  <2> HIDE DEF f, g
  <2>5. SumTo(g, n) = SumTo(f, n) - f[k] + g[k]
    BY ZenonT(60), <1>1, <2>1, <2>2, SumToUpdate
  <2>6. SumTo(f, n) \in Int
    BY Zenon, <1>1, <2>1, SumToInt
  <2>7. SumTo(g, n) = SumTo(f, n) - TokenAmount(t, o)
    BY <2>3, <2>4, <2>5, <2>6
  <2> QED BY <2>7 DEF f, g
<1>7. ASSUME NEW a \in Users
      PROVE  SumTo([i \in 1 .. n |-> EthDelta(r[i], a)], n)
               = SumTo([i \in 1 .. n |-> EthDelta(s[i], a)], n)
                    + (IF recipient = a THEN EthAmount(o) ELSE 0)
                    + (IF caller = a THEN o.safetyDeposit ELSE 0)
  <2> DEFINE f == [i \in 1 .. n |-> EthDelta(s[i], a)]
             g == [i \in 1 .. n |-> EthDelta(r[i], a)]
             gain == (IF recipient = a THEN EthAmount(o) ELSE 0) + (IF caller = a THEN o.safetyDeposit ELSE 0)
  <2>1. f \in [1 .. n -> Int] /\ g \in [1 .. n -> Int]
    BY <1>1, <1>2, OrderNumbers
  <2>2. \A i \in 1 .. n : i # k => f[i] = g[i]
    BY <1>1
  <2>3. a # This /\ Payee(o) = This /\ Rewarded(o) = This /\ Rewarded(o2) = caller
    BY <1>4 DEF Users, Payee, Rewarded
  <2>4. EthDelta(o2, a) = EthDelta(o, a) + gain
    BY <1>3, <1>4, <2>3 DEF EthDelta, EthAmount
  <2>5. f[k] = EthDelta(o, a) /\ g[k] = EthDelta(o2, a) /\ f[k] \in Int /\ gain \in Int
    BY <1>1, <1>3, <2>1 DEF EthAmount
  <2> HIDE DEF f, g, gain
  <2>6. SumTo(g, n) = SumTo(f, n) - f[k] + g[k]
    BY Zenon, <1>1, <2>1, <2>2, SumToUpdate
  <2>7. SumTo(f, n) \in Int
    BY Zenon, <1>1, <2>1, SumToInt
  <2>8. SumTo(g, n) = SumTo(f, n) + gain
    BY <2>4, <2>5, <2>6, <2>7
  <2>9. (IF recipient = a THEN EthAmount(o) ELSE 0) \in Int /\ (IF caller = a THEN o.safetyDeposit ELSE 0) \in Int
    BY <1>3 DEF EthAmount
  <2> QED BY <2>7, <2>8, <2>9 DEF f, g, gain
<1>8. ASSUME NEW t \in Tokens, NEW a \in Users
      PROVE  SumTo([i \in 1 .. n |-> TokenDelta(t, r[i], a)], n)
               = SumTo([i \in 1 .. n |-> TokenDelta(t, s[i], a)], n)
                    + (IF recipient = a THEN TokenAmount(t, o) ELSE 0)
  <2> DEFINE f == [i \in 1 .. n |-> TokenDelta(t, s[i], a)]
             g == [i \in 1 .. n |-> TokenDelta(t, r[i], a)]
             gain == IF recipient = a THEN TokenAmount(t, o) ELSE 0
  <2>1. f \in [1 .. n -> Int] /\ g \in [1 .. n -> Int]
    BY <1>1, <1>2, OrderNumbers
  <2>2. \A i \in 1 .. n : i # k => f[i] = g[i]
    BY <1>1
  <2>3. a # This /\ Payee(o) = This
    BY <1>4 DEF Users, Payee
  <2>4. TokenDelta(t, o2, a) = TokenDelta(t, o, a) + gain
    BY <1>3, <1>4, <2>3 DEF TokenDelta, TokenAmount
  <2>5. f[k] = TokenDelta(t, o, a) /\ g[k] = TokenDelta(t, o2, a) /\ f[k] \in Int /\ gain \in Int
    BY <1>1, <1>3, <2>1 DEF TokenAmount
  <2> HIDE DEF f, g, gain
  <2>6. SumTo(g, n) = SumTo(f, n) - f[k] + g[k]
    BY ZenonT(60), <1>1, <2>1, <2>2, SumToUpdate
  <2>7. SumTo(f, n) \in Int
    BY Zenon, <1>1, <2>1, SumToInt
  <2>8. SumTo(g, n) = SumTo(f, n) + gain
    BY <2>4, <2>5, <2>6, <2>7
  <2> QED BY <2>8 DEF f, g, gain
<1> QED BY SMTT(60), <1>1, <1>5, <1>6, <1>7, <1>8 DEF SettledSums

\* What adding the funded order o to s, giving r, does to each of the four sums.
CreatedSums(s, r, o) ==
    /\ Len(r) = Len(s) + 1
    /\ SumTo([i \in 1 .. Len(r) |-> LockedEth(r[i])], Len(r))
         = SumTo([i \in 1 .. Len(s) |-> LockedEth(s[i])], Len(s)) + (EthAmount(o) + o.safetyDeposit)
    /\ \A t \in Tokens :
         SumTo([i \in 1 .. Len(r) |-> LockedToken(t, r[i])], Len(r))
         = SumTo([i \in 1 .. Len(s) |-> LockedToken(t, s[i])], Len(s)) + TokenAmount(t, o)
    /\ \A a \in Users :
         SumTo([i \in 1 .. Len(r) |-> EthDelta(r[i], a)], Len(r))
         = SumTo([i \in 1 .. Len(s) |-> EthDelta(s[i], a)], Len(s))
             - (IF o.sender = a THEN EthAmount(o) + o.safetyDeposit ELSE 0)
    /\ \A t \in Tokens, a \in Users :
         SumTo([i \in 1 .. Len(r) |-> TokenDelta(t, r[i], a)], Len(r))
         = SumTo([i \in 1 .. Len(s) |-> TokenDelta(t, s[i], a)], Len(s))
             - (IF o.sender = a THEN TokenAmount(t, o) ELSE 0)

LEMMA CreateSums ==
    ASSUME NEW s \in Seq(OrderType), NEW o \in OrderType, o.status = "Funded",
           NEW r, r = Append(s, o)
    PROVE  CreatedSums(s, r, o)
<1> DEFINE n == Len(s)
<1>1. /\ n \in Nat /\ \A i \in 1 .. n : s[i] \in OrderType
      /\ Len(r) = n + 1 /\ r[n + 1] = o /\ \A i \in 1 .. n : r[i] = s[i]
  <2>1. ASSUME NEW T, T = OrderType
        PROVE  /\ n \in Nat /\ \A i \in 1 .. n : s[i] \in T
               /\ Len(r) = n + 1 /\ r[n + 1] = o /\ \A i \in 1 .. n : r[i] = s[i]
    <3>1. s \in Seq(T) /\ o \in T
      BY <2>1
    <3> QED BY <3>1
  <2> QED BY <2>1
<1>2. \A i \in 1 .. n + 1 : r[i] \in OrderType
  <2>1. \A i \in 1 .. n + 1 : i = n + 1 \/ i \in 1 .. n
    BY <1>1
  <2> QED BY <1>1, <2>1
<1>3. o.amount \in Nat /\ o.safetyDeposit \in Nat /\ o.sender \in Users
  BY DEF OrderType
<1>4. n + 1 \in 1 .. n + 1 /\ \A i \in 1 .. n : i \in 1 .. n + 1
  BY <1>1
<1>5. SumTo([i \in 1 .. n + 1 |-> LockedEth(r[i])], n + 1)
        = SumTo([i \in 1 .. n |-> LockedEth(s[i])], n) + (EthAmount(o) + o.safetyDeposit)
  <2> DEFINE f == [i \in 1 .. n |-> LockedEth(s[i])]
             g == [i \in 1 .. n + 1 |-> LockedEth(r[i])]
  <2>1. f \in [1 .. n -> Int] /\ g \in [1 .. n + 1 -> Int]
    BY <1>1, <1>2, OrderNumbers
  <2>2. (\A i \in 1 .. n : f[i] = g[i]) /\ g[n + 1] = LockedEth(o)
    BY <1>1, <1>4
  <2>3. LockedEth(o) = EthAmount(o) + o.safetyDeposit
    BY <1>3 DEF LockedEth, EthAmount
  <2> HIDE DEF f, g
  <2>4. SumTo(g, n + 1) = SumTo(f, n) + g[n + 1]
    BY Zenon, <1>1, <2>1, <2>2, SumToAppend
  <2>5. SumTo(g, n + 1) = SumTo(f, n) + (EthAmount(o) + o.safetyDeposit)
    BY <2>2, <2>3, <2>4
  <2> QED BY <2>5 DEF f, g
<1>6. ASSUME NEW t \in Tokens
      PROVE  SumTo([i \in 1 .. n + 1 |-> LockedToken(t, r[i])], n + 1)
               = SumTo([i \in 1 .. n |-> LockedToken(t, s[i])], n) + TokenAmount(t, o)
  <2> DEFINE f == [i \in 1 .. n |-> LockedToken(t, s[i])]
             g == [i \in 1 .. n + 1 |-> LockedToken(t, r[i])]
  <2>1. f \in [1 .. n -> Int] /\ g \in [1 .. n + 1 -> Int]
    BY <1>1, <1>2, OrderNumbers
  <2>2. (\A i \in 1 .. n : f[i] = g[i]) /\ g[n + 1] = LockedToken(t, o)
    BY <1>1, <1>4
  <2>3. LockedToken(t, o) = TokenAmount(t, o)
    BY DEF LockedToken, TokenAmount
  <2> HIDE DEF f, g
  <2>4. SumTo(g, n + 1) = SumTo(f, n) + g[n + 1]
    BY Zenon, <1>1, <2>1, <2>2, SumToAppend
  <2>5. SumTo(g, n + 1) = SumTo(f, n) + TokenAmount(t, o)
    BY <2>2, <2>3, <2>4
  <2> QED BY Zenon, <2>5 DEF f, g
<1>7. ASSUME NEW a \in Users
      PROVE  SumTo([i \in 1 .. n + 1 |-> EthDelta(r[i], a)], n + 1)
               = SumTo([i \in 1 .. n |-> EthDelta(s[i], a)], n)
                   - (IF o.sender = a THEN EthAmount(o) + o.safetyDeposit ELSE 0)
  <2> DEFINE f == [i \in 1 .. n |-> EthDelta(s[i], a)]
             g == [i \in 1 .. n + 1 |-> EthDelta(r[i], a)]
             paid == IF o.sender = a THEN EthAmount(o) + o.safetyDeposit ELSE 0
  <2>1. f \in [1 .. n -> Int] /\ g \in [1 .. n + 1 -> Int]
    BY <1>1, <1>2, OrderNumbers
  <2>2. (\A i \in 1 .. n : f[i] = g[i]) /\ g[n + 1] = EthDelta(o, a)
    BY <1>1, <1>4
  <2>3. a # This /\ Payee(o) = This /\ Rewarded(o) = This
    BY DEF Users, Payee, Rewarded
  <2>4. EthDelta(o, a) = 0 - paid /\ paid \in Int
    BY <1>3, <2>3 DEF EthDelta, EthAmount
  <2> HIDE DEF f, g, paid
  <2>5. SumTo(g, n + 1) = SumTo(f, n) + g[n + 1]
    BY Zenon, <1>1, <2>1, <2>2, SumToAppend
  <2>6. SumTo(f, n) \in Int
    BY SMTT(60), <1>1, <2>1, SumToInt
  <2>7. SumTo(g, n + 1) = SumTo(f, n) - paid
    BY <2>2, <2>4, <2>5, <2>6
  <2> QED BY Zenon, <2>7 DEF f, g, paid
<1>8. ASSUME NEW t \in Tokens, NEW a \in Users
      PROVE  SumTo([i \in 1 .. n + 1 |-> TokenDelta(t, r[i], a)], n + 1)
               = SumTo([i \in 1 .. n |-> TokenDelta(t, s[i], a)], n)
                   - (IF o.sender = a THEN TokenAmount(t, o) ELSE 0)
  <2> DEFINE f == [i \in 1 .. n |-> TokenDelta(t, s[i], a)]
             g == [i \in 1 .. n + 1 |-> TokenDelta(t, r[i], a)]
             paid == IF o.sender = a THEN TokenAmount(t, o) ELSE 0
  <2>1. f \in [1 .. n -> Int] /\ g \in [1 .. n + 1 -> Int]
    BY <1>1, <1>2, OrderNumbers
  <2>2. (\A i \in 1 .. n : f[i] = g[i]) /\ g[n + 1] = TokenDelta(t, o, a)
    BY <1>1, <1>4
  <2>3. a # This /\ Payee(o) = This
    BY DEF Users, Payee
  <2>4. TokenDelta(t, o, a) = 0 - paid /\ paid \in Int
    BY <1>3, <2>3 DEF TokenDelta, TokenAmount
  <2> HIDE DEF f, g, paid
  <2>5. SumTo(g, n + 1) = SumTo(f, n) + g[n + 1]
    BY Zenon, <1>1, <2>1, <2>2, SumToAppend
  <2>6. SumTo(f, n) \in Int
    BY SMTT(60), <1>1, <2>1, SumToInt
  <2>7. SumTo(g, n + 1) = SumTo(f, n) - paid
    BY <2>2, <2>4, <2>5, <2>6
  <2> QED BY Zenon, <2>7 DEF f, g, paid
<1> QED BY ZenonT(60), <1>1, <1>5, <1>6, <1>7, <1>8 DEF CreatedSums

-----------------------------------------------------------------------------
\* A claim is a settlement in favour of the beneficiary.
LEMMA ClaimSettles ==
    ASSUME TypeOK, NEW caller \in Users, NEW k \in 1 .. Len(orders), NEW p \in Preimages,
           claimOrder(caller, k, p)
    PROVE  \E o2 : /\ Settles(orders[k], o2, orders[k].beneficiary, caller)
                   /\ orders' = [orders EXCEPT ![k] = o2]
                   /\ o2.status = "Claimed" /\ o2.finalisedAt = now
                   /\ o2.preimageKeccak = Keccak256(p)
                   /\ \A f \in {"hashlock", "timelock", "createdAt", "beneficiary", "refundAddress"} :
                         o2[f] = orders[k][f]
<1> DEFINE o == orders[k]
           o2 == [o EXCEPT !.status = "Claimed", !.finalisedAt = now,
                           !.preimageKeccak = Keccak256(p), !.caller = caller]
<1>1. o \in OrderType /\ now \in Nat
  BY DEF TypeOK
<1>2. o2 \in OrderType
  BY Zenon, <1>1 DEF OrderType
<1>3. /\ o2.status = "Claimed" /\ o2.finalisedAt = now /\ o2.preimageKeccak = Keccak256(p)
      /\ o2.caller = caller /\ o2.token = o.token /\ o2.amount = o.amount /\ o2.sender = o.sender
      /\ o2.safetyDeposit = o.safetyDeposit /\ o2.beneficiary = o.beneficiary
      /\ o2.hashlock = o.hashlock /\ o2.timelock = o.timelock /\ o2.createdAt = o.createdAt
      /\ o2.refundAddress = o.refundAddress
  BY <1>1 DEF OrderType
<1>4. orders' = [orders EXCEPT ![k] = o2] /\ o.status = "Funded"
  BY DEF claimOrder
<1> HIDE DEF o2
<1>5. Payee(o2) = o.beneficiary
  BY <1>3 DEF Payee
<1>6. Settles(o, o2, o.beneficiary, caller)
  BY <1>2, <1>3, <1>4, <1>5 DEF Settles
<1> QED BY ZenonT(60), <1>3, <1>4, <1>6

\* A refund is a settlement in favour of the refund address.
LEMMA RefundSettles ==
    ASSUME TypeOK, NEW caller \in Users, NEW k \in 1 .. Len(orders), refundOrder(caller, k)
    PROVE  \E o2 : /\ Settles(orders[k], o2, orders[k].refundAddress, caller)
                   /\ orders' = [orders EXCEPT ![k] = o2]
                   /\ o2.status = "Refunded" /\ o2.finalisedAt = now
                   /\ \A f \in {"hashlock", "timelock", "createdAt", "beneficiary", "refundAddress"} :
                         o2[f] = orders[k][f]
<1> DEFINE o == orders[k]
           o2 == [o EXCEPT !.status = "Refunded", !.finalisedAt = now, !.caller = caller]
<1>1. o \in OrderType /\ now \in Nat
  BY DEF TypeOK
<1>2. o2 \in OrderType
  BY Zenon, <1>1 DEF OrderType
<1>3. /\ o2.status = "Refunded" /\ o2.finalisedAt = now
      /\ o2.caller = caller /\ o2.token = o.token /\ o2.amount = o.amount /\ o2.sender = o.sender
      /\ o2.safetyDeposit = o.safetyDeposit /\ o2.beneficiary = o.beneficiary
      /\ o2.hashlock = o.hashlock /\ o2.timelock = o.timelock /\ o2.createdAt = o.createdAt
      /\ o2.refundAddress = o.refundAddress
  BY <1>1 DEF OrderType
<1>4. orders' = [orders EXCEPT ![k] = o2] /\ o.status = "Funded"
  BY DEF refundOrder
<1> HIDE DEF o2
<1>5. Payee(o2) = o.refundAddress
  BY <1>3 DEF Payee
<1>6. Settles(o, o2, o.refundAddress, caller)
  BY <1>2, <1>3, <1>4, <1>5 DEF Settles
<1> QED BY ZenonT(60), <1>3, <1>4, <1>6

\* The integers of the current state.
LEMMA BookTypes ==
    ASSUME TypeOK
    PROVE  /\ TotalLockedEth \in Int /\ SumTo(pendingWithdrawals, N) \in Nat
           /\ \A t \in Tokens : TotalLockedToken(t) \in Int
           /\ \A a \in Users : SumTo([i \in 1 .. Len(orders) |-> EthDelta(orders[i], a)], Len(orders)) \in Int
           /\ \A t \in Tokens, a \in Users :
                SumTo([i \in 1 .. Len(orders) |-> TokenDelta(t, orders[i], a)], Len(orders)) \in Int
<1>1. Len(orders) \in Nat /\ \A i \in 1 .. Len(orders) : orders[i] \in OrderType
  BY DEF TypeOK
<1>2. TotalLockedEth \in Int
  <2> DEFINE f == [i \in 1 .. Len(orders) |-> LockedEth(orders[i])]
  <2>1. f \in [1 .. Len(orders) -> Int]
    BY <1>1, OrderNumbers
  <2> HIDE DEF f
  <2>2. SumTo(f, Len(orders)) \in Int
    BY <1>1, <2>1, SumToInt
  <2> QED BY <2>2 DEF f, TotalLockedEth
<1>3. SumTo(pendingWithdrawals, N) \in Nat
  BY SMTT(60), EscrowAssumption, SumToNat DEF TypeOK, Accounts
<1>4. ASSUME NEW t \in Tokens PROVE TotalLockedToken(t) \in Int
  <2> DEFINE f == [i \in 1 .. Len(orders) |-> LockedToken(t, orders[i])]
  <2>1. f \in [1 .. Len(orders) -> Int]
    BY <1>1, OrderNumbers
  <2> HIDE DEF f
  <2>2. SumTo(f, Len(orders)) \in Int
    BY <1>1, <2>1, SumToInt
  <2> QED BY <2>2 DEF f, TotalLockedToken
<1>5. ASSUME NEW a \in Users
      PROVE  SumTo([i \in 1 .. Len(orders) |-> EthDelta(orders[i], a)], Len(orders)) \in Int
  <2> DEFINE f == [i \in 1 .. Len(orders) |-> EthDelta(orders[i], a)]
  <2>1. f \in [1 .. Len(orders) -> Int]
    BY <1>1, OrderNumbers
  <2> HIDE DEF f
  <2>2. SumTo(f, Len(orders)) \in Int
    BY <1>1, <2>1, SumToInt
  <2> QED BY <2>2 DEF f
<1>6. ASSUME NEW t \in Tokens, NEW a \in Users
      PROVE  SumTo([i \in 1 .. Len(orders) |-> TokenDelta(t, orders[i], a)], Len(orders)) \in Int
  <2> DEFINE f == [i \in 1 .. Len(orders) |-> TokenDelta(t, orders[i], a)]
  <2>1. f \in [1 .. Len(orders) -> Int]
    BY <1>1, OrderNumbers
  <2> HIDE DEF f
  <2>2. SumTo(f, Len(orders)) \in Int
    BY <1>1, <2>1, SumToInt
  <2> QED BY <2>2 DEF f
<1> QED BY <1>2, <1>3, <1>4, <1>5, <1>6

\* A settlement keeps the books: the escrow pays out of the order it settles.
LEMMA SettlementKeepsBooks ==
    ASSUME TypeOK, Solvency, EveryoneIsPaid, NEW k \in 1 .. Len(orders), NEW o2,
           NEW recipient \in Accounts, NEW caller \in Users,
           Settles(orders[k], o2, recipient, caller), orders' = [orders EXCEPT ![k] = o2],
           payoutBoth(orders[k], recipient, caller), UNCHANGED <<now, resolverRegistry, active>>
    PROVE  TypeOK' /\ Solvency' /\ EveryoneIsPaid'
<1> DEFINE o == orders[k]
<1>1. orders \in Seq(OrderType) /\ o \in OrderType /\ o2 \in OrderType
  BY DEF TypeOK, Settles
<1>2. orders' \in Seq(OrderType)
  BY SMTT(60), <1>1, ReplaceOrder
<1>3. /\ eth' \in [Accounts -> Nat] /\ pendingWithdrawals' \in [Accounts -> Nat]
      /\ erc20' \in [Tokens -> [Accounts -> Nat]]
      /\ \A a \in Users :
           eth'[a] + pendingWithdrawals'[a] = eth[a] + pendingWithdrawals[a]
             + (IF recipient = a THEN EthAmount(o) ELSE 0) + (IF caller = a THEN o.safetyDeposit ELSE 0)
      /\ eth'[This] - SumTo(pendingWithdrawals', N)
           = eth[This] - SumTo(pendingWithdrawals, N) - EthAmount(o) - o.safetyDeposit
      /\ \A t \in Tokens, a \in Accounts :
           erc20'[t][a] = erc20[t][a] + (IF recipient = a THEN TokenAmount(t, o) ELSE 0)
                            - (IF a = This THEN TokenAmount(t, o) ELSE 0)
  BY SMTT(60), <1>1, PayoutEffect
<1>4. TypeOK'
  BY <1>2, <1>3 DEF TypeOK
<1> DEFINE r == orders'
<1>5. SettledSums(orders, r, k, recipient, caller)
  BY Zenon, <1>1, SettleSums
<1>6. o.amount \in Nat /\ o.safetyDeposit \in Nat /\ EthAmount(o) \in Nat /\ \A t : TokenAmount(t, o) \in Nat
  BY Zenon, <1>1 DEF OrderType, EthAmount, TokenAmount
<1>7. This \in Accounts /\ Users \subseteq Accounts /\ N \in Nat /\ Accounts = 1 .. N
  BY EscrowAssumption DEF Accounts, Users
<1>8. Solvency'
  <2>1. eth'[This] = TotalLockedEth' + SumTo(pendingWithdrawals', N)
    <3> DEFINE A == TotalLockedEth
               P == SumTo(pendingWithdrawals, N)
               Q == SumTo(pendingWithdrawals', N)
    <3>1. eth[This] = A + P
      BY SMTT(60) DEF Solvency
    <3>2. TotalLockedEth' = A - EthAmount(o) - o.safetyDeposit
      BY SMTT(60), <1>5 DEF TotalLockedEth, SettledSums
    <3>3. P \in Nat /\ Q \in Nat /\ eth[This] \in Nat /\ eth'[This] \in Nat
      BY Zenon, <1>3, <1>7, SumToNat DEF TypeOK
    <3>4. A \in Int
      BY BookTypes
    <3>5. eth'[This] - Q = eth[This] - P - EthAmount(o) - o.safetyDeposit
      BY <1>3
    <3> HIDE DEF A, P, Q
    <3>6. eth'[This] = (A - EthAmount(o) - o.safetyDeposit) + Q
      BY SMTT(60), <1>6, <3>1, <3>3, <3>4, <3>5
    <3> QED BY SMTT(60), <3>2, <3>6 DEF Q
  <2>2. ASSUME NEW t \in Tokens PROVE erc20'[t][This] >= TotalLockedToken(t)'
    <3> DEFINE A == TotalLockedToken(t)
    <3>1. erc20[t][This] >= A
      BY SMTT(60) DEF Solvency
    <3>2. TotalLockedToken(t)' = A - TokenAmount(t, o)
      BY <1>5 DEF TotalLockedToken, SettledSums
    <3>3. erc20[t][This] \in Nat
      BY SMTT(60), <1>7 DEF TypeOK
    <3>4. A \in Int
      BY BookTypes
    <3>5. erc20'[t][This] = erc20[t][This] + (IF recipient = This THEN TokenAmount(t, o) ELSE 0) - TokenAmount(t, o)
      BY <1>3, <1>7
    <3>6. TokenAmount(t, o) \in Nat
      BY SMTT(60), <1>6
    <3> HIDE DEF A
    <3> QED BY SMTT(60), <3>1, <3>2, <3>3, <3>4, <3>5, <3>6
  <2> QED BY <2>1, <2>2 DEF Solvency
<1>9. EveryoneIsPaid'
  <2>1. ASSUME NEW a \in Users
        PROVE  eth'[a] + pendingWithdrawals'[a] =
                 Funding + SumTo([i \in 1 .. Len(r) |-> EthDelta(r[i], a)], Len(r))
    <3> DEFINE A == SumTo([i \in 1 .. Len(orders) |-> EthDelta(orders[i], a)], Len(orders))
               B == SumTo([i \in 1 .. Len(r) |-> EthDelta(r[i], a)], Len(r))
               g1 == IF recipient = a THEN EthAmount(o) ELSE 0
               g2 == IF caller = a THEN o.safetyDeposit ELSE 0
    <3>1. eth[a] + pendingWithdrawals[a] = Funding + A
      BY SMTT(60) DEF EveryoneIsPaid
    <3>2. B = A + g1 + g2
      BY <1>5 DEF SettledSums
    <3>3. A \in Int
      BY BookTypes
    <3>4. g1 \in Nat /\ g2 \in Nat /\ Funding \in Nat
      BY SMTT(60), <1>6, EscrowAssumption
    <3>5. eth'[a] + pendingWithdrawals'[a] = eth[a] + pendingWithdrawals[a] + g1 + g2
      BY SMTT(60), <1>3
    <3> HIDE DEF A, B, g1, g2
    <3>6. eth'[a] + pendingWithdrawals'[a] = Funding + B
      BY SMTT(60), <3>1, <3>2, <3>3, <3>4, <3>5
    <3> QED BY SMTT(60), <3>6 DEF B
  <2>2. ASSUME NEW t \in Tokens, NEW a \in Users
        PROVE  erc20'[t][a] = Funding + SumTo([i \in 1 .. Len(r) |-> TokenDelta(t, r[i], a)], Len(r))
    <3> DEFINE A == SumTo([i \in 1 .. Len(orders) |-> TokenDelta(t, orders[i], a)], Len(orders))
               B == SumTo([i \in 1 .. Len(r) |-> TokenDelta(t, r[i], a)], Len(r))
               g1 == IF recipient = a THEN TokenAmount(t, o) ELSE 0
    <3>1. erc20[t][a] = Funding + A
      BY Zenon DEF EveryoneIsPaid
    <3>2. B = A + g1
      BY <1>5 DEF SettledSums
    <3>3. A \in Int
      BY BookTypes
    <3>4. g1 \in Nat /\ Funding \in Nat
      BY SMTT(60), <1>6, EscrowAssumption
    <3>5. erc20'[t][a] = erc20[t][a] + g1
      <4>1. a # This /\ a \in Accounts /\ erc20[t][a] \in Nat
        BY SMTT(60), <1>7 DEF Users, TypeOK
      <4>2. erc20'[t][a] = erc20[t][a] + g1 - 0
        BY SMTT(60), <1>3, <4>1
      <4> QED BY <3>4, <4>1, <4>2
    <3> HIDE DEF A, B, g1
    <3>6. erc20'[t][a] = Funding + B
      BY <3>1, <3>2, <3>3, <3>4, <3>5
    <3> QED BY <3>6 DEF B
  <2> QED BY SMTT(60), <2>1, <2>2 DEF EveryoneIsPaid
<1> QED BY <1>4, <1>8, <1>9

\* Creating an order keeps the books: what the sender pays is what it locks.
LEMMA CreateKeepsBooks ==
    ASSUME TypeOK, Solvency, EveryoneIsPaid, Create
    PROVE  /\ TypeOK' /\ Solvency' /\ EveryoneIsPaid'
           /\ \E o \in OrderType : /\ orders' = Append(orders, o) /\ o.status = "Funded"
                                   /\ o.preimageKeccak = NoDigest
<1>1. PICK sender \in Users, beneficiary \in Accounts, refundAddress \in Accounts,
           token \in Tokens \cup {Native}, amount \in Amounts, safetyDeposit \in Deposits,
           hashlock \in Hashlocks, timelockSeconds \in 0 .. MAX_TIMELOCK + 1 :
        createOrder(sender, beneficiary, refundAddress, token, amount, safetyDeposit, hashlock, timelockSeconds)
  BY DEF Create
<1> DEFINE o == [sender |-> sender, beneficiary |-> beneficiary, refundAddress |-> refundAddress,
                 token |-> token, amount |-> amount, safetyDeposit |-> safetyDeposit,
                 hashlock |-> hashlock, timelock |-> now + timelockSeconds, createdAt |-> now,
                 finalisedAt |-> 0, status |-> "Funded", preimageKeccak |-> NoDigest,
                 caller |-> Nobody]
           value == safetyDeposit + (IF token = Native THEN amount ELSE 0)
<1>2. /\ amount \in Nat /\ safetyDeposit \in Nat /\ timelockSeconds \in Nat
      /\ This \in Accounts /\ sender \in Accounts /\ sender # This /\ Users \subseteq Accounts
      /\ Native \notin Tokens /\ Funding \in Nat
  BY SMTT(60), EscrowAssumption DEF Accounts, Users
<1>3. o \in OrderType
  BY SMTT(60), <1>2 DEF OrderType, TypeOK
<1>4. /\ orders' = Append(orders, o)
      /\ eth[sender] >= value /\ (token # Native => erc20[token][sender] >= amount)
      /\ eth' = Move(eth, sender, This, value)
      /\ erc20' = IF token = Native THEN erc20
                  ELSE [erc20 EXCEPT ![token] = Move(@, sender, This, amount)]
      /\ UNCHANGED <<now, resolverRegistry, active, pendingWithdrawals>>
  BY SMTT(60), <1>1 DEF createOrder
<1>5. /\ o.status = "Funded" /\ o.sender = sender /\ o.preimageKeccak = NoDigest
      /\ o.safetyDeposit = safetyDeposit /\ o.amount = amount /\ o.token = token
  BY SMTT(60)
<1> HIDE DEF o
<1>6. CreatedSums(orders, orders', o) /\ orders' \in Seq(OrderType)
  <2>1. orders \in Seq(OrderType)
    BY DEF TypeOK
  <2>2. Append(orders, o) \in Seq(OrderType)
    BY SMTT(60), <1>3, <2>1
  <2>3. CreatedSums(orders, orders', o)
    BY Zenon, <1>3, <1>4, <1>5, <2>1, CreateSums
  <2> QED BY <1>4, <2>2, <2>3
<1>7. value = EthAmount(o) + o.safetyDeposit /\ value \in Nat
  BY <1>2, <1>5 DEF EthAmount
<1> HIDE DEF value
<1>8. /\ eth' \in [Accounts -> Nat]
      /\ \A a \in Accounts : eth'[a] = eth[a] - (IF a = sender THEN value ELSE 0) + (IF a = This THEN value ELSE 0)
  <2>1. /\ Move(eth, sender, This, value) \in [Accounts -> Nat]
        /\ \A a \in Accounts : Move(eth, sender, This, value)[a]
              = eth[a] - (IF a = sender THEN value ELSE 0) + (IF a = This THEN value ELSE 0)
    <3>1. eth \in [Accounts -> Nat]
      BY SMTT(60) DEF TypeOK
    <3>2. sender \in Accounts /\ This \in Accounts /\ value \in Nat /\ eth[sender] >= value
      BY SMTT(60), <1>2, <1>4, <1>7
    <3> QED BY <3>1, <3>2, MoveEffect
  <2> QED BY <1>4, <2>1
<1>9. /\ erc20' \in [Tokens -> [Accounts -> Nat]]
      /\ \A t \in Tokens, a \in Accounts :
           erc20'[t][a] = erc20[t][a] - (IF a = sender THEN TokenAmount(t, o) ELSE 0)
                            + (IF a = This THEN TokenAmount(t, o) ELSE 0)
  <2>1. CASE token = Native
    <3>1. erc20' = erc20 /\ erc20 \in [Tokens -> [Accounts -> Nat]]
      BY <2>1, <1>4 DEF TypeOK
    <3>2. \A t \in Tokens : TokenAmount(t, o) = 0
      BY <2>1, <1>2, <1>5 DEF TokenAmount
    <3>3. ASSUME NEW t \in Tokens, NEW a \in Accounts
          PROVE  erc20'[t][a] = erc20[t][a] - (IF a = sender THEN TokenAmount(t, o) ELSE 0)
                                  + (IF a = This THEN TokenAmount(t, o) ELSE 0)
      <4>1. erc20[t][a] \in Nat
        BY SMTT(60), <3>1
      <4> QED BY <3>1, <3>2, <4>1
    <3> QED BY SMTT(60), <3>1, <3>3
  <2>2. CASE token # Native
    <3> DEFINE bal == erc20[token]
               new == Move(bal, sender, This, amount)
    <3>1. token \in Tokens /\ bal \in [Accounts -> Nat] /\ bal[sender] >= amount
      BY SMTT(60), <2>2, <1>2, <1>4 DEF TypeOK
    <3>2. /\ new \in [Accounts -> Nat]
          /\ \A a \in Accounts : new[a] = bal[a] - (IF a = sender THEN amount ELSE 0)
                                           + (IF a = This THEN amount ELSE 0)
      <4> HIDE DEF bal
      <4> QED BY SMTT(60), <3>1, <1>2, MoveEffect
    <3>3. erc20' = [erc20 EXCEPT ![token] = new] /\ erc20 \in [Tokens -> [Accounts -> Nat]]
      BY <2>2, <1>4 DEF TypeOK
    <3> HIDE DEF new
    <3>4. erc20' \in [Tokens -> [Accounts -> Nat]]
      BY SMTT(60), <3>1, <3>2, <3>3
    <3>5. ASSUME NEW t \in Tokens, NEW a \in Accounts
          PROVE  erc20'[t][a] = erc20[t][a] - (IF a = sender THEN TokenAmount(t, o) ELSE 0)
                                  + (IF a = This THEN TokenAmount(t, o) ELSE 0)
      <4>1. CASE t = token
        BY SMTT(60), <4>1, <1>5, <3>1, <3>2, <3>3 DEF TokenAmount
      <4>2. CASE t # token
        BY SMTT(60), <4>2, <1>5, <3>3 DEF TokenAmount
      <4> QED BY SMTT(60), <4>1, <4>2
    <3> QED BY SMTT(60), <3>4, <3>5
  <2> QED BY <2>1, <2>2
<1>10. TypeOK'
  BY SMTT(60), <1>4, <1>6, <1>8, <1>9 DEF TypeOK
<1>11. \A t : TokenAmount(t, o) \in Nat
  BY <1>2, <1>5 DEF TokenAmount
<1>12. Solvency'
  <2>1. eth'[This] = TotalLockedEth' + SumTo(pendingWithdrawals', N)
    <3>1. TotalLockedEth' = TotalLockedEth + value
      BY <1>6, <1>7 DEF TotalLockedEth, CreatedSums
    <3>2. eth'[This] = eth[This] + value /\ eth[This] \in Nat
      BY SMTT(60), <1>2, <1>7, <1>8 DEF TypeOK
    <3>3. eth[This] = TotalLockedEth + SumTo(pendingWithdrawals, N)
      BY DEF Solvency
    <3>4. SumTo(pendingWithdrawals', N) = SumTo(pendingWithdrawals, N)
      BY <1>4
    <3> QED BY SMTT(60), <1>7, <3>1, <3>2, <3>3, <3>4, BookTypes
  <2>2. ASSUME NEW t \in Tokens PROVE erc20'[t][This] >= TotalLockedToken(t)'
    <3>1. TotalLockedToken(t)' = TotalLockedToken(t) + TokenAmount(t, o)
      BY SMTT(60), <1>6 DEF TotalLockedToken, CreatedSums
    <3>2. erc20[t][This] \in Nat /\ TokenAmount(t, o) \in Nat
      BY ZenonT(60), <1>2, <1>11 DEF TypeOK
    <3>3. erc20'[t][This] = erc20[t][This] + TokenAmount(t, o)
      BY <1>2, <1>9, <3>2
    <3>4. erc20[t][This] >= TotalLockedToken(t)
      BY DEF Solvency
    <3> QED BY SMTT(60), <3>1, <3>2, <3>3, <3>4, BookTypes
  <2> QED BY SMTT(60), <2>1, <2>2 DEF Solvency
<1>13. EveryoneIsPaid'
  <2> DEFINE r == orders'
  <2>1. ASSUME NEW a \in Users
        PROVE  eth'[a] + pendingWithdrawals'[a] =
                 Funding + SumTo([i \in 1 .. Len(r) |-> EthDelta(r[i], a)], Len(r))
    <3> DEFINE A == SumTo([i \in 1 .. Len(orders) |-> EthDelta(orders[i], a)], Len(orders))
               B == SumTo([i \in 1 .. Len(r) |-> EthDelta(r[i], a)], Len(r))
    <3>1. eth[a] + pendingWithdrawals[a] = Funding + A
      BY DEF EveryoneIsPaid
    <3>2. B = A - (IF sender = a THEN value ELSE 0)
      BY ZenonT(60), <1>5, <1>6, <1>7 DEF CreatedSums
    <3>3. A \in Int
      BY BookTypes
    <3>4. a # This /\ eth[a] \in Nat /\ pendingWithdrawals[a] \in Nat
      BY SMTT(60), <1>2 DEF Users, TypeOK
    <3>5. eth'[a] = eth[a] - (IF sender = a THEN value ELSE 0) /\ pendingWithdrawals'[a] = pendingWithdrawals[a]
      BY SMTT(60), <1>2, <1>4, <1>7, <1>8, <3>4
    <3> HIDE DEF A, B
    <3>6. eth'[a] + pendingWithdrawals'[a] = Funding + B
      BY SMTT(60), <1>2, <1>7, <3>1, <3>2, <3>3, <3>4, <3>5
    <3> QED BY <3>6 DEF B
  <2>2. ASSUME NEW t \in Tokens, NEW a \in Users
        PROVE  erc20'[t][a] = Funding + SumTo([i \in 1 .. Len(r) |-> TokenDelta(t, r[i], a)], Len(r))
    <3> DEFINE A == SumTo([i \in 1 .. Len(orders) |-> TokenDelta(t, orders[i], a)], Len(orders))
               B == SumTo([i \in 1 .. Len(r) |-> TokenDelta(t, r[i], a)], Len(r))
    <3>1. erc20[t][a] = Funding + A
      BY Zenon DEF EveryoneIsPaid
    <3>2. B = A - (IF sender = a THEN TokenAmount(t, o) ELSE 0)
      BY SMTT(60), <1>5, <1>6 DEF CreatedSums
    <3>3. A \in Int
      BY SMTT(60), BookTypes
    <3>4. a # This /\ erc20[t][a] \in Nat /\ TokenAmount(t, o) \in Nat
      <4>1. erc20[t] \in [Accounts -> Nat] /\ a \in Accounts /\ a # This
        BY SMTT(60), <1>2 DEF Users, TypeOK
      <4> QED BY SMTT(60), <1>11, <4>1
    <3>5. erc20'[t][a] = erc20[t][a] - (IF sender = a THEN TokenAmount(t, o) ELSE 0)
      BY SMTT(60), <1>2, <1>9, <3>4
    <3> HIDE DEF A, B
    <3>6. erc20'[t][a] = Funding + B
      BY SMTT(60), <1>2, <3>1, <3>2, <3>3, <3>4, <3>5
    <3> QED BY <3>6 DEF B
  <2> QED BY <2>1, <2>2 DEF EveryoneIsPaid
<1> QED BY SMTT(60), <1>3, <1>4, <1>5, <1>10, <1>12, <1>13

\* Withdrawing keeps the books: a credit becomes cash.
LEMMA WithdrawKeepsBooks ==
    ASSUME TypeOK, Solvency, EveryoneIsPaid, Withdraw
    PROVE  TypeOK' /\ Solvency' /\ EveryoneIsPaid' /\ orders' = orders
<1>1. PICK caller \in Users : withdraw(caller)
  BY SMTT(60) DEF Withdraw
<1> DEFINE x == pendingWithdrawals[caller]
           new == [pendingWithdrawals EXCEPT ![caller] = 0]
<1>2. /\ caller \in Accounts /\ caller # This /\ This \in Accounts /\ Users \subseteq Accounts
      /\ Accounts = 1 .. N /\ N \in Nat
      /\ eth \in [Accounts -> Nat] /\ pendingWithdrawals \in [Accounts -> Nat] /\ x \in Nat
  BY SMTT(60), EscrowAssumption DEF Users, Accounts, TypeOK
<1>3. /\ eth[This] >= x /\ pendingWithdrawals' = new
      /\ eth' = Move(eth, This, caller, x)
      /\ UNCHANGED <<now, resolverRegistry, active, orders, erc20>>
  BY <1>1, <1>2 DEF withdraw, Delivered
<1>4. new \in [Accounts -> Nat] /\ \A a \in Accounts : new[a] = IF a = caller THEN 0 ELSE pendingWithdrawals[a]
  BY SMTT(60), <1>2
<1> HIDE DEF x, new
<1>5. /\ eth' \in [Accounts -> Nat]
      /\ \A a \in Accounts : eth'[a] = eth[a] - (IF a = This THEN x ELSE 0) + (IF a = caller THEN x ELSE 0)
  <2>1. /\ Move(eth, This, caller, x) \in [Accounts -> Nat]
        /\ \A a \in Accounts : Move(eth, This, caller, x)[a]
              = eth[a] - (IF a = This THEN x ELSE 0) + (IF a = caller THEN x ELSE 0)
    <3>1. eth[This] >= x /\ eth \in [Accounts -> Nat] /\ This \in Accounts /\ caller \in Accounts /\ x \in Nat
      BY SMTT(60), <1>2, <1>3
    <3> QED BY <3>1, MoveEffect
  <2> QED BY SMTT(60), <1>3, <2>1
<1>6. TypeOK'
  BY SMTT(60), <1>3, <1>4, <1>5 DEF TypeOK
<1>7. SumTo(new, N) = SumTo(pendingWithdrawals, N) - x
  <2>1. pendingWithdrawals \in [1 .. N -> Int] /\ new \in [1 .. N -> Int] /\ caller \in 1 .. N
    BY <1>2, <1>4
  <2>2. \A i \in 1 .. N : i # caller => pendingWithdrawals[i] = new[i]
    BY SMTT(60), <1>2, <1>4
  <2>3. SumTo(new, N) = SumTo(pendingWithdrawals, N) - pendingWithdrawals[caller] + new[caller]
    BY Zenon, <1>2, <2>1, <2>2, SumToUpdate
  <2>4. pendingWithdrawals[caller] = x /\ new[caller] = 0
    BY <1>2, <1>4 DEF x
  <2> QED BY <1>2, <2>3, <2>4, BookTypes
<1>8. Solvency'
  <2>1. TotalLockedEth' = TotalLockedEth /\ \A t \in Tokens : TotalLockedToken(t)' = TotalLockedToken(t)
    BY <1>3 DEF TotalLockedEth, TotalLockedToken
  <2>2. eth'[This] = eth[This] - x /\ eth[This] \in Nat
    BY SMTT(60), <1>2, <1>5
  <2>3. eth[This] = TotalLockedEth + SumTo(pendingWithdrawals, N)
    BY DEF Solvency
  <2>4. SumTo(pendingWithdrawals', N) = SumTo(pendingWithdrawals, N) - x
    BY <1>3, <1>7
  <2>5. eth'[This] = TotalLockedEth' + SumTo(pendingWithdrawals', N)
    BY SMTT(60), <1>2, <2>1, <2>2, <2>3, <2>4, BookTypes
  <2>6. \A t \in Tokens : erc20'[t][This] >= TotalLockedToken(t)'
    BY SMTT(60), <1>3, <2>1 DEF Solvency
  <2> QED BY <2>5, <2>6 DEF Solvency
<1>9. EveryoneIsPaid'
  <2>1. ASSUME NEW a \in Users
        PROVE  eth'[a] + pendingWithdrawals'[a] = eth[a] + pendingWithdrawals[a]
    <3>1. a \in Accounts /\ a # This /\ eth[a] \in Nat /\ pendingWithdrawals[a] \in Nat
      BY <1>2 DEF Users
    <3>2. CASE a = caller
      <4>1. eth'[a] = eth[a] + x /\ pendingWithdrawals'[a] = 0 /\ pendingWithdrawals[a] = x
        BY SMTT(60), <1>2, <1>3, <1>4, <1>5, <3>1, <3>2 DEF x
      <4> QED BY SMTT(60), <1>2, <3>1, <4>1
    <3>3. CASE a # caller
      BY <1>2, <1>3, <1>4, <1>5, <3>1, <3>3
    <3> QED BY <3>2, <3>3
  <2> QED BY SMTT(60), <1>3, <2>1 DEF EveryoneIsPaid
<1> QED BY <1>3, <1>6, <1>8, <1>9

-----------------------------------------------------------------------------
\* What SettledInWindow says of one order.
InWindow(o) ==
    /\ o.status = "Claimed" =>
          /\ o.finalisedAt < o.timelock
          /\ \E p \in Preimages : /\ o.hashlock \in {Sha256(p), Keccak256(p)}
                                  /\ o.preimageKeccak = Keccak256(p)
    /\ o.status = "Refunded" => o.timelock < o.finalisedAt
    /\ o.status = "Funded" => o.preimageKeccak = NoDigest
\* The inductive invariant.
IInv == TypeOK /\ Solvency /\ EveryoneIsPaid /\ SettledInWindow

LEMMA IInvInit == Init => IInv
<1> SUFFICES ASSUME Init PROVE IInv
  OBVIOUS
<1>1. TypeOK
  BY EscrowAssumption DEF Init, TypeOK, Accounts, Users
<1>2. /\ orders = <<>> /\ Len(orders) = 0 /\ This \in Accounts /\ N \in Nat /\ Accounts = 1 .. N
      /\ Funding \in Nat /\ Users \subseteq Accounts /\ This \notin Users
  BY EscrowAssumption DEF Init, Accounts, Users
<1>3. ASSUME NEW f \in [1 .. 0 -> Int] PROVE SumTo(f, 0) = 0
  BY Zenon, SumToStep
<1>4. TotalLockedEth = 0
  <2> DEFINE f == [i \in 1 .. 0 |-> LockedEth(orders[i])]
  <2>1. f \in [1 .. 0 -> Int]
    OBVIOUS
  <2> HIDE DEF f
  <2>2. SumTo(f, 0) = 0
    BY Zenon, <1>3, <2>1
  <2> QED BY <1>2, <2>2 DEF TotalLockedEth, f
<1>5. ASSUME NEW t \in Tokens PROVE TotalLockedToken(t) = 0
  <2> DEFINE f == [i \in 1 .. 0 |-> LockedToken(t, orders[i])]
  <2>1. f \in [1 .. 0 -> Int]
    OBVIOUS
  <2> HIDE DEF f
  <2>2. SumTo(f, 0) = 0
    BY Zenon, <1>3, <2>1
  <2> QED BY <1>2, <2>2 DEF TotalLockedToken, f
<1>6. ASSUME NEW a \in Users
      PROVE  SumTo([i \in 1 .. Len(orders) |-> EthDelta(orders[i], a)], Len(orders)) = 0
  <2> DEFINE f == [i \in 1 .. 0 |-> EthDelta(orders[i], a)]
  <2>1. f \in [1 .. 0 -> Int]
    OBVIOUS
  <2> HIDE DEF f
  <2>2. SumTo(f, 0) = 0
    BY Zenon, <1>3, <2>1
  <2> QED BY <1>2, <2>2 DEF f
<1>7. ASSUME NEW t \in Tokens, NEW a \in Users
      PROVE  SumTo([i \in 1 .. Len(orders) |-> TokenDelta(t, orders[i], a)], Len(orders)) = 0
  <2> DEFINE f == [i \in 1 .. 0 |-> TokenDelta(t, orders[i], a)]
  <2>1. f \in [1 .. 0 -> Int]
    OBVIOUS
  <2> HIDE DEF f
  <2>2. SumTo(f, 0) = 0
    BY ZenonT(60), <1>3, <2>1
  <2> QED BY <1>2, <2>2 DEF f
<1>8. SumTo(pendingWithdrawals, N) = 0
  <2>1. pendingWithdrawals \in [1 .. N -> Int] /\ \A i \in 1 .. N : pendingWithdrawals[i] = 0
    BY <1>2 DEF Init
  <2> HIDE DEF Init
  <2> QED BY <1>2, <2>1, SumToZero
<1>9. Solvency
  BY <1>2, <1>4, <1>5, <1>8 DEF Init, Solvency
<1>10. EveryoneIsPaid
  <2>1. \A a \in Users : eth[a] = Funding /\ pendingWithdrawals[a] = 0 /\ \A t \in Tokens : erc20[t][a] = Funding
    BY SMTT(60), <1>2 DEF Init
  <2> QED BY <1>2, <1>6, <1>7, <2>1 DEF EveryoneIsPaid
<1>11. SettledInWindow
  BY <1>2 DEF SettledInWindow
<1> QED BY <1>1, <1>9, <1>10, <1>11 DEF IInv

\* Steps that touch neither the orders nor any balance.
LEMMA QuietStep ==
    ASSUME IInv, UNCHANGED <<orders, pendingWithdrawals, eth, erc20>>,
           now' \in Nat, resolverRegistry' \in Registries \cup {NoRegistry},
           active' \in [Registries -> SUBSET Users]
    PROVE  IInv'
<1>1. TypeOK'
  BY SMTT(60) DEF IInv, TypeOK
<1>2. Solvency'
  BY SMTT(60) DEF IInv, Solvency, TotalLockedEth, TotalLockedToken
<1>3. EveryoneIsPaid'
  BY Zenon DEF IInv, EveryoneIsPaid
<1>4. SettledInWindow'
  BY DEF IInv, SettledInWindow
<1> QED BY SMTT(60), <1>1, <1>2, <1>3, <1>4 DEF IInv

LEMMA IInvStep == IInv /\ [Next]_vars => IInv'
<1> SUFFICES ASSUME IInv, [Next]_vars PROVE IInv'
  OBVIOUS
<1>0. TypeOK /\ Solvency /\ EveryoneIsPaid /\ SettledInWindow
  BY DEF IInv
<1>1. CASE Create
  <2>1. TypeOK' /\ Solvency' /\ EveryoneIsPaid'
    BY <1>0, <1>1, CreateKeepsBooks
  <2>2. PICK o \in OrderType : /\ orders' = Append(orders, o) /\ o.status = "Funded"
                               /\ o.preimageKeccak = NoDigest
    BY <1>0, <1>1, CreateKeepsBooks
  <2>3. /\ Len(orders') = Len(orders) + 1 /\ orders'[Len(orders) + 1] = o
        /\ Len(orders) \in Nat /\ \A i \in 1 .. Len(orders) : orders'[i] = orders[i]
    <3>1. orders \in Seq(OrderType)
      BY <1>0 DEF TypeOK
    <3> QED BY <2>2, <3>1
  <2>4. \A i \in 1 .. Len(orders') : i = Len(orders) + 1 \/ i \in 1 .. Len(orders)
    BY SMTT(60), <2>3
  <2>5. SettledInWindow'
    BY <1>0, <2>2, <2>3, <2>4 DEF SettledInWindow
  <2> QED BY <2>1, <2>5 DEF IInv
<1>2. CASE Claim
  <2>1. PICK caller \in Users, k \in 1 .. Len(orders), p \in Preimages : claimOrder(caller, k, p)
    BY SMTT(60), <1>2 DEF Claim
  <2>2. PICK o2 : /\ Settles(orders[k], o2, orders[k].beneficiary, caller)
                  /\ orders' = [orders EXCEPT ![k] = o2]
                  /\ o2.status = "Claimed" /\ o2.finalisedAt = now
                  /\ o2.preimageKeccak = Keccak256(p)
                  /\ \A f \in {"hashlock", "timelock", "createdAt", "beneficiary", "refundAddress"} :
                        o2[f] = orders[k][f]
    BY <1>0, <2>1, ClaimSettles
  <2>3. payoutBoth(orders[k], orders[k].beneficiary, caller) /\ UNCHANGED <<now, resolverRegistry, active>>
    BY SMTT(60), <2>1 DEF claimOrder
  <2>4. orders \in Seq(OrderType) /\ orders[k].beneficiary \in Accounts /\ o2 \in OrderType
    BY Zenon, <1>0, <2>2 DEF TypeOK, OrderType, Settles
  <2>5. TypeOK' /\ Solvency' /\ EveryoneIsPaid'
    BY Zenon, <1>0, <2>2, <2>3, <2>4, SettlementKeepsBooks
  <2>6. Len(orders') = Len(orders) /\ \A i \in 1 .. Len(orders) : orders'[i] = IF i = k THEN o2 ELSE orders[i]
    BY <2>2, <2>4, ReplaceOrder
  <2>7. /\ o2.finalisedAt < o2.timelock
        /\ \E q \in Preimages : o2.hashlock \in {Sha256(q), Keccak256(q)} /\ o2.preimageKeccak = Keccak256(q)
    BY <2>1, <2>2 DEF claimOrder
  <2>8. SettledInWindow'
    <3>1. orders'[k] = o2 /\ o2.status = "Claimed"
      BY SMTT(60), <2>2, <2>6
    <3>2. InWindow(orders'[k])
      BY <3>1, <2>7 DEF InWindow
    <3>3. \A i \in 1 .. Len(orders) : i # k => orders'[i] = orders[i]
      BY <2>6
    <3>4. \A i \in 1 .. Len(orders) : InWindow(orders[i])
      BY <1>0, Zenon DEF SettledInWindow, InWindow
    <3>5. \A i \in 1 .. Len(orders) : InWindow(orders'[i])
      BY <3>2, <3>3, <3>4, Zenon
    <3> QED BY <2>6, <3>5, Zenon DEF SettledInWindow, InWindow
  <2> QED BY <2>5, <2>8 DEF IInv
<1>3. CASE Refund
  <2>1. PICK caller \in Users, k \in 1 .. Len(orders) : refundOrder(caller, k)
    BY SMTT(60), <1>3 DEF Refund
  <2>2. PICK o2 : /\ Settles(orders[k], o2, orders[k].refundAddress, caller)
                  /\ orders' = [orders EXCEPT ![k] = o2]
                  /\ o2.status = "Refunded" /\ o2.finalisedAt = now
                  /\ \A f \in {"hashlock", "timelock", "createdAt", "beneficiary", "refundAddress"} :
                        o2[f] = orders[k][f]
    BY <1>0, <2>1, RefundSettles
  <2>3. payoutBoth(orders[k], orders[k].refundAddress, caller) /\ UNCHANGED <<now, resolverRegistry, active>>
    BY SMTT(60), <2>1 DEF refundOrder
  <2>4. orders \in Seq(OrderType) /\ orders[k].refundAddress \in Accounts /\ o2 \in OrderType
    BY Zenon, <1>0, <2>2 DEF TypeOK, OrderType, Settles
  <2>5. TypeOK' /\ Solvency' /\ EveryoneIsPaid'
    BY ZenonT(60), <1>0, <2>2, <2>3, <2>4, SettlementKeepsBooks
  <2>6. Len(orders') = Len(orders) /\ \A i \in 1 .. Len(orders) : orders'[i] = IF i = k THEN o2 ELSE orders[i]
    BY <2>2, <2>4, ReplaceOrder
  <2>7. o2.timelock < o2.finalisedAt
    <3>1. now > orders[k].timelock /\ now \in Nat
      BY SMTT(60), <1>0, <2>1 DEF refundOrder, TypeOK
    <3>2. orders[k].timelock \in Nat
      <4>1. orders[k] \in OrderType
        BY <2>4
      <4> QED BY <4>1 DEF OrderType
    <3> QED BY <2>2, <3>1, <3>2
  <2>8. SettledInWindow'
    <3>1. orders'[k] = o2 /\ o2.status = "Refunded"
      BY SMTT(60), <2>2, <2>6
    <3>2. InWindow(orders'[k])
      BY <3>1, <2>7 DEF InWindow
    <3>3. \A i \in 1 .. Len(orders) : i # k => orders'[i] = orders[i]
      BY <2>6
    <3>4. \A i \in 1 .. Len(orders) : InWindow(orders[i])
      BY <1>0, Zenon DEF SettledInWindow, InWindow
    <3>5. \A i \in 1 .. Len(orders) : InWindow(orders'[i])
      BY <3>2, <3>3, <3>4, Zenon
    <3> QED BY <2>6, <3>5, Zenon DEF SettledInWindow, InWindow
  <2> QED BY <2>5, <2>8 DEF IInv
<1>4. CASE Withdraw
  <2>1. TypeOK' /\ Solvency' /\ EveryoneIsPaid' /\ orders' = orders
    BY <1>0, <1>4, WithdrawKeepsBooks
  <2> QED BY <1>0, <2>1 DEF IInv, SettledInWindow
<1>5. CASE Administer
  <2>1. /\ UNCHANGED <<orders, pendingWithdrawals, eth, erc20, now>>
        /\ resolverRegistry' \in Registries \cup {NoRegistry} /\ active' \in [Registries -> SUBSET Users]
    BY Zenon, <1>0, <1>5 DEF Administer, setResolverRegistry, RegistryStep, TypeOK
  <2>2. now' \in Nat
    BY <1>0, <2>1 DEF TypeOK
  <2> QED BY SMTT(60), <2>1, <2>2, QuietStep
<1>6. CASE Tick
  BY <1>0, <1>6, QuietStep DEF Tick, TypeOK
<1>7. CASE UNCHANGED vars
  BY <1>0, <1>7, QuietStep DEF vars, TypeOK
<1> QED BY <1>1, <1>2, <1>3, <1>4, <1>5, <1>6, <1>7 DEF Next

\* Every behaviour of the escrow satisfies the inductive invariant.
THEOREM EscrowInvariant == Spec => []IInv
BY IInvInit, IInvStep, PTL DEF Spec

\* HTLCEscrow: the escrow's ETH is exactly what funded orders lock plus what
\* failed pushes credited, and it holds every token its funded orders lock.
THEOREM EscrowSolvent == Spec => []Solvency
<1>1. IInv => Solvency
  BY DEF IInv
<1> QED BY <1>1, EscrowInvariant, PTL

\* HTLCEscrow: every user has, in hand or as a credit, exactly what the
\* statuses of the orders say is theirs.
THEOREM EscrowPaysEveryone == Spec => []EveryoneIsPaid
<1>1. IInv => EveryoneIsPaid
  BY DEF IInv
<1> QED BY <1>1, EscrowInvariant, PTL

\* HTLCEscrow: claims happen before the timelock with a preimage of the
\* hashlock, refunds after it.
THEOREM EscrowSettlesInWindow == Spec => []SettledInWindow
<1>1. IInv => SettledInWindow
  BY DEF IInv
<1> QED BY <1>1, EscrowInvariant, PTL

\* HTLCEscrow: storage and balances keep their types.
THEOREM EscrowTypes == Spec => []TypeOK
<1>1. IInv => TypeOK
  BY DEF IInv
<1> QED BY <1>1, EscrowInvariant, PTL

\* HTLCEscrow: no step changes a finalised order or the terms of any order.
THEOREM EscrowFinality == Spec => Finality
<1>1. TypeOK /\ [Next]_vars => [KeepsOrders]_vars
  <2> SUFFICES ASSUME TypeOK, Next PROVE KeepsOrders
    BY DEF vars, KeepsOrders
  <2>0. orders \in Seq(OrderType) /\ Len(orders) \in Nat
    BY DEF TypeOK
  <2>1. CASE orders' = orders
    BY <2>0, <2>1 DEF KeepsOrders
  <2>2. CASE Create
    <3>1. PICK o : orders' = Append(orders, o)
      <4>1. PICK sender \in Users, beneficiary, refundAddress \in Accounts, token \in Tokens \cup {Native},
                 amount \in Amounts, safetyDeposit \in Deposits, hashlock \in Hashlocks,
                 timelockSeconds \in 0 .. MAX_TIMELOCK + 1 :
             createOrder(sender, beneficiary, refundAddress, token, amount, safetyDeposit, hashlock, timelockSeconds)
        BY Zenon, <2>2 DEF Create
      <4> QED BY Zenon, <4>1 DEF createOrder
    <3> QED BY <2>0, <3>1, SMTT(30) DEF KeepsOrders
  <2>3. ASSUME NEW k \in 1 .. Len(orders), NEW o2, NEW recipient, NEW caller,
               Settles(orders[k], o2, recipient, caller), orders' = [orders EXCEPT ![k] = o2],
               \A f \in {"hashlock", "timelock", "createdAt", "beneficiary", "refundAddress"} :
                     o2[f] = orders[k][f]
        PROVE  KeepsOrders
    <3>1. Len(orders') = Len(orders) /\ \A i \in 1 .. Len(orders) : orders'[i] = IF i = k THEN o2 ELSE orders[i]
      BY <2>0, <2>3, ReplaceOrder DEF Settles
    <3>2. \A f \in Terms : o2[f] = orders[k][f]
      BY <2>3 DEF Settles, Terms
    <3>3. orders[k].status = "Funded"
      BY <2>3 DEF Settles
    <3> QED BY <2>0, <3>1, <3>2, <3>3 DEF KeepsOrders
  <2>4. CASE Claim
    <3>1. PICK caller \in Users, k \in 1 .. Len(orders), p \in Preimages : claimOrder(caller, k, p)
      BY <2>4 DEF Claim
    <3> QED BY <2>3, <3>1, ClaimSettles
  <2>5. CASE Refund
    <3>1. PICK caller \in Users, k \in 1 .. Len(orders) : refundOrder(caller, k)
      BY <2>5 DEF Refund
    <3> QED BY ZenonT(60), <2>3, <3>1, RefundSettles
  <2>6. Withdraw \/ Administer \/ Tick => orders' = orders
    BY DEF Withdraw, withdraw, Administer, setResolverRegistry, RegistryStep, Tick
  <2> QED BY SMTT(60), <2>1, <2>2, <2>4, <2>5, <2>6 DEF Next
<1> QED BY <1>1, EscrowTypes, PTL DEF Spec, Finality

\* HTLCEscrow implements HashTimeLock: seen as hashlocks, deadlines and
\* statuses, its order book only ever funds, claims in time and refunds late.
THEOREM EscrowIsHashTimeLock == Spec => IsHashTimeLock
<1>1. Init => HTL!Init
  BY DEF Init, HTL!Init, BookOf
<1>2. TypeOK /\ [Next]_vars => [HTL!Next]_<<now, BookOf(orders)>>
  <2> SUFFICES ASSUME TypeOK, [Next]_vars
               PROVE  HTL!Next \/ (now' = now /\ BookOf(orders)' = BookOf(orders))
    OBVIOUS
  <2> USE EscrowAssumption
  <2> DEFINE Entry(o) == [hashlock |-> o.hashlock, timelock |-> o.timelock, status |-> o.status]
  <2>0. orders \in Seq(OrderType) /\ Len(orders) \in Nat /\ now \in Nat
    BY SMTT(60) DEF TypeOK
  <2>1. CASE orders' = orders /\ now' = now
    BY <2>1 DEF BookOf
  <2>2. CASE Create
    <3>0. \E d \in MIN_TIMELOCK .. MAX_TIMELOCK : \E o :
             /\ orders' = Append(orders, o) /\ now' = now
             /\ o.hashlock \in Hashlocks /\ o.timelock = now + d /\ o.status = "Funded"
      <4>1. PICK sender \in Users, beneficiary, refundAddress \in Accounts, token \in Tokens \cup {Native},
                 amount \in Amounts, safetyDeposit \in Deposits, hashlock \in Hashlocks,
                 timelockSeconds \in 0 .. MAX_TIMELOCK + 1 :
             createOrder(sender, beneficiary, refundAddress, token, amount, safetyDeposit, hashlock, timelockSeconds)
        BY Zenon, <2>2 DEF Create
      <4>2. timelockSeconds \in MIN_TIMELOCK .. MAX_TIMELOCK
        BY SMTT(60), <4>1 DEF createOrder
      <4> QED BY SMTT(60), <4>1, <4>2 DEF createOrder
    <3>a. PICK d \in MIN_TIMELOCK .. MAX_TIMELOCK : \E o :
             /\ orders' = Append(orders, o) /\ now' = now
             /\ o.hashlock \in Hashlocks /\ o.timelock = now + d /\ o.status = "Funded"
      BY <3>0
    <3>1. PICK o : /\ orders' = Append(orders, o) /\ now' = now
                   /\ o.hashlock \in Hashlocks /\ o.timelock = now + d /\ o.status = "Funded"
      BY SMTT(60), <3>a
    <3>2. BookOf(orders') = Append(BookOf(orders), Entry(o))
      BY SMTT(60), <2>0, <3>1 DEF BookOf
    <3>3. Entry(o) = [hashlock |-> o.hashlock, timelock |-> now + d, status |-> "Funded"]
      BY SMTT(60), <3>1
    <3>4. HTL!Fund
      BY <3>1, <3>2, <3>3 DEF HTL!Fund
    <3> QED BY SMTT(60), <3>4 DEF HTL!Next
  <2>3. ASSUME NEW k \in 1 .. Len(orders), NEW o2, orders[k].status = "Funded",
               orders' = [orders EXCEPT ![k] = o2],
               o2.hashlock = orders[k].hashlock, o2.timelock = orders[k].timelock
        PROVE  BookOf(orders') = [BookOf(orders) EXCEPT ![k].status = o2.status]
    <3>1. Len(orders') = Len(orders) /\ \A i \in 1 .. Len(orders) : orders'[i] = IF i = k THEN o2 ELSE orders[i]
      BY SMTT(60), <2>0, <2>3
    <3>2. BookOf(orders') = [i \in 1 .. Len(orders) |-> IF i = k THEN Entry(o2) ELSE Entry(orders[i])]
      BY <3>1 DEF BookOf
    <3>3. [Entry(orders[k]) EXCEPT !.status = o2.status] = Entry(o2)
      BY SMTT(60), <2>3
    <3>4. BookOf(orders) = [i \in 1 .. Len(orders) |-> Entry(orders[i])]
      BY DEF BookOf
    <3> HIDE DEF Entry
    <3>5. [BookOf(orders) EXCEPT ![k].status = o2.status]
            = [i \in 1 .. Len(orders) |-> IF i = k THEN Entry(o2) ELSE Entry(orders[i])]
      BY Zenon, <2>3, <3>3, <3>4
    <3> QED BY SMTT(60), <3>2, <3>5
  <2>4. \A k \in 1 .. Len(orders) :
           /\ Len(BookOf(orders)) = Len(orders) /\ BookOf(orders)[k] = Entry(orders[k])
    BY <2>0 DEF BookOf
  <2>5. CASE Claim
    <3>1. PICK caller \in Users, k \in 1 .. Len(orders), p \in Preimages : claimOrder(caller, k, p)
      BY <2>5 DEF Claim
    <3>2. PICK o2 : /\ orders' = [orders EXCEPT ![k] = o2] /\ o2.status = "Claimed"
                    /\ o2.hashlock = orders[k].hashlock /\ o2.timelock = orders[k].timelock
      <4>1. orders[k] \in OrderType
        BY <2>0, <3>1
      <4> DEFINE o3 == [orders[k] EXCEPT !.status = "Claimed", !.finalisedAt = now,
                     !.preimageKeccak = Keccak256(p), !.caller = caller]
      <4>2. orders' = [orders EXCEPT ![k] = o3]
        BY <3>1 DEF claimOrder
      <4>3. o3.status = "Claimed" /\ o3.hashlock = orders[k].hashlock /\ o3.timelock = orders[k].timelock
        BY <4>1 DEF OrderType
      <4> QED BY Zenon, <4>2, <4>3
    <3>3. orders[k].status = "Funded" /\ now < orders[k].timelock /\ Opens(p, orders[k].hashlock) /\ now' = now
      BY <3>1 DEF claimOrder, Opens
    <3>4. BookOf(orders)' = [BookOf(orders) EXCEPT ![k].status = "Claimed"]
      BY ZenonT(60), <2>3, <3>1, <3>2, <3>3
    <3>5. orders[k].timelock \in Nat
      <4>1. orders[k] \in OrderType
        BY <2>0, <3>1
      <4> QED BY <4>1 DEF OrderType
    <3>a. /\ BookOf(orders)[k].status = "Funded" /\ BookOf(orders)[k].timelock = orders[k].timelock
          /\ BookOf(orders)[k].hashlock = orders[k].hashlock
      <4>1. k \in 1 .. Len(orders) /\ orders[k].status = "Funded"
        BY SMTT(60), <3>1, <3>3
      <4> HIDE DEF Entry
      <4>2. BookOf(orders)[k] = Entry(orders[k])
        BY SMTT(60), <2>4, <4>1
      <4> QED BY <4>1, <4>2 DEF Entry
    <3>b. \E q \in Preimages : Opens(q, BookOf(orders)[k].hashlock)
      BY <3>1, <3>3, <3>a
    <3>6. HTL!Claim(k)
      BY SMTT(60), <2>0, <3>3, <3>4, <3>5, <3>a, <3>b DEF HTL!Claim
    <3> QED BY Zenon, <2>4, <3>1, <3>6 DEF HTL!Next
  <2>6. CASE Refund
    <3>1. PICK caller \in Users, k \in 1 .. Len(orders) : refundOrder(caller, k)
      BY <2>6 DEF Refund
    <3>2. PICK o2 : /\ orders' = [orders EXCEPT ![k] = o2] /\ o2.status = "Refunded"
                    /\ o2.hashlock = orders[k].hashlock /\ o2.timelock = orders[k].timelock
      <4>1. orders[k] \in OrderType
        BY <2>0, <3>1
      <4> DEFINE o3 == [orders[k] EXCEPT !.status = "Refunded", !.finalisedAt = now, !.caller = caller]
      <4>2. orders' = [orders EXCEPT ![k] = o3]
        BY <3>1 DEF refundOrder
      <4>3. o3.status = "Refunded" /\ o3.hashlock = orders[k].hashlock /\ o3.timelock = orders[k].timelock
        BY <4>1 DEF OrderType
      <4> QED BY Zenon, <4>2, <4>3
    <3>3. orders[k].status = "Funded" /\ now > orders[k].timelock /\ now' = now
      BY <3>1 DEF refundOrder
    <3>4. BookOf(orders)' = [BookOf(orders) EXCEPT ![k].status = "Refunded"]
      BY Zenon, <2>3, <3>1, <3>2, <3>3
    <3>a. BookOf(orders)[k].status = "Funded" /\ BookOf(orders)[k].timelock = orders[k].timelock
      <4>1. k \in 1 .. Len(orders) /\ orders[k].status = "Funded"
        BY <3>1, <3>3
      <4> HIDE DEF Entry
      <4>2. BookOf(orders)[k] = Entry(orders[k])
        BY <2>4, <4>1
      <4> QED BY <4>1, <4>2 DEF Entry
    <3>6. HTL!Refund(k)
      BY <3>3, <3>4, <3>a DEF HTL!Refund
    <3> QED BY Zenon, <2>4, <3>1, <3>6 DEF HTL!Next
  <2>7. CASE Tick
    <3>1. HTL!Advance
      BY SMTT(60), <2>0, <2>7 DEF HTL!Advance, Tick, BookOf
    <3> QED BY SMTT(60), <3>1 DEF HTL!Next
  <2>8. Withdraw \/ Administer \/ UNCHANGED vars => orders' = orders /\ now' = now
    BY DEF Withdraw, withdraw, Administer, setResolverRegistry, RegistryStep, vars
  <2> QED BY <2>1, <2>2, <2>5, <2>6, <2>7, <2>8 DEF Next
<1> QED BY <1>1, <1>2, EscrowTypes, PTL DEF Spec, IsHashTimeLock, HTL!Spec
=============================================================================
