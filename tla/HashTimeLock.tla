---------------------------- MODULE HashTimeLock ----------------------------
(***************************************************************************)
(* What every chain's escrow promises of its order book, whatever its      *)
(* assets, deposits, registries and administrators do: an order is funded  *)
(* with a hashlock and a deadline, and leaves that state once, claimed     *)
(* with an opening secret no later than the deadline or refunded after it. *)
(* HTLCEscrow and SorobanHTLC implement this specification.                *)
(***************************************************************************)
EXTENDS Integers, Sequences

CONSTANTS
    Hashlocks, Secrets,
    Opens(_, _),        \* Opens(p, h): secret p opens hashlock h
    Durations           \* how long an order may be locked for

VARIABLES
    clock,              \* the chain's time
    book                \* the orders, in order of creation

Init ==
    /\ clock \in Nat
    /\ book = <<>>

Fund ==
    /\ \E h \in Hashlocks, d \in Durations :
         book' = Append(book, [hashlock |-> h, timelock |-> clock + d, status |-> "Funded"])
    /\ clock' = clock

Claim(i) ==
    /\ book[i].status = "Funded"
    /\ clock <= book[i].timelock
    /\ \E p \in Secrets : Opens(p, book[i].hashlock)
    /\ book' = [book EXCEPT ![i].status = "Claimed"]
    /\ clock' = clock

Refund(i) ==
    /\ book[i].status = "Funded"
    /\ clock > book[i].timelock
    /\ book' = [book EXCEPT ![i].status = "Refunded"]
    /\ clock' = clock

Advance ==
    /\ clock' > clock
    /\ book' = book

Next == Fund \/ (\E i \in 1 .. Len(book) : Claim(i) \/ Refund(i)) \/ Advance

Spec == Init /\ [][Next]_<<clock, book>>
=============================================================================
