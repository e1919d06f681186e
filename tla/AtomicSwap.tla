----------------------------- MODULE AtomicSwap -----------------------------
(***************************************************************************)
(* One swap over the two escrows, HTLCEscrow on Ethereum and SorobanHTLC   *)
(* on Stellar, in either direction.  The user locks the source leg for the *)
(* resolver, the resolver locks the destination leg for the user under the *)
(* same sha256 hashlock, and the user's claim of the destination reveals   *)
(* the secret that opens the source.  The contracts are the modules of     *)
(* their own; what this module adds is who calls them and when:            *)
(*   - the SDK passes any timelock on to either contract;                  *)
(*   - the secret is public from the moment the user broadcasts the claim, *)
(*     before the claim executes;                                          *)
(*   - a claim that stays possible executes within Latency of its          *)
(*     broadcast, and the resolver claims within ReactionTime of it;       *)
(*   - the two chains' clocks are at most MaxSkew apart;                   *)
(*   - a keeper that is neither party calls refunds.                       *)
(***************************************************************************)
EXTENDS Integers, Sequences

CONSTANTS
    Secret,
    MIN_TIMELOCK, MAX_TIMELOCK,
    Timelocks,          \* the timelocks the SDK is asked for
    Latency, ReactionTime, MaxSkew,
    Modes,              \* the modes the Soroban admin may enter
    LastLock, MaxTime   \* bounds: when a leg may still be locked, and the end

ASSUME SwapAssumption ==
    /\ {MIN_TIMELOCK, MAX_TIMELOCK, Latency, ReactionTime, MaxSkew, LastLock, MaxTime} \subseteq Nat
    /\ LastLock + MAX_TIMELOCK < MaxTime

User == 1
Resolver == 2
Keeper == 3
Escrow == 4

VARIABLES
    direction,
    revealedAt,         \* the two clocks when the secret became public, or Hidden
    interrupted,        \* history: the Soroban contract has left Live
    eNow, eRegistry, eActive, eOrders, ePending, eEth, eErc20,
    sNow, sMode, sMinDeposit, sRegistry, sActive, sOrders, sBalance

evmVars == <<eNow, eRegistry, eActive, eOrders, ePending, eEth, eErc20>>
sorobanVars == <<sNow, sMode, sMinDeposit, sRegistry, sActive, sOrders, sBalance>>
vars == <<direction, revealedAt, interrupted, evmVars, sorobanVars>>

EVM == INSTANCE HTLCEscrow WITH
    N <- 4, This <- Escrow, Contracts <- {Resolver}, Tokens <- {}, Registries <- {}, Preimages <- {Secret},
    minSafetyDeposit <- 0, Funding <- 1, Amounts <- {1}, Deposits <- {0}, MaxOrders <- 1,
    now <- eNow, resolverRegistry <- eRegistry, active <- eActive, orders <- eOrders,
    pendingWithdrawals <- ePending, eth <- eEth, erc20 <- eErc20

Soroban == INSTANCE SorobanHTLC WITH
    N <- 4, This <- Escrow, Assets <- {"XLM"}, Registries <- {}, Preimages <- {Secret},
    MIN_TIMELOCK_SECONDS <- MIN_TIMELOCK, MAX_TIMELOCK_SECONDS <- MAX_TIMELOCK,
    Funding <- 1, Amounts <- {1}, Deposits <- {0}, MinDeposits <- {0}, MaxOrders <- 1,
    now <- sNow, contract_mode <- sMode, min_safety_deposit <- sMinDeposit,
    resolver_registry <- sRegistry, active <- sActive, orders <- sOrders, balance <- sBalance

Hidden == [evm |-> -1, soroban |-> -1]

Init ==
    /\ direction \in {"eth_to_xlm", "xlm_to_eth"}
    /\ revealedAt = Hidden
    /\ interrupted = FALSE
    /\ EVM!Init
    /\ Soroban!Init

EvmFunded == eOrders # <<>> /\ eOrders[1].status = "Funded"
SorobanFunded == sOrders # <<>> /\ sOrders[1].status = "Funded"

\* HTLCEscrowClient.createOrder: the timelock is the caller's.
LockEvm ==
    LET sender == IF direction = "eth_to_xlm" THEN User ELSE Resolver
        beneficiary == IF direction = "eth_to_xlm" THEN Resolver ELSE User
    IN
    /\ eNow <= LastLock
    /\ direction = "xlm_to_eth" => SorobanFunded
    /\ \E seconds \in Timelocks :
         EVM!createOrder(sender, beneficiary, sender, EVM!Native, 1, 0, EVM!Sha256(Secret), seconds)
    /\ UNCHANGED <<direction, revealedAt, interrupted, sorobanVars>>

\* SorobanHTLCClient.createOrder: likewise.
LockSoroban ==
    LET sender == IF direction = "xlm_to_eth" THEN User ELSE Resolver
        beneficiary == IF direction = "xlm_to_eth" THEN Resolver ELSE User
    IN
    /\ sNow <= LastLock
    /\ direction = "eth_to_xlm" => EvmFunded
    /\ \E seconds \in Timelocks :
         Soroban!create_order(sender, beneficiary, sender, "XLM", 1, 0, Soroban!Sha256(Secret), seconds)
    /\ UNCHANGED <<direction, revealedAt, interrupted, evmVars>>

EvmClaim == /\ EvmFunded
            /\ EVM!claimOrder(eOrders[1].beneficiary, 1, Secret)
            /\ UNCHANGED <<direction, revealedAt, interrupted, sorobanVars>>
SorobanClaim == /\ SorobanFunded
                /\ Soroban!claim_order(1, Secret, sOrders[1].beneficiary)
                /\ UNCHANGED <<direction, revealedAt, interrupted, evmVars>>

\* The user sends the claim of the destination leg, early enough for it to
\* execute, and so makes the secret public.
Broadcast ==
    /\ revealedAt = Hidden
    /\ IF direction = "eth_to_xlm"
       THEN ENABLED SorobanClaim /\ EvmFunded /\ sNow + Latency <= sOrders[1].timelock
       ELSE ENABLED EvmClaim /\ SorobanFunded /\ eNow + Latency < eOrders[1].timelock
    /\ revealedAt' = [evm |-> eNow, soroban |-> sNow]
    /\ UNCHANGED <<direction, interrupted, evmVars, sorobanVars>>

\* With a public secret each leg's beneficiary can claim it.
Claim == revealedAt # Hidden /\ (EvmClaim \/ SorobanClaim)

EvmRefund(caller) ==
    /\ EvmFunded
    /\ EVM!refundOrder(caller, 1)
    /\ UNCHANGED <<direction, revealedAt, interrupted, sorobanVars>>
SorobanRefund(caller) ==
    /\ SorobanFunded
    /\ Soroban!refund_order(1, caller)
    /\ UNCHANGED <<direction, revealedAt, interrupted, evmVars>>
Refund == \E caller \in {User, Keeper} : EvmRefund(caller) \/ SorobanRefund(caller)

\* A claim that can execute does so within the party's delay.
EvmUrgent ==
    /\ revealedAt # Hidden
    /\ eNow >= revealedAt.evm + (IF direction = "eth_to_xlm" THEN ReactionTime ELSE Latency)
    /\ ENABLED EvmClaim
SorobanUrgent ==
    /\ revealedAt # Hidden
    /\ sNow >= revealedAt.soroban + (IF direction = "xlm_to_eth" THEN ReactionTime ELSE Latency)
    /\ ENABLED SorobanClaim

EvmTick ==
    /\ eNow < sNow + MaxSkew /\ ~EvmUrgent
    /\ EVM!Tick
    /\ UNCHANGED <<direction, revealedAt, interrupted, sorobanVars>>
SorobanTick ==
    /\ sNow < eNow + MaxSkew /\ ~SorobanUrgent
    /\ Soroban!Tick
    /\ UNCHANGED <<direction, revealedAt, interrupted, evmVars>>

SetMode ==
    /\ \E m \in Modes \cup {"Live"} : Soroban!set_mode(m)
    /\ interrupted' = TRUE
    /\ UNCHANGED <<direction, revealedAt, evmVars>>

Next == LockEvm \/ LockSoroban \/ Broadcast \/ Claim \/ Refund \/ EvmTick \/ SorobanTick \/ SetMode

\* Time passes however often the admin changes the mode (hence strong fairness),
\* and the keeper refunds what can be refunded; neither party need ever act.
Fairness == SF_vars(EvmTick) /\ SF_vars(SorobanTick) /\ WF_vars(Claim)
              /\ WF_vars(EvmRefund(Keeper)) /\ WF_vars(SorobanRefund(Keeper))

Spec == Init /\ [][Next]_vars /\ Fairness

-----------------------------------------------------------------------------
Src == IF direction = "eth_to_xlm" THEN eOrders ELSE sOrders
Dst == IF direction = "eth_to_xlm" THEN sOrders ELSE eOrders
BothLocked == eOrders # <<>> /\ sOrders # <<>>

\* The source outlasts the destination by what a claim takes to follow.
Asymmetric == BothLocked => Dst[1].timelock + MaxSkew + ReactionTime < Src[1].timelock

\* Whoever is owed on Ethereum is never left empty-handed: once the Soroban leg
\* was claimed the Ethereum leg is not refunded, in either direction, whatever
\* modes the Soroban contract goes through, if the timelocks are asymmetric.
EvmClaimantSafe ==
    Asymmetric /\ BothLocked => ~(sOrders[1].status = "Claimed" /\ eOrders[1].status = "Refunded")

\* Likewise for whoever is owed on Stellar, as long as the Soroban contract stays
\* Live: once the Ethereum leg was claimed the Soroban leg is not refunded.  (An
\* interruption stops claims while the timelock keeps running, so that the
\* refund may come first.)
SorobanClaimantSafe ==
    Asymmetric /\ BothLocked /\ ~interrupted =>
      ~(eOrders[1].status = "Claimed" /\ sOrders[1].status = "Refunded")

\* A locked leg is settled in the end though user, resolver and every service
\* are gone, since refundOrder and refund_order are open to anyone; only a
\* paused Soroban contract holds its leg back.
LegsEnd ==
    /\ EvmFunded ~> ~EvmFunded
    /\ SorobanFunded ~> (~SorobanFunded \/ sMode = "Paused")
=============================================================================
