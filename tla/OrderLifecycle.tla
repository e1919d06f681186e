--------------------------- MODULE OrderLifecycle ---------------------------
(***************************************************************************)
(* The coordinator's record of one order: OrderService's checks, and the   *)
(* OrdersRepository writes behind them, as calls of HTTP routes,           *)
(* listeners, the reconciler and the maintenance scans interleave.         *)
(*                                                                         *)
(* A call reads the row and checks it in the service, awaits, and then     *)
(* writes in a repository transaction: it reads the row again, updates it, *)
(* and appends a row to order_events.  What a transaction is depends on    *)
(* the database:                                                           *)
(*   - "sqlite": one connection.  BEGIN IMMEDIATE throws while another     *)
(*     call's transaction is open, a failure rolls back row and event, and *)
(*     a service read sees an open transaction's writes;                   *)
(*   - "postgres": atomic() opens a transaction on a pooled client, but    *)
(*     its statements stay bound to the pool, so each commits by itself.   *)
(***************************************************************************)
EXTENDS Naturals, Sequences

CONSTANTS
    Engine,             \* "sqlite" or "postgres"
    Calls,              \* the calls that may be in flight at once
    Locks,              \* on-chain locks: an (orderId, txHash) pair each
    Secrets,
    None,               \* NULL
    MaxTrail            \* bound: transitions of the order's history

ASSUME EngineAssumption == Engine \in {"sqlite", "postgres"}
ASSUME NoneAssumption == None \notin Locks \cup Secrets

VARIABLES
    row,                \* the order's row, as the connection sees it
    trail,              \* order_events: the transitions recorded, oldest first
    calls,              \* what every call in flight is about to do
    saved               \* what ROLLBACK of the open transaction restores

vars == <<row, trail, calls, saved>>

ORDER_STATUS_TRANSITIONS ==
    [announced       |-> {"src_locked", "cancelled", "abandoned", "failed", "expired"},
     src_locked      |-> {"dst_locked", "secret_revealed", "refunded", "failed", "expired"},
     dst_locked      |-> {"secret_revealed", "refunded", "failed", "expired"},
     secret_revealed |-> {"completed", "refunded", "failed"},
     expired         |-> {"refunded", "failed"},
     completed |-> {}, refunded |-> {}, failed |-> {}, cancelled |-> {}, abandoned |-> {}]

Status == DOMAIN ORDER_STATUS_TRANSITIONS
canTransition(from, to) == to \in ORDER_STATUS_TRANSITIONS[from]
isTerminal(status) == ORDER_STATUS_TRANSITIONS[status] = {}

Announced == [status |-> "announced", src |-> None, dst |-> None, preimage |-> None]

Idle == [pc |-> "idle", op |-> "none", arg |-> None, seen |-> Announced, to |-> "announced"]

Init ==
    /\ row = Announced
    /\ trail = <<>>
    /\ calls = [c \in Calls |-> Idle]
    /\ saved = [row |-> Announced, trail |-> <<>>]

-----------------------------------------------------------------------------
(* The service: a call whose checks fail, or that finds its work done,     *)
(* throws or returns and changes nothing.                                  *)

Enter(c, op, arg, pc) ==
    /\ calls[c].pc = "idle"
    /\ calls' = [calls EXCEPT ![c] = [Idle EXCEPT !.pc = pc, !.op = op, !.arg = arg]]
    /\ UNCHANGED <<row, trail, saved>>

\* A lock already recorded is a duplicate or a conflict.
recordSrcLock(c, lock) ==
    /\ row.src = None
    /\ ~isTerminal(row.status)
    /\ canTransition(row.status, "src_locked") \/ row.status = "src_locked"
    /\ Enter(c, "src_lock", lock, "checked")

recordDstLock(c, lock) ==
    /\ row.dst = None
    /\ ~isTerminal(row.status)
    /\ canTransition(row.status, "dst_locked") \/ row.status = "dst_locked"
    /\ Enter(c, "dst_lock", lock, "checked")

recordSecret(c, preimage) ==
    /\ row.preimage = None
    /\ ~isTerminal(row.status)
    /\ canTransition(row.status, "secret_revealed") \/ row.status = "secret_revealed"
    /\ Enter(c, "secret", preimage, "checked")

mayMark(status) ==
    /\ row.status # status
    /\ ~isTerminal(row.status)
    /\ canTransition(row.status, status)

\* markStatus as the listeners and the reconciler call it, for a refund.
markRefunded(c) == mayMark("refunded") /\ Enter(c, "refunded", None, "checked")

\* expireStaleOrders: the scan picks its candidates, some of them past their
\* timelock, and markStatus then reads each one again.
expireStaleOrders(c) ==
    /\ row.status \in {"src_locked", "dst_locked"}
    /\ Enter(c, "expired", None, "candidate")

markExpired(c) ==
    /\ calls[c].pc = "candidate"
    /\ calls' = [calls EXCEPT ![c] = IF mayMark("expired") THEN [@ EXCEPT !.pc = "checked"] ELSE Idle]
    /\ UNCHANGED <<row, trail, saved>>

\* rollbackSrcLock and rollbackDstLock check nothing before the repository does.
rollbackLock(c) == \E op \in {"rollback_src", "rollback_dst"} : Enter(c, op, None, "checked")

cancelOrder(c) == Enter(c, "cancelled", None, "checked")

\* StaleCleanupService.run: findStaleAnnounced, then abandonOrder.
cleanUpStale(c) ==
    /\ row.status = "announced" /\ row.src = None
    /\ Enter(c, "abandoned", None, "checked")

-----------------------------------------------------------------------------
(* The repository.                                                         *)

InTransaction(c) == calls[c].pc \in {"open", "written"}
TransactionOpen == \E c \in Calls : InTransaction(c)

\* runInTransaction up to the first read of the callback.  On SQLite the BEGIN
\* of a second transaction throws out of the call; that error is not retried.
begin(c) ==
    /\ calls[c].pc = "checked"
    /\ calls' = [calls EXCEPT ![c] =
                   IF Engine = "sqlite" /\ TransactionOpen THEN Idle
                   ELSE [@ EXCEPT !.pc = "open", !.seen = row]]
    /\ saved' = IF Engine = "sqlite" /\ TransactionOpen THEN saved ELSE [row |-> row, trail |-> trail]
    /\ UNCHANGED <<row, trail>>

nextLockStatus(current, next) == IF canTransition(current, next) THEN next ELSE current

\* Mutant: rollbackSrc without its AND status = 'src_locked'.
writesRollbackUnguarded(call) ==
    CASE call.op \in {"refunded", "expired"} -> call.seen.status # call.op
      [] call.op \in {"src_lock", "dst_lock"} -> ~isTerminal(call.seen.status)
      [] call.op = "secret" -> ~isTerminal(call.seen.status) /\ call.seen.preimage # call.arg
      [] call.op \in {"rollback_src", "rollback_dst"} -> TRUE
      [] OTHER -> canTransition(call.seen.status, call.op)

\* Mutant: a late secret is not checked against a terminal status.
writesPastTerminal(call) ==
    CASE call.op \in {"refunded", "expired"} -> call.seen.status # call.op
      [] call.op \in {"src_lock", "dst_lock"} -> ~isTerminal(call.seen.status)
      [] call.op = "secret" -> call.seen.preimage # call.arg
      [] call.op = "rollback_src" -> row.status = "src_locked"
      [] call.op = "rollback_dst" -> row.status = "dst_locked"
      [] OTHER -> canTransition(call.seen.status, call.op)

\* Whether a call's UPDATE changes the row, by what the call read in its
\* transaction; the rollbacks' SQL looks at the row's status itself.  setStatus
\* only asks whether the order has the new status already.
writes(call) ==
    CASE call.op \in {"refunded", "expired"} -> call.seen.status # call.op
      [] call.op \in {"src_lock", "dst_lock"} -> ~isTerminal(call.seen.status)
      [] call.op = "secret" -> ~isTerminal(call.seen.status) /\ call.seen.preimage # call.arg
      [] call.op = "rollback_src" -> row.status = "src_locked"
      [] call.op = "rollback_dst" -> row.status = "dst_locked"
      [] OTHER -> canTransition(call.seen.status, call.op)

\* Mutant: a rollback leaves a status the state machine does not have.
updatedToPending(call) ==
    CASE call.op \in {"rollback_src", "rollback_dst"} -> [row EXCEPT !.status = "pending"]
      [] call.op = "src_lock" -> [row EXCEPT !.src = call.arg, !.status = "src_locked"]
      [] OTHER -> row

\* The row with the columns that the UPDATE sets.
updated(call) ==
    CASE call.op = "src_lock" ->
           [row EXCEPT !.src = call.arg, !.status = nextLockStatus(call.seen.status, "src_locked")]
      [] call.op = "dst_lock" ->
           [row EXCEPT !.dst = call.arg, !.status = nextLockStatus(call.seen.status, "dst_locked")]
      [] call.op = "secret" -> [row EXCEPT !.preimage = call.arg, !.status = "secret_revealed"]
      [] call.op = "rollback_src" -> [row EXCEPT !.src = None, !.status = "announced"]
      [] call.op = "rollback_dst" -> [row EXCEPT !.dst = None, !.status = "src_locked"]
      [] OTHER -> [row EXCEPT !.status = call.op]

write(c) ==
    LET call == calls[c]
        new == IF writes(call) THEN updated(call) ELSE row
    IN
    /\ call.pc = "open"
    /\ row' = new
    /\ calls' = [calls EXCEPT ![c] =
                   [@ EXCEPT !.pc = "written", !.to = IF writes(call) THEN new.status ELSE call.seen.status]]
    /\ UNCHANGED <<trail, saved>>

\* appendTransitionEvent, and COMMIT.  Event rows that tell of no change of
\* status are left out of the trail.
finish(c) ==
    LET call == calls[c] IN
    /\ call.pc = "written"
    /\ trail' = IF call.to = call.seen.status THEN trail
                ELSE Append(trail, [from |-> call.seen.status, to |-> call.to])
    /\ calls' = [calls EXCEPT ![c] = Idle]
    /\ UNCHANGED <<row, saved>>

\* Mutant: a failed transaction is not rolled back.
rollBackNothing == UNCHANGED <<row, trail>>

\* ROLLBACK on SQLite; on Postgres it undoes nothing.
rollBack ==
    IF Engine = "sqlite" /\ TransactionOpen
    THEN row' = saved.row /\ trail' = saved.trail
    ELSE UNCHANGED <<row, trail>>

\* runWithRetry after an error it retries (a busy database, a deadlock): the
\* transaction again, without the service's check.  The model does not count the
\* three attempts.
Retried(call) == [Idle EXCEPT !.pc = "checked", !.op = call.op, !.arg = call.arg]

\* A statement fails, and the transaction with it: the call throws or tries again.
fail(c) ==
    /\ InTransaction(c)
    /\ rollBack
    /\ \E next \in {Idle, Retried(calls[c])} : calls' = [calls EXCEPT ![c] = next]
    /\ UNCHANGED saved

\* The coordinator dies and starts again; calls in flight are gone.
crash ==
    /\ \E c \in Calls : calls[c].pc # "idle"
    /\ rollBack
    /\ calls' = [c \in Calls |-> Idle]
    /\ UNCHANGED saved

Service(c) ==
    \/ \E lock \in Locks : recordSrcLock(c, lock) \/ recordDstLock(c, lock)
    \/ \E preimage \in Secrets : recordSecret(c, preimage)
    \/ markRefunded(c) \/ expireStaleOrders(c) \/ markExpired(c)
    \/ rollbackLock(c) \/ cancelOrder(c) \/ cleanUpStale(c)

Repository(c) == begin(c) \/ write(c) \/ finish(c) \/ fail(c)

Next ==
    \/ \E c \in Calls : Len(trail) < MaxTrail /\ Service(c)
    \/ \E c \in Calls : Repository(c)
    \/ crash

Spec == Init /\ [][Next]_vars

-----------------------------------------------------------------------------
RowType == [status : Status, src : Locks \cup {None}, dst : Locks \cup {None}, preimage : Secrets \cup {None}]

\* Types of the row, its history and the calls in flight.
TypeOK ==
    /\ row \in RowType
    /\ trail \in Seq([from : Status, to : Status])
    /\ \A c \in Calls : calls[c].pc \in {"idle", "candidate", "checked", "open", "written"} /\ calls[c].seen \in RowType
    /\ saved.row \in RowType

LastStatus == IF trail = <<>> THEN "announced" ELSE trail[Len(trail)].to

\* Between transactions the history accounts for the row: every transition starts
\* where the one before it ended, and the last one ends at the row's status,
\* whatever calls raced, failed between two statements or died with the process
\* (atomic: the row mutation and its order_events row both land or neither does).
TrailAccountsForRow ==
    /\ ~TransactionOpen => LastStatus = row.status
    /\ \A i \in 1 .. Len(trail) : trail[i].from = IF i = 1 THEN "announced" ELSE trail[i - 1].to

\* The status never runs ahead of the locks it stands for: src_locked has a source
\* lock, dst_locked has both, and an order that is announced, or was cancelled or
\* abandoned as never locked, has no source lock (rollbackSrcLock, recordDstLock,
\* abandonOrder, after whatever came between their caller's check and them).
StatusIsBackedByLocks ==
    /\ row.status \in {"src_locked", "dst_locked"} => row.src # None
    /\ row.status = "dst_locked" => row.dst # None
    /\ row.status \in {"announced", "cancelled", "abandoned"} => row.src = None

RollbackEdges == {<<"src_locked", "announced">>, <<"dst_locked", "src_locked">>}

\* The UPDATE of a lock, a rollback, a cancellation or an abandonment moves the
\* order along the state machine's table, or one lock back, and none of these
\* nor a late secret ever takes a terminal order out of its state, however stale
\* the check that let the call through.  (setStatus, which does not look at the
\* status it replaces, is left out.)
WritesFollowTheTable ==
    [][\A c \in Calls :
         write(c) /\ row'.status # row.status =>
           LET edge == <<row.status, row'.status>> IN
           \/ canTransition(row.status, row'.status)
           \/ edge \in RollbackEdges
           \/ calls[c].op = "secret" /\ ~isTerminal(row.status)
           \/ calls[c].op \in {"refunded", "expired"}]_vars
=============================================================================
