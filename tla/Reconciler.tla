----------------------------- MODULE Reconciler -----------------------------
(***************************************************************************)
(* The coordinator's reconciler on one chain: scan a window of the chain's *)
(* events, claim each in the durable ledger, apply it to its order, and    *)
(* move the cursors.  Blocks are mined, orders announced and live events   *)
(* recorded meanwhile; runs overlap (a timer, an operator's trigger and a  *)
(* job abandoned on timeout share one Reconciler), a database call fails,  *)
(* the process dies.                                                       *)
(*                                                                         *)
(* OrderLifecycle has the interleavings inside a service call; here such a *)
(* call, with the read it decides on, is one step.  A chain's blocks are   *)
(* final.                                                                  *)
(***************************************************************************)
EXTENDS Naturals, Sequences, SequencesExt

CONSTANTS
    Chains,             \* the chains to look at: "ethereum", "stellar"
    Orders,
    Legs,               \* the legs that this chain may be for an order: "src", "dst"
    Runs,               \* the runs that may be in flight at once
    Lookback,           \* ETH_LOOKBACK_BLOCKS, SOROBAN_LOOKBACK_LEDGERS
    MaxBlock,           \* bound: the chain's height
    MaxMishaps          \* bound: crashes and failed database calls

ASSUME ChainAssumption == Chains \subseteq {"ethereum", "stellar"}
ASSUME LookbackAssumption == Lookback \in Nat \ {0}

VARIABLES
    net,                \* the chain that is reconciled
    leg,                \* which leg of an order this chain holds
    log, tip,           \* the chain: the HTLC's events, oldest first, and the last block
    order,              \* the orders table
    processed,          \* the processed_events table: the event keys claimed
    chainCursor,        \* the chain_cursors row, 0 when there is none
    hwm, page,          \* sorobanCursor and sorobanRpcCursor, 0 when unset
    seen,               \* seenSet
    runs,               \* what every run is about to do
    past,               \* history: what has happened that the docs' promises may not survive
    mishaps             \* history: how many crashes and failed calls

chain == <<net, leg, log, tip>>
memory == <<hwm, page, seen>>
history == <<past, mishaps>>
vars == <<net, leg, log, tip, order, processed, chainCursor, hwm, page, seen, runs, past, mishaps>>

Higher(a, b) == IF a > b THEN a ELSE b
Lower(a, b) == IF a < b THEN a ELSE b

\* src: the order id recorded as the source's, this chain's or another's.
Unknown == [known |-> FALSE, src |-> "none", block |-> 0, preimage |-> FALSE, status |-> "announced", cursor |-> 0]

Idle == [pc |-> "idle", latest |-> 0, from |-> 0, todo |-> <<>>, index |-> 0, end |-> 0]

Init ==
    /\ net \in Chains /\ leg \in [Orders -> Legs]
    /\ log = <<>> /\ tip = 1
    /\ order = [o \in Orders |-> Unknown]
    /\ processed = {} /\ chainCursor = 0
    /\ hwm = 0 /\ page = 0 /\ seen = {}
    /\ runs = [r \in Runs |-> Idle]
    /\ past = {} /\ mishaps = 0

-----------------------------------------------------------------------------
(* The chain, and the coordinator's other ways of hearing of it.           *)

Emitted(o, kind) == \E i \in DOMAIN log : log[i].order = o /\ log[i].kind = kind

MayEmit(o, kind) ==
    IF kind = "created" THEN ~Emitted(o, "created")
    ELSE Emitted(o, "created") /\ ~Emitted(o, "claimed") /\ ~Emitted(o, "refunded")

\* The HTLC's events in the next block: none, one, or an order and its claim.
NextBlock ==
    {<<>>} \cup {<<[order |-> o, kind |-> k, block |-> tip + 1]>> :
                   <<o, k>> \in {x \in Orders \X {"created", "claimed", "refunded"} : MayEmit(x[1], x[2])}}
           \cup {<<[order |-> o, kind |-> "created", block |-> tip + 1],
                   [order |-> o, kind |-> "claimed", block |-> tip + 1]>> :
                   o \in {x \in Orders : MayEmit(x, "created")}}

mine ==
    /\ tip < MaxBlock
    /\ \E events \in NextBlock : log' = log \o events
    /\ tip' = tip + 1
    /\ UNCHANGED <<net, leg, order, processed, chainCursor, memory, runs, history>>

announce(o) ==
    /\ ~order[o].known
    /\ order' = [order EXCEPT ![o].known = TRUE]
    /\ past' = past \cup (IF Emitted(o, "created") THEN {"late announcement"} ELSE {})
    /\ UNCHANGED <<chain, processed, chainCursor, memory, runs, mishaps>>

isTerminal(status) == status = "refunded"

\* OrderService.recordSrcLock accepts the lock, of this chain or of another.
SrcLocked(o, src, block) == [order[o] EXCEPT !.src = src, !.block = block, !.status = "src_locked"]

\* A listener or POST /orders/:id/src-locked records the source's lock.  The
\* order's cursor on the source chain follows.
recordSrcLockLive(o) ==
    /\ order[o].known /\ order[o].src = "none"
    /\ \E block \in 1 .. tip :
         /\ leg[o] = "src" => \E i \in DOMAIN log : log[i] = [order |-> o, kind |-> "created", block |-> block]
         /\ order' = [order EXCEPT ![o] =
                        IF leg[o] = "src" THEN [SrcLocked(o, "ours", block) EXCEPT !.cursor = Higher(@, block)]
                        ELSE SrcLocked(o, "other", block)]
    /\ UNCHANGED <<chain, processed, chainCursor, memory, runs, history>>

\* A secret revealed through POST /secrets/reveal or a listener.
recordSecretLive(o) ==
    /\ leg[o] = "src" /\ Emitted(o, "claimed")
    /\ order[o].src = "ours" /\ ~order[o].preimage
    /\ order' = [order EXCEPT ![o].preimage = TRUE, ![o].status = "secret_revealed"]
    /\ UNCHANGED <<chain, processed, chainCursor, memory, runs, history>>

-----------------------------------------------------------------------------
(* A run.                                                                  *)

\* ledger-cursor.ts.
computeIncrementalScanStart(cursor, latest) ==
    IF cursor > 0 /\ latest <= cursor + Lookback THEN cursor
    ELSE IF latest > Lookback THEN latest - Lookback ELSE 0

isEventBehindOrderCursor(cursor, position) == cursor > 0 /\ position <= cursor

\* decideDispatch on the replay path; existing is 0 for null.
decideDispatch(applied, incoming, existing) == ~applied /\ incoming > existing

\* getMinActiveOrderCursor, 0 for null.
getMinActiveOrderCursor ==
    LET cursors == {order[o].cursor : o \in {x \in Orders : order[x].known /\ ~isTerminal(order[x].status)}} \ {0}
    IN  IF cursors = {} THEN 0 ELSE CHOOSE c \in cursors : \A d \in cursors : c <= d

ethereumCursor ==
    LET least == getMinActiveOrderCursor IN
    IF least = 0 THEN chainCursor ELSE IF chainCursor = 0 THEN least ELSE Lower(chainCursor, least)

\* The in-memory cursor; initCursors reads it from the database on the first run.
stellarCursor == IF hwm = 0 THEN chainCursor ELSE hwm

from == computeIncrementalScanStart(IF net = "ethereum" THEN ethereumCursor ELSE stellarCursor, tip)

\* What the window that starts at from leaves out for good.
Skipped ==
    IF from <= chainCursor + 1 THEN {}
    ELSE IF chainCursor = 0 /\ from > computeIncrementalScanStart(0, tip) THEN {"order cursor"} ELSE {"gap"}

\* Mutant: a reconciler that failed once returns at once from every later run.
startUnlessFailed(r) ==
    /\ runs[r].pc = "idle"
    /\ runs' = IF mishaps > 0 THEN runs
               ELSE [runs EXCEPT ![r] = [Idle EXCEPT !.pc = "fetch", !.latest = tip, !.from = from]]
    /\ seen' = {}
    /\ UNCHANGED <<chain, order, processed, chainCursor, hwm, page, history>>

\* run, up to the window it decides on; Soroban is left alone when that is empty.
start(r) ==
    /\ runs[r].pc = "idle"
    /\ runs' = IF net = "stellar" /\ tip <= from THEN runs
               ELSE [runs EXCEPT ![r] = [Idle EXCEPT !.pc = "fetch", !.latest = tip, !.from = from]]
    /\ seen' = {}
    /\ hwm' = IF net = "stellar" THEN stellarCursor ELSE hwm
    /\ past' = past \cup Skipped \cup (IF \E q \in Runs : runs[q].pc # "idle" THEN {"overlap"} ELSE {})
    /\ UNCHANGED <<chain, order, processed, chainCursor, page, mishaps>>

Within(i, first, last) == first <= log[i].block /\ log[i].block <= last

\* getLogs for each kind of event, and their replay kind by kind; getEvents from
\* the page cursor, or from the window's start when there is none, up to the
\* chain's end at that moment.
Fetched(run) ==
    LET all == [i \in 1 .. Len(log) |-> i]
        OfKind(kind) == SelectSeq(all, LAMBDA i : log[i].kind = kind /\ Within(i, run.from, run.latest))
    IN  IF net = "ethereum" THEN OfKind("created") \o OfKind("claimed") \o OfKind("refunded")
        ELSE SelectSeq(all, LAMBDA i : IF page = 0 THEN log[i].block >= run.from ELSE i >= page)

fetch(r) ==
    /\ runs[r].pc = "fetch"
    /\ runs' = [runs EXCEPT ![r].pc = "next", ![r].todo = Fetched(runs[r]), ![r].end = Len(log) + 1]
    /\ UNCHANGED <<chain, order, processed, chainCursor, memory, history>>

Done(run) == [run EXCEPT !.pc = "next", !.todo = Tail(@), !.index = @ + 1]

\* ethEventKey, sorobanEventKey: the latter counts the events of this run.
eventKey(run) == <<Head(run.todo), IF net = "ethereum" THEN 0 ELSE run.index>>

\* seenSet.checkAndMark, then claimEvent's INSERT ... ON CONFLICT DO NOTHING.
claimEvent(r) ==
    LET i == Head(runs[r].todo)
        fresh == i \notin seen /\ eventKey(runs[r]) \notin processed
    IN
    /\ runs[r].pc = "next" /\ runs[r].todo # <<>>
    /\ seen' = seen \cup {i}
    /\ processed' = IF fresh THEN processed \cup {eventKey(runs[r])} ELSE processed
    /\ runs' = [runs EXCEPT ![r] = IF fresh THEN [@ EXCEPT !.pc = "claimed"] ELSE Done(@)]
    /\ UNCHANGED <<chain, order, chainCursor, hwm, page, history>>

(* What the replay of an event finds, and the order's row after it.  A      *)
(* service call that throws "cannot record" or "cannot transition" counts   *)
(* as applied already.                                                      *)

\* findByHashlock does not look at the chain.
replayCreated(e) ==
    LET row == order[e.order]
        apply == decideDispatch(row.src # "none", e.block, row.block) /\ row.status = "announced"
    IN  [found |-> row.known, row |-> IF apply THEN SrcLocked(e.order, "ours", e.block) ELSE row]

\* Mutant: a claim is looked up by hashlock too.
replayClaimedByHashlock(e) ==
    LET row == order[e.order]
        apply == decideDispatch(row.preimage, e.block, 0) /\ ~isTerminal(row.status)
    IN  [found |-> row.known,
         row |-> IF apply THEN [row EXCEPT !.preimage = TRUE, !.status = "secret_revealed"] ELSE row]

\* Mutant: the test of a recorded lock copied to the secret.
replayClaimedCopied(e) ==
    LET row == order[e.order]
        apply == decideDispatch(row.src # "none", e.block, 0) /\ ~isTerminal(row.status)
    IN  [found |-> leg[e.order] = "src" /\ row.src = "ours",
         row |-> IF apply THEN [row EXCEPT !.preimage = TRUE, !.status = "secret_revealed"] ELSE row]

\* findBySrcOrderId asks for the order's source chain.
replayClaimed(e) ==
    LET row == order[e.order]
        apply == decideDispatch(row.preimage, e.block, 0) /\ ~isTerminal(row.status)
    IN  [found |-> leg[e.order] = "src" /\ row.src = "ours",
         row |-> IF apply THEN [row EXCEPT !.preimage = TRUE, !.status = "secret_revealed"] ELSE row]

replayRefunded(e) ==
    LET row == order[e.order]
        apply == decideDispatch(row.status = "refunded", e.block, row.block)
    IN  [found |-> leg[e.order] = "src" /\ row.src = "ours",
         row |-> IF apply THEN [row EXCEPT !.status = "refunded"] ELSE row]

\* The order says what the chain's event did.
Reflected(i) ==
    LET row == order[log[i].order] IN
    CASE log[i].kind = "created"  -> row.src # "none"
      [] log[i].kind = "claimed"  -> row.preimage
      [] log[i].kind = "refunded" -> row.status = "refunded"

\* The rest of an event's replay, up to advanceOrderCursor.
replay(r) ==
    LET i == Head(runs[r].todo)
        e == log[i]
        result == CASE e.kind = "created" -> replayCreated(e)
                    [] e.kind = "claimed" -> replayClaimed(e)
                    [] e.kind = "refunded" -> replayRefunded(e)
        behind == isEventBehindOrderCursor(order[e.order].cursor, e.block)
        examined == result.found /\ ~behind
    IN
    /\ runs[r].pc = "claimed"
    /\ order' = IF examined THEN [order EXCEPT ![e.order] = result.row] ELSE order
    /\ runs' = [runs EXCEPT ![r] = IF examined THEN [@ EXCEPT !.pc = "advance"] ELSE Done(@)]
    /\ past' = past \cup (IF ~result.found THEN {"not found"}
                          ELSE IF behind /\ ~Reflected(i) THEN {"behind"} ELSE {})
    /\ UNCHANGED <<chain, processed, chainCursor, memory, mishaps>>

advanceOrderCursor(r) ==
    LET e == log[Head(runs[r].todo)] IN
    /\ runs[r].pc = "advance"
    /\ order' = [order EXCEPT ![e.order].cursor = Higher(@, e.block)]
    /\ runs' = [runs EXCEPT ![r] = Done(@)]
    /\ UNCHANGED <<chain, processed, chainCursor, memory, history>>

\* A database call of the replay throws; the error is logged and the run goes on.
replayError(r) ==
    /\ runs[r].pc \in {"claimed", "advance"} /\ mishaps < MaxMishaps
    /\ runs' = [runs EXCEPT ![r] = Done(@)]
    /\ past' = past \cup {"replay error"} /\ mishaps' = mishaps + 1
    /\ UNCHANGED <<chain, order, processed, chainCursor, memory>>

\* A call outside the replay's try block throws, claimEvent's INSERT after the
\* event was marked in seenSet among them: the chain's run ends.
chainError(r) ==
    /\ runs[r].pc \in {"fetch", "next"} /\ mishaps < MaxMishaps
    /\ seen' = IF runs[r].todo = <<>> THEN seen ELSE seen \cup {Head(runs[r].todo)}
    /\ page' = IF net = "stellar" THEN 0 ELSE page
    /\ runs' = [runs EXCEPT ![r] = Idle]
    /\ mishaps' = mishaps + 1
    /\ UNCHANGED <<chain, order, processed, chainCursor, hwm, past>>

\* Mutant: the cursor moves to the tip at the end of the run.
finishAtTip(r) ==
    /\ runs[r].pc = "next" /\ runs[r].todo = <<>>
    /\ chainCursor' = tip
    /\ hwm' = IF net = "stellar" THEN tip ELSE hwm
    /\ page' = IF net = "stellar" THEN runs[r].end ELSE page
    /\ runs' = [runs EXCEPT ![r] = Idle]
    /\ UNCHANGED <<chain, order, processed, seen, history>>

\* Mutant: the cursor names the next block to scan.
finishNextBlock(r) ==
    /\ runs[r].pc = "next" /\ runs[r].todo = <<>>
    /\ chainCursor' = Higher(chainCursor, runs[r].latest + 1)
    /\ runs' = [runs EXCEPT ![r] = Idle]
    /\ UNCHANGED <<chain, order, processed, memory, history>>

\* setChainCursor, which never moves back.
finish(r) ==
    /\ runs[r].pc = "next" /\ runs[r].todo = <<>>
    /\ chainCursor' = Higher(chainCursor, runs[r].latest)
    /\ hwm' = IF net = "stellar" THEN Higher(hwm, runs[r].latest) ELSE hwm
    /\ page' = IF net = "stellar" THEN runs[r].end ELSE page
    /\ runs' = [runs EXCEPT ![r] = Idle]
    /\ UNCHANGED <<chain, order, processed, seen, history>>

\* The coordinator dies, between two steps of whatever run, and restarts.
crash ==
    /\ mishaps < MaxMishaps
    /\ runs' = [r \in Runs |-> Idle]
    /\ hwm' = 0 /\ page' = 0 /\ seen' = {}
    /\ past' = past \cup {"crash"} /\ mishaps' = mishaps + 1
    /\ UNCHANGED <<chain, order, processed, chainCursor>>

Run(r) == start(r) \/ fetch(r) \/ claimEvent(r) \/ replay(r) \/ advanceOrderCursor(r) \/ finish(r)

Next ==
    \/ mine
    \/ \E o \in Orders : announce(o) \/ recordSrcLockLive(o) \/ recordSecretLive(o)
    \/ \E r \in Runs : Run(r) \/ replayError(r) \/ chainError(r)
    \/ crash

\* The interval timer starts runs for ever, and a run that is not interrupted
\* goes on to its end.
Spec == Init /\ [][Next]_vars /\ \A r \in Runs : WF_vars(Run(r))

-----------------------------------------------------------------------------
\* Types of the chain, the database, the reconciler's memory and the runs.
TypeOK ==
    /\ \A i \in DOMAIN log : log[i].block <= tip
    /\ \A o \in Orders : order[o].status \in {"announced", "src_locked", "secret_revealed", "refunded"}
    /\ chainCursor <= tip /\ hwm <= tip /\ page <= Len(log) + 1
    /\ \A r \in Runs : runs[r].pc \in {"idle", "fetch", "next", "claimed", "advance"} /\ runs[r].latest <= tip

Claimed(i) == \E k \in processed : k[1] = i

\* The chain cursor never passes an event that was not claimed in the durable
\* ledger, though blocks arrive during a run, database calls fail anywhere and
\* the process dies anywhere: reconcileEthereum and reconcileSoroban move it to
\* the tip they read before they fetched.  Not so with overlapping runs, which
\* share seenSet, after an outage longer than the lookback, or when an order's
\* own cursor starts the first run.
CursorPassesOnlyClaimed ==
    past \cap {"overlap", "gap", "order cursor"} = {} =>
      \A i \in DOMAIN log : log[i].block <= chainCursor => Claimed(i)

Lost(i) ==
    /\ leg[log[i].order] = "src" /\ order[log[i].order].known
    /\ log[i].block <= chainCursor /\ ~Reflected(i)

\* While nothing on the list of past has happened, every event of a source leg
\* that the chain cursor passed shows in its order, though an INSERT of the
\* ledger fails, live handlers record the same events first and blocks arrive
\* during the run (run, replayEthCreated and its siblings, recordSrcLock).
QuietRunsLoseNothing == past = {} => \A i \in DOMAIN log : ~Lost(i)

\* A restart loses no event: of an order announced before its lock, with runs one
\* after the other, every event behind the chain cursor shows in its order (the
\* reconciler's "no silent event loss").
RestartLosesNothing == past \subseteq {"crash"} => \A i \in DOMAIN log : ~Lost(i)

\* An order has the secret or is refunded only when its source leg was claimed or
\* refunded, whatever was replayed twice, late or by two runs, and on whichever
\* chain the order's other leg is.
OutcomesComeFromTheSource ==
    \A o \in Orders :
      /\ order[o].preimage => leg[o] = "src" /\ Emitted(o, "claimed")
      /\ order[o].status = "refunded" => leg[o] = "src" /\ Emitted(o, "refunded")

\* A destination leg's lock is never recorded as the order's source lock.
SourceLockIsOnSourceChain == \A o \in Orders : leg[o] = "dst" => order[o].src # "ours"

\* Every event is claimed in the end, under the timer that starts runs for ever,
\* unless the window skipped it or overlapping runs hid it from each other.
EventsAreClaimed ==
    \A o \in Orders : \A kind \in {"created", "claimed", "refunded"} :
      Emitted(o, kind) ~>
        \/ \E i \in DOMAIN log : log[i].order = o /\ log[i].kind = kind /\ Claimed(i)
        \/ past \cap {"overlap", "gap", "order cursor"} # {}
=============================================================================
