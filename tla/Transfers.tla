----------------------------- MODULE Transfers -----------------------------
(***************************************************************************)
(* Transfers of one sender: admission with the nonce precheck              *)
(* (user_handler.rs), choice and reservation of coins (task_preparer,      *)
(* coin_reservation.rs), execution by a solver, inline, through the batch  *)
(* collector or in a spawned task (network/tee_executor.rs), submission    *)
(* and the versioned apply (storage/src/state/manager.rs).                 *)
(*                                                                         *)
(* A coin has a balance, an owner and a version that every write raises; a *)
(* merged coin is gone.  A coin made for the recipient of a part of a coin *)
(* is counted per transfer.  A reservation is the request that made it     *)
(* (its UUID) and whether its TTL is over.                                 *)
(***************************************************************************)
EXTENDS Integers, Sequences, FiniteSets, FiniteSetsExt

CONSTANTS Requests, Coins, None,
          Amount,          \* of each request
          Nonce,           \* client_nonce of each V2 request, None for others
          Route,           \* "inline", "collected" or "spawned"
          InitialBalance,
          CoinRank,        \* the order of object ids
          MaxMergeSources,
          ChannelCap,      \* channel_buffer
          MaxBatch,        \* max_batch_size
          Permits,         \* max_concurrent
          Power,           \* events a registered sender can pay for
          MaxExpirations   \* bound: TTLs that run out under a live request

ASSUME TransfersAssumption ==
    /\ IsFiniteSet(Requests) /\ IsFiniteSet(Coins)
    /\ None \notin Requests
    /\ \A r \in Requests, b \in BOOLEAN : None # [by |-> r, expired |-> b]
    /\ Amount \in [Requests -> Nat \ {0}]
    /\ Route \in [Requests -> {"inline", "collected", "spawned"}]
    \* The batch interface carries no authorization.
    /\ \A r \in Requests : Route[r] = "spawned" => Nonce[r] = None
    /\ InitialBalance \in [Coins -> Nat]
    /\ CoinRank \in [Coins -> Nat] /\ \A c, d \in Coins : CoinRank[c] = CoinRank[d] => c = d
    /\ MaxMergeSources \in Nat /\ ChannelCap \in Nat \ {0} /\ MaxExpirations \in Nat
    /\ MaxBatch \in Nat \ {0} /\ Permits \in Nat
    /\ Power \in Nat /\ None \notin Nat

VARIABLES pc,          \* where each request is
          want,        \* coins it still tries to reserve
          merge,       \* it merges several coins
          handles,     \* reservation handles it holds
          seen,        \* the coins as it read them first
          event,       \* its event: coins and power as read, success, marker
          reserved,    \* CoinReservationManager.reservations
          queue,       \* the collector's channel
          batch,       \* entries the collector is executing
          running,     \* and the permits it holds for them
          permits,     \* free permits of the semaphore
          line,        \* those who wait for permits, first come first served
          batching,    \* solver_batch_support of the solver
          coin,        \* finalized coins
          markers,     \* finalized nonce markers
          created,     \* the coin each transfer made for its recipient
          power,       \* PowerState of the sender, None if not registered
          lapsed       \* history: handles whose TTL ran out in use

requestVars == <<pc, want, merge, handles, seen, event>>
collectorVars == <<queue, batch, running, permits, line, batching>>
ledgerVars == <<coin, markers, created, power>>
vars == <<requestVars, reserved, collectorVars, ledgerVars, lapsed>>

Init ==
    /\ pc = [r \in Requests |-> "start"]
    /\ want = [r \in Requests |-> {}]
    /\ merge = [r \in Requests |-> FALSE]
    /\ handles = [r \in Requests |-> {}]
    /\ seen = [r \in Requests |-> None]
    /\ event = [r \in Requests |-> None]
    /\ reserved = [c \in Coins |-> None]
    /\ queue = << >> /\ batch = {} /\ running = 0 /\ permits = Permits /\ line = << >>
    /\ coin = [c \in Coins |-> [balance |-> InitialBalance[c], owner |-> "sender", version |-> 0]]
    /\ markers = {} /\ created = [r \in Requests |-> 0]
    /\ power \in {None, Power}
    /\ lapsed = {} /\ batching = TRUE

-----------------------------------------------------------------------------
(* CoinReservationManager.                                                 *)

Free(c) == reserved[c] = None \/ reserved[c].expired

Reservation(r) == [by |-> r, expired |-> FALSE]

\* Mutant: release takes whatever reservation the coin has.
AfterReleaseOfAny(r) == [c \in Coins |-> IF c \in handles[r] THEN None ELSE reserved[c]]

\* release, release_batch and the drop of a ReservationGuard: only the
\* reservation with the handle's id goes.
AfterRelease(r) ==
    [c \in Coins |-> IF c \in handles[r] /\ reserved[c] # None /\ reserved[c].by = r
                     THEN None ELSE reserved[c]]

Live(r) ==
    pc[r] \in {"reserving", "reserved", "read", "prepared", "queued", "waiting", "solving"}

\* The TTL of a reservation runs out.
Expire(c) ==
    /\ reserved[c] # None /\ ~reserved[c].expired
    /\ IF Live(reserved[c].by)
       THEN /\ Cardinality(lapsed) < MaxExpirations
            /\ lapsed' = lapsed \cup {<<reserved[c].by, c>>}
       ELSE UNCHANGED lapsed
    /\ reserved' = [reserved EXCEPT ![c].expired = TRUE]
    /\ UNCHANGED <<requestVars, collectorVars, ledgerVars>>

\* Mutant: start_reservation_cleanup_task is never called.
CleanupNever == FALSE /\ UNCHANGED vars

CleanupExpired ==
    /\ \E c \in Coins : reserved[c] # None /\ reserved[c].expired
    /\ reserved' = [c \in Coins |-> IF Free(c) THEN None ELSE reserved[c]]
    /\ UNCHANGED <<requestVars, collectorVars, ledgerVars, lapsed>>

-----------------------------------------------------------------------------
(* Preparation.                                                            *)

\* Every way a request ends with its guard or its handles released.
Fail(r) ==
    /\ pc' = [pc EXCEPT ![r] = "failed"]
    /\ reserved' = AfterRelease(r)
    /\ handles' = [handles EXCEPT ![r] = {}]

\* The precheck on the marker: best effort.
Admit(r) ==
    /\ pc[r] = "start"
    /\ pc' = [pc EXCEPT ![r] = IF Nonce[r] \in markers THEN "failed" ELSE "admitted"]
    /\ UNCHANGED <<want, merge, handles, seen, event, reserved, collectorVars,
                   ledgerVars, lapsed>>

\* Ties are broken by the object id.
LargerFirst(c, d, of) ==
    \/ of[c].balance > of[d].balance
    \/ of[c].balance = of[d].balance /\ CoinRank[c] < CoinRank[d]

Mine == {c \in Coins : coin[c].owner = "sender"}

SumOver(f, S) == MapThenSumSet(LAMBDA x : f[x], S)

Total(C, of) == SumOver([c \in C |-> of[c].balance], C)

\* The largest coins until their sum suffices, one target and its sources.
GreedyMerge(r) ==
    {c \in Mine :
        LET larger == {d \in Mine : LargerFirst(d, c, coin)}
        IN  /\ Total(larger, coin) < Amount[r]
            /\ Cardinality(larger) <= MaxMergeSources}

\* select_coins_for_transfer; the batch preparer knows no merge.
Select(r) ==
    LET eligible == {c \in Mine : coin[c].balance >= Amount[r]}
        merged == GreedyMerge(r)
    IN
    /\ pc[r] = "admitted"
    /\ seen' = [seen EXCEPT ![r] = coin]
    /\ \/ /\ eligible # {}
          /\ want' = [want EXCEPT ![r] = eligible]
          /\ pc' = [pc EXCEPT ![r] = "reserving"]
          /\ UNCHANGED merge
       \/ /\ eligible = {} /\ Route[r] # "spawned" /\ Total(merged, coin) >= Amount[r]
          /\ want' = [want EXCEPT ![r] = merged]
          /\ merge' = [merge EXCEPT ![r] = TRUE]
          /\ pc' = [pc EXCEPT ![r] = "reserving"]
       \/ /\ eligible = {} /\ (Route[r] = "spawned" \/ Total(merged, coin) < Amount[r])
          /\ pc' = [pc EXCEPT ![r] = "failed"]
          /\ UNCHANGED <<want, merge>>
    /\ UNCHANGED <<handles, event, reserved, collectorVars, ledgerVars, lapsed>>

\* The order in which the coins are tried, by the balances read.
NextCoin(r, c) ==
    \A d \in want[r] \ {c} :
        IF merge[r] THEN LargerFirst(c, d, seen[r])
        ELSE \/ seen[r][c].balance < seen[r][d].balance
             \/ seen[r][c].balance = seen[r][d].balance /\ CoinRank[c] < CoinRank[d]

\* try_reserve of one coin: the first that is free, or all of a merge.
TryReserve(r, c) ==
    /\ pc[r] = "reserving" /\ c \in want[r] /\ NextCoin(r, c)
    /\ IF Free(c)
       THEN /\ reserved' = [reserved EXCEPT ![c] = Reservation(r)]
            /\ handles' = [handles EXCEPT ![r] = @ \cup {c}]
            /\ want' = [want EXCEPT ![r] = IF merge[r] THEN @ \ {c} ELSE {}]
            /\ pc' = [pc EXCEPT ![r] = IF want'[r] = {} THEN "reserved" ELSE "reserving"]
       ELSE IF merge[r] \/ want[r] = {c}
            THEN Fail(r) /\ UNCHANGED want
            ELSE /\ want' = [want EXCEPT ![r] = @ \ {c}]
                 /\ UNCHANGED <<pc, reserved, handles>>
    /\ UNCHANGED <<merge, seen, event, collectorVars, ledgerVars, lapsed>>

\* The coins of the read set: a spawned task keeps its snapshot, the others read
\* again.  A single coin that is gone by then leaves its reservation behind.  An
\* event that merges carries no transfer, hence no marker.
ReadSet(r) ==
    /\ pc[r] = "reserved"
    /\ LET now == IF Route[r] = "spawned" THEN seen[r] ELSE coin
           gone == \E c \in handles[r] : now[c].owner = "none"
       IN  \/ /\ ~gone
              /\ event' = [event EXCEPT ![r] =
                    [spend |-> [c \in handles[r] |-> now[c]], ok |-> TRUE,
                     marker |-> IF merge[r] THEN None ELSE Nonce[r], power |-> None]]
              /\ pc' = [pc EXCEPT ![r] = "read"]
              /\ UNCHANGED <<reserved, handles>>
           \/ gone /\ merge[r] /\ Fail(r) /\ UNCHANGED event
           \/ /\ gone /\ ~merge[r]
              /\ pc' = [pc EXCEPT ![r] = "leaked"]
              /\ UNCHANGED <<reserved, handles, event>>
    /\ UNCHANGED <<want, merge, seen, collectorVars, ledgerVars, lapsed>>

\* Then the PowerState of the sender, if it has one; a merge asks for none.
ReadPower(r) ==
    /\ pc[r] = "read"
    /\ event' = [event EXCEPT ![r].power = IF merge[r] THEN None ELSE power]
    /\ pc' = [pc EXCEPT ![r] = "prepared"]
    /\ UNCHANGED <<want, merge, handles, seen, reserved, collectorVars, ledgerVars, lapsed>>

\* route_transfer finds no solver.
RouteFails(r) ==
    /\ pc[r] = "prepared"
    /\ Fail(r)
    /\ UNCHANGED <<want, merge, seen, event, collectorVars, ledgerVars, lapsed>>

-----------------------------------------------------------------------------
(* Execution.                                                              *)

\* Mutant: the owner of the coin is not compared with the sender.
SolvableForAnyone(r) == Total(DOMAIN event[r].spend, event[r].spend) >= Amount[r]

\* decrement_power comes before the transfer.
\* The runtime checks the owner of a single coin against the sender; a merge
\* takes the owner of its target, whoever that is, and asks it of every source.
Solvable(r) ==
    LET spend == event[r].spend IN
    /\ event[r].power # 0
    /\ Total(DOMAIN spend, spend) >= Amount[r]
    /\ IF merge[r] THEN \A c, d \in DOMAIN spend : spend[c].owner = spend[d].owner
       ELSE \A c \in DOMAIN spend : spend[c].owner = "sender"

\* The entry joins the channel, unless its solver was deregistered: that error
\* is returned before the guard exists, and the reservation stays behind.
Enqueue(r) ==
    /\ pc[r] = "prepared" /\ Route[r] = "collected"
    /\ \/ /\ Len(queue) < ChannelCap
          /\ queue' = Append(queue, r)
          /\ pc' = [pc EXCEPT ![r] = "queued"]
       \/ /\ pc' = [pc EXCEPT ![r] = "leaked"]
          /\ UNCHANGED queue
    /\ UNCHANGED <<want, merge, handles, seen, event, reserved, batch, running, permits, line,
                   batching, ledgerVars, lapsed>>

SendTimeout(r) ==
    /\ pc[r] = "prepared" /\ Route[r] = "collected" /\ Len(queue) >= ChannelCap
    /\ Fail(r)
    /\ UNCHANGED <<want, merge, seen, event, collectorVars, ledgerVars, lapsed>>

\* The entries the collector gathers are not with the solver yet.
Gathering == \A r \in batch : pc[r] = "queued"

\* The collector takes one more entry, up to the size of a batch.
Collect ==
    /\ Gathering /\ Cardinality(batch) < MaxBatch /\ queue # << >>
    /\ batch' = batch \cup {Head(queue)}
    /\ queue' = Tail(queue)
    /\ UNCHANGED <<requestVars, reserved, running, permits, line, batching, ledgerVars, lapsed>>

Move(S, place) == pc' = [r \in Requests |-> IF r \in S THEN place ELSE pc[r]]

\* The collector closes the batch and asks for its permits.
Dispatch ==
    /\ batching /\ Gathering /\ batch # {}
    /\ Move(batch, "waiting")
    /\ line' = Append(line, batch)
    /\ UNCHANGED <<want, merge, handles, seen, event, reserved, queue, batch, running, permits,
                   batching, ledgerVars, lapsed>>


\* execute_batch_group: acquire_many for the whole batch, when its turn comes.
AcquireMany ==
    /\ batch # {} /\ \A r \in batch : pc[r] = "waiting"
    /\ line # << >> /\ Head(line) = batch /\ permits >= Cardinality(batch)
    /\ permits' = permits - Cardinality(batch)
    /\ running' = Cardinality(batch)
    /\ line' = Tail(line)
    /\ Move(batch, "solving")
    /\ UNCHANGED <<want, merge, handles, seen, event, reserved, queue, batch, batching,
                   ledgerVars, lapsed>>

\* A solver known to lack the batch endpoint gets the entries one by one, and
\* without permits.
Direct ==
    /\ ~batching /\ Gathering /\ batch # {}
    /\ Move(batch, "solving")
    /\ UNCHANGED <<want, merge, handles, seen, event, reserved, collectorVars,
                   ledgerVars, lapsed>>

\* 404 or 405: the entries go to the solver one by one under the same permits.
Fallback ==
    /\ batching /\ running > 0
    /\ batching' = FALSE
    /\ UNCHANGED <<requestVars, reserved, queue, batch, running, permits, line, ledgerVars,
                   lapsed>>

\* An inline or spawned request, once it is routed, asks for one permit.
AskPermit(r) ==
    /\ pc[r] = "prepared" /\ Route[r] # "collected"
    /\ line' = Append(line, {r})
    /\ pc' = [pc EXCEPT ![r] = "waiting"]
    /\ UNCHANGED <<want, merge, handles, seen, event, reserved, queue, batch, running, permits,
                   batching, ledgerVars, lapsed>>

\* And gets it when its turn comes: the semaphore lets nobody pass, a batch that
\* waits for more permits than are free holds up those behind it.
Acquire(r) ==
    /\ pc[r] = "waiting" /\ Route[r] # "collected"
    /\ line # << >> /\ Head(line) = {r} /\ permits > 0
    /\ permits' = permits - 1
    /\ line' = Tail(line)
    /\ pc' = [pc EXCEPT ![r] = "solving"]
    /\ UNCHANGED <<want, merge, handles, seen, event, reserved, queue, batch, running,
                   batching, ledgerVars, lapsed>>

\* Mutant: every entry of a batch returns the permits of the whole batch.
ReturnPermitEach(r) ==
    /\ batch' = batch \ {r}
    /\ running' = IF batch' = {} THEN 0 ELSE running
    /\ permits' = permits + IF r \notin batch THEN 1 ELSE running
    /\ UNCHANGED <<queue, line, batching>>

\* The permits of a batch come back with its last entry, a single one at once.
ReturnPermit(r) ==
    /\ batch' = batch \ {r}
    /\ running' = IF batch' = {} THEN 0 ELSE running
    /\ permits' = IF r \notin batch THEN permits + 1
                  ELSE IF batch' = {} THEN permits + running ELSE permits
    /\ UNCHANGED <<queue, line, batching>>

\* A result, good or with failed events: the guard is released early, before
\* the event is submitted.  A spawned task keeps its permit until then.
SolverAnswers(r, ok) ==
    /\ pc[r] = "solving" /\ (ok => Solvable(r))
    /\ event' = [event EXCEPT ![r].ok = ok]
    /\ pc' = [pc EXCEPT ![r] = "executed"]
    /\ reserved' = AfterRelease(r)
    /\ handles' = [handles EXCEPT ![r] = {}]
    /\ IF Route[r] = "spawned" THEN UNCHANGED collectorVars ELSE ReturnPermit(r)
    /\ UNCHANGED <<want, merge, seen, ledgerVars, lapsed>>

\* Mutant: a failed entry of a batch drops its handles, not its reservations.
SolverFailsKeepingCoins(r) ==
    /\ pc[r] = "solving"
    /\ pc' = [pc EXCEPT ![r] = "failed"]
    /\ handles' = [handles EXCEPT ![r] = {}]
    /\ ReturnPermit(r)
    /\ UNCHANGED <<want, merge, seen, event, reserved, ledgerVars, lapsed>>

\* An error, a timeout, or no answer for the entry.
SolverFails(r) ==
    /\ pc[r] = "solving"
    /\ Fail(r)
    /\ ReturnPermit(r)
    /\ UNCHANGED <<want, merge, seen, event, ledgerVars, lapsed>>

\* The batch request fails or its task panics: every guard is dropped.
BatchFails ==
    /\ running > 0
    /\ Move(batch, "failed")
    /\ reserved' = [c \in Coins |-> IF reserved[c] # None /\ reserved[c].by \in batch
                                    THEN None ELSE reserved[c]]
    /\ handles' = [r \in Requests |-> IF r \in batch THEN {} ELSE handles[r]]
    /\ permits' = permits + running
    /\ batch' = {} /\ running' = 0
    /\ UNCHANGED <<want, merge, seen, event, queue, line, batching, ledgerVars, lapsed>>

-----------------------------------------------------------------------------
(* Finality.                                                               *)

\* submit_executed_event: consensus takes the event or refuses it, and the task
\* that was spawned is over.
Submit(r) ==
    /\ pc[r] = "executed"
    /\ \E p \in {"submitted", "failed"} : pc' = [pc EXCEPT ![r] = p]
    /\ IF Route[r] = "spawned" THEN ReturnPermit(r) ELSE UNCHANGED collectorVars
    /\ UNCHANGED <<want, merge, handles, seen, event, reserved, ledgerVars, lapsed>>

\* Mutant: the marker is written, its absence is not asked for.
CurrentWithoutMarker(r) ==
    /\ \A c \in DOMAIN event[r].spend : coin[c] = event[r].spend[c]
    /\ event[r].power = None \/ power = event[r].power

\* Mutant: a change of PowerState is not compared with its old value.
CurrentWithoutPower(r) ==
    /\ \A c \in DOMAIN event[r].spend : coin[c] = event[r].spend[c]
    /\ event[r].marker = None \/ event[r].marker \notin markers

\* The stale-read check: every coin and the power as read, and no marker yet.
Current(r) ==
    /\ \A c \in DOMAIN event[r].spend : coin[c] = event[r].spend[c]
    /\ event[r].power = None \/ power = event[r].power
    /\ event[r].marker = None \/ event[r].marker \notin markers

\* The coin that pays, of a merge the largest when the coins were chosen.
Target(r, c) == \A d \in DOMAIN event[r].spend \ {c} : LargerFirst(c, d, seen[r])

\* A source of a merge is deleted, its balance goes to the target.
MergedAway(c) == [balance |-> 0, owner |-> "none", version |-> coin[c].version + 1]

\* What is left of coin c: the target pays, in full by changing hands.
CoinAfter(r, c) ==
    LET spend == event[r].spend
        total == Total(DOMAIN spend, spend)
    IN  CASE ~Target(r, c) -> MergedAway(c)
          [] Target(r, c) /\ total = Amount[r] ->
                [balance |-> total, owner |-> "recipient", version |-> coin[c].version + 1]
          [] OTHER -> [balance |-> total - Amount[r], owner |-> spend[c].owner,
                       version |-> coin[c].version + 1]

\* Mutant: a full transfer leaves the coin with the sender as well.
CreatedAfterAlways(r) == Amount[r]

\* A part of a coin is paid with a new coin.
CreatedAfter(r) ==
    IF Total(DOMAIN event[r].spend, event[r].spend) = Amount[r] THEN 0 ELSE Amount[r]

\* apply_committed_events of the CF that holds the event.
Finalize(r) ==
    /\ pc[r] = "submitted"
    /\ IF event[r].ok /\ Current(r)
       THEN /\ coin' = [c \in Coins |-> IF c \in DOMAIN event[r].spend
                                        THEN CoinAfter(r, c) ELSE coin[c]]
            /\ created' = [created EXCEPT ![r] = CreatedAfter(r)]
            /\ markers' = markers \cup ({event[r].marker} \ {None})
            /\ power' = IF event[r].power = None THEN power ELSE event[r].power - 1
            /\ pc' = [pc EXCEPT ![r] = "applied"]
       ELSE /\ pc' = [pc EXCEPT ![r] = IF event[r].ok THEN "stale" ELSE "rejected"]
            /\ UNCHANGED ledgerVars
    /\ UNCHANGED <<want, merge, handles, seen, event, reserved, collectorVars, lapsed>>

\* The steps of the task that serves a request, up to its submission.
RequestStep(r) ==
    \/ Select(r) \/ (\E c \in Coins : TryReserve(r, c)) \/ ReadSet(r) \/ ReadPower(r)
    \/ RouteFails(r) \/ Enqueue(r) \/ SendTimeout(r) \/ AskPermit(r) \/ Acquire(r)
    \/ (\E ok \in BOOLEAN : SolverAnswers(r, ok)) \/ SolverFails(r)
    \/ Submit(r)

Next ==
    \/ \E r \in Requests : Admit(r) \/ RequestStep(r) \/ Finalize(r)
    \/ Collect \/ Dispatch \/ AcquireMany \/ Direct \/ Fallback \/ BatchFails
    \/ CleanupExpired \/ \E c \in Coins : Expire(c)

\* An admitted request runs on and its call of the solver has a timeout; permits
\* go to the head of the line; time passes and the cleanup task wakes up every
\* minute.  Nothing is assumed of clients or of finality.
Fairness ==
    /\ \A r \in Requests : WF_vars(RequestStep(r))
    /\ WF_vars(Collect) /\ WF_vars(Dispatch) /\ WF_vars(AcquireMany) /\ WF_vars(Direct)
    /\ WF_vars(CleanupExpired) /\ \A c \in Coins : WF_vars(Expire(c))

Spec == Init /\ [][Next]_vars /\ Fairness

-----------------------------------------------------------------------------
(* Properties.                                                             *)

CoinStates == [balance : Nat, owner : {"sender", "recipient", "none"}, version : Nat]
Ended == {"failed", "leaked", "applied", "stale", "rejected"}

TypeOK ==
    /\ pc \in [Requests -> Ended \cup {"start", "admitted", "reserving", "reserved", "read",
                     "prepared", "queued", "waiting", "solving", "executed", "submitted"}]
    /\ want \in [Requests -> SUBSET Coins] /\ handles \in [Requests -> SUBSET Coins]
    /\ merge \in [Requests -> BOOLEAN]
    /\ seen \in [Requests -> [Coins -> CoinStates] \cup {None}]
    /\ reserved \in [Coins -> [by : Requests, expired : BOOLEAN] \cup {None}]
    /\ queue \in Seq(Requests) /\ Len(queue) <= ChannelCap
    /\ batch \in SUBSET Requests /\ running \in 0 .. MaxBatch
    /\ permits \in 0 .. Permits /\ line \in Seq(SUBSET Requests)
    /\ coin \in [Coins -> CoinStates]
    /\ created \in [Requests -> Nat] /\ power \in Nat \cup {None}
    /\ lapsed \in SUBSET (Requests \X Coins) /\ batching \in BOOLEAN

\* A handle whose TTL has not run out protects its coin until its request is
\* through, whatever happens to other requests: one whose TTL did run out does
\* not free what another has reserved since (the id check of
\* CoinReservationManager::release), and nobody is given a coin in use.
Exclusive ==
    \A r \in Requests : \A c \in handles[r] :
        Live(r) /\ <<r, c>> \notin lapsed => reserved[c] = Reservation(r)

\* Every path that ends a request releases its reservations, errors, timeouts,
\* refused routes and failing batches included; two error returns do not, and
\* those only leave reservations for the TTL.
NoReservationLeft ==
    \A c \in Coins : reserved[c] # None =>
        /\ c \in handles[reserved[c].by]
        /\ Live(reserved[c].by) \/ pc[reserved[c].by] = "leaked"

\* Whatever is reserved, expired, released early, merged or replayed, the coins
\* and what the recipients were paid add up to what there was.
Conservation ==
    Total(Coins, coin) + SumOver(created, Requests) = SumOver(InitialBalance, Coins)

\* A client_nonce pays once: concurrent duplicates that pass the precheck meet
\* at the marker, when the transfer is paid from a single coin.
NonceOnce ==
    \A r, s \in Requests :
        r # s /\ Nonce[r] = Nonce[s] /\ Nonce[r] # None /\ ~merge[r] /\ ~merge[s]
            => ~(pc[r] = "applied" /\ pc[s] = "applied")

\* Power pays for what takes effect, one unit for each transfer from a single
\* coin and no more, though every task writes back a PowerState it read before
\* other tasks of the sender were applied, and though reservations only keep coins
\* apart.  What is refused or stale at finality costs nothing, as its changes are
\* dropped with the event, and a merge costs nothing: its event has no transfer
\* in which the runtime would find a sender.
PowerExact ==
    power # None =>
        power + Cardinality({r \in Requests : pc[r] = "applied" /\ ~merge[r]}) = Power

\* "Every admitted V2 transfer consumes a (from, client_nonce) idempotency key
\* by creating a marker": also one that is paid by merging coins.
EveryTransferMarks ==
    \A r \in Requests : pc[r] = "applied" /\ Nonce[r] # None => Nonce[r] \in markers

\* A single-coin transfer never spends a coin its sender does not own any more,
\* though the coin is chosen before it is reserved and read.
OwnCoinsOnly ==
    [][\A r \in Requests : pc[r] = "submitted" /\ pc'[r] = "applied" /\ ~merge[r]
          => \A c \in DOMAIN event[r].spend : coin[c].owner = "sender"]_vars


\* No reservation is kept for ever: what is not released expires and is swept.
CoinsComeBack == <>[](\A c \in Coins : reserved[c] = None)
=============================================================================
