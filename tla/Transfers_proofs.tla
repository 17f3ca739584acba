-------------------------- MODULE Transfers_proofs --------------------------
(***************************************************************************)
(* Proofs about Transfers: the reservations, the nonce markers, the power, *)
(* the owners of the coins that are spent, the sum of the balances and the *)
(* permits of the executor, for any number of requests and coins, any      *)
(* routes and any bound on expirations.                                    *)
(***************************************************************************)
EXTENDS Transfers, Induction

Places == Ended \cup {"start", "admitted", "reserving", "reserved", "read", "prepared",
                      "queued", "waiting", "solving", "executed", "submitted"}

Types ==
    /\ pc \in [Requests -> Places]
    /\ handles \in [Requests -> SUBSET Coins]
    /\ reserved \in [Coins -> [by : Requests, expired : BOOLEAN] \cup {None}]
    /\ merge \in [Requests -> BOOLEAN]
    /\ DOMAIN event = Requests
    /\ lapsed \in SUBSET (Requests \X Coins)

\* A request has no reservation before it looks for coins.
Unreserved == \A r \in Requests : pc[r] \in {"start", "admitted"} => handles[r] = {}

Held == Types /\ Exclusive /\ NoReservationLeft /\ Unreserved

\* From the read set to finality a request has an event, with the marker that
\* its transfer is to write.
HasEvent == {"read", "prepared", "queued", "waiting", "solving", "executed", "submitted"}

Marked ==
    \A r \in Requests : pc[r] \in HasEvent =>
        /\ DOMAIN event[r] = {"spend", "ok", "marker", "power"}
        /\ event[r].marker = IF merge[r] THEN None ELSE Nonce[r]

\* An applied transfer from a single coin has left its marker.
Spent ==
    \A r \in Requests : pc[r] = "applied" /\ ~merge[r] /\ Nonce[r] # None => Nonce[r] \in markers

\* A good result was checked against the owner.
Owned ==
    \A r \in Requests : pc[r] \in {"executed", "submitted"} /\ event[r].ok /\ ~merge[r] =>
        \A c \in DOMAIN event[r].spend : event[r].spend[c].owner = "sender"

Inv == Held /\ Marked /\ Spent /\ Owned /\ NonceOnce

\* A new reservation names its request and has not expired.
LEMMA ReservationIsOne ==
    \A r \in Requests : Reservation(r) # None /\ ~Reservation(r).expired /\ Reservation(r).by = r
<1>1. \A r \in Requests, b \in BOOLEAN : None # [by |-> r, expired |-> b]
  BY TransfersAssumption
<1> QED
  BY <1>1 DEF Reservation

\* In the beginning nothing is reserved.
LEMMA InitInv == Init => Inv
<1> SUFFICES ASSUME Init PROVE Inv
  OBVIOUS
<1>1. Types
  BY DEF Init, Types, Places
<1>2. \A r \in Requests : pc[r] = "start" /\ handles[r] = {}
  BY DEF Init
<1>3. Exclusive /\ NoReservationLeft /\ Unreserved
  BY <1>2 DEF Init, Exclusive, NoReservationLeft, Unreserved
<1>4. Marked /\ Spent /\ Owned /\ NonceOnce
  BY <1>2 DEF Marked, Spent, Owned, NonceOnce, HasEvent
<1> QED
  BY <1>1, <1>3, <1>4 DEF Inv, Held

-----------------------------------------------------------------------------
(* Steps that leave the reservations alone.                                *)

\* A step that moves no reservation and gives up no handle.
LEMMA KeepReservations ==
    ASSUME Held, UNCHANGED <<handles, reserved, lapsed>>, Types',
           \A r \in Requests : pc'[r] \in {"start", "admitted"} => pc[r] \in {"start", "admitted"},
           \A r \in Requests : Live(r)' => Live(r),
           \A r \in Requests : Live(r) \/ pc[r] = "leaked" => Live(r)' \/ pc'[r] = "leaked"
    PROVE  Held'
<1> USE DEF Held
<1>0. Unreserved'
  BY DEF Unreserved
<1>1. Exclusive'
  BY DEF Exclusive, Reservation
<1>2. \A c \in Coins : reserved[c] # None => reserved[c].by \in Requests
  BY DEF Types
<1>3. NoReservationLeft'
  BY <1>2 DEF NoReservationLeft
<1> QED
  BY <1>0, <1>1, <1>3

\* Every reservation of r goes, and r is no longer live.
LEMMA ReleaseAll ==
    ASSUME Held, NEW r \in Requests, NEW place \in Places,
           ~(place \in {"reserving", "reserved", "read", "prepared", "queued", "waiting", "solving"}),
           pc' = [pc EXCEPT ![r] = place], reserved' = AfterRelease(r),
           handles' = [handles EXCEPT ![r] = {}], lapsed' = lapsed, merge' = merge,
           DOMAIN event' = Requests
    PROVE  Held'
<1> USE DEF Held
<1>1. /\ reserved' \in [Coins -> [by : Requests, expired : BOOLEAN] \cup {None}]
      /\ handles' \in [Requests -> SUBSET Coins] /\ pc' \in [Requests -> Places]
  BY DEF Types, AfterRelease
<1>2. \A s \in Requests : s # r => pc'[s] = pc[s] /\ handles'[s] = handles[s] /\ Live(s)' = Live(s)
  BY DEF Types, Live
<1>3. ~Live(r)' /\ handles'[r] = {}
  BY DEF Types, Live
<1>4. ASSUME NEW c \in Coins, reserved'[c] # None
      PROVE  reserved'[c] = reserved[c] /\ reserved[c].by \in Requests \ {r}
  <2>1. reserved'[c] = reserved[c] /\ ~(c \in handles[r] /\ reserved[c].by = r)
    BY <1>4 DEF AfterRelease
  <2>2. reserved[c].by \in Requests /\ c \in handles[reserved[c].by]
    BY <1>4, <2>1 DEF Types, NoReservationLeft
  <2> QED
    BY <2>1, <2>2
<1>5. NoReservationLeft'
  BY <1>2, <1>4 DEF NoReservationLeft
<1>6. ASSUME NEW s \in Requests, NEW c \in handles'[s], Live(s)', <<s, c>> \notin lapsed
      PROVE  reserved'[c] = Reservation(s)
  <2>1. s # r /\ c \in handles[s] /\ Live(s) /\ c \in Coins
    BY <1>2, <1>3, <1>6 DEF Types
  <2>2. reserved[c] = Reservation(s)
    BY <1>6, <2>1 DEF Exclusive
  <2>3. reserved[c].by # r
    BY <2>1, <2>2 DEF Reservation
  <2> QED
    BY <2>1, <2>2, <2>3 DEF AfterRelease
<1>7. Exclusive'
  BY <1>6 DEF Exclusive, Reservation
<1>8. Types' /\ Unreserved'
  BY <1>1, <1>2, <1>3 DEF Types, Unreserved
<1> QED
  BY <1>5, <1>7, <1>8

-----------------------------------------------------------------------------
(* Reservations, step by step.                                             *)

\* Every step keeps reservations exclusive and owned.
LEMMA ReservationStep == Inv /\ [Next]_vars => Held'
<1> SUFFICES ASSUME Inv, [Next]_vars
             PROVE  Held'
  OBVIOUS
<1> USE DEF Inv, Held
\* A request goes on with the reservations it has.
<1>1. ASSUME NEW r \in Requests, NEW place \in Places, pc' = [pc EXCEPT ![r] = place],
             \/ /\ pc[r] \in {"reserved", "read", "prepared", "queued", "waiting", "solving"}
                /\ place \in {"read", "prepared", "queued", "waiting", "solving", "leaked"}
             \/ /\ pc[r] \in {"start", "admitted", "executed", "submitted"}
                /\ place \in Ended \cup {"submitted"}
             \/ pc[r] = "start" /\ place = "admitted",
             UNCHANGED <<handles, reserved, lapsed>>,
             merge' \in [Requests -> BOOLEAN], DOMAIN event' = Requests
      PROVE  Held'
  <2>1. Types'
    BY <1>1 DEF Types
  <2>2. ASSUME NEW s \in Requests, s # r PROVE pc'[s] = pc[s]
    BY <1>1, <2>2 DEF Types
  <2>3. pc'[r] = place
    BY <1>1 DEF Types
  <2>4. \A s \in Requests : Live(s)' => Live(s)
    BY <1>1, <2>2, <2>3 DEF Live, Ended
  <2>5. \A s \in Requests : Live(s) \/ pc[s] = "leaked" => Live(s)' \/ pc'[s] = "leaked"
    BY <1>1, <2>2, <2>3 DEF Live
  <2>6. \A s \in Requests : pc'[s] \in {"start", "admitted"} => pc[s] \in {"start", "admitted"}
    BY <1>1, <2>2, <2>3 DEF Ended
  <2> HIDE DEF Held
  <2> QED
    BY <1>1, <2>1, <2>4, <2>5, <2>6, KeepReservations
<1>3. ASSUME NEW r \in Requests, Fail(r), UNCHANGED <<merge, event, lapsed>>
      PROVE  Held'
  BY <1>3, ReleaseAll DEF Fail, Places, Ended, Types
<1>4. ASSUME NEW r \in Requests, Admit(r) \/ Submit(r)
      PROVE  Held'
  BY <1>1, <1>4 DEF Admit, Submit, Types, Places, Ended
<1>5. ASSUME NEW r \in Requests, Finalize(r)
      PROVE  Held'
  BY <1>1, <1>5 DEF Finalize, Types, Places, Ended
<1>6. ASSUME NEW r \in Requests, Select(r)
      PROVE  Held'
  <2>1. /\ pc[r] = "admitted" /\ UNCHANGED <<handles, event, reserved, lapsed>>
        /\ merge' = merge \/ merge' = [merge EXCEPT ![r] = TRUE]
        /\ pc' = [pc EXCEPT ![r] = "reserving"] \/ pc' = [pc EXCEPT ![r] = "failed"]
    BY <1>6 DEF Select
  <2>2. merge' \in [Requests -> BOOLEAN]
    BY <2>1 DEF Types
  <2>3. CASE pc' = [pc EXCEPT ![r] = "failed"]
    BY <1>1, <2>1, <2>2, <2>3 DEF Types, Places, Ended
  <2>4. CASE pc' = [pc EXCEPT ![r] = "reserving"]
    <3>1. Types'
      BY <2>1, <2>2, <2>4 DEF Types, Places
    <3>2. \A s \in Requests : s # r => pc'[s] = pc[s] /\ Live(s)' = Live(s)
      BY <2>4 DEF Types, Live
    <3>3. ASSUME NEW s \in Requests, NEW c \in handles[s], Live(s)', <<s, c>> \notin lapsed
          PROVE  reserved[c] = Reservation(s)
      <4>1. CASE s # r
        BY <3>2, <3>3, <4>1 DEF Exclusive
      <4>2. CASE s = r
        BY <2>1, <3>3, <4>2 DEF Unreserved
      <4> QED
        BY <4>1, <4>2
    <3>4. Exclusive'
      BY <2>1, <3>3 DEF Exclusive, Reservation
    <3>5. \A c \in Coins : reserved[c] # None => reserved[c].by \in Requests \ {r}
      BY <2>1 DEF Types, NoReservationLeft, Live
    <3>6. NoReservationLeft'
      BY <2>1, <3>2, <3>5 DEF NoReservationLeft
    <3>7. Unreserved'
      BY <2>1, <2>4, <3>2 DEF Unreserved, Types
    <3> QED
      BY <3>1, <3>4, <3>6, <3>7
  <2> QED
    BY <2>1, <2>3, <2>4
<1>7. ASSUME NEW r \in Requests, NEW c \in Coins, TryReserve(r, c)
      PROVE  Held'
  <2>1. pc[r] = "reserving" /\ UNCHANGED <<merge, event, lapsed>>
    BY <1>7 DEF TryReserve
  <2>2. CASE ~Free(c)
    <3>1. CASE Fail(r)
      BY <1>3, <2>1, <3>1
    <3>2. CASE UNCHANGED <<pc, reserved, handles>>
      <4>1. \A s \in Requests : Live(s)' = Live(s) /\ pc'[s] = pc[s]
        BY <3>2 DEF Live
      <4>2. Types'
        BY <2>1, <3>2 DEF Types
      <4> HIDE DEF Held
      <4> QED
        BY <2>1, <3>2, <4>1, <4>2, KeepReservations
    <3> QED
      BY <1>7, <2>2, <3>1, <3>2 DEF TryReserve
  <2>3. CASE Free(c)
    <3>1. /\ reserved' = [reserved EXCEPT ![c] = Reservation(r)]
          /\ handles' = [handles EXCEPT ![r] = @ \cup {c}]
          /\ pc' = [pc EXCEPT ![r] = "reserved"] \/ pc' = [pc EXCEPT ![r] = "reserving"]
      BY <1>7, <2>3 DEF TryReserve
    <3>2. Types'
      BY <2>1, <3>1 DEF Types, Places, Reservation
    <3>3. \A s \in Requests : s # r => pc'[s] = pc[s] /\ handles'[s] = handles[s] /\ Live(s)' = Live(s)
      BY <3>1 DEF Types, Live
    <3>4. Live(r)' /\ Live(r) /\ handles'[r] = handles[r] \cup {c}
      BY <2>1, <3>1 DEF Types, Live
    <3>5. ASSUME NEW s \in Requests, NEW d \in handles'[s], Live(s)', <<s, d>> \notin lapsed
          PROVE  reserved'[d] = Reservation(s)
      <4>1. CASE s = r /\ d = c
        BY <3>1, <4>1 DEF Types
      <4>2. CASE ~(s = r /\ d = c)
        <5>1. d \in handles[s] /\ Live(s) /\ d \in Coins
          BY <3>3, <3>4, <3>5, <4>2 DEF Types
        <5>2. reserved[d] = Reservation(s)
          BY <3>5, <5>1 DEF Exclusive
        <5>3. ~Free(d)
          BY <5>2, ReservationIsOne DEF Free
        <5>4. d # c
          BY <2>3, <5>3
        <5> QED
          BY <3>1, <5>1, <5>2, <5>4 DEF Types
      <4> QED
        BY <4>1, <4>2
    <3>6. Exclusive'
      BY <2>1, <3>5 DEF Exclusive, Reservation
    <3>7. NoReservationLeft'
      <4>1. ASSUME NEW d \in Coins, reserved'[d] # None
            PROVE  d \in handles'[reserved'[d].by] /\ (Live(reserved[d].by)' \/ pc'[reserved'[d].by] = "leaked")
        <5>1. CASE d = c
          BY <3>1, <3>4, <5>1 DEF Types, Reservation, Live
        <5>2. CASE d # c
          <6>1. reserved'[d] = reserved[d] /\ reserved[d].by \in Requests
            BY <3>1, <4>1, <5>2 DEF Types
          <6>2. /\ d \in handles[reserved[d].by]
                /\ Live(reserved[d].by) \/ pc[reserved[d].by] = "leaked"
            BY <4>1, <6>1 DEF NoReservationLeft
          <6>3. \A s \in Requests : handles[s] \subseteq handles'[s]
            BY <3>3, <3>4
          <6>4. \A s \in Requests : Live(s) => Live(s)'
            BY <3>3, <3>4
          <6>5. \A s \in Requests : pc[s] = "leaked" => pc'[s] = "leaked"
            BY <2>1, <3>3
          <6> DEFINE s == reserved[d].by
          <6>6. d \in handles'[s] /\ (Live(s)' \/ pc'[s] = "leaked")
            BY <6>1, <6>2, <6>3, <6>4, <6>5
          <6> QED
            BY <6>1, <6>6 DEF Live
        <5> QED
          BY <5>1, <5>2
      <4> QED
        BY <4>1 DEF NoReservationLeft, Live
    <3>8. Unreserved'
      BY <2>1, <3>1, <3>3 DEF Unreserved, Types
    <3> QED
      BY <3>2, <3>6, <3>7, <3>8
  <2> QED
    BY <2>2, <2>3
<1>8. ASSUME NEW r \in Requests, ReadSet(r)
      PROVE  Held'
  <2>1. CASE Fail(r) /\ event' = event
    BY <1>3, <1>8, <2>1 DEF ReadSet
  <2>2. CASE /\ pc' = [pc EXCEPT ![r] = "read"] \/ pc' = [pc EXCEPT ![r] = "leaked"]
             /\ UNCHANGED <<reserved, handles>> /\ DOMAIN event' = Requests
    <3>1. pc[r] = "reserved" /\ UNCHANGED <<merge, lapsed>>
      BY <1>8 DEF ReadSet
    <3> QED
      BY <1>1, <2>2, <3>1 DEF Types, Places, Ended
  <2> QED
    BY <1>8, <2>1, <2>2 DEF ReadSet, Types
<1>9. ASSUME NEW r \in Requests, RouteFails(r) \/ SendTimeout(r) \/ SolverFails(r)
      PROVE  Held'
  BY <1>3, <1>9 DEF RouteFails, SendTimeout, SolverFails
<1>10. ASSUME NEW r \in Requests, ReadPower(r) \/ Enqueue(r) \/ AskPermit(r) \/ Acquire(r)
       PROVE  Held'
  <2>1. /\ pc[r] \in {"read", "prepared", "waiting"}
        /\ UNCHANGED <<handles, reserved, lapsed, merge>> /\ DOMAIN event' = Requests
        /\ \E place \in {"prepared", "queued", "leaked", "waiting", "solving"} :
              pc' = [pc EXCEPT ![r] = place]
    BY <1>10 DEF ReadPower, Enqueue, AskPermit, Acquire, Types
  <2> QED
    BY <1>1, <2>1 DEF Types, Places, Ended
<1>11. ASSUME NEW r \in Requests, NEW ok \in BOOLEAN, SolverAnswers(r, ok)
       PROVE  Held'
  BY <1>11, ReleaseAll DEF SolverAnswers, Places, Types
\* The collector moves its entries together.
<1>12. CASE Dispatch \/ AcquireMany \/ Direct
  <2>0. PICK place \in {"waiting", "solving"} : Move(batch, place)
    BY <1>12 DEF Dispatch, AcquireMany, Direct
  <2>1. /\ pc' = [r \in Requests |-> IF r \in batch THEN place ELSE pc[r]]
        /\ UNCHANGED <<handles, reserved, lapsed, merge, event>>
        /\ \A r \in batch : pc[r] \in {"queued", "waiting"}
    BY <1>12, <2>0 DEF Dispatch, AcquireMany, Direct, Gathering, Move
  <2>2. Types'
    BY <2>1 DEF Types, Places
  <2>3. \A r \in Requests : \/ pc'[r] = pc[r]
                            \/ pc[r] \in {"queued", "waiting"} /\ pc'[r] \in {"waiting", "solving"}
    BY <2>1
  <2>4. \A r \in Requests : Live(r)' = Live(r)
    BY <2>3 DEF Live
  <2> HIDE DEF Held
  <2> QED
    BY <2>1, <2>2, <2>3, <2>4, KeepReservations
<1>13. CASE BatchFails
  <2>1. /\ pc' = [r \in Requests |-> IF r \in batch THEN "failed" ELSE pc[r]]
        /\ reserved' = [c \in Coins |-> IF reserved[c] # None /\ reserved[c].by \in batch
                                        THEN None ELSE reserved[c]]
        /\ handles' = [r \in Requests |-> IF r \in batch THEN {} ELSE handles[r]]
        /\ UNCHANGED <<merge, event, lapsed>>
    BY <1>13 DEF BatchFails, Move
  <2>2. Types'
    BY <2>1 DEF Types, Places, Ended
  <2>3. \A r \in Requests \ batch : pc'[r] = pc[r] /\ handles'[r] = handles[r] /\ Live(r)' = Live(r)
    BY <2>1 DEF Live
  <2>4. \A r \in Requests \cap batch : pc'[r] = "failed" /\ handles'[r] = {} /\ ~Live(r)'
    BY <2>1 DEF Live
  <2>5. ASSUME NEW c \in Coins, reserved'[c] # None
        PROVE  reserved'[c] = reserved[c] /\ reserved[c].by \in Requests \ batch
    BY <2>1, <2>5 DEF Types
  <2>6. NoReservationLeft'
    BY <2>3, <2>5 DEF NoReservationLeft
  <2>7. ASSUME NEW s \in Requests, NEW c \in handles'[s], Live(s)', <<s, c>> \notin lapsed
        PROVE  reserved'[c] = Reservation(s)
    <3>1. s \notin batch /\ c \in handles[s] /\ Live(s) /\ c \in Coins
      BY <2>3, <2>4, <2>7 DEF Types
    <3>2. reserved[c] = Reservation(s)
      BY <2>7, <3>1 DEF Exclusive
    <3> QED
      BY <2>1, <3>1, <3>2, ReservationIsOne
  <2>8. Exclusive'
    BY <2>1, <2>7 DEF Exclusive, Reservation
  <2>9. Unreserved'
    BY <2>3, <2>4 DEF Unreserved
  <2> QED
    BY <2>2, <2>6, <2>8, <2>9
\* Time.
<1>14. CASE CleanupExpired
  <2>1. /\ reserved' = [c \in Coins |-> IF Free(c) THEN None ELSE reserved[c]]
        /\ UNCHANGED <<pc, handles, merge, event, lapsed>>
    BY <1>14 DEF CleanupExpired, requestVars
  <2>2. Types' /\ Unreserved'
    BY <2>1 DEF Types, Unreserved
  <2>3. NoReservationLeft'
    BY <2>1 DEF NoReservationLeft, Live
  <2>4. ASSUME NEW s \in Requests, NEW c \in handles[s], Live(s), <<s, c>> \notin lapsed
        PROVE  reserved'[c] = Reservation(s)
    <3>1. reserved[c] = Reservation(s) /\ c \in Coins
      BY <2>4 DEF Exclusive, Types
    <3>2. ~Free(c)
      BY <3>1, ReservationIsOne DEF Free
    <3> QED
      BY <2>1, <3>1, <3>2
  <2>5. Exclusive'
    BY <2>1, <2>4 DEF Exclusive, Reservation, Live
  <2> QED
    BY <2>2, <2>3, <2>5
<1>15. ASSUME NEW c \in Coins, Expire(c)
       PROVE  Held'
  <2>1. /\ reserved[c] # None /\ reserved' = [reserved EXCEPT ![c].expired = TRUE]
        /\ UNCHANGED <<pc, handles, merge, event>>
        /\ lapsed' = IF Live(reserved[c].by) THEN lapsed \cup {<<reserved[c].by, c>>} ELSE lapsed
    BY <1>15 DEF Expire, requestVars
  <2>2. /\ reserved[c] \in [by : Requests, expired : BOOLEAN]
        /\ \A d \in Coins : d # c => reserved'[d] = reserved[d]
        /\ reserved'[c] = [reserved[c] EXCEPT !.expired = TRUE]
    BY <2>1 DEF Types
  <2>3. reserved'[c] \in [by : Requests, expired : BOOLEAN] /\ reserved'[c].by = reserved[c].by
    BY <2>2
  <2>4. Types' /\ Unreserved'
    BY <2>1, <2>2, <2>3 DEF Types, Unreserved
  <2>5. NoReservationLeft'
    BY <2>1, <2>2, <2>3 DEF NoReservationLeft, Live
  <2>6. ASSUME NEW s \in Requests, NEW d \in handles[s], Live(s), <<s, d>> \notin lapsed'
        PROVE  reserved'[d] = Reservation(s)
    <3>1. reserved[d] = Reservation(s) /\ d \in Coins
      BY <2>1, <2>6 DEF Exclusive, Types
    <3>2. d # c
      BY <2>1, <2>6, <3>1, ReservationIsOne
    <3> QED
      BY <2>2, <3>1, <3>2
  <2>7. Exclusive'
    BY <2>1, <2>6 DEF Exclusive, Reservation, Live
  <2> QED
    BY <2>4, <2>5, <2>7
<1>16. CASE Collect \/ Fallback \/ UNCHANGED vars
  <2>1. UNCHANGED <<pc, handles, reserved, merge, event, lapsed>>
    BY <1>16 DEF Collect, Fallback, vars, requestVars
  <2>2. Types' /\ \A r \in Requests : Live(r)' = Live(r)
    BY <2>1 DEF Types, Live
  <2> HIDE DEF Held
  <2> QED
    BY <2>1, <2>2, KeepReservations
<1> QED
  BY <1>4, <1>5, <1>6, <1>7, <1>8, <1>9, <1>10, <1>11, <1>12, <1>13, <1>14, <1>15, <1>16
     DEF Next, RequestStep

-----------------------------------------------------------------------------
(* Markers and owners.                                                     *)

Ledger == Marked /\ Spent /\ Owned /\ NonceOnce

\* A step before or after finality, in which requests keep their events.
LEMMA KeepLedger ==
    ASSUME Inv, UNCHANGED <<markers, merge, event>>,
           \A r \in Requests : pc'[r] \in HasEvent => pc[r] \in HasEvent,
           \A r \in Requests : pc'[r] \in {"executed", "submitted"} => pc[r] \in {"executed", "submitted"},
           \A r \in Requests : pc'[r] = "applied" => pc[r] = "applied"
    PROVE  Ledger'
  BY DEF Inv, Ledger, Marked, Spent, Owned, NonceOnce

\* Every step keeps what events carry and what markers say.
LEMMA LedgerStep == Inv /\ [Next]_vars => Ledger'
<1> SUFFICES ASSUME Inv, [Next]_vars PROVE Ledger'
  OBVIOUS
<1>0. Types
  BY DEF Inv, Held
<1>1. ASSUME NEW r \in Requests, NEW place \in Places, pc' = [pc EXCEPT ![r] = place],
             UNCHANGED <<markers, merge, event>>, place # "applied",
             place \in HasEvent => pc[r] \in HasEvent,
             place \in {"executed", "submitted"} => pc[r] \in {"executed", "submitted"}
      PROVE  Ledger'
  <2>1. pc'[r] = place /\ \A s \in Requests : s # r => pc'[s] = pc[s]
    BY <1>0, <1>1 DEF Types
  <2> QED
    BY <1>1, <2>1, KeepLedger
<1>2. ASSUME NEW r \in Requests, \/ Admit(r) \/ Submit(r) \/ RouteFails(r) \/ SendTimeout(r)
                                 \/ SolverFails(r) \/ Enqueue(r) \/ AskPermit(r) \/ Acquire(r)
      PROVE  Ledger'
  BY <1>1, <1>2 DEF Admit, Submit, RouteFails, SendTimeout, SolverFails, Enqueue, AskPermit, Acquire, Fail,
     ledgerVars, HasEvent, Places, Ended
<1>3. ASSUME NEW r \in Requests, NEW c \in Coins, TryReserve(r, c)
      PROVE  Ledger'
  <2>1. /\ UNCHANGED <<markers, merge, event>>
        /\ pc' = pc \/ \E place \in {"reserved", "reserving", "failed"} : pc' = [pc EXCEPT ![r] = place]
    BY <1>3 DEF TryReserve, Fail, ledgerVars
  <2>2. CASE pc' = pc
    BY <2>1, <2>2, KeepLedger
  <2>3. CASE \E place \in {"reserved", "reserving", "failed"} : pc' = [pc EXCEPT ![r] = place]
    BY <1>1, <2>1, <2>3 DEF HasEvent, Places, Ended
  <2> QED
    BY <2>1, <2>2, <2>3
<1>4. CASE Dispatch \/ AcquireMany \/ Direct \/ BatchFails
  <2>1. /\ UNCHANGED <<markers, merge, event>>
        /\ \A r \in Requests : \/ pc'[r] = pc[r] \/ pc'[r] = "failed"
                               \/ pc[r] \in {"queued", "waiting"} /\ pc'[r] \in {"waiting", "solving"}
    BY <1>4 DEF Dispatch, AcquireMany, Direct, BatchFails, Gathering, Move, ledgerVars
  <2> QED
    BY <2>1, KeepLedger DEF HasEvent
<1>5. CASE Collect \/ Fallback \/ CleanupExpired \/ (\E c \in Coins : Expire(c)) \/ UNCHANGED vars
  <2>1. UNCHANGED <<pc, markers, merge, event>>
    BY <1>5 DEF Collect, Fallback, CleanupExpired, Expire, vars, requestVars, ledgerVars
  <2> QED
    BY <2>1, KeepLedger
<1>6. ASSUME NEW r \in Requests, Select(r)
      PROVE  Ledger'
  <2>1. /\ pc[r] = "admitted" /\ UNCHANGED <<markers, event>>
        /\ merge' = merge \/ merge' = [merge EXCEPT ![r] = TRUE]
        /\ \E place \in {"reserving", "failed"} : pc' = [pc EXCEPT ![r] = place]
    BY <1>6 DEF Select, ledgerVars
  <2>2. \A s \in Requests : s # r => pc'[s] = pc[s] /\ merge'[s] = merge[s]
    BY <1>0, <2>1 DEF Types
  <2>3. pc'[r] \in {"reserving", "failed"}
    BY <1>0, <2>1 DEF Types
  <2>4. Marked' /\ Spent' /\ Owned'
    BY <2>1, <2>2, <2>3 DEF Inv, Marked, Spent, Owned, HasEvent
  <2>5. NonceOnce'
    BY <2>1, <2>2, <2>3 DEF Inv, NonceOnce
  <2> QED
    BY <2>4, <2>5 DEF Ledger
<1>7. ASSUME NEW r \in Requests, ReadSet(r)
      PROVE  Ledger'
  <2>1. CASE pc' = [pc EXCEPT ![r] = "leaked"] /\ event' = event
    BY <1>1, <1>7, <2>1 DEF ReadSet, ledgerVars, HasEvent, Places, Ended
  <2>2. CASE Fail(r) /\ event' = event
    BY <1>1, <1>7, <2>2 DEF ReadSet, Fail, ledgerVars, HasEvent, Places, Ended
  <2>3. CASE /\ \E spend : event' = [event EXCEPT ![r] =
                   [spend |-> spend, ok |-> TRUE, marker |-> IF merge[r] THEN None ELSE Nonce[r],
                    power |-> None]]
             /\ pc' = [pc EXCEPT ![r] = "read"]
    <3>1. UNCHANGED <<markers, merge>>
      BY <1>7 DEF ReadSet, ledgerVars
    <3>2. \A s \in Requests : s # r => pc'[s] = pc[s] /\ event'[s] = event[s]
      BY <1>0, <2>3 DEF Types
    <3>3. /\ pc'[r] = "read" /\ DOMAIN event'[r] = {"spend", "ok", "marker", "power"}
          /\ event'[r].marker = IF merge[r] THEN None ELSE Nonce[r]
      BY <1>0, <2>3 DEF Types
    <3>4. Marked' /\ Spent' /\ Owned' /\ NonceOnce'
      BY <3>1, <3>2, <3>3 DEF Inv, Marked, Spent, Owned, NonceOnce
    <3> QED
      BY <3>4 DEF Ledger
  <2> QED
    BY <1>7, <2>1, <2>2, <2>3 DEF ReadSet
<1>8. ASSUME NEW r \in Requests, NEW ok \in BOOLEAN, SolverAnswers(r, ok)
      PROVE  Ledger'
  <2>1. /\ pc[r] = "solving" /\ (ok => Solvable(r)) /\ pc' = [pc EXCEPT ![r] = "executed"]
        /\ event' = [event EXCEPT ![r].ok = ok] /\ UNCHANGED <<markers, merge>>
    BY <1>8 DEF SolverAnswers, ledgerVars
  <2>2. \A s \in Requests : s # r => pc'[s] = pc[s] /\ event'[s] = event[s]
    BY <1>0, <2>1 DEF Types
  <2>3. /\ DOMAIN event[r] = {"spend", "ok", "marker", "power"}
        /\ event[r].marker = IF merge[r] THEN None ELSE Nonce[r]
    BY <2>1 DEF Inv, Marked, HasEvent
  <2>4. /\ pc'[r] = "executed" /\ event'[r] = [event[r] EXCEPT !.ok = ok]
    BY <1>0, <2>1 DEF Types
  <2>5. /\ DOMAIN event'[r] = {"spend", "ok", "marker", "power"} /\ event'[r].marker = event[r].marker
        /\ event'[r].spend = event[r].spend /\ event'[r].ok = ok
    BY <2>3, <2>4
  <2>6. Marked' /\ Spent' /\ NonceOnce'
    BY <2>1, <2>2, <2>3, <2>4, <2>5 DEF Inv, Marked, Spent, NonceOnce
  <2>7. ok /\ ~merge[r] => \A c \in DOMAIN event[r].spend : event[r].spend[c].owner = "sender"
    BY <2>1 DEF Solvable
  <2>8. Owned'
    BY <2>1, <2>2, <2>4, <2>5, <2>7 DEF Inv, Owned
  <2> QED
    BY <2>6, <2>8 DEF Ledger
<1>9. ASSUME NEW r \in Requests, Finalize(r)
      PROVE  Ledger'
  <2>1. pc[r] = "submitted" /\ UNCHANGED <<merge, event>>
    BY <1>9 DEF Finalize
  <2>2. CASE ~(event[r].ok /\ Current(r))
    BY <1>1, <1>9, <2>1, <2>2 DEF Finalize, ledgerVars, HasEvent, Places, Ended
  <2>3. CASE event[r].ok /\ Current(r)
    <3>1. /\ markers' = markers \cup ({event[r].marker} \ {None})
          /\ pc' = [pc EXCEPT ![r] = "applied"]
          /\ event[r].marker = None \/ event[r].marker \notin markers
      BY <1>9, <2>3 DEF Finalize, Current
    <3>2. pc'[r] = "applied" /\ \A s \in Requests : s # r => pc'[s] = pc[s]
      BY <1>0, <3>1 DEF Types
    <3>3. event[r].marker = IF merge[r] THEN None ELSE Nonce[r]
      BY <2>1 DEF Inv, Marked, HasEvent
    <3>4. Marked' /\ Owned'
      BY <2>1, <3>2 DEF Inv, Marked, Owned, HasEvent
    <3>5. Spent'
      BY <2>1, <3>1, <3>2, <3>3 DEF Inv, Spent
    <3>6. NonceOnce'
      <4>1. ASSUME NEW s \in Requests, s # r, Nonce[r] = Nonce[s], Nonce[r] # None, ~merge[r], ~merge[s]
            PROVE  pc[s] # "applied"
        BY <3>1, <3>3, <4>1 DEF Inv, Spent
      <4> QED
        BY <2>1, <3>2, <4>1 DEF Inv, NonceOnce
    <3> QED
      BY <3>4, <3>5, <3>6 DEF Ledger
  <2> QED
    BY <2>2, <2>3
<1>10. ASSUME NEW r \in Requests, ReadPower(r)
       PROVE  Ledger'
  <2>1. PICK paid : event' = [event EXCEPT ![r].power = paid]
    BY <1>10 DEF ReadPower
  <2>2. pc[r] = "read" /\ pc' = [pc EXCEPT ![r] = "prepared"] /\ UNCHANGED <<markers, merge>>
    BY <1>10 DEF ReadPower, ledgerVars
  <2>3. \A s \in Requests : s # r => pc'[s] = pc[s] /\ event'[s] = event[s]
    BY <1>0, <2>1, <2>2 DEF Types
  <2>4. /\ DOMAIN event[r] = {"spend", "ok", "marker", "power"}
        /\ event[r].marker = IF merge[r] THEN None ELSE Nonce[r]
    BY <2>2 DEF Inv, Marked, HasEvent
  <2>5. pc'[r] = "prepared" /\ event'[r] = [event[r] EXCEPT !.power = paid]
    BY <1>0, <2>1, <2>2 DEF Types
  <2>6. DOMAIN event'[r] = {"spend", "ok", "marker", "power"} /\ event'[r].marker = event[r].marker
    BY <2>4, <2>5
  <2>7. Marked' /\ Spent' /\ Owned' /\ NonceOnce'
    BY <2>2, <2>3, <2>4, <2>5, <2>6 DEF Inv, Marked, Spent, Owned, NonceOnce
  <2> QED
    BY <2>7 DEF Ledger
<1> QED
  BY <1>2, <1>3, <1>4, <1>5, <1>6, <1>7, <1>8, <1>9, <1>10 DEF Next, RequestStep

-----------------------------------------------------------------------------
(* The collector: what it holds is queued or with the solver, once.        *)

Collected ==
    /\ queue \in Seq(Requests) /\ batch \in SUBSET Requests /\ line \in Seq(SUBSET Requests)
    /\ \A i \in 1 .. Len(queue) :
          pc[queue[i]] = "queued" /\ Route[queue[i]] = "collected" /\ queue[i] \notin batch
    /\ \A i, j \in 1 .. Len(queue) : queue[i] = queue[j] => i = j
    /\ \A r \in batch : pc[r] \in {"queued", "waiting", "solving"} /\ Route[r] = "collected"

\* Every step keeps what the collector holds queued or solving, once.
LEMMA CollectedStep == Types /\ Collected /\ [Next]_vars => Collected'
<1> SUFFICES ASSUME Types, Collected, [Next]_vars PROVE Collected'
  OBVIOUS
<1>0. \A i \in 1 .. Len(queue) : queue[i] \in Requests
  BY DEF Collected
\* Requests outside the collector come and go.
<1>1. ASSUME NEW r \in Requests,
             pc[r] \notin {"queued", "waiting", "solving"} \/ Route[r] # "collected",
             UNCHANGED <<queue, batch>>, line' \in Seq(SUBSET Requests),
             pc' = pc \/ \E place \in Places : pc' = [pc EXCEPT ![r] = place]
      PROVE  Collected'
  <2>1. \A s \in Requests : s # r => pc'[s] = pc[s]
    BY <1>1 DEF Types
  <2>2. r \notin batch /\ \A i \in 1 .. Len(queue) : queue[i] # r
    BY <1>1 DEF Collected
  <2>3. \A i \in 1 .. Len(queue) : pc'[queue[i]] = pc[queue[i]]
    BY <1>0, <2>1, <2>2
  <2>4. \A s \in batch : pc'[s] = pc[s]
    BY <2>1, <2>2 DEF Collected
  <2> QED
    BY <1>1, <2>3, <2>4 DEF Collected
<1>l. line \in Seq(SUBSET Requests)
  BY DEF Collected
<1>2. ASSUME NEW r \in Requests, Admit(r) \/ RouteFails(r) \/ SendTimeout(r) \/ ReadPower(r)
      PROVE  Collected'
  BY <1>1, <1>2, <1>l DEF Admit, RouteFails, SendTimeout, ReadPower, Fail, collectorVars, Places, Ended
<1>11. ASSUME NEW r \in Requests, Submit(r)
       PROVE  Collected'
  <2>1. pc[r] = "executed" /\ \E place \in {"submitted", "failed"} : pc' = [pc EXCEPT ![r] = place]
    BY <1>11 DEF Submit
  <2>2. r \notin batch
    BY <2>1 DEF Collected
  <2>3. UNCHANGED <<queue, batch, line>>
    BY <1>11, <2>2 DEF Submit, ReturnPermit, collectorVars
  <2> QED
    BY <1>1, <1>l, <2>1, <2>3 DEF Places, Ended
<1>12. ASSUME NEW r \in Requests, AskPermit(r) \/ Acquire(r)
       PROVE  Collected'
  <2>1. /\ Route[r] # "collected" /\ UNCHANGED <<queue, batch>>
        /\ \E place \in {"waiting", "solving"} : pc' = [pc EXCEPT ![r] = place]
    BY <1>12 DEF AskPermit, Acquire
  <2>2. {r} \in SUBSET Requests
    OBVIOUS
  <2>3. line' = Append(line, {r}) \/ (line # << >> /\ line' = Tail(line))
    BY <1>12 DEF AskPermit, Acquire
  <2>4. line' \in Seq(SUBSET Requests)
    BY <1>l, <2>2, <2>3
  <2> QED
    BY <1>1, <2>1, <2>4 DEF Places, Ended
<1>3. ASSUME NEW r \in Requests, NEW c \in Coins, TryReserve(r, c)
      PROVE  Collected'
  <2>1. /\ UNCHANGED <<queue, batch, line>> /\ pc[r] = "reserving"
        /\ pc' = pc \/ \E place \in {"reserved", "reserving", "failed"} : pc' = [pc EXCEPT ![r] = place]
    BY <1>3 DEF TryReserve, Fail, collectorVars
  <2> QED
    BY <1>1, <1>l, <2>1 DEF Places, Ended
<1>4. ASSUME NEW r \in Requests, Select(r) \/ ReadSet(r) \/ Finalize(r)
      PROVE  Collected'
  <2>1. /\ UNCHANGED <<queue, batch, line>> /\ pc[r] \in {"admitted", "reserved", "submitted"}
        /\ \E place \in Places : pc' = [pc EXCEPT ![r] = place]
    BY <1>4 DEF Select, ReadSet, Finalize, Fail, collectorVars, Places, Ended
  <2> QED
    BY <1>1, <1>l, <2>1
<1>5. ASSUME NEW r \in Requests, Enqueue(r)
      PROVE  Collected'
  <2>1. pc[r] = "prepared" /\ Route[r] = "collected" /\ UNCHANGED <<batch, line>>
    BY <1>5 DEF Enqueue
  <2>2. CASE UNCHANGED queue /\ pc' = [pc EXCEPT ![r] = "leaked"]
    BY <1>1, <1>l, <2>1, <2>2 DEF Places, Ended
  <2>3. CASE queue' = Append(queue, r) /\ pc' = [pc EXCEPT ![r] = "queued"]
    <3>1. /\ queue' \in Seq(Requests) /\ Len(queue') = Len(queue) + 1 /\ Len(queue) \in Nat
          /\ \A i \in 1 .. Len(queue) : queue'[i] = queue[i]
          /\ queue'[Len(queue) + 1] = r
      BY <2>3 DEF Collected
    <3>2. \A i \in 1 .. Len(queue') : i \in 1 .. Len(queue) \/ i = Len(queue) + 1
      BY <3>1
    <3>3. r \notin batch /\ \A i \in 1 .. Len(queue) : queue[i] # r
      BY <2>1 DEF Collected
    <3>4. pc'[r] = "queued" /\ \A s \in Requests : s # r => pc'[s] = pc[s]
      BY <2>3 DEF Types
    <3>5. \A i \in 1 .. Len(queue') :
             pc'[queue'[i]] = "queued" /\ Route[queue'[i]] = "collected" /\ queue'[i] \notin batch
      BY <1>0, <2>1, <3>1, <3>2, <3>3, <3>4 DEF Collected
    <3>6. \A i, j \in 1 .. Len(queue') : queue'[i] = queue'[j] => i = j
      BY <3>1, <3>2, <3>3 DEF Collected
    <3>7. \A s \in batch : pc'[s] = pc[s]
      BY <3>3, <3>4 DEF Collected
    <3> QED
      BY <1>l, <2>1, <3>1, <3>5, <3>6, <3>7 DEF Collected
  <2> QED
    BY <1>5, <2>2, <2>3 DEF Enqueue
<1>6. CASE Collect
  <2>1. queue # << >> /\ batch' = batch \cup {Head(queue)} /\ queue' = Tail(queue) /\ pc' = pc
        /\ line' = line
    BY <1>6 DEF Collect, requestVars
  <2>2. /\ queue' \in Seq(Requests) /\ Len(queue') = Len(queue) - 1 /\ Len(queue) \in Nat \ {0}
        /\ \A i \in 1 .. Len(queue') : queue'[i] = queue[i + 1] /\ i + 1 \in 1 .. Len(queue)
        /\ Head(queue) = queue[1] /\ 1 \in 1 .. Len(queue)
    BY <2>1 DEF Collected
  <2>3. \A i \in 1 .. Len(queue') : queue'[i] # Head(queue)
    BY <2>2 DEF Collected
  <2>4. \A i \in 1 .. Len(queue') :
           pc'[queue'[i]] = "queued" /\ Route[queue'[i]] = "collected" /\ queue'[i] \notin batch'
    BY <2>1, <2>2, <2>3 DEF Collected
  <2>5. \A i, j \in 1 .. Len(queue') : queue'[i] = queue'[j] => i = j
    <3>1. \A i, j \in 1 .. Len(queue) : queue[i] = queue[j] => i = j
      BY DEF Collected
    <3> SUFFICES ASSUME NEW i \in 1 .. Len(queue'), NEW j \in 1 .. Len(queue'), queue'[i] = queue'[j]
                 PROVE  i = j
      OBVIOUS
    <3>2. i + 1 = j + 1
      BY <2>2, <3>1
    <3> QED
      BY <3>2
  <2>6. /\ batch' \in SUBSET Requests
        /\ \A r \in batch' : pc'[r] \in {"queued", "waiting", "solving"} /\ Route[r] = "collected"
    BY <1>0, <2>1, <2>2 DEF Collected
  <2> QED
    BY <1>l, <2>1, <2>2, <2>4, <2>5, <2>6 DEF Collected
<1>7. CASE Dispatch \/ AcquireMany \/ Direct
  <2>0. PICK place \in {"waiting", "solving"} : Move(batch, place)
    BY <1>7 DEF Dispatch, AcquireMany, Direct
  <2>1. /\ UNCHANGED <<queue, batch>>
        /\ pc' = [r \in Requests |-> IF r \in batch THEN place ELSE pc[r]]
    BY <1>7, <2>0 DEF Dispatch, AcquireMany, Direct, Move, collectorVars
  <2>2. \/ line' = line \/ line' = Append(line, batch)
        \/ line # << >> /\ line' = Tail(line)
    BY <1>7 DEF Dispatch, AcquireMany, Direct, collectorVars
  <2>3. line' \in Seq(SUBSET Requests)
    <3>1. batch \in SUBSET Requests
      BY DEF Collected
    <3> QED
      BY <1>l, <2>2, <3>1
  <2>4. \A i \in 1 .. Len(queue) : pc'[queue[i]] = pc[queue[i]]
    BY <1>0, <2>1 DEF Collected
  <2>5. \A r \in batch : pc'[r] = place
    BY <2>1 DEF Collected
  <2> QED
    BY <2>1, <2>3, <2>4, <2>5 DEF Collected
<1>8. CASE BatchFails
  <2>1. /\ queue' = queue /\ batch' = {} /\ line' = line
        /\ pc' = [r \in Requests |-> IF r \in batch THEN "failed" ELSE pc[r]]
    BY <1>8 DEF BatchFails, Move
  <2> QED
    BY <1>0, <1>l, <2>1 DEF Collected
\* An answer takes its entry out of the batch.
<1>9. ASSUME NEW r \in Requests, SolverFails(r) \/ \E ok \in BOOLEAN : SolverAnswers(r, ok)
      PROVE  Collected'
  <2>0. /\ pc[r] = "solving" /\ \E place \in {"executed", "failed"} : pc' = [pc EXCEPT ![r] = place]
        /\ ReturnPermit(r) \/ (Route[r] = "spawned" /\ UNCHANGED collectorVars)
    BY <1>9 DEF SolverFails, SolverAnswers, Fail
  <2>1. queue' = queue /\ batch' = batch \ {r} /\ line' = line
    <3>1. CASE ReturnPermit(r)
      BY <3>1 DEF ReturnPermit
    <3>2. CASE Route[r] = "spawned" /\ UNCHANGED collectorVars
      <4>1. r \notin batch
        BY <3>2 DEF Collected
      <4> QED
        BY <3>2, <4>1 DEF collectorVars
    <3> QED
      BY <2>0, <3>1, <3>2
  <2>2. \A s \in Requests : s # r => pc'[s] = pc[s]
    BY <2>0 DEF Types
  <2>3. \A i \in 1 .. Len(queue) : queue[i] # r
    BY <2>0 DEF Collected
  <2> QED
    BY <1>0, <1>l, <2>1, <2>2, <2>3 DEF Collected
<1>10. CASE Fallback \/ CleanupExpired \/ (\E c \in Coins : Expire(c)) \/ UNCHANGED vars
  <2>1. UNCHANGED <<pc, queue, batch, line>>
    BY <1>10 DEF Fallback, CleanupExpired, Expire, vars, requestVars, collectorVars
  <2> QED
    BY <2>1 DEF Collected
<1> QED
  BY <1>2, <1>3, <1>4, <1>5, <1>6, <1>7, <1>8, <1>9, <1>10, <1>11, <1>12 DEF Next, RequestStep

-----------------------------------------------------------------------------
(* Power.                                                                  *)

Payers == {r \in Requests : pc[r] = "applied" /\ ~merge[r]}

\* From the read of the PowerState on an event carries what was read.
HasPower == {"prepared", "queued", "waiting", "solving", "executed", "submitted"}

\* The event of a registered sender carries the power that was read, unless it
\* merges, and a good result had some left.
Powered ==
    /\ power \in Nat \cup {None}
    /\ \A r \in Requests : pc[r] \in HasPower => (event[r].power = None <=> merge[r] \/ power = None)
    /\ \A r \in Requests : pc[r] \in {"executed", "submitted"} /\ event[r].ok => event[r].power # 0
    /\ PowerExact

\* In the beginning no power is spent.
LEMMA InitPowered == Init => Powered
<1> SUFFICES ASSUME Init PROVE Powered
  OBVIOUS
<1>1. \A r \in Requests : pc[r] = "start"
  BY DEF Init
<1>2. {r \in Requests : pc[r] = "applied" /\ ~merge[r]} = {}
  BY <1>1
<1>3. power \in {None, Power} /\ Power \in Nat
  BY TransfersAssumption DEF Init
<1>4. PowerExact
  BY <1>2, <1>3, FS_EmptySet DEF PowerExact
<1> QED
  BY <1>1, <1>3, <1>4 DEF Powered, HasPower

\* A step in which nobody pays.
LEMMA KeepPower ==
    ASSUME Powered, power' = power,
           \A r \in Requests : r \in Payers' <=> r \in Payers,
           \A r \in Requests : pc'[r] \in HasPower =>
               pc[r] \in HasPower /\ merge'[r] = merge[r] /\ event'[r].power = event[r].power,
           \A r \in Requests : pc'[r] \in {"executed", "submitted"} /\ event'[r].ok =>
               event'[r].power # 0
    PROVE  Powered'
<1>1. {r \in Requests : pc'[r] = "applied" /\ ~merge'[r]} = {r \in Requests : pc[r] = "applied" /\ ~merge[r]}
  BY DEF Payers
<1>2. PowerExact'
  BY <1>1 DEF Powered, PowerExact
<1> QED
  BY <1>2 DEF Powered

\* Every step keeps power in step with the transfers applied.
LEMMA PowerStep == Inv /\ Collected /\ Powered /\ [Next]_vars => Powered'
<1> SUFFICES ASSUME Inv, Collected, Powered, [Next]_vars PROVE Powered'
  OBVIOUS
<1>0. Types
  BY DEF Inv, Held
<1>1. ASSUME UNCHANGED <<power, merge, event>>,
             \A r \in Requests : pc'[r] \in HasPower => pc[r] \in HasPower,
             \A r \in Requests : pc'[r] \in {"executed", "submitted"} => pc[r] \in {"executed", "submitted"},
             \A r \in Requests : pc'[r] = "applied" <=> pc[r] = "applied"
      PROVE  Powered'
  BY <1>1, KeepPower DEF Powered, Payers
<1>2. ASSUME NEW r \in Requests, NEW place \in Places, pc' = [pc EXCEPT ![r] = place],
             UNCHANGED <<power, merge, event>>, place # "applied", pc[r] # "applied",
             place \in HasPower => pc[r] \in HasPower,
             place \in {"executed", "submitted"} => pc[r] \in {"executed", "submitted"}
      PROVE  Powered'
  <2>1. pc'[r] = place /\ \A s \in Requests : s # r => pc'[s] = pc[s]
    BY <1>0, <1>2 DEF Types
  <2> QED
    BY <1>1, <1>2, <2>1
<1>3. ASSUME NEW r \in Requests, \/ Admit(r) \/ Submit(r) \/ RouteFails(r) \/ SendTimeout(r)
                                 \/ SolverFails(r) \/ Enqueue(r) \/ AskPermit(r) \/ Acquire(r)
      PROVE  Powered'
  BY <1>2, <1>3 DEF Admit, Submit, RouteFails, SendTimeout, SolverFails, Enqueue, AskPermit, Acquire, Fail,
     ledgerVars, HasPower, Places, Ended
<1>4. ASSUME NEW r \in Requests, NEW c \in Coins, TryReserve(r, c)
      PROVE  Powered'
  <2>1. /\ UNCHANGED <<power, merge, event>> /\ pc[r] = "reserving"
        /\ pc' = pc \/ \E place \in {"reserved", "reserving", "failed"} : pc' = [pc EXCEPT ![r] = place]
    BY <1>4 DEF TryReserve, Fail, ledgerVars
  <2>2. CASE pc' = pc
    BY <1>1, <2>1, <2>2
  <2>3. CASE \E place \in {"reserved", "reserving", "failed"} : pc' = [pc EXCEPT ![r] = place]
    BY <1>2, <2>1, <2>3 DEF HasPower, Places, Ended
  <2> QED
    BY <2>1, <2>2, <2>3
<1>5. CASE Dispatch \/ AcquireMany \/ Direct
  <2>1. /\ UNCHANGED <<power, merge, event>>
        /\ \A r \in Requests : \/ pc'[r] = pc[r]
                               \/ pc[r] \in {"queued", "waiting"} /\ pc'[r] \in {"waiting", "solving"}
    BY <1>5 DEF Dispatch, AcquireMany, Direct, Gathering, Move, ledgerVars
  <2> QED
    BY <1>1, <2>1 DEF HasPower
<1>6. CASE Collect \/ Fallback \/ CleanupExpired \/ (\E c \in Coins : Expire(c)) \/ UNCHANGED vars
  <2>1. UNCHANGED <<pc, power, merge, event>>
    BY <1>6 DEF Collect, Fallback, CleanupExpired, Expire, vars, requestVars, ledgerVars
  <2> QED
    BY <1>1, <2>1
<1>7. ASSUME NEW r \in Requests, Select(r)
      PROVE  Powered'
  <2>1. /\ pc[r] = "admitted" /\ UNCHANGED <<power, event>>
        /\ merge' = merge \/ merge' = [merge EXCEPT ![r] = TRUE]
        /\ \E place \in {"reserving", "failed"} : pc' = [pc EXCEPT ![r] = place]
    BY <1>7 DEF Select, ledgerVars
  <2>2. \A s \in Requests : s # r => pc'[s] = pc[s] /\ merge'[s] = merge[s]
    BY <1>0, <2>1 DEF Types
  <2>3. pc'[r] \in {"reserving", "failed"}
    BY <1>0, <2>1 DEF Types
  <2> QED
    BY <2>1, <2>2, <2>3, KeepPower DEF Powered, Payers, HasPower
<1>8. ASSUME NEW r \in Requests, ReadSet(r)
      PROVE  Powered'
  <2>1. /\ pc[r] = "reserved" /\ UNCHANGED <<power, merge>>
        /\ \E place \in {"read", "failed", "leaked"} : pc' = [pc EXCEPT ![r] = place]
        /\ event' = event \/ \E e : event' = [event EXCEPT ![r] = e]
    BY <1>8 DEF ReadSet, Fail, ledgerVars
  <2>2. \A s \in Requests : s # r => pc'[s] = pc[s] /\ event'[s] = event[s]
    BY <1>0, <2>1 DEF Types
  <2>3. pc'[r] \in {"read", "failed", "leaked"}
    BY <1>0, <2>1 DEF Types
  <2> QED
    BY <2>1, <2>2, <2>3, KeepPower DEF Powered, Payers, HasPower
<1>12. ASSUME NEW r \in Requests, ReadPower(r)
       PROVE  Powered'
  <2>1. /\ pc[r] = "read" /\ pc' = [pc EXCEPT ![r] = "prepared"] /\ UNCHANGED <<power, merge>>
        /\ event' = [event EXCEPT ![r].power = IF merge[r] THEN None ELSE power]
    BY <1>12 DEF ReadPower, ledgerVars
  <2>2. \A s \in Requests : s # r => pc'[s] = pc[s] /\ event'[s] = event[s]
    BY <1>0, <2>1 DEF Types
  <2>3. DOMAIN event[r] = {"spend", "ok", "marker", "power"}
    BY <2>1 DEF Inv, Marked, HasEvent
  <2>4. pc'[r] = "prepared" /\ event'[r] = [event[r] EXCEPT !.power = IF merge[r] THEN None ELSE power]
    BY <1>0, <2>1 DEF Types
  <2>5. event'[r].power = IF merge[r] THEN None ELSE power
    BY <2>3, <2>4
  <2>6. {s \in Requests : pc'[s] = "applied" /\ ~merge'[s]} = {s \in Requests : pc[s] = "applied" /\ ~merge[s]}
    BY <2>1, <2>2, <2>4
  <2>7. PowerExact'
    BY <2>1, <2>6 DEF Powered, PowerExact
  <2>8. \A s \in Requests : pc'[s] \in HasPower => (event'[s].power = None <=> merge'[s] \/ power' = None)
    BY <2>1, <2>2, <2>5 DEF Powered
  <2>9. \A s \in Requests : pc'[s] \in {"executed", "submitted"} /\ event'[s].ok => event'[s].power # 0
    BY <2>2, <2>4 DEF Powered
  <2> QED
    BY <2>1, <2>7, <2>8, <2>9 DEF Powered
<1>9. ASSUME NEW r \in Requests, NEW ok \in BOOLEAN, SolverAnswers(r, ok)
      PROVE  Powered'
  <2>1. /\ pc[r] = "solving" /\ (ok => Solvable(r)) /\ pc' = [pc EXCEPT ![r] = "executed"]
        /\ event' = [event EXCEPT ![r].ok = ok] /\ UNCHANGED <<power, merge>>
    BY <1>9 DEF SolverAnswers, ledgerVars
  <2>2. \A s \in Requests : s # r => pc'[s] = pc[s] /\ event'[s] = event[s]
    BY <1>0, <2>1 DEF Types
  <2>3. DOMAIN event[r] = {"spend", "ok", "marker", "power"}
    BY <2>1 DEF Inv, Marked, HasEvent
  <2>4. pc'[r] = "executed" /\ event'[r] = [event[r] EXCEPT !.ok = ok]
    BY <1>0, <2>1 DEF Types
  <2>5. event'[r].power = event[r].power /\ event'[r].ok = ok
    BY <2>3, <2>4
  <2>6. ok => event[r].power # 0
    BY <2>1 DEF Solvable
  <2>7. \A s \in Requests : s \in Payers' <=> s \in Payers
    BY <2>1, <2>2, <2>4 DEF Payers
  <2> QED
    BY <2>1, <2>2, <2>4, <2>5, <2>6, <2>7, KeepPower DEF Powered, HasPower
<1>10. ASSUME NEW r \in Requests, Finalize(r)
       PROVE  Powered'
  <2>1. pc[r] = "submitted" /\ UNCHANGED <<merge, event>>
    BY <1>10 DEF Finalize
  <2>2. CASE ~(event[r].ok /\ Current(r))
    BY <1>2, <1>10, <2>1, <2>2 DEF Finalize, ledgerVars, HasPower, Places, Ended
  <2>3. CASE event[r].ok /\ Current(r)
    <3>1. /\ power' = IF event[r].power = None THEN power ELSE event[r].power - 1
          /\ pc' = [pc EXCEPT ![r] = "applied"]
          /\ event[r].power = None \/ power = event[r].power
      BY <1>10, <2>3 DEF Finalize, Current
    <3>2. pc'[r] = "applied" /\ \A s \in Requests : s # r => pc'[s] = pc[s]
      BY <1>0, <3>1 DEF Types
    <3>3. /\ event[r].power = None <=> merge[r] \/ power = None
          /\ event[r].power # 0
      BY <2>1, <2>3 DEF Powered, HasPower
    <3>4. None \notin Nat /\ IsFiniteSet(Requests) /\ Power \in Nat
      BY TransfersAssumption
    <3>5. /\ power' \in Nat \cup {None} /\ (power' = None <=> power = None)
          /\ power # None /\ ~merge[r] => power' = power - 1
          /\ merge[r] => power' = power
      BY <3>1, <3>3, <3>4 DEF Powered
    <3>6. IsFiniteSet(Payers) /\ r \notin Payers
      BY <2>1, <3>4, FS_Subset DEF Payers
    <3>7. Payers' = IF merge[r] THEN Payers ELSE Payers \cup {r}
      BY <2>1, <3>2 DEF Payers
    <3>8. Cardinality(Payers') = IF merge[r] THEN Cardinality(Payers) ELSE Cardinality(Payers) + 1
      BY <3>6, <3>7, FS_AddElement
    <3>9. Cardinality(Payers) \in Nat
      BY <3>6, FS_CardinalityType
    <3>10. power # None => power \in Nat /\ power + Cardinality(Payers) = Power
      BY DEF Powered, PowerExact, Payers
    <3>11. power' # None => power' + Cardinality(Payers') = Power
      BY <3>4, <3>5, <3>8, <3>9, <3>10
    <3>12. PowerExact'
      BY <3>11 DEF PowerExact, Payers
    <3> QED
      BY <2>1, <3>2, <3>5, <3>12 DEF Powered, HasPower
  <2> QED
    BY <2>2, <2>3
<1>11. CASE BatchFails
  <2>1. /\ UNCHANGED <<power, merge, event>>
        /\ \A r \in Requests : pc'[r] = IF r \in batch THEN "failed" ELSE pc[r]
    BY <1>11 DEF BatchFails, Move, ledgerVars
  <2>2. \A r \in Requests \cap batch : pc[r] # "applied"
    BY DEF Collected
  <2> QED
    BY <1>1, <2>1, <2>2 DEF HasPower
<1> QED
  BY <1>3, <1>4, <1>5, <1>6, <1>7, <1>8, <1>9, <1>10, <1>11, <1>12 DEF Next, RequestStep

-----------------------------------------------------------------------------
\* Inv holds in every reachable state.
LEMMA Invariance == Spec => []Inv
<1>1. Init => Inv
  BY InitInv
<1>2. Inv /\ [Next]_vars => Inv'
  BY ReservationStep, LedgerStep DEF Inv, Ledger
<1> QED
  BY <1>1, <1>2, PTL DEF Spec

\* While a reservation's TTL lasts nobody else gets its coin, nor frees it: the
\* id check of CoinReservationManager::release and the atomic entry of
\* try_reserve, for any number of requests and coins.
THEOREM ExclusiveHolds == Spec => []Exclusive
<1>1. Inv => Exclusive
  BY DEF Inv, Held
<1> QED
  BY <1>1, Invariance, PTL

\* No path through preparation, the collector and the solver call ends a request
\* and keeps its reservations, apart from the two error returns that leak
\* (ReservationGuard and release_batch).
THEOREM NoReservationLeftHolds == Spec => []NoReservationLeft
<1>1. Inv => NoReservationLeft
  BY DEF Inv, Held
<1> QED
  BY <1>1, Invariance, PTL

\* Two single-coin transfers with one client_nonce are never both applied: the
\* second finds the marker that apply_committed_events would have to create.
THEOREM NonceOnceHolds == Spec => []NonceOnce
<1>1. Inv => NonceOnce
  BY DEF Inv
<1> QED
  BY <1>1, Invariance, PTL

\* Power is spent exactly by the single-coin transfers that take effect, however
\* many tasks of one sender read the same PowerState (decrement_power against the
\* stale-read check of apply_committed_events); merges and what is refused or
\* stale at finality cost nothing.
THEOREM PowerExactHolds == Spec => []PowerExact
<1>1. Init => Collected /\ Powered
  BY InitPowered DEF Init, Collected
<1>2. Inv /\ Collected /\ Powered /\ [Next]_vars => (Collected /\ Powered)'
  BY PowerStep, CollectedStep DEF Inv, Held
<1>3. Powered => PowerExact
  BY DEF Powered
<1> QED
  BY <1>1, <1>2, <1>3, Invariance, PTL DEF Spec

\* A single-coin transfer is applied only to coins of its sender: what the
\* runtime checked is still so at finality, by the stale-read check.
THEOREM OwnCoinsOnlyHolds == Spec => OwnCoinsOnly
<1> DEFINE own == \A r \in Requests : pc[r] = "submitted" /\ pc'[r] = "applied" /\ ~merge[r]
                     => \A c \in DOMAIN event[r].spend : coin[c].owner = "sender"
<1>1. Inv /\ [Next]_vars => [own]_vars
  <2> SUFFICES ASSUME Inv, Next, NEW r \in Requests, pc[r] = "submitted", pc'[r] = "applied", ~merge[r],
                      NEW c \in DOMAIN event[r].spend
               PROVE  coin[c].owner = "sender"
    OBVIOUS
  <2>0. Types
    BY DEF Inv, Held
  <2>1. ASSUME NEW s \in Requests, Finalize(s) PROVE coin[c].owner = "sender"
    <3>1. s = r /\ event[r].ok /\ Current(r)
      BY <2>0, <2>1 DEF Finalize, Types
    <3>2. event[r].spend[c].owner = "sender" /\ coin[c] = event[r].spend[c]
      BY <3>1 DEF Inv, Owned, Current
    <3> QED
      BY <3>2
  <2>2. ASSUME \A s \in Requests : ~Finalize(s) PROVE FALSE
    <3>1. ASSUME NEW s \in Requests, Admit(s) PROVE FALSE
      BY <2>0, <3>1 DEF Admit, Types
    <3>2. ASSUME NEW s \in Requests, RequestStep(s) PROVE FALSE
      <4>1. ASSUME Select(s) PROVE FALSE
        BY <2>0, <4>1 DEF Select, Types
      <4>2. ASSUME NEW d \in Coins, TryReserve(s, d) PROVE FALSE
        BY <2>0, <4>2 DEF TryReserve, Fail, Types
      <4>3. ASSUME \/ ReadSet(s) \/ ReadPower(s) \/ RouteFails(s) \/ Enqueue(s) \/ SendTimeout(s)
                   \/ AskPermit(s) \/ Acquire(s) \/ SolverFails(s) \/ Submit(s) PROVE FALSE
        BY <2>0, <4>3 DEF ReadSet, ReadPower, RouteFails, Enqueue, SendTimeout, AskPermit, Acquire,
           SolverFails, Submit, Fail, Types
      <4>4. ASSUME NEW ok \in BOOLEAN, SolverAnswers(s, ok) PROVE FALSE
        BY <2>0, <4>4 DEF SolverAnswers, Types
      <4> QED
        BY <3>2, <4>1, <4>2, <4>3, <4>4 DEF RequestStep
    <3>3. ASSUME \/ Collect \/ Dispatch \/ AcquireMany \/ Direct \/ Fallback \/ BatchFails
                 \/ CleanupExpired \/ \E d \in Coins : Expire(d) PROVE FALSE
      BY <3>3 DEF Collect, Dispatch, AcquireMany, Direct, Fallback, BatchFails, CleanupExpired, Expire,
         Move, requestVars
    <3> QED
      BY <2>2, <3>1, <3>2, <3>3 DEF Next
  <2> QED
    BY <2>1, <2>2
<1> QED
  BY <1>1, Invariance, PTL DEF Spec, OwnCoinsOnly

-----------------------------------------------------------------------------
(* Sums over finite sets.                                                  *)

\* g adds up the values of f over every subset of S.
Adds(g, f, S) ==
    /\ g \in [SUBSET S -> Nat] /\ g[{}] = 0
    /\ \A T \in SUBSET S : \A x \in T : g[T] = f[x] + g[T \ {x}]

\* Every function with natural values on a finite set has its sums.
LEMMA SumExists ==
    ASSUME NEW S, IsFiniteSet(S), NEW f, \A x \in S : f[x] \in Nat
    PROVE  \E g : Adds(g, f, S)
<1> DEFINE F == {T \in SUBSET S : \E g : Adds(g, f, T)}
<1>1. {} \in F
  <2>1. Adds([T \in SUBSET {} |-> 0], f, {})
    BY DEF Adds
  <2>2. \E g : Adds(g, f, {})
    BY <2>1, Zenon
  <2> QED
    BY <2>2
<1>2. ASSUME NEW T \in SUBSET S, NEW x \in S \ T, T \in F PROVE T \cup {x} \in F
  <2>1. PICK g : Adds(g, f, T)
    BY <1>2
  <2> DEFINE W == T \cup {x}
             h == [U \in SUBSET W |-> IF x \in U THEN f[x] + g[U \ {x}] ELSE g[U]]
  <2>2. \A U \in SUBSET W : U \ {x} \in SUBSET T /\ (x \notin U => U \in SUBSET T)
    OBVIOUS
  <2>3. g \in [SUBSET T -> Nat] /\ g[{}] = 0 /\ f[x] \in Nat
    BY <2>1 DEF Adds
  <2>4. h \in [SUBSET W -> Nat]
    BY <2>2, <2>3
  <2>5. h[{}] = 0
    BY <2>3
  <2>6. ASSUME NEW U \in SUBSET W, NEW y \in U PROVE h[U] = f[y] + h[U \ {y}]
    <3>0. U \ {y} \in SUBSET W
      OBVIOUS
    <3>1. CASE y = x
      <4>1. h[U] = f[x] + g[U \ {x}] /\ h[U \ {y}] = g[U \ {y}]
        BY <3>0, <3>1
      <4> QED
        BY <3>1, <4>1
    <3>2. CASE y # x /\ x \notin U
      <4>1. h[U] = g[U] /\ h[U \ {y}] = g[U \ {y}] /\ U \in SUBSET T
        BY <2>2, <3>0, <3>2
      <4> QED
        BY <2>1, <4>1 DEF Adds
    <3>3. CASE y # x /\ x \in U
      <4> DEFINE V == U \ {x}
      <4>1. h[U] = f[x] + g[V] /\ h[U \ {y}] = f[x] + g[(U \ {y}) \ {x}]
        BY <3>0, <3>3
      <4>2. V \in SUBSET T /\ y \in V /\ (U \ {y}) \ {x} = V \ {y} /\ V \ {y} \in SUBSET T
        BY <2>2, <3>3
      <4>3. g[V] = f[y] + g[V \ {y}]
        BY <2>1, <4>2 DEF Adds
      <4>4. f[y] \in Nat /\ f[x] \in Nat /\ g[V \ {y}] \in Nat
        BY <2>3, <4>2
      <4>5. h[U \ {y}] = f[x] + g[V \ {y}]
        BY <4>1, <4>2
      <4> HIDE DEF V, h
      <4> QED
        BY <4>1, <4>3, <4>4, <4>5
    <3> QED
      BY <3>1, <3>2, <3>3
  <2>7. Adds(h, f, W)
    BY <2>4, <2>5, <2>6 DEF Adds
  <2>8. \E k : Adds(k, f, W)
    <3> HIDE DEF h, W
    <3> QED
      BY <2>7, Zenon
  <2> QED
    BY <2>8
<1>3. \A T \in SUBSET S : T \in F
  <2> HIDE DEF F
  <2> QED
    BY <1>1, <1>2, SubsetInduction
<1> QED
  BY <1>3

\* The library's fold computes it.
LEMMA SumIs ==
    ASSUME NEW S, IsFiniteSet(S), NEW f, \A x \in S : f[x] \in Nat, NEW g, Adds(g, f, S)
    PROVE  SumOver(f, S) = g[S]
<1> DEFINE pick(s) == CHOOSE x \in s : TRUE
           Def(i) == [s \in SUBSET S |-> IF s = {} THEN 0 ELSE f[pick(s)] + i[s \ {pick(s)}]]
           iter == CHOOSE i : i = Def(i)
<1>1. \A s \in SUBSET S : s # {} => pick(s) \in s
  OBVIOUS
<1>2. g = Def(g)
  BY <1>1 DEF Adds
<1>3. iter = Def(iter)
  <2> HIDE DEF Def
  <2> QED
    BY <1>2, Zenon
<1>4. SumOver(f, S) = iter[S]
  BY DEF SumOver, MapThenSumSet, MapThenFoldSet
<1>5. \A s \in SUBSET S : iter[s] = IF s = {} THEN 0 ELSE f[pick(s)] + iter[s \ {pick(s)}]
  <2> HIDE DEF iter
  <2> QED
    BY <1>3
<1> HIDE DEF iter
<1> DEFINE F == {T \in SUBSET S : iter[T] = g[T]}
<1>6. ASSUME NEW T \in SUBSET S, \A U \in SUBSET T : U # T => U \in F PROVE T \in F
  <2>1. CASE T = {}
    BY <1>5, <2>1 DEF Adds
  <2>2. CASE T # {}
    <3>1. pick(T) \in T
      BY <1>1, <2>2
    <3> DEFINE U == T \ {pick(T)}
    <3>2. U \in SUBSET T /\ U # T
      BY <3>1
    <3>3. iter[U] = g[U]
      BY <1>6, <3>2
    <3>4. iter[T] = f[pick(T)] + iter[U]
      BY <1>5, <2>2
    <3>5. g[T] = f[pick(T)] + g[U]
      BY <3>1 DEF Adds
    <3> QED
      BY <3>3, <3>4, <3>5
  <2> QED
    BY <2>1, <2>2
<1>7. \A T \in SUBSET S : T \in F
  <2> HIDE DEF F
  <2> QED
    BY <1>6, StrongSubsetInduction
<1>8. iter[S] = g[S]
  BY <1>7
<1> QED
  BY <1>4, <1>8

\* One function holds the sums over all subsets.
LEMMA AllSums ==
    ASSUME NEW S, IsFiniteSet(S), NEW f, \A x \in S : f[x] \in Nat
    PROVE  \E g : Adds(g, f, S) /\ \A T \in SUBSET S : SumOver(f, T) = g[T]
<1>1. PICK g : Adds(g, f, S)
  BY SumExists
<1>2. ASSUME NEW T \in SUBSET S PROVE SumOver(f, T) = g[T]
  <2> DEFINE h == [U \in SUBSET T |-> g[U]]
  <2>1. Adds(h, f, T)
    BY <1>1 DEF Adds
  <2>2. IsFiniteSet(T) /\ \A x \in T : f[x] \in Nat
    BY FS_Subset
  <2>3. h[T] = g[T]
    OBVIOUS
  <2> HIDE DEF h
  <2>4. SumOver(f, T) = h[T]
    BY <2>1, <2>2, SumIs
  <2> QED
    BY <2>3, <2>4
<1> QED
  BY <1>1, <1>2

\* The sum over the empty set, and with one element taken out.
LEMMA SumStep ==
    ASSUME NEW S, IsFiniteSet(S), NEW f, \A x \in S : f[x] \in Nat
    PROVE  /\ SumOver(f, {}) = 0 /\ SumOver(f, S) \in Nat
           /\ \A T \in SUBSET S : SumOver(f, T) \in Nat
           /\ \A T \in SUBSET S : \A x \in T : SumOver(f, T) = f[x] + SumOver(f, T \ {x})
<1>1. PICK g : Adds(g, f, S) /\ \A T \in SUBSET S : SumOver(f, T) = g[T]
  BY AllSums
<1>2. \A T \in SUBSET S : \A x \in T : T \ {x} \in SUBSET S
  OBVIOUS
<1> QED
  BY <1>1, <1>2 DEF Adds

\* One element is taken out of a sum.
LEMMA SumTake ==
    ASSUME NEW S, IsFiniteSet(S), NEW f, \A x \in S : f[x] \in Nat, NEW z \in S
    PROVE  SumOver(f, S) = f[z] + SumOver(f, S \ {z}) /\ SumOver(f, S \ {z}) \in Nat
<1>1. PICK g : Adds(g, f, S) /\ \A T \in SUBSET S : SumOver(f, T) = g[T]
  BY AllSums
<1>2. S \in SUBSET S /\ S \ {z} \in SUBSET S
  OBVIOUS
<1> QED
  BY <1>1, <1>2 DEF Adds

\* Only the values on the set count.
LEMMA SumSame ==
    ASSUME NEW S, IsFiniteSet(S), NEW f, NEW h, \A x \in S : f[x] \in Nat /\ h[x] = f[x]
    PROVE  SumOver(h, S) = SumOver(f, S)
<1>1. PICK g : Adds(g, f, S)
  BY SumExists
<1>2. Adds(g, h, S)
  BY <1>1 DEF Adds
<1>3. \A x \in S : f[x] \in Nat
  OBVIOUS
<1>4. \A x \in S : h[x] \in Nat
  OBVIOUS
<1>5. SumOver(f, S) = g[S]
  BY <1>1, <1>3, SumIs
<1>6. SumOver(h, S) = g[S]
  BY <1>2, <1>4, SumIs
<1> QED
  BY <1>5, <1>6

\* The sum of a part and the sum of the rest.
LEMMA SumSplit ==
    ASSUME NEW S, IsFiniteSet(S), NEW f, \A x \in S : f[x] \in Nat, NEW D \in SUBSET S
    PROVE  SumOver(f, S) = SumOver(f, D) + SumOver(f, S \ D)
<1> DEFINE F == {T \in SUBSET S : SumOver(f, S) = SumOver(f, T) + SumOver(f, S \ T)}
<1>1. \A T \in SUBSET S : SumOver(f, T) \in Nat
  BY SumStep
<1>2. {} \in F
  <2>1. SumOver(f, {}) = 0 /\ SumOver(f, S) \in Nat /\ S \ {} = S
    BY SumStep
  <2> QED
    BY <2>1
<1>3. ASSUME NEW T \in SUBSET S, NEW x \in S \ T, T \in F PROVE T \cup {x} \in F
  <2> DEFINE U == T \cup {x}
             V == S \ T
  <2>1. U \in SUBSET S /\ x \in U /\ U \ {x} = T /\ V \in SUBSET S /\ x \in V /\ V \ {x} = S \ U
        /\ S \ U \in SUBSET S
    OBVIOUS
  <2>2. SumOver(f, U) = f[x] + SumOver(f, U \ {x}) /\ SumOver(f, V) = f[x] + SumOver(f, V \ {x})
    BY <2>1, SumStep
  <2>3. SumOver(f, S) = SumOver(f, T) + SumOver(f, V)
    BY <1>3
  <2> HIDE DEF U, V
  <2>4. /\ SumOver(f, T) \in Nat /\ SumOver(f, S \ U) \in Nat /\ SumOver(f, U) \in Nat
        /\ SumOver(f, V) \in Nat /\ f[x] \in Nat
    BY <1>1, <2>1
  <2>5. SumOver(f, S) = SumOver(f, U) + SumOver(f, S \ U)
    BY <2>1, <2>2, <2>3, <2>4
  <2>6. U \in F
    BY <2>1, <2>5
  <2> QED
    BY <2>6 DEF U
<1>4. \A T \in SUBSET S : T \in F
  <2> HIDE DEF F
  <2> QED
    BY <1>2, <1>3, SubsetInduction
<1> QED
  BY <1>4

\* The sum when all values but one are zero.
LEMMA SumOne ==
    ASSUME NEW S, IsFiniteSet(S), NEW f, NEW t \in S, f[t] \in Nat,
           \A x \in S \ {t} : f[x] = 0
    PROVE  SumOver(f, S) = f[t]
<1> DEFINE T == S \ {t}
           g == [U \in SUBSET T |-> 0]
<1>1. Adds(g, f, T)
  BY DEF Adds
<1>2. IsFiniteSet(T) /\ \A x \in T : f[x] \in Nat
  BY FS_Subset
<1>3. g[T] = 0
  OBVIOUS
<1> HIDE DEF g
<1>4. SumOver(f, T) = 0
  BY <1>1, <1>2, <1>3, SumIs
<1>5. \A x \in S : f[x] \in Nat
  OBVIOUS
<1>6. SumOver(f, S) = f[t] + SumOver(f, T)
  BY <1>5, SumStep
<1> QED
  BY <1>4, <1>6

-----------------------------------------------------------------------------
(* Conservation.                                                           *)

\* The coins and the payments, which only an applied transfer makes.
CoinsOK ==
    /\ coin \in [Coins -> CoinStates] /\ created \in [Requests -> Nat]
    /\ \A r \in Requests : pc[r] # "applied" => created[r] = 0

HasSeen == {"reserving", "reserved"} \cup HasEvent

\* A request that has chosen coins keeps the coins as it read them.
SeenOK ==
    /\ seen \in [Requests -> [Coins -> CoinStates] \cup {None}]
    /\ \A r \in Requests : pc[r] \in HasSeen => seen[r] \in [Coins -> CoinStates]

\* An event spends coins.
SpendOK ==
    \A r \in Requests : pc[r] \in HasEvent =>
        /\ DOMAIN event[r].spend \subseteq Coins
        /\ \A c \in DOMAIN event[r].spend : event[r].spend[c] \in CoinStates

\* A good result had enough of them.
Covered ==
    \A r \in Requests : pc[r] \in {"executed", "submitted"} /\ event[r].ok
        => Total(DOMAIN event[r].spend, event[r].spend) >= Amount[r]

CInv == CoinsOK /\ SeenOK /\ SpendOK /\ Covered /\ Conservation

\* Initially nothing is paid.
LEMMA InitCInv == Init => CInv
<1> SUFFICES ASSUME Init PROVE CInv
  OBVIOUS
<1>1. /\ InitialBalance \in [Coins -> Nat] /\ IsFiniteSet(Coins) /\ IsFiniteSet(Requests)
  BY TransfersAssumption
<1>2. coin \in [Coins -> CoinStates] /\ \A c \in Coins : coin[c].balance = InitialBalance[c]
  BY <1>1 DEF Init, CoinStates
<1>3. CoinsOK
  BY <1>2 DEF Init, CoinsOK
<1>4. SeenOK /\ SpendOK /\ Covered
  BY DEF Init, SeenOK, SpendOK, Covered, HasSeen, HasEvent
<1>5. Total(Coins, coin) = SumOver(InitialBalance, Coins)
  <2> DEFINE f == [c \in Coins |-> coin[c].balance]
  <2>1. \A c \in Coins : InitialBalance[c] \in Nat /\ f[c] = InitialBalance[c]
    BY <1>1, <1>2
  <2> HIDE DEF f
  <2>2. SumOver(f, Coins) = SumOver(InitialBalance, Coins)
    BY <1>1, <2>1, SumSame
  <2> QED
    BY <2>2 DEF f, Total
<1>6. SumOver(created, Requests) = 0
  <2>1. \A r \in Requests : created[r] = 0 /\ created[r] \in Nat
    BY DEF Init
  <2>2. CASE Requests = {}
    BY <1>1, <2>1, <2>2, SumStep
  <2>3. CASE Requests # {}
    <3>1. PICK r \in Requests : TRUE
      BY <2>3
    <3>2. SumOver(created, Requests) = created[r]
      BY <1>1, <2>1, SumOne
    <3> QED
      BY <2>1, <3>2
  <2> QED
    BY <2>2, <2>3
<1>7. SumOver(InitialBalance, Coins) \in Nat
  BY <1>1, SumStep
<1>8. Conservation
  BY <1>5, <1>6, <1>7 DEF Conservation
<1> QED
  BY <1>3, <1>4, <1>8 DEF CInv

\* A step before or after finality, in which requests keep what they read.
LEMMA KeepCInv ==
    ASSUME CInv, UNCHANGED <<coin, created, seen, event>>,
           \A r \in Requests : pc'[r] \in HasSeen => pc[r] \in HasSeen,
           \A r \in Requests : pc'[r] \in HasEvent => pc[r] \in HasEvent,
           \A r \in Requests : pc'[r] \in {"executed", "submitted"} => pc[r] \in {"executed", "submitted"},
           \A r \in Requests : pc[r] = "applied" => pc'[r] = "applied"
    PROVE  CInv'
<1>1. CoinsOK' /\ SeenOK' /\ SpendOK'
  BY DEF CInv, CoinsOK, SeenOK, SpendOK
<1>2. Covered'
  BY DEF CInv, Covered, Total
<1>3. Conservation'
  BY DEF CInv, Conservation, Total
<1> QED
  BY <1>1, <1>2, <1>3 DEF CInv

\* The target of a transfer: of a set of coins one comes before all others in
\* the order of the preparer.
LEMMA TargetExists ==
    ASSUME NEW of \in [Coins -> CoinStates], NEW D \in SUBSET Coins, D # {}
    PROVE  \E t \in D : \A d \in D \ {t} : LargerFirst(t, d, of)
<1>1. IsFiniteSet(Coins) /\ CoinRank \in [Coins -> Nat]
      /\ \A c, d \in Coins : CoinRank[c] = CoinRank[d] => c = d
  BY TransfersAssumption
<1>2. \A c \in Coins : of[c].balance \in Nat /\ CoinRank[c] \in Nat
  BY <1>1 DEF CoinStates
<1>3. \A c, d \in Coins : c # d => LargerFirst(c, d, of) \/ LargerFirst(d, c, of)
  BY <1>1, <1>2 DEF LargerFirst
<1>4. \A b, c, d \in Coins : LargerFirst(b, c, of) /\ LargerFirst(c, d, of) => LargerFirst(b, d, of)
  BY <1>2 DEF LargerFirst
<1> DEFINE F == {T \in SUBSET Coins : T = {} \/ \E t \in T : \A d \in T \ {t} : LargerFirst(t, d, of)}
<1>5. {} \in F
  OBVIOUS
<1>6. ASSUME NEW T \in SUBSET Coins, NEW x \in Coins \ T, T \in F PROVE T \cup {x} \in F
  <2> DEFINE U == T \cup {x}
  <2>1. CASE T = {}
    <3>1. \A d \in U \ {x} : LargerFirst(x, d, of)
      BY <2>1
    <3> QED
      BY <3>1
  <2>2. CASE T # {}
    <3>1. PICK t \in T : \A d \in T \ {t} : LargerFirst(t, d, of)
      BY <1>6, <2>2
    <3>2. CASE LargerFirst(t, x, of)
      <4>1. \A d \in U \ {t} : LargerFirst(t, d, of)
        BY <3>1, <3>2
      <4> QED
        BY <4>1
    <3>3. CASE LargerFirst(x, t, of)
      <4>1. \A d \in U \ {x} : LargerFirst(x, d, of)
        BY <1>4, <3>1, <3>3
      <4> QED
        BY <4>1
    <3> QED
      BY <1>3, <3>1, <3>2, <3>3
  <2> QED
    BY <2>1, <2>2
<1>7. \A T \in SUBSET Coins : T \in F
  <2> HIDE DEF F
  <2> QED
    BY <1>1, <1>5, <1>6, SubsetInduction
<1> QED
  BY <1>7

\* Nothing comes before the target.
LEMMA TargetUnique ==
    ASSUME NEW of \in [Coins -> CoinStates], NEW c \in Coins, NEW d \in Coins, LargerFirst(c, d, of)
    PROVE  ~LargerFirst(d, c, of)
<1>1. \A x \in Coins : of[x].balance \in Nat /\ CoinRank[x] \in Nat
  BY TransfersAssumption DEF CoinStates
<1> QED
  BY <1>1 DEF LargerFirst

\* What an applied transfer moves: the coins it spends lose what its recipient
\* is paid with a new coin, and nothing when the target changes hands.
LEMMA ApplyMoves ==
    ASSUME CInv, NEW r \in Requests, pc[r] = "submitted", event[r].ok, Current(r),
           coin' = [c \in Coins |-> IF c \in DOMAIN event[r].spend THEN CoinAfter(r, c) ELSE coin[c]],
           created' = [created EXCEPT ![r] = CreatedAfter(r)]
    PROVE  /\ coin' \in [Coins -> CoinStates] /\ CreatedAfter(r) \in Nat
           /\ Total(Coins, coin)' + SumOver(created, Requests)'
                = Total(Coins, coin) + SumOver(created, Requests)
<1>0. PICK D, spend, total, amount : /\ D = DOMAIN event[r].spend /\ spend = event[r].spend
                                     /\ total = Total(D, spend) /\ amount = Amount[r]
  OBVIOUS
<1>1. /\ D \in SUBSET Coins /\ \A c \in D : spend[c] \in CoinStates /\ coin[c] = spend[c]
      /\ coin \in [Coins -> CoinStates] /\ created \in [Requests -> Nat]
      /\ seen[r] \in [Coins -> CoinStates] /\ created[r] = 0
  BY <1>0 DEF CInv, CoinsOK, SeenOK, SpendOK, HasSeen, HasEvent, Current
<1>2. IsFiniteSet(Coins) /\ IsFiniteSet(D) /\ IsFiniteSet(Requests) /\ amount \in Nat \ {0}
  BY <1>0, <1>1, FS_Subset, TransfersAssumption
<1> DEFINE f == [c \in Coins |-> coin[c].balance]
           g == [c \in Coins |-> coin'[c].balance]
           h == [c \in D |-> spend[c].balance]
<1>3. \A c \in Coins : f[c] \in Nat
  BY <1>1 DEF CoinStates
<1>4. \A c \in D : h[c] \in Nat /\ f[c] = h[c]
  BY <1>1, <1>3
<1>5. total = SumOver(h, D)
  BY <1>0 DEF Total
<1> HIDE DEF h
<1>6. total \in Nat /\ SumOver(f, D) = total /\ total >= amount
  <2>1. \A c \in D : h[c] \in Nat
    BY <1>4
  <2>2. SumOver(h, D) \in Nat
    BY <1>2, <2>1, SumStep
  <2>3. SumOver(f, D) = SumOver(h, D)
    <3> HIDE DEF f
    <3> QED
      BY <1>2, <1>4, SumSame
  <2> QED
    BY <1>0, <1>5, <2>2, <2>3 DEF CInv, Covered
<1>7. D # {}
  <2>1. ASSUME D = {} PROVE FALSE
    <3>1. \A c \in D : h[c] \in Nat
      BY <1>4
    <3>2. SumOver(h, {}) = 0
      BY <1>2, <3>1, SumStep
    <3> QED
      BY <1>2, <1>5, <1>6, <2>1, <3>2
  <2> QED
    BY <2>1
<1>8. PICK t \in D : \A d \in D \ {t} : LargerFirst(t, d, seen[r])
  BY <1>1, <1>7, TargetExists
<1>9. \A c \in D \ {t} : ~(\A d \in D \ {c} : LargerFirst(c, d, seen[r]))
  <2> SUFFICES ASSUME NEW c \in D \ {t} PROVE ~LargerFirst(c, t, seen[r])
    BY <1>8
  <2> QED
    BY <1>1, <1>8, TargetUnique
<1>10. \A c \in D \ {t} :
         CoinAfter(r, c) = [balance |-> 0, owner |-> "none", version |-> coin[c].version + 1]
  BY <1>0, <1>9 DEF CoinAfter, Target, MergedAway
<1>11. CoinAfter(r, t) = IF total = amount
         THEN [balance |-> total, owner |-> "recipient", version |-> coin[t].version + 1]
         ELSE [balance |-> total - amount, owner |-> spend[t].owner, version |-> coin[t].version + 1]
  BY <1>0, <1>8 DEF CoinAfter, Target
<1>12. \A c \in Coins : coin[c].version + 1 \in Nat
  BY <1>1 DEF CoinStates
<1>13. spend[t].owner \in {"sender", "recipient", "none"} /\ total - amount \in Nat
  BY <1>1, <1>2, <1>6 DEF CoinStates
<1>14. \A c \in D : CoinAfter(r, c) \in CoinStates
  BY <1>1, <1>6, <1>10, <1>11, <1>12, <1>13 DEF CoinStates
<1>15. coin' \in [Coins -> CoinStates]
  BY <1>0, <1>1, <1>14
<1>16. /\ \A c \in D \ {t} : g[c] = 0
       /\ g[t] = IF total = amount THEN total ELSE total - amount
       /\ \A c \in Coins \ D : g[c] = f[c]
       /\ \A c \in Coins : g[c] \in Nat
  <2>1. \A c \in D \ {t} : coin'[c].balance = 0
    BY <1>0, <1>1, <1>10
  <2>2. coin'[t].balance = IF total = amount THEN total ELSE total - amount
    BY <1>0, <1>1, <1>8, <1>11
  <2>3. \A c \in Coins \ D : coin'[c] = coin[c]
    BY <1>0
  <2>4. \A c \in Coins : coin'[c].balance \in Nat
    BY <1>15 DEF CoinStates
  <2> QED
    BY <1>1, <2>1, <2>2, <2>3, <2>4
<1>17. CreatedAfter(r) = (IF total = amount THEN 0 ELSE amount) /\ CreatedAfter(r) \in Nat
  BY <1>0, <1>2 DEF CreatedAfter
<1>18. Total(Coins, coin) = SumOver(f, Coins) /\ Total(Coins, coin)' = SumOver(g, Coins)
  <2>1. Total(Coins, coin) = SumOver(f, Coins)
    BY DEF Total
  <2>2. Total(Coins, coin)' = SumOver(g, Coins)
    BY DEF Total
  <2> QED
    BY <2>1, <2>2
<1> HIDE DEF f, g
<1>19. /\ SumOver(f, Coins) = SumOver(f, D) + SumOver(f, Coins \ D)
       /\ SumOver(g, Coins) = SumOver(g, D) + SumOver(g, Coins \ D)
  BY <1>1, <1>2, <1>3, <1>16, SumSplit
<1>20. SumOver(g, D) = g[t] /\ g[t] \in Nat
  BY <1>1, <1>2, <1>16, SumOne
<1>21. SumOver(g, Coins \ D) = SumOver(f, Coins \ D) /\ SumOver(f, Coins \ D) \in Nat
  <2>1. IsFiniteSet(Coins \ D) /\ \A c \in Coins \ D : f[c] \in Nat /\ g[c] = f[c]
    BY <1>2, <1>3, <1>16, FS_Subset
  <2>2. SumOver(g, Coins \ D) = SumOver(f, Coins \ D)
    BY <2>1, SumSame
  <2>3. SumOver(f, Coins \ D) \in Nat
    BY <2>1, SumStep
  <2> QED
    BY <2>2, <2>3
<1>22. PICK k : k = created' /\ k \in [Requests -> Nat] /\ k[r] = CreatedAfter(r)
                /\ \A s \in Requests \ {r} : k[s] = created[s]
  BY <1>1, <1>17
<1>23. /\ SumOver(k, Requests) = k[r] + SumOver(k, Requests \ {r})
       /\ SumOver(created, Requests) = created[r] + SumOver(created, Requests \ {r})
       /\ SumOver(created, Requests \ {r}) \in Nat
  <2>1. (\A s \in Requests : k[s] \in Nat) /\ (\A s \in Requests : created[s] \in Nat)
    BY <1>1, <1>22
  <2>2. IsFiniteSet(Requests)
    BY <1>2
  <2>3. SumOver(k, Requests) = k[r] + SumOver(k, Requests \ {r})
    BY <2>1, <2>2, SumTake
  <2>4. PICK f1 : f1 = created /\ \A s \in Requests : f1[s] \in Nat
    BY <2>1
  <2>5. SumOver(f1, Requests) = f1[r] + SumOver(f1, Requests \ {r}) /\ SumOver(f1, Requests \ {r}) \in Nat
    BY <2>2, <2>4, SumTake
  <2> QED
    BY <2>3, <2>4, <2>5
<1>24. SumOver(k, Requests \ {r}) = SumOver(created, Requests \ {r})
  <2>1. IsFiniteSet(Requests \ {r})
        /\ \A s \in Requests \ {r} : created[s] \in Nat /\ k[s] = created[s]
    BY <1>1, <1>2, <1>22, FS_Subset
  <2> QED
    BY <2>1, SumSame
<1>25. SumOver(created, Requests)' = SumOver(k, Requests)
  BY <1>22
<1>26. SumOver(g, Coins) + SumOver(k, Requests) = SumOver(f, Coins) + SumOver(created, Requests)
  BY <1>1, <1>2, <1>6, <1>16, <1>17, <1>19, <1>20, <1>21, <1>22, <1>23, <1>24
<1> QED
  BY <1>15, <1>17, <1>18, <1>25, <1>26

\* A step that leaves the coins alone.
LEMMA KeepCoins ==
    ASSUME CoinsOK, Conservation, UNCHANGED <<coin, created>>,
           \A r \in Requests : pc[r] = "applied" => pc'[r] = "applied"
    PROVE  CoinsOK' /\ Conservation'
<1>1. CoinsOK'
  BY DEF CoinsOK
<1>2. Conservation'
  BY DEF Conservation, Total
<1> QED
  BY <1>1, <1>2

\* Every step keeps the coins and the payments balanced.
LEMMA CoinStep == Inv /\ Collected /\ CInv /\ [Next]_vars => CInv'
<1> SUFFICES ASSUME Inv, Collected, CInv, [Next]_vars PROVE CInv'
  OBVIOUS
<1>0. Types
  BY DEF Inv, Held
<1>1. ASSUME NEW r \in Requests, NEW place \in Places, pc' = [pc EXCEPT ![r] = place],
             UNCHANGED <<coin, created, seen, event>>, pc[r] # "applied",
             place \in HasSeen => pc[r] \in HasSeen,
             place \in HasEvent => pc[r] \in HasEvent,
             place \in {"executed", "submitted"} => pc[r] \in {"executed", "submitted"}
      PROVE  CInv'
  <2>1. pc'[r] = place /\ \A s \in Requests : s # r => pc'[s] = pc[s]
    BY <1>0, <1>1 DEF Types
  <2> QED
    BY <1>1, <2>1, KeepCInv
<1>2. ASSUME NEW r \in Requests, \/ Admit(r) \/ Submit(r) \/ RouteFails(r) \/ SendTimeout(r)
                                 \/ SolverFails(r) \/ Enqueue(r) \/ AskPermit(r) \/ Acquire(r)
      PROVE  CInv'
  BY <1>1, <1>2 DEF Admit, Submit, RouteFails, SendTimeout, SolverFails, Enqueue, AskPermit, Acquire, Fail,
     ledgerVars, HasEvent, HasSeen, Places, Ended
<1>3. ASSUME NEW r \in Requests, NEW c \in Coins, TryReserve(r, c)
      PROVE  CInv'
  <2>1. /\ UNCHANGED <<coin, created, seen, event>> /\ pc[r] = "reserving"
        /\ pc' = pc \/ \E place \in {"reserved", "reserving", "failed"} : pc' = [pc EXCEPT ![r] = place]
    BY <1>3 DEF TryReserve, Fail, ledgerVars
  <2>2. CASE pc' = pc
    BY <2>1, <2>2, KeepCInv
  <2>3. CASE \E place \in {"reserved", "reserving", "failed"} : pc' = [pc EXCEPT ![r] = place]
    BY <1>1, <2>1, <2>3 DEF HasEvent, HasSeen, Places, Ended
  <2> QED
    BY <2>1, <2>2, <2>3
<1>4. CASE Dispatch \/ AcquireMany \/ Direct \/ BatchFails
  <2>1. /\ UNCHANGED <<coin, created, seen, event>>
        /\ \A r \in Requests : \/ pc'[r] = pc[r] \/ (pc'[r] = "failed" /\ r \in batch)
                               \/ pc[r] \in {"queued", "waiting"} /\ pc'[r] \in {"waiting", "solving"}
    BY <1>4 DEF Dispatch, AcquireMany, Direct, BatchFails, Gathering, Move, ledgerVars
  <2>2. \A r \in batch : pc[r] # "applied"
    BY DEF Collected
  <2> QED
    BY <2>1, <2>2, KeepCInv DEF HasEvent, HasSeen
<1>5. CASE Collect \/ Fallback \/ CleanupExpired \/ (\E c \in Coins : Expire(c)) \/ UNCHANGED vars
  <2>1. UNCHANGED <<pc, coin, created, seen, event>>
    BY <1>5 DEF Collect, Fallback, CleanupExpired, Expire, vars, requestVars, ledgerVars
  <2> QED
    BY <2>1, KeepCInv
<1>6. ASSUME NEW r \in Requests, Select(r)
      PROVE  CInv'
  <2>1. /\ pc[r] = "admitted" /\ UNCHANGED <<coin, created, event>>
        /\ seen' = [seen EXCEPT ![r] = coin]
        /\ \E place \in {"reserving", "failed"} : pc' = [pc EXCEPT ![r] = place]
    BY <1>6 DEF Select, ledgerVars
  <2>2. pc'[r] \in {"reserving", "failed"} /\ \A s \in Requests : s # r => pc'[s] = pc[s]
    BY <1>0, <2>1 DEF Types
  <2>3. coin \in [Coins -> CoinStates] /\ seen \in [Requests -> [Coins -> CoinStates] \cup {None}]
    BY DEF CInv, CoinsOK, SeenOK
  <2>4. seen'[r] = coin /\ \A s \in Requests : s # r => seen'[s] = seen[s]
    BY <2>1, <2>3
  <2>5. seen' \in [Requests -> [Coins -> CoinStates] \cup {None}]
    BY <2>1, <2>3
  <2>6. SeenOK'
    BY <2>2, <2>3, <2>4, <2>5 DEF CInv, SeenOK
  <2>7. SpendOK'
    BY <2>1, <2>2 DEF CInv, SpendOK, HasEvent
  <2>8. Covered'
    BY <2>1, <2>2 DEF CInv, Covered, Total
  <2>9. CoinsOK' /\ Conservation'
    BY <2>1, <2>2, KeepCoins DEF CInv
  <2> QED
    BY <2>6, <2>7, <2>8, <2>9 DEF CInv
<1>7. ASSUME NEW r \in Requests, ReadSet(r)
      PROVE  CInv'
  <2>0. pc[r] = "reserved" /\ UNCHANGED <<coin, created, seen>>
    BY <1>7 DEF ReadSet, ledgerVars
  <2>1. CASE pc' = [pc EXCEPT ![r] = "leaked"] /\ event' = event
    BY <1>1, <2>0, <2>1 DEF HasEvent, HasSeen, Places, Ended
  <2>2. CASE Fail(r) /\ event' = event
    BY <1>1, <2>0, <2>2 DEF Fail, HasEvent, HasSeen, Places, Ended
  <2>3. CASE ~(event' = event /\ (Fail(r) \/ pc' = [pc EXCEPT ![r] = "leaked"]))
    <3>0. PICK now : now = IF Route[r] = "spawned" THEN seen[r] ELSE coin
      OBVIOUS
    <3>1. /\ event' = [event EXCEPT ![r] =
                   [spend |-> [c \in handles[r] |-> now[c]], ok |-> TRUE,
                    marker |-> IF merge[r] THEN None ELSE Nonce[r],
                    power |-> None]]
          /\ pc' = [pc EXCEPT ![r] = "read"]
      BY <1>7, <2>3, <3>0 DEF ReadSet
    <3>2. now \in [Coins -> CoinStates]
      BY <2>0, <3>0 DEF CInv, CoinsOK, SeenOK, HasSeen
    <3>3. \A s \in Requests : s # r => pc'[s] = pc[s] /\ event'[s] = event[s]
      BY <1>0, <3>1 DEF Types
    <3>4. pc'[r] = "read" /\ event'[r].spend = [c \in handles[r] |-> now[c]]
      BY <1>0, <3>1 DEF Types
    <3>5. handles[r] \subseteq Coins
      BY <1>0 DEF Types
    <3>6. SpendOK'
      BY <3>2, <3>3, <3>4, <3>5 DEF CInv, SpendOK
    <3>7. SeenOK'
      BY <2>0, <3>3, <3>4 DEF CInv, SeenOK, HasSeen
    <3>8. Covered'
      BY <3>3, <3>4 DEF CInv, Covered, Total
    <3>9. CoinsOK' /\ Conservation'
      BY <2>0, <3>3, KeepCoins DEF CInv
    <3> QED
      BY <3>6, <3>7, <3>8, <3>9 DEF CInv
  <2> QED
    BY <2>1, <2>2, <2>3
<1>8. ASSUME NEW r \in Requests, NEW ok \in BOOLEAN, SolverAnswers(r, ok)
      PROVE  CInv'
  <2>1. /\ pc[r] = "solving" /\ (ok => Solvable(r)) /\ pc' = [pc EXCEPT ![r] = "executed"]
        /\ event' = [event EXCEPT ![r].ok = ok] /\ UNCHANGED <<coin, created, seen>>
    BY <1>8 DEF SolverAnswers, ledgerVars
  <2>2. \A s \in Requests : s # r => pc'[s] = pc[s] /\ event'[s] = event[s]
    BY <1>0, <2>1 DEF Types
  <2>3. DOMAIN event[r] = {"spend", "ok", "marker", "power"}
    BY <2>1 DEF Inv, Marked, HasEvent
  <2>4. pc'[r] = "executed" /\ event'[r] = [event[r] EXCEPT !.ok = ok]
    BY <1>0, <2>1 DEF Types
  <2>5. event'[r].spend = event[r].spend /\ event'[r].ok = ok
    BY <2>3, <2>4
  <2>6. ok => Total(DOMAIN event[r].spend, event[r].spend) >= Amount[r]
    BY <2>1 DEF Solvable
  <2>7. SpendOK'
    BY <2>1, <2>2, <2>4, <2>5 DEF CInv, SpendOK, HasEvent
  <2>8. SeenOK'
    BY <2>1, <2>2, <2>4 DEF CInv, SeenOK, HasSeen, HasEvent
  <2>9. Covered'
    BY <2>2, <2>4, <2>5, <2>6, ZenonT(60) DEF CInv, Covered, Total
  <2>10. CoinsOK' /\ Conservation'
    BY <2>1, <2>2, KeepCoins DEF CInv
  <2> QED
    BY <2>7, <2>8, <2>9, <2>10 DEF CInv
<1>9. ASSUME NEW r \in Requests, Finalize(r)
      PROVE  CInv'
  <2>1. pc[r] = "submitted" /\ UNCHANGED <<seen, event>>
    BY <1>9 DEF Finalize
  <2>2. CASE ~(event[r].ok /\ Current(r))
    BY <1>1, <1>9, <2>1, <2>2 DEF Finalize, ledgerVars, HasEvent, HasSeen, Places, Ended
  <2>3. CASE event[r].ok /\ Current(r)
    <3>1. /\ coin' = [c \in Coins |-> IF c \in DOMAIN event[r].spend THEN CoinAfter(r, c) ELSE coin[c]]
          /\ created' = [created EXCEPT ![r] = CreatedAfter(r)]
          /\ pc' = [pc EXCEPT ![r] = "applied"]
      BY <1>9, <2>3 DEF Finalize
    <3>2. pc'[r] = "applied" /\ \A s \in Requests : s # r => pc'[s] = pc[s]
      BY <1>0, <3>1 DEF Types
    <3>3. /\ coin' \in [Coins -> CoinStates] /\ CreatedAfter(r) \in Nat
          /\ Total(Coins, coin)' + SumOver(created, Requests)'
               = Total(Coins, coin) + SumOver(created, Requests)
      BY <2>1, <2>3, <3>1, ApplyMoves
    <3>4. created \in [Requests -> Nat]
      BY DEF CInv, CoinsOK
    <3>5. created' \in [Requests -> Nat] /\ \A s \in Requests : s # r => created'[s] = created[s]
      BY <3>1, <3>3, <3>4
    <3>6. CoinsOK'
      BY <3>2, <3>3, <3>5 DEF CInv, CoinsOK
    <3>7. Conservation'
      BY <3>3 DEF CInv, Conservation
    <3>8. SeenOK' /\ SpendOK'
      BY <2>1, <3>2 DEF CInv, SeenOK, SpendOK, HasSeen, HasEvent
    <3>9. Covered'
      BY <2>1, <3>2 DEF CInv, Covered, Total
    <3> QED
      BY <3>6, <3>7, <3>8, <3>9 DEF CInv
  <2> QED
    BY <2>2, <2>3
<1>10. ASSUME NEW r \in Requests, ReadPower(r)
       PROVE  CInv'
  <2>0. PICK paid : event' = [event EXCEPT ![r].power = paid]
    BY <1>10 DEF ReadPower
  <2>1. pc[r] = "read" /\ pc' = [pc EXCEPT ![r] = "prepared"] /\ UNCHANGED <<coin, created, seen>>
    BY <1>10 DEF ReadPower, ledgerVars
  <2>2. \A s \in Requests : s # r => pc'[s] = pc[s] /\ event'[s] = event[s]
    BY <1>0, <2>0, <2>1 DEF Types
  <2>3. DOMAIN event[r] = {"spend", "ok", "marker", "power"}
    BY <2>1 DEF Inv, Marked, HasEvent
  <2>4. pc'[r] = "prepared" /\ event'[r] = [event[r] EXCEPT !.power = paid]
    BY <1>0, <2>0, <2>1 DEF Types
  <2>5. event'[r].spend = event[r].spend
    BY <2>3, <2>4
  <2>6. SpendOK'
    BY <2>1, <2>2, <2>5 DEF CInv, SpendOK, HasEvent
  <2>7. SeenOK'
    BY <2>1, <2>2, <2>4 DEF CInv, SeenOK, HasSeen, HasEvent
  <2>8. Covered'
    BY <2>2, <2>4 DEF CInv, Covered, Total
  <2>9. CoinsOK' /\ Conservation'
    BY <2>1, <2>2, KeepCoins DEF CInv
  <2> QED
    BY <2>6, <2>7, <2>8, <2>9 DEF CInv
<1> QED
  BY <1>2, <1>3, <1>4, <1>5, <1>6, <1>7, <1>8, <1>9, <1>10 DEF Next, RequestStep

\* No token is made or lost: what the coins hold and what recipients were paid
\* with new coins add up to the initial balances, for any coins and transfers,
\* merged or not, whatever is stale at finality (execute_transfer and
\* apply_committed_events).
THEOREM ConservationHolds == Spec => []Conservation
<1>1. Init => Collected /\ CInv
  BY InitCInv DEF Init, Collected
<1>2. Inv /\ Collected /\ CInv /\ [Next]_vars => (Collected /\ CInv)'
  BY CoinStep, CollectedStep DEF Inv, Held
<1>3. CInv => Conservation
  BY DEF CInv
<1> QED
  BY <1>1, <1>2, <1>3, Invariance, PTL DEF Spec

-----------------------------------------------------------------------------
(* Permits.                                                                *)

\* Where a request outside the collector holds a permit: a spawned one until it
\* has submitted its event.
Holding(place, r) == place = "solving" \/ (place = "executed" /\ Route[r] = "spawned")

Singles == {r \in Requests : Holding(pc[r], r) /\ r \notin batch}

\* A permit is free, with the batch or with one request, and none is held for a
\* batch that is not with the solver.
Permitted ==
    /\ want \in [Requests -> SUBSET Coins] /\ batching \in BOOLEAN
    /\ Len(queue) <= ChannelCap
    /\ permits \in Nat /\ running \in Nat
    /\ Cardinality(batch) <= MaxBatch /\ running <= MaxBatch
    /\ permits + running + Cardinality(Singles) = Permits
    /\ running > 0 => batch # {} /\ \A r \in batch : pc[r] = "solving"

\* Initially all permits are free.
LEMMA InitPermitted == Init => Permitted
<1> SUFFICES ASSUME Init PROVE Permitted
  OBVIOUS
<1>1. ChannelCap \in Nat \ {0} /\ MaxBatch \in Nat \ {0} /\ Permits \in Nat
  BY TransfersAssumption
<1>2. Singles = {} /\ batch = {}
  BY DEF Init, Singles, Holding
<1>3. Cardinality({}) = 0
  BY FS_EmptySet
<1>4. want \in [Requests -> SUBSET Coins] /\ batching \in BOOLEAN
  BY DEF Init
<1>5. queue = << >> /\ running = 0 /\ permits = Permits
  BY DEF Init
<1> QED
  BY <1>1, <1>2, <1>3, <1>4, <1>5 DEF Permitted

\* A step that moves no permit: nobody enters or leaves the solver.
LEMMA KeepPermits ==
    ASSUME Permitted, Collected, UNCHANGED <<queue, batch, running, permits>>,
           want' \in [Requests -> SUBSET Coins], batching' \in BOOLEAN,
           \A r \in Requests : pc'[r] = "solving" <=> pc[r] = "solving",
           \A r \in Requests : Route[r] = "spawned" => (pc'[r] = "executed" <=> pc[r] = "executed")
    PROVE  Permitted'
<1>1. Singles' = Singles
  BY DEF Singles, Holding
<1>2. \A r \in batch : r \in Requests
  BY DEF Collected
<1> QED
  BY <1>1, <1>2 DEF Permitted

\* What a request held comes back, be it with the answer of the solver or, for a
\* spawned one, after the submission.
LEMMA ReturnStep ==
    ASSUME Permitted, Collected, Types, NEW r \in Requests, Holding(pc[r], r), ReturnPermit(r),
           NEW place, ~Holding(place, r), pc' = [pc EXCEPT ![r] = place], want' = want
    PROVE  Permitted'
<1>0. /\ IsFiniteSet(Requests) /\ batch \in SUBSET Requests
      /\ MaxBatch \in Nat /\ permits \in Nat /\ running \in Nat
      /\ permits + running + Cardinality(Singles) = Permits /\ running <= MaxBatch
  BY TransfersAssumption DEF Collected, Permitted
<1>1. IsFiniteSet(Singles) /\ IsFiniteSet(batch)
  BY <1>0, FS_Subset DEF Singles
<1>2. Cardinality(Singles) \in Nat /\ Cardinality(batch) \in Nat
  BY <1>1, FS_CardinalityType
<1>3. pc'[r] = place /\ \A s \in Requests : s # r => pc'[s] = pc[s]
  BY DEF Types
<1>4. batch' = batch \ {r} /\ UNCHANGED <<queue, batching>>
  BY DEF ReturnPermit
<1>5. Singles' = Singles \ {r}
  BY <1>3, <1>4 DEF Singles
<1>6. Cardinality(batch') <= MaxBatch
  <2>1. IsFiniteSet(batch') /\ Cardinality(batch') <= Cardinality(batch)
        /\ Cardinality(batch') \in Nat
    BY <1>1, <1>4, FS_Subset, FS_CardinalityType
  <2> QED
    BY <1>0, <1>2, <2>1 DEF Permitted
<1>7. running' \in Nat /\ running' <= MaxBatch /\ (running' > 0 => running > 0 /\ batch' # {})
  BY <1>0 DEF ReturnPermit
<1>8. permits' \in Nat /\ permits' + running' + Cardinality(Singles') = Permits
  <2>1. CASE r \notin batch
    <3>1. Cardinality(Singles') = Cardinality(Singles) - 1
      <4>1. r \in Singles
        BY <2>1 DEF Singles
      <4> QED
        BY <1>1, <1>5, <4>1, FS_RemoveElement
    <3>2. permits' = permits + 1
      BY <2>1 DEF ReturnPermit
    <3>3. running' = running
      <4>1. batch' = batch
        BY <1>4, <2>1
      <4>2. batch = {} => running = 0
        BY <1>0 DEF Permitted
      <4> QED
        BY <4>1, <4>2 DEF ReturnPermit
    <3> QED
      BY <1>0, <1>2, <3>1, <3>2, <3>3
  <2>2. CASE r \in batch
    <3>1. Singles' = Singles
      BY <1>5, <2>2 DEF Singles
    <3>2. \/ batch' = {} /\ running' = 0 /\ permits' = permits + running
          \/ batch' # {} /\ running' = running /\ permits' = permits
      BY <2>2 DEF ReturnPermit
    <3> QED
      BY <1>0, <1>2, <3>1, <3>2
  <2> QED
    BY <2>1, <2>2
<1>9. running' > 0 => batch' # {} /\ \A s \in batch' : pc'[s] = "solving"
  BY <1>0, <1>3, <1>4, <1>7 DEF Permitted
<1> QED
  BY <1>4, <1>6, <1>7, <1>8, <1>9 DEF Permitted

\* Every step keeps count of the permits.
LEMMA PermitStep == Types /\ Collected /\ Permitted /\ [Next]_vars => Permitted'
<1> SUFFICES ASSUME Types, Collected, Permitted, [Next]_vars PROVE Permitted'
  OBVIOUS
<1>0. /\ IsFiniteSet(Requests) /\ batch \in SUBSET Requests /\ queue \in Seq(Requests)
      /\ MaxBatch \in Nat /\ permits \in Nat /\ running \in Nat /\ ChannelCap \in Nat
      /\ want \in [Requests -> SUBSET Coins] /\ batching \in BOOLEAN
      /\ permits + running + Cardinality(Singles) = Permits
  BY TransfersAssumption DEF Collected, Permitted
<1>00. /\ IsFiniteSet(Singles) /\ IsFiniteSet(batch)
  BY <1>0, FS_Subset DEF Singles
<1>000. Cardinality(Singles) \in Nat /\ Cardinality(batch) \in Nat
  BY <1>00, FS_CardinalityType
\* A batch that is still gathered holds no permits.
<1>g. Gathering => running = 0
  BY <1>0 DEF Gathering, Permitted
<1>1. ASSUME NEW r \in Requests, ~Holding(pc[r], r), NEW place \in Places, ~Holding(place, r),
             pc' = [pc EXCEPT ![r] = place], UNCHANGED <<queue, batch, running, permits, batching>>,
             want' \in [Requests -> SUBSET Coins]
      PROVE  Permitted'
  <2>1. pc'[r] = place /\ \A s \in Requests : s # r => pc'[s] = pc[s]
    BY <1>1 DEF Types
  <2>2. \A s \in Requests : pc'[s] = "solving" <=> pc[s] = "solving"
    BY <1>1, <2>1 DEF Holding
  <2>3. \A s \in Requests : Route[s] = "spawned" => (pc'[s] = "executed" <=> pc[s] = "executed")
    BY <1>1, <2>1 DEF Holding
  <2> QED
    BY <1>0, <1>1, <2>2, <2>3, KeepPermits
<1>2. ASSUME NEW r \in Requests, \/ Admit(r) \/ RouteFails(r) \/ SendTimeout(r) \/ Finalize(r)
                                 \/ ReadPower(r) \/ AskPermit(r)
      PROVE  Permitted'
  <2>1. /\ pc[r] \notin {"solving", "executed"}
        /\ UNCHANGED <<queue, batch, running, permits, batching, want>>
        /\ \E place \in Places \ {"solving", "executed"} : pc' = [pc EXCEPT ![r] = place]
    BY <1>2 DEF Admit, RouteFails, SendTimeout, Finalize, ReadPower, AskPermit, Fail, collectorVars,
       Places, Ended
  <2> QED
    BY <1>0, <1>1, <2>1 DEF Holding
<1>13. ASSUME NEW r \in Requests, Submit(r)
       PROVE  Permitted'
  <2>1. pc[r] = "executed" /\ want' = want
    BY <1>13 DEF Submit
  <2>2. PICK place \in {"submitted", "failed"} : pc' = [pc EXCEPT ![r] = place]
    BY <1>13 DEF Submit
  <2>3. ~Holding(place, r)
    BY <2>2 DEF Holding
  <2>4. CASE Route[r] = "spawned"
    <3>1. ReturnPermit(r) /\ Holding(pc[r], r)
      BY <1>13, <2>1, <2>4 DEF Submit, Holding
    <3> QED
      BY <2>1, <2>2, <2>3, <3>1, ReturnStep
  <2>5. CASE Route[r] # "spawned"
    <3>1. UNCHANGED <<queue, batch, running, permits, batching>> /\ ~Holding(pc[r], r)
      BY <1>13, <2>1, <2>5 DEF Submit, Holding, collectorVars
    <3> QED
      BY <1>0, <1>1, <2>1, <2>2, <2>3, <3>1 DEF Places, Ended
  <2> QED
    BY <2>4, <2>5
<1>3. ASSUME NEW r \in Requests, NEW c \in Coins, TryReserve(r, c)
      PROVE  Permitted'
  <2>1. /\ UNCHANGED <<queue, batch, running, permits, batching>> /\ pc[r] = "reserving"
        /\ pc' = pc \/ \E place \in {"reserved", "reserving", "failed"} : pc' = [pc EXCEPT ![r] = place]
        /\ \E W \in {want[r], want[r] \ {c}, {}} : want' = [want EXCEPT ![r] = W]
    BY <1>0, <1>3 DEF TryReserve, Fail, collectorVars
  <2>2. want' \in [Requests -> SUBSET Coins]
    BY <1>0, <2>1
  <2>3. CASE pc' = pc
    BY <1>0, <2>1, <2>2, <2>3, KeepPermits
  <2>4. CASE \E place \in {"reserved", "reserving", "failed"} : pc' = [pc EXCEPT ![r] = place]
    BY <1>1, <2>1, <2>2, <2>4 DEF Places, Ended, Holding
  <2> QED
    BY <2>1, <2>3, <2>4
<1>4. ASSUME NEW r \in Requests, Select(r)
      PROVE  Permitted'
  <2>1. /\ UNCHANGED <<queue, batch, running, permits, batching>> /\ pc[r] = "admitted"
        /\ \E place \in {"reserving", "failed"} : pc' = [pc EXCEPT ![r] = place]
    BY <1>4 DEF Select, collectorVars
  <2>2. \/ want' = want \/ want' = [want EXCEPT ![r] = GreedyMerge(r)]
        \/ want' = [want EXCEPT ![r] = {c \in Mine : coin[c].balance >= Amount[r]}]
    BY <1>4 DEF Select
  <2>3. GreedyMerge(r) \subseteq Coins /\ Mine \subseteq Coins
    BY DEF GreedyMerge, Mine
  <2>4. want' \in [Requests -> SUBSET Coins]
    BY <1>0, <2>2, <2>3
  <2> QED
    BY <1>1, <2>1, <2>4 DEF Places, Ended, Holding
<1>5. ASSUME NEW r \in Requests, ReadSet(r)
      PROVE  Permitted'
  <2>1. /\ UNCHANGED <<queue, batch, running, permits, batching, want>> /\ pc[r] = "reserved"
        /\ \E place \in {"read", "leaked", "failed"} : pc' = [pc EXCEPT ![r] = place]
    BY <1>5 DEF ReadSet, Fail, collectorVars
  <2> QED
    BY <1>0, <1>1, <2>1 DEF Places, Ended, Holding
<1>6. ASSUME NEW r \in Requests, Enqueue(r)
      PROVE  Permitted'
  <2>1. /\ pc[r] = "prepared" /\ UNCHANGED <<batch, running, permits, batching, want>>
    BY <1>6 DEF Enqueue
  <2>2. CASE pc' = [pc EXCEPT ![r] = "leaked"] /\ queue' = queue
    BY <1>0, <1>1, <2>1, <2>2 DEF Places, Ended, Holding
  <2>3. CASE /\ Len(queue) < ChannelCap /\ queue' = Append(queue, r)
             /\ pc' = [pc EXCEPT ![r] = "queued"]
    <3>1. Len(queue') <= ChannelCap
      BY <1>0, <2>3
    <3>2. \A s \in Requests : pc'[s] = "solving" <=> pc[s] = "solving"
      BY <2>1, <2>3 DEF Types
    <3>3. Singles' = Singles
      BY <2>1, <2>3 DEF Singles, Holding, Types
    <3> QED
      BY <1>0, <2>1, <3>1, <3>2, <3>3 DEF Permitted
  <2> QED
    BY <1>6, <2>2, <2>3 DEF Enqueue
<1>7. ASSUME NEW r \in Requests, Acquire(r)
      PROVE  Permitted'
  <2>1. /\ pc[r] = "waiting" /\ Route[r] # "collected" /\ permits > 0 /\ permits' = permits - 1
        /\ pc' = [pc EXCEPT ![r] = "solving"] /\ UNCHANGED <<queue, batch, running, batching, want>>
    BY <1>7 DEF Acquire
  <2>2. pc'[r] = "solving" /\ \A s \in Requests : s # r => pc'[s] = pc[s]
    BY <2>1 DEF Types
  <2>3. r \notin batch /\ r \notin Singles
    BY <2>1 DEF Collected, Singles, Holding
  <2>4. Singles' = Singles \cup {r}
    BY <2>1, <2>2, <2>3 DEF Singles, Holding
  <2>5. Cardinality(Singles') = Cardinality(Singles) + 1
    BY <1>00, <2>3, <2>4, FS_AddElement
  <2>6. permits' \in Nat /\ permits' + running' + Cardinality(Singles') = Permits
    BY <1>0, <1>000, <2>1, <2>5
  <2>7. running' > 0 => batch' # {} /\ \A s \in batch' : pc'[s] = "solving"
    BY <1>0, <2>1, <2>2, <2>3 DEF Permitted
  <2> QED
    BY <2>1, <2>6, <2>7 DEF Permitted
<1>8. ASSUME NEW r \in Requests, SolverFails(r) \/ \E ok \in BOOLEAN : SolverAnswers(r, ok)
      PROVE  Permitted'
  <2>1. pc[r] = "solving" /\ want' = want /\ Holding(pc[r], r)
    BY <1>8 DEF SolverFails, SolverAnswers, Holding
  <2>2. CASE pc' = [pc EXCEPT ![r] = "failed"] /\ ReturnPermit(r)
    BY <2>1, <2>2, ReturnStep DEF Holding
  <2>3. CASE pc' = [pc EXCEPT ![r] = "executed"] /\ Route[r] # "spawned" /\ ReturnPermit(r)
    BY <2>1, <2>3, ReturnStep DEF Holding
  <2>4. CASE pc' = [pc EXCEPT ![r] = "executed"] /\ Route[r] = "spawned" /\ UNCHANGED collectorVars
    <3>1. UNCHANGED <<queue, batch, running, permits, batching>>
      BY <2>4 DEF collectorVars
    <3>2. r \notin batch
      BY <2>4 DEF Collected
    <3>3. pc'[r] = "executed" /\ \A s \in Requests : s # r => pc'[s] = pc[s]
      BY <2>4 DEF Types
    <3>4. Singles' = Singles
      BY <2>1, <2>4, <3>1, <3>3 DEF Singles, Holding
    <3>5. \A s \in batch : pc'[s] = pc[s]
      BY <1>0, <3>2, <3>3
    <3> QED
      BY <2>1, <3>1, <3>4, <3>5 DEF Permitted
  <2> QED
    BY <1>8, <2>2, <2>3, <2>4 DEF SolverFails, SolverAnswers, Fail
<1>9. CASE Collect
  <2>1. /\ Gathering /\ Cardinality(batch) < MaxBatch /\ queue # << >>
        /\ batch' = batch \cup {Head(queue)} /\ queue' = Tail(queue)
        /\ UNCHANGED <<pc, want, running, permits, batching>>
    BY <1>9 DEF Collect, requestVars
  <2>2. Head(queue) = queue[1] /\ 1 \in 1 .. Len(queue) /\ Len(queue') = Len(queue) - 1
    BY <1>0, <2>1
  <2>3. Head(queue) \notin batch /\ pc[Head(queue)] = "queued"
    BY <2>2 DEF Collected
  <2>4. Singles' = Singles
    BY <2>1, <2>3 DEF Singles, Holding
  <2>5. Cardinality(batch') = Cardinality(batch) + 1
    BY <1>00, <2>1, <2>3, FS_AddElement
  <2>6. Len(queue') <= ChannelCap
    BY <1>0, <2>2 DEF Permitted
  <2> QED
    BY <1>0, <1>g, <1>000, <2>1, <2>4, <2>5, <2>6 DEF Permitted
<1>10. CASE Dispatch \/ AcquireMany \/ Direct
  <2>0. PICK place \in {"waiting", "solving"} : Move(batch, place)
    BY <1>10 DEF Dispatch, AcquireMany, Direct
  <2>1. /\ batch # {} /\ UNCHANGED <<queue, batch, want, batching>>
        /\ \A r \in batch : pc[r] \in {"queued", "waiting"}
        /\ \/ /\ permits >= Cardinality(batch) /\ permits' = permits - Cardinality(batch)
              /\ running' = Cardinality(batch) /\ Move(batch, "solving")
           \/ UNCHANGED <<permits, running>>
    BY <1>10 DEF Dispatch, AcquireMany, Direct, Gathering, collectorVars
  <2>2. running = 0
    BY <1>0, <2>1 DEF Permitted
  <2>3. Singles' = Singles
    BY <2>0, <2>1 DEF Singles, Move
  <2>4. permits' \in Nat /\ running' \in Nat /\ permits' + running' + Cardinality(Singles) = Permits
        /\ running' <= MaxBatch
    BY <1>0, <1>000, <2>1, <2>2 DEF Permitted
  <2>5. running' > 0 => Move(batch, "solving")
    BY <2>1, <2>2
  <2>6. running' > 0 => \A r \in batch : pc'[r] = "solving"
    BY <1>0, <2>5 DEF Move
  <2> QED
    BY <2>1, <2>3, <2>4, <2>6 DEF Permitted
<1>11. CASE BatchFails
  <2>1. /\ pc' = [r \in Requests |-> IF r \in batch THEN "failed" ELSE pc[r]]
        /\ permits' = permits + running /\ batch' = {} /\ running' = 0
        /\ UNCHANGED <<want, queue, batching>>
    BY <1>11 DEF BatchFails, Move
  <2>2. Singles' = Singles
    BY <2>1 DEF Singles, Holding
  <2>3. Cardinality(batch') = 0
    BY <2>1, FS_EmptySet
  <2> QED
    BY <1>0, <1>000, <2>1, <2>2, <2>3 DEF Permitted
<1>12. CASE Fallback \/ CleanupExpired \/ (\E c \in Coins : Expire(c)) \/ UNCHANGED vars
  <2>1. UNCHANGED <<pc, want, queue, batch, running, permits>> /\ batching' \in BOOLEAN
    BY <1>0, <1>12 DEF Fallback, CleanupExpired, Expire, vars, requestVars, collectorVars
  <2> QED
    BY <1>0, <2>1, KeepPermits
<1> QED
  BY <1>2, <1>3, <1>4, <1>5, <1>6, <1>7, <1>8, <1>9, <1>10, <1>11, <1>12, <1>13 DEF Next, RequestStep

\* The types, and with them two bounds of the solver path: the semaphore never
\* has more than max_concurrent permits and the channel never more entries than
\* its buffer, though the permits of a batch come back with its last entry and
\* those of a fallback are kept (tee_executor.rs).
THEOREM TransfersTypeCorrect == Spec => []TypeOK
<1>1. Init => Collected /\ Powered /\ CInv /\ Permitted
  BY InitCInv, InitPowered, InitPermitted DEF Init, Collected
<1>2. Inv => Types
  BY DEF Inv, Held
<1>3. Inv /\ Collected /\ Powered /\ CInv /\ Permitted /\ [Next]_vars
        => (Collected /\ Powered /\ CInv /\ Permitted)'
  BY <1>2, CoinStep, CollectedStep, PowerStep, PermitStep
<1>4. Inv /\ Collected /\ Powered /\ CInv /\ Permitted => TypeOK
  <2> SUFFICES ASSUME Types, Collected, Powered, CInv, Permitted PROVE TypeOK
    BY <1>2
  <2>1. IsFiniteSet(Singles) /\ Permits \in Nat /\ MaxBatch \in Nat
    BY TransfersAssumption, FS_Subset DEF Singles
  <2>2. Cardinality(Singles) \in Nat
    BY <2>1, FS_CardinalityType
  <2>3. permits \in 0 .. Permits /\ running \in 0 .. MaxBatch
    BY <2>1, <2>2 DEF Permitted
  <2>4. /\ coin \in [Coins -> CoinStates] /\ created \in [Requests -> Nat]
        /\ seen \in [Requests -> [Coins -> CoinStates] \cup {None}]
        /\ power \in Nat \cup {None}
    BY DEF CInv, CoinsOK, SeenOK, Powered
  <2> QED
    BY <2>3, <2>4 DEF TypeOK, Types, Collected, Permitted, Places
<1> QED
  BY <1>1, <1>3, <1>4, Invariance, PTL DEF Spec
=============================================================================
