-------------------------- MODULE Governance_proofs --------------------------
(***************************************************************************)
(* Proofs about Governance, for any number of proposals, decisions,        *)
(* registrations and restarts: a proposal is decided once and its effect   *)
(* goes with its verdict, somebody always takes care of it, the projector  *)
(* ends with what is final, and the types.                                 *)
(***************************************************************************)
EXTENDS Governance, StateStore_proofs, SequenceTheorems, TLAPS

-----------------------------------------------------------------------------
(* What an event with one or two changes leaves.                           *)

\* CHOOSE picks the largest element where there is one.
LEMMA LastIsLargest ==
    ASSUME NEW J \in SUBSET Int, NEW m \in J, \A i \in J : i <= m
    PROVE  Last(J) = m
<1> DEFINE P(j) == j \in J /\ \A i \in J : i <= j
<1>1. P(m)
  OBVIOUS
<1>2. P(CHOOSE j : P(j))
  BY <1>1, Zenon
<1>3. Last(J) = CHOOSE j : P(j)
  BY DEF Last
<1>4. Last(J) \in J /\ m <= Last(J) /\ Last(J) <= m
  BY <1>2, <1>3
<1>5. Last(J) \in Int /\ m \in Int
  BY <1>4
<1> HIDE DEF P
<1> QED
  BY <1>4, <1>5

\* What a single change leaves at a key.
LEMMA ShadowOfOne ==
    ASSUME NEW st, NEW c, NEW k
    PROVE  /\ Shadow(st, <<c>>, 0, k) = st[k]
           /\ Shadow(st, <<c>>, 1, k) = IF c.key = k THEN c.new ELSE st[k]
<1>1. WritesOf(<<c>>, 0, k) = {}
  BY DEF WritesOf
<1>2. CASE c.key = k
  <2>1. WritesOf(<<c>>, 1, k) = {1}
    BY <1>2 DEF WritesOf
  <2>2. Last({1}) = 1
    BY LastIsLargest
  <2> QED
    BY <1>1, <1>2, <2>1, <2>2 DEF Shadow
<1>3. CASE c.key # k
  <2>1. WritesOf(<<c>>, 1, k) = {}
    BY <1>3 DEF WritesOf
  <2> QED
    BY <1>1, <1>3, <2>1 DEF Shadow
<1> QED
  BY <1>2, <1>3

\* What two changes of different keys leave at a key.
LEMMA ShadowOfTwo ==
    ASSUME NEW st, NEW c, NEW e, NEW k, c.key # e.key
    PROVE  /\ Shadow(st, <<c, e>>, 0, k) = st[k]
           /\ Shadow(st, <<c, e>>, 1, k) = IF c.key = k THEN c.new ELSE st[k]
           /\ Shadow(st, <<c, e>>, 2, k) = IF e.key = k THEN e.new
                                           ELSE IF c.key = k THEN c.new ELSE st[k]
<1>1. WritesOf(<<c, e>>, 0, k) = {}
  BY DEF WritesOf
<1>2. Last({1}) = 1 /\ Last({2}) = 2
  BY LastIsLargest
<1>3. CASE c.key = k
  <2>1. WritesOf(<<c, e>>, 1, k) = {1} /\ WritesOf(<<c, e>>, 2, k) = {1}
    BY <1>3 DEF WritesOf
  <2> QED
    BY <1>1, <1>2, <1>3, <2>1 DEF Shadow
<1>4. CASE e.key = k
  <2>1. WritesOf(<<c, e>>, 1, k) = {} /\ WritesOf(<<c, e>>, 2, k) = {2}
    BY <1>4 DEF WritesOf
  <2> QED
    BY <1>1, <1>2, <1>4, <2>1 DEF Shadow
<1>5. CASE c.key # k /\ e.key # k
  <2>1. WritesOf(<<c, e>>, 1, k) = {} /\ WritesOf(<<c, e>>, 2, k) = {}
    BY <1>5 DEF WritesOf
  <2> QED
    BY <1>1, <1>5, <2>1 DEF Shadow
<1> QED
  BY <1>3, <1>4, <1>5

\* An event is applied if and only if every old value is the current one.
LEMMA ApplyOneChange ==
    ASSUME NEW st, NEW k \in Keys, NEW o, NEW n, o = None => n # None,
           NEW r, r = [ok |-> TRUE, changes |-> <<Change(k, o, n)>>]
    PROVE  /\ Verdict(st, r) = "applied" <=> st[k] = o
           /\ st[k] = o => ApplyOne(st, r) = [j \in Keys |-> IF j = k THEN n ELSE st[j]]
           /\ st[k] # o => ApplyOne(st, r) = st
<1> DEFINE c == Change(k, o, n)
<1>1. r.ok /\ r.changes = <<c>> /\ Len(<<c>>) = 1 /\ DOMAIN <<c>> = {1}
  OBVIOUS
<1>2. c.key = k /\ c.old = o /\ c.new = n
  BY DEF Change
<1>3. Conflict(st, <<c>>, 1) <=> st[k] # o
  <2>1. Shadow(st, <<c>>, 1 - 1, k) = st[k]
    BY ShadowOfOne
  <2>2. <<c>>[1] = c
    OBVIOUS
  <2> HIDE DEF c
  <2> QED
    BY <1>2, <2>1, <2>2 DEF Conflict
<1>4. \A j : Shadow(st, <<c>>, 1, j) = IF k = j THEN n ELSE st[j]
  BY <1>2, ShadowOfOne
<1> HIDE DEF c
<1>5. Stale(st, r.changes) <=> st[k] # o
  BY <1>1, <1>3 DEF Stale
<1>6. Verdict(st, r) = "applied" <=> st[k] = o
  BY <1>1, <1>5 DEF Verdict
<1>7. Written(st, r.changes) = [j \in Keys |-> IF j = k THEN n ELSE st[j]]
  BY <1>1, <1>4 DEF Written
<1> QED
  BY <1>6, <1>7 DEF ApplyOne

\* The same for an event with two changes: both old values must be current.
LEMMA ApplyTwoChanges ==
    ASSUME NEW st, NEW k \in Keys, NEW o, NEW n, o = None => n # None,
           NEW l \in Keys, NEW b, NEW a, b = None => a # None, k # l,
           NEW r, r = [ok |-> TRUE, changes |-> <<Change(k, o, n), Change(l, b, a)>>]
    PROVE  /\ Verdict(st, r) = "applied" <=> st[k] = o /\ st[l] = b
           /\ st[k] = o /\ st[l] = b =>
                ApplyOne(st, r) = [j \in Keys |-> IF j = k THEN n ELSE IF j = l THEN a ELSE st[j]]
           /\ st[k] # o \/ st[l] # b => ApplyOne(st, r) = st
<1> DEFINE c == Change(k, o, n)
           e == Change(l, b, a)
<1>1. r.ok /\ r.changes = <<c, e>> /\ Len(<<c, e>>) = 2 /\ DOMAIN <<c, e>> = {1, 2}
  OBVIOUS
<1>2. /\ c.key = k /\ c.old = o /\ c.new = n
      /\ e.key = l /\ e.old = b /\ e.new = a
  BY DEF Change
<1> HIDE DEF c, e
<1>3. Conflict(st, <<c, e>>, 1) <=> st[k] # o
  <2>1. Shadow(st, <<c, e>>, 1 - 1, k) = st[k]
    BY ShadowOfTwo, <1>2
  <2>2. <<c, e>>[1] = c
    OBVIOUS
  <2> QED
    BY <1>2, <2>1, <2>2 DEF Conflict
<1>4. Conflict(st, <<c, e>>, 2) <=> st[l] # b
  <2>1. Shadow(st, <<c, e>>, 2 - 1, l) = st[l]
    BY ShadowOfTwo, <1>2
  <2>2. <<c, e>>[2] = e
    OBVIOUS
  <2> QED
    BY <1>2, <2>1, <2>2 DEF Conflict
<1>5. \A j : Shadow(st, <<c, e>>, 2, j) = IF j = k THEN n ELSE IF j = l THEN a ELSE st[j]
  BY <1>2, ShadowOfTwo
<1>6. Stale(st, r.changes) <=> st[k] # o \/ st[l] # b
  BY <1>1, <1>3, <1>4 DEF Stale
<1>7. Verdict(st, r) = "applied" <=> st[k] = o /\ st[l] = b
  BY <1>1, <1>6 DEF Verdict
<1>8. Written(st, r.changes) = [j \in Keys |-> IF j = k THEN n ELSE IF j = l THEN a ELSE st[j]]
  BY <1>1, <1>5 DEF Written
<1> QED
  BY <1>7, <1>8 DEF ApplyOne

-----------------------------------------------------------------------------
(* Sequences of events and their elements.                                 *)

\* Nothing is in an empty sequence.
LEMMA RangeEmpty == Range(<< >>) = {}
  BY DEF Range

\* Appending adds one element.
LEMMA RangeAppend ==
    ASSUME NEW S, NEW s \in Seq(S), NEW e \in S
    PROVE  Append(s, e) \in Seq(S) /\ Range(Append(s, e)) = Range(s) \cup {e}
  BY SMTT(30) DEF Range

\* The head is what the tail lacks.
LEMMA RangeTail ==
    ASSUME NEW S, NEW s \in Seq(S), s # << >>
    PROVE  /\ Tail(s) \in Seq(S) /\ Head(s) \in S
           /\ Range(s) = Range(Tail(s)) \cup {Head(s)}
<1>1. Tail(s) \in Seq(S) /\ Head(s) \in S /\ Len(s) \in Nat \ {0}
  OBVIOUS
<1>2. /\ Len(Tail(s)) = Len(s) - 1 /\ Head(s) = s[1]
      /\ \A i \in 1 .. Len(s) - 1 : Tail(s)[i] = s[i + 1]
  OBVIOUS
<1>3. Range(s) \subseteq Range(Tail(s)) \cup {Head(s)}
  <2>1. ASSUME NEW i \in 1 .. Len(s), i # 1
        PROVE  i - 1 \in 1 .. Len(s) - 1 /\ s[i] = Tail(s)[i - 1]
    BY <1>1, <1>2, <2>1
  <2>2. ASSUME NEW i \in 1 .. Len(s)
        PROVE  s[i] \in Range(Tail(s)) \cup {Head(s)}
    <3>1. CASE i = 1
      BY <1>2, <3>1
    <3>2. CASE i # 1
      <4>1. i - 1 \in 1 .. Len(s) - 1 /\ s[i] = Tail(s)[i - 1]
        BY <2>1, <3>2
      <4>2. DOMAIN Tail(s) = 1 .. Len(s) - 1
        BY <1>1, <1>2
      <4> QED
        BY <4>1, <4>2 DEF Range
    <3> QED
      BY <3>1, <3>2
  <2> QED
    BY <2>2 DEF Range
<1>4. Range(Tail(s)) \subseteq Range(s) /\ Head(s) \in Range(s)
  BY <1>1, <1>2 DEF Range
<1> QED
  BY <1>1, <1>3, <1>4

\* The elements of a sequence over S are in S.
LEMMA RangeInSet == ASSUME NEW S, NEW s \in Seq(S) PROVE Range(s) \subseteq S
  BY DEF Range

-----------------------------------------------------------------------------
(* The shape of what is in the ledger.                                     *)

\* The results that the handlers of this and of other validators make.
Shaped(t) ==
    \/ t \in Proposals /\ result[t] = ProposeResult(t)
    \/ /\ t \in Decisions /\ about[t] \in Proposals
       /\ \E a \in BOOLEAN : \E now : result[t] = ExecuteResult(about[t], a, now)
    \/ /\ t \in Registrations
       /\ \E o : result[t] = [ok |-> TRUE, changes |-> <<Change(Subnet, o, t)>>]

Types ==
    /\ pc \in [Txs -> {"start", "submitted", "done"}]
    /\ about \in [Decisions -> Proposals \cup {None}]
    /\ DOMAIN result = Txs
    /\ depth \in [Txs -> Nat] /\ maxDepth \in Nat
    /\ DOMAIN pendingGov = Proposals /\ epoch \in Nat
    /\ dag \in SUBSET Txs /\ unsaved \in Seq(Txs) /\ missed \in SUBSET Txs /\ store \in SUBSET Txs
    /\ lost \in SUBSET Txs /\ DOMAIN smt = Keys

\* An event is known from the moment its handler has made it.
Known == \A t \in Txs :
    /\ pc[t] # "start" => Shaped(t)
    /\ pc[t] = "start" => t \notin dag \cup Range(unsaved) \cup missed \cup store \cup lost
    /\ depth[t] <= maxDepth

Base == Types /\ Known

\* In the beginning no event is known.
LEMMA InitBase == Init => Base
<1> SUFFICES ASSUME Init PROVE Base
  OBVIOUS
<1>1. Types
  BY DEF Init, Types
<1>2. Known
  BY RangeEmpty DEF Init, Known
<1> QED
  BY <1>1, <1>2 DEF Base

\* An event that enters the DAG with a result of its handler.
LEMMA EnterBase ==
    ASSUME Base, NEW t \in Txs, NEW r, EnterDag(t, r),
           pc' \in [Txs -> {"start", "submitted", "done"}],
           about' \in [Decisions -> Proposals \cup {None}],
           \A s \in Txs \ {t} : pc'[s] = pc[s],
           pc'[t] # "start", Shaped(t)',
           \A d \in Decisions \ {t} : about'[d] = about[d],
           UNCHANGED <<pendingGov, epoch, unsaved, missed, store, smt>>,
           lost' \in SUBSET lost
    PROVE  Base'
<1>1. Types'
  <2>1. DOMAIN result' = Txs /\ dag' \in SUBSET Txs /\ lost' \in SUBSET Txs
    BY DEF Base, Types, EnterDag
  <2>2. depth' \in [Txs -> Nat] /\ maxDepth' \in Nat
    BY DEF Base, Types, EnterDag
  <2>3. /\ DOMAIN pendingGov' = Proposals /\ epoch' \in Nat
        /\ unsaved' \in Seq(Txs) /\ missed' \in SUBSET Txs /\ store' \in SUBSET Txs /\ DOMAIN smt' = Keys
    BY DEF Base, Types
  <2> QED
    BY <2>1, <2>2, <2>3 DEF Types
<1>2. ASSUME NEW s \in Txs
      PROVE  /\ pc'[s] # "start" => Shaped(s)'
             /\ pc'[s] = "start" => s \notin (dag \cup Range(unsaved) \cup missed \cup store \cup lost)'
             /\ depth'[s] <= maxDepth'
  <2>1. CASE s = t
    BY <2>1 DEF Base, Types, EnterDag
  <2>2. CASE s # t
    <3>1. pc'[s] = pc[s] /\ result'[s] = result[s] /\ depth'[s] = depth[s]
      BY <2>2 DEF Base, Types, EnterDag
    <3>2. s \in Decisions => about'[s] = about[s]
      BY <2>2
    <3>3. Shaped(s) => Shaped(s)'
      BY <3>1, <3>2 DEF Shaped, ProposeResult, ExecuteResult, EffectChange, Change
    <3>4. depth[s] <= maxDepth /\ maxDepth \in Nat /\ maxDepth' = maxDepth + 1 /\ depth[s] \in Nat
      BY DEF Base, Types, Known, EnterDag
    <3>5. (dag \cup Range(unsaved) \cup missed \cup store \cup lost)'
              \subseteq dag \cup {t} \cup Range(unsaved) \cup missed \cup store \cup lost
      BY DEF EnterDag
    <3>6. /\ pc[s] # "start" => Shaped(s)
          /\ pc[s] = "start" => s \notin dag \cup Range(unsaved) \cup missed \cup store \cup lost
      BY DEF Base, Known
    <3> QED
      BY <2>2, <3>1, <3>3, <3>4, <3>5, <3>6
  <2> QED
    BY <2>1, <2>2
<1> QED
  BY <1>1, <1>2 DEF Base, Known

\* A step that moves events about and changes no result.
LEMMA MoveBase ==
    ASSUME Base, UNCHANGED <<about, result, depth, maxDepth>>,
           pc' \in [Txs -> {"start", "submitted", "done"}],
           \A s \in Txs : pc'[s] = "start" <=> pc[s] = "start",
           DOMAIN pendingGov' = Proposals, epoch' \in Nat, DOMAIN smt' = Keys,
           unsaved' \in Seq(Txs),
           dag' \cup Range(unsaved)' \cup missed' \cup store' \cup lost'
               \subseteq dag \cup Range(unsaved) \cup missed \cup store \cup lost
    PROVE  Base'
<1>1. dag \cup Range(unsaved) \cup missed \cup store \cup lost \subseteq Txs
  BY RangeInSet DEF Base, Types
<1>2. Types'
  BY <1>1 DEF Base, Types
<1>3. \A t \in Txs : Shaped(t) => Shaped(t)'
  BY DEF Shaped, ProposeResult, ExecuteResult, EffectChange, Change
<1>4. Known'
  BY <1>3 DEF Base, Known
<1> QED
  BY <1>2, <1>4 DEF Base

\* An event is a proposal, a decision or a registration.
LEMMA TxsSplit ==
    /\ Proposals \subseteq Txs /\ Decisions \subseteq Txs /\ Registrations \subseteq Txs
    /\ Proposals \cap Decisions = {} /\ Decisions \cap Registrations = {}
    /\ Proposals \cap Registrations = {} /\ Foreign \subseteq Proposals
  BY GovernanceAssumption

\* Every step keeps the shapes of results and the places of events.
LEMMA NextBase == Base /\ [Next]_vars => Base'
<1> SUFFICES ASSUME Base, [Next]_vars PROVE Base'
  OBVIOUS
<1> USE TxsSplit
<1> DEFINE enterAt(t) ==
      /\ pc' \in [Txs -> {"start", "submitted", "done"}]
      /\ \A s \in Txs \ {t} : pc'[s] = pc[s]
      /\ pc'[t] # "start"
<1>1. ASSUME NEW p \in Proposals, Propose(p) \/ ArrivePropose(p)
      PROVE  Base'
  <2>1. EnterDag(p, ProposeResult(p)) /\ enterAt(p)
    BY <1>1 DEF Propose, ArrivePropose, Base, Types
  <2>2. UNCHANGED <<about, pendingGov, epoch, unsaved, missed, store, smt, lost>>
    BY <1>1 DEF Propose, ArrivePropose, serviceVars, ledgerVars
  <2>3. Shaped(p)'
    BY <2>1 DEF EnterDag, Base, Types, Shaped, ProposeResult, Change
  <2>4. about' \in [Decisions -> Proposals \cup {None}]
    BY <2>2 DEF Base, Types
  <2> QED
    BY <2>1, <2>2, <2>3, <2>4, EnterBase
<1>2. ASSUME NEW g \in Registrations, Register(g)
      PROVE  Base'
  <2>1. EnterDag(g, RegisterResult(g)) /\ enterAt(g)
    BY <1>2 DEF Register, Base, Types
  <2>2. UNCHANGED <<about, pendingGov, epoch, unsaved, missed, store, smt, lost>>
    BY <1>2 DEF Register, serviceVars, ledgerVars
  <2>3. result'[g] = [ok |-> TRUE, changes |-> <<Change(Subnet, smt[Subnet], g)>>]
    BY <2>1 DEF EnterDag, Base, Types, RegisterResult
  <2>4. Shaped(g)'
    BY <2>3 DEF Shaped, Change
  <2>5. about' \in [Decisions -> Proposals \cup {None}]
    BY <2>2 DEF Base, Types
  <2> QED
    BY <2>1, <2>2, <2>4, <2>5, EnterBase
<1>3. ASSUME NEW d \in Decisions, NEW p \in Proposals, NEW a \in BOOLEAN, NEW now,
             EnterDag(d, ExecuteResult(p, a, now)),
             pc[d] = "start", pc' = [pc EXCEPT ![d] = "submitted"] \/ pc' = [pc EXCEPT ![d] = "done"],
             about' = [about EXCEPT ![d] = p],
             UNCHANGED <<pendingGov, epoch, unsaved, missed, store, smt, lost>>
      PROVE  Base'
  <2>1. enterAt(d)
    BY <1>3 DEF Base, Types
  <2>2. about' \in [Decisions -> Proposals \cup {None}] /\ about'[d] = p
    BY <1>3 DEF Base, Types
  <2>3. result'[d] = ExecuteResult(p, a, now)
    BY <1>3 DEF EnterDag, Base, Types
  <2>4. Shaped(d)'
    BY <2>2, <2>3 DEF Shaped, ExecuteResult, EffectChange, Change
  <2>5. \A e \in Decisions \ {d} : about'[e] = about[e]
    BY <1>3 DEF Base, Types
  <2> QED
    BY <1>3, <2>1, <2>2, <2>4, <2>5, EnterBase
<1>4. ASSUME NEW d \in Decisions, NEW p \in Proposals, NEW a \in BOOLEAN, Decide(d, p, a)
      PROVE  Base'
  <2>1. UNCHANGED <<pendingGov, epoch, unsaved, missed, store, smt, lost>>
    BY <1>4 DEF Decide, serviceVars, ledgerVars
  <2> QED
    BY <1>3, <1>4, <2>1 DEF Decide
<1>5. ASSUME NEW d \in Decisions, NEW p \in Proposals, NEW a \in BOOLEAN, ArriveExecute(d, p, a)
      PROVE  Base'
  <2>1. UNCHANGED <<pendingGov, epoch, unsaved, missed, store, smt, lost>>
    BY <1>5 DEF ArriveExecute, serviceVars, ledgerVars
  <2> QED
    BY <1>3, <1>5, <2>1 DEF ArriveExecute
<1>6. ASSUME NEW t \in Txs, Redeliver(t)
      PROVE  Base'
  <2>1. EnterDag(t, result[t]) /\ t \in lost
    BY <1>6 DEF Redeliver
  <2>2. UNCHANGED <<pc, about, pendingGov, epoch, unsaved, missed, store, smt>> /\ lost' = lost \ {t}
    BY <1>6 DEF Redeliver, serviceVars, handlerVars
  <2>3. pc[t] # "start" /\ Shaped(t)
    BY <2>1 DEF Base, Known
  <2>4. result'[t] = result[t]
    BY <2>1 DEF EnterDag, Base, Types
  <2>5. Shaped(t)'
    BY <2>2, <2>3, <2>4 DEF Shaped, ProposeResult, ExecuteResult, EffectChange, Change
  <2>6. /\ about' \in [Decisions -> Proposals \cup {None}] /\ lost' \in SUBSET lost
        /\ pc' \in [Txs -> {"start", "submitted", "done"}]
    BY <2>2 DEF Base, Types
  <2> QED
    BY <2>1, <2>2, <2>3, <2>5, <2>6, EnterBase
<1>7. ASSUME NEW t \in Txs, Finalize(t)
      PROVE  Base'
  <2>1. /\ UNCHANGED <<pc, about, result, depth, maxDepth, pendingGov, epoch, missed, store, lost>>
        /\ t \in dag /\ dag' = dag \ {t} /\ unsaved' = Append(unsaved, t)
        /\ smt' = ApplyOne(smt, result[t])
    BY <1>7 DEF Finalize, handlerVars
  <2>2. unsaved' \in Seq(Txs) /\ Range(unsaved)' = Range(unsaved) \cup {t}
    BY <2>1, RangeAppend DEF Base, Types
  <2>3. DOMAIN smt' = Keys
    BY <2>1 DEF ApplyOne, Written, Base, Types
  <2>4. /\ dag' \cup Range(unsaved)' \cup missed' \cup store' \cup lost'
               \subseteq dag \cup Range(unsaved) \cup missed \cup store \cup lost
        /\ DOMAIN pendingGov' = Proposals /\ epoch' \in Nat
        /\ pc' \in [Txs -> {"start", "submitted", "done"}]
    BY <2>1, <2>2 DEF Base, Types
  <2> QED
    BY <2>1, <2>2, <2>3, <2>4, MoveBase
<1>8. CASE Persist \/ \E saved \in BOOLEAN : Miss(saved)
  <2>1. /\ UNCHANGED <<pc, about, result, depth, maxDepth, pendingGov, epoch, smt, dag, lost>>
        /\ unsaved # << >> /\ unsaved' = Tail(unsaved)
        /\ store' \subseteq store \cup {Head(unsaved)} /\ missed' \subseteq missed \cup {Head(unsaved)}
    BY <1>8 DEF Persist, Miss, handlerVars, serviceVars
  <2>2. unsaved' \in Seq(Txs) /\ Range(unsaved)' \cup {Head(unsaved)} = Range(unsaved)
    BY <2>1, RangeTail DEF Base, Types
  <2>3. /\ DOMAIN pendingGov' = Proposals /\ epoch' \in Nat /\ DOMAIN smt' = Keys
        /\ pc' \in [Txs -> {"start", "submitted", "done"}]
    BY <2>1 DEF Base, Types
  <2> QED
    BY <2>1, <2>2, <2>3, MoveBase
<1>9. CASE Restart
  <2>1. /\ UNCHANGED <<about, result, depth, maxDepth, store, smt>>
        /\ lost' \subseteq lost \cup dag \cup Range(unsaved) \cup missed /\ dag' = {}
        /\ unsaved' = << >> /\ missed' = {}
        /\ DOMAIN pendingGov' = Proposals
        /\ pc' = [t \in Txs |-> IF pc[t] = "submitted" THEN "done" ELSE pc[t]]
    BY <1>9 DEF Restart, Unstored
  <2>2. epoch' \in Nat /\ DOMAIN smt' = Keys
    BY <1>9, <2>1 DEF Restart, Base, Types
  <2>3. unsaved' \in Seq(Txs) /\ Range(unsaved)' = {}
    BY <2>1, RangeEmpty
  <2>4. /\ pc' \in [Txs -> {"start", "submitted", "done"}]
        /\ \A s \in Txs : pc'[s] = "start" <=> pc[s] = "start"
    BY <2>1 DEF Base, Types
  <2> QED
    BY <2>1, <2>2, <2>3, <2>4, MoveBase
<1>10. ASSUME UNCHANGED <<about, result, depth, maxDepth, epoch, dag, smt, unsaved, missed, store, lost>>,
              pendingGov' = pendingGov \/ \E p \in Proposals : \E v : pendingGov' = [pendingGov EXCEPT ![p] = v],
              pc' = pc \/ \E t \in Txs : pc[t] # "start" /\ pc' = [pc EXCEPT ![t] = "done"]
       PROVE  Base'
  <2>1. /\ DOMAIN pendingGov' = Proposals /\ epoch' \in Nat /\ DOMAIN smt' = Keys
        /\ unsaved' \in Seq(Txs)
    BY <1>10 DEF Base, Types
  <2>2. /\ pc' \in [Txs -> {"start", "submitted", "done"}]
        /\ \A s \in Txs : pc'[s] = "start" <=> pc[s] = "start"
    BY <1>10 DEF Base, Types
  <2> QED
    BY <1>10, <2>1, <2>2, MoveBase
<1>11. ASSUME NEW p \in Proposals, SettlePropose(p) PROVE Base'
  BY <1>10, <1>11 DEF SettlePropose, ledgerVars
<1>12. ASSUME NEW d \in Decisions, SettleExecute(d) PROVE Base'
  <2>1. pc[d] # "start" /\ d \in Txs
    BY <1>12 DEF SettleExecute
  <2>2. about[d] \in Proposals
    BY <2>1 DEF Base, Known, Shaped
  <2> QED
    BY <1>10, <1>12, <2>1, <2>2 DEF SettleExecute, ledgerVars
<1>13. ASSUME NEW g \in Registrations, SettleRegister(g) PROVE Base'
  BY <1>10, <1>13 DEF SettleRegister, ledgerVars
<1>14. CASE (\E p \in Proposals : PollNothing(p)) \/ PollTick \/ Project \/ UNCHANGED vars
  BY <1>10, <1>14 DEF PollNothing, PollTick, Project, vars, handlerVars, serviceVars, ledgerVars
<1> QED
  BY <1>1, <1>2, <1>4, <1>5, <1>6, <1>7, <1>8, <1>9, <1>11, <1>12, <1>13, <1>14
     DEF Next, Callback, PollResult, PollTimeout

-----------------------------------------------------------------------------
(* What finality does to the state.                                        *)

\* The keys of proposals and of the three objects are different keys.
LEMMA KeysSplit ==
    /\ Proposals \subseteq Keys /\ Param \in Keys /\ Resource \in Keys /\ Subnet \in Keys
    /\ Param # Resource /\ Param # Subnet /\ Resource # Subnet
    /\ Param \notin Proposals /\ Resource \notin Proposals /\ Subnet \notin Proposals
    /\ \A p \in Proposals : Effect[p] \in {Param, Resource}
    /\ \A t \in Txs : t # None
    /\ None \notin {"pending", "approved", "rejected"}
    /\ \A S \in SUBSET Proposals : None # S
  BY GovernanceAssumption

\* The parameters with p added.
With(now, p) == (IF now = None THEN {} ELSE now) \cup {p}

\* A Propose event creates the proposal, once.
LEMMA FinalizePropose ==
    ASSUME Base, NEW p \in Proposals, p \in dag
    PROVE  /\ \A k \in Keys \ {p} : ApplyOne(smt, result[p])[k] = smt[k]
           /\ ApplyOne(smt, result[p])[p] = IF smt[p] = None THEN "pending" ELSE smt[p]
<1>1. result[p] = [ok |-> TRUE, changes |-> <<Change(p, None, "pending")>>]
  BY TxsSplit DEF Base, Known, Shaped, ProposeResult
<1>2. p \in Keys /\ None # "pending"
  BY KeysSplit
<1> QED
  BY <1>1, <1>2, ApplyOneChange

\* Finality of a registration changes the subnet, if it read what is current.
LEMMA FinalizeRegister ==
    ASSUME Base, NEW g \in Registrations, g \in dag
    PROVE  \A k \in Keys \ {Subnet} : ApplyOne(smt, result[g])[k] = smt[k]
<1>1. PICK o : result[g] = [ok |-> TRUE, changes |-> <<Change(Subnet, o, g)>>]
  BY TxsSplit DEF Base, Known, Shaped
<1>2. Subnet \in Keys /\ None # g
  BY KeysSplit, TxsSplit
<1>3. /\ smt[Subnet] = o => ApplyOne(smt, result[g]) = [j \in Keys |-> IF j = Subnet THEN g ELSE smt[j]]
      /\ smt[Subnet] # o => ApplyOne(smt, result[g]) = smt
  <2> DEFINE r == result[g]
  <2>1. r = [ok |-> TRUE, changes |-> <<Change(Subnet, o, g)>>]
    BY <1>1
  <2> HIDE DEF r
  <2>0. o = None => g # None
    BY <1>2
  <2>2. /\ smt[Subnet] = o => ApplyOne(smt, r) = [j \in Keys |-> IF j = Subnet THEN g ELSE smt[j]]
        /\ smt[Subnet] # o => ApplyOne(smt, r) = smt
    BY <1>2, <2>0, <2>1, ApplyOneChange
  <2> QED
    BY <2>2 DEF r
<1> QED
  BY <1>3

\* An Execute event decides a pending proposal and writes its effect, or does
\* nothing at all.
LEMMA FinalizeExecute ==
    ASSUME Base, NEW d \in Decisions, d \in dag
    PROVE  /\ about[d] \in Proposals
           /\ \/ /\ Verdict(smt, result[d]) # "applied"
                 /\ ApplyOne(smt, result[d]) = smt
              \/ /\ Verdict(smt, result[d]) = "applied"
                 /\ smt[about[d]] = "pending"
                 /\ ApplyOne(smt, result[d])[about[d]] = "rejected"
                 /\ \A k \in Keys \ {about[d]} : ApplyOne(smt, result[d])[k] = smt[k]
              \/ /\ Verdict(smt, result[d]) = "applied"
                 /\ smt[about[d]] = "pending"
                 /\ ApplyOne(smt, result[d])[about[d]] = "approved"
                 /\ Effect[about[d]] = Resource =>
                        /\ ApplyOne(smt, result[d])[Resource] = With(smt[Resource], about[d])
                        /\ ApplyOne(smt, result[d])[Param] = smt[Param]
                 /\ Effect[about[d]] = Param =>
                        /\ smt[Param] = None /\ ApplyOne(smt, result[d])[Param] = about[d]
                        /\ ApplyOne(smt, result[d])[Resource] = smt[Resource]
                 /\ \A k \in Keys \ {about[d], Resource, Param} :
                        ApplyOne(smt, result[d])[k] = smt[k]
<1> DEFINE p == about[d]
           r == result[d]
<1>1. p \in Proposals /\ \E a \in BOOLEAN : \E now : r = ExecuteResult(p, a, now)
  BY TxsSplit DEF Base, Known, Shaped
<1>2. PICK a \in BOOLEAN : \E now : r = ExecuteResult(p, a, now)
  BY <1>1
<1>3. PICK now : r = ExecuteResult(p, a, now)
  BY <1>2
<1> HIDE DEF p, r
<1>4. /\ p \in Keys /\ p # Resource /\ p # Param /\ p # None /\ Effect[p] \in {Param, Resource}
      /\ Param \in Keys /\ Resource \in Keys /\ Param # Resource
      /\ "approved" # None /\ "rejected" # None /\ "pending" # None /\ {p} # None
  BY <1>1, KeysSplit, TxsSplit
<1>5. CASE ~a
  <2>1. r = [ok |-> TRUE, changes |-> <<Change(p, "pending", "rejected")>>]
    BY <1>3, <1>5 DEF ExecuteResult
  <2>2. /\ Verdict(smt, r) = "applied" <=> smt[p] = "pending"
        /\ smt[p] = "pending" =>
             ApplyOne(smt, r) = [j \in Keys |-> IF j = p THEN "rejected" ELSE smt[j]]
        /\ smt[p] # "pending" => ApplyOne(smt, r) = smt
    BY <1>4, <2>1, ApplyOneChange
  <2> QED
    BY <1>1, <1>4, <2>2 DEF p, r
<1>6. CASE a /\ Effect[p] = Resource
  <2> DEFINE b == With(now, p)
  <2>1. r = [ok |-> TRUE, changes |-> <<Change(p, "pending", "approved"), Change(Resource, now, b)>>]
    BY <1>3, <1>6 DEF ExecuteResult, EffectChange, With
  <2>2. now = None => b # None
    BY <1>4 DEF With
  <2> HIDE DEF b
  <2>3. /\ Verdict(smt, r) = "applied" <=> smt[p] = "pending" /\ smt[Resource] = now
        /\ smt[p] = "pending" /\ smt[Resource] = now =>
             ApplyOne(smt, r) = [j \in Keys |-> IF j = p THEN "approved" ELSE IF j = Resource THEN b ELSE smt[j]]
        /\ smt[p] # "pending" \/ smt[Resource] # now => ApplyOne(smt, r) = smt
    BY <1>4, <2>1, <2>2, ApplyTwoChanges
  <2> QED
    BY <1>1, <1>4, <1>6, <2>3 DEF p, r, b
<1>7. CASE a /\ Effect[p] = Param
  <2>1. r = [ok |-> TRUE, changes |-> <<Change(p, "pending", "approved"), Change(Param, None, p)>>]
    BY <1>3, <1>4, <1>7 DEF ExecuteResult, EffectChange
  <2>2. /\ Verdict(smt, r) = "applied" <=> smt[p] = "pending" /\ smt[Param] = None
        /\ smt[p] = "pending" /\ smt[Param] = None =>
             ApplyOne(smt, r) = [j \in Keys |-> IF j = p THEN "approved" ELSE IF j = Param THEN p ELSE smt[j]]
        /\ smt[p] # "pending" \/ smt[Param] # None => ApplyOne(smt, r) = smt
    BY <1>4, <2>1, ApplyTwoChanges
  <2> QED
    BY <1>1, <1>4, <1>7, <2>2 DEF p, r
<1> QED
  BY <1>4, <1>5, <1>6, <1>7

\* Only finality writes the state.
LEMMA OnlyFinalize ==
    ASSUME [Next]_vars, \A t \in Txs : ~Finalize(t)
    PROVE  smt' = smt /\ applied' = applied
  BY ZenonT(60) DEF Next, vars, ledgerVars, Propose, SettlePropose, ArrivePropose, PollNothing, Callback,
     PollResult, PollTimeout, Decide, ArriveExecute, SettleExecute, Register, SettleRegister,
     PollTick, Persist, Miss, Project, Restart, Redeliver

-----------------------------------------------------------------------------
(* Decided once.                                                           *)

\* No step changes the status of a decided proposal.
LEMMA DecidedStep ==
    ASSUME Base, [Next]_vars, NEW p \in Proposals, smt[p] \in {"approved", "rejected"}
    PROVE  smt'[p] = smt[p]
<1>1. CASE \A t \in Txs : ~Finalize(t)
  BY <1>1, OnlyFinalize
<1>2. ASSUME NEW t \in Txs, Finalize(t)
      PROVE  smt'[p] = smt[p]
  <2>1. t \in dag /\ smt' = ApplyOne(smt, result[t])
    BY <1>2 DEF Finalize
  <2>2. p \in Keys /\ p # Resource /\ p # Param /\ p # Subnet /\ smt[p] # None
    BY KeysSplit
  <2>3. CASE t \in Proposals
    BY <2>1, <2>2, <2>3, FinalizePropose
  <2>4. CASE t \in Registrations
    BY <2>1, <2>2, <2>4, FinalizeRegister
  <2>5. CASE t \in Decisions
    BY <2>1, <2>2, <2>5, FinalizeExecute
  <2> QED
    BY <2>3, <2>4, <2>5, GovernanceAssumption
<1> QED
  BY <1>1, <1>2

\* Base holds in every reachable state.
LEMMA BaseInvariant == Spec => []Base
  BY InitBase, NextBase, PTL DEF Spec

\* A decided proposal is never decided again, whatever number of callbacks,
\* polls, timeouts and foreign Execute events submit decisions about it
\* (apply_committed_events takes one and finds the others stale).
THEOREM DecidedOnceHolds == Spec => DecidedOnce
<1>1. Base /\ [Next]_vars =>
        [\A p \in Proposals : smt[p] \in {"approved", "rejected"} => smt'[p] = smt[p]]_vars
  BY DecidedStep
<1> QED
  BY <1>1, BaseInvariant, PTL DEF Spec, DecidedOnce

-----------------------------------------------------------------------------
(* Verdicts and effects.                                                   *)

ApprovedFor(k) == {p \in Proposals : Effect[p] = k /\ smt[p] = "approved"}

\* EffectsMatchVerdicts, one proposal at a time.
LEMMA EffectsByName ==
    EffectsMatchVerdicts <=>
        /\ ApprovedFor(Resource) = IF smt[Resource] = None THEN {} ELSE smt[Resource]
        /\ ApprovedFor(Param) = {smt[Param]} \ {None}
  BY DEF EffectsMatchVerdicts, ApprovedFor

\* Every step keeps effects and verdicts together.
LEMMA EffectsStep == Base /\ EffectsMatchVerdicts /\ [Next]_vars => EffectsMatchVerdicts'
<1> SUFFICES ASSUME Base, EffectsMatchVerdicts, [Next]_vars PROVE EffectsMatchVerdicts'
  OBVIOUS
<1> DEFINE A == ApprovedFor(Resource)
           B == ApprovedFor(Param)
<1>0. /\ A = IF smt[Resource] = None THEN {} ELSE smt[Resource]
      /\ B = {smt[Param]} \ {None}
  BY EffectsByName
<1> SUFFICES /\ ApprovedFor(Resource)' = IF smt'[Resource] = None THEN {} ELSE smt'[Resource]
             /\ ApprovedFor(Param)' = {smt'[Param]} \ {None}
  BY DEF EffectsMatchVerdicts, ApprovedFor
<1>1. ASSUME \A p \in Proposals : smt'[p] = "approved" <=> smt[p] = "approved",
             smt'[Resource] = smt[Resource], smt'[Param] = smt[Param]
      PROVE  /\ ApprovedFor(Resource)' = IF smt'[Resource] = None THEN {} ELSE smt'[Resource]
             /\ ApprovedFor(Param)' = {smt'[Param]} \ {None}
  <2>1. ApprovedFor(Resource)' = A /\ ApprovedFor(Param)' = B
    BY <1>1 DEF ApprovedFor
  <2> QED
    BY <1>0, <1>1, <2>1
<1>2. CASE \A t \in Txs : ~Finalize(t)
  BY <1>1, <1>2, OnlyFinalize
<1>3. ASSUME NEW t \in Txs, Finalize(t)
      PROVE  /\ ApprovedFor(Resource)' = IF smt'[Resource] = None THEN {} ELSE smt'[Resource]
             /\ ApprovedFor(Param)' = {smt'[Param]} \ {None}
  <2>1. t \in dag /\ smt' = ApplyOne(smt, result[t])
    BY <1>3 DEF Finalize
  <2>2. CASE t \in Proposals
    <3>1. /\ \A p \in Proposals : smt'[p] = "approved" <=> smt[p] = "approved"
          /\ smt'[Resource] = smt[Resource] /\ smt'[Param] = smt[Param]
      BY <2>1, <2>2, FinalizePropose, KeysSplit
    <3> QED
      BY <1>1, <3>1
  <2>3. CASE t \in Registrations
    <3>1. /\ \A p \in Proposals : smt'[p] = "approved" <=> smt[p] = "approved"
          /\ smt'[Resource] = smt[Resource] /\ smt'[Param] = smt[Param]
      BY <2>1, <2>3, FinalizeRegister, KeysSplit
    <3> QED
      BY <1>1, <3>1
  <2>4. CASE t \in Decisions
    <3> DEFINE q == about[t]
    <3>1. /\ q \in Proposals
          /\ \/ smt' = smt
             \/ /\ smt[q] = "pending" /\ smt'[q] = "rejected"
                /\ \A k \in Keys \ {q} : smt'[k] = smt[k]
             \/ /\ smt[q] = "pending" /\ smt'[q] = "approved"
                /\ Effect[q] = Resource => /\ smt'[Resource] = With(smt[Resource], q)
                                           /\ smt'[Param] = smt[Param]
                /\ Effect[q] = Param => /\ smt[Param] = None /\ smt'[Param] = q
                                        /\ smt'[Resource] = smt[Resource]
                /\ \A k \in Keys \ {q, Resource, Param} : smt'[k] = smt[k]
      BY <2>1, <2>4, FinalizeExecute
    <3> HIDE DEF q
    <3>2. CASE smt' = smt
      BY <1>1, <3>2
    <3>3. CASE /\ smt[q] = "pending" /\ smt'[q] = "rejected"
               /\ \A k \in Keys \ {q} : smt'[k] = smt[k]
      <4>1. \A p \in Proposals : smt'[p] = "approved" <=> smt[p] = "approved"
        BY <3>3, KeysSplit
      <4>2. smt'[Resource] = smt[Resource] /\ smt'[Param] = smt[Param]
        BY <3>1, <3>3, KeysSplit
      <4> QED
        BY <1>1, <4>1, <4>2
    <3>4. CASE /\ smt[q] = "pending" /\ smt'[q] = "approved" /\ Effect[q] = Resource
               /\ smt'[Resource] = With(smt[Resource], q) /\ smt'[Param] = smt[Param]
               /\ \A k \in Keys \ {q, Resource, Param} : smt'[k] = smt[k]
      <4>1. \A p \in Proposals : smt'[p] = "approved" <=> p = q \/ smt[p] = "approved"
        BY <3>1, <3>4, KeysSplit
      <4>2. ApprovedFor(Resource)' = A \cup {q}
        BY <3>1, <3>4, <4>1 DEF ApprovedFor
      <4>3. ApprovedFor(Param)' = B
        BY <3>4, <4>1, KeysSplit DEF ApprovedFor
      <4>4. smt'[Resource] = A \cup {q}
        BY <1>0, <3>4 DEF With
      <4>5. smt'[Resource] # None
        <5>1. A \cup {q} \in SUBSET Proposals
          BY <3>1 DEF ApprovedFor
        <5> QED
          BY <4>4, <5>1, KeysSplit
      <4> QED
        BY <1>0, <3>4, <4>2, <4>3, <4>4, <4>5
    <3>5. CASE /\ smt[q] = "pending" /\ smt'[q] = "approved" /\ Effect[q] = Param
               /\ smt[Param] = None /\ smt'[Param] = q /\ smt'[Resource] = smt[Resource]
               /\ \A k \in Keys \ {q, Resource, Param} : smt'[k] = smt[k]
      <4>1. \A p \in Proposals : smt'[p] = "approved" <=> p = q \/ smt[p] = "approved"
        BY <3>1, <3>5, KeysSplit
      <4>2. ApprovedFor(Param)' = B \cup {q}
        BY <3>1, <3>5, <4>1 DEF ApprovedFor
      <4>3. ApprovedFor(Resource)' = A
        BY <3>5, <4>1, KeysSplit DEF ApprovedFor
      <4>4. B = {} /\ q # None
        BY <1>0, <3>1, <3>5, KeysSplit, TxsSplit
      <4> QED
        BY <1>0, <3>5, <4>2, <4>3, <4>4
    <3> QED
      BY <3>1, <3>2, <3>3, <3>4, <3>5, KeysSplit
  <2> QED
    BY <2>2, <2>3, <2>4, GovernanceAssumption
<1> QED
  BY <1>2, <1>3

\* In the beginning there are no effects and no verdicts.
LEMMA InitEffects == Init => EffectsMatchVerdicts
<1> SUFFICES ASSUME Init PROVE EffectsMatchVerdicts
  OBVIOUS
<1>1. smt[Resource] = None /\ smt[Param] = None /\ \A p \in Proposals : smt[p] = None
  BY KeysSplit DEF Init
<1> QED
  BY <1>1, KeysSplit DEF EffectsMatchVerdicts

\* What is in the resource parameters and the inserted parameter is what the
\* approved proposals say, for any number of proposals and decisions, although
\* materialize_effects computes each from parameters it read earlier.
THEOREM EffectsHold == Spec => []EffectsMatchVerdicts
<1>1. Init => EffectsMatchVerdicts
  BY InitEffects
<1>2. Base /\ EffectsMatchVerdicts /\ [Next]_vars => EffectsMatchVerdicts'
  BY EffectsStep
<1> QED
  BY <1>1, <1>2, BaseInvariant, PTL DEF Spec

-----------------------------------------------------------------------------
(* The way of a proposal: who takes care of it at every moment.            *)

Local == Proposals \ Foreign
Final == Range(unsaved) \cup missed \cup store
IsDecided(p) == smt[p] \in {"approved", "rejected"}

StatusOK == \A p \in Proposals : smt[p] \in {None, "pending", "approved", "rejected"}

\* An own proposal is somewhere in the ledger, unless a crash lost it.
InLedger == \A p \in Local : pc[p] # "start" /\ p \notin stranded => p \in dag \cup Final
LostStranded == \A p \in Local : p \in lost => p \in stranded

\* The handler of a decision runs on from a submission.
Submitted == \A d \in Decisions : pc[d] = "submitted" => d \in dag \cup Final

\* A final decision has decided its proposal or stranded it.
FinalDecides == \A d \in Decisions : d \in Final => IsDecided(about[d]) \/ about[d] \in stranded

\* An own proposal is pending, or under way to be decided, or decided.
CaredFor ==
    \A p \in Local : pc[p] = "done" /\ p \notin stranded =>
        \/ pendingGov[p] # None \/ IsDecided(p)
        \/ \E d \in dag : d \in Decisions /\ about[d] = p

\* Only a proposal that was made is in the state, pending, polled or dispatched.
MadeFirst ==
    \A p \in Proposals :
        (\/ smt[p] # None \/ pendingGov[p] # None \/ p \in polled
         \/ \E e \in Nat : <<p, e>> \in calls) => pc[p] # "start"

\* A decision is deeper in the DAG than the own proposal it is about.
Deeper ==
    \A d \in Decisions : pc[d] # "start" /\ about[d] \in Local \ stranded =>
        pc[about[d]] # "start" /\ depth[about[d]] < depth[d]

FinalExists == \A p \in Proposals : p \in Final => smt[p] # None

\* Every verdict was applied by a decision.
DecidedByOne ==
    \A p \in Proposals : IsDecided(p) =>
        \E d \in Decisions : d \in applied /\ pc[d] # "start" /\ about[d] = p

AppliedDecides ==
    \A d \in Decisions : d \in applied => pc[d] # "start" /\ IsDecided(about[d])

Care == /\ StatusOK /\ InLedger /\ LostStranded /\ Submitted /\ FinalDecides /\ CaredFor
        /\ MadeFirst /\ Deeper /\ FinalExists /\ DecidedByOne /\ AppliedDecides

\* In the beginning there is nothing to take care of.
LEMMA InitCare == Init => Care
<1> SUFFICES ASSUME Init PROVE Care
  OBVIOUS
<1>1. \A p \in Proposals : smt[p] = None /\ p \in Txs
  BY KeysSplit, TxsSplit DEF Init
<1>2. \A t \in Txs : pc[t] = "start"
  BY DEF Init
<1>3. Final = {} /\ lost = {} /\ polled = {} /\ calls = {} /\ applied = {}
  BY RangeEmpty DEF Init, Final
<1>4. \A p \in Proposals : pendingGov[p] = None
  BY DEF Init
<1>5. \A p \in Proposals : ~IsDecided(p)
  BY <1>1, KeysSplit DEF IsDecided
<1> QED
  BY <1>1, <1>2, <1>3, <1>4, <1>5, TxsSplit
     DEF Care, StatusOK, InLedger, LostStranded, Submitted, FinalDecides, CaredFor, MadeFirst,
         Deeper, FinalExists, DecidedByOne, AppliedDecides, Local

\* An event is new in the DAG.
Entered(t) ==
    /\ t \in Txs /\ pc[t] = "start" /\ pc'[t] \in {"submitted", "done"}
    /\ \A s \in Txs \ {t} : pc'[s] = pc[s] /\ depth'[s] = depth[s]
    /\ t \in Local => pc'[t] = "submitted"
    /\ dag' = dag \cup {t} /\ depth'[t] = maxDepth + 1
    /\ \A d \in Decisions \ {t} : about'[d] = about[d]
    /\ t \in Decisions => /\ about'[t] \in Proposals
                          /\ about'[t] \in Local => pc[about'[t]] # "start"
    /\ polled' \subseteq polled
    /\ UNCHANGED <<pendingGov, calls, smt, unsaved, missed, store, lost, stranded, applied>>

\* A new event keeps every proposal cared for.
LEMMA EnteredCare ==
    ASSUME Base, Base', Care, NEW t, Entered(t)
    PROVE  Care'
<1> USE TxsSplit
<1>0. /\ Final' = Final /\ Local' = Local
      /\ \A p \in Proposals : IsDecided(p)' = IsDecided(p) /\ smt'[p] = smt[p] /\ pendingGov'[p] = pendingGov[p]
      /\ \A s \in Txs : pc[s] # "start" => s # t /\ pc'[s] = pc[s] /\ depth'[s] = depth[s]
      /\ \A d \in Decisions : d # t => about'[d] = about[d]
      /\ t \notin dag \cup Final \cup lost /\ dag' = dag \cup {t}
      /\ lost' = lost /\ stranded' = stranded /\ applied' = applied
  BY DEF Entered, Final, Local, IsDecided, Base, Known
<1>1. StatusOK'
  BY <1>0 DEF Care, StatusOK
<1>2. InLedger'
  BY <1>0 DEF Care, InLedger, Local, Entered
<1>3. LostStranded'
  BY <1>0 DEF Care, LostStranded, Local
<1>4. Submitted'
  BY <1>0 DEF Care, Submitted, Entered
<1>5. FinalDecides'
  <2>1. ASSUME NEW d \in Decisions, d \in Final
        PROVE  IsDecided(about[d])' \/ about'[d] \in stranded'
    <3>1. d # t /\ about'[d] = about[d]
      BY <1>0, <2>1
    <3>2. smt' = smt
      BY DEF Entered
    <3> QED
      BY <1>0, <2>1, <3>1, <3>2 DEF Care, FinalDecides, IsDecided
  <2> QED
    BY <1>0, <2>1 DEF FinalDecides
<1>6. CaredFor'
  <2>1. ASSUME NEW p \in Local, pc'[p] = "done", p \notin stranded
        PROVE  pendingGov'[p] # None \/ IsDecided(p)' \/ \E d \in dag' : d \in Decisions /\ about'[d] = p
    <3>1. p # t /\ pc[p] = "done" /\ p \in Proposals
      BY <2>1 DEF Entered, Local
    <3>2. CASE pendingGov[p] # None \/ IsDecided(p)
      BY <1>0, <3>1, <3>2
    <3>3. ASSUME NEW d \in dag, d \in Decisions, about[d] = p
          PROVE  d \in dag' /\ about'[d] = p
      BY <1>0, <3>3
    <3> QED
      BY <2>1, <3>1, <3>2, <3>3 DEF Care, CaredFor
  <2> QED
    BY <1>0, <2>1 DEF CaredFor
<1>7. MadeFirst'
  <2>1. ASSUME NEW p \in Proposals, pc[p] # "start"
        PROVE  pc'[p] # "start"
    BY <1>0, <2>1
  <2>2. calls' = calls /\ polled' \subseteq polled
    BY DEF Entered
  <2> QED
    BY <1>0, <2>1, <2>2 DEF Care, MadeFirst
<1>8. Deeper'
  <2>1. ASSUME NEW d \in Decisions, pc'[d] # "start", about'[d] \in Local \ stranded
        PROVE  pc'[about'[d]] # "start" /\ depth'[about'[d]] < depth'[d]
    <3>1. CASE d = t
      <4> DEFINE p == about'[t]
      <4>1. p \in Local /\ p \in Txs /\ pc[p] # "start"
        BY <2>1, <3>1 DEF Entered, Local
      <4>2. pc'[p] = pc[p] /\ depth'[p] = depth[p]
        BY <1>0, <4>1
      <4>3. depth[p] <= maxDepth /\ depth[p] \in Nat /\ maxDepth \in Nat /\ depth'[t] = maxDepth + 1
        BY <4>1 DEF Base, Types, Known, Entered
      <4> HIDE DEF p
      <4>4. depth'[p] < depth'[t]
        BY <4>2, <4>3
      <4> QED
        BY <3>1, <4>1, <4>2, <4>4 DEF p
    <3>2. CASE d # t
      <4>1. pc[d] # "start" /\ about'[d] = about[d]
        BY <2>1, <3>2 DEF Entered
      <4>2. pc[about[d]] # "start" /\ depth[about[d]] < depth[d]
        BY <2>1, <4>1 DEF Care, Deeper
      <4>3. about[d] \in Txs
        BY <2>1, <4>1 DEF Local
      <4> QED
        BY <1>0, <4>1, <4>2, <4>3
    <3> QED
      BY <3>1, <3>2
  <2> QED
    BY <1>0, <2>1 DEF Deeper
<1>9. FinalExists'
  BY <1>0 DEF Care, FinalExists
<1>10. DecidedByOne'
  <2>1. ASSUME NEW p \in Proposals, IsDecided(p)
        PROVE  \E d \in Decisions : d \in applied' /\ pc'[d] # "start" /\ about'[d] = p
    <3>1. PICK d \in Decisions : d \in applied /\ pc[d] # "start" /\ about[d] = p
      BY <2>1 DEF Care, DecidedByOne
    <3>2. d \in applied' /\ pc'[d] # "start" /\ about'[d] = p
      BY <1>0, <3>1
    <3> QED
      BY <3>2
  <2> QED
    BY <1>0, <2>1 DEF DecidedByOne
<1>11. AppliedDecides'
  <2>1. ASSUME NEW d \in Decisions, d \in applied
        PROVE  pc'[d] # "start" /\ IsDecided(about[d])'
    <3>1. pc[d] # "start" /\ IsDecided(about[d])
      BY <2>1 DEF Care, AppliedDecides
    <3>2. smt' = smt /\ pc'[d] = pc[d] /\ about'[d] = about[d]
      BY <1>0, <3>1 DEF Entered
    <3> QED
      BY <3>1, <3>2 DEF IsDecided
  <2> QED
    BY <1>0, <2>1 DEF AppliedDecides
<1> QED
  BY <1>1, <1>2, <1>3, <1>4, <1>5, <1>6, <1>7, <1>8, <1>9, <1>10, <1>11 DEF Care

\* The ledger stays as it is.
LEMMA QuietCare ==
    ASSUME Base, Care, UNCHANGED <<about, depth, dag, smt, lost, stranded, applied>>,
           Final' = Final,
           \A s \in Txs : pc'[s] = "start" <=> pc[s] = "start",
           \A d \in Decisions : pc'[d] = "submitted" => pc[d] = "submitted",
           MadeFirst', CaredFor'
    PROVE  Care'
<1> USE TxsSplit
<1>1. \A p : IsDecided(p)' = IsDecided(p)
  BY DEF IsDecided
<1>2. \A d \in Decisions : IsDecided(about[d])' = IsDecided(about[d])
  BY DEF IsDecided
<1>3. Local' = Local /\ Local \subseteq Txs
  BY DEF Local
<1>4. StatusOK' /\ FinalExists' /\ LostStranded' /\ Submitted'
  BY <1>3 DEF Care, StatusOK, FinalExists, LostStranded, Submitted
<1>5. InLedger'
  BY <1>3 DEF Care, InLedger
<1>6. FinalDecides' /\ AppliedDecides'
  BY <1>2 DEF Care, FinalDecides, AppliedDecides
<1>7. DecidedByOne'
  BY <1>1 DEF Care, DecidedByOne
<1>8. Deeper'
  BY <1>3 DEF Care, Deeper
<1> QED
  BY <1>4, <1>5, <1>6, <1>7, <1>8 DEF Care

\* So does an event that a peer delivers again.
LEMMA RedeliverCare ==
    ASSUME Base, Care, NEW t \in Txs, Redeliver(t)
    PROVE  Care'
<1> USE TxsSplit
<1>0. /\ t \in lost /\ lost' = lost \ {t} /\ dag' = dag \cup {t}
      /\ UNCHANGED <<pc, about, polled, pendingGov, calls, smt, unsaved, missed, store, applied, stranded>>
      /\ depth' = [depth EXCEPT ![t] = maxDepth + 1]
  BY DEF Redeliver, EnterDag, handlerVars, serviceVars
<1>1. Final' = Final /\ Local' = Local /\ Local \subseteq Txs
  BY <1>0 DEF Final, Local
<1>2. \A p : IsDecided(p)' = IsDecided(p)
  BY <1>0 DEF IsDecided
<1>3. \A d \in Decisions : IsDecided(about[d])' = IsDecided(about[d])
  BY <1>0 DEF IsDecided
<1>4. StatusOK' /\ FinalExists' /\ LostStranded' /\ Submitted' /\ InLedger'
  BY <1>0, <1>1 DEF Care, StatusOK, FinalExists, LostStranded, Submitted, InLedger
<1>5. FinalDecides' /\ AppliedDecides' /\ DecidedByOne'
  BY <1>0, <1>1, <1>2, <1>3 DEF Care, FinalDecides, AppliedDecides, DecidedByOne
<1>6. MadeFirst'
  BY <1>0 DEF Care, MadeFirst
<1>7. CaredFor'
  BY <1>0, <1>1, <1>2 DEF Care, CaredFor
<1>8. Deeper'
  <2>1. ASSUME NEW d \in Decisions, pc[d] # "start", about[d] \in Local \ stranded
        PROVE  pc[about[d]] # "start" /\ depth'[about[d]] < depth'[d]
    <3> DEFINE p == about[d]
    <3>1. pc[p] # "start" /\ depth[p] < depth[d]
      BY <2>1 DEF Care, Deeper
    <3>2. p \in Txs /\ p # t
      BY <1>0, <1>1, <2>1 DEF Care, LostStranded
    <3>3. depth'[p] = depth[p] /\ depth[p] <= maxDepth /\ depth[p] \in Nat /\ maxDepth \in Nat
      BY <1>0, <3>2 DEF Base, Types, Known
    <3>4. depth'[d] = depth[d] \/ depth'[d] = maxDepth + 1
      BY <1>0 DEF Base, Types
    <3> HIDE DEF p
    <3> QED
      BY <3>1, <3>3, <3>4 DEF p
  <2> QED
    BY <1>0, <1>1, <2>1 DEF Deeper
<1> QED
  BY <1>4, <1>5, <1>6, <1>7, <1>8 DEF Care

\* So does a crash, by what replay brings back.
LEMMA RestartCare ==
    ASSUME Base, Care, Restart
    PROVE  Care'
<1> USE TxsSplit
<1>0. /\ lost' = lost \cup dag \cup Unstored /\ dag' = {} /\ unsaved' = << >> /\ missed' = {}
      /\ polled' = {} /\ stranded' = stranded \cup ((dag \cup Unstored) \cap Proposals)
      /\ epoch' = epoch + 1
      /\ pendingGov' = [p \in Proposals |-> IF p \in Replayed THEN epoch' ELSE None]
      /\ calls' = calls \cup {<<p, epoch'>> : p \in Replayed}
      /\ pc' = [t \in Txs |-> IF pc[t] = "submitted" THEN "done" ELSE pc[t]]
      /\ UNCHANGED <<about, result, depth, maxDepth, smt, store, applied>>
  BY DEF Restart
<1>1. Final' = store /\ Final = Unstored \cup store /\ Local' = Local
      /\ Local \subseteq Proposals /\ Local \subseteq Txs
  BY <1>0, RangeEmpty DEF Final, Local, Unstored
<1>2. \A p : IsDecided(p)' = IsDecided(p)
  BY <1>0 DEF IsDecided
<1>3. \A d \in Decisions : IsDecided(about[d])' = IsDecided(about[d])
  BY <1>0 DEF IsDecided
<1>4. \A s \in Txs : (pc'[s] = "start" <=> pc[s] = "start") /\ pc'[s] # "submitted"
  BY <1>0 DEF Base, Types
<1>5. StatusOK' /\ FinalExists' /\ Submitted'
  BY <1>0, <1>1, <1>4 DEF Care, StatusOK, FinalExists, Submitted
<1>6. LostStranded'
  BY <1>0, <1>1 DEF Care, LostStranded
<1>7. InLedger'
  BY <1>0, <1>1, <1>4 DEF Care, InLedger
<1>8. FinalDecides' /\ AppliedDecides'
  BY <1>0, <1>1, <1>3, <1>4 DEF Care, FinalDecides, AppliedDecides
<1>9. DecidedByOne'
  BY <1>0, <1>2, <1>4 DEF Care, DecidedByOne
<1>10. Deeper'
  BY <1>0, <1>1, <1>4 DEF Care, Deeper
<1>11. \A p \in Replayed : p \in Proposals /\ p \in store /\ pc'[p] # "start"
  BY <1>4 DEF Replayed, Base, Known
<1>12. MadeFirst'
  <2>1. ASSUME NEW p \in Proposals, pc[p] = "start"
        PROVE  ~(\/ smt'[p] # None \/ pendingGov'[p] # None \/ p \in polled'
                 \/ \E e \in Nat : <<p, e>> \in calls')
    <3>1. p \notin Replayed /\ p \in Txs
      BY <1>4, <1>11, <2>1
    <3>2. smt[p] = None /\ ~\E e \in Nat : <<p, e>> \in calls
      BY <2>1 DEF Care, MadeFirst
    <3> QED
      BY <1>0, <3>1, <3>2
  <2> QED
    BY <1>4, <2>1 DEF MadeFirst
<1>13. CaredFor'
  <2>1. ASSUME NEW p \in Local, pc'[p] = "done", p \notin stranded'
        PROVE  pendingGov'[p] # None \/ IsDecided(p)'
    <3>1. p \in store
      BY <1>0, <1>1, <1>4, <2>1 DEF Care, InLedger
    <3>2. CASE p \in Replayed
      <4>1. pendingGov'[p] = epoch' /\ epoch' \in Nat
        BY <1>0, <1>1, <3>2 DEF Base, Types
      <4> QED
        BY <4>1, GovernanceAssumption
    <3>3. CASE p \notin Replayed
      <4>1. PICK d \in Decisions : d \in store /\ about[d] = p
        BY <1>1, <3>1, <3>3 DEF Replayed
      <4>2. IsDecided(p) \/ p \in stranded
        BY <1>1, <4>1 DEF Care, FinalDecides
      <4> QED
        BY <1>0, <1>2, <2>1, <4>2
    <3> QED
      BY <3>2, <3>3
  <2> QED
    BY <1>1, <2>1 DEF CaredFor
<1> QED
  BY <1>5, <1>6, <1>7, <1>8, <1>9, <1>10, <1>12, <1>13 DEF Care

\* So does finality of an event, applied or stale.
LEMMA FinalizeCare ==
    ASSUME Base, Care, [Next]_vars, NEW t \in Txs, Finalize(t)
    PROVE  Care'
<1> USE TxsSplit
<1>0. /\ t \in dag /\ dag' = dag \ {t} /\ unsaved' = Append(unsaved, t)
      /\ smt' = ApplyOne(smt, result[t])
      /\ applied' = IF Verdict(smt, result[t]) = "applied" THEN applied \cup {t} ELSE applied
      /\ stranded' = IF t \in Decisions /\ t \notin applied' THEN stranded \cup {about[t]} ELSE stranded
      /\ UNCHANGED <<pc, about, polled, depth, pendingGov, calls, missed, store, lost>>
  BY DEF Finalize, handlerVars
<1>1. Final' = Final \cup {t} /\ Local' = Local /\ Local \subseteq Proposals
  BY <1>0, RangeAppend DEF Final, Base, Types, Local
<1>2. pc[t] # "start"
  BY <1>0 DEF Base, Known
<1>3. stranded \subseteq stranded' /\ applied \subseteq applied' /\ applied' \subseteq applied \cup {t}
  BY <1>0
<1>4. \A p \in Proposals : IsDecided(p) => smt'[p] = smt[p] /\ IsDecided(p)'
  BY DecidedStep DEF IsDecided
<1>5. \A d \in Decisions : pc[d] # "start" => about[d] \in Proposals
  BY DEF Base, Known, Shaped
\* What becomes of a proposal in this step.
<1>6. ASSUME NEW p \in Proposals
      PROVE  \/ smt'[p] = smt[p]
             \/ t = p /\ smt[p] = None /\ smt'[p] = "pending"
             \/ /\ t \in Decisions /\ about[t] = p /\ smt[p] = "pending" /\ IsDecided(p)'
                /\ Verdict(smt, result[t]) = "applied"
  <2>1. p \in Keys /\ p # Resource /\ p # Param /\ p # Subnet
    BY KeysSplit
  <2>2. CASE t \in Proposals
    BY <1>0, <2>1, <2>2, FinalizePropose
  <2>3. CASE t \in Registrations
    BY <1>0, <2>1, <2>3, FinalizeRegister
  <2>4. CASE t \in Decisions
    BY <1>0, <2>1, <2>4, FinalizeExecute DEF IsDecided
  <2> QED
    BY <2>2, <2>3, <2>4, GovernanceAssumption
\* A decision that is final decides or strands.
<1>7. ASSUME t \in Decisions
      PROVE  /\ about[t] \in Proposals
             /\ IsDecided(about[t])' \/ about[t] \in stranded'
             /\ t \in applied' => IsDecided(about[t])'
  <2>1. about[t] \in Proposals /\ about[t] \in Keys
    BY <1>2, <1>5, <1>7, KeysSplit
  <2>2. CASE Verdict(smt, result[t]) = "applied"
    <3>1. IsDecided(about[t])'
      BY <1>0, <1>7, <2>2, FinalizeExecute DEF IsDecided
    <3> QED
      BY <2>1, <3>1
  <2>3. CASE Verdict(smt, result[t]) # "applied"
    <3>1. applied' = applied
      BY <1>0, <2>3
    <3>2. t \in applied => IsDecided(about[t])
      BY <1>7 DEF Care, AppliedDecides
    <3>3. IsDecided(about[t]) => IsDecided(about[t])'
      BY <1>0, <1>4, <2>1 DEF IsDecided
    <3>4. t \notin applied => about[t] \in stranded'
      BY <1>0, <1>7, <3>1
    <3> QED
      BY <2>1, <3>1, <3>2, <3>3, <3>4
  <2> QED
    BY <2>2, <2>3
<1>8. StatusOK'
  BY <1>6 DEF Care, StatusOK, IsDecided
<1>9. InLedger' /\ LostStranded' /\ Submitted'
  BY <1>0, <1>1, <1>3 DEF Care, InLedger, LostStranded, Submitted
<1>10. ASSUME NEW d \in Decisions, d # t, pc[d] # "start", IsDecided(about[d])
       PROVE  IsDecided(about[d])'
  BY <1>0, <1>4, <1>5, <1>10 DEF IsDecided
<1>11. FinalDecides'
  <2>1. ASSUME NEW d \in Decisions, d \in Final'
        PROVE  IsDecided(about[d])' \/ about'[d] \in stranded'
    <3>1. CASE d = t
      BY <1>0, <1>7, <3>1
    <3>2. CASE d # t
      <4>1. d \in Final /\ pc[d] # "start"
        BY <1>1, <2>1, <3>2 DEF Base, Known, Final
      <4>2. IsDecided(about[d]) \/ about[d] \in stranded
        BY <4>1 DEF Care, FinalDecides
      <4> QED
        BY <1>0, <1>3, <1>10, <3>2, <4>1, <4>2
    <3> QED
      BY <3>1, <3>2
  <2> QED
    BY <2>1 DEF FinalDecides
<1>12. AppliedDecides'
  <2>1. ASSUME NEW d \in Decisions, d \in applied'
        PROVE  pc'[d] # "start" /\ IsDecided(about[d])'
    <3>1. CASE d = t
      BY <1>0, <1>2, <1>7, <2>1, <3>1
    <3>2. CASE d # t
      <4>1. pc[d] # "start" /\ IsDecided(about[d])
        BY <1>3, <2>1, <3>2 DEF Care, AppliedDecides
      <4> QED
        BY <1>0, <1>10, <3>2, <4>1
    <3> QED
      BY <3>1, <3>2
  <2> QED
    BY <2>1 DEF AppliedDecides
<1>13. CaredFor'
  <2>1. ASSUME NEW p \in Local, pc[p] = "done", p \notin stranded'
        PROVE  pendingGov[p] # None \/ IsDecided(p)' \/ \E d \in dag' : d \in Decisions /\ about[d] = p
    <3>1. p \in Proposals /\ p \notin stranded
      BY <1>1, <1>3, <2>1
    <3>2. CASE IsDecided(p)
      BY <1>4, <3>1, <3>2
    <3>3. ASSUME NEW d \in dag, d \in Decisions, about[d] = p
          PROVE  IsDecided(p)' \/ \E e \in dag' : e \in Decisions /\ about[e] = p
      <4>1. CASE d = t
        <5>1. IsDecided(about[t])' \/ about[t] \in stranded'
          BY <1>7, <3>3, <4>1
        <5>2. IsDecided(about[t])'
          BY <2>1, <3>3, <4>1, <5>1
        <5> QED
          BY <1>0, <3>3, <4>1, <5>2 DEF IsDecided
      <4>2. CASE d # t
        BY <1>0, <3>3, <4>2
      <4> QED
        BY <4>1, <4>2
    <3>4. \/ pendingGov[p] # None \/ IsDecided(p)
          \/ \E d \in dag : d \in Decisions /\ about[d] = p
      BY <2>1, <3>1 DEF Care, CaredFor
    <3> QED
      BY <3>2, <3>3, <3>4
  <2> QED
    BY <1>0, <1>1, <2>1 DEF CaredFor
<1>14. MadeFirst'
  <2>1. ASSUME NEW p \in Proposals, smt'[p] # None PROVE pc[p] # "start"
    <3>1. smt[p] # None \/ t = p
      BY <1>6, <2>1, KeysSplit
    <3> QED
      BY <1>2, <3>1 DEF Care, MadeFirst
  <2> QED
    BY <1>0, <2>1 DEF Care, MadeFirst
<1>15. Deeper'
  BY <1>0, <1>1, <1>3 DEF Care, Deeper
<1>16. FinalExists'
  <2>1. ASSUME NEW p \in Proposals, p \in Final' PROVE smt'[p] # None
    <3>1. CASE p = t
      <4>1. smt'[p] = IF smt[p] = None THEN "pending" ELSE smt[p]
        BY <1>0, <3>1, FinalizePropose
      <4> QED
        BY <4>1, KeysSplit
    <3>2. CASE p # t
      <4>1. smt[p] # None
        BY <1>1, <2>1, <3>2 DEF Care, FinalExists
      <4>2. IsDecided(p)' => smt'[p] # None
        BY KeysSplit DEF IsDecided
      <4> QED
        BY <1>6, <3>2, <4>1, <4>2
    <3> QED
      BY <3>1, <3>2
  <2> QED
    BY <2>1 DEF FinalExists
<1>17. DecidedByOne'
  <2>1. ASSUME NEW p \in Proposals, IsDecided(p)'
        PROVE  \E d \in Decisions : d \in applied' /\ pc[d] # "start" /\ about[d] = p
    <3>1. CASE IsDecided(p)
      BY <1>3, <3>1 DEF Care, DecidedByOne
    <3>2. CASE ~IsDecided(p)
      <4>1. smt'[p] # smt[p] /\ smt'[p] # "pending"
        BY <2>1, <3>2 DEF IsDecided
      <4>2. t \in Decisions /\ about[t] = p /\ Verdict(smt, result[t]) = "applied"
        BY <1>6, <4>1
      <4> QED
        BY <1>0, <1>2, <4>2
    <3> QED
      BY <3>1, <3>2
  <2> QED
    BY <1>0, <2>1 DEF DecidedByOne
<1> QED
  BY <1>8, <1>9, <1>11, <1>12, <1>13, <1>14, <1>15, <1>16, <1>17 DEF Care

\* Every step keeps every proposal cared for.
LEMMA NextCare == Base /\ Base' /\ Care /\ [Next]_vars => Care'
<1> SUFFICES ASSUME Base, Base', Care, [Next]_vars PROVE Care'
  OBVIOUS
<1> USE TxsSplit
<1>1. ASSUME NEW p \in Proposals, Propose(p) \/ ArrivePropose(p)
      PROVE  Care'
  <2>1. Entered(p)
    BY <1>1 DEF Propose, ArrivePropose, Entered, EnterDag, serviceVars, ledgerVars, Base, Types, Local
  <2> QED
    BY <2>1, EnteredCare
<1>2. ASSUME NEW g \in Registrations, Register(g)
      PROVE  Care'
  <2>1. Entered(g)
    BY <1>2 DEF Register, Entered, EnterDag, serviceVars, ledgerVars, Base, Types, Local
  <2> QED
    BY <2>1, EnteredCare
<1>3. ASSUME NEW d \in Decisions, NEW p \in Proposals, NEW a \in BOOLEAN, Decide(d, p, a),
             polled' \subseteq polled, pc[p] # "start"
      PROVE  Care'
  <2>1. Entered(d)
    BY <1>3 DEF Decide, Entered, EnterDag, serviceVars, ledgerVars, Base, Types, Local
  <2> QED
    BY <2>1, EnteredCare
<1>4. ASSUME NEW d \in Decisions, NEW p \in Proposals, NEW a \in BOOLEAN, NEW e \in 0 .. epoch,
             Callback(d, p, e, a)
      PROVE  Care'
  <2>1. epoch \in Nat /\ e \in Nat
    BY DEF Base, Types
  <2>2. pc[p] # "start"
    BY <1>4, <2>1 DEF Callback, Care, MadeFirst
  <2> QED
    BY <1>3, <1>4, <2>2 DEF Callback
<1>5. ASSUME NEW d \in Decisions, NEW p \in Proposals, NEW a \in BOOLEAN,
             PollResult(d, p, a) \/ PollTimeout(d, p)
      PROVE  Care'
  <2>1. pc[p] # "start" /\ polled' \subseteq polled
    BY <1>5 DEF PollResult, PollTimeout, Care, MadeFirst
  <2> QED
    BY <1>3, <1>5, <2>1 DEF PollResult, PollTimeout
<1>6. ASSUME NEW d \in Decisions, NEW p \in Proposals, NEW a \in BOOLEAN, ArriveExecute(d, p, a)
      PROVE  Care'
  <2>1. Entered(d)
    BY <1>6 DEF ArriveExecute, Entered, EnterDag, serviceVars, ledgerVars, Base, Types, Local
  <2> QED
    BY <2>1, EnteredCare
<1>7. ASSUME NEW t \in Txs, Finalize(t) \/ Redeliver(t)
      PROVE  Care'
  BY <1>7, FinalizeCare, RedeliverCare
<1>8. CASE Restart
  BY <1>8, RestartCare
<1>9. CASE Persist \/ \E saved \in BOOLEAN : Miss(saved)
  <2>1. /\ UNCHANGED <<pc, about, polled, depth, pendingGov, calls, dag, smt, lost, stranded, applied>>
        /\ unsaved # << >> /\ unsaved' = Tail(unsaved)
        /\ missed' \cup store' = missed \cup store \cup {Head(unsaved)}
    BY <1>9 DEF Persist, Miss, handlerVars, serviceVars
  <2>2. Final' = Final
    BY <2>1, RangeTail DEF Final, Base, Types
  <2>3. MadeFirst' /\ CaredFor'
    BY <2>1 DEF Care, MadeFirst, CaredFor, Local, IsDecided
  <2> QED
    BY <2>1, <2>2, <2>3, QuietCare
<1>10. ASSUME NEW p \in Proposals, SettlePropose(p)
       PROVE  Care'
  <2>1. /\ UNCHANGED <<about, polled, depth, dag, smt, unsaved, missed, store, lost, stranded, applied, epoch>>
        /\ pc[p] = "submitted" /\ pc' = [pc EXCEPT ![p] = "done"]
        /\ pendingGov' = [pendingGov EXCEPT ![p] = epoch] /\ calls' = calls \cup {<<p, epoch>>}
    BY <1>10 DEF SettlePropose, ledgerVars
  <2>2. /\ Final' = Final
        /\ \A s \in Txs : pc'[s] = "start" <=> pc[s] = "start"
        /\ \A d \in Decisions : pc'[d] = "submitted" => pc[d] = "submitted"
    BY <2>1 DEF Final, Base, Types
  <2>3. pendingGov'[p] # None /\ \A q \in Proposals \ {p} : pendingGov'[q] = pendingGov[q] /\ pc'[q] = pc[q]
    <3>1. epoch # None
      BY GovernanceAssumption DEF Base, Types
    <3> QED
      BY <2>1, <3>1 DEF Base, Types
  <2>4. MadeFirst'
    BY <2>1, <2>2, <2>3 DEF Care, MadeFirst
  <2>5. CaredFor'
    BY <2>1, <2>3 DEF Care, CaredFor, Local, IsDecided
  <2> QED
    BY <2>1, <2>2, <2>4, <2>5, QuietCare
<1>11. ASSUME NEW d \in Decisions, SettleExecute(d)
       PROVE  Care'
  <2>1. /\ UNCHANGED <<about, polled, depth, dag, smt, unsaved, missed, store, lost, stranded, applied, calls>>
        /\ pc[d] = "submitted" /\ pc' = [pc EXCEPT ![d] = "done"]
        /\ pendingGov' = [pendingGov EXCEPT ![about[d]] = None]
    BY <1>11 DEF SettleExecute, ledgerVars
  <2>2. /\ Final' = Final
        /\ \A s \in Txs : pc'[s] = "start" <=> pc[s] = "start"
        /\ \A e \in Decisions : pc'[e] = "submitted" => pc[e] = "submitted"
    BY <2>1 DEF Final, Base, Types
  <2>3. \A q \in Proposals : pc'[q] = pc[q] /\ (pendingGov'[q] = pendingGov[q] \/ pendingGov'[q] = None)
    BY <2>1 DEF Base, Types
  <2>4. \A q \in Proposals : q # about[d] => pendingGov'[q] = pendingGov[q]
    BY <2>1 DEF Base, Types
  <2>5. MadeFirst'
    BY <2>1, <2>3 DEF Care, MadeFirst
  <2>6. d \in dag \/ IsDecided(about[d]) \/ about[d] \in stranded
    BY <2>1 DEF Care, Submitted, FinalDecides
  <2>7. CaredFor'
    <3>1. ASSUME NEW q \in Local, pc[q] = "done", q \notin stranded
          PROVE  pendingGov'[q] # None \/ IsDecided(q) \/ \E e \in dag : e \in Decisions /\ about[e] = q
      <4>1. q \in Proposals
        BY DEF Local
      <4>2. CASE q = about[d]
        BY <2>6, <3>1, <4>2
      <4>3. CASE q # about[d]
        BY <2>4, <3>1, <4>1, <4>3 DEF Care, CaredFor
      <4> QED
        BY <4>2, <4>3
    <3> QED
      BY <2>1, <2>3, <3>1 DEF CaredFor, Local, IsDecided
  <2> QED
    BY <2>1, <2>2, <2>5, <2>7, QuietCare
<1>12. ASSUME UNCHANGED <<about, depth, pendingGov, calls, dag, smt, unsaved, missed, store, lost, stranded, applied>>,
              pc' = pc \/ \E g \in Registrations : pc[g] # "start" /\ pc' = [pc EXCEPT ![g] = "done"],
              \A p \in polled' : p \in Proposals => p \in polled \/ pendingGov[p] # None
       PROVE  Care'
  <2>1. /\ Final' = Final
        /\ \A s \in Txs : pc'[s] = "start" <=> pc[s] = "start"
        /\ \A d \in Decisions \cup Proposals : pc'[d] = pc[d]
    BY <1>12 DEF Final, Base, Types
  <2>2. MadeFirst'
    BY <1>12, <2>1 DEF Care, MadeFirst
  <2>3. CaredFor'
    BY <1>12, <2>1 DEF Care, CaredFor, Local, IsDecided
  <2> QED
    BY <1>12, <2>1, <2>2, <2>3, QuietCare
<1>13. ASSUME NEW g \in Registrations, SettleRegister(g) PROVE Care'
  BY <1>12, <1>13 DEF SettleRegister, ledgerVars
<1>14. CASE (\E p \in Proposals : PollNothing(p)) \/ PollTick \/ Project \/ UNCHANGED vars
  BY <1>12, <1>14 DEF PollNothing, PollTick, Project, vars, handlerVars, serviceVars, ledgerVars
<1> QED
  BY <1>1, <1>2, <1>4, <1>5, <1>6, <1>7, <1>8, <1>9, <1>10, <1>11, <1>13, <1>14 DEF Next

\* Care holds in every reachable state.
LEMMA CareInvariant == Spec => []Care
<1>1. Init => Care
  BY InitCare
<1>2. Base /\ Base' /\ Care /\ [Next]_vars => Care'
  BY NextCare
<1> QED
  BY <1>1, <1>2, BaseInvariant, PTL DEF Spec

\* A finally pending proposal of this validator is on its pending list, or about
\* to be, or its decision is in the DAG, except where an Execute was stale or a
\* crash lost its Propose: prepare_execute leaves the pending entry alone until
\* the Execute event has been submitted.
THEOREM NoneStrandedHolds == Spec => []NoneStranded
<1>1. Base /\ Care => NoneStranded
  <2> SUFFICES ASSUME Base, Care, NEW p \in Proposals \ (Foreign \cup stranded), smt[p] = "pending"
               PROVE  \/ pendingGov[p] # None \/ pc[p] = "submitted"
                      \/ \E d \in dag : d \in Decisions /\ about[d] = p
    BY DEF NoneStranded
  <2>1. pc[p] \in {"submitted", "done"}
    BY TxsSplit, KeysSplit DEF Base, Types, Care, MadeFirst
  <2>2. ~IsDecided(p)
    BY DEF IsDecided
  <2> QED
    BY <2>1, <2>2 DEF Care, CaredFor, Local
<1> QED
  BY <1>1, BaseInvariant, CareInvariant, PTL

\* A restart whose event store holds every applied event brings back no own
\* proposal that has been decided (replay_all, restore_from_replay).
THEOREM RestoredUndecidedHolds == Spec => RestoredUndecided
<1> DEFINE restored ==
      epoch' # epoch /\ applied \subseteq store =>
        \A p \in Proposals \ (Foreign \cup stranded) :
            pendingGov'[p] # None => smt[p] = "pending"
<1>1. Base /\ Care /\ [Next]_vars => [restored]_vars
  <2> SUFFICES ASSUME Base, Care, Next, epoch' # epoch, applied \subseteq store,
                      NEW p \in Proposals \ (Foreign \cup stranded), pendingGov'[p] # None
               PROVE  smt[p] = "pending"
    OBVIOUS
  <2>1. Restart
    BY ZenonT(60) DEF Next, serviceVars, Propose, SettlePropose, ArrivePropose, PollNothing, Callback,
       PollResult, PollTimeout, Decide, ArriveExecute, SettleExecute, Register, SettleRegister,
       PollTick, Persist, Miss, Project, Finalize, Redeliver
  <2>2. p \in Replayed
    BY <2>1 DEF Restart
  <2>3. p \in store /\ \A d \in Decisions : d \in store /\ about[d] = p => depth[d] < depth[p]
    BY <2>2 DEF Replayed
  <2>4. smt[p] # None
    BY <2>3 DEF Care, FinalExists, Final
  <2>5. ASSUME IsDecided(p) PROVE FALSE
    <3>1. PICK d \in Decisions : d \in applied /\ pc[d] # "start" /\ about[d] = p
      BY <2>5 DEF Care, DecidedByOne
    <3>2. depth[d] < depth[p]
      BY <2>3, <3>1
    <3>3. depth[p] < depth[d]
      BY <3>1 DEF Care, Deeper, Local
    <3>4. depth[p] \in Nat /\ depth[d] \in Nat
      BY TxsSplit DEF Base, Types
    <3> QED
      BY <3>2, <3>3, <3>4
  <2> QED
    BY <2>4, <2>5 DEF Care, StatusOK, IsDecided
<1> QED
  BY <1>1, BaseInvariant, CareInvariant, PTL DEF Spec, RestoredUndecided

-----------------------------------------------------------------------------
(* The projector: what it still has to see, in order.                      *)

\* An event goes from the end of the first sequence to the second.
LEMMA ConcatMove ==
    ASSUME NEW S, NEW a \in Seq(S), NEW b \in Seq(S), b # << >>
    PROVE  Append(a, Head(b)) \o Tail(b) = a \o b
<1>1. PICK c, d : c = Append(a, Head(b)) \o Tail(b) /\ d = a \o b
  OBVIOUS
<1>2. c \in Seq(S) /\ d \in Seq(S) /\ Len(c) = Len(a) + Len(b) /\ Len(d) = Len(a) + Len(b)
  BY <1>1
<1>3. \A i \in 1 .. Len(c) : c[i] = d[i]
  BY <1>1
<1> QED
  BY <1>1, <1>2, <1>3, SeqEqual

\* The first element of a concatenation goes.
LEMMA ConcatTail ==
    ASSUME NEW S, NEW a \in Seq(S), NEW b \in Seq(S), a # << >>
    PROVE  Tail(a) \o b = Tail(a \o b) /\ Head(a \o b) = Head(a) /\ a \o b # << >>
<1>1. PICK c, d : c = Tail(a) \o b /\ d = Tail(a \o b)
  OBVIOUS
<1>2. c \in Seq(S) /\ d \in Seq(S) /\ Len(c) = Len(a) + Len(b) - 1 /\ Len(d) = Len(c)
  BY <1>1
<1>3. \A i \in 1 .. Len(c) : c[i] = d[i]
  BY <1>1
<1>4. c = d
  BY <1>2, <1>3, SeqEqual
<1>5. Head(a \o b) = Head(a) /\ a \o b # << >>
  OBVIOUS
<1> QED
  BY <1>1, <1>4, <1>5

\* An element joins the end of a concatenation.
LEMMA ConcatAppend ==
    ASSUME NEW S, NEW a \in Seq(S), NEW b \in Seq(S), NEW e \in S
    PROVE  a \o Append(b, e) = Append(a \o b, e)
<1>1. PICK c, d : c = a \o Append(b, e) /\ d = Append(a \o b, e)
  OBVIOUS
<1>2. c \in Seq(S) /\ d \in Seq(S) /\ Len(c) = Len(a) + Len(b) + 1 /\ Len(d) = Len(c)
  BY <1>1
<1>3. \A i \in 1 .. Len(c) : c[i] = d[i]
  BY <1>1
<1> QED
  BY <1>1, <1>2, <1>3, SeqEqual

\* Final events the projector has not seen.
Pipe == todo \o unsaved
InPipe(t) == \E i \in 1 .. Len(Pipe) : Pipe[i] = t
IsRegistered(t) == t \in applied /\ t \in Registrations

\* Before the first crash an event is made, becomes final and is projected once.
Fresh ==
    /\ lost = {} /\ todo \in Seq(Txs) /\ applied \in SUBSET Txs
    /\ \A i, j \in 1 .. Len(Pipe) : Pipe[i] = Pipe[j] => i = j
    /\ \A t \in Txs : t \in dag \/ pc[t] = "start" => t \notin applied /\ ~InPipe(t)

Made == \A p \in Proposals : p \in applied <=> smt[p] # None

\* The projector meets a proposal before the decision that took effect on it.
InOrder ==
    \A d \in Decisions : d \in applied =>
        /\ about[d] \in applied
        /\ \A i \in 1 .. Len(Pipe) : Pipe[i] = about[d] =>
               \E j \in 1 .. Len(Pipe) : i < j /\ Pipe[j] = d

\* The tracker has the proposals projected so far but for those whose decision
\* was projected too.
Tracked ==
    /\ tracker \in SUBSET Proposals
    /\ \A p \in Proposals : p \in tracker <=>
           /\ p \in applied /\ ~InPipe(p)
           /\ \A d \in Decisions : d \in applied /\ about[d] = p => InPipe(d)

\* The registry has the finalized registration, or the last of those to come is
\* that one.
Registered ==
    /\ (\A i \in 1 .. Len(Pipe) : ~IsRegistered(Pipe[i])) => registry = smt[Subnet]
    /\ \A i \in 1 .. Len(Pipe) :
           IsRegistered(Pipe[i]) /\ (\A j \in 1 .. Len(Pipe) : i < j => ~IsRegistered(Pipe[j]))
               => smt[Subnet] = Pipe[i]

\* There was no crash, and no CF went unannounced.
AllAnnounced == epoch = 0 /\ missed = {}

Lag == Fresh /\ Made /\ InOrder /\ Tracked /\ Registered

\* Initially nothing is final.
LEMMA InitLag == Init => Lag
<1> SUFFICES ASSUME Init PROVE Lag
  OBVIOUS
<1>1. Pipe = << >> /\ Len(Pipe) = 0
  BY DEF Init, Pipe
<1>2. lost = {} /\ todo \in Seq(Txs) /\ applied = {} /\ tracker = {} /\ dag = {} /\ registry = None
  BY DEF Init
<1>3. smt[Subnet] = None /\ \A p \in Proposals : smt[p] = None
  BY KeysSplit DEF Init
<1>4. Fresh
  BY <1>1, <1>2 DEF Fresh, InPipe
<1>5. Made /\ InOrder /\ Tracked /\ Registered
  BY <1>1, <1>2, <1>3 DEF Made, InOrder, Tracked, Registered
<1> QED
  BY <1>4, <1>5 DEF Lag

\* Nothing becomes final and nothing is projected; an event may be new.
LEMMA QuietLag ==
    ASSUME Lag, Pipe' = Pipe, todo' \in Seq(Txs),
           UNCHANGED <<lost, applied, smt, tracker, registry>>,
           \A t \in Txs : t \in dag' \/ pc'[t] = "start" => t \in dag \/ pc[t] = "start",
           \A d \in Decisions : d \in applied => about'[d] = about[d]
    PROVE  Lag'
<1>1. \A t : InPipe(t)' <=> InPipe(t)
  BY DEF InPipe
<1>2. \A t : IsRegistered(t)' <=> IsRegistered(t)
  BY DEF IsRegistered
<1>3. Fresh'
  BY <1>1 DEF Lag, Fresh
<1>4. Made' /\ InOrder'
  BY DEF Lag, Made, InOrder
<1>5. Tracked'
  BY <1>1 DEF Lag, Tracked
<1>6. Registered'
  <2>1. \A i : IsRegistered(Pipe[i])' <=> IsRegistered(Pipe[i])
    BY DEF IsRegistered
  <2> QED
    BY <2>1 DEF Lag, Registered
<1> QED
  BY <1>3, <1>4, <1>5, <1>6 DEF Lag

\* What the finality of an event means for proposals and registrations.
LEMMA FinalizeMeans ==
    ASSUME Base, NEW t \in dag, t \in Proposals => smt[t] = None,
           NEW took, took <=> Verdict(smt, result[t]) = "applied",
           NEW st, st = ApplyOne(smt, result[t])
    PROVE  /\ t \in Proposals => took
           /\ \A p \in Proposals : st[p] # None <=> (p = t \/ smt[p] # None)
           /\ st[Subnet] = IF took /\ t \in Registrations THEN t ELSE smt[Subnet]
           /\ took /\ t \in Decisions => about[t] \in Proposals /\ smt[about[t]] = "pending"
<1> USE TxsSplit, KeysSplit
<1>0. t \in Proposals \cup Decisions \cup Registrations /\ t \in Txs
  BY GovernanceAssumption DEF Base, Types
<1>1. CASE t \in Proposals
  <2>1. result[t] = [ok |-> TRUE, changes |-> <<Change(t, None, "pending")>>]
    BY <1>1 DEF Base, Known, Shaped, ProposeResult
  <2>2. Verdict(smt, result[t]) = "applied" <=> smt[t] = None
    BY <1>1, <2>1, ApplyOneChange
  <2>3. /\ \A k \in Keys \ {t} : ApplyOne(smt, result[t])[k] = smt[k]
        /\ ApplyOne(smt, result[t])[t] = IF smt[t] = None THEN "pending" ELSE smt[t]
    BY <1>1, FinalizePropose
  <2> QED
    BY <1>1, <2>2, <2>3
<1>2. CASE t \in Registrations
  <2>1. PICK o : result[t] = [ok |-> TRUE, changes |-> <<Change(Subnet, o, t)>>]
    BY <1>2 DEF Base, Known, Shaped
  <2>2. PICK r : r = result[t]
    OBVIOUS
  <2>3. Subnet \in Keys /\ (o = None => t # None)
    BY <1>0
  <2>4. /\ Verdict(smt, r) = "applied" <=> smt[Subnet] = o
        /\ smt[Subnet] = o => ApplyOne(smt, r) = [j \in Keys |-> IF j = Subnet THEN t ELSE smt[j]]
        /\ smt[Subnet] # o => ApplyOne(smt, r) = smt
    BY <2>1, <2>2, <2>3, ApplyOneChange
  <2>5. \A p \in Proposals : p # t /\ st[p] = smt[p]
    BY <1>2, <2>2, <2>4
  <2>6. st[Subnet] = IF took THEN t ELSE smt[Subnet]
    BY <2>2, <2>4
  <2> QED
    BY <1>2, <2>5, <2>6
<1>3. CASE t \in Decisions
  <2>1. /\ about[t] \in Proposals
        /\ \/ ~took /\ st = smt
           \/ /\ took /\ smt[about[t]] = "pending" /\ st[about[t]] \in {"approved", "rejected"}
              /\ \A k \in Keys \ {about[t], Resource, Param} : st[k] = smt[k]
    BY <1>3, FinalizeExecute
  <2> QED
    BY <1>3, <2>1
<1> QED
  BY <1>0, <1>1, <1>2, <1>3

\* An event becomes final: the projector will see it last.
LEMMA FinalizeLag ==
    ASSUME Base, Lag, NEW t \in Txs, Finalize(t)
    PROVE  Lag'
<1> USE TxsSplit
<1>0. /\ t \in dag /\ dag' = dag \ {t} /\ unsaved' = Append(unsaved, t)
      /\ smt' = ApplyOne(smt, result[t])
      /\ applied' = IF Verdict(smt, result[t]) = "applied" THEN applied \cup {t} ELSE applied
      /\ UNCHANGED <<pc, about, tracker, registry, lost, todo>>
  BY DEF Finalize, handlerVars
<1>1. t \notin applied /\ ~InPipe(t) /\ pc[t] # "start"
  BY <1>0 DEF Lag, Fresh, Base, Known
<1>2. todo \in Seq(Txs) /\ unsaved \in Seq(Txs) /\ Pipe \in Seq(Txs)
  BY DEF Lag, Fresh, Base, Types, Pipe
<1>3. Pipe' = Append(Pipe, t)
  BY <1>0, <1>2, ConcatAppend DEF Pipe
<1>4. PICK p1, p2, n : p1 = Pipe /\ p2 = Pipe' /\ n = Len(Pipe)
  OBVIOUS
<1>5. /\ n \in Nat /\ Len(p1) = n /\ Len(p2) = n + 1 /\ p2[n + 1] = t
      /\ \A i \in 1 .. n : p2[i] = p1[i] /\ p1[i] # t
  BY <1>1, <1>2, <1>3, <1>4 DEF InPipe
<1>6. \A i \in 1 .. n + 1 : i \in 1 .. n \/ i = n + 1
  BY <1>5
<1>7. \A i \in 1 .. n : i \in 1 .. n + 1 /\ i < n + 1
  BY <1>5
<1>8. n + 1 \in 1 .. n + 1
  BY <1>5
<1>9. \A s : InPipe(s)' <=> s = t \/ InPipe(s)
  BY <1>4, <1>5, <1>6, <1>7, <1>8 DEF InPipe
<1>10. PICK took \in BOOLEAN : took <=> Verdict(smt, result[t]) = "applied"
  OBVIOUS
<1>11. /\ t \in Proposals => took
       /\ \A p \in Proposals : smt'[p] # None <=> (p = t \/ smt[p] # None)
       /\ smt'[Subnet] = IF took /\ t \in Registrations THEN t ELSE smt[Subnet]
       /\ took /\ t \in Decisions => about[t] \in Proposals /\ smt[about[t]] = "pending"
  <2>1. t \in Proposals => smt[t] = None
    BY <1>1 DEF Lag, Made
  <2> QED
    BY <1>0, <1>10, <2>1, FinalizeMeans
<1>12. applied' = IF took THEN applied \cup {t} ELSE applied
  BY <1>0, <1>10
<1>13. Fresh'
  <2>1. \A i, j \in 1 .. n + 1 : p2[i] = p2[j] => i = j
    BY <1>4, <1>5, <1>6 DEF Lag, Fresh
  <2>2. \A s \in Txs : s \in dag' \/ pc'[s] = "start" => s \notin applied' /\ ~InPipe(s)'
    BY <1>0, <1>1, <1>9, <1>12 DEF Lag, Fresh
  <2>3. lost' = {} /\ todo' \in Seq(Txs) /\ applied' \in SUBSET Txs
    BY <1>0, <1>12 DEF Lag, Fresh
  <2> QED
    BY <1>4, <1>5, <2>1, <2>2, <2>3 DEF Fresh
<1>14. Made'
  BY <1>1, <1>11, <1>12 DEF Lag, Made
<1>15. InOrder'
  <2> SUFFICES ASSUME NEW d \in Decisions, d \in applied'
               PROVE  /\ about[d] \in applied'
                      /\ \A i \in 1 .. n + 1 : p2[i] = about[d] => \E j \in 1 .. n + 1 : i < j /\ p2[j] = d
    BY <1>0, <1>4, <1>5 DEF InOrder
  <2>1. CASE d = t
    <3>1. about[t] \in Proposals /\ smt[about[t]] = "pending"
      BY <1>1, <1>11, <1>12, <2>1
    <3>2. about[t] \in applied /\ about[t] # t
      BY <2>1, <3>1, KeysSplit DEF Lag, Made
    <3>3. \A i \in 1 .. n + 1 : p2[i] = about[d] => i \in 1 .. n
      BY <1>5, <1>6, <2>1, <3>2
    <3> QED
      BY <1>5, <1>7, <1>8, <1>12, <2>1, <3>2, <3>3
  <2>2. CASE d # t
    <3>1. d \in applied
      BY <1>12, <2>2
    <3>2. about[d] \in applied /\ about[d] # t
      BY <1>1, <3>1 DEF Lag, InOrder
    <3>3. \A i \in 1 .. n : p1[i] = about[d] => \E j \in 1 .. n : i < j /\ p1[j] = d
      BY <1>4, <3>1 DEF Lag, InOrder
    <3>4. ASSUME NEW i \in 1 .. n + 1, p2[i] = about[d]
          PROVE  \E j \in 1 .. n + 1 : i < j /\ p2[j] = d
      <4>1. i \in 1 .. n
        BY <1>5, <1>6, <3>2, <3>4
      <4>2. PICK j \in 1 .. n : i < j /\ p1[j] = d
        BY <1>5, <3>3, <3>4, <4>1
      <4> QED
        BY <1>5, <1>7, <4>2
    <3> QED
      BY <1>12, <3>2, <3>4
  <2> QED
    BY <2>1, <2>2
<1>16. Tracked'
  <2>1. ASSUME NEW p \in Proposals
        PROVE  p \in tracker <=> /\ p \in applied' /\ ~InPipe(p)'
                                 /\ \A d \in Decisions : d \in applied' /\ about[d] = p => InPipe(d)'
    <3>1. p \in tracker <=> /\ p \in applied /\ ~InPipe(p)
                            /\ \A d \in Decisions : d \in applied /\ about[d] = p => InPipe(d)
      BY DEF Lag, Tracked
    <3> QED
      BY <1>1, <1>9, <1>12, <3>1
  <2> QED
    BY <1>0, <2>1 DEF Lag, Tracked
<1>17. Registered'
  <2>1. \A i \in 1 .. n : IsRegistered(p1[i])' <=> IsRegistered(p1[i])
    BY <1>5, <1>12 DEF IsRegistered
  <2>2. IsRegistered(t)' <=> took /\ t \in Registrations
    BY <1>1, <1>12 DEF IsRegistered
  <2> SUFFICES /\ (\A i \in 1 .. n + 1 : ~IsRegistered(p2[i])') => registry = smt'[Subnet]
               /\ \A i \in 1 .. n + 1 :
                    IsRegistered(p2[i])' /\ (\A j \in 1 .. n + 1 : i < j => ~IsRegistered(p2[j])')
                      => smt'[Subnet] = p2[i]
    BY <1>0, <1>4, <1>5 DEF Registered, IsRegistered
  <2>3. CASE took /\ t \in Registrations
    <3>1. IsRegistered(p2[n + 1])' /\ smt'[Subnet] = t
      BY <1>5, <1>11, <2>2, <2>3
    <3> QED
      BY <1>5, <1>6, <1>7, <1>8, <3>1
  <2>4. CASE ~(took /\ t \in Registrations)
    <3>1. /\ ~IsRegistered(p2[n + 1])' /\ smt'[Subnet] = smt[Subnet]
          /\ \A i \in 1 .. n : IsRegistered(p2[i])' <=> IsRegistered(p1[i])
      BY <1>5, <1>11, <2>1, <2>2, <2>4
    <3>2. (\A i \in 1 .. n : ~IsRegistered(p1[i])) => registry = smt[Subnet]
      BY <1>4 DEF Lag, Registered
    <3>3. \A i \in 1 .. n :
             IsRegistered(p1[i]) /\ (\A j \in 1 .. n : i < j => ~IsRegistered(p1[j]))
               => smt[Subnet] = p1[i]
      BY <1>4 DEF Lag, Registered
    <3>4. (\A i \in 1 .. n + 1 : ~IsRegistered(p2[i])') => registry = smt'[Subnet]
      BY <1>7, <3>1, <3>2
    <3>5. ASSUME NEW i \in 1 .. n + 1, IsRegistered(p2[i])',
                 \A j \in 1 .. n + 1 : i < j => ~IsRegistered(p2[j])'
          PROVE  smt'[Subnet] = p2[i]
      <4>1. i \in 1 .. n
        BY <1>6, <3>1, <3>5
      <4>2. \A j \in 1 .. n : i < j => ~IsRegistered(p1[j])
        BY <1>7, <3>1, <3>5
      <4> QED
        BY <1>5, <3>1, <3>3, <3>5, <4>1, <4>2
    <3> QED
      BY <3>4, <3>5
  <2> QED
    BY <2>3, <2>4
<1> QED
  BY <1>13, <1>14, <1>15, <1>16, <1>17 DEF Lag

\* The projector sees the next event.
LEMMA ProjectLag ==
    ASSUME Base, Lag, Project
    PROVE  Lag'
<1> USE TxsSplit
<1>0. /\ todo # << >> /\ todo' = Tail(todo)
      /\ UNCHANGED <<pc, about, dag, smt, applied, lost, unsaved>>
  BY DEF Project, handlerVars, ledgerVars
<1>1. todo \in Seq(Txs) /\ unsaved \in Seq(Txs) /\ Pipe \in Seq(Txs)
  BY DEF Lag, Fresh, Base, Types, Pipe
<1>2. Pipe' = Tail(Pipe) /\ Head(Pipe) = Head(todo) /\ Pipe # << >>
  BY <1>0, <1>1, ConcatTail DEF Pipe
<1>3. PICK p1, p2, n, h : p1 = Pipe /\ p2 = Pipe' /\ n = Len(Pipe') /\ h = Head(todo)
  OBVIOUS
<1>4. /\ n \in Nat /\ Len(p1) = n + 1 /\ Len(p2) = n /\ p1[1] = h /\ h \in Txs
      /\ \A i \in 1 .. n : p2[i] = p1[i + 1]
  BY <1>1, <1>2, <1>3
<1>5. 1 \in 1 .. n + 1 /\ \A i \in 1 .. n : i + 1 \in 1 .. n + 1 /\ i + 1 # 1
  BY <1>4
<1>6. \A i \in 1 .. n + 1 : i # 1 => i - 1 \in 1 .. n /\ (i - 1) + 1 = i
  BY <1>4
<1>7. \A i, j \in 1 .. n + 1 : p1[i] = p1[j] => i = j
  BY <1>3, <1>4 DEF Lag, Fresh
<1>8. \A s : InPipe(s) <=> \E i \in 1 .. n + 1 : p1[i] = s
  BY <1>3, <1>4 DEF InPipe
<1>9. \A s : InPipe(s)' <=> \E i \in 1 .. n : p2[i] = s
  BY <1>3, <1>4 DEF InPipe
<1>10. ASSUME NEW s PROVE InPipe(s)' <=> InPipe(s) /\ s # h
  <2>1. ASSUME NEW i \in 1 .. n, p2[i] = s PROVE InPipe(s) /\ s # h
    BY <1>4, <1>5, <1>7, <1>8, <2>1
  <2>2. ASSUME NEW i \in 1 .. n + 1, p1[i] = s, s # h PROVE InPipe(s)'
    <3>1. i # 1
      BY <1>4, <2>2
    <3>2. i - 1 \in 1 .. n /\ p2[i - 1] = s
      BY <1>4, <1>6, <2>2, <3>1
    <3> QED
      BY <1>9, <3>2
  <2> QED
    BY <1>8, <1>9, <2>1, <2>2
<1>11. /\ tracker' = IF h \notin applied THEN tracker
                     ELSE IF h \in Proposals THEN tracker \cup {h}
                     ELSE IF h \in Decisions THEN tracker \ {about[h]} ELSE tracker
       /\ registry' = IF IsRegistered(h) THEN h ELSE registry
  BY <1>3 DEF Project, IsRegistered
<1>12. Fresh'
  <2>1. \A i, j \in 1 .. n : p2[i] = p2[j] => i = j
    BY <1>4, <1>5, <1>7
  <2>2. todo' \in Seq(Txs)
    BY <1>0, <1>1
  <2> QED
    BY <1>0, <1>3, <1>4, <1>10, <2>1, <2>2 DEF Lag, Fresh
<1>13. Made'
  BY <1>0 DEF Lag, Made
<1>14. ASSUME NEW d \in Decisions, d \in applied, NEW i \in 1 .. n + 1, p1[i] = about[d]
       PROVE  \E j \in 1 .. n + 1 : i < j /\ p1[j] = d
  BY <1>3, <1>4, <1>14 DEF Lag, InOrder
<1>15. InOrder'
  <2>1. ASSUME NEW d \in Decisions, d \in applied, NEW i \in 1 .. n, p2[i] = about[d]
        PROVE  \E j \in 1 .. n : i < j /\ p2[j] = d
    <3>1. i + 1 \in 1 .. n + 1 /\ p1[i + 1] = about[d]
      BY <1>4, <1>5, <2>1
    <3>2. PICK j \in 1 .. n + 1 : i + 1 < j /\ p1[j] = d
      BY <1>14, <2>1, <3>1
    <3>3. j # 1 /\ i < j - 1
      BY <1>4, <3>2
    <3>4. j - 1 \in 1 .. n /\ p2[j - 1] = d
      BY <1>4, <1>6, <3>2, <3>3
    <3> QED
      BY <3>3, <3>4
  <2>2. \A d \in Decisions : d \in applied => about[d] \in applied
    BY DEF Lag, InOrder
  <2> QED
    BY <1>0, <1>3, <1>4, <2>1, <2>2 DEF InOrder
<1>16. Tracked'
  <2>0. tracker \in SUBSET Proposals
    BY DEF Lag, Tracked
  <2>1. tracker' \in SUBSET Proposals
    BY <1>11, <2>0
  <2>2. ASSUME NEW p \in Proposals
        PROVE  p \in tracker' <=> /\ p \in applied /\ ~InPipe(p)'
                                  /\ \A d \in Decisions : d \in applied /\ about[d] = p => InPipe(d)'
    <3>1. p \in tracker <=> /\ p \in applied /\ ~InPipe(p)
                            /\ \A d \in Decisions : d \in applied /\ about[d] = p => InPipe(d)
      BY DEF Lag, Tracked
    <3>2. CASE h \notin applied
      <4>1. h # p => (InPipe(p)' <=> InPipe(p))
        BY <1>10
      <4>2. \A d \in Decisions : d \in applied => (InPipe(d)' <=> InPipe(d))
        BY <1>10, <3>2
      <4>3. tracker' = tracker
        BY <1>11, <3>2
      <4>4. h = p => p \notin applied
        BY <3>2
      <4> QED
        BY <3>1, <4>1, <4>2, <4>3, <4>4
    <3>3. CASE h \in applied /\ h \in Proposals
      <4>1. \A d \in Decisions : InPipe(d)' <=> InPipe(d)
        BY <1>10, <3>3
      <4>2. ASSUME p = h PROVE \A d \in Decisions : d \in applied /\ about[d] = p => InPipe(d)
        <5> SUFFICES ASSUME NEW d \in Decisions, d \in applied, about[d] = p PROVE InPipe(d)
          OBVIOUS
        <5>1. \E j \in 1 .. n + 1 : 1 < j /\ p1[j] = d
          BY <1>4, <1>5, <1>14, <4>2
        <5> QED
          BY <1>8, <5>1
      <4>3. tracker' = tracker \cup {h}
        BY <1>11, <3>3
      <4>4. p # h => (InPipe(p)' <=> InPipe(p))
        BY <1>10
      <4>5. ~InPipe(h)'
        BY <1>10
      <4> QED
        BY <3>1, <3>3, <4>1, <4>2, <4>3, <4>4, <4>5
    <3>4. CASE h \in applied /\ h \in Decisions
      <4>1. p # h /\ (InPipe(p)' <=> InPipe(p)) /\ ~InPipe(h)'
        BY <1>10, <3>4
      <4>2. tracker' = tracker \ {about[h]}
        BY <1>11, <3>4
      <4>3. CASE p = about[h]
        BY <3>4, <4>1, <4>2, <4>3
      <4>4. CASE p # about[h]
        <5>1. \A d \in Decisions : about[d] = p => (InPipe(d)' <=> InPipe(d))
          BY <1>10, <4>4
        <5> QED
          BY <3>1, <4>1, <4>2, <4>4, <5>1
      <4> QED
        BY <4>3, <4>4
    <3>5. CASE h \in applied /\ h \in Registrations
      <4>1. p # h /\ (InPipe(p)' <=> InPipe(p)) /\ tracker' = tracker
        BY <1>10, <1>11, <3>5
      <4>2. \A d \in Decisions : InPipe(d)' <=> InPipe(d)
        BY <1>10, <3>5
      <4> QED
        BY <3>1, <4>1, <4>2
    <3> QED
      BY <1>4, <3>2, <3>3, <3>4, <3>5, GovernanceAssumption
  <2> QED
    BY <1>0, <2>1, <2>2 DEF Tracked
<1>17. Registered'
  <2>1. \A s : IsRegistered(s)' <=> IsRegistered(s)
    BY <1>0 DEF IsRegistered
  <2>2. /\ (\A i \in 1 .. n + 1 : ~IsRegistered(p1[i])) => registry = smt[Subnet]
        /\ \A i \in 1 .. n + 1 :
             IsRegistered(p1[i]) /\ (\A j \in 1 .. n + 1 : i < j => ~IsRegistered(p1[j]))
               => smt[Subnet] = p1[i]
    BY <1>3, <1>4 DEF Lag, Registered
  <2>3. ASSUME \A i \in 1 .. n : ~IsRegistered(p2[i]) PROVE registry' = smt[Subnet]
    <3>1. \A i \in 1 .. n + 1 : i # 1 => ~IsRegistered(p1[i])
      BY <1>4, <1>6, <2>3
    <3>2. CASE IsRegistered(h)
      <4>1. \A j \in 1 .. n + 1 : 1 < j => ~IsRegistered(p1[j])
        BY <3>1
      <4> QED
        BY <1>4, <1>5, <1>11, <2>2, <3>2, <4>1
    <3>3. CASE ~IsRegistered(h)
      BY <1>4, <1>11, <2>2, <3>1, <3>3
    <3> QED
      BY <3>2, <3>3
  <2>4. ASSUME NEW i \in 1 .. n, IsRegistered(p2[i]), \A j \in 1 .. n : i < j => ~IsRegistered(p2[j])
        PROVE  smt[Subnet] = p2[i]
    <3>1. i + 1 \in 1 .. n + 1 /\ IsRegistered(p1[i + 1])
      BY <1>4, <1>5, <2>4
    <3>2. ASSUME NEW j \in 1 .. n + 1, i + 1 < j PROVE ~IsRegistered(p1[j])
      <4>1. j # 1 /\ i < j - 1
        BY <1>4, <3>2
      <4> QED
        BY <1>4, <1>6, <2>4, <4>1
    <3>3. smt[Subnet] = p1[i + 1]
      BY <2>2, <3>1, <3>2
    <3> QED
      BY <1>4, <3>3
  <2>5. smt' = smt
    BY <1>0
  <2> SUFFICES /\ (\A i \in 1 .. n : ~IsRegistered(p2[i])') => registry' = smt'[Subnet]
               /\ \A i \in 1 .. n :
                    IsRegistered(p2[i])' /\ (\A j \in 1 .. n : i < j => ~IsRegistered(p2[j])')
                      => smt'[Subnet] = p2[i]
    BY <1>3, <1>4 DEF Registered, IsRegistered
  <2> QED
    BY <2>1, <2>3, <2>4, <2>5
<1> QED
  BY <1>12, <1>13, <1>15, <1>16, <1>17 DEF Lag

\* Until the first crash every step keeps the projector's lag in order.
LEMMA NextLag == Base /\ Base' /\ (AllAnnounced => Lag) /\ [Next]_vars => (AllAnnounced' => Lag')
<1> SUFFICES ASSUME Base, Base', AllAnnounced => Lag, [Next]_vars, epoch' = 0, missed' = {} PROVE Lag'
  BY DEF AllAnnounced
<1> USE TxsSplit
<1>0. CASE Restart
  BY <1>0 DEF Restart, Base, Types
<1>1. ~Restart => epoch' = epoch
  BY ZenonT(60) DEF Next, vars, serviceVars, Propose, SettlePropose, ArrivePropose, PollNothing, Callback,
     PollResult, PollTimeout, Decide, ArriveExecute, SettleExecute, Register, SettleRegister,
     PollTick, Persist, Miss, Project, Finalize, Redeliver
<1>1a. (\E saved \in BOOLEAN : Miss(saved)) => missed' # {}
  BY DEF Miss
<1>1b. ~Restart /\ (\A saved \in BOOLEAN : ~Miss(saved)) => missed' = missed
  BY ZenonT(60) DEF Next, vars, ledgerVars, Propose, SettlePropose, ArrivePropose, PollNothing, Callback,
     PollResult, PollTimeout, Decide, ArriveExecute, SettleExecute, Register, SettleRegister,
     PollTick, Persist, Project, Finalize, Redeliver
<1> SUFFICES ASSUME ~Restart, \A saved \in BOOLEAN : ~Miss(saved), Lag PROVE Lag'
  BY <1>0, <1>1, <1>1a, <1>1b DEF AllAnnounced
<1>2. ASSUME NEW t \in Txs, pc[t] = "start", dag' = dag \cup {t},
             \A s \in Txs : s # t => pc'[s] = pc[s],
             \A d \in Decisions : d # t => about'[d] = about[d],
             UNCHANGED <<todo, unsaved, lost, applied, smt, tracker, registry>>
      PROVE  Lag'
  <2>1. Pipe' = Pipe /\ todo' \in Seq(Txs)
    BY <1>2 DEF Pipe, Lag, Fresh
  <2>2. t \notin applied
    BY <1>2 DEF Lag, Fresh
  <2>3. \A s \in Txs : s \in dag' \/ pc'[s] = "start" => s \in dag \/ pc[s] = "start"
    BY <1>2
  <2>4. \A d \in Decisions : d \in applied => about'[d] = about[d]
    BY <1>2, <2>2
  <2> QED
    BY <1>2, <2>1, <2>3, <2>4, QuietLag
<1>3. ASSUME NEW p \in Proposals, Propose(p) \/ ArrivePropose(p) PROVE Lag'
  <2>1. /\ pc[p] = "start" /\ dag' = dag \cup {p}
        /\ \E v : pc' = [pc EXCEPT ![p] = v]
        /\ UNCHANGED <<about, todo, unsaved, lost, applied, smt, tracker, registry>>
    BY <1>3 DEF Propose, ArrivePropose, EnterDag, serviceVars, ledgerVars
  <2>2. \A s \in Txs : s # p => pc'[s] = pc[s]
    BY <2>1 DEF Base, Types
  <2> QED
    BY <1>2, <2>1, <2>2
<1>4. ASSUME NEW g \in Registrations, Register(g) PROVE Lag'
  BY <1>2, <1>4 DEF Register, EnterDag, serviceVars, ledgerVars, Base, Types
<1>5. ASSUME NEW d \in Decisions, NEW p \in Proposals, NEW a \in BOOLEAN,
             Decide(d, p, a) \/ ArriveExecute(d, p, a)
      PROVE  Lag'
  <2>1. /\ pc[d] = "start" /\ dag' = dag \cup {d} /\ about' = [about EXCEPT ![d] = p]
        /\ \E v : pc' = [pc EXCEPT ![d] = v]
        /\ UNCHANGED <<todo, unsaved, lost, applied, smt, tracker, registry>>
    BY <1>5 DEF Decide, ArriveExecute, EnterDag, serviceVars, ledgerVars
  <2>2. \A s \in Txs : s # d => pc'[s] = pc[s]
    BY <2>1 DEF Base, Types
  <2>3. \A e \in Decisions : e # d => about'[e] = about[e]
    BY <2>1 DEF Base, Types
  <2> QED
    BY <1>2, <2>1, <2>2, <2>3
<1>6. ASSUME NEW t \in Txs, Finalize(t) \/ Redeliver(t) PROVE Lag'
  <2>1. ~Redeliver(t)
    BY DEF Lag, Fresh, Redeliver
  <2> QED
    BY <1>6, <2>1, FinalizeLag
<1>7. CASE Project
  BY <1>7, ProjectLag
<1>8. CASE Persist
  <2>1. /\ UNCHANGED <<pc, about, dag, lost, applied, smt, tracker, registry>>
        /\ unsaved # << >> /\ unsaved' = Tail(unsaved) /\ todo' = Append(todo, Head(unsaved))
    BY <1>8 DEF Persist, handlerVars, serviceVars
  <2>2. todo \in Seq(Txs) /\ unsaved \in Seq(Txs)
    BY DEF Lag, Fresh, Base, Types
  <2>3. Pipe' = Pipe
    BY <2>1, <2>2, ConcatMove DEF Pipe
  <2>4. todo' \in Seq(Txs)
    BY <2>1, <2>2
  <2> QED
    BY <2>1, <2>3, <2>4, QuietLag
<1>9. ASSUME UNCHANGED <<about, dag, lost, applied, smt, tracker, registry, todo, unsaved>>,
             pc' = pc \/ \E t \in Txs : pc[t] # "start" /\ pc' = [pc EXCEPT ![t] = "done"]
      PROVE  Lag'
  <2>1. Pipe' = Pipe /\ todo' \in Seq(Txs)
    BY <1>9 DEF Pipe, Lag, Fresh
  <2>2. \A s \in Txs : s \in dag' \/ pc'[s] = "start" => s \in dag \/ pc[s] = "start"
    BY <1>9 DEF Base, Types
  <2> QED
    BY <1>9, <2>1, <2>2, QuietLag
<1>10. ASSUME NEW p \in Proposals, SettlePropose(p) PROVE Lag'
  BY <1>9, <1>10 DEF SettlePropose, ledgerVars
<1>11. ASSUME NEW d \in Decisions, SettleExecute(d) PROVE Lag'
  BY <1>9, <1>11 DEF SettleExecute, ledgerVars
<1>12. ASSUME NEW g \in Registrations, SettleRegister(g) PROVE Lag'
  BY <1>9, <1>12 DEF SettleRegister, ledgerVars
<1>13. CASE (\E p \in Proposals : PollNothing(p)) \/ PollTick \/ UNCHANGED vars
  BY <1>9, <1>13 DEF PollNothing, PollTick, vars, handlerVars, serviceVars, ledgerVars
<1> QED
  BY <1>3, <1>4, <1>5, <1>6, <1>7, <1>8, <1>10, <1>11, <1>12, <1>13
     DEF Next, Callback, PollResult, PollTimeout

\* Until the first crash or unannounced CF, and whenever it has caught up, the
\* projector has left the tracker with exactly the pending proposals and the
\* registry with the finalized registration, for any number of stale decisions
\* and registrations it passed over (apply_live_finalized_side_effects).
THEOREM ProjectionExactHolds == Spec => []ProjectionExact
<1>1. Init => (AllAnnounced => Lag)
  BY InitLag
<1>2. Base /\ Base' /\ (AllAnnounced => Lag) /\ [Next]_vars => (AllAnnounced => Lag)'
  BY NextLag
<1>3. Care /\ (AllAnnounced => Lag) => ProjectionExact
  <2> SUFFICES ASSUME Care, Lag, todo = << >>, unsaved = << >>
               PROVE  /\ tracker = {p \in Proposals : smt[p] = "pending"}
                      /\ registry = smt[Subnet]
    BY DEF ProjectionExact, AllAnnounced
  <2>1. Len(Pipe) = 0
    BY DEF Pipe
  <2>2. \A s : ~InPipe(s)
    BY <2>1 DEF InPipe
  <2>3. registry = smt[Subnet]
    BY <2>1 DEF Lag, Registered
  <2>4. ASSUME NEW p \in Proposals PROVE p \in tracker <=> smt[p] = "pending"
    <3>1. p \in tracker <=> p \in applied /\ \A d \in Decisions : ~(d \in applied /\ about[d] = p)
      BY <2>2 DEF Lag, Tracked
    <3>2. p \in applied <=> smt[p] # None
      BY DEF Lag, Made
    <3>3. IsDecided(p) <=> \E d \in Decisions : d \in applied /\ about[d] = p
      BY DEF Care, DecidedByOne, AppliedDecides
    <3>4. smt[p] = "pending" <=> smt[p] # None /\ ~IsDecided(p)
      BY KeysSplit DEF Care, StatusOK, IsDecided
    <3> QED
      BY <3>1, <3>2, <3>3, <3>4
  <2>5. tracker \in SUBSET Proposals
    BY DEF Lag, Tracked
  <2> QED
    BY <2>3, <2>4, <2>5
<1> QED
  BY <1>1, <1>2, <1>3, BaseInvariant, CareInvariant, PTL DEF Spec

-----------------------------------------------------------------------------
(* Types.                                                                  *)

\* A result with its changes in a sequence.
IsResult(r) == ResultOK(r) /\ DOMAIN r.changes = 1 .. Len(r.changes)

Results ==
    \A t \in Txs : IF pc[t] = "start" THEN depth[t] = 0 /\ result[t] = None
                   ELSE depth[t] > 0 /\ IsResult(result[t])

Values == \A k \in Keys : smt[k] \in ValuesAt(k)

\* What is staged was made.
Staged == {t \in Txs : pc[t] # "start"}

Queues == overlay \in Seq(Staged) /\ todo \in Seq(Txs)

Service ==
    /\ byLoop \in Decisions \cup {None} /\ polled \in SUBSET Proposals
    /\ epoch \in 0 .. MaxRestarts
    /\ pendingGov \in [Proposals -> (0 .. epoch) \cup {None}]
    /\ decided \in [Proposals -> {"approved", "rejected", None}]
    /\ calls \in SUBSET (Proposals \X (0 .. epoch))
    /\ applied \in SUBSET Txs
    /\ tracker \in SUBSET Proposals /\ stranded \in SUBSET Proposals
    /\ registry \in Registrations \cup {None}

Typed == Results /\ Values /\ Queues /\ Service

\* They are the type invariant.
LEMMA TypedMeans == Base /\ Typed => TypeOK
<1> SUFFICES ASSUME Base, Typed PROVE TypeOK
  OBVIOUS
<1>1. overlay \in Seq(Txs)
  BY DEF Typed, Queues, Staged
<1>2. \A t \in Txs : IF depth[t] = 0 THEN result[t] = None ELSE ResultOK(result[t])
  BY DEF Typed, Results, IsResult
<1> QED
  BY <1>1, <1>2 DEF Typed, Values, Queues, Service, TypeOK, Base, Types

\* What the changes of a result leave at a key is of its type.
LEMMA ShadowTyped ==
    ASSUME NEW st, NEW k, st[k] \in ValuesAt(k), NEW r, IsResult(r)
    PROVE  Shadow(st, r.changes, Len(r.changes), k) \in ValuesAt(k)
<1> DEFINE n == Len(r.changes)
           J == WritesOf(r.changes, n, k)
<1>1. n \in Nat /\ J \in SUBSET (1 .. n) /\ DOMAIN r.changes = 1 .. n
  BY DEF IsResult, ResultOK, WritesOf
<1>2. CASE J = {}
  BY <1>2 DEF Shadow
<1>3. CASE J # {}
  <2>1. Last(J) \in J
    <3> HIDE DEF J, n
    <3> QED
      BY <1>1, <1>3, LastIs
  <2>2. Last(J) \in 1 .. n /\ r.changes[Last(J)].key = k
    BY <2>1 DEF WritesOf
  <2>3. r.changes[Last(J)].new \in ValuesAt(k)
    BY <1>1, <2>2 DEF IsResult, ResultOK
  <2> QED
    BY <1>3, <2>3 DEF Shadow
<1> QED
  BY <1>2, <1>3

\* What an event writes is of the type of its key.
LEMMA ApplyTyped ==
    ASSUME Values, DOMAIN smt = Keys, NEW r, IsResult(r)
    PROVE  \A k \in Keys : ApplyOne(smt, r)[k] \in ValuesAt(k)
<1>1. ASSUME NEW k \in Keys PROVE Written(smt, r.changes)[k] \in ValuesAt(k)
  <2>1. Written(smt, r.changes)[k] = Shadow(smt, r.changes, Len(r.changes), k)
    BY DEF Written
  <2> QED
    BY <2>1, ShadowTyped DEF Values
<1> QED
  BY <1>1 DEF ApplyOne, Values

\* So is what get_subnet_object reads through the overlay.
LEMMA ViewTyped ==
    ASSUME Typed, NEW k \in Keys
    PROVE  View(k) \in ValuesAt(k)
<1> DEFINE S == {i \in DOMAIN overlay : k \in WriteKeys(result[overlay[i]])}
           n == Len(overlay)
<1>1. overlay \in Seq(Staged) /\ n \in Nat /\ DOMAIN overlay = 1 .. n
  BY DEF Typed, Queues
<1>2. CASE S = {}
  BY <1>2 DEF View, Typed, Values
<1>3. CASE S # {}
  <2>1. S \in SUBSET (1 .. n)
    BY <1>1
  <2>2. Last(S) \in 1 .. n
    <3> HIDE DEF S, n
    <3> QED
      BY <1>1, <1>3, <2>1, LastIs
  <2>3. overlay[Last(S)] \in Staged
    BY <1>1, <2>2
  <2>4. PICK r : r = result[overlay[Last(S)]]
    OBVIOUS
  <2>5. IsResult(r)
    BY <2>3, <2>4 DEF Typed, Results, Staged
  <2>6. Shadow(smt, r.changes, Len(r.changes), k) \in ValuesAt(k)
    BY <2>5, ShadowTyped DEF Typed, Values
  <2> QED
    BY <1>3, <2>4, <2>6 DEF View
<1> QED
  BY <1>2, <1>3

\* The results the handlers make.
LEMMA MadeTyped ==
    /\ \A p \in Proposals : IsResult(ProposeResult(p))
    /\ \A p \in Proposals, a \in BOOLEAN, now \in ValuesAt(Resource) : IsResult(ExecuteResult(p, a, now))
    /\ \A g \in Registrations : smt[Subnet] \in ValuesAt(Subnet) => IsResult(RegisterResult(g))
<1> USE KeysSplit
<1>0. ASSUME NEW k \in Keys, NEW o \in ValuesAt(k), NEW n \in ValuesAt(k),
             NEW r, r = [ok |-> TRUE, changes |-> <<Change(k, o, n)>>]
      PROVE  IsResult(r)
  <2>1. r.ok /\ Len(r.changes) = 1 /\ DOMAIN r.changes = 1 .. 1 /\ r.changes[1] = Change(k, o, n)
    BY <1>0
  <2>2. Change(k, o, n).key = k /\ Change(k, o, n).old = o /\ Change(k, o, n).new = n
    BY DEF Change
  <2> QED
    BY <1>0, <2>1, <2>2 DEF IsResult, ResultOK
<1>1. ASSUME NEW k \in Keys, NEW o \in ValuesAt(k), NEW n \in ValuesAt(k),
             NEW l \in Keys, NEW b \in ValuesAt(l), NEW a \in ValuesAt(l),
             NEW r, r = [ok |-> TRUE, changes |-> <<Change(k, o, n), Change(l, b, a)>>]
      PROVE  IsResult(r)
  <2>1. /\ r.ok /\ Len(r.changes) = 2 /\ DOMAIN r.changes = 1 .. 2
        /\ r.changes[1] = Change(k, o, n) /\ r.changes[2] = Change(l, b, a)
    BY <1>1
  <2>2. /\ Change(k, o, n).key = k /\ Change(k, o, n).old = o /\ Change(k, o, n).new = n
        /\ Change(l, b, a).key = l /\ Change(l, b, a).old = b /\ Change(l, b, a).new = a
    BY DEF Change
  <2>3. \A i \in 1 .. 2 : i = 1 \/ i = 2
    OBVIOUS
  <2> QED
    BY <1>1, <2>1, <2>2, <2>3 DEF IsResult, ResultOK
<1>2. \A p \in Proposals : {None, "pending", "approved", "rejected"} \subseteq ValuesAt(p)
  BY DEF ValuesAt
<1>3. ASSUME NEW p \in Proposals PROVE IsResult(ProposeResult(p))
  BY <1>0, <1>2 DEF ProposeResult
<1>4. ASSUME NEW p \in Proposals, NEW a \in BOOLEAN, NEW now \in ValuesAt(Resource)
      PROVE  IsResult(ExecuteResult(p, a, now))
  <2>1. CASE ~a
    BY <1>0, <1>2, <2>1 DEF ExecuteResult
  <2>2. CASE a /\ Effect[p] = Resource
    <3>1. PICK now2 : now2 = (IF now = None THEN {} ELSE now) \cup {p}
      OBVIOUS
    <3>2. now2 \in ValuesAt(Resource)
      BY <3>1 DEF ValuesAt
    <3> QED
      BY <1>1, <1>2, <2>2, <3>1, <3>2 DEF ExecuteResult, EffectChange
  <2>3. CASE a /\ Effect[p] # Resource
    <3>1. None \in ValuesAt(Param) /\ p \in ValuesAt(Param)
      BY DEF ValuesAt
    <3> QED
      BY <1>1, <1>2, <2>3, <3>1 DEF ExecuteResult, EffectChange
  <2> QED
    BY <2>1, <2>2, <2>3
<1>5. ASSUME NEW g \in Registrations, smt[Subnet] \in ValuesAt(Subnet) PROVE IsResult(RegisterResult(g))
  <2>1. g \in ValuesAt(Subnet)
    BY DEF ValuesAt
  <2> QED
    BY <1>0, <1>5, <2>1 DEF RegisterResult
<1> QED
  BY <1>3, <1>4, <1>5

\* Clearing the overlay adds nothing to it.
LEMMA ClearedIn ==
    ASSUME NEW X, overlay \in Seq(X), NEW t
    PROVE  Cleared(t) \in Seq(X)
<1> DEFINE N == Len(overlay)
           turn(x, n) == IF overlay[n] = t THEN x ELSE Append(x, overlay[n])
           step == [n \in 1 .. N |-> [x \in Seq(X) |-> turn(x, n)]]
           Body(f) == [n \in 0 .. N |-> IF n = 0 THEN << >> ELSE turn(f[n - 1], n)]
           kept == CHOOSE f : f = Body(f)
<1>1. N \in Nat /\ \A n \in 1 .. N : overlay[n] \in X
  OBVIOUS
<1>2. << >> \in Seq(X)
  OBVIOUS
<1>3. ASSUME NEW n \in 1 .. N, NEW x \in Seq(X) PROVE turn(x, n) \in Seq(X)
  BY <1>1
<1> HIDE DEF turn
<1>4. step \in [1 .. N -> [Seq(X) -> Seq(X)]] /\ \A n \in 1 .. N, x \in Seq(X) : step[n][x] = turn(x, n)
  BY <1>3
<1> HIDE DEF step, N
<1>5. PICK f \in [0 .. N -> Seq(X)] : Iterates(f, N, << >>, step)
  BY <1>1, <1>2, <1>4, Recursion
<1>6. f = Body(f)
  <2>1. \A n \in 1 .. N : f[n - 1] \in Seq(X)
    BY <1>1, <1>5
  <2>2. \A n \in 1 .. N : f[n] = turn(f[n - 1], n)
    BY <1>4, <1>5, <2>1 DEF Iterates
  <2>3. ASSUME NEW n \in 0 .. N PROVE f[n] = IF n = 0 THEN << >> ELSE turn(f[n - 1], n)
    <3>1. n # 0 => n \in 1 .. N
      BY <1>1
    <3> QED
      BY <1>5, <2>2, <3>1 DEF Iterates
  <2> QED
    BY <1>5, <2>3
<1>7. kept = Body(kept)
  <2> HIDE DEF Body
  <2> QED
    BY <1>6, Zenon
<1> HIDE DEF kept
<1>8. kept[0] = << >> /\ \A n \in 1 .. N : kept[n] = turn(kept[n - 1], n)
  <2>1. 0 \in 0 .. N /\ \A n \in 1 .. N : n \in 0 .. N /\ n # 0
    BY <1>1
  <2> QED
    BY <1>7, <2>1
<1> DEFINE G == {n \in 0 .. N : kept[n] \in Seq(X)}
<1>9. 0 \in G
  <2>1. kept[0] \in Seq(X) /\ 0 \in 0 .. N
    BY <1>1, <1>2, <1>8
  <2> QED
    BY <2>1
<1>10. ASSUME NEW n \in 0 .. N - 1, n \in G PROVE n + 1 \in G
  <2>1. n + 1 \in 1 .. N /\ n + 1 \in 0 .. N /\ (n + 1) - 1 = n
    BY <1>1
  <2>2. kept[n + 1] = turn(kept[n], n + 1) /\ kept[n] \in Seq(X)
    BY <1>8, <1>10, <2>1
  <2> QED
    BY <1>3, <2>1, <2>2
<1>11. \A n \in 0 .. N : n \in G
  <2> HIDE DEF G
  <2> QED
    BY <1>1, <1>9, <1>10, BoundedInduction
<1>12. Cleared(t) = kept[N]
  BY DEF Cleared, kept, turn, N
<1> QED
  BY <1>1, <1>11, <1>12

\* Everything is typed in the beginning.
LEMMA InitTyped == Init => Typed
<1> SUFFICES ASSUME Init PROVE Typed
  OBVIOUS
<1>1. Results
  BY DEF Init, Results
<1>2. Values
  BY DEF Init, Values, ValuesAt
<1>3. Queues
  BY DEF Init, Queues
<1>4. Service
  BY GovernanceAssumption DEF Init, Service
<1> QED
  BY <1>1, <1>2, <1>3, <1>4 DEF Typed

\* An event that enters the DAG with a typed result.
LEMMA EnterTyped ==
    ASSUME Base, Typed, NEW t \in Txs, NEW r, IsResult(r), EnterDag(t, r),
           pc' \in [Txs -> {"start", "submitted", "done"}],
           \A s \in Txs \ {t} : pc'[s] = pc[s], pc'[t] # "start",
           UNCHANGED <<smt, serviceVars, applied, stranded, todo>>,
           byLoop' \in Decisions \cup {None}, polled' \in SUBSET Proposals
    PROVE  Typed'
<1>0. UNCHANGED <<pendingGov, decided, epoch, calls, overlay, tracker, registry>>
  BY DEF serviceVars
<1>1. Results'
  <2>1. /\ result'[t] = r /\ depth'[t] = maxDepth + 1 /\ maxDepth \in Nat
        /\ \A s \in Txs \ {t} : result'[s] = result[s] /\ depth'[s] = depth[s]
    BY DEF EnterDag, Base, Types
  <2>2. ASSUME NEW s \in Txs
        PROVE  IF pc'[s] = "start" THEN depth'[s] = 0 /\ result'[s] = None
               ELSE depth'[s] > 0 /\ IsResult(result'[s])
    <3>1. CASE s = t
      BY <2>1, <3>1
    <3>2. CASE s # t
      BY <2>1, <3>2 DEF Typed, Results
    <3> QED
      BY <3>1, <3>2
  <2> QED
    BY <2>2 DEF Results, IsResult, ResultOK, ValuesAt
<1>2. Values'
  BY DEF Typed, Values, ValuesAt
<1>3. Queues'
  <2>1. Staged \subseteq Staged'
    BY DEF Staged
  <2>2. overlay \in Seq(Staged')
    BY <2>1 DEF Typed, Queues
  <2> QED
    BY <1>0, <2>2 DEF Typed, Queues, Staged
<1>4. Service'
  BY <1>0 DEF Typed, Service
<1> QED
  BY <1>1, <1>2, <1>3, <1>4 DEF Typed

\* A step that makes no event.
LEMMA MoveTyped ==
    ASSUME Base, Typed, UNCHANGED <<result, depth>>,
           pc' \in [Txs -> {"start", "submitted", "done"}],
           \A s \in Txs : pc'[s] = "start" <=> pc[s] = "start",
           Values', Service', todo' \in Seq(Txs), overlay' \in Seq(Staged)
    PROVE  Typed'
<1>1. Results'
  BY DEF Typed, Results
<1>2. Staged' = Staged
  BY DEF Staged
<1> QED
  BY <1>1, <1>2 DEF Typed, Queues

\* Every step keeps the types.
LEMMA NextTyped ==
    ASSUME Base, Typed, [Next]_vars
    PROVE  Typed'
<1> USE TxsSplit
<1>0. /\ overlay \in Seq(Staged) /\ todo \in Seq(Txs) /\ unsaved \in Seq(Txs)
      /\ pc \in [Txs -> {"start", "submitted", "done"}]
      /\ byLoop \in Decisions \cup {None} /\ polled \in SUBSET Proposals
      /\ \A k \in Keys : smt[k] \in ValuesAt(k)
  BY DEF Typed, Queues, Service, Values, Base, Types
<1> DEFINE enterAt(t) ==
      /\ pc' \in [Txs -> {"start", "submitted", "done"}]
      /\ \A s \in Txs \ {t} : pc'[s] = pc[s]
      /\ pc'[t] # "start"
<1>1. ASSUME NEW p \in Proposals, Propose(p) \/ ArrivePropose(p)
      PROVE  Typed'
  <2>1. EnterDag(p, ProposeResult(p)) /\ enterAt(p)
    BY <1>0, <1>1 DEF Propose, ArrivePropose
  <2>2. UNCHANGED <<byLoop, polled, serviceVars, smt, applied, stranded, todo>>
    BY <1>1 DEF Propose, ArrivePropose, ledgerVars
  <2>3. IsResult(ProposeResult(p))
    BY MadeTyped
  <2> QED
    BY <1>0, <2>1, <2>2, <2>3, EnterTyped
<1>2. ASSUME NEW g \in Registrations, Register(g)
      PROVE  Typed'
  <2>1. EnterDag(g, RegisterResult(g)) /\ enterAt(g)
    BY <1>0, <1>2 DEF Register
  <2>2. UNCHANGED <<byLoop, polled, serviceVars, smt, applied, stranded, todo>>
    BY <1>2 DEF Register, ledgerVars
  <2>3. IsResult(RegisterResult(g))
    BY <1>0, KeysSplit, MadeTyped
  <2> QED
    BY <1>0, <2>1, <2>2, <2>3, EnterTyped
<1>3. ASSUME NEW d \in Decisions, NEW p \in Proposals, NEW a \in BOOLEAN, NEW now \in ValuesAt(Resource),
             EnterDag(d, ExecuteResult(p, a, now)),
             pc' = [pc EXCEPT ![d] = "submitted"] \/ pc' = [pc EXCEPT ![d] = "done"],
             UNCHANGED <<serviceVars, smt, applied, stranded, todo>>,
             byLoop' \in Decisions \cup {None}, polled' \in SUBSET Proposals
      PROVE  Typed'
  <2>1. enterAt(d)
    BY <1>0, <1>3
  <2>2. IsResult(ExecuteResult(p, a, now))
    BY MadeTyped
  <2> QED
    BY <1>3, <2>1, <2>2, EnterTyped
<1>4. ASSUME NEW d \in Decisions, NEW p \in Proposals, NEW a \in BOOLEAN, Decide(d, p, a),
             byLoop' \in Decisions \cup {None}, polled' \in SUBSET Proposals
      PROVE  Typed'
  <2>1. UNCHANGED <<serviceVars, smt, applied, stranded, todo>>
    BY <1>4 DEF Decide, ledgerVars
  <2>2. View(Resource) \in ValuesAt(Resource)
    BY ViewTyped, KeysSplit
  <2> QED
    BY <1>3, <1>4, <2>1, <2>2 DEF Decide
<1>5. ASSUME NEW d \in Decisions, NEW p \in Proposals, NEW a \in BOOLEAN, NEW e, Callback(d, p, e, a)
      PROVE  Typed'
  BY <1>0, <1>4, <1>5 DEF Callback
<1>6. ASSUME NEW d \in Decisions, NEW p \in Proposals, NEW a \in BOOLEAN,
             PollResult(d, p, a) \/ PollTimeout(d, p)
      PROVE  Typed'
  BY <1>0, <1>4, <1>6 DEF PollResult, PollTimeout
<1>7. ASSUME NEW d \in Decisions, NEW p \in Proposals, NEW a \in BOOLEAN, ArriveExecute(d, p, a)
      PROVE  Typed'
  <2>1. UNCHANGED <<byLoop, polled, serviceVars, smt, applied, stranded, todo>>
    BY <1>7 DEF ArriveExecute, ledgerVars
  <2>2. smt[Resource] \in ValuesAt(Resource)
    BY <1>0, KeysSplit
  <2> QED
    BY <1>0, <1>3, <1>7, <2>1, <2>2 DEF ArriveExecute
<1>8. ASSUME NEW t \in Txs, Redeliver(t)
      PROVE  Typed'
  <2>1. EnterDag(t, result[t]) /\ t \in lost
    BY <1>8 DEF Redeliver
  <2>2. UNCHANGED <<pc, byLoop, polled, serviceVars, smt, applied, stranded, todo>>
    BY <1>8 DEF Redeliver, handlerVars
  <2>3. pc[t] # "start"
    BY <2>1 DEF Base, Known
  <2>4. IsResult(result[t])
    BY <2>3 DEF Typed, Results
  <2> QED
    BY <1>0, <2>1, <2>2, <2>3, <2>4, EnterTyped
<1>9. ASSUME NEW t \in Txs, Finalize(t)
      PROVE  Typed'
  <2>1. /\ UNCHANGED <<pc, byLoop, polled, result, depth, pendingGov, decided, epoch, calls, tracker, registry, todo>>
        /\ t \in dag /\ smt' = ApplyOne(smt, result[t]) /\ overlay' = Cleared(t)
        /\ applied' \in {applied, applied \cup {t}}
        /\ stranded' = stranded \/ (t \in Decisions /\ stranded' = stranded \cup {about[t]})
    BY <1>9 DEF Finalize, handlerVars
  <2>2. pc[t] # "start"
    BY <2>1 DEF Base, Known
  <2>3. IsResult(result[t])
    BY <2>2 DEF Typed, Results
  <2>4. Values'
    <3>1. \A k \in Keys : smt'[k] \in ValuesAt(k)
      BY <2>1, <2>3, ApplyTyped DEF Typed, Base, Types
    <3> QED
      BY <3>1 DEF Values, ValuesAt
  <2>5. t \in Decisions => about[t] \in Proposals
    BY <2>2 DEF Base, Known, Shaped
  <2>6. Service'
    BY <2>1, <2>5 DEF Typed, Service
  <2>7. overlay' \in Seq(Staged)
    BY <1>0, <2>1, ClearedIn
  <2> QED
    BY <1>0, <2>1, <2>4, <2>6, <2>7, MoveTyped
<1>10. CASE Persist \/ \E saved \in BOOLEAN : Miss(saved)
  <2>1. /\ UNCHANGED <<pc, byLoop, polled, result, depth, pendingGov, decided, epoch, calls, overlay, tracker,
                       registry, smt, applied, stranded>>
        /\ todo' = todo \/ (todo' = Append(todo, Head(unsaved)) /\ unsaved # << >>)
    BY <1>10 DEF Persist, Miss, handlerVars, serviceVars
  <2>2. todo' \in Seq(Txs)
    BY <1>0, <2>1
  <2>3. Values' /\ Service'
    BY <2>1 DEF Typed, Values, ValuesAt, Service
  <2> QED
    BY <1>0, <2>1, <2>2, <2>3, MoveTyped
<1>11. CASE Project
  <2>1. PICK t \in Txs : t = Head(todo)
    BY <1>0, <1>11 DEF Project
  <2>2. /\ UNCHANGED <<pc, byLoop, polled, result, depth, pendingGov, decided, epoch, calls, overlay, smt,
                       applied, stranded>>
        /\ todo' = Tail(todo) /\ todo # << >>
    BY <1>11 DEF Project, handlerVars, ledgerVars
  <2>3. tracker' \in SUBSET Proposals
    <3>1. \/ tracker' = tracker
          \/ t \in Proposals /\ tracker' = tracker \cup {t}
          \/ tracker' = tracker \ {about[t]}
      BY <1>11, <2>1 DEF Project
    <3> QED
      BY <3>1 DEF Typed, Service
  <2>4. registry' \in Registrations \cup {None}
    BY <1>11, <2>1 DEF Project, Typed, Service
  <2>5. todo' \in Seq(Txs)
    BY <1>0, <2>2
  <2>6. Values' /\ Service'
    BY <2>2, <2>3, <2>4 DEF Typed, Values, ValuesAt, Service
  <2> QED
    BY <1>0, <2>2, <2>5, <2>6, MoveTyped
<1>12. CASE Restart
  <2>1. /\ UNCHANGED <<result, depth, smt, applied>> /\ epoch < MaxRestarts /\ epoch' = epoch + 1
        /\ stranded' = stranded \cup ((dag \cup Unstored) \cap Proposals)
        /\ todo' = << >> /\ overlay' = << >> /\ tracker' = {} /\ decided' = [p \in Proposals |-> None]
        /\ registry' = ReplayedRegistry
        /\ pendingGov' = [p \in Proposals |-> IF p \in Replayed THEN epoch' ELSE None]
        /\ calls' = calls \cup {<<p, epoch'>> : p \in Replayed}
        /\ pc' = [t \in Txs |-> IF pc[t] = "submitted" THEN "done" ELSE pc[t]]
        /\ byLoop' = None /\ polled' = {}
    BY <1>12 DEF Restart
  <2>2. epoch \in 0 .. MaxRestarts /\ epoch' \in 0 .. MaxRestarts /\ 0 .. epoch \subseteq 0 .. epoch'
        /\ epoch' \in 0 .. epoch'
    BY <2>1, GovernanceAssumption DEF Typed, Service
  <2>3. registry' \in Registrations \cup {None}
    BY <2>1 DEF ReplayedRegistry
  <2>4. Replayed \subseteq Proposals
    BY DEF Replayed
  <2>5. pendingGov' \in [Proposals -> (0 .. epoch') \cup {None}]
    BY <2>1, <2>2
  <2>6. calls' \in SUBSET (Proposals \X (0 .. epoch'))
    <3>1. calls \in SUBSET (Proposals \X (0 .. epoch))
      BY DEF Typed, Service
    <3>2. Proposals \X (0 .. epoch) \subseteq Proposals \X (0 .. epoch')
      BY <2>2
    <3>3. \A p \in Replayed : <<p, epoch'>> \in Proposals \X (0 .. epoch')
      BY <2>2, <2>4
    <3> QED
      BY <2>1, <3>1, <3>2, <3>3
  <2>7. /\ decided' \in [Proposals -> {"approved", "rejected", None}] /\ applied' \in SUBSET Txs
        /\ tracker' \in SUBSET Proposals /\ stranded' \in SUBSET Proposals
        /\ byLoop' \in Decisions \cup {None} /\ polled' \in SUBSET Proposals
    BY <2>1 DEF Typed, Service
  <2>8. Service'
    BY <2>2, <2>3, <2>5, <2>6, <2>7 DEF Service
  <2>9. Values'
    BY <2>1 DEF Typed, Values, ValuesAt
  <2>10. /\ pc' \in [Txs -> {"start", "submitted", "done"}]
         /\ \A s \in Txs : pc'[s] = "start" <=> pc[s] = "start"
         /\ todo' \in Seq(Txs) /\ overlay' \in Seq(Staged)
    BY <1>0, <2>1
  <2> QED
    BY <2>1, <2>8, <2>9, <2>10, MoveTyped
<1>13. ASSUME NEW t \in Txs, pc[t] = "submitted", pc' = [pc EXCEPT ![t] = "done"],
              overlay' = Append(overlay, t), UNCHANGED <<result, depth, smt, todo>>, Service'
       PROVE  Typed'
  <2>1. t \in Staged
    BY <1>13 DEF Staged
  <2>2. overlay' \in Seq(Staged)
    BY <1>0, <1>13, <2>1
  <2>3. /\ pc' \in [Txs -> {"start", "submitted", "done"}]
        /\ \A s \in Txs : pc'[s] = "start" <=> pc[s] = "start"
    BY <1>0, <1>13
  <2>4. Values' /\ todo' \in Seq(Txs)
    BY <1>0, <1>13 DEF Values, ValuesAt
  <2> QED
    BY <1>13, <2>2, <2>3, <2>4, MoveTyped
<1>14. ASSUME NEW p \in Proposals, SettlePropose(p) PROVE Typed'
  <2>1. Service'
    <3>1. /\ pendingGov' = [pendingGov EXCEPT ![p] = epoch] /\ calls' = calls \cup {<<p, epoch>>}
          /\ UNCHANGED <<byLoop, polled, decided, epoch, applied, tracker, stranded, registry>>
      BY <1>14 DEF SettlePropose, ledgerVars
    <3>2. epoch \in 0 .. epoch
      BY DEF Typed, Service
    <3> QED
      BY <3>1, <3>2 DEF Typed, Service
  <2> QED
    BY <1>13, <1>14, <2>1 DEF SettlePropose, ledgerVars
<1>15. ASSUME NEW d \in Decisions, SettleExecute(d) PROVE Typed'
  <2>1. pc[d] = "submitted"
    BY <1>15 DEF SettleExecute
  <2>2. Shaped(d)
    BY <2>1 DEF Base, Known
  <2>3. about[d] \in Proposals /\ \E a \in BOOLEAN : \E now : result[d] = ExecuteResult(about[d], a, now)
    BY <2>2 DEF Shaped
  <2>4. PICK a \in BOOLEAN : \E now : result[d] = ExecuteResult(about[d], a, now)
    BY <2>3
  <2>5. PICK now : result[d] = ExecuteResult(about[d], a, now)
    BY <2>4
  <2>6. result[d].changes[1].new \in {"approved", "rejected"}
    BY <2>5 DEF ExecuteResult, Change
  <2>7. Service'
    BY <1>15, <2>3, <2>6 DEF SettleExecute, ledgerVars, Typed, Service
  <2> QED
    BY <1>13, <1>15, <2>7 DEF SettleExecute, ledgerVars
<1>16. ASSUME NEW g \in Registrations, SettleRegister(g) PROVE Typed'
  <2>1. Service'
    BY <1>16 DEF SettleRegister, ledgerVars, Typed, Service
  <2> QED
    BY <1>13, <1>16, <2>1 DEF SettleRegister, ledgerVars
<1>17. CASE (\E p \in Proposals : PollNothing(p)) \/ PollTick \/ UNCHANGED vars
  <2>1. /\ UNCHANGED <<pc, result, depth, pendingGov, decided, epoch, calls, overlay, tracker, registry, smt,
                       applied, stranded, todo, byLoop>>
        /\ polled' \in SUBSET Proposals
    BY <1>0, <1>17 DEF PollNothing, PollTick, vars, handlerVars, serviceVars, ledgerVars
  <2>2. Service' /\ Values'
    BY <2>1 DEF Typed, Service, Values, ValuesAt
  <2> QED
    BY <1>0, <2>1, <2>2, MoveTyped
<1> QED
  BY <1>1, <1>2, <1>5, <1>6, <1>7, <1>8, <1>9, <1>10, <1>11, <1>12, <1>14, <1>15, <1>16, <1>17
     DEF Next

\* The state of governance has its type: every result is one of a handler, the
\* parameters stay parameters although decisions read them through the overlay,
\* tokens are of this start or an earlier one, and what a handler has not made
\* has no result and no depth.
THEOREM GovernanceTypeCorrect == Spec => []TypeOK
<1>1. Base /\ Typed /\ [Next]_vars => Typed'
  BY NextTyped
<1> QED
  BY <1>1, InitTyped, TypedMeans, BaseInvariant, PTL DEF Spec

-----------------------------------------------------------------------------
(* Governance implements ProposalBook.                                     *)

\* The parameters of the book.
Params == IF smt[Resource] = None THEN {} ELSE smt[Resource]

\* One status changes and the others stay.
LEMMA StatusChange ==
    ASSUME NEW q \in Proposals, \A p \in Proposals \ {q} : smt'[p] = smt[p]
    PROVE  [p \in Proposals |-> smt'[p]] = [[p \in Proposals |-> smt[p]] EXCEPT ![q] = smt'[q]]
  OBVIOUS

\* A Propose event that becomes final opens its proposal, or does nothing.
LEMMA OpenBook ==
    ASSUME Base, NEW q \in Proposals, q \in dag, smt' = ApplyOne(smt, result[q])
    PROVE  Book!Open(q) \/ UNCHANGED Book!bookVars
<1>0. q # Resource /\ q # Param /\ q # Subnet
  BY KeysSplit
<1>1. /\ \A k \in Keys \ {q} : smt'[k] = smt[k]
      /\ smt'[q] = IF smt[q] = None THEN "pending" ELSE smt[q]
  BY FinalizePropose
<1>2. smt'[Resource] = smt[Resource] /\ smt'[Param] = smt[Param] /\ smt'[Subnet] = smt[Subnet]
  BY <1>0, <1>1, KeysSplit
<1>3. \A p \in Proposals \ {q} : smt'[p] = smt[p]
  BY <1>1, KeysSplit
<1>4. [p \in Proposals |-> smt'[p]] = [[p \in Proposals |-> smt[p]] EXCEPT ![q] = smt'[q]]
  BY <1>3, StatusChange
<1>5. CASE smt[q] = None
  BY <1>1, <1>2, <1>4, <1>5 DEF Book!Open
<1>6. CASE smt[q] # None
  <2>1. [p \in Proposals |-> smt'[p]] = [p \in Proposals |-> smt[p]]
    BY <1>1, <1>3, <1>6
  <2> QED
    BY <1>2, <2>1 DEF Book!bookVars
<1> QED
  BY <1>5, <1>6

\* A registration that becomes final is enrolled, or does nothing.
LEMMA EnrollBook ==
    ASSUME Base, NEW g \in Registrations, g \in dag, smt' = ApplyOne(smt, result[g])
    PROVE  Book!Enroll(g) \/ UNCHANGED Book!bookVars
<1>1. \A k \in Keys \ {Subnet} : smt'[k] = smt[k]
  BY FinalizeRegister
<1>2. /\ smt'[Resource] = smt[Resource] /\ smt'[Param] = smt[Param]
      /\ \A p \in Proposals : smt'[p] = smt[p]
  BY <1>1, KeysSplit
<1>3. [p \in Proposals |-> smt'[p]] = [p \in Proposals |-> smt[p]]
  BY <1>2
<1>4. smt'[Subnet] \in {g, smt[Subnet]}
  <2>1. g \notin Proposals
    BY TxsSplit
  <2>2. PICK took \in BOOLEAN : took <=> Verdict(smt, result[g]) = "applied"
    OBVIOUS
  <2>3. smt'[Subnet] = IF took /\ g \in Registrations THEN g ELSE smt[Subnet]
    BY <2>1, <2>2, FinalizeMeans
  <2> QED
    BY <2>3
<1> QED
  BY <1>2, <1>3, <1>4 DEF Book!Enroll, Book!bookVars

\* An Execute event that becomes final approves or rejects the proposal it is
\* about, with the effect, or does nothing.
LEMMA DecideBook ==
    ASSUME Base, EffectsMatchVerdicts, NEW d \in Decisions, d \in dag, smt' = ApplyOne(smt, result[d])
    PROVE  \/ \E p \in Proposals : Book!Approve(p) \/ Book!Reject(p)
           \/ UNCHANGED Book!bookVars
<1>1. PICK q \in Proposals :
        \/ smt' = smt
        \/ /\ smt[q] = "pending" /\ smt'[q] = "rejected"
           /\ \A k \in Keys \ {q} : smt'[k] = smt[k]
        \/ /\ smt[q] = "pending" /\ smt'[q] = "approved"
           /\ Effect[q] = Resource => /\ smt'[Resource] = With(smt[Resource], q)
                                      /\ smt'[Param] = smt[Param]
           /\ Effect[q] = Param => /\ smt[Param] = None /\ smt'[Param] = q
                                   /\ smt'[Resource] = smt[Resource]
           /\ \A k \in Keys \ {q, Resource, Param} : smt'[k] = smt[k]
  BY FinalizeExecute
<1>2. CASE smt' = smt
  BY <1>2 DEF Book!bookVars
<1>3. CASE /\ smt[q] = "pending" /\ smt'[q] = "rejected"
           /\ \A k \in Keys \ {q} : smt'[k] = smt[k]
  <2>1. /\ smt'[Resource] = smt[Resource] /\ smt'[Param] = smt[Param] /\ smt'[Subnet] = smt[Subnet]
        /\ \A p \in Proposals \ {q} : smt'[p] = smt[p]
    BY <1>3, KeysSplit
  <2>2. [p \in Proposals |-> smt'[p]] = [[p \in Proposals |-> smt[p]] EXCEPT ![q] = smt'[q]]
    BY <2>1, StatusChange
  <2>3. Book!Reject(q)
    BY <1>3, <2>1, <2>2 DEF Book!Reject
  <2> QED
    BY <2>3
<1>4. CASE /\ smt[q] = "pending" /\ smt'[q] = "approved"
           /\ Effect[q] = Resource => /\ smt'[Resource] = With(smt[Resource], q)
                                      /\ smt'[Param] = smt[Param]
           /\ Effect[q] = Param => /\ smt[Param] = None /\ smt'[Param] = q
                                   /\ smt'[Resource] = smt[Resource]
           /\ \A k \in Keys \ {q, Resource, Param} : smt'[k] = smt[k]
  <2>1. smt'[Subnet] = smt[Subnet] /\ \A p \in Proposals \ {q} : smt'[p] = smt[p]
    BY <1>4, KeysSplit
  <2>2. [p \in Proposals |-> smt'[p]] = [[p \in Proposals |-> smt[p]] EXCEPT ![q] = smt'[q]]
    BY <2>1, StatusChange
  <2>3. CASE Effect[q] = Resource
    <3>1. Params' = Params \cup {q}
      <4>1. smt'[Resource] = Params \cup {q}
        BY <1>4, <2>3 DEF Params, With
      <4>2. Params \in SUBSET Proposals
        BY EffectsByName DEF Params, ApprovedFor
      <4>3. smt'[Resource] # None
        BY <4>1, <4>2, KeysSplit
      <4> QED
        BY <4>1, <4>3 DEF Params
    <3>2. Book!Approve(q)
      BY <1>4, <2>1, <2>2, <2>3, <3>1 DEF Book!Approve, Params
    <3> QED
      BY <3>2
  <2>4. CASE Effect[q] = Param
    <3>1. Effect[q] # Resource
      BY <2>4, KeysSplit
    <3>2. Book!Approve(q)
      BY <1>4, <2>1, <2>2, <2>4, <3>1 DEF Book!Approve
    <3> QED
      BY <3>2
  <2> QED
    BY <2>3, <2>4, KeysSplit
<1> QED
  BY <1>1, <1>2, <1>3, <1>4

\* Every step of governance is a step of the book or none.
LEMMA StepBook == Base /\ EffectsMatchVerdicts /\ [Next]_vars => [Book!Next]_(Book!bookVars)
<1> SUFFICES ASSUME Base, EffectsMatchVerdicts, [Next]_vars
             PROVE  Book!Next \/ UNCHANGED Book!bookVars
  OBVIOUS
<1>1. CASE \A t \in Txs : ~Finalize(t)
  <2>1. smt' = smt
    BY <1>1, OnlyFinalize
  <2> QED
    BY <2>1 DEF Book!bookVars
<1>2. ASSUME NEW t \in Txs, Finalize(t) PROVE Book!Next \/ UNCHANGED Book!bookVars
  <2>1. t \in dag /\ smt' = ApplyOne(smt, result[t])
    BY <1>2 DEF Finalize
  <2>2. CASE t \in Proposals
    <3>1. Book!Open(t) \/ UNCHANGED Book!bookVars
      BY <2>1, <2>2, OpenBook
    <3> QED
      BY <2>2, <3>1 DEF Book!Next
  <2>3. CASE t \in Registrations
    <3>1. Book!Enroll(t) \/ UNCHANGED Book!bookVars
      BY <2>1, <2>3, EnrollBook
    <3> QED
      BY <2>3, <3>1 DEF Book!Next
  <2>4. CASE t \in Decisions
    <3>1. \/ \E p \in Proposals : Book!Approve(p) \/ Book!Reject(p)
          \/ UNCHANGED Book!bookVars
      BY <2>1, <2>4, DecideBook
    <3> QED
      BY <3>1 DEF Book!Next
  <2> QED
    BY <2>2, <2>3, <2>4, GovernanceAssumption
<1> QED
  BY <1>1, <1>2

\* Governance implements ProposalBook: for any number of proposals, decisions,
\* registrations and restarts the finalized state moves by opening, approving
\* with the effect, rejecting and enrolling, one proposal at a time, although
\* Execute events are made from stale reads, several for one proposal, lost in
\* a crash and delivered again.
THEOREM GovernanceImplementsBook == Spec => ImplementsBook
<1>1. Init => Book!Init
  <2> SUFFICES ASSUME Init PROVE Book!Init
    OBVIOUS
  <2>1. smt[Resource] = None /\ smt[Param] = None /\ smt[Subnet] = None
        /\ \A p \in Proposals : smt[p] = None
    BY KeysSplit DEF Init
  <2> QED
    BY <2>1 DEF Book!Init
<1> QED
  BY <1>1, InitEffects, EffectsStep, StepBook, BaseInvariant, PTL DEF Spec, ImplementsBook, Book!Spec
=============================================================================
