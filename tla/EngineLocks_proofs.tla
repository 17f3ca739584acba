------------------------- MODULE EngineLocks_proofs -------------------------
(***************************************************************************)
(* Proofs about EngineLocks, for any number of tasks: the locks are typed  *)
(* and a writer is alone, and the methods other than receive_cf and        *)
(* receive_finalized_cf never wait for one another, because they take vlc, *)
(* the manager and the DAG in this order.                                  *)
(***************************************************************************)
EXTENDS EngineLocks, SequenceTheorems, TLAPS

-----------------------------------------------------------------------------
(* Lock order.  A sequence of lock steps leads from the locks held before  *)
(* it to the locks held after it.                                          *)

Rank(l) == IF l = "vlc" THEN 1 ELSE IF l = "manager" THEN 2 ELSE 3

\* A step that keeps to the order: a lock is asked for above all that are held.
Legal(s, A, B) ==
    \/ s.op = "drop" /\ s.lock \in A /\ B = A \ {s.lock}
    \/ s.op # "drop" /\ (\A l \in A : Rank(l) < Rank(s.lock)) /\ B = A \cup {s.lock}

Leads(p, A, B) ==
    /\ p \in Seq(Step)
    /\ \E h \in [0 .. Len(p) -> SUBSET Locks] :
           /\ h[0] = A /\ h[Len(p)] = B
           /\ \A i \in 1 .. Len(p) : Legal(p[i], h[i - 1], h[i])

\* No step leads nowhere.
LEMMA LeadsNowhere ==
    ASSUME NEW A \in SUBSET Locks
    PROVE  Leads(<< >>, A, A)
<1>1. PICK h : h = [i \in 0 .. 0 |-> A]
  OBVIOUS
<1>2. << >> \in Seq(Step) /\ Len(<< >>) = 0
  OBVIOUS
<1>3. h \in [0 .. 0 -> SUBSET Locks] /\ h[0] = A
  BY <1>1
<1> QED
  BY <1>2, <1>3 DEF Leads

\* One legal step.
LEMMA LeadsByOne ==
    ASSUME NEW s \in Step, NEW A \in SUBSET Locks, NEW B \in SUBSET Locks, Legal(s, A, B)
    PROVE  Leads(<<s>>, A, B)
<1>1. PICK h : h = [i \in 0 .. 1 |-> IF i = 0 THEN A ELSE B]
  OBVIOUS
<1>2. <<s>> \in Seq(Step) /\ Len(<<s>>) = 1 /\ <<s>>[1] = s
  OBVIOUS
<1>3. h \in [0 .. 1 -> SUBSET Locks] /\ h[0] = A /\ h[1] = B
  BY <1>1
<1>4. \A i \in 1 .. 1 : Legal(<<s>>[i], h[i - 1], h[i])
  BY <1>2, <1>3
<1> QED
  BY <1>2, <1>3, <1>4 DEF Leads

\* One sequence after the other.
LEMMA LeadsOn ==
    ASSUME NEW p, NEW q, NEW A, NEW B, NEW C, Leads(p, A, B), Leads(q, B, C)
    PROVE  Leads(p \o q, A, C)
<1>0. p \in Seq(Step) /\ q \in Seq(Step) /\ Len(p) \in Nat /\ Len(q) \in Nat
  BY DEF Leads
<1>1. PICK f \in [0 .. Len(p) -> SUBSET Locks] :
           /\ f[0] = A /\ f[Len(p)] = B
           /\ \A i \in 1 .. Len(p) : Legal(p[i], f[i - 1], f[i])
  BY DEF Leads
<1>2. PICK g \in [0 .. Len(q) -> SUBSET Locks] :
           /\ g[0] = B /\ g[Len(q)] = C
           /\ \A i \in 1 .. Len(q) : Legal(q[i], g[i - 1], g[i])
  BY DEF Leads
<1>3. PICK r : r = p \o q
  OBVIOUS
<1>4. /\ r \in Seq(Step) /\ Len(r) = Len(p) + Len(q)
      /\ \A i \in 1 .. Len(r) : r[i] = IF i <= Len(p) THEN p[i] ELSE q[i - Len(p)]
  BY <1>0, <1>3
<1>5. PICK h : h = [i \in 0 .. Len(r) |-> IF i <= Len(p) THEN f[i] ELSE g[i - Len(p)]]
  OBVIOUS
<1>6. h \in [0 .. Len(r) -> SUBSET Locks]
  BY <1>0, <1>1, <1>2, <1>4, <1>5
<1>7. h[0] = A /\ h[Len(r)] = C
  BY <1>0, <1>1, <1>2, <1>4, <1>5
<1>8. ASSUME NEW i \in 1 .. Len(r) PROVE Legal(r[i], h[i - 1], h[i])
  <2>1. CASE i <= Len(p)
    <3>1. i \in 1 .. Len(p) /\ r[i] = p[i] /\ h[i - 1] = f[i - 1] /\ h[i] = f[i]
      BY <1>0, <1>4, <1>5, <1>8, <2>1
    <3> QED
      BY <1>1, <3>1
  <2>2. CASE i > Len(p)
    <3>1. PICK j : j = i - Len(p)
      OBVIOUS
    <3>2. j \in 1 .. Len(q) /\ r[i] = q[j] /\ h[i] = g[j]
      BY <1>0, <1>4, <1>5, <1>8, <2>2, <3>1
    <3>3. h[i - 1] = g[j - 1]
      <4>1. CASE j = 1
        <5>1. i - 1 = Len(p) /\ j - 1 = 0 /\ Len(p) \in 0 .. Len(r)
          BY <1>0, <1>4, <1>8, <3>1, <4>1
        <5>2. h[Len(p)] = f[Len(p)]
          BY <1>0, <1>5, <5>1
        <5> QED
          BY <1>1, <1>2, <5>1, <5>2
      <4>2. CASE j # 1
        <5>1. i - 1 \in 0 .. Len(r) /\ ~(i - 1 <= Len(p)) /\ (i - 1) - Len(p) = j - 1
          BY <1>0, <1>4, <1>8, <2>2, <3>1, <3>2, <4>2
        <5> QED
          BY <1>5, <5>1
      <4> QED
        BY <4>1, <4>2
    <3> QED
      BY <1>2, <3>2, <3>3
  <2> QED
    BY <1>0, <1>4, <1>8, <2>1, <2>2
<1> QED
  BY <1>3, <1>4, <1>6, <1>7, <1>8 DEF Leads

\* The first step is taken.
LEMMA LeadsFirst ==
    ASSUME NEW p, NEW A, NEW B, Leads(p, A, B), p # << >>
    PROVE  \E C \in SUBSET Locks : Legal(Head(p), A, C) /\ Leads(Tail(p), C, B)
<1>0. p \in Seq(Step) /\ Len(p) \in Nat /\ Len(p) > 0 /\ Head(p) = p[1]
  BY DEF Leads
<1>1. PICK f \in [0 .. Len(p) -> SUBSET Locks] :
           /\ f[0] = A /\ f[Len(p)] = B
           /\ \A i \in 1 .. Len(p) : Legal(p[i], f[i - 1], f[i])
  BY DEF Leads
<1>2. PICK r : r = Tail(p)
  OBVIOUS
<1>3. r \in Seq(Step) /\ Len(r) = Len(p) - 1 /\ \A i \in 1 .. Len(r) : r[i] = p[i + 1]
  BY <1>0, <1>2
<1>4. PICK h : h = [i \in 0 .. Len(r) |-> f[i + 1]]
  OBVIOUS
<1>5. h \in [0 .. Len(r) -> SUBSET Locks] /\ h[0] = f[1] /\ h[Len(r)] = B
  BY <1>0, <1>1, <1>3, <1>4
<1>6. ASSUME NEW i \in 1 .. Len(r) PROVE Legal(r[i], h[i - 1], h[i])
  <2>1. PICK j : j = i + 1
    OBVIOUS
  <2>2. j \in 1 .. Len(p) /\ r[i] = p[j] /\ h[i - 1] = f[j - 1] /\ h[i] = f[j]
    BY <1>0, <1>3, <1>4, <1>6, <2>1
  <2> QED
    BY <1>1, <2>2
<1>7. Leads(r, f[1], B)
  BY <1>3, <1>5, <1>6 DEF Leads
<1>8. Legal(p[1], f[0], f[1]) /\ f[1] \in SUBSET Locks
  BY <1>0, <1>1
<1> QED
  BY <1>0, <1>1, <1>2, <1>7, <1>8

\* No step is left only where nothing is held after it.
LEMMA LeadsEmpty ==
    ASSUME NEW A, NEW B, Leads(<< >>, A, B)
    PROVE  A = B
BY DEF Leads

-----------------------------------------------------------------------------
(* The methods keep the order.                                             *)

\* A lock held within one block, above all that are held.
LEMMA LeadsBlock ==
    ASSUME NEW l \in Locks, NEW A \in SUBSET Locks, \A k \in A : Rank(k) < Rank(l)
    PROVE  Leads(Reading(l), A, A) /\ Leads(Writing(l), A, A)
<1>1. Rank(l) \in Nat /\ l \notin A
  BY DEF Rank
<1>2. A \cup {l} \in SUBSET Locks
  OBVIOUS
<1>3. Leads(<<Read(l)>>, A, A \cup {l})
  <2>1. Read(l) \in Step /\ Legal(Read(l), A, A \cup {l})
    BY DEF Read, Step, Legal
  <2> QED
    BY <1>2, <2>1, LeadsByOne
<1>4. Leads(<<TakeWrite(l)>>, A, A \cup {l})
  <2>1. TakeWrite(l) \in Step /\ Legal(TakeWrite(l), A, A \cup {l})
    BY DEF TakeWrite, Step, Legal
  <2> QED
    BY <1>2, <2>1, LeadsByOne
<1>5. Leads(<<Drop(l)>>, A \cup {l}, A)
  <2>1. Drop(l) \in Step /\ Legal(Drop(l), A \cup {l}, A)
    BY <1>1 DEF Drop, Step, Legal
  <2> QED
    BY <1>2, <2>1, LeadsByOne
<1>6. Reading(l) = <<Read(l)>> \o <<Drop(l)>> /\ Writing(l) = <<TakeWrite(l)>> \o <<Drop(l)>>
  BY DEF Reading, Writing
<1> QED
  BY <1>3, <1>4, <1>5, <1>6, LeadsOn

\* A pair, one element after the other.
LEMMA PairIs ==
    ASSUME NEW a, NEW b
    PROVE  <<a, b>> = <<a>> \o <<b>>
<1>1. PICK S : S = {a, b}
  OBVIOUS
<1>2. PICK p, q, r : p = <<a>> /\ q = <<b>> /\ r = <<a, b>>
  OBVIOUS
<1>3. p \in Seq(S) /\ q \in Seq(S) /\ r \in Seq(S)
  BY <1>1, <1>2
<1>4. Len(p) = 1 /\ Len(q) = 1 /\ Len(r) = 2 /\ p[1] = a /\ q[1] = b /\ r[1] = a /\ r[2] = b
  BY <1>2
<1>5. PICK c : c = p \o q
  OBVIOUS
<1>6. c \in Seq(S)
  BY <1>3, <1>5
<1>7. Len(c) = 2 /\ c[1] = p[1] /\ c[2] = q[1]
  <2>1. Len(c) = 2 /\ \A i \in 1 .. 2 : c[i] = IF i <= 1 THEN p[i] ELSE q[i - 1]
    BY <1>3, <1>4, <1>5, ConcatProperties
  <2>2. c[1] = p[1] /\ c[2] = q[2 - 1] /\ 2 - 1 = 1
    BY <2>1
  <2> QED
    BY <2>1, <2>2
<1>8. \A i \in 1 .. Len(r) : r[i] = c[i]
  BY <1>4, <1>7
<1>9. r = c
  BY <1>3, <1>4, <1>6, <1>7, <1>8, SeqEqual
<1> QED
  BY <1>2, <1>5, <1>9

\* try_create_cf holds vlc and the manager while it takes the DAG.
LEMMA LeadsTryCreateCf ==
    ASSUME NEW finalizes \in BOOLEAN
    PROVE  Leads(TryCreateCf(finalizes), {}, {})
<1> DEFINE Inner == IF finalizes THEN Writing("dag") ELSE << >>
<1>0. Rank("vlc") = 1 /\ Rank("manager") = 2 /\ Rank("dag") = 3
  BY DEF Rank
<1>1. Leads(<<Read("vlc")>>, {}, {"vlc"})
  <2>1. Read("vlc") \in Step /\ Legal(Read("vlc"), {}, {"vlc"})
    BY DEF Read, Step, Legal, Locks
  <2> QED
    BY <2>1, LeadsByOne DEF Locks
<1>2. Leads(<<TakeWrite("manager")>>, {"vlc"}, {"vlc", "manager"})
  <2>1. TakeWrite("manager") \in Step /\ Legal(TakeWrite("manager"), {"vlc"}, {"vlc", "manager"})
    BY <1>0 DEF TakeWrite, Step, Legal, Locks
  <2> QED
    BY <2>1, LeadsByOne DEF Locks
<1>3. \A k \in {"vlc", "manager"} : Rank(k) < Rank("dag")
  BY <1>0
<1>4. Leads(Reading("dag"), {"vlc", "manager"}, {"vlc", "manager"})
  BY <1>3, LeadsBlock DEF Locks
<1>5. Leads(Inner, {"vlc", "manager"}, {"vlc", "manager"})
  BY <1>3, LeadsBlock, LeadsNowhere DEF Locks
<1>6. Leads(<<Drop("manager")>>, {"vlc", "manager"}, {"vlc"})
  <2>1. Drop("manager") \in Step /\ Legal(Drop("manager"), {"vlc", "manager"}, {"vlc"})
    BY DEF Drop, Step, Legal, Locks
  <2> QED
    BY <2>1, LeadsByOne DEF Locks
<1>7. Leads(<<Drop("vlc")>>, {"vlc"}, {})
  <2>1. Drop("vlc") \in Step /\ Legal(Drop("vlc"), {"vlc"}, {})
    BY DEF Drop, Step, Legal, Locks
  <2> QED
    BY <2>1, LeadsByOne DEF Locks
<1>8. /\ <<Read("vlc"), TakeWrite("manager")>> = <<Read("vlc")>> \o <<TakeWrite("manager")>>
      /\ <<Drop("manager"), Drop("vlc")>> = <<Drop("manager")>> \o <<Drop("vlc")>>
  BY PairIs
<1>9. TryCreateCf(finalizes) =
        <<Read("vlc"), TakeWrite("manager")>> \o Reading("dag") \o Inner
            \o <<Drop("manager"), Drop("vlc")>>
  BY DEF TryCreateCf
<1> HIDE DEF Inner
<1>10. Leads(<<Read("vlc"), TakeWrite("manager")>>, {}, {"vlc", "manager"})
  BY <1>1, <1>2, <1>8, LeadsOn, ZenonT(60)
<1>11. Leads(<<Read("vlc"), TakeWrite("manager")>> \o Reading("dag"), {}, {"vlc", "manager"})
  BY <1>4, <1>10, LeadsOn
<1>12. Leads(<<Read("vlc"), TakeWrite("manager")>> \o Reading("dag") \o Inner,
             {}, {"vlc", "manager"})
  BY <1>5, <1>11, LeadsOn
<1>13. Leads(<<Drop("manager"), Drop("vlc")>>, {"vlc", "manager"}, {})
  BY <1>6, <1>7, <1>8, LeadsOn
<1> QED
  BY <1>9, <1>12, <1>13, LeadsOn

\* add_event and receive_event_from_network.
LEMMA LeadsAddEvent ==
    ASSUME NEW finalizes \in BOOLEAN
    PROVE  Leads(AddEvent(finalizes), {}, {})
<1>1. Leads(Writing("vlc"), {}, {}) /\ Leads(Reading("dag"), {}, {}) /\ Leads(Writing("dag"), {}, {})
  BY LeadsBlock DEF Locks
<1>2. Leads(Writing("vlc") \o Reading("dag"), {}, {})
  BY <1>1, LeadsOn
<1>3. Leads(Writing("vlc") \o Reading("dag") \o Writing("dag"), {}, {})
  BY <1>1, <1>2, LeadsOn
<1> QED
  BY <1>3, LeadsTryCreateCf, LeadsOn DEF AddEvent

\* receive_vote takes the DAG while it holds the manager.
LEMMA LeadsReceiveVote ==
    ASSUME NEW finalizes \in BOOLEAN
    PROVE  Leads(ReceiveVote(finalizes), {}, {})
<1> DEFINE Inner == IF finalizes THEN Writing("dag") ELSE << >>
<1>1. Leads(<<TakeWrite("manager")>>, {}, {"manager"})
  <2>1. TakeWrite("manager") \in Step /\ Legal(TakeWrite("manager"), {}, {"manager"})
    BY DEF TakeWrite, Step, Legal, Locks
  <2> QED
    BY <2>1, LeadsByOne DEF Locks
<1>2. Leads(Inner, {"manager"}, {"manager"})
  <2>1. \A k \in {"manager"} : Rank(k) < Rank("dag")
    BY DEF Rank
  <2> QED
    BY <2>1, LeadsBlock, LeadsNowhere DEF Locks
<1>3. Leads(<<Drop("manager")>>, {"manager"}, {})
  <2>1. Drop("manager") \in Step /\ Legal(Drop("manager"), {"manager"}, {})
    BY DEF Drop, Step, Legal, Locks
  <2> QED
    BY <2>1, LeadsByOne DEF Locks
<1>4. ReceiveVote(finalizes) = <<TakeWrite("manager")>> \o Inner \o <<Drop("manager")>>
  BY DEF ReceiveVote
<1> HIDE DEF Inner
<1>5. Leads(<<TakeWrite("manager")>> \o Inner, {}, {"manager"})
  BY <1>1, <1>2, LeadsOn
<1> QED
  BY <1>3, <1>4, <1>5, LeadsOn

\* Every method but the two that receive CFs keeps the order, and holds nothing
\* before and after it.
LEMMA ScriptsKeepOrder ==
    ASSUME NEW m \in Methods \ CfMethods
    PROVE  Leads(Script(m), {}, {})
<1>1. Leads(Reading("dag"), {}, {}) /\ Leads(Writing("dag"), {}, {}) /\ Leads(Writing("manager"), {}, {})
  BY LeadsBlock DEF Locks
<1>2. Leads(Reading("dag") \o Writing("manager"), {}, {})
  BY <1>1, LeadsOn
<1>3. Leads(Reading("dag") \o Writing("manager") \o Writing("dag"), {}, {})
  BY <1>1, <1>2, LeadsOn
<1>4. Leads(Reading("dag") \o Writing("manager") \o Writing("dag") \o Reading("dag"), {}, {})
  BY <1>1, <1>3, LeadsOn
<1>5. Leads(Persist, {}, {})
  BY <1>1, <1>4, LeadsOn DEF Persist
<1>6. Leads(RunPeriodicMaintenance, {}, {})
  BY <1>1 DEF RunPeriodicMaintenance
<1> QED
  BY <1>5, <1>6, LeadsTryCreateCf, LeadsAddEvent, LeadsReceiveVote DEF Script, Methods, CfMethods

\* Every method is a sequence of lock steps.
LEMMA ScriptsAreSteps ==
    ASSUME NEW m \in Methods
    PROVE  Script(m) \in Seq(Step)
<1>0. "dag" \in Locks /\ "manager" \in Locks
  BY DEF Locks
<1>1. ASSUME NEW l \in Locks
      PROVE  /\ Read(l) \in Step /\ TakeWrite(l) \in Step /\ Drop(l) \in Step
             /\ Reading(l) \in Seq(Step) /\ Writing(l) \in Seq(Step)
  BY DEF Read, TakeWrite, Drop, Step, Reading, Writing
<1>2. ASSUME NEW p \in Seq(Step), NEW q \in Seq(Step) PROVE p \o q \in Seq(Step)
  OBVIOUS
<1>3. ASSUME NEW finalizes \in BOOLEAN, NEW fetches \in BOOLEAN
      PROVE  ReceiveCf(fetches, finalizes) \in Seq(Step)
  <2>1. EnsureCfEvents(fetches) \in Seq(Step)
    BY <1>1 DEF EnsureCfEvents, Locks
  <2>2. (IF finalizes THEN Writing("dag") ELSE << >>) \in Seq(Step)
    BY <1>0, <1>1
  <2>3. <<Read("dag"), TakeWrite("manager"), Drop("dag")>> \in Seq(Step) /\ <<Drop("manager")>> \in Seq(Step)
    BY <1>0, <1>1
  <2> QED
    BY <1>0, <1>1, <2>1, <2>2, <2>3 DEF ReceiveCf
<1>4. CASE m \notin CfMethods
  BY <1>4, ScriptsKeepOrder DEF Leads
<1>5. CASE m \in CfMethods
  BY <1>3, <1>5 DEF Script, CfMethods
<1> QED
  BY <1>4, <1>5

-----------------------------------------------------------------------------
(* The queues.                                                             *)

\* A waiting request is the next step of its task.
Matches(l, r) == Busy(r.task) /\ Head(todo[r.task]) = [op |-> r.op, lock |-> l]

\* The type invariant, and: a task waits in one place, for its next step.
Queued ==
    /\ TypeOK
    /\ \A l \in Locks : \A k \in 1 .. Len(queue[l]) : Matches(l, queue[l][k])
    /\ \A l \in Locks : \A j, k \in 1 .. Len(queue[l]) :
           queue[l][j].task = queue[l][k].task => j = k

\* It holds initially.
LEMMA InitQueued == Init => Queued
BY DEF Init, Queued, TypeOK, Request

\* A task is idle, or waits, or has a next step of its own.
LEMMA GrantMeans ==
    ASSUME Queued, NEW l \in Locks, Grant(l)
    PROVE  \E r \in Request, t \in Tasks :
             /\ queue[l] # << >> /\ Len(queue[l]) > 0 /\ r = queue[l][1] /\ t = r.task
             /\ Compatible(r, holders[l])
             /\ Busy(t) /\ Head(todo[t]) = [op |-> r.op, lock |-> l]
             /\ holders' = [holders EXCEPT ![l] = @ \cup {r}]
             /\ queue' = [queue EXCEPT ![l] = Tail(@)]
             /\ todo' = [todo EXCEPT ![t] = Tail(@)]
<1>1. queue[l] \in Seq(Request) /\ queue[l] # << >>
  BY DEF Queued, TypeOK, Grant
<1>2. Len(queue[l]) \in Nat /\ Len(queue[l]) > 0 /\ Head(queue[l]) = queue[l][1] /\ queue[l][1] \in Request
  BY <1>1
<1>3. PICK r \in Request : r = queue[l][1]
  BY <1>2
<1>4. PICK t \in Tasks : t = r.task
  BY DEF Request
<1>5. Matches(l, r)
  BY <1>2, <1>3 DEF Queued
<1>6. /\ Compatible(r, holders[l])
      /\ holders' = [holders EXCEPT ![l] = @ \cup {r}]
      /\ queue' = [queue EXCEPT ![l] = Tail(@)]
      /\ todo' = [todo EXCEPT ![t] = Tail(@)]
  BY <1>2, <1>3, <1>4 DEF Grant
<1> QED
  BY <1>1, <1>2, <1>3, <1>4, <1>5, <1>6 DEF Matches

\* Every step keeps it.
LEMMA NextQueued ==
    ASSUME Queued, [Next]_vars
    PROVE  Queued'
<1>0. /\ todo \in [Tasks -> Seq(Step)] /\ queue \in [Locks -> Seq(Request)]
      /\ holders \in [Locks -> SUBSET Request]
  BY DEF Queued, TypeOK
<1>1. CASE UNCHANGED vars
  BY <1>1 DEF vars, Queued, TypeOK, Matches, Busy
<1>2. ASSUME NEW t \in Tasks, NEW m \in MayCall[t], Call(t, m) PROVE Queued'
  <2>1. Script(m) \in Seq(Step)
    BY ScriptsAreSteps, MethodsAssumption
  <2>2. UNCHANGED <<queue, holders>> /\ todo' = [todo EXCEPT ![t] = Script(m)] /\ todo[t] = << >>
    BY <1>2 DEF Call, Busy
  <2>3. TypeOK'
    BY <2>1, <2>2 DEF Queued, TypeOK
  <2>4. ASSUME NEW l \in Locks, NEW k \in 1 .. Len(queue[l]) PROVE Matches(l, queue[l][k])'
    <3>1. Matches(l, queue[l][k])
      BY DEF Queued
    <3>2. queue[l][k].task # t
      BY <2>2, <3>1 DEF Matches, Busy
    <3> QED
      BY <1>0, <2>2, <3>1, <3>2 DEF Matches, Busy
  <2> QED
    BY <2>2, <2>3, <2>4 DEF Queued
<1>3. ASSUME NEW t \in Tasks, Ask(t) PROVE Queued'
  <2>1. PICK s \in Step : s = Head(todo[t])
    BY <1>0, <1>3 DEF Ask, Busy
  <2>2. PICK r : r = [task |-> t, op |-> s.op]
    OBVIOUS
  <2>3. r \in Request /\ s.lock \in Locks /\ s = [op |-> r.op, lock |-> s.lock] /\ r.task = t
    BY <1>3, <2>1, <2>2 DEF Ask, Request, Step
  <2>4. /\ queue' = [queue EXCEPT ![s.lock] = Append(@, r)] /\ UNCHANGED <<todo, holders>>
        /\ Busy(t) /\ ~Waiting(t)
    BY <1>3, <2>1, <2>2 DEF Ask
  <2>5. queue' \in [Locks -> Seq(Request)]
    BY <1>0, <2>3, <2>4
  <2>6. TypeOK'
    BY <2>4, <2>5 DEF Queued, TypeOK
  <2>7. ASSUME NEW l \in Locks, NEW k \in 1 .. Len(queue'[l])
        PROVE  \/ k \in 1 .. Len(queue[l]) /\ queue'[l][k] = queue[l][k]
               \/ l = s.lock /\ k = Len(queue[l]) + 1 /\ queue'[l][k] = r
    BY <1>0, <2>3, <2>4, <2>7
  <2>8. ASSUME NEW l \in Locks, NEW k \in 1 .. Len(queue'[l]) PROVE Matches(l, queue[l][k])'
    <3>1. PICK q : q = queue'[l][k]
      OBVIOUS
    <3>2. Matches(l, q)
      <4>1. CASE k \in 1 .. Len(queue[l]) /\ q = queue[l][k]
        BY <1>0, <4>1 DEF Queued
      <4>2. CASE l = s.lock /\ q = r
        BY <2>1, <2>3, <2>4, <4>2 DEF Matches
      <4> QED
        BY <2>7, <3>1, <4>1, <4>2
    <3> QED
      BY <2>4, <3>1, <3>2 DEF Matches, Busy
  <2>9. \A l \in Locks : \A k \in 1 .. Len(queue[l]) : queue[l][k].task # t
    BY <2>4 DEF Waiting
  <2>10. ASSUME NEW l \in Locks, NEW j \in 1 .. Len(queue'[l]), NEW k \in 1 .. Len(queue'[l]),
                queue'[l][j].task = queue'[l][k].task
         PROVE  j = k
    BY <2>3, <2>7, <2>9, <2>10 DEF Queued
  <2> QED
    BY <2>6, <2>8, <2>10 DEF Queued, Matches, Busy
<1>4. ASSUME NEW t \in Tasks, Release(t) PROVE Queued'
  <2>1. PICK s \in Step : s = Head(todo[t])
    BY <1>0, <1>4 DEF Release, Busy
  <2>2. /\ todo[t] # << >> /\ s.op = "drop" /\ s.lock \in Locks /\ UNCHANGED queue
        /\ holders' = [holders EXCEPT ![s.lock] = {h \in @ : h.task # t}]
        /\ todo' = [todo EXCEPT ![t] = Tail(@)]
    BY <1>4, <2>1 DEF Release, Busy, Step
  <2>3. todo' \in [Tasks -> Seq(Step)]
    BY <1>0, <2>2
  <2>4. holders' \in [Locks -> SUBSET Request]
    BY <1>0, <2>2
  <2>5. ASSUME NEW l \in Locks, NEW h \in holders'[l], h.op = "write" PROVE holders'[l] = {h}
    BY <1>0, <2>2, <2>5 DEF Queued, TypeOK
  <2>6. TypeOK'
    BY <1>0, <2>2, <2>3, <2>4, <2>5 DEF TypeOK
  <2>7. ASSUME NEW l \in Locks, NEW k \in 1 .. Len(queue[l]) PROVE Matches(l, queue[l][k])'
    <3>1. Matches(l, queue[l][k]) /\ queue[l][k] \in Request
      BY <1>0 DEF Queued
    <3>2. queue[l][k].task # t
      <4>1. queue[l][k].op # "drop"
        BY <3>1 DEF Request
      <4> QED
        BY <2>1, <2>2, <3>1, <4>1 DEF Matches
    <3> QED
      BY <1>0, <2>2, <3>1, <3>2 DEF Matches, Busy
  <2> QED
    BY <2>2, <2>6, <2>7 DEF Queued
<1>5. ASSUME NEW l \in Locks, Grant(l) PROVE Queued'
  <2>1. PICK r \in Request, t \in Tasks :
             /\ queue[l] # << >> /\ Len(queue[l]) > 0 /\ r = queue[l][1] /\ t = r.task
             /\ Compatible(r, holders[l])
             /\ Busy(t) /\ Head(todo[t]) = [op |-> r.op, lock |-> l]
             /\ holders' = [holders EXCEPT ![l] = @ \cup {r}]
             /\ queue' = [queue EXCEPT ![l] = Tail(@)]
             /\ todo' = [todo EXCEPT ![t] = Tail(@)]
    BY <1>5, GrantMeans
  <2>2. todo' \in [Tasks -> Seq(Step)]
    BY <1>0, <2>1 DEF Busy
  <2>3. queue' \in [Locks -> Seq(Request)] /\ holders' \in [Locks -> SUBSET Request]
    BY <1>0, <2>1
  <2>4. ASSUME NEW k \in Locks, NEW h \in holders'[k], h.op = "write" PROVE holders'[k] = {h}
    <3>1. CASE k # l
      BY <1>0, <2>1, <2>4, <3>1 DEF Queued, TypeOK
    <3>2. CASE k = l /\ holders[l] = {}
      BY <1>0, <2>1, <2>4, <3>2
    <3>3. CASE k = l /\ holders[l] # {}
      BY <1>0, <2>1, <2>4, <3>3 DEF Compatible
    <3> QED
      BY <3>1, <3>2, <3>3
  <2>5. TypeOK'
    BY <2>2, <2>3, <2>4 DEF TypeOK
  <2>6. ASSUME NEW k \in Locks, NEW i \in 1 .. Len(queue'[k])
        PROVE  \/ k # l /\ i \in 1 .. Len(queue[k]) /\ queue'[k][i] = queue[k][i]
               \/ k = l /\ i + 1 \in 1 .. Len(queue[k]) /\ queue'[k][i] = queue[k][i + 1] /\ i + 1 # 1
    BY <1>0, <2>1, <2>6
  <2>7. ASSUME NEW k \in Locks, NEW i \in 1 .. Len(queue'[k]) PROVE Matches(k, queue[k][i])'
    <3>1. PICK q : q = queue'[k][i]
      OBVIOUS
    <3>2. PICK n \in 1 .. Len(queue[k]) : q = queue[k][n]
      BY <2>6, <3>1
    <3>3. Matches(k, q) /\ q \in Request
      BY <1>0, <3>2 DEF Queued
    <3>4. q.task # t
      <4>1. CASE k # l
        BY <2>1, <3>3, <4>1 DEF Matches
      <4>2. CASE k = l
        <5>1. 1 \in 1 .. Len(queue[l])
          BY <1>0, <2>1
        <5>2. PICK n1 \in 1 .. Len(queue[l]) : q = queue[l][n1] /\ n1 # 1
          BY <2>6, <3>1, <4>2
        <5> QED
          BY <2>1, <5>1, <5>2 DEF Queued
      <4> QED
        BY <4>1, <4>2
    <3> QED
      BY <1>0, <2>1, <3>1, <3>3, <3>4 DEF Matches, Busy
  <2>8. ASSUME NEW k \in Locks, NEW i \in 1 .. Len(queue'[k]), NEW j \in 1 .. Len(queue'[k]),
               queue'[k][i].task = queue'[k][j].task
        PROVE  i = j
    <3>1. CASE k # l
      BY <2>6, <2>8, <3>1 DEF Queued
    <3>2. CASE k = l
      <4>1. PICK a, b : a = i + 1 /\ b = j + 1
        OBVIOUS
      <4>2. /\ a \in 1 .. Len(queue[l]) /\ queue'[l][i] = queue[l][a]
            /\ b \in 1 .. Len(queue[l]) /\ queue'[l][j] = queue[l][b]
        BY <2>6, <3>2, <4>1
      <4>3. a = b
        BY <2>8, <3>2, <4>2 DEF Queued
      <4> QED
        BY <1>0, <2>3, <4>1, <4>3
    <3> QED
      BY <3>1, <3>2
  <2> QED
    BY <2>5, <2>7, <2>8 DEF Queued, Matches, Busy
<1> QED
  BY <1>1, <1>2, <1>3, <1>4, <1>5 DEF Next

\* The inductive invariant of the queues.
LEMMA QueuedInvariant == Spec => []Queued
BY InitQueued, NextQueued, PTL DEF Spec

\* The state of the engine's locks has its type, and a writer holds its lock
\* alone, whatever methods the tasks call (tokio::sync::RwLock).
THEOREM LocksTypeCorrect == Spec => []TypeOK
<1>1. Queued => TypeOK
  BY DEF Queued
<1> QED
  BY <1>1, QueuedInvariant, PTL

-----------------------------------------------------------------------------
(* The tasks keep the order.                                               *)

\* No task receives CFs.
NoCfs == \A t \in Tasks : MayCall[t] \cap CfMethods = {}

HeldBy(t) == {l \in Locks : \E h \in holders[l] : h.task = t}

\* What a task has left leads from the locks it holds to none.
Ordered == \A t \in Tasks : Leads(todo[t], HeldBy(t), {})

\* It holds initially.
LEMMA InitOrdered == Init => Ordered
<1> SUFFICES ASSUME Init, NEW t \in Tasks PROVE Leads(todo[t], HeldBy(t), {})
  BY DEF Ordered
<1>1. todo[t] = << >> /\ HeldBy(t) = {}
  BY DEF Init, HeldBy
<1> QED
  BY <1>1, LeadsNowhere

\* Every step of tasks that receive no CF keeps it.
LEMMA NextOrdered ==
    ASSUME NoCfs, Queued, Ordered, [Next]_vars
    PROVE  Ordered'
<1>0. /\ todo \in [Tasks -> Seq(Step)] /\ queue \in [Locks -> Seq(Request)]
      /\ holders \in [Locks -> SUBSET Request]
  BY DEF Queued, TypeOK
<1>1. ASSUME UNCHANGED <<todo, holders>> PROVE Ordered'
  BY <1>1 DEF Ordered, HeldBy
<1>2. ASSUME NEW t \in Tasks, NEW m \in MayCall[t], Call(t, m) PROVE Ordered'
  <2>1. Leads(Script(m), {}, {})
    BY ScriptsKeepOrder, MethodsAssumption DEF NoCfs
  <2>2. holders' = holders /\ todo' = [todo EXCEPT ![t] = Script(m)] /\ todo[t] = << >>
    BY <1>2 DEF Call, Busy
  <2>3. HeldBy(t) = {}
    BY <2>2, LeadsEmpty DEF Ordered
  <2>4. ASSUME NEW u \in Tasks PROVE Leads(todo[u], HeldBy(u), {})'
    <3>1. HeldBy(u)' = HeldBy(u) /\ todo'[u] = IF u = t THEN Script(m) ELSE todo[u]
      BY <1>0, <2>2 DEF HeldBy
    <3>2. Leads(todo'[u], HeldBy(u)', {})
      BY <2>1, <2>3, <3>1 DEF Ordered
    <3> QED
      BY <3>2 DEF Leads
  <2> QED
    BY <2>4 DEF Ordered
<1>3. ASSUME NEW t \in Tasks, Busy(t),
             \A u \in Tasks \ {t} : HeldBy(u)' = HeldBy(u),
             todo' = [todo EXCEPT ![t] = Tail(@)],
             \A C : Legal(Head(todo[t]), HeldBy(t), C) => HeldBy(t)' = C
      PROVE  Ordered'
  <2>1. PICK C \in SUBSET Locks : Legal(Head(todo[t]), HeldBy(t), C) /\ Leads(Tail(todo[t]), C, {})
    BY <1>3, LeadsFirst DEF Ordered, Busy
  <2>2. ASSUME NEW u \in Tasks PROVE Leads(todo[u], HeldBy(u), {})'
    <3>1. CASE u = t
      <4>1. todo'[t] = Tail(todo[t]) /\ HeldBy(t)' = C
        BY <1>0, <1>3, <2>1
      <4>2. Leads(todo'[t], HeldBy(t)', {})
        BY <2>1, <4>1
      <4> QED
        BY <3>1, <4>2 DEF Leads
    <3>2. CASE u # t
      <4>1. todo'[u] = todo[u] /\ HeldBy(u)' = HeldBy(u)
        BY <1>0, <1>3, <3>2
      <4>2. Leads(todo'[u], HeldBy(u)', {})
        BY <4>1 DEF Ordered
      <4> QED
        BY <4>2 DEF Leads
    <3> QED
      BY <3>1, <3>2
  <2> QED
    BY <2>2 DEF Ordered
<1>4. ASSUME NEW t \in Tasks, Release(t) PROVE Ordered'
  <2>1. PICK s \in Step : s = Head(todo[t])
    BY <1>0, <1>4 DEF Release, Busy
  <2>2. /\ Busy(t) /\ s.op = "drop" /\ s.lock \in Locks
        /\ holders' = [holders EXCEPT ![s.lock] = {h \in @ : h.task # t}]
        /\ todo' = [todo EXCEPT ![t] = Tail(@)]
    BY <1>4, <2>1 DEF Release, Step
  <2>3. \A u \in Tasks \ {t} : HeldBy(u)' = HeldBy(u)
    BY <1>0, <2>2 DEF HeldBy
  <2>4. HeldBy(t)' = HeldBy(t) \ {s.lock}
    BY <1>0, <2>2 DEF HeldBy
  <2>5. \A C : Legal(Head(todo[t]), HeldBy(t), C) => HeldBy(t)' = C
    BY <2>1, <2>2, <2>4 DEF Legal
  <2> QED
    BY <1>3, <2>2, <2>3, <2>5
<1>5. ASSUME NEW l \in Locks, Grant(l) PROVE Ordered'
  <2>1. PICK r \in Request, t \in Tasks :
             /\ queue[l] # << >> /\ Len(queue[l]) > 0 /\ r = queue[l][1] /\ t = r.task
             /\ Compatible(r, holders[l])
             /\ Busy(t) /\ Head(todo[t]) = [op |-> r.op, lock |-> l]
             /\ holders' = [holders EXCEPT ![l] = @ \cup {r}]
             /\ queue' = [queue EXCEPT ![l] = Tail(@)]
             /\ todo' = [todo EXCEPT ![t] = Tail(@)]
    BY <1>5, GrantMeans
  <2>2. \A u \in Tasks \ {t} : HeldBy(u)' = HeldBy(u)
    BY <1>0, <2>1 DEF HeldBy
  <2>3. HeldBy(t)' = HeldBy(t) \cup {l}
    BY <1>0, <2>1 DEF HeldBy
  <2>4. Head(todo[t]).op # "drop" /\ Head(todo[t]).lock = l
    BY <2>1 DEF Request
  <2>5. \A C : Legal(Head(todo[t]), HeldBy(t), C) => HeldBy(t)' = C
    BY <2>3, <2>4 DEF Legal
  <2> QED
    BY <1>3, <2>1, <2>2, <2>5
<1>6. CASE UNCHANGED vars \/ \E t \in Tasks : Ask(t)
  BY <1>1, <1>6 DEF vars, Ask
<1> QED
  BY <1>2, <1>4, <1>5, <1>6 DEF Next

\* The holder of a lock others wait for waits itself, if it can do nothing
\* else, and for a lock further up.
LEMMA WaitsAbove ==
    ASSUME Queued, Ordered, NEW l \in Locks, queue[l] # << >>,
           ~Compatible(Head(queue[l]), holders[l]),
           \A t \in Tasks : Busy(t) => Waiting(t)
    PROVE  \E k \in Locks : queue[k] # << >> /\ Rank(l) < Rank(k)
<1>0. /\ todo \in [Tasks -> Seq(Step)] /\ queue \in [Locks -> Seq(Request)]
      /\ holders \in [Locks -> SUBSET Request]
  BY DEF Queued, TypeOK
<1>1. PICK h \in Request : h \in holders[l]
  BY <1>0 DEF Compatible
<1>2. PICK u \in Tasks : u = h.task
  BY DEF Request
<1>3. l \in HeldBy(u) /\ Leads(todo[u], HeldBy(u), {})
  BY <1>1, <1>2 DEF HeldBy, Ordered
<1>4. todo[u] # << >>
  BY <1>3, LeadsEmpty
<1>5. PICK k \in Locks : \E i \in 1 .. Len(queue[k]) : queue[k][i].task = u
  BY <1>4 DEF Busy, Waiting
<1>6. PICK i \in 1 .. Len(queue[k]) : queue[k][i].task = u
  BY <1>5
<1>7. PICK r \in Request : r = queue[k][i]
  BY <1>0
<1>8. Head(todo[u]) = [op |-> r.op, lock |-> k] /\ r.op # "drop"
  BY <1>6, <1>7 DEF Queued, Matches, Request
<1>9. PICK C : Legal(Head(todo[u]), HeldBy(u), C)
  BY <1>3, <1>4, LeadsFirst
<1>10. Rank(l) < Rank(k)
  BY <1>3, <1>8, <1>9 DEF Legal
<1>11. queue[k] # << >>
  BY <1>0
<1> QED
  BY <1>10, <1>11

\* Tasks that submit events, vote, finalize, persist, and run the timer, but
\* receive no CF, never wait for one another, however many there are: of the
\* locks with a queue, the highest in the order vlc, manager, dag has a holder
\* that can go on.  (receive_cf and receive_finalized_cf hold the DAG while they
\* wait for the manager; with them it fails.)
THEOREM NoDeadlockHolds ==
    ASSUME NoCfs
    PROVE  Spec => []NoDeadlock
<1>1. Queued /\ Ordered /\ [Next]_vars => Ordered'
  BY NextOrdered
<1>2. Queued /\ Ordered => NoDeadlock
  <2> SUFFICES ASSUME Queued, Ordered, NEW t \in Tasks, Busy(t),
                      \A u \in Tasks : Busy(u) => Waiting(u),
                      \A l \in Locks : queue[l] # << >> => ~Compatible(Head(queue[l]), holders[l])
               PROVE  FALSE
    BY DEF NoDeadlock
  <2>1. PICK l \in Locks : queue[l] # << >>
    BY DEF Waiting, Queued, TypeOK
  <2>2. \A k \in Locks : queue[k] # << >> => \E j \in Locks : queue[j] # << >> /\ Rank(k) < Rank(j)
    BY WaitsAbove
  <2>3. PICK j \in Locks : queue[j] # << >> /\ Rank(l) < Rank(j)
    BY <2>1, <2>2
  <2>4. PICK k \in Locks : queue[k] # << >> /\ Rank(j) < Rank(k)
    BY <2>2, <2>3
  <2>5. PICK i \in Locks : Rank(k) < Rank(i)
    BY <2>2, <2>4
  <2> QED
    BY <2>3, <2>4, <2>5 DEF Rank
<1> QED
  BY <1>1, <1>2, InitOrdered, QueuedInvariant, PTL DEF Spec
=============================================================================
