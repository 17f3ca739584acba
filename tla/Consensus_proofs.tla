-------------------------- MODULE Consensus_proofs --------------------------
(***************************************************************************)
(* Proofs about Consensus for every number of validators, every set of     *)
(* events and every value of the bounds.                                   *)
(***************************************************************************)
EXTENDS Consensus, Induction

(***************************************************************************)
(* The shared part of the inductive invariants: every CF a validator       *)
(* refers to has been created, so a new CF never changes an old reference. *)
(***************************************************************************)
RefsExist ==
    /\ \A v \in Validators :
         /\ chain[v] \in 0 .. Len(cfs)
         /\ pending[v] \subseteq 1 .. Len(cfs)
         /\ cur[v] \in 0 .. Len(cfs)
         /\ applying[v] \in 0 .. Len(cfs)
         /\ pc[v] # "idle" => cur[v] # Genesis
    /\ \A i \in 1 .. Len(cfs) : cfs[i].prev \in 0 .. i - 1

IInv == TypeOK /\ RefsExist

\* The initial state satisfies the invariant.
LEMMA InitIInv == Init => IInv
  <1> SUFFICES ASSUME Init PROVE IInv
    OBVIOUS
  <1> USE BoundsAssumption DEF Init, Genesis
  <1>1. TypeOK
    BY DEF TypeOK, Ids, CfRecord, Completion
  <1>2. RefsExist
    BY DEF RefsExist
  <1> QED
    BY <1>1, <1>2 DEF IInv

-----------------------------------------------------------------------------
(* Facts about single operators.                                           *)

\* A CF reference is Genesis or names a created CF.
LEMMA RefTypes ==
    ASSUME TypeOK, RefsExist
    PROVE  /\ Len(cfs) \in Nat
           /\ \A i \in 1 .. Len(cfs) : cfs[i] \in CfRecord /\ i \in Ids
           /\ \A i \in 1 .. Len(cfs) : cfs[i].prev \in 0 .. Len(cfs)
  BY BoundsAssumption DEF TypeOK, RefsExist, Ids

\* What deciding on a CF changes in the folder, with its types.
LedgerTypes ==
    /\ chain \in [Validators -> 0 .. Len(cfs)]
    /\ gsm \in [Validators -> SUBSET Events]
    /\ done \in [Validators -> SUBSET Events]
    /\ finalized \in [Validators -> Seq(Ids)]
    /\ lastFailure \in [Validators -> Ids \cup {Genesis}]
    /\ completions \in [Validators -> SUBSET Completion]
    /\ torn \subseteq Validators

\* The types of the whole folder.
FolderTypes ==
    /\ LedgerTypes
    /\ pending \in [Validators -> SUBSET (1 .. Len(cfs))]
    /\ votes \in [Validators -> SUBSET (Validators \X Ids)]

\* The types of the folder variables are part of the invariant.
LEMMA FolderTypesHold == IInv => FolderTypes
  BY DEF IInv, TypeOK, RefsExist, FolderTypes, LedgerTypes

\* Applying the events of a CF keeps the type of the state.
LEMMA ApplyTypes ==
    ASSUME IInv, NEW v \in Validators, NEW i \in 1 .. Len(cfs), Apply(v, i)
    PROVE  gsm' \in [Validators -> SUBSET Events]
  <1>1. cfs[i].events \in SUBSET Events
    BY RefTypes DEF IInv, CfRecord
  <1> QED
    BY <1>1 DEF Apply, IInv, TypeOK

\* Committing a CF keeps the types.
LEMMA CommitStep ==
    ASSUME IInv, NEW v \in Validators, NEW i \in 1 .. Len(cfs), Commit(v, i), cfs' = cfs
    PROVE  LedgerTypes'
  <1>1. cfs[i].events \in SUBSET Events /\ i \in Ids /\ Len(cfs) \in Nat
    BY RefTypes DEF IInv, CfRecord
  <1>2. LedgerTypes
    BY FolderTypesHold DEF FolderTypes
  <1>3. gsm' \in [Validators -> SUBSET Events]
    BY ApplyTypes DEF Commit
  <1>4. done' \in [Validators -> SUBSET Events]
    BY <1>1, <1>2 DEF Commit, LedgerTypes
  <1>5. finalized' \in [Validators -> Seq(Ids)]
    BY <1>1, <1>2 DEF Commit, LedgerTypes
  <1>6. lastFailure' \in [Validators -> Ids \cup {Genesis}]
    BY <1>2 DEF Commit, LedgerTypes
  <1>7. [cf |-> i, expected |-> round[v]] \in Completion
    BY <1>1 DEF IInv, TypeOK, Completion
  <1>8. completions' \in [Validators -> SUBSET Completion]
    BY <1>2, <1>7 DEF Commit, LedgerTypes
  <1>9. chain' \in [Validators -> 0 .. Len(cfs')]
    BY <1>1, <1>2 DEF Commit, LedgerTypes
  <1>10. torn' \subseteq Validators
    BY <1>2 DEF Commit, LedgerTypes
  <1> QED
    BY <1>3, <1>4, <1>5, <1>6, <1>8, <1>9, <1>10 DEF LedgerTypes

\* A commit that fails in the store keeps the types.
LEMMA CommitFailsStep ==
    ASSUME IInv, NEW v \in Validators, NEW i \in 1 .. Len(cfs), CommitFails(v, i), cfs' = cfs
    PROVE  LedgerTypes'
  <1>1. LedgerTypes /\ i \in Ids
    BY FolderTypesHold, RefTypes DEF FolderTypes, IInv
  <1>2. gsm' \in [Validators -> SUBSET Events]
    BY ApplyTypes DEF CommitFails
  <1>3. lastFailure' \in [Validators -> Ids \cup {Genesis}]
    BY <1>1 DEF CommitFails, LedgerTypes
  <1>4. torn' \subseteq Validators
    BY <1>1 DEF CommitFails, LedgerTypes
  <1> QED
    BY <1>1, <1>2, <1>3, <1>4 DEF CommitFails, LedgerTypes

\* Discarding a CF keeps the types.
LEMMA DiscardStep ==
    ASSUME IInv, NEW v \in Validators, NEW i \in 1 .. Len(cfs), Discard(v, i), cfs' = cfs
    PROVE  LedgerTypes'
  <1>1. LedgerTypes /\ i \in Ids
    BY FolderTypesHold, RefTypes DEF FolderTypes, IInv
  <1>2. lastFailure' \in [Validators -> Ids \cup {Genesis}]
    BY <1>1 DEF Discard, LedgerTypes
  <1> QED
    BY <1>1, <1>2 DEF Discard, LedgerTypes

\* Whatever is decided about a CF that has its quorum keeps the types.
LEMMA DecideStep ==
    ASSUME IInv, NEW v \in Validators, NEW i \in 1 .. Len(cfs), Decide(v, i), cfs' = cfs
    PROVE  LedgerTypes' /\ commitFailures' \in 0 .. MaxCommitFailures
  <1>1. commitFailures \in 0 .. MaxCommitFailures
    BY DEF IInv, TypeOK
  <1>2. CASE Commit(v, i)
    BY <1>1, <1>2, CommitStep DEF Commit
  <1>3. CASE CommitFails(v, i)
    <2>1. commitFailures' \in 0 .. MaxCommitFailures
      BY <1>1, <1>3, BoundsAssumption DEF CommitFails
    <2> QED
      BY <1>3, <2>1, CommitFailsStep
  <1>4. CASE Discard(v, i)
    BY <1>1, <1>4, DiscardStep DEF Discard
  <1> QED
    BY <1>2, <1>3, <1>4 DEF Decide

\* Dropping a CF with its votes keeps the types.
LEMMA ForgetStep ==
    ASSUME IInv, NEW v \in Validators, NEW i \in 1 .. Len(cfs),
           NEW vs \in SUBSET (Validators \X Ids), Forget(v, i, vs)
    PROVE  /\ pending' \in [Validators -> SUBSET (1 .. Len(cfs))]
           /\ votes' \in [Validators -> SUBSET (Validators \X Ids)]
  <1>1. FolderTypes
    BY FolderTypesHold
  <1>2. pending' \in [Validators -> SUBSET (1 .. Len(cfs))]
    BY <1>1 DEF Forget, FolderTypes
  <1>3. {p \in vs : p[2] # i} \in SUBSET (Validators \X Ids)
    OBVIOUS
  <1>4. votes' \in [Validators -> SUBSET (Validators \X Ids)]
    BY <1>1, <1>3 DEF Forget, FolderTypes
  <1> QED
    BY <1>2, <1>4

\* classify_finalization keeps the types in each of its outcomes.
LEMMA ClassifyStep ==
    ASSUME IInv, NEW v \in Validators, NEW i \in 1 .. Len(cfs), cfs' = cfs,
           NEW vs \in SUBSET (Validators \X Ids), Classify(v, i, vs)
    PROVE  /\ FolderTypes' /\ timeouts' \in 0 .. MaxTimeouts
           /\ commitFailures' \in 0 .. MaxCommitFailures
  <1>1. /\ FolderTypes /\ timeouts \in 0 .. MaxTimeouts
        /\ commitFailures \in 0 .. MaxCommitFailures
    BY FolderTypesHold DEF IInv, TypeOK
  <1>2. CASE Decide(v, i) /\ Forget(v, i, vs) /\ UNCHANGED timeouts
    BY <1>1, <1>2, DecideStep, ForgetStep DEF FolderTypes
  <1>3. CASE /\ timeouts < MaxTimeouts
             /\ timeouts' = timeouts + 1
             /\ Forget(v, i, vs)
             /\ UNCHANGED <<gsm, done, chain, finalized, lastFailure, completions, torn,
                            commitFailures>>
    BY <1>1, <1>3, ForgetStep, BoundsAssumption DEF FolderTypes, LedgerTypes
  <1>4. CASE /\ pending' = [pending EXCEPT ![v] = @ \cup {i}]
             /\ votes' = [votes EXCEPT ![v] = vs]
             /\ UNCHANGED <<gsm, done, chain, finalized, lastFailure, completions, torn,
                            commitFailures, timeouts>>
    BY <1>1, <1>4 DEF FolderTypes, LedgerTypes
  <1> QED
    BY <1>2, <1>3, <1>4 DEF Classify

\* receive_finalized_cf keeps the types.
LEMMA ApplyFinalizedStep ==
    ASSUME IInv, NEW v \in Validators, NEW i \in 1 .. Len(cfs), cfs' = cfs,
           ApplyFinalized(v, i)
    PROVE  FolderTypes' /\ commitFailures' \in 0 .. MaxCommitFailures
  <1>1. FolderTypes
    BY FolderTypesHold
  <1>2. Forget(v, i, votes[v]) /\ votes[v] \in SUBSET (Validators \X Ids)
    BY <1>1 DEF ApplyFinalized, FolderTypes
  <1>3. Decide(v, i)
    BY DEF ApplyFinalized
  <1> QED
    BY <1>1, <1>2, <1>3, DecideStep, ForgetStep DEF FolderTypes

-----------------------------------------------------------------------------
(* The state outside the folder.                                           *)

NetTypes ==
    /\ sentVotes \subseteq Validators \X Ids
    /\ sentFinal \subseteq Ids
    /\ round \in [Validators -> Nat]
    /\ anchorStore \in [Validators -> SUBSET Ids]
    /\ cfStore \in [Validators -> SUBSET Ids]

TaskTypes ==
    /\ pc \in [Validators -> {"idle", "cf", "final", "persist", "complete"}]
    /\ cur \in [Validators -> 0 .. Len(cfs)]
    /\ \A v \in Validators : pc[v] # "idle" => cur[v] # Genesis
    /\ catching \in [Validators -> BOOLEAN]
    /\ applying \in [Validators -> 0 .. Len(cfs)]

BudgetTypes ==
    /\ timeouts \in 0 .. MaxTimeouts
    /\ persistFailures \in 0 .. MaxPersistFailures
    /\ catchUps \in 0 .. MaxCatchUps
    /\ commitFailures \in 0 .. MaxCommitFailures

\* The types of network, tasks and budgets are part of the invariant.
LEMMA PartsHold == IInv => NetTypes /\ TaskTypes /\ BudgetTypes
  BY DEF IInv, TypeOK, RefsExist, NetTypes, TaskTypes, BudgetTypes

\* An action that creates no CF keeps the invariant if it keeps the parts.
LEMMA Assemble ==
    ASSUME IInv, cfs' = cfs, FolderTypes', NetTypes', TaskTypes', BudgetTypes'
    PROVE  IInv'
  <1>1. 1 .. Len(cfs) \subseteq Ids /\ 0 .. Len(cfs) \subseteq Ids \cup {Genesis}
    BY RefTypes, BoundsAssumption DEF IInv, TypeOK, Ids, Genesis
  <1>2. TypeOK'
    <2>1. cfs' \in Seq(CfRecord) /\ Len(cfs') <= MaxCfs
      BY DEF IInv, TypeOK
    <2>2. pending' \in [Validators -> SUBSET Ids]
      BY <1>1 DEF FolderTypes
    <2>3. cur' \in [Validators -> Ids \cup {Genesis}]
      BY <1>1 DEF TaskTypes
    <2>4. applying' \in [Validators -> Ids \cup {Genesis}]
      BY <1>1 DEF TaskTypes
    <2>5. chain' \in [Validators -> Ids \cup {Genesis}]
      BY <1>1 DEF FolderTypes, LedgerTypes
    <2> QED
      BY <2>1, <2>2, <2>3, <2>4, <2>5
      DEF TypeOK, FolderTypes, LedgerTypes, NetTypes, TaskTypes, BudgetTypes
  <1>3. RefsExist'
    BY DEF IInv, RefsExist, FolderTypes, LedgerTypes, TaskTypes
  <1> QED
    BY <1>2, <1>3 DEF IInv

\* An action of the tasks or the network that leaves the folder alone.
LEMMA AssembleQuiet ==
    ASSUME IInv, cfs' = cfs, UNCHANGED folder, NetTypes', TaskTypes', BudgetTypes'
    PROVE  IInv'
  <1>1. FolderTypes'
    BY FolderTypesHold DEF FolderTypes, LedgerTypes, folder
  <1> QED
    BY <1>1, Assemble

-----------------------------------------------------------------------------
(* One lemma per action.                                                   *)

\* Proposing keeps the invariant.
LEMMA TryCreateCfStep ==
    ASSUME IInv, NEW v \in Validators, NEW r \in Nat, NEW E \in SUBSET Events,
           TryCreateCf(v, r, E)
    PROVE  IInv'
  <1> DEFINE n == Len(cfs) + 1
             f == [round |-> r, proposer |-> v, prev |-> chain[v],
                   events |-> E, root |-> gsm[v] \cup E]
  <1>1. n \in Ids /\ f \in CfRecord /\ n \in 1 .. n
    <2>1. Len(cfs) \in Nat /\ Len(cfs) < MaxCfs
      BY DEF IInv, TypeOK, TryCreateCf
    <2>2. chain[v] \in Nat /\ gsm[v] \subseteq Events
      BY DEF IInv, TypeOK, Ids, Genesis
    <2>3. f \in CfRecord
      BY <2>2 DEF CfRecord
    <2> QED
      BY <2>1, <2>3, BoundsAssumption DEF Ids
  <1>2. /\ cfs' \in Seq(CfRecord) /\ Len(cfs') = n
        /\ \A i \in 1 .. Len(cfs) : cfs'[i] = cfs[i]
        /\ cfs'[n] = f
    BY <1>1 DEF IInv, TypeOK, TryCreateCf, OpenBuild, PreparedCf
  <1>3. Len(cfs) \in Nat /\ n <= MaxCfs
    BY BoundsAssumption DEF IInv, TypeOK, TryCreateCf
  <1>4. TypeOK'
    <2>1. sentVotes' \subseteq Validators \X Ids
      BY <1>1 DEF IInv, TypeOK, TryCreateCf, OpenBuild, PreparedCf
    <2>2. pending' \in [Validators -> SUBSET Ids]
      BY <1>1 DEF IInv, TypeOK, TryCreateCf, OpenBuild, PreparedCf
    <2>3. votes' \in [Validators -> SUBSET (Validators \X Ids)]
      BY <1>1 DEF IInv, TypeOK, TryCreateCf, OpenBuild, PreparedCf
    <2> QED
      BY <1>2, <1>3, <2>1, <2>2, <2>3
      DEF IInv, TypeOK, TryCreateCf, OpenBuild, store, router, catchup, budget
  <1>6. RefsExist'
    <2>1. \A w \in Validators :
            /\ chain'[w] \in 0 .. n
            /\ pending'[w] \subseteq 1 .. n
            /\ cur'[w] \in 0 .. n
            /\ applying'[w] \in 0 .. n
            /\ pc'[w] # "idle" => cur'[w] # Genesis
      <3>1. /\ UNCHANGED <<chain, cur, applying, pc>>
            /\ pending' = [pending EXCEPT ![v] = @ \cup {n}]
        BY DEF TryCreateCf, OpenBuild, router, catchup
      <3>2. pending \in [Validators -> SUBSET Ids]
        BY DEF IInv, TypeOK
      <3> HIDE DEF f
      <3>3. \A w \in Validators : pending'[w] \subseteq 1 .. n
        BY <1>1, <1>3, <3>1, <3>2 DEF IInv, RefsExist
      <3> QED
        BY <1>3, <3>1, <3>3 DEF IInv, RefsExist
    <2>2. \A i \in 1 .. n : cfs'[i].prev \in 0 .. i - 1
      <3>1. f.prev \in 0 .. n - 1
        BY <1>3 DEF IInv, RefsExist
      <3>2. \A i \in 1 .. Len(cfs) : cfs'[i].prev \in 0 .. i - 1
        BY <1>2 DEF IInv, RefsExist
      <3> HIDE DEF f
      <3> QED
        BY <1>2, <1>3, <3>1, <3>2
    <2> QED
      BY <1>2, <2>1, <2>2 DEF RefsExist
  <1> QED
    BY <1>4, <1>6 DEF IInv

\* Accepting a proposal for processing keeps the invariant.
LEMMA StartReceiveCfStep ==
    ASSUME IInv, NEW v \in Validators, NEW i \in Created, StartReceiveCf(v, i)
    PROVE  IInv'
  <1> USE DEF StartReceiveCf, net, store, catchup, budget
  <1>1. NetTypes /\ TaskTypes /\ BudgetTypes /\ i \in 1 .. Len(cfs)
    BY PartsHold DEF Created
  <1>2. TaskTypes'
    BY <1>1 DEF TaskTypes, Genesis
  <1>3. NetTypes' /\ BudgetTypes' /\ cfs' = cfs /\ UNCHANGED folder
    BY <1>1 DEF NetTypes, BudgetTypes
  <1> QED
    BY <1>2, <1>3, AssembleQuiet

\* Starting catch-up keeps the invariant.
LEMMA StartCatchUpStep ==
    ASSUME IInv, NEW v \in Validators, StartCatchUp(v)
    PROVE  IInv'
  <1> USE DEF StartCatchUp, net, store, router
  <1>1. NetTypes /\ TaskTypes /\ BudgetTypes
    BY PartsHold
  <1>2. TaskTypes'
    BY <1>1 DEF TaskTypes
  <1>3. NetTypes' /\ cfs' = cfs /\ UNCHANGED folder
    BY <1>1 DEF NetTypes
  <1>4. BudgetTypes'
    BY <1>1, BoundsAssumption DEF BudgetTypes
  <1> QED
    BY <1>2, <1>3, <1>4, AssembleQuiet

\* The router's next state after a classification.
LEMMA RouterAfterStep ==
    ASSUME IInv, NEW v \in Validators, NEW i \in 1 .. Len(cfs), RouterAfter(v, i),
           cfs' = cfs, UNCHANGED catchup
    PROVE  TaskTypes'
  <1>1. TaskTypes
    BY PartsHold
  <1>2. CASE /\ pc' = [pc EXCEPT ![v] = "persist"]
             /\ cur' = [cur EXCEPT ![v] = i]
    BY <1>1, <1>2 DEF TaskTypes, Genesis, catchup
  <1>3. CASE /\ pc' = [pc EXCEPT ![v] = "idle"]
             /\ cur' = [cur EXCEPT ![v] = Genesis]
    BY <1>1, <1>3, RefTypes DEF IInv, TaskTypes, Genesis, catchup
  <1> QED
    BY <1>2, <1>3 DEF RouterAfter

\* Voting for a proposal keeps the invariant.
LEMMA FinishReceiveCfStep ==
    ASSUME IInv, NEW v \in Validators, FinishReceiveCf(v)
    PROVE  IInv'
  <1> DEFINE i == cur[v]
             vs == votes[v] \cup {<<cfs[i].proposer, i>>, <<v, i>>}
  <1>1. NetTypes /\ TaskTypes /\ BudgetTypes /\ FolderTypes
    BY PartsHold, FolderTypesHold
  <1>2. i \in 1 .. Len(cfs) /\ cfs' = cfs
    BY <1>1, RefTypes DEF FinishReceiveCf, TaskTypes, Genesis, IInv
  <1>3. i \in Ids /\ cfs[i].proposer \in Validators
    BY <1>2, RefTypes DEF IInv, CfRecord
  <1>4. vs \in SUBSET (Validators \X Ids) /\ Classify(v, i, vs)
    BY <1>1, <1>3 DEF FolderTypes, FinishReceiveCf, VotesAtReceipt
  <1>5. FolderTypes' /\ timeouts' \in 0 .. MaxTimeouts /\ commitFailures' \in 0 .. MaxCommitFailures
    <2> HIDE DEF i, vs
    <2> QED
      BY <1>2, <1>4, ClassifyStep
  <1>6. TaskTypes'
    BY <1>2, RouterAfterStep DEF FinishReceiveCf
  <1>7. NetTypes'
    BY <1>1, <1>3 DEF NetTypes, FinishReceiveCf, store
  <1>8. BudgetTypes'
    BY <1>1, <1>5 DEF BudgetTypes, FinishReceiveCf
  <1> QED
    BY <1>2, <1>5, <1>6, <1>7, <1>8, Assemble

\* Dropping a proposal keeps the invariant.
LEMMA DropReceivedStep ==
    ASSUME IInv, NEW v \in Validators, DropReceived(v)
    PROVE  IInv'
  <1> USE DEF DropReceived, net, store, catchup, budget
  <1>1. NetTypes /\ TaskTypes /\ BudgetTypes /\ Len(cfs) \in Nat
    BY PartsHold, RefTypes DEF IInv
  <1>2. TaskTypes'
    BY <1>1 DEF TaskTypes, Genesis
  <1>3. NetTypes' /\ BudgetTypes' /\ cfs' = cfs /\ UNCHANGED folder
    BY <1>1 DEF NetTypes, BudgetTypes
  <1> QED
    BY <1>2, <1>3, AssembleQuiet

\* Receiving a vote keeps the invariant.
LEMMA ReceiveVoteStep ==
    ASSUME IInv, NEW v \in Validators, NEW w \in Validators, NEW i \in Created,
           ReceiveVote(v, w, i)
    PROVE  IInv'
  <1> DEFINE vs == votes[v] \cup {<<w, i>>}
  <1>1. NetTypes /\ TaskTypes /\ BudgetTypes /\ FolderTypes
    BY PartsHold, FolderTypesHold
  <1>2. i \in 1 .. Len(cfs) /\ i \in Ids /\ cfs' = cfs
    BY RefTypes DEF ReceiveVote, net, Created, IInv
  <1>3. vs \in SUBSET (Validators \X Ids)
    BY <1>1, <1>2 DEF FolderTypes
  <1>4. NetTypes'
    BY <1>1 DEF NetTypes, ReceiveVote, net, store
  <1>5. CASE i \in pending[v]
    <2>1. Classify(v, i, vs) /\ RouterAfter(v, i) /\ UNCHANGED catchup
      BY <1>5 DEF ReceiveVote
    <2>2. FolderTypes' /\ timeouts' \in 0 .. MaxTimeouts /\ commitFailures' \in 0 .. MaxCommitFailures
      <3> HIDE DEF vs
      <3> QED
        BY <1>2, <1>3, <2>1, ClassifyStep
    <2>3. TaskTypes'
      BY <1>2, <2>1, RouterAfterStep
    <2>4. BudgetTypes'
      BY <1>1, <2>2 DEF BudgetTypes, ReceiveVote
    <2> QED
      BY <1>2, <1>4, <2>2, <2>3, <2>4, Assemble
  <1>6. CASE i \notin pending[v]
    <2>1. /\ votes' = [votes EXCEPT ![v] = vs]
          /\ UNCHANGED <<chain, gsm, done, pending, finalized, lastFailure,
                         completions, torn, router, timeouts, commitFailures>>
      BY <1>6 DEF ReceiveVote
    <2>2. FolderTypes'
      BY <1>1, <1>2, <1>3, <2>1 DEF FolderTypes, LedgerTypes
    <2>3. TaskTypes' /\ BudgetTypes'
      BY <1>1, <1>2, <2>1 DEF TaskTypes, BudgetTypes, ReceiveVote, router, catchup
    <2> QED
      BY <1>2, <1>4, <2>2, <2>3, Assemble
  <1> QED
    BY <1>5, <1>6

\* Accepting a finalized CF for processing keeps the invariant.
LEMMA StartReceiveFinalizedStep ==
    ASSUME IInv, NEW v \in Validators, NEW i \in Created, StartReceiveFinalized(v, i)
    PROVE  IInv'
  <1> USE DEF StartReceiveFinalized, net, store, catchup, budget
  <1>1. NetTypes /\ TaskTypes /\ BudgetTypes /\ i \in 1 .. Len(cfs)
    BY PartsHold DEF Created
  <1>2. TaskTypes'
    BY <1>1 DEF TaskTypes, Genesis
  <1>3. NetTypes' /\ BudgetTypes' /\ cfs' = cfs /\ UNCHANGED folder
    BY <1>1 DEF NetTypes, BudgetTypes
  <1> QED
    BY <1>2, <1>3, AssembleQuiet

\* Applying a finalized CF keeps the invariant.
LEMMA FinishReceiveFinalizedStep ==
    ASSUME IInv, NEW v \in Validators, FinishReceiveFinalized(v)
    PROVE  IInv'
  <1> DEFINE i == cur[v]
  <1>1. NetTypes /\ TaskTypes /\ BudgetTypes
    BY PartsHold
  <1>2. i \in 1 .. Len(cfs) /\ cfs' = cfs
    BY <1>1, RefTypes DEF FinishReceiveFinalized, TaskTypes, Genesis, IInv, net
  <1>3. FolderTypes' /\ commitFailures' \in 0 .. MaxCommitFailures
    BY <1>2, ApplyFinalizedStep DEF FinishReceiveFinalized
  <1>4. TaskTypes'
    BY <1>2, RouterAfterStep DEF FinishReceiveFinalized
  <1>5. NetTypes' /\ BudgetTypes'
    BY <1>1, <1>3 DEF NetTypes, BudgetTypes, FinishReceiveFinalized, net, store
  <1> QED
    BY <1>2, <1>3, <1>4, <1>5, Assemble

\* The finalized CFs are CF names.
LEMMA FinalizedAreIds ==
    ASSUME IInv, NEW v \in Validators
    PROVE  FinalizedCfs(v) \subseteq Ids
  <1>1. finalized[v] \in Seq(Ids)
    BY DEF IInv, TypeOK
  <1> QED
    BY <1>1 DEF FinalizedCfs

\* Persisting an anchor keeps the invariant.
LEMMA PersistStep ==
    ASSUME IInv, NEW v \in Validators, NEW C \in SUBSET Unindexed(v), Persist(v, C)
    PROVE  IInv'
  <1> USE DEF Persist, net, catchup
  <1>1. NetTypes /\ TaskTypes /\ BudgetTypes
    BY PartsHold
  <1>2. cur[v] \in Ids
    BY <1>1, RefTypes DEF IInv, TaskTypes, Genesis
  <1>3. C \subseteq Ids
    BY FinalizedAreIds DEF Unindexed
  <1>4. NetTypes'
    BY <1>1, <1>2, <1>3 DEF NetTypes
  <1>5. TaskTypes'
    BY <1>1 DEF TaskTypes
  <1>6. BudgetTypes' /\ cfs' = cfs /\ UNCHANGED folder
    BY <1>1, BoundsAssumption DEF BudgetTypes
  <1> QED
    BY <1>4, <1>5, <1>6, AssembleQuiet

\* A failed persist keeps the invariant.
LEMMA PersistFailsStep ==
    ASSUME IInv, NEW v \in Validators, NEW C \in SUBSET Unindexed(v), PersistFails(v, C)
    PROVE  IInv'
  <1> USE DEF PersistFails, net, catchup
  <1>1. NetTypes /\ TaskTypes /\ BudgetTypes /\ Len(cfs) \in Nat
    BY PartsHold, RefTypes DEF IInv
  <1>2. TaskTypes'
    BY <1>1 DEF TaskTypes, Genesis
  <1>3. C \subseteq Ids
    BY FinalizedAreIds DEF Unindexed
  <1>4. NetTypes' /\ cfs' = cfs /\ UNCHANGED folder
    BY <1>1, <1>3 DEF NetTypes
  <1>5. BudgetTypes'
    BY <1>1, BoundsAssumption DEF BudgetTypes
  <1> QED
    BY <1>2, <1>4, <1>5, AssembleQuiet

\* Completing a finalization keeps the invariant.
LEMMA CompleteStep ==
    ASSUME IInv, NEW v \in Validators, Complete(v)
    PROVE  IInv'
  <1>1. NetTypes /\ TaskTypes /\ BudgetTypes /\ FolderTypes /\ Len(cfs) \in Nat
    BY PartsHold, FolderTypesHold, RefTypes DEF IInv
  <1>2. cur[v] \in Ids
    BY <1>1, RefTypes DEF IInv, TaskTypes, Genesis, Complete
  <1>3. PICK e \in completions[v] :
          /\ completions' = [completions EXCEPT ![v] = @ \ {e}]
          /\ round' = [round EXCEPT ![v] = IF @ = e.expected THEN @ + 1 ELSE @]
    BY DEF Complete
  <1>4. NetTypes'
    <2>1. round' \in [Validators -> Nat]
      BY <1>1, <1>3 DEF NetTypes
    <2> QED
      BY <1>1, <1>2, <2>1 DEF NetTypes, Complete, store
  <1>5. TaskTypes'
    BY <1>1 DEF TaskTypes, Complete, Genesis, catchup
  <1>6. FolderTypes' /\ cfs' = cfs
    BY <1>1, <1>3 DEF FolderTypes, LedgerTypes, Complete
  <1>7. BudgetTypes'
    BY <1>1 DEF BudgetTypes, Complete, budget
  <1> QED
    BY <1>4, <1>5, <1>6, <1>7, Assemble

\* Picking a CF to catch up with keeps the invariant.
LEMMA StartCatchUpApplyStep ==
    ASSUME IInv, NEW v \in Validators, NEW w \in Validators, NEW i \in Created,
           StartCatchUpApply(v, w, i)
    PROVE  IInv'
  <1> USE DEF StartCatchUpApply, net, store, router, budget
  <1>1. NetTypes /\ TaskTypes /\ BudgetTypes /\ i \in 1 .. Len(cfs)
    BY PartsHold DEF Created
  <1>2. TaskTypes'
    BY <1>1 DEF TaskTypes
  <1>3. NetTypes' /\ BudgetTypes' /\ cfs' = cfs /\ UNCHANGED folder
    BY <1>1 DEF NetTypes, BudgetTypes
  <1> QED
    BY <1>2, <1>3, AssembleQuiet

\* Applying a CF in catch-up keeps the invariant.
LEMMA FinishCatchUpApplyStep ==
    ASSUME IInv, NEW v \in Validators, FinishCatchUpApply(v)
    PROVE  IInv'
  <1> DEFINE i == applying[v]
  <1>1. NetTypes /\ TaskTypes /\ BudgetTypes /\ Len(cfs) \in Nat
    BY PartsHold, RefTypes DEF IInv
  <1>2. i \in 1 .. Len(cfs) /\ cfs' = cfs
    BY <1>1 DEF FinishCatchUpApply, TaskTypes, Genesis, net
  <1>3. TaskTypes'
    BY <1>1, <1>2 DEF TaskTypes, FinishCatchUpApply, Genesis, router
  <1>4. NetTypes'
    BY <1>1 DEF NetTypes, FinishCatchUpApply, net, store
  <1>5. CASE ApplyFinalized(v, i)
    <2>1. FolderTypes' /\ commitFailures' \in 0 .. MaxCommitFailures
      BY <1>2, <1>5, ApplyFinalizedStep
    <2>2. BudgetTypes'
      BY <1>1, <2>1 DEF BudgetTypes, FinishCatchUpApply
    <2> QED
      BY <1>2, <1>3, <1>4, <2>1, <2>2, Assemble
  <1>6. CASE UNCHANGED <<folder, commitFailures>>
    <2>1. BudgetTypes'
      BY <1>1, <1>6 DEF BudgetTypes, FinishCatchUpApply
    <2> QED
      BY <1>2, <1>3, <1>4, <1>6, <2>1, AssembleQuiet
  <1> QED
    BY <1>5, <1>6 DEF FinishCatchUpApply

\* Ending catch-up keeps the invariant.
LEMMA EndCatchUpStep ==
    ASSUME IInv, NEW v \in Validators, EndCatchUp(v)
    PROVE  IInv'
  <1> USE DEF EndCatchUp, net, store, router, budget
  <1>1. NetTypes /\ TaskTypes /\ BudgetTypes /\ Len(cfs) \in Nat
    BY PartsHold, RefTypes DEF IInv
  <1>2. TaskTypes'
    BY <1>1 DEF TaskTypes, Genesis
  <1>3. NetTypes' /\ BudgetTypes' /\ cfs' = cfs /\ UNCHANGED folder
    BY <1>1 DEF NetTypes, BudgetTypes
  <1> QED
    BY <1>2, <1>3, AssembleQuiet

\* Dropping a timed-out CF keeps the invariant.
LEMMA CleanupTimeoutStep ==
    ASSUME IInv, NEW v \in Validators, NEW i \in Created, CleanupTimeout(v, i)
    PROVE  IInv'
  <1>1. NetTypes /\ TaskTypes /\ BudgetTypes /\ FolderTypes /\ i \in 1 .. Len(cfs)
    BY PartsHold, FolderTypesHold DEF Created
  <1>2. votes[v] \in SUBSET (Validators \X Ids) /\ cfs' = cfs
    BY <1>1 DEF FolderTypes, CleanupTimeout, net
  <1>3. lastFailure' \in [Validators -> Ids \cup {Genesis}]
    BY <1>1 DEF FolderTypes, LedgerTypes, CleanupTimeout
  <1>4. FolderTypes'
    BY <1>1, <1>2, <1>3, ForgetStep DEF FolderTypes, LedgerTypes, CleanupTimeout
  <1>6. NetTypes' /\ TaskTypes'
    BY <1>1, <1>2 DEF NetTypes, TaskTypes, CleanupTimeout, net, store, router, catchup
  <1>7. BudgetTypes'
    BY <1>1, BoundsAssumption DEF BudgetTypes, CleanupTimeout
  <1> QED
    BY <1>2, <1>4, <1>6, <1>7, Assemble

\* Every step keeps the invariant.
LEMMA NextIInv == IInv /\ [Next]_vars => IInv'
  <1> SUFFICES ASSUME IInv, [Next]_vars PROVE IInv'
    OBVIOUS
  <1>1. CASE UNCHANGED vars
    <2> USE <1>1 DEF vars, net, folder, store, router, catchup, budget
    <2>1. TypeOK' /\ RefsExist'
      BY DEF IInv, TypeOK, RefsExist
    <2> QED
      BY <2>1 DEF IInv
  <1>2. ASSUME NEW v \in Validators, NEW r \in 0 .. round[v], NEW E \in SUBSET Events,
               TryCreateCf(v, r, E)
        PROVE  IInv'
    <2>1. r \in Nat
      BY DEF IInv, TypeOK
    <2> QED
      BY <1>2, <2>1, TryCreateCfStep
  <1>3. CASE \E v \in Validators, i \in Created :
               \/ StartReceiveCf(v, i)
               \/ StartReceiveFinalized(v, i) \/ CleanupTimeout(v, i)
    BY <1>3, StartReceiveCfStep, StartReceiveFinalizedStep, CleanupTimeoutStep
  <1>4. CASE \E v, w \in Validators, i \in Created :
               ReceiveVote(v, w, i) \/ StartCatchUpApply(v, w, i)
    BY <1>4, ReceiveVoteStep, StartCatchUpApplyStep
  <1>5. CASE \E v \in Validators :
               \/ FinishReceiveCf(v) \/ DropReceived(v) \/ FinishReceiveFinalized(v)
               \/ \E C \in SUBSET Unindexed(v) : Persist(v, C) \/ PersistFails(v, C)
               \/ Complete(v)
               \/ StartCatchUp(v) \/ FinishCatchUpApply(v) \/ EndCatchUp(v)
    BY <1>5, FinishReceiveCfStep, DropReceivedStep, FinishReceiveFinalizedStep, PersistStep,
       PersistFailsStep, CompleteStep, StartCatchUpStep, FinishCatchUpApplyStep, EndCatchUpStep
  <1> QED
    BY <1>1, <1>2, <1>3, <1>4, <1>5 DEF Next

\* The invariant holds in every reachable state.
LEMMA Inductive == Spec => []IInv
  BY InitIInv, NextIInv, PTL DEF Spec

-----------------------------------------------------------------------------
(* The results.                                                            *)

\* Every variable of the protocol keeps its type, whatever the tasks of the
\* validators interleave.
THEOREM TypeCorrect == Spec => []TypeOK
  <1>1. IInv => TypeOK
    BY DEF IInv
  <1> QED
    BY <1>1, Inductive, PTL

-----------------------------------------------------------------------------
(* Persist before broadcast.                                               *)

\* The router completes a CF only after storing its anchor.
PersistedWhenComplete ==
    \A v \in Validators : pc[v] = "complete" => cur[v] \in anchorStore[v]

BInv == BroadcastAfterPersist /\ PersistedWhenComplete

\* Stored anchors stay, so broadcasts stay covered by them.
LEMMA StoreGrows ==
  ASSUME IInv, BInv, sentFinal' = sentFinal,
         \A v \in Validators : anchorStore[v] \subseteq anchorStore'[v],
         \A v \in Validators : pc'[v] = "complete" => cur'[v] \in anchorStore'[v]
  PROVE  BInv'
  BY DEF BInv, BroadcastAfterPersist, PersistedWhenComplete

\* The steps of the router that store an anchor or complete a CF.
LEMMA PersistAndCompleteBInv ==
  ASSUME IInv, BInv, NEW v \in Validators,
         (\E C \in SUBSET Unindexed(v) : Persist(v, C)) \/ Complete(v)
  PROVE  BInv'
  <1>1. /\ pc \in [Validators -> {"idle", "cf", "final", "persist", "complete"}]
        /\ cur \in [Validators -> Ids \cup {Genesis}]
        /\ anchorStore \in [Validators -> SUBSET Ids]
    BY DEF IInv, TypeOK
  <1>2. CASE \E C \in SUBSET Unindexed(v) : Persist(v, C)
    <2>1. /\ pc' = [pc EXCEPT ![v] = "complete"] /\ cur' = cur
          /\ anchorStore' = [anchorStore EXCEPT ![v] = @ \cup {cur[v]}]
          /\ sentFinal' = sentFinal
      BY <1>2 DEF Persist, net
    <2>2. \A w \in Validators : anchorStore[w] \subseteq anchorStore'[w]
      BY <1>1, <2>1
    <2>3. \A w \in Validators : pc'[w] = "complete" => cur'[w] \in anchorStore'[w]
      BY <1>1, <2>1 DEF BInv, PersistedWhenComplete
    <2> QED
      BY <2>1, <2>2, <2>3, StoreGrows
  <1>3. CASE Complete(v)
    <2>1. /\ pc[v] = "complete" /\ pc' = [pc EXCEPT ![v] = "idle"]
          /\ cur' = [cur EXCEPT ![v] = Genesis]
          /\ anchorStore' = anchorStore
          /\ sentFinal' = sentFinal \cup {cur[v]}
      BY <1>3 DEF Complete, store
    <2>2. cur[v] \in anchorStore[v]
      BY <2>1 DEF BInv, PersistedWhenComplete
    <2>3. BroadcastAfterPersist'
      BY <2>1, <2>2 DEF BInv, BroadcastAfterPersist
    <2>4. PersistedWhenComplete'
      BY <1>1, <2>1 DEF BInv, PersistedWhenComplete
    <2> QED
      BY <2>3, <2>4 DEF BInv
  <1> QED
    BY <1>2, <1>3

\* Steps that move the router of one validator to a place before "complete".
LEMMA RouterMovesBInv ==
  ASSUME IInv, BInv, NEW v \in Validators, NEW i \in Created,
         \/ StartReceiveCf(v, i) \/ FinishReceiveCf(v) \/ DropReceived(v)
         \/ (\E w \in Validators : ReceiveVote(v, w, i))
         \/ StartReceiveFinalized(v, i) \/ FinishReceiveFinalized(v)
         \/ (\E C \in SUBSET Unindexed(v) : PersistFails(v, C))
  PROVE  BInv'
  <1>1. /\ pc \in [Validators -> {"idle", "cf", "final", "persist", "complete"}]
        /\ cur \in [Validators -> Ids \cup {Genesis}]
    BY DEF IInv, TypeOK
  <1>2. sentFinal' = sentFinal /\ anchorStore' = anchorStore
    BY DEF StartReceiveCf, FinishReceiveCf, DropReceived, ReceiveVote,
           StartReceiveFinalized, FinishReceiveFinalized, PersistFails, net, store
  <1>3. \/ pc' = pc /\ cur' = cur
        \/ \E p \in {"idle", "cf", "final", "persist"} : \E j :
             pc' = [pc EXCEPT ![v] = p] /\ cur' = [cur EXCEPT ![v] = j]
    BY DEF StartReceiveCf, FinishReceiveCf, DropReceived, ReceiveVote, RouterAfter,
           StartReceiveFinalized, FinishReceiveFinalized, PersistFails, router
  <1>4. \A w \in Validators : pc'[w] = "complete" => pc[w] = "complete" /\ cur'[w] = cur[w]
    BY <1>1, <1>3
  <1>5. \A w \in Validators : pc'[w] = "complete" => cur'[w] \in anchorStore'[w]
    BY <1>2, <1>4 DEF BInv, PersistedWhenComplete
  <1> QED
    BY <1>2, <1>5, StoreGrows

\* Steps that leave the router and the anchor store alone.
LEMMA OtherBInv ==
  ASSUME IInv, BInv, UNCHANGED <<sentFinal, anchorStore, pc, cur>>
  PROVE  BInv'
  BY StoreGrows DEF BInv, PersistedWhenComplete

\* A CF is announced as finalized only after some validator has stored its
\* anchor (mark_anchor_persisted and complete_pending_finalizations), for any
\* number of validators, persist failures and catch-up runs.
THEOREM PersistedBeforeBroadcast == Spec => []BroadcastAfterPersist
  <1>1. Init => BInv
    BY DEF Init, BInv, BroadcastAfterPersist, PersistedWhenComplete
  <1>2. IInv /\ BInv /\ [Next]_vars => BInv'
    <2> SUFFICES ASSUME IInv, BInv, [Next]_vars PROVE BInv'
      OBVIOUS
    <2>1. CASE UNCHANGED vars
      BY <2>1, OtherBInv DEF vars, net, store, router
    <2>2. ASSUME NEW v \in Validators,
                 (\E C \in SUBSET Unindexed(v) : Persist(v, C)) \/ Complete(v)
          PROVE  BInv'
      BY <2>2, PersistAndCompleteBInv
    <2>3. ASSUME NEW v \in Validators, NEW i \in Created,
                 \/ StartReceiveCf(v, i) \/ FinishReceiveCf(v) \/ DropReceived(v)
                 \/ (\E w \in Validators : ReceiveVote(v, w, i))
                 \/ StartReceiveFinalized(v, i) \/ FinishReceiveFinalized(v)
                 \/ (\E C \in SUBSET Unindexed(v) : PersistFails(v, C))
          PROVE  BInv'
      BY <2>3, RouterMovesBInv
    <2>4. ASSUME NEW v \in Validators,
                 \/ \E r \in 0 .. round[v], E \in SUBSET Events : TryCreateCf(v, r, E)
                 \/ StartCatchUp(v)
                 \/ \E w \in Validators, i \in Created : StartCatchUpApply(v, w, i)
                 \/ FinishCatchUpApply(v) \/ EndCatchUp(v)
                 \/ \E i \in Created : CleanupTimeout(v, i)
          PROVE  BInv'
      <3>1. UNCHANGED <<sentFinal, anchorStore, pc, cur>>
        BY <2>4 DEF TryCreateCf, StartCatchUp, StartCatchUpApply, FinishCatchUpApply,
                    EndCatchUp, CleanupTimeout, net, store, router
      <3> QED
        BY <3>1, OtherBInv
    <2>5. ASSUME NEW v \in Validators,
                 FinishReceiveCf(v) \/ DropReceived(v) \/ FinishReceiveFinalized(v)
                     \/ (\E C \in SUBSET Unindexed(v) : PersistFails(v, C))
          PROVE  cur[v] \in Created
      <3>1. pc[v] # "idle"
        BY <2>5 DEF FinishReceiveCf, DropReceived, FinishReceiveFinalized, PersistFails
      <3> QED
        BY <3>1, NAssumption DEF IInv, RefsExist, Created, Genesis, TypeOK
    <2> QED
      BY <2>1, <2>2, <2>3, <2>4, <2>5 DEF Next
  <1>3. BInv => BroadcastAfterPersist
    BY DEF BInv
  <1> QED
    BY <1>1, <1>2, <1>3, Inductive, PTL DEF Spec

-----------------------------------------------------------------------------
(* One open build per proposer.                                            *)

\* What proposing does to the CFs and to what is pending.
LEMMA CreateEffect ==
  ASSUME IInv, NEW v \in Validators, NEW r \in Nat, NEW E \in SUBSET Events,
         TryCreateCf(v, r, E)
  PROVE  /\ Len(cfs) \in Nat /\ Len(cfs') = Len(cfs) + 1
         /\ \A i \in 1 .. Len(cfs) : cfs'[i] = cfs[i]
         /\ cfs'[Len(cfs) + 1] = PreparedCf(v, r, E)
         /\ cfs'[Len(cfs) + 1].proposer = v /\ cfs'[Len(cfs) + 1].prev = chain[v]
         /\ cfs'[Len(cfs) + 1].events = E
         /\ cfs'[Len(cfs) + 1].root = gsm[v] \cup E
         /\ pending' = [pending EXCEPT ![v] = @ \cup {Len(cfs) + 1}]
         /\ votes' = [votes EXCEPT ![v] = @ \cup {<<v, Len(cfs) + 1>>}]
         /\ sentVotes' = sentVotes \cup {<<v, Len(cfs) + 1>>}
         /\ Builds(v) = {} /\ E # {} /\ E \subseteq Selectable(v)
         /\ UNCHANGED <<sentFinal, round, chain, gsm, done, finalized, completions, torn,
                        anchorStore, cfStore, pc, cur, catching, applying>>
  <1>1. chain[v] \in Nat /\ gsm[v] \subseteq Events
    BY DEF IInv, TypeOK, Ids, Genesis
  <1>2. PreparedCf(v, r, E) \in CfRecord
    BY <1>1 DEF CfRecord, PreparedCf
  <1>3. cfs' = Append(cfs, PreparedCf(v, r, E)) /\ cfs \in Seq(CfRecord)
    BY DEF IInv, TypeOK, TryCreateCf, OpenBuild
  <1> HIDE DEF PreparedCf
  <1>4. /\ Len(cfs) \in Nat /\ Len(cfs') = Len(cfs) + 1
        /\ \A i \in 1 .. Len(cfs) : cfs'[i] = cfs[i]
        /\ cfs'[Len(cfs) + 1] = PreparedCf(v, r, E)
    BY <1>2, <1>3
  <1>5. /\ PreparedCf(v, r, E).proposer = v /\ PreparedCf(v, r, E).prev = chain[v]
        /\ PreparedCf(v, r, E).events = E /\ PreparedCf(v, r, E).root = gsm[v] \cup E
    BY DEF PreparedCf
  <1> QED
    BY <1>4, <1>5 DEF TryCreateCf, OpenBuild, store, router, catchup

\* The router only works on proposals of others.
ForeignProposal == \A v \in Validators : pc[v] = "cf" => cfs[cur[v]].proposer # v

SingleBuild ==
    \A v \in Validators : \A i, j \in pending[v] :
        cfs[i].proposer = v /\ cfs[j].proposer = v => i = j

OInv == ForeignProposal /\ SingleBuild

\* A step that creates no CF adds to what is pending at most the proposal that
\* the router works on.
LEMMA QuietOInv ==
  ASSUME IInv, OInv, cfs' = cfs,
         \A w \in Validators : \A i \in pending'[w] :
             i \in pending[w] \/ (pc[w] = "cf" /\ i = cur[w]),
         \A w \in Validators : pc'[w] = "cf" => cfs[cur'[w]].proposer # w
  PROVE  OInv'
  BY DEF OInv, ForeignProposal, SingleBuild

\* The router is at a proposal afterwards only if it was there before.
LEMMA RouterOInv ==
  ASSUME IInv, OInv, NEW v \in Validators, NEW p \in {"idle", "final", "persist", "complete"},
         pc' = [pc EXCEPT ![v] = p], \E j : cur' = [cur EXCEPT ![v] = j]
  PROVE  \A w \in Validators : pc'[w] = "cf" => cfs[cur'[w]].proposer # w
  <1>1. /\ pc \in [Validators -> {"idle", "cf", "final", "persist", "complete"}]
        /\ cur \in [Validators -> Ids \cup {Genesis}]
    BY DEF IInv, TypeOK
  <1> QED
    BY <1>1 DEF OInv, ForeignProposal

\* Classifying CF i leaves pending what was, with or without i.
LEMMA ClassifyPending ==
  ASSUME IInv, NEW v \in Validators, NEW i, NEW vs, Classify(v, i, vs)
  PROVE  \A w \in Validators : \A j \in pending'[w] : j \in pending[w] \/ (w = v /\ j = i)
  BY DEF Classify, Forget, IInv, TypeOK

\* Every step keeps at most one open build per validator.
LEMMA NextOInv == IInv /\ OInv /\ [Next]_vars => OInv'
  <1> SUFFICES ASSUME IInv, OInv, [Next]_vars PROVE OInv'
    OBVIOUS
  <1>0. /\ pc \in [Validators -> {"idle", "cf", "final", "persist", "complete"}]
        /\ cur \in [Validators -> Ids \cup {Genesis}]
        /\ pending \in [Validators -> SUBSET Ids]
    BY DEF IInv, TypeOK
  <1>1. CASE UNCHANGED vars
    BY <1>1 DEF vars, net, folder, router, OInv, ForeignProposal, SingleBuild
  <1>2. ASSUME NEW v \in Validators, NEW r \in 0 .. round[v], NEW E \in SUBSET Events,
               TryCreateCf(v, r, E)
        PROVE  OInv'
    <2> DEFINE n == Len(cfs) + 1
    <2>1. r \in Nat
      BY DEF IInv, TypeOK
    <2>2. /\ Len(cfs) \in Nat
          /\ \A i \in 1 .. Len(cfs) : cfs'[i] = cfs[i]
          /\ pending' = [pending EXCEPT ![v] = @ \cup {n}]
          /\ \A i \in pending[v] : cfs[i].proposer # v
          /\ pc' = pc /\ cur' = cur
      BY <1>2, <2>1, CreateEffect DEF Builds
    <2>3. ForeignProposal'
      BY <2>2 DEF OInv, ForeignProposal, IInv, RefsExist, Genesis
    <2>4. ASSUME NEW w \in Validators, w # v PROVE pending'[w] = pending[w]
      BY <1>0, <2>2, <2>4
    <2>5. pending'[v] = pending[v] \cup {n}
      BY <1>0, <2>2
    <2>6. \A w \in Validators : pending[w] \subseteq 1 .. Len(cfs)
      BY DEF IInv, RefsExist
    <2>7. SingleBuild'
      <3> SUFFICES ASSUME NEW w \in Validators, NEW i \in pending'[w], NEW j \in pending'[w],
                          cfs'[i].proposer = w, cfs'[j].proposer = w
                   PROVE  i = j
        BY DEF SingleBuild
      <3>1. CASE w # v
        BY <2>2, <2>4, <2>6, <3>1 DEF OInv, SingleBuild
      <3>2. CASE w = v
        <4>1. \A k \in pending[v] : cfs'[k].proposer # v
          BY <2>2, <2>6
        <4> QED
          BY <3>2, <2>5, <4>1
      <3> QED
        BY <3>1, <3>2
    <2> QED
      BY <2>3, <2>7 DEF OInv
  <1>3. ASSUME NEW v \in Validators, NEW i \in Created, StartReceiveCf(v, i)
        PROVE  OInv'
    <2>1. \A w \in Validators : pc'[w] = "cf" => cfs[cur'[w]].proposer # w
      BY <1>0, <1>3 DEF StartReceiveCf, OInv, ForeignProposal
    <2> QED
      BY <1>3, <2>1, QuietOInv DEF StartReceiveCf, net, folder
  <1>4. ASSUME NEW v \in Validators,
               \/ StartCatchUp(v)
               \/ \E w \in Validators, i \in Created : StartCatchUpApply(v, w, i)
               \/ EndCatchUp(v)
        PROVE  OInv'
    BY <1>4, QuietOInv DEF StartCatchUp, StartCatchUpApply, EndCatchUp, net, folder, router,
                           OInv, ForeignProposal
  <1>5. ASSUME NEW v \in Validators, FinishReceiveCf(v)
        PROVE  OInv'
    <2>1. \A w \in Validators : \A j \in pending'[w] :
             j \in pending[w] \/ (pc[w] = "cf" /\ j = cur[w])
      BY <1>5, ClassifyPending DEF FinishReceiveCf
    <2>2. \A w \in Validators : pc'[w] = "cf" => cfs[cur'[w]].proposer # w
      BY <1>5, RouterOInv DEF FinishReceiveCf, RouterAfter
    <2> QED
      BY <1>5, <2>1, <2>2, QuietOInv DEF FinishReceiveCf
  <1>6. ASSUME NEW v \in Validators, NEW w \in Validators, NEW i \in Created, ReceiveVote(v, w, i)
        PROVE  OInv'
    <2>1. CASE i \in pending[v] /\ Classify(v, i, votes[v] \cup {<<w, i>>}) /\ RouterAfter(v, i)
      <3>1. \A x \in Validators : \A j \in pending'[x] : j \in pending[x]
        BY <2>1, ClassifyPending
      <3>2. \A x \in Validators : pc'[x] = "cf" => cfs[cur'[x]].proposer # x
        BY <2>1, RouterOInv DEF RouterAfter
      <3> QED
        BY <1>6, <3>1, <3>2, QuietOInv DEF ReceiveVote, net
    <2>2. CASE UNCHANGED <<pending, router>>
      BY <1>6, <2>2, QuietOInv DEF ReceiveVote, net, router, OInv, ForeignProposal
    <2> QED
      BY <1>6, <2>1, <2>2 DEF ReceiveVote
  <1>7. ASSUME NEW v \in Validators,
               \/ DropReceived(v)
               \/ \E i \in Created : StartReceiveFinalized(v, i)
               \/ \E C \in SUBSET Unindexed(v) : PersistFails(v, C)
               \/ Complete(v)
        PROVE  OInv'
    <2>1. /\ cfs' = cfs /\ pending' = pending
          /\ \E p \in {"idle", "final"} : pc' = [pc EXCEPT ![v] = p]
          /\ \E j : cur' = [cur EXCEPT ![v] = j]
      BY <1>7 DEF DropReceived, StartReceiveFinalized, PersistFails, Complete, net, folder
    <2>2. \A w \in Validators : pc'[w] = "cf" => cfs[cur'[w]].proposer # w
      BY <2>1, RouterOInv
    <2> QED
      BY <2>1, <2>2, QuietOInv
  <1>8. ASSUME NEW v \in Validators, NEW C \in SUBSET Unindexed(v), Persist(v, C)
        PROVE  OInv'
    <2>1. /\ cfs' = cfs /\ pending' = pending /\ cur' = cur
          /\ pc' = [pc EXCEPT ![v] = "complete"]
      BY <1>8 DEF Persist, net, folder
    <2>2. \A w \in Validators : pc'[w] = "cf" => cfs[cur'[w]].proposer # w
      BY <1>0, <2>1 DEF OInv, ForeignProposal
    <2> QED
      BY <2>1, <2>2, QuietOInv
  <1>9. ASSUME NEW v \in Validators,
               FinishReceiveFinalized(v) \/ FinishCatchUpApply(v)
                   \/ \E i \in Created : CleanupTimeout(v, i)
        PROVE  OInv'
    <2>1. /\ cfs' = cfs
          /\ \/ pending' = pending
             \/ \E i : pending' = [pending EXCEPT ![v] = @ \ {i}]
      BY <1>9 DEF FinishReceiveFinalized, FinishCatchUpApply, CleanupTimeout, ApplyFinalized,
                  Forget, net, folder
    <2>2. \A w \in Validators : pending'[w] \subseteq pending[w]
      BY <1>0, <2>1
    <2>3. CASE FinishReceiveFinalized(v)
      <3>1. \A w \in Validators : pc'[w] = "cf" => cfs[cur'[w]].proposer # w
        BY <2>3, RouterOInv DEF FinishReceiveFinalized, RouterAfter
      <3> QED
        BY <2>1, <2>2, <3>1, QuietOInv
    <2>4. CASE UNCHANGED router
      BY <2>1, <2>2, <2>4, QuietOInv DEF router, OInv, ForeignProposal
    <2> QED
      BY <1>9, <2>3, <2>4 DEF FinishCatchUpApply, CleanupTimeout
  <1> QED
    BY <1>1, <1>2, <1>3, <1>4, <1>5, <1>6, <1>7, <1>8, <1>9 DEF Next

\* Every proposer has at most one open build (can_start_new_pending_build),
\* whatever submitted events, heartbeats, timeouts and late votes interleave:
\* the router never takes up a proposal of its own.
THEOREM OneOpenBuildHolds == Spec => []OneOpenBuild
  <1>1. Init => OInv
    BY DEF Init, OInv, ForeignProposal, SingleBuild
  <1>2. IInv /\ OInv => OneOpenBuild
    <2> SUFFICES ASSUME IInv, OInv, NEW v \in Validators PROVE Cardinality(Builds(v)) <= 1
      BY DEF OneOpenBuild
    <2>1. CASE Builds(v) = {}
      BY <2>1, FS_EmptySet
    <2>2. ASSUME NEW i \in Builds(v) PROVE Cardinality(Builds(v)) <= 1
      <3>1. Builds(v) = {i}
        BY <2>2 DEF Builds, OInv, SingleBuild
      <3>2. Cardinality({i}) = 1
        BY FS_Singleton, Zenon
      <3> QED
        BY <3>1, <3>2
    <2> QED
      BY <2>1, <2>2
  <1> QED
    BY <1>1, <1>2, NextOInv, Inductive, PTL DEF Spec

-----------------------------------------------------------------------------
(* A quorum behind every finalized CF.                                     *)

\* Finalizing a CF adds it to the finalized ones of one validator.
LEMMA FinalizedAppend ==
  ASSUME IInv, NEW v \in Validators, NEW i \in Ids,
         finalized' = [finalized EXCEPT ![v] = Append(@, i)]
  PROVE  /\ FinalizedCfs(v)' = FinalizedCfs(v) \cup {i}
         /\ \A w \in Validators \ {v} : FinalizedCfs(w)' = FinalizedCfs(w)
  <1>1. finalized \in [Validators -> Seq(Ids)]
    BY DEF IInv, TypeOK
  <1>2. \A w \in Validators \ {v} : finalized'[w] = finalized[w]
    BY <1>1
  <1>3. finalized'[v] = Append(finalized[v], i) /\ finalized[v] \in Seq(Ids)
    BY <1>1
  <1>4. /\ Len(finalized'[v]) = Len(finalized[v]) + 1 /\ Len(finalized[v]) \in Nat
        /\ \A k \in 1 .. Len(finalized[v]) : finalized'[v][k] = finalized[v][k]
        /\ finalized'[v][Len(finalized[v]) + 1] = i
    BY <1>3
  <1>5. FinalizedCfs(v)' = FinalizedCfs(v) \cup {i}
    BY <1>4 DEF FinalizedCfs
  <1> QED
    BY <1>2, <1>5 DEF FinalizedCfs

Backed(i) == 3 * Cardinality(VotersOf(sentVotes, i)) > 2 * N

\* More than two thirds of the validators are behind a quorum of votes that
\* were all sent.
LEMMA QuorumIsBacked ==
  ASSUME NEW i, NEW vs, NEW sent, vs \subseteq sent, HasQuorum(vs, i)
  PROVE  3 * Cardinality(VotersOf(sent, i)) > 2 * N
  <1>1. IsFiniteSet(Validators)
    BY FS_Interval, NAssumption DEF Validators
  <1>2. VotersOf(vs, i) \subseteq VotersOf(sent, i) /\ VotersOf(sent, i) \subseteq Validators
    BY DEF VotersOf
  <1>3. IsFiniteSet(VotersOf(sent, i))
    BY <1>1, <1>2, FS_Subset
  <1>4. Cardinality(VotersOf(vs, i)) <= Cardinality(VotersOf(sent, i))
    BY <1>2, <1>3, FS_Subset
  <1>5. Cardinality(VotersOf(vs, i)) \in Nat /\ Cardinality(VotersOf(sent, i)) \in Nat
    BY <1>2, <1>3, FS_Subset, FS_CardinalityType
  <1>6. Cardinality(VotersOf(vs, i)) >= (N * 2) \div 3 + 1
    BY DEF HasQuorum, Quorum
  <1> QED
    BY <1>4, <1>5, <1>6, NAssumption

\* A backed CF stays so.
LEMMA BackedGrows ==
  ASSUME NEW i, sentVotes \subseteq sentVotes', Backed(i)
  PROVE  Backed(i)'
  <1>1. IsFiniteSet(Validators)
    BY FS_Interval, NAssumption DEF Validators
  <1>2. /\ VotersOf(sentVotes, i) \subseteq VotersOf(sentVotes', i)
        /\ VotersOf(sentVotes', i) \subseteq Validators
    BY DEF VotersOf
  <1>3. IsFiniteSet(VotersOf(sentVotes', i))
    BY <1>1, <1>2, FS_Subset
  <1>4. Cardinality(VotersOf(sentVotes, i)) <= Cardinality(VotersOf(sentVotes', i))
    BY <1>2, <1>3, FS_Subset
  <1>5. /\ Cardinality(VotersOf(sentVotes, i)) \in Nat
        /\ Cardinality(VotersOf(sentVotes', i)) \in Nat
    BY <1>2, <1>3, FS_Subset, FS_CardinalityType
  <1>6. 3 * Cardinality(VotersOf(sentVotes', i)) > 2 * N
    BY <1>4, <1>5, NAssumption DEF Backed
  <1> QED
    BY <1>6 DEF Backed, VotersOf

\* Every vote a validator counts was sent, the proposer's own included.
VotesSent ==
    /\ \A v \in Validators : votes[v] \subseteq sentVotes
    /\ \A i \in 1 .. Len(cfs) : <<cfs[i].proposer, i>> \in sentVotes

\* The ways in which a validator takes CF i for finalized: it is in its memory
\* or its store, or the router or the catch-up task is dealing with it.
TakenFor(v, i) ==
    \/ i \in FinalizedCfs(v) \/ i \in cfStore[v]
    \/ pc[v] \in {"final", "persist", "complete"} /\ i = cur[v]
    \/ applying[v] # Genesis /\ i = applying[v]

Claimed(i) == i \in sentFinal \/ \E v \in Validators : TakenFor(v, i)

QInv == VotesSent /\ \A i : Claimed(i) => Backed(i)

\* A step that claims only what was claimed before or has a quorum now.
LEMMA ClaimsBacked ==
  ASSUME QInv, sentVotes \subseteq sentVotes',
         \A i : Claimed(i)' => Claimed(i) \/ Backed(i)'
  PROVE  \A i : Claimed(i)' => Backed(i)'
  BY BackedGrows DEF QInv

\* classify_finalization keeps the votes among those sent, and claims CF i
\* only with a quorum.
LEMMA ClassifyQInv ==
  ASSUME IInv, QInv, NEW v \in Validators, NEW i \in 1 .. Len(cfs), NEW vs,
         Classify(v, i, vs), RouterAfter(v, i),
         sentVotes \subseteq sentVotes', vs \subseteq sentVotes',
         UNCHANGED <<cfs, sentFinal, cfStore, applying>>
  PROVE  QInv'
  <1>0. /\ pc \in [Validators -> {"idle", "cf", "final", "persist", "complete"}]
        /\ cur \in [Validators -> Ids \cup {Genesis}] /\ i \in Ids
        /\ votes \in [Validators -> SUBSET (Validators \X Ids)]
    BY RefTypes DEF IInv, TypeOK
  <1>1. VotesSent'
    <2>1. \A w \in Validators : votes'[w] \subseteq sentVotes'
      BY <1>0 DEF Classify, Forget, QInv, VotesSent
    <2> QED
      BY <2>1 DEF QInv, VotesSent
  <1>2. \A w \in Validators \ {v} : pc'[w] = pc[w] /\ cur'[w] = cur[w]
    BY <1>0 DEF RouterAfter
  <1>3. CASE HasQuorum(vs, i) /\ Commit(v, i)
    <2>1. Backed(i)'
      BY <1>3, QuorumIsBacked DEF Backed, VotersOf
    <2>2. /\ FinalizedCfs(v)' = FinalizedCfs(v) \cup {i}
          /\ \A w \in Validators \ {v} : FinalizedCfs(w)' = FinalizedCfs(w)
      <3>1. finalized' = [finalized EXCEPT ![v] = Append(@, i)]
        BY <1>3 DEF Commit
      <3> QED
        BY <1>0, <3>1, FinalizedAppend
    <2>3. cur'[v] = i \/ pc'[v] = "idle"
      BY <1>0 DEF RouterAfter
    <2>4. \A j : Claimed(j)' => Claimed(j) \/ j = i
      BY <1>2, <2>2, <2>3 DEF Claimed, TakenFor
    <2> QED
      BY <1>1, <2>1, <2>4, ClaimsBacked DEF QInv
  <1>4. CASE UNCHANGED finalized
    <2>1. pc'[v] = "idle"
      BY <1>0, <1>4 DEF RouterAfter
    <2>2. \A j : Claimed(j)' => Claimed(j)
      BY <1>2, <1>4, <2>1 DEF Claimed, TakenFor, FinalizedCfs
    <2> QED
      BY <1>1, <2>2, ClaimsBacked DEF QInv
  <1> QED
    BY <1>3, <1>4 DEF Classify, Decide, CommitFails, Discard

\* receive_finalized_cf is only given CFs that are claimed already.
LEMMA ApplyFinalizedQInv ==
  ASSUME IInv, QInv, NEW v \in Validators, NEW i \in Ids, TakenFor(v, i),
         ApplyFinalized(v, i), UNCHANGED <<cfs, sentVotes, sentFinal, cfStore>>,
         \A w \in Validators : pc'[w] \in {"final", "persist", "complete"}
             => TakenFor(w, cur'[w]),
         \A w \in Validators : applying'[w] \in {applying[w], Genesis}
  PROVE  QInv'
  <1>0. votes \in [Validators -> SUBSET (Validators \X Ids)]
    BY DEF IInv, TypeOK
  <1>1. VotesSent'
    BY <1>0 DEF ApplyFinalized, Forget, QInv, VotesSent
  <1>2. \A w \in Validators : \A j \in FinalizedCfs(w)' : j \in FinalizedCfs(w) \/ j = i
    <2>1. CASE Commit(v, i)
      <3>1. finalized' = [finalized EXCEPT ![v] = Append(@, i)]
        BY <2>1 DEF Commit
      <3>2. /\ FinalizedCfs(v)' = FinalizedCfs(v) \cup {i}
            /\ \A w \in Validators \ {v} : FinalizedCfs(w)' = FinalizedCfs(w)
        BY <3>1, FinalizedAppend
      <3> QED
        BY <3>2
    <2>2. CASE UNCHANGED finalized
      BY <2>2 DEF FinalizedCfs
    <2> QED
      BY <2>1, <2>2 DEF ApplyFinalized, Decide, CommitFails, Discard
  <1>3. \A j : Claimed(j)' => Claimed(j)
    BY <1>2 DEF Claimed, TakenFor
  <1> QED
    BY <1>1, <1>3, ClaimsBacked DEF QInv

\* A step that leaves the votes alone and claims nothing new.
LEMMA QuietQInv ==
  ASSUME IInv, QInv, UNCHANGED <<cfs, sentVotes>>,
         \A w \in Validators : votes'[w] \subseteq sentVotes,
         \A j : Claimed(j)' => Claimed(j)
  PROVE  QInv'
  BY ClaimsBacked DEF QInv, VotesSent

\* Every step keeps what is claimed final backed by votes that were sent.
LEMMA NextQInv == IInv /\ QInv /\ [Next]_vars => QInv'
  <1> SUFFICES ASSUME IInv, QInv, [Next]_vars PROVE QInv'
    OBVIOUS
  <1>0. /\ pc \in [Validators -> {"idle", "cf", "final", "persist", "complete"}]
        /\ cur \in [Validators -> Ids \cup {Genesis}]
        /\ applying \in [Validators -> Ids \cup {Genesis}]
        /\ cfStore \in [Validators -> SUBSET Ids]
        /\ votes \in [Validators -> SUBSET (Validators \X Ids)]
        /\ \A w \in Validators : votes[w] \subseteq sentVotes
    BY DEF IInv, TypeOK, QInv, VotesSent
  <1>1. CASE UNCHANGED vars
    <2>1. \A j : Claimed(j)' => Claimed(j)
      BY <1>1 DEF vars, net, folder, store, router, catchup, Claimed, TakenFor, FinalizedCfs
    <2> QED
      BY <1>0, <1>1, <2>1, QuietQInv DEF vars, net, folder
  <1>2. ASSUME NEW v \in Validators, NEW r \in 0 .. round[v], NEW E \in SUBSET Events,
               TryCreateCf(v, r, E)
        PROVE  QInv'
    <2>1. r \in Nat
      BY DEF IInv, TypeOK
    <2>2. /\ Len(cfs) \in Nat /\ Len(cfs') = Len(cfs) + 1
          /\ \A i \in 1 .. Len(cfs) : cfs'[i] = cfs[i]
          /\ cfs'[Len(cfs) + 1].proposer = v
          /\ votes' = [votes EXCEPT ![v] = @ \cup {<<v, Len(cfs) + 1>>}]
          /\ sentVotes' = sentVotes \cup {<<v, Len(cfs) + 1>>}
          /\ UNCHANGED <<sentFinal, finalized, cfStore, pc, cur, applying>>
      BY <1>2, <2>1, CreateEffect
    <2>3. \A i \in 1 .. Len(cfs') : <<cfs'[i].proposer, i>> \in sentVotes'
      BY <2>2 DEF QInv, VotesSent
    <2>4. VotesSent'
      BY <1>0, <2>2, <2>3 DEF VotesSent
    <2>5. \A j : Claimed(j)' => Claimed(j)
      BY <2>2 DEF Claimed, TakenFor, FinalizedCfs
    <2> QED
      BY <2>2, <2>4, <2>5, ClaimsBacked DEF QInv
  <1>3. ASSUME NEW v \in Validators,
               \/ \E i \in Created : StartReceiveCf(v, i)
               \/ StartCatchUp(v) \/ DropReceived(v) \/ EndCatchUp(v)
               \/ \E i \in Created : CleanupTimeout(v, i)
        PROVE  QInv'
    <2>1. /\ UNCHANGED <<cfs, sentVotes, sentFinal, finalized, cfStore>>
          /\ \A w \in Validators : votes'[w] \subseteq votes[w]
          /\ \/ UNCHANGED <<pc, cur>>
             \/ (\E p \in {"idle", "cf"} : pc' = [pc EXCEPT ![v] = p])
                  /\ (\E j : cur' = [cur EXCEPT ![v] = j])
          /\ applying' = applying \/ applying' = [applying EXCEPT ![v] = Genesis]
      BY <1>0, <1>3 DEF StartReceiveCf, StartCatchUp, DropReceived, EndCatchUp, CleanupTimeout,
                        Forget, net, folder, store, router, catchup
    <2>2. \A j : Claimed(j)' => Claimed(j)
      BY <1>0, <2>1 DEF Claimed, TakenFor, FinalizedCfs
    <2> QED
      BY <1>0, <2>1, <2>2, QuietQInv
  <1>4. ASSUME NEW v \in Validators, FinishReceiveCf(v)
        PROVE  QInv'
    <2> DEFINE i == cur[v]
    <2>1. i \in 1 .. Len(cfs)
      BY <1>4 DEF FinishReceiveCf, IInv, RefsExist, TypeOK, Genesis
    <2>2. <<cfs[i].proposer, i>> \in sentVotes
      BY <2>1 DEF QInv, VotesSent
    <2>3. sentVotes \subseteq sentVotes' /\ VotesAtReceipt(v, i) \subseteq sentVotes'
      BY <1>0, <1>4, <2>2 DEF FinishReceiveCf, VotesAtReceipt
    <2> QED
      BY <1>4, <2>1, <2>3, ClassifyQInv DEF FinishReceiveCf, store, catchup
  <1>5. ASSUME NEW v \in Validators, NEW w \in Validators, NEW i \in Created, ReceiveVote(v, w, i)
        PROVE  QInv'
    <2>1. /\ UNCHANGED <<cfs, sentVotes, sentFinal, cfStore, applying>>
          /\ <<w, i>> \in sentVotes
      BY <1>5 DEF ReceiveVote, net, store, catchup
    <2>2. CASE Classify(v, i, votes[v] \cup {<<w, i>>}) /\ RouterAfter(v, i)
      BY <1>0, <2>1, <2>2, ClassifyQInv DEF Created
    <2>3. CASE /\ votes' = [votes EXCEPT ![v] = @ \cup {<<w, i>>}]
               /\ UNCHANGED <<finalized, router>>
      <3>1. \A j : Claimed(j)' => Claimed(j)
        BY <2>1, <2>3 DEF Claimed, TakenFor, FinalizedCfs, router
      <3> QED
        BY <1>0, <2>1, <2>3, <3>1, QuietQInv
    <2> QED
      BY <1>5, <2>2, <2>3 DEF ReceiveVote
  <1>6. ASSUME NEW v \in Validators, NEW i \in Created, StartReceiveFinalized(v, i)
        PROVE  QInv'
    <2>1. \A j : Claimed(j)' => Claimed(j)
      BY <1>0, <1>6 DEF StartReceiveFinalized, Claimed, TakenFor, FinalizedCfs, net, folder,
                        store, catchup
    <2> QED
      BY <1>0, <1>6, <2>1, QuietQInv DEF StartReceiveFinalized, net, folder
  <1>7. ASSUME NEW v \in Validators, FinishReceiveFinalized(v)
        PROVE  QInv'
    <2>1. cur[v] \in Ids /\ TakenFor(v, cur[v])
      BY <1>0, <1>7 DEF FinishReceiveFinalized, TakenFor, IInv, RefsExist
    <2>2. \A w \in Validators : pc'[w] \in {"final", "persist", "complete"}
             => TakenFor(w, cur'[w])
      BY <1>0, <1>7 DEF FinishReceiveFinalized, RouterAfter, TakenFor
    <2> QED
      BY <1>7, <2>1, <2>2, ApplyFinalizedQInv DEF FinishReceiveFinalized, net, store, catchup
  <1>8. ASSUME NEW v \in Validators, NEW C \in SUBSET Unindexed(v),
               Persist(v, C) \/ PersistFails(v, C)
        PROVE  QInv'
    <2>1. /\ UNCHANGED <<cfs, sentVotes, sentFinal, finalized, votes, applying>>
          /\ cfStore' = [cfStore EXCEPT ![v] = @ \cup C]
          /\ \/ pc' = [pc EXCEPT ![v] = "complete"] /\ cur' = cur /\ pc[v] = "persist"
             \/ pc' = [pc EXCEPT ![v] = "idle"] /\ cur' = [cur EXCEPT ![v] = Genesis]
      BY <1>8 DEF Persist, PersistFails, net, folder, catchup
    <2>2. C \subseteq FinalizedCfs(v)
      BY DEF Unindexed
    <2>3. \A j : Claimed(j)' => Claimed(j)
      BY <1>0, <2>1, <2>2 DEF Claimed, TakenFor, FinalizedCfs
    <2> QED
      BY <1>0, <2>1, <2>3, QuietQInv
  <1>9. ASSUME NEW v \in Validators, Complete(v)
        PROVE  QInv'
    <2>1. /\ UNCHANGED <<cfs, sentVotes, finalized, votes, applying, cfStore>>
          /\ sentFinal' = sentFinal \cup {cur[v]} /\ pc[v] = "complete"
          /\ pc' = [pc EXCEPT ![v] = "idle"] /\ cur' = [cur EXCEPT ![v] = Genesis]
      BY <1>9 DEF Complete, store, catchup
    <2>2. \A j : Claimed(j)' => Claimed(j)
      BY <1>0, <2>1 DEF Claimed, TakenFor, FinalizedCfs
    <2> QED
      BY <1>0, <2>1, <2>2, QuietQInv
  <1>10. ASSUME NEW v \in Validators, NEW w \in Validators, NEW i \in Created,
                StartCatchUpApply(v, w, i)
         PROVE  QInv'
    <2>1. \A j : Claimed(j)' => Claimed(j)
      BY <1>0, <1>10 DEF StartCatchUpApply, Claimed, TakenFor, FinalizedCfs, net, folder,
                         store, router
    <2> QED
      BY <1>0, <1>10, <2>1, QuietQInv DEF StartCatchUpApply, net, folder
  <1>11. ASSUME NEW v \in Validators, FinishCatchUpApply(v)
         PROVE  QInv'
    <2>1. applying[v] \in Ids /\ TakenFor(v, applying[v])
      BY <1>0, <1>11 DEF FinishCatchUpApply, TakenFor
    <2>2. \A w \in Validators : pc'[w] \in {"final", "persist", "complete"}
             => TakenFor(w, cur'[w])
      BY <1>11 DEF FinishCatchUpApply, router, TakenFor
    <2>3. /\ UNCHANGED <<cfs, sentVotes, sentFinal, cfStore>>
          /\ \A w \in Validators : applying'[w] \in {applying[w], Genesis}
      BY <1>0, <1>11 DEF FinishCatchUpApply, net, store
    <2>4. CASE ApplyFinalized(v, applying[v])
      BY <2>1, <2>2, <2>3, <2>4, ApplyFinalizedQInv
    <2>5. CASE UNCHANGED folder
      <3>1. \A j : Claimed(j)' => Claimed(j)
        BY <1>11, <2>3, <2>5 DEF FinishCatchUpApply, Claimed, TakenFor, FinalizedCfs, folder, router
      <3> QED
        BY <1>0, <2>3, <2>5, <3>1, QuietQInv DEF folder
    <2> QED
      BY <1>11, <2>4, <2>5 DEF FinishCatchUpApply
  <1> QED
    BY <1>1, <1>2, <1>3, <1>4, <1>5, <1>6, <1>7, <1>8, <1>9, <1>10, <1>11 DEF Next

\* Nothing is claimed at the start.
LEMMA InitQInv == Init => QInv
  BY DEF Init, QInv, VotesSent, Claimed, TakenFor, FinalizedCfs, Genesis

\* No validator finalizes a CF without the votes of more than two thirds of
\* all validators (check_quorum), for any number of validators: not through
\* replayed votes, a peer's notification or a peer's store either.
THEOREM QuorumBackedHolds == Spec => []QuorumBacked
  <1>1. Init => QInv
    BY InitQInv
  <1>2. QInv => QuorumBacked
    BY DEF QInv, QuorumBacked, Claimed, TakenFor, Backed
  <1> QED
    BY <1>1, <1>2, NextQInv, Inductive, PTL DEF Spec

-----------------------------------------------------------------------------
(* What a step may do to the ledger of a validator.                        *)

\* The ballots stay, or v's for CF i is added.
MayVote(v, i) == sentVotes' \in {sentVotes, sentVotes \cup {<<v, i>>}}

\* The CFs a validator may come to decide on: pending ones, and those the
\* router or the catch-up task has let pass the checks made before the fetch.
InHand(v, i) ==
    \/ i \in pending[v]
    \/ pc[v] \in {"cf", "final"} /\ i = cur[v]
    \/ applying[v] # Genesis /\ i = applying[v]

TakesUp(v, i) ==
    /\ i \notin FinalizedCfs(v) /\ InHand(v, i)
    /\ UNCHANGED <<cfs, round, anchorStore, sentFinal>> /\ MayVote(v, i)

\* No router arrives at "persist" or "complete".
RoutersKept ==
    \A w \in Validators :
        pc'[w] \in {"persist", "complete"} => pc'[w] = pc[w] /\ cur'[w] = cur[w]

CommitsNew(v, i) ==
    /\ TakesUp(v, i) /\ Commit(v, i)
    /\ \A w \in Validators :
         \/ pc'[w] = pc[w] /\ cur'[w] = cur[w]
         \/ w = v /\ pc'[w] = "persist" /\ cur'[w] = i

FailsNew(v, i) == TakesUp(v, i) /\ CommitFails(v, i) /\ Backed(i)' /\ RoutersKept

LedgerKept ==
    /\ UNCHANGED <<cfs, chain, gsm, done, finalized, completions, torn, anchorStore, round, sentFinal>>
    /\ sentVotes' = sentVotes \/ \E v \in Validators, i \in 1 .. Len(cfs) : MayVote(v, i)
    /\ RoutersKept

\* A decision commits CF i, fails to, or leaves the ledger of v alone.
LEMMA DecideCases ==
  ASSUME NEW v, NEW i, Decide(v, i)
  PROVE  \/ Commit(v, i)
         \/ CommitFails(v, i)
         \/ UNCHANGED <<chain, gsm, done, finalized, completions, torn>>
  BY DEF Decide, Discard

\* A router that classified CF i has gone on to persist it if it was committed.
LEMMA RouterLedger ==
  ASSUME IInv, NEW v \in Validators, NEW i \in 1 .. Len(cfs), TakesUp(v, i), RouterAfter(v, i),
         \/ Commit(v, i)
         \/ CommitFails(v, i) /\ Backed(i)'
         \/ UNCHANGED <<chain, gsm, done, finalized, completions, torn>>
  PROVE  CommitsNew(v, i) \/ FailsNew(v, i) \/ LedgerKept
  <1>0. /\ pc \in [Validators -> {"idle", "cf", "final", "persist", "complete"}]
        /\ cur \in [Validators -> Ids \cup {Genesis}] /\ i \in Ids
        /\ finalized \in [Validators -> Seq(Ids)]
    BY RefTypes DEF IInv, TypeOK
  <1>1. CASE Commit(v, i)
    <2>1. Len(finalized'[v]) # Len(finalized[v])
      BY <1>0, <1>1 DEF Commit
    <2>2. pc' = [pc EXCEPT ![v] = "persist"] /\ cur' = [cur EXCEPT ![v] = i]
      BY <2>1 DEF RouterAfter
    <2> QED
      BY <1>0, <1>1, <2>2 DEF CommitsNew
  <1>2. ASSUME finalized' = finalized PROVE RoutersKept
    BY <1>0, <1>2 DEF RouterAfter, RoutersKept
  <1>3. CASE CommitFails(v, i) /\ Backed(i)'
    BY <1>2, <1>3 DEF FailsNew, CommitFails
  <1>4. CASE UNCHANGED <<chain, gsm, done, finalized, completions, torn>>
    BY <1>2, <1>4 DEF LedgerKept, TakesUp
  <1> QED
    BY <1>1, <1>3, <1>4

\* classify_finalization with votes that were all sent.
LEMMA ClassifyCases ==
  ASSUME NEW v, NEW i, NEW vs, Classify(v, i, vs), vs \subseteq sentVotes'
  PROVE  \/ Commit(v, i)
         \/ CommitFails(v, i) /\ Backed(i)'
         \/ UNCHANGED <<chain, gsm, done, finalized, completions, torn>>
  <1>1. CASE HasQuorum(vs, i) /\ Decide(v, i)
    <2>1. 3 * Cardinality(VotersOf(sentVotes', i)) > 2 * N
      BY <1>1, QuorumIsBacked
    <2>2. Backed(i)'
      BY <2>1 DEF Backed, VotersOf
    <2> QED
      BY <1>1, <2>2, DecideCases
  <1>2. CASE UNCHANGED <<chain, gsm, done, finalized, completions, torn>>
    BY <1>2
  <1> QED
    BY <1>1, <1>2 DEF Classify

\* Applying a CF that is claimed final already.
LEMMA ApplyFinalizedCases ==
  ASSUME QInv, NEW v \in Validators, NEW i, TakenFor(v, i), ApplyFinalized(v, i),
         sentVotes' = sentVotes
  PROVE  \/ Commit(v, i)
         \/ CommitFails(v, i) /\ Backed(i)'
         \/ UNCHANGED <<chain, gsm, done, finalized, completions, torn>>
  <1>1. Backed(i)
    BY DEF QInv, Claimed
  <1>2. Backed(i)'
    BY <1>1, BackedGrows
  <1> QED
    BY <1>2, DecideCases DEF ApplyFinalized

\* Every step proposes, commits one CF that is new to its validator or fails
\* to, persists, completes, or leaves the ledgers alone.
LEMMA LedgerCases ==
  ASSUME IInv, QInv, [Next]_vars
  PROVE  \/ \E v \in Validators, r \in Nat, E \in SUBSET Events : TryCreateCf(v, r, E)
         \/ \E v \in Validators, i \in 1 .. Len(cfs) : CommitsNew(v, i)
         \/ \E v \in Validators, i \in 1 .. Len(cfs) : FailsNew(v, i)
         \/ \E v \in Validators : \E C \in SUBSET Unindexed(v) : Persist(v, C)
         \/ \E v \in Validators : Complete(v)
         \/ LedgerKept
  <1>0. /\ pc \in [Validators -> {"idle", "cf", "final", "persist", "complete"}]
        /\ cur \in [Validators -> Ids \cup {Genesis}] /\ round \in [Validators -> Nat]
        /\ \A w \in Validators : cur[w] \in 0 .. Len(cfs) /\ applying[w] \in 0 .. Len(cfs)
        /\ \A w \in Validators : pc[w] # "idle" => cur[w] # Genesis
        /\ \A w \in Validators : votes[w] \subseteq sentVotes
    BY DEF IInv, TypeOK, RefsExist, QInv, VotesSent
  <1>1. CASE UNCHANGED vars
    BY <1>1 DEF vars, net, folder, store, router, LedgerKept, RoutersKept
  <1>2. ASSUME NEW v \in Validators, NEW r \in 0 .. round[v], NEW E \in SUBSET Events,
               TryCreateCf(v, r, E)
        PROVE  \E w \in Validators, q \in Nat, F \in SUBSET Events : TryCreateCf(w, q, F)
    BY <1>0, <1>2
  <1>3. ASSUME NEW v \in Validators,
               \/ \E i \in Created : StartReceiveCf(v, i)
                                       \/ StartReceiveFinalized(v, i) \/ CleanupTimeout(v, i)
               \/ \E w \in Validators, i \in Created : StartCatchUpApply(v, w, i)
               \/ \E C \in SUBSET Unindexed(v) : PersistFails(v, C)
               \/ DropReceived(v) \/ StartCatchUp(v) \/ EndCatchUp(v)
        PROVE  LedgerKept
    <2>1. /\ UNCHANGED <<cfs, chain, gsm, done, finalized, completions, torn, anchorStore, round>>
          /\ UNCHANGED <<sentVotes, sentFinal>>
          /\ \/ UNCHANGED <<pc, cur>>
             \/ (\E p \in {"idle", "cf", "final"} : pc' = [pc EXCEPT ![v] = p])
                  /\ (\E j : cur' = [cur EXCEPT ![v] = j])
      BY <1>3 DEF StartReceiveCf, StartCatchUp, StartReceiveFinalized, CleanupTimeout,
                  StartCatchUpApply, PersistFails, DropReceived, EndCatchUp,
                  net, folder, store, router
    <2> QED
      BY <1>0, <2>1 DEF LedgerKept, RoutersKept
  <1>4. ASSUME NEW v \in Validators, FinishReceiveCf(v)
        PROVE  cur[v] \in 1 .. Len(cfs) /\ (CommitsNew(v, cur[v]) \/ FailsNew(v, cur[v]) \/ LedgerKept)
    <2>1. cur[v] \in 1 .. Len(cfs) /\ RouterAfter(v, cur[v])
      BY <1>0, <1>4 DEF FinishReceiveCf, Genesis
    <2>2. TakesUp(v, cur[v])
      BY <1>4 DEF FinishReceiveCf, HasCf, TakesUp, InHand, MayVote, store
    <2>3. <<cfs[cur[v]].proposer, cur[v]>> \in sentVotes
      BY <2>1 DEF QInv, VotesSent
    <2>4. VotesAtReceipt(v, cur[v]) \subseteq sentVotes'
      BY <1>0, <1>4, <2>3 DEF FinishReceiveCf, VotesAtReceipt
    <2>5. Classify(v, cur[v], VotesAtReceipt(v, cur[v]))
      BY <1>4 DEF FinishReceiveCf
    <2> QED
      BY <2>1, <2>2, <2>4, <2>5, ClassifyCases, RouterLedger
  <1>5. ASSUME NEW v \in Validators, FinishReceiveFinalized(v)
        PROVE  cur[v] \in 1 .. Len(cfs) /\ (CommitsNew(v, cur[v]) \/ FailsNew(v, cur[v]) \/ LedgerKept)
    <2>1. cur[v] \in 1 .. Len(cfs) /\ RouterAfter(v, cur[v])
      BY <1>0, <1>5 DEF FinishReceiveFinalized, Genesis
    <2>2. TakesUp(v, cur[v]) /\ TakenFor(v, cur[v]) /\ sentVotes' = sentVotes
      BY <1>5 DEF FinishReceiveFinalized, TakesUp, InHand, MayVote, TakenFor, net, store
    <2>3. ApplyFinalized(v, cur[v])
      BY <1>5 DEF FinishReceiveFinalized
    <2> QED
      BY <2>1, <2>2, <2>3, ApplyFinalizedCases, RouterLedger
  <1>6. ASSUME NEW v \in Validators, NEW w \in Validators, NEW i \in Created, ReceiveVote(v, w, i)
        PROVE  CommitsNew(v, i) \/ FailsNew(v, i) \/ LedgerKept
    <2>1. /\ UNCHANGED <<cfs, round, anchorStore, sentFinal, sentVotes>> /\ MayVote(v, i)
          /\ i \notin FinalizedCfs(v) /\ i \in 1 .. Len(cfs) /\ <<w, i>> \in sentVotes
      BY <1>6 DEF ReceiveVote, net, store, Created, MayVote
    <2>2. CASE i \in pending[v] /\ Classify(v, i, votes[v] \cup {<<w, i>>}) /\ RouterAfter(v, i)
      <3>1. TakesUp(v, i)
        BY <2>1, <2>2 DEF TakesUp, InHand
      <3>2. votes[v] \cup {<<w, i>>} \subseteq sentVotes'
        BY <1>0, <2>1
      <3> QED
        BY <2>1, <2>2, <3>1, <3>2, ClassifyCases, RouterLedger
    <2>3. CASE UNCHANGED <<chain, gsm, done, finalized, completions, torn, router>>
      BY <2>1, <2>3 DEF LedgerKept, RoutersKept, router
    <2> QED
      BY <1>6, <2>2, <2>3 DEF ReceiveVote
  <1>7. ASSUME NEW v \in Validators, FinishCatchUpApply(v)
        PROVE  \/ \E i \in 1 .. Len(cfs) : CommitsNew(v, i) \/ FailsNew(v, i)
               \/ LedgerKept
    <2>1. /\ UNCHANGED <<cfs, round, anchorStore, sentFinal, sentVotes, pc, cur>>
          /\ MayVote(v, applying[v]) /\ applying[v] \in 1 .. Len(cfs) /\ applying[v] # Genesis
      BY <1>0, <1>7 DEF FinishCatchUpApply, MayVote, net, store, router, Genesis
    <2>2. CASE applying[v] \notin FinalizedCfs(v) /\ ApplyFinalized(v, applying[v])
      <3>1. TakesUp(v, applying[v]) /\ TakenFor(v, applying[v]) /\ RoutersKept
        BY <2>1, <2>2 DEF TakesUp, InHand, TakenFor, RoutersKept
      <3>2. PICK i \in 1 .. Len(cfs) : i = applying[v]
        BY <2>1
      <3>3. \/ Commit(v, i)
            \/ CommitFails(v, i) /\ Backed(i)'
            \/ UNCHANGED <<chain, gsm, done, finalized, completions, torn>>
        BY <2>1, <2>2, <3>1, <3>2, ApplyFinalizedCases
      <3>4. CommitsNew(v, i) \/ FailsNew(v, i) \/ LedgerKept
        BY <2>1, <3>1, <3>2, <3>3 DEF CommitsNew, FailsNew, LedgerKept
      <3> QED
        BY <3>2, <3>4
    <2>3. CASE UNCHANGED folder
      BY <2>1, <2>3 DEF LedgerKept, RoutersKept, folder
    <2> QED
      BY <1>7, <2>1, <2>2, <2>3 DEF FinishCatchUpApply
  <1>8. ASSUME NEW i \in Created PROVE i \in 1 .. Len(cfs)
    BY DEF Created
  <1> QED
    BY <1>1, <1>2, <1>3, <1>4, <1>5, <1>6, <1>7, <1>8 DEF Next

-----------------------------------------------------------------------------
(* What a step may bring into the hands of a validator.                    *)

\* What becomes pending without being proposed is the proposal that the router
\* works on.
LEMMA PendingCases ==
  ASSUME IInv, [Next]_vars
  PROVE  \/ \E v \in Validators, r \in Nat, E \in SUBSET Events : TryCreateCf(v, r, E)
         \/ /\ cfs' = cfs
            /\ \A w \in Validators : \A i \in pending'[w] :
                 i \in pending[w] \/ (pc[w] = "cf" /\ i = cur[w])
  <1>0. pending \in [Validators -> SUBSET Ids] /\ round \in [Validators -> Nat]
    BY DEF IInv, TypeOK
  <1>1. CASE UNCHANGED vars
    BY <1>1 DEF vars, net, folder
  <1>2. ASSUME NEW v \in Validators, NEW r \in 0 .. round[v], NEW E \in SUBSET Events,
               TryCreateCf(v, r, E)
        PROVE  \E w \in Validators, q \in Nat, F \in SUBSET Events : TryCreateCf(w, q, F)
    BY <1>0, <1>2
  <1>3. ASSUME NEW v \in Validators,
               \/ \E i \in Created : StartReceiveCf(v, i) \/ StartReceiveFinalized(v, i)
               \/ \E w \in Validators, i \in Created : StartCatchUpApply(v, w, i)
               \/ \E C \in SUBSET Unindexed(v) : Persist(v, C) \/ PersistFails(v, C)
               \/ DropReceived(v) \/ StartCatchUp(v) \/ EndCatchUp(v) \/ Complete(v)
        PROVE  cfs' = cfs /\ pending' = pending
    BY <1>3 DEF StartReceiveCf, StartReceiveFinalized, StartCatchUpApply, Persist, PersistFails,
                DropReceived, StartCatchUp, EndCatchUp, Complete, net, folder
  <1>4. ASSUME NEW v \in Validators,
               \/ FinishReceiveFinalized(v) \/ FinishCatchUpApply(v)
               \/ \E i \in Created : CleanupTimeout(v, i)
        PROVE  cfs' = cfs /\ \A w \in Validators : pending'[w] \subseteq pending[w]
    <2>1. /\ cfs' = cfs
          /\ \/ pending' = pending
             \/ \E i : pending' = [pending EXCEPT ![v] = @ \ {i}]
      BY <1>4 DEF FinishReceiveFinalized, FinishCatchUpApply, CleanupTimeout, ApplyFinalized,
                  Forget, net, folder
    <2> QED
      BY <1>0, <2>1
  <1>5. ASSUME NEW v \in Validators, FinishReceiveCf(v)
        PROVE  /\ cfs' = cfs
               /\ \A w \in Validators : \A i \in pending'[w] :
                    i \in pending[w] \/ (pc[w] = "cf" /\ i = cur[w])
    BY <1>5, ClassifyPending DEF FinishReceiveCf
  <1>6. ASSUME NEW v \in Validators, NEW w \in Validators, NEW i \in Created, ReceiveVote(v, w, i)
        PROVE  cfs' = cfs /\ \A x \in Validators : pending'[x] \subseteq pending[x]
    <2>1. CASE i \in pending[v] /\ Classify(v, i, votes[v] \cup {<<w, i>>})
      BY <1>6, <2>1, ClassifyPending DEF ReceiveVote, net
    <2>2. CASE UNCHANGED pending
      BY <1>6, <2>2 DEF ReceiveVote, net
    <2> QED
      BY <1>6, <2>1, <2>2 DEF ReceiveVote
  <1> QED
    BY <1>1, <1>2, <1>3, <1>4, <1>5, <1>6 DEF Next

\* What the router or the catch-up task newly works on was prepared on the
\* chain root that the validator has.
LEMMA TaskCases ==
  ASSUME IInv, [Next]_vars, NEW v \in Validators
  PROVE  /\ pc'[v] \in {"cf", "final"} =>
              \/ pc[v] \in {"cf", "final"} /\ cur'[v] = cur[v]
              \/ cur'[v] \in 1 .. Len(cfs) /\ cfs[cur'[v]].prev = chain[v]
         /\ applying'[v] # Genesis =>
              \/ applying'[v] = applying[v]
              \/ applying'[v] \in 1 .. Len(cfs) /\ cfs[applying'[v]].prev = chain[v]
  <1>0. /\ pc \in [Validators -> {"idle", "cf", "final", "persist", "complete"}]
        /\ cur \in [Validators -> Ids \cup {Genesis}]
        /\ applying \in [Validators -> Ids \cup {Genesis}]
    BY DEF IInv, TypeOK
  <1>1. CASE UNCHANGED vars
    BY <1>1 DEF vars, router, catchup
  <1>2. ASSUME NEW w \in Validators, NEW i \in Created,
               StartReceiveCf(w, i) \/ StartReceiveFinalized(w, i)
        PROVE  /\ applying' = applying
               /\ \/ pc'[v] = pc[v] /\ cur'[v] = cur[v]
                  \/ cur'[v] \in 1 .. Len(cfs) /\ cfs[cur'[v]].prev = chain[v]
    BY <1>0, <1>2 DEF StartReceiveCf, StartReceiveFinalized, FinalizedCheck, SnapshotMatches,
                      Created, catchup
  <1>3. ASSUME NEW w \in Validators, NEW x \in Validators, NEW i \in Created,
               StartCatchUpApply(w, x, i)
        PROVE  /\ pc' = pc /\ cur' = cur
               /\ \/ applying'[v] = applying[v]
                  \/ applying'[v] \in 1 .. Len(cfs) /\ cfs[applying'[v]].prev = chain[v]
    BY <1>0, <1>3 DEF StartCatchUpApply, FinalizedCheck, SnapshotMatches, Created, router
  <1>4. ASSUME NEW w \in Validators,
               \/ \E r \in 0 .. round[w], E \in SUBSET Events : TryCreateCf(w, r, E)
               \/ \E i \in Created : CleanupTimeout(w, i)
               \/ StartCatchUp(w)
        PROVE  UNCHANGED <<pc, cur, applying>>
    BY <1>4 DEF TryCreateCf, CleanupTimeout, StartCatchUp, router, catchup
  <1>5. ASSUME NEW w \in Validators,
               FinishCatchUpApply(w) \/ EndCatchUp(w)
        PROVE  /\ pc' = pc /\ cur' = cur
               /\ applying'[v] \in {applying[v], Genesis}
    BY <1>0, <1>5 DEF FinishCatchUpApply, EndCatchUp, router
  <1>6. ASSUME NEW w \in Validators,
               \/ FinishReceiveCf(w) \/ FinishReceiveFinalized(w) \/ DropReceived(w) \/ Complete(w)
               \/ \E C \in SUBSET Unindexed(w) : Persist(w, C) \/ PersistFails(w, C)
        PROVE  /\ applying' = applying
               /\ \/ pc'[v] = pc[v] /\ cur'[v] = cur[v]
                  \/ pc'[v] \in {"idle", "persist", "complete"}
    BY <1>0, <1>6 DEF FinishReceiveCf, FinishReceiveFinalized, DropReceived, Complete, Persist,
                      PersistFails, RouterAfter, catchup
  <1>7. ASSUME NEW w \in Validators, NEW x \in Validators, NEW i \in Created, ReceiveVote(w, x, i)
        PROVE  /\ applying' = applying
               /\ \/ pc'[v] = pc[v] /\ cur'[v] = cur[v]
                  \/ pc'[v] \in {"idle", "persist"}
    BY <1>0, <1>7 DEF ReceiveVote, RouterAfter, router, catchup
  <1> QED
    BY <1>1, <1>2, <1>3, <1>4, <1>5, <1>6, <1>7 DEF Next

\* Whatever comes into the hands of v was prepared on the chain root v has.
LEMMA HandCases ==
  ASSUME IInv, [Next]_vars, NEW v \in Validators, NEW i, InHand(v, i)'
  PROVE  \/ InHand(v, i) /\ i \in 1 .. Len(cfs) /\ cfs'[i] = cfs[i]
         \/ i \in 1 .. Len(cfs') /\ cfs'[i].prev = chain[v]
  <1>0. /\ pending \in [Validators -> SUBSET Ids] /\ Len(cfs) \in Nat
        /\ \A j : InHand(v, j) => j \in 1 .. Len(cfs)
    <2>1. pending \in [Validators -> SUBSET Ids] /\ Len(cfs) \in Nat
      BY RefTypes DEF IInv, TypeOK
    <2>2. /\ pending[v] \subseteq 1 .. Len(cfs) /\ cur[v] \in 0 .. Len(cfs)
          /\ applying[v] \in 0 .. Len(cfs)
          /\ pc[v] \in {"cf", "final"} => cur[v] # Genesis
      BY DEF IInv, RefsExist
    <2> QED
      BY <2>1, <2>2 DEF InHand, Genesis
  <1>1. ASSUME NEW w \in Validators, NEW r \in Nat, NEW E \in SUBSET Events, TryCreateCf(w, r, E)
        PROVE  \/ InHand(v, i) /\ cfs'[i] = cfs[i]
               \/ i \in 1 .. Len(cfs') /\ cfs'[i].prev = chain[v]
    <2>1. /\ Len(cfs') = Len(cfs) + 1
          /\ \A j \in 1 .. Len(cfs) : cfs'[j] = cfs[j]
          /\ cfs'[Len(cfs) + 1].prev = chain[w]
          /\ pending' = [pending EXCEPT ![w] = @ \cup {Len(cfs) + 1}]
          /\ UNCHANGED <<pc, cur, applying>>
      BY <1>1, CreateEffect
    <2>2. InHand(v, i) \/ (v = w /\ i = Len(cfs) + 1)
      BY <1>0, <2>1 DEF InHand
    <2> QED
      BY <1>0, <2>1, <2>2
  <1>2. ASSUME cfs' = cfs,
               \A w \in Validators : \A j \in pending'[w] :
                   j \in pending[w] \/ (pc[w] = "cf" /\ j = cur[w])
        PROVE  InHand(v, i) \/ (i \in 1 .. Len(cfs') /\ cfs'[i].prev = chain[v])
    BY <1>2, TaskCases DEF InHand
  <1> QED
    BY <1>0, <1>1, <1>2, PendingCases

-----------------------------------------------------------------------------
(* Rounds are backed by stored anchors.                                    *)

\* Stored anchors whose round has been completed.
Settled(v) == {i \in anchorStore[v] : \A e \in completions[v] : e.cf # i}

Booked(v) ==
    /\ anchorStore[v] \subseteq FinalizedCfs(v)
    /\ \A e \in completions[v] : e.cf \in FinalizedCfs(v)
    /\ \A e, f \in completions[v] : e.cf = f.cf => e = f
    /\ pc[v] \in {"persist", "complete"} => cur[v] \in FinalizedCfs(v)
    /\ pc[v] = "complete" => cur[v] \in anchorStore[v]
    /\ round[v] <= Cardinality(Settled(v))

RInv == \A v \in Validators : Booked(v)

\* Two sets of CFs, one within the other.
LEMMA IdSets ==
  ASSUME NEW S \in SUBSET Ids, NEW T \in SUBSET S
  PROVE  /\ IsFiniteSet(S) /\ Cardinality(S) \in Nat
         /\ IsFiniteSet(T) /\ Cardinality(T) \in Nat
         /\ Cardinality(T) <= Cardinality(S)
  <1>1. IsFiniteSet(Ids)
    BY FS_Interval, BoundsAssumption DEF Ids
  <1>2. IsFiniteSet(S)
    BY <1>1, FS_Subset
  <1>3. IsFiniteSet(T) /\ Cardinality(T) <= Cardinality(S)
    BY <1>2, FS_Subset
  <1> QED
    BY <1>2, <1>3, FS_CardinalityType

\* A validator that settles no less stays behind what it has settled.
LEMMA SettledGrows ==
  ASSUME IInv, IInv', NEW v \in Validators, Booked(v), round'[v] = round[v],
         Settled(v) \subseteq Settled(v)'
  PROVE  round'[v] <= Cardinality(Settled(v)')
  <1>1. Settled(v)' \in SUBSET Ids /\ round[v] \in Nat
    BY DEF IInv, TypeOK, Settled
  <1>2. /\ Cardinality(Settled(v)) \in Nat /\ Cardinality(Settled(v)') \in Nat
        /\ Cardinality(Settled(v)) <= Cardinality(Settled(v)')
    <2>1. Settled(v) \in SUBSET (Settled(v)')
      OBVIOUS
    <2> QED
      BY <1>1, <2>1, IdSets
  <1> QED
    BY <1>1, <1>2 DEF Booked

\* The validators a step leaves alone stay booked.
LEMMA QuietBooked ==
  ASSUME NEW w \in Validators, Booked(w),
         anchorStore'[w] = anchorStore[w], finalized'[w] = finalized[w],
         completions'[w] = completions[w], round'[w] = round[w],
         pc'[w] \in {"persist", "complete"} => pc'[w] = pc[w] /\ cur'[w] = cur[w]
  PROVE  Booked(w)'
  BY DEF Booked, Settled, FinalizedCfs

\* Committing a CF queues one completion for it and settles nothing.
LEMMA CommitBooked ==
  ASSUME IInv, IInv', RInv, NEW v \in Validators, NEW i \in 1 .. Len(cfs), CommitsNew(v, i)
  PROVE  RInv'
  <1>0. /\ finalized \in [Validators -> Seq(Ids)]
        /\ completions \in [Validators -> SUBSET Completion]
        /\ i \in Ids
    BY RefTypes DEF IInv, TypeOK
  <1>1. /\ i \notin FinalizedCfs(v)
        /\ finalized' = [finalized EXCEPT ![v] = Append(@, i)]
        /\ completions' = [completions EXCEPT ![v] = @ \cup {[cf |-> i, expected |-> round[v]]}]
        /\ round' = round /\ anchorStore' = anchorStore
    BY DEF CommitsNew, TakesUp, Commit
  <1>2. ASSUME NEW w \in Validators \ {v} PROVE Booked(w)'
    <2>1. /\ finalized'[w] = finalized[w] /\ completions'[w] = completions[w]
          /\ pc'[w] = pc[w] /\ cur'[w] = cur[w]
      BY <1>0, <1>1 DEF CommitsNew
    <2>2. Booked(w) /\ round'[w] = round[w] /\ anchorStore'[w] = anchorStore[w]
      BY <1>1 DEF RInv
    <2> QED
      BY <2>1, <2>2, QuietBooked
  <1>3. Booked(v)'
    <2>1. FinalizedCfs(v)' = FinalizedCfs(v) \cup {i}
      BY <1>0, <1>1, FinalizedAppend
    <2>2. completions'[v] = completions[v] \cup {[cf |-> i, expected |-> round[v]]}
      BY <1>0, <1>1
    <2>3. Booked(v)
      BY DEF RInv
    <2>4. Settled(v) \subseteq Settled(v)'
      BY <1>1, <2>2, <2>3 DEF Settled, Booked
    <2>5. round'[v] <= Cardinality(Settled(v)')
      BY <1>1, <2>3, <2>4, SettledGrows
    <2>6. \A e, f \in completions'[v] : e.cf = f.cf => e = f
      BY <1>1, <2>2, <2>3 DEF Booked
    <2>7. /\ pc'[v] \in {"persist", "complete"} => cur'[v] \in FinalizedCfs(v)'
          /\ pc'[v] = "complete" => cur'[v] \in anchorStore'[v]
      BY <1>1, <2>1, <2>3 DEF Booked, CommitsNew
    <2>8. /\ anchorStore'[v] \subseteq FinalizedCfs(v)'
          /\ \A e \in completions'[v] : e.cf \in FinalizedCfs(v)'
      BY <1>1, <2>1, <2>2, <2>3 DEF Booked
    <2> QED
      BY <2>5, <2>6, <2>7, <2>8 DEF Booked
  <1> QED
    BY <1>2, <1>3 DEF RInv

\* Storing an anchor settles at most more.
LEMMA PersistBooked ==
  ASSUME IInv, IInv', RInv, NEW v \in Validators, NEW C, Persist(v, C)
  PROVE  RInv'
  <1>0. /\ anchorStore \in [Validators -> SUBSET Ids]
        /\ pc \in [Validators -> {"idle", "cf", "final", "persist", "complete"}]
    BY DEF IInv, TypeOK
  <1>1. /\ pc[v] = "persist" /\ UNCHANGED <<round, completions, finalized, cur>>
        /\ anchorStore' = [anchorStore EXCEPT ![v] = @ \cup {cur[v]}]
        /\ pc' = [pc EXCEPT ![v] = "complete"]
    BY DEF Persist, folder
  <1>2. ASSUME NEW w \in Validators \ {v} PROVE Booked(w)'
    <2>1. anchorStore'[w] = anchorStore[w] /\ pc'[w] = pc[w]
      BY <1>0, <1>1
    <2> QED
      BY <1>1, <2>1, QuietBooked DEF RInv
  <1>3. Booked(v)'
    <2>1. anchorStore'[v] = anchorStore[v] \cup {cur[v]} /\ FinalizedCfs(v)' = FinalizedCfs(v)
      BY <1>0, <1>1 DEF FinalizedCfs
    <2>2. Booked(v)
      BY DEF RInv
    <2>3. Settled(v) \subseteq Settled(v)'
      BY <1>1, <2>1 DEF Settled
    <2>4. round'[v] <= Cardinality(Settled(v)')
      BY <1>1, <2>2, <2>3, SettledGrows
    <2> QED
      BY <1>1, <2>1, <2>2, <2>4 DEF Booked
  <1> QED
    BY <1>2, <1>3 DEF RInv

\* Completing a CF settles it, which pays for the round it may open.
LEMMA CompleteBooked ==
  ASSUME IInv, IInv', RInv, NEW v \in Validators, Complete(v)
  PROVE  RInv'
  <1>0. /\ anchorStore \in [Validators -> SUBSET Ids]
        /\ pc \in [Validators -> {"idle", "cf", "final", "persist", "complete"}]
        /\ completions \in [Validators -> SUBSET Completion]
        /\ round \in [Validators -> Nat]
    BY DEF IInv, TypeOK
  <1>1. /\ pc[v] = "complete" /\ UNCHANGED <<anchorStore, finalized>>
        /\ pc' = [pc EXCEPT ![v] = "idle"]
        /\ cur' = [cur EXCEPT ![v] = Genesis]
    BY DEF Complete, store
  <1>2. PICK e \in completions[v] :
          /\ e.cf = cur[v]
          /\ completions' = [completions EXCEPT ![v] = @ \ {e}]
          /\ round' = [round EXCEPT ![v] = IF @ = e.expected THEN @ + 1 ELSE @]
    BY DEF Complete
  <1>3. ASSUME NEW w \in Validators \ {v} PROVE Booked(w)'
    <2>1. completions'[w] = completions[w] /\ round'[w] = round[w] /\ pc'[w] = pc[w]
      BY <1>0, <1>1, <1>2
    <2>2. cur'[w] = cur[w]
      BY <1>1 DEF IInv, TypeOK
    <2> QED
      BY <1>1, <2>1, <2>2, QuietBooked DEF RInv
  <1>4. Booked(v)'
    <2>1. /\ FinalizedCfs(v)' = FinalizedCfs(v) /\ anchorStore'[v] = anchorStore[v]
          /\ completions'[v] = completions[v] \ {e} /\ pc'[v] = "idle"
          /\ round'[v] <= round[v] + 1 /\ round'[v] \in Nat /\ round[v] \in Nat
      BY <1>0, <1>1, <1>2 DEF FinalizedCfs
    <2>2. Booked(v)
      BY DEF RInv
    <2>3. cur[v] \notin Settled(v)
      BY <1>2 DEF Settled
    <2>4. Settled(v)' = Settled(v) \cup {cur[v]}
      BY <1>1, <1>2, <2>1, <2>2 DEF Settled, Booked
    <2>5. Settled(v) \in SUBSET Ids
      BY <1>0 DEF Settled
    <2>6. IsFiniteSet(Settled(v)) /\ Cardinality(Settled(v)) \in Nat
      BY <2>5, IdSets
    <2>7. Cardinality(Settled(v)') = Cardinality(Settled(v)) + 1
      BY <2>3, <2>4, <2>6, FS_AddElement
    <2>8. round'[v] <= Cardinality(Settled(v)')
      BY <2>1, <2>2, <2>6, <2>7 DEF Booked
    <2> QED
      BY <2>1, <2>2, <2>8 DEF Booked
  <1> QED
    BY <1>3, <1>4 DEF RInv

\* Every step keeps every validator's books.
LEMMA NextRInv == IInv /\ IInv' /\ QInv /\ RInv /\ [Next]_vars => RInv'
  <1> SUFFICES ASSUME IInv, IInv', QInv, RInv, [Next]_vars PROVE RInv'
    OBVIOUS
  <1>1. ASSUME NEW v \in Validators, NEW r \in Nat, NEW E \in SUBSET Events, TryCreateCf(v, r, E)
        PROVE  RInv'
    <2>1. UNCHANGED <<anchorStore, finalized, completions, round, pc, cur>>
      BY <1>1 DEF TryCreateCf, store, router
    <2> QED
      BY <2>1, QuietBooked DEF RInv
  <1>2. ASSUME \/ LedgerKept
               \/ \E v \in Validators, i \in 1 .. Len(cfs) : FailsNew(v, i)
        PROVE  RInv'
    <2>1. UNCHANGED <<anchorStore, finalized, completions, round>> /\ RoutersKept
      BY <1>2 DEF LedgerKept, FailsNew, TakesUp, CommitFails
    <2> QED
      BY <2>1, QuietBooked DEF RInv, RoutersKept
  <1> QED
    BY <1>1, <1>2, LedgerCases, CommitBooked, PersistBooked, CompleteBooked

\* All books are empty at the start.
LEMMA InitRInv == Init => RInv
  <1> SUFFICES ASSUME Init, NEW v \in Validators PROVE Booked(v)
    BY DEF RInv
  <1>1. Settled(v) = {} /\ round[v] = 0 /\ pc[v] = "idle"
        /\ anchorStore[v] = {} /\ completions[v] = {}
    BY DEF Init, Settled
  <1>2. Cardinality({}) = 0
    BY FS_EmptySet
  <1> QED
    BY <1>1, <1>2 DEF Booked

\* A validator's round never exceeds the number of anchors it has stored, so a
\* restart (recover_from_storage counts the anchors) never takes it back to a
\* round it has left.
THEOREM RoundBackedHolds == Spec => []RoundBackedByAnchors
  <1>1. Init => RInv
    BY InitRInv
  <1>2. IInv /\ RInv => RoundBackedByAnchors
    <2> SUFFICES ASSUME IInv, RInv, NEW v \in Validators
                 PROVE  round[v] <= Cardinality(anchorStore[v])
      BY DEF RoundBackedByAnchors
    <2>1. anchorStore[v] \in SUBSET Ids /\ Settled(v) \in SUBSET anchorStore[v] /\ round[v] \in Nat
      BY DEF IInv, TypeOK, Settled
    <2>2. /\ Cardinality(anchorStore[v]) \in Nat /\ Cardinality(Settled(v)) \in Nat
          /\ Cardinality(Settled(v)) <= Cardinality(anchorStore[v])
      BY <2>1, IdSets
    <2> QED
      BY <2>1, <2>2 DEF RInv, Booked
  <1> QED
    BY <1>1, <1>2, NextRInv, NextQInv, InitQInv, Inductive, PTL DEF Spec

-----------------------------------------------------------------------------
(* One line of finalized CFs.                                              *)

\* The chain root of v after its first k anchors.
At(v, k) == IF k = 0 THEN Genesis ELSE finalized[v][k]

Height(v) == Len(finalized[v])

\* What holds of the line of every validator, rivals or not: it ends in the
\* chain root, it is made of created CFs, none of them twice, and their events
\* are all done.
Line(v) ==
    /\ chain[v] = At(v, Height(v))
    /\ \A k \in 0 .. Height(v) : At(v, k) \in 0 .. Len(cfs)
    /\ \A k \in 1 .. Height(v) : At(v, k) # Genesis
    /\ \A k \in 1 .. Height(v) : cfs[At(v, k)].events \subseteq done[v]
    /\ \A k, l \in 0 .. Height(v) : At(v, k) = At(v, l) => k = l

\* What v may come to decide on was prepared on a chain root v has, or had.
HandsOnLine(v) ==
    \A i : InHand(v, i) => \E k \in 0 .. Height(v) : cfs[i].prev = At(v, k)

\* A CF was prepared on the line of some validator, with events that are new
\* to that line.
WellPrepared(i) ==
    \E w \in Validators : \E k \in 0 .. Height(w) :
        /\ cfs[i].prev = At(w, k)
        /\ \A l \in 1 .. k : cfs[i].events \cap cfs[At(w, l)].events = {}

\* Every CF on the line of v was prepared on the one before it.
Linked(v) == \A k \in 1 .. Height(v) : cfs[At(v, k)].prev = At(v, k - 1)

LInv ==
    /\ \A v \in Validators : Line(v) /\ HandsOnLine(v)
    /\ \A i \in 1 .. Len(cfs) : WellPrepared(i)
    /\ NoRivals => \A v \in Validators : Linked(v)

\* Without rivals two linked lines are one as far as both go.
LEMMA LinesAgree ==
  ASSUME NoRivals, NEW v \in Validators, NEW w \in Validators, Line(v), Line(w),
         Linked(v), Linked(w), NEW M \in Nat, M <= Height(v), M <= Height(w),
         Height(v) \in Nat, Height(w) \in Nat
  PROVE  \A k \in 0 .. M : At(v, k) = At(w, k)
  <1> DEFINE S == {k \in 0 .. M : At(v, k) = At(w, k)}
  <1>1. 0 \in S
    BY DEF At
  <1>2. ASSUME NEW k \in 0 .. M - 1, k \in S PROVE k + 1 \in S
    <2>1. k + 1 \in 1 .. Height(v) /\ k + 1 \in 1 .. Height(w) /\ (k + 1) - 1 = k
      OBVIOUS
    <2>2. cfs[At(v, k + 1)].prev = At(v, k) /\ cfs[At(w, k + 1)].prev = At(w, k)
      BY <2>1 DEF Linked
    <2>3. At(v, k + 1) \in Created /\ At(w, k + 1) \in Created
      BY <2>1 DEF Line, Created, Genesis
    <2>4. At(v, k + 1) = At(w, k + 1)
      BY <1>2, <2>2, <2>3 DEF NoRivals
    <2> QED
      BY <1>2, <2>4
  <1> HIDE DEF S
  <1>3. \A k \in 0 .. M : k \in S
    BY <1>1, <1>2, BoundedInduction
  <1> QED
    BY <1>3 DEF S

\* Without rivals a validator decides only on CFs prepared on its chain root,
\* although the chain check is not repeated after the events are fetched: the
\* one CF prepared on an earlier root is already finalized.
LEMMA CommitExtends ==
  ASSUME IInv, LInv, NoRivals, NEW v \in Validators, NEW i \in 1 .. Len(cfs),
         i \notin FinalizedCfs(v), InHand(v, i)
  PROVE  cfs[i].prev = chain[v]
  <1>0. Height(v) \in Nat /\ Line(v) /\ Linked(v)
    BY DEF IInv, TypeOK, LInv, Height
  <1>1. PICK m \in 0 .. Height(v) : cfs[i].prev = At(v, m)
    BY DEF LInv, HandsOnLine
  <1>2. CASE m < Height(v)
    <2>1. m + 1 \in 1 .. Height(v) /\ (m + 1) - 1 = m /\ m + 1 \in 0 .. Height(v)
      BY <1>0, <1>2
    <2>2. cfs[At(v, m + 1)].prev = At(v, m)
      BY <1>0, <2>1 DEF Linked
    <2>3. At(v, m + 1) \in Created
      <3>1. At(v, m + 1) \in 0 .. Len(cfs) /\ At(v, m + 1) # 0
        BY <1>0, <2>1 DEF Line, Genesis
      <3> QED
        BY <3>1 DEF Created
    <2>4. At(v, m + 1) = i
      BY <1>1, <2>2, <2>3 DEF NoRivals, Created
    <2>5. finalized[v][m + 1] = i /\ m + 1 \in 1 .. Len(finalized[v])
      BY <2>1, <2>4 DEF At, Height
    <2> QED
      BY <2>5 DEF FinalizedCfs
  <1>3. CASE m = Height(v)
    BY <1>0, <1>1, <1>3 DEF Line
  <1> QED
    BY <1>0, <1>2, <1>3

\* While the line of v only grows, its hands stay on it.
LEMMA HandsStay ==
  ASSUME IInv, LInv, [Next]_vars, NEW v \in Validators,
         Height(v)' \in Nat, Height(v) \in Nat, Height(v) <= Height(v)',
         \A k \in 0 .. Height(v) : At(v, k)' = At(v, k)
  PROVE  HandsOnLine(v)'
  <1> SUFFICES ASSUME NEW i, InHand(v, i)'
               PROVE  \E k \in 0 .. Height(v)' : cfs'[i].prev = At(v, k)'
    BY DEF HandsOnLine
  <1>1. \E k \in 0 .. Height(v) : cfs'[i].prev = At(v, k)
    <2>1. CASE InHand(v, i) /\ cfs'[i] = cfs[i]
      BY <2>1 DEF LInv, HandsOnLine
    <2>2. CASE cfs'[i].prev = chain[v]
      BY <2>2 DEF LInv, Line
    <2> QED
      BY <2>1, <2>2, HandCases
  <1>2. PICK k \in 0 .. Height(v) : cfs'[i].prev = At(v, k)
    BY <1>1
  <1>3. k \in 0 .. Height(v)' /\ At(v, k)' = At(v, k)
    OBVIOUS
  <1> QED
    BY <1>2, <1>3

\* A step that leaves the CFs and the lines alone keeps the invariant.
LEMMA QuietLInv ==
  ASSUME IInv, LInv, [Next]_vars, UNCHANGED <<cfs, chain, done, finalized>>
  PROVE  LInv'
  <1>1. ASSUME NEW v \in Validators PROVE HandsOnLine(v)'
    <2>1. /\ Height(v)' = Height(v) /\ Height(v) \in Nat
          /\ \A k \in 0 .. Height(v) : At(v, k)' = At(v, k)
      BY DEF Height, At, IInv, TypeOK
    <2> QED
      BY <2>1, HandsStay
  <1>2. ASSUME NEW v \in Validators PROVE Line(v)'
    BY DEF LInv, Line, At, Height
  <1>3. ASSUME NEW i \in 1 .. Len(cfs') PROVE WellPrepared(i)'
    <2>1. PICK w \in Validators : \E k \in 0 .. Height(w) :
            /\ cfs[i].prev = At(w, k)
            /\ \A l \in 1 .. k : cfs[i].events \cap cfs[At(w, l)].events = {}
      BY DEF LInv, WellPrepared
    <2>2. PICK k \in 0 .. Height(w) :
            /\ cfs[i].prev = At(w, k)
            /\ \A l \in 1 .. k : cfs[i].events \cap cfs[At(w, l)].events = {}
      BY <2>1
    <2>3. Height(w)' = Height(w) /\ \A l : At(w, l)' = At(w, l)
      BY DEF Height, At
    <2> QED
      BY <2>2, <2>3 DEF WellPrepared
  <1>4. ASSUME NoRivals' PROVE \A v \in Validators : Linked(v)'
    BY <1>4 DEF LInv, Linked, NoRivals, Created, At, Height
  <1> QED
    BY <1>1, <1>2, <1>3, <1>4 DEF LInv

\* A new CF is prepared on the end of a line, with events that are not in it.
LEMMA CreateLInv ==
  ASSUME IInv, LInv, [Next]_vars, NEW v \in Validators, NEW r \in Nat, NEW E \in SUBSET Events,
         TryCreateCf(v, r, E)
  PROVE  LInv'
  <1>0. PICK n \in Nat : n = Len(cfs) + 1
    BY RefTypes DEF IInv
  <1>1. /\ Len(cfs) \in Nat /\ Len(cfs') = n
        /\ \A i \in 1 .. Len(cfs) : cfs'[i] = cfs[i]
        /\ cfs'[n].prev = chain[v] /\ cfs'[n].events = E
        /\ E # {} /\ E \subseteq Selectable(v)
        /\ UNCHANGED <<chain, done, finalized>>
    BY <1>0, CreateEffect
  <1>2. /\ \A w \in Validators, k \in Nat : At(w, k)' = At(w, k)
        /\ \A w \in Validators : Height(w)' = Height(w) /\ Height(w) \in Nat
    BY <1>1 DEF At, Height, IInv, TypeOK
  <1>3. ASSUME NEW w \in Validators PROVE Line(w)' /\ HandsOnLine(w)'
    <2>1. Line(w) /\ Height(w)' = Height(w) /\ Height(w) \in Nat
      BY <1>2 DEF LInv
    <2>2. \A k \in 0 .. Height(w) : At(w, k)' = At(w, k) /\ At(w, k) \in 0 .. Len(cfs)
      BY <1>2, <2>1 DEF Line
    <2>3. ASSUME NEW k \in 1 .. Height(w)
          PROVE  At(w, k)' # Genesis /\ cfs'[At(w, k)'].events \subseteq done'[w]
      <3>1. At(w, k) # Genesis /\ At(w, k) \in 0 .. Len(cfs) /\ At(w, k)' = At(w, k)
        BY <2>1, <2>2 DEF Line
      <3>2. At(w, k) \in 1 .. Len(cfs)
        BY <3>1, <1>1 DEF Genesis
      <3> QED
        BY <1>1, <2>1, <3>1, <3>2 DEF Line
    <2>4. \A k \in 0 .. Height(w) : At(w, k)' \in 0 .. Len(cfs')
      BY <1>0, <1>1, <2>2
    <2>5. chain'[w] = At(w, Height(w))'
      BY <1>1, <2>1, <2>2 DEF Line
    <2>6. \A k, l \in 0 .. Height(w) : At(w, k)' = At(w, l)' => k = l
      BY <2>1, <2>2 DEF Line
    <2>7. HandsOnLine(w)'
      BY <2>1, <2>2, HandsStay
    <2> QED
      BY <2>1, <2>3, <2>4, <2>5, <2>6, <2>7 DEF Line
  <1>4. ASSUME NEW w \in Validators, NEW k \in 1 .. Height(w)
        PROVE  At(w, k)' = At(w, k) /\ cfs'[At(w, k)'] = cfs[At(w, k)]
    <2>1. At(w, k) # Genesis /\ At(w, k) \in 0 .. Len(cfs) /\ At(w, k)' = At(w, k)
      BY <1>2 DEF LInv, Line
    <2>2. At(w, k) \in 1 .. Len(cfs)
      BY <2>1, <1>1 DEF Genesis
    <2> QED
      BY <1>1, <2>1, <2>2
  <1>5. ASSUME NEW i \in 1 .. Len(cfs') PROVE WellPrepared(i)'
    <2>1. CASE i \in 1 .. Len(cfs)
      <3>1. WellPrepared(i) /\ cfs'[i] = cfs[i]
        BY <1>1, <2>1 DEF LInv
      <3>2. PICK w \in Validators : \E k \in 0 .. Height(w) :
              /\ cfs[i].prev = At(w, k)
              /\ \A l \in 1 .. k : cfs[i].events \cap cfs[At(w, l)].events = {}
        BY <3>1 DEF WellPrepared
      <3>3. PICK k \in 0 .. Height(w) :
              /\ cfs[i].prev = At(w, k)
              /\ \A l \in 1 .. k : cfs[i].events \cap cfs[At(w, l)].events = {}
        BY <3>2
      <3>4. k \in 0 .. Height(w)' /\ At(w, k)' = At(w, k)
        BY <1>2
      <3>5. \A l \in 1 .. k : cfs'[i].events \cap cfs'[At(w, l)'].events = {}
        <4>1. \A l \in 1 .. k : l \in 1 .. Height(w)
          BY <1>2
        <4> QED
          BY <1>4, <3>1, <3>3, <4>1
      <3> QED
        BY <3>1, <3>3, <3>4, <3>5 DEF WellPrepared
    <2>2. CASE i = n
      <3>1. /\ Height(v) \in 0 .. Height(v)'
            /\ \A l \in 1 .. Height(v) : cfs[At(v, l)].events \subseteq done[v]
        BY <1>2 DEF LInv, Line
      <3>2. E \cap done[v] = {}
        BY <1>1 DEF Selectable
      <3>3. \A l \in 1 .. Height(v) : cfs'[i].events \cap cfs'[At(v, l)'].events = {}
        BY <1>1, <1>4, <2>2, <3>1, <3>2
      <3>4. PICK k \in 0 .. Height(v)' : k = Height(v)
        BY <3>1
      <3>5. cfs'[i].prev = At(v, k)'
        <4>1. k \in Nat /\ At(v, k) = chain[v]
          BY <1>2, <3>4 DEF LInv, Line
        <4> QED
          BY <1>1, <1>2, <2>2, <4>1
      <3>6. \A l \in 1 .. k : cfs'[i].events \cap cfs'[At(v, l)'].events = {}
        BY <3>3, <3>4
      <3> QED
        BY <3>5, <3>6 DEF WellPrepared
    <2> QED
      BY <1>0, <1>1, <2>1, <2>2
  <1>6. ASSUME NoRivals', NEW w \in Validators PROVE Linked(w)'
    <2>1. NoRivals
      BY <1>0, <1>1, <1>6 DEF NoRivals, Created
    <2>2. Linked(w)
      BY <2>1 DEF LInv
    <2>3. ASSUME NEW k \in 1 .. Height(w) PROVE cfs'[At(w, k)'].prev = At(w, k - 1)'
      <3>1. At(w, k - 1)' = At(w, k - 1)
        BY <1>2
      <3> QED
        BY <1>4, <2>2, <3>1 DEF Linked
    <2> QED
      BY <1>2, <2>3 DEF Linked
  <1> QED
    BY <1>3, <1>5, <1>6 DEF LInv

\* A commit extends one line by a CF that is not on it.
LEMMA CommitLInv ==
  ASSUME IInv, LInv, [Next]_vars, NEW v \in Validators, NEW i \in 1 .. Len(cfs), CommitsNew(v, i)
  PROVE  LInv'
  <1>0. PICK n \in Nat : n = Height(v) + 1
    BY DEF IInv, TypeOK, Height
  <1>1. /\ cfs' = cfs /\ InHand(v, i) /\ i \notin FinalizedCfs(v)
        /\ finalized' = [finalized EXCEPT ![v] = Append(@, i)]
        /\ chain' = [chain EXCEPT ![v] = i]
        /\ done' = [done EXCEPT ![v] = @ \cup cfs[i].events]
    BY DEF CommitsNew, TakesUp, Commit
  <1>2. /\ finalized \in [Validators -> Seq(Ids)] /\ i \in Ids /\ i # Genesis
        /\ chain \in [Validators -> Ids \cup {Genesis}]
        /\ done \in [Validators -> SUBSET Events]
        /\ Len(cfs) \in Nat
    <2>1. i \in Ids /\ Len(cfs) \in Nat /\ i # 0
      BY RefTypes DEF IInv
    <2> QED
      BY <2>1 DEF IInv, TypeOK, Genesis
  <1>4. ASSUME NEW w \in Validators \ {v}
        PROVE  /\ Height(w)' = Height(w) /\ \A k : At(w, k)' = At(w, k)
               /\ done'[w] = done[w] /\ chain'[w] = chain[w] /\ Height(w) \in Nat
    BY <1>1, <1>2 DEF Height, At
  <1>5. /\ Height(v) \in Nat /\ Height(v)' = n
        /\ \A k \in 0 .. Height(v) : At(v, k)' = At(v, k)
        /\ At(v, n)' = i
    <2>1. finalized[v] \in Seq(Ids) /\ finalized'[v] = Append(finalized[v], i)
      BY <1>1, <1>2
    <2>2. /\ Len(finalized[v]) \in Nat /\ Len(finalized'[v]) = Len(finalized[v]) + 1
          /\ \A k \in 1 .. Len(finalized[v]) : finalized'[v][k] = finalized[v][k]
          /\ finalized'[v][Len(finalized[v]) + 1] = i
      BY <1>2, <2>1
    <2> QED
      BY <1>0, <2>2 DEF Height, At
  <1>6. Line(v)'
    <2>1. Line(v)
      BY DEF LInv
    <2>2. chain'[v] = At(v, n)'
      BY <1>1, <1>2, <1>5
    <2>3. done'[v] = done[v] \cup cfs[i].events
      BY <1>1, <1>2
    <2>4. ASSUME NEW k \in 0 .. n
          PROVE  /\ At(v, k)' \in 0 .. Len(cfs')
                 /\ k # 0 => At(v, k)' # Genesis /\ cfs'[At(v, k)'].events \subseteq done'[v]
                 /\ k # n => At(v, k)' = At(v, k) /\ k \in 0 .. Height(v)
      <3>1. CASE k # n
        <4>1. k \in 0 .. Height(v) /\ (k # 0 => k \in 1 .. Height(v))
          BY <1>0, <1>5, <3>1
        <4>2. At(v, k)' = At(v, k) /\ At(v, k) \in 0 .. Len(cfs)
          BY <1>5, <2>1, <4>1 DEF Line
        <4>3. k # 0 => At(v, k) # Genesis /\ cfs[At(v, k)].events \subseteq done[v]
          BY <2>1, <4>1 DEF Line
        <4> QED
          BY <1>1, <2>3, <4>1, <4>2, <4>3
      <3>2. CASE k = n
        BY <1>1, <1>2, <1>5, <2>3, <3>2
      <3> QED
        BY <3>1, <3>2
    <2>5. ASSUME NEW k \in 0 .. Height(v) PROVE At(v, k) # i
      <3>1. CASE k = 0
        BY <1>2, <3>1 DEF At
      <3>2. CASE k # 0
        BY <1>1, <1>5, <3>2 DEF FinalizedCfs, At, Height
      <3> QED
        BY <3>1, <3>2
    <2>6. ASSUME NEW k \in 0 .. n, NEW l \in 0 .. n, At(v, k)' = At(v, l)' PROVE k = l
      <3>1. CASE k # n /\ l # n
        BY <2>1, <2>4, <2>6, <3>1 DEF Line
      <3>2. CASE k = n
        BY <1>5, <2>4, <2>5, <2>6, <3>2
      <3>3. CASE l = n
        BY <1>5, <2>4, <2>5, <2>6, <3>3
      <3> QED
        BY <3>1, <3>2, <3>3
    <2>7. \A k \in 1 .. n : k \in 0 .. n /\ k # 0
      BY <1>0
    <2> QED
      BY <1>5, <2>2, <2>4, <2>6, <2>7 DEF Line
  <1>7. ASSUME NEW w \in Validators PROVE Line(w)' /\ HandsOnLine(w)'
    <2>1. CASE w # v
      <3>1. Line(w)' 
        BY <1>1, <1>4, <2>1 DEF LInv, Line
      <3> QED
        BY <1>4, <2>1, <3>1, HandsStay
    <2>2. CASE w = v
      <3>1. Height(v) <= n
        BY <1>0, <1>5
      <3> QED
        BY <1>5, <1>6, <2>2, <3>1, HandsStay
    <2> QED
      BY <2>1, <2>2
  <1>8. ASSUME NEW j \in 1 .. Len(cfs') PROVE WellPrepared(j)'
    <2>1. WellPrepared(j)
      BY <1>1 DEF LInv
    <2>2. PICK w \in Validators : \E k \in 0 .. Height(w) :
            /\ cfs[j].prev = At(w, k)
            /\ \A l \in 1 .. k : cfs[j].events \cap cfs[At(w, l)].events = {}
      BY <2>1 DEF WellPrepared
    <2>3. PICK k \in 0 .. Height(w) :
            /\ cfs[j].prev = At(w, k)
            /\ \A l \in 1 .. k : cfs[j].events \cap cfs[At(w, l)].events = {}
      BY <2>2
    <2>4. Height(w) \in Nat /\ k \in 0 .. Height(w)' /\ \A l \in 0 .. Height(w) : At(w, l)' = At(w, l)
      BY <1>0, <1>4, <1>5
    <2>5. \A l \in 1 .. k : At(w, l)' = At(w, l)
      BY <2>4
    <2> QED
      BY <1>1, <2>3, <2>4, <2>5 DEF WellPrepared
  <1>9. ASSUME NoRivals', NEW w \in Validators PROVE Linked(w)'
    <2>1. NoRivals /\ Linked(w)
      BY <1>1, <1>9 DEF NoRivals, Created, LInv
    <2>2. CASE w # v
      BY <1>1, <1>4, <2>1, <2>2 DEF Linked
    <2>3. CASE w = v
      <3>1. cfs[i].prev = At(v, Height(v))
        BY <1>1, <2>1, CommitExtends DEF LInv, Line
      <3>2. ASSUME NEW k \in 1 .. n PROVE cfs'[At(v, k)'].prev = At(v, k - 1)'
        <4>1. CASE k = n
          <5>1. k - 1 \in 0 .. Height(v) /\ k - 1 = Height(v)
            BY <1>0, <1>5, <4>1
          <5>2. At(v, k)' = i /\ At(v, k - 1)' = At(v, Height(v))
            BY <1>5, <4>1, <5>1
          <5> QED
            BY <1>1, <3>1, <5>2
        <4>2. CASE k # n
          <5>1. k \in 1 .. Height(v) /\ k \in 0 .. Height(v) /\ k - 1 \in 0 .. Height(v)
            BY <1>0, <1>5, <4>2
          <5>2. At(v, k)' = At(v, k) /\ At(v, k - 1)' = At(v, k - 1)
            BY <1>5, <5>1
          <5> QED
            BY <1>1, <2>1, <2>3, <5>1, <5>2 DEF Linked
        <4> QED
          BY <4>1, <4>2
      <3> QED
        BY <1>5, <2>3, <3>2 DEF Linked
    <2> QED
      BY <2>2, <2>3
  <1> QED
    BY <1>7, <1>8, <1>9 DEF LInv

\* Every step keeps the lines.
LEMMA NextLInv == IInv /\ QInv /\ LInv /\ [Next]_vars => LInv'
  <1> SUFFICES ASSUME IInv, QInv, LInv, [Next]_vars PROVE LInv'
    OBVIOUS
  <1>1. ASSUME \/ \E v \in Validators : \E C \in SUBSET Unindexed(v) : Persist(v, C)
               \/ \E v \in Validators : Complete(v)
               \/ \E v \in Validators, i \in 1 .. Len(cfs) : FailsNew(v, i)
               \/ LedgerKept
        PROVE  LInv'
    <2>1. UNCHANGED <<cfs, chain, done, finalized>>
      BY <1>1 DEF Persist, Complete, FailsNew, TakesUp, CommitFails, LedgerKept, net, folder
    <2> QED
      BY <2>1, QuietLInv
  <1> QED
    BY <1>1, LedgerCases, CreateLInv, CommitLInv

\* All lines are empty at the start.
LEMMA InitLInv == Init => LInv
  <1> SUFFICES ASSUME Init PROVE LInv
    OBVIOUS
  <1>1. \A v \in Validators : Height(v) = 0 /\ chain[v] = Genesis
    BY DEF Init, Height
  <1>2. Len(cfs) = 0
    BY DEF Init
  <1>3. \A v \in Validators : \A i : ~InHand(v, i)
    BY DEF Init, InHand
  <1> QED
    BY <1>1, <1>2, <1>3 DEF LInv, Line, HandsOnLine, Linked, At, Genesis

\* As long as no two CFs were prepared on one base, all validators finalize the
\* same CFs in the same order and no event is in two of them, although the
\* chain check of receive_cf is not repeated after the events are fetched.
THEOREM LinearAgreementHolds == Spec => []LinearAgreement
  <1>1. Init => LInv /\ QInv
    BY InitLInv, InitQInv
  <1>2. IInv /\ LInv => LinearAgreement
    <2> SUFFICES ASSUME IInv, LInv, NoRivals, NEW v \in Validators, NEW w \in Validators
                 PROVE  /\ Prefix(finalized[v], finalized[w]) \/ Prefix(finalized[w], finalized[v])
                        /\ \A k, l \in 1 .. Len(finalized[v]) :
                             k # l => cfs[finalized[v][k]].events \cap cfs[finalized[v][l]].events = {}
      BY DEF LinearAgreement
    <2>1. \A u \in Validators : Line(u) /\ Linked(u) /\ Height(u) \in Nat
      BY DEF LInv, IInv, TypeOK, Height
    <2>2. ASSUME Height(v) <= Height(w) PROVE Prefix(finalized[v], finalized[w])
      <3>1. \A k \in 0 .. Height(v) : At(v, k) = At(w, k)
        BY <2>1, <2>2, LinesAgree
      <3>2. Prefix(finalized[v], finalized[w])
        BY <2>1, <2>2, <3>1 DEF Prefix, Height, At
      <3> QED
        BY <3>2
    <2>3. ASSUME Height(w) <= Height(v) PROVE Prefix(finalized[w], finalized[v])
      <3>1. \A k \in 0 .. Height(w) : At(w, k) = At(v, k)
        BY <2>1, <2>3, LinesAgree
      <3>2. Prefix(finalized[w], finalized[v])
        BY <2>1, <2>3, <3>1 DEF Prefix, Height, At
      <3> QED
        BY <3>2
    <2>4. ASSUME NEW k \in 1 .. Height(v), NEW l \in 1 .. Height(v), k < l
          PROVE  cfs[At(v, k)].events \cap cfs[At(v, l)].events = {}
      <3>1. k \in 0 .. Height(v) /\ l \in 0 .. Height(v) /\ l - 1 \in 0 .. Height(v) /\ k <= l - 1
        BY <2>1, <2>4
      <3>2. At(v, l) \in 1 .. Len(cfs) /\ cfs[At(v, l)].prev = At(v, l - 1)
        BY <2>1, <3>1 DEF Line, Linked, Genesis
      <3>3. PICK u \in Validators : \E m \in 0 .. Height(u) :
              /\ cfs[At(v, l)].prev = At(u, m)
              /\ \A j \in 1 .. m : cfs[At(v, l)].events \cap cfs[At(u, j)].events = {}
        BY <3>2 DEF LInv, WellPrepared
      <3>4. PICK m \in 0 .. Height(u) :
              /\ cfs[At(v, l)].prev = At(u, m)
              /\ \A j \in 1 .. m : cfs[At(v, l)].events \cap cfs[At(u, j)].events = {}
        BY <3>3
      <3>5. CASE m <= Height(v)
        <4>1. m \in 0 .. Height(v) /\ m \in Nat /\ m <= Height(u)
          BY <2>1, <3>5
        <4>2. \A j \in 0 .. m : At(v, j) = At(u, j)
          BY <2>1, <3>5, <4>1, LinesAgree
        <4>3. At(v, m) = At(v, l - 1)
          BY <3>2, <3>4, <4>1, <4>2
        <4>4. m = l - 1
          BY <2>1, <3>1, <4>1, <4>3 DEF Line
        <4>5. k \in 1 .. m /\ k \in 0 .. m
          BY <2>1, <2>4, <4>1, <4>4
        <4> QED
          BY <3>4, <4>2, <4>5
      <3>6. CASE m > Height(v)
        <4>1. Height(v) \in Nat /\ Height(v) <= Height(u) /\ l - 1 \in 0 .. Height(u)
              /\ m \in 0 .. Height(u) /\ l - 1 # m
          BY <2>1, <3>6
        <4>2. \A j \in 0 .. Height(v) : At(v, j) = At(u, j)
          BY <2>1, <4>1, LinesAgree
        <4>3. At(u, l - 1) = At(u, m)
          BY <3>1, <3>2, <3>4, <4>2
        <4> QED
          BY <2>1, <4>1, <4>3 DEF Line
      <3> QED
        BY <2>1, <3>5, <3>6
    <2>5. ASSUME NEW k \in 1 .. Len(finalized[v]), NEW l \in 1 .. Len(finalized[v]), k # l
          PROVE  cfs[finalized[v][k]].events \cap cfs[finalized[v][l]].events = {}
      <3>1. k \in 1 .. Height(v) /\ l \in 1 .. Height(v) /\ (k < l \/ l < k)
        BY <2>1, <2>5 DEF Height
      <3>2. At(v, k) = finalized[v][k] /\ At(v, l) = finalized[v][l]
        BY <3>1, <2>1 DEF At
      <3> QED
        BY <2>4, <3>1, <3>2
    <2> QED
      BY <2>1, <2>2, <2>3, <2>5
  <1> QED
    BY <1>1, <1>2, NextLInv, NextQInv, Inductive, PTL DEF Spec

-----------------------------------------------------------------------------
(* One state per chain root.                                               *)

StateFollowsChain == \A v \in Validators \ torn : gsm[v] = RootAt(chain[v])

\* A build that its proposer may still take by the leader path, which compares
\* no roots, leads to the state it declares.
BuildsDeclared ==
    \A v \in Validators \ torn : \A i \in Builds(v) :
        SnapshotMatches(v, i) => RootMatches(v, i)

SInv == StateFollowsChain /\ BuildsDeclared

\* Whole validators reach the declared root on every path.
LEMMA WholeRootMatches ==
  ASSUME SInv, NEW v \in Validators \ torn, NEW i, ApplySucceeds(v, i)
  PROVE  RootMatches(v, i)
  BY DEF SInv, BuildsDeclared, ApplySucceeds

\* No step but a proposal makes a CF one of the builds of a validator.
LEMMA BuildsShrink ==
  ASSUME IInv, OInv, cfs' = cfs, NEW w \in Validators,
         \A i \in pending'[w] : i \in pending[w] \/ (pc[w] = "cf" /\ i = cur[w])
  PROVE  Builds(w)' \subseteq Builds(w)
  BY DEF Builds, OInv, ForeignProposal

\* A new build declares the root that its own proposer would reach.
LEMMA CreateSInv ==
  ASSUME IInv, SInv, NEW v \in Validators, NEW r \in Nat, NEW E \in SUBSET Events,
         TryCreateCf(v, r, E)
  PROVE  SInv'
  <1>0. PICK n \in Nat : n = Len(cfs) + 1
    BY RefTypes DEF IInv
  <1>1. /\ Len(cfs) \in Nat /\ Len(cfs') = n
        /\ \A i \in 1 .. Len(cfs) : cfs'[i] = cfs[i]
        /\ cfs'[n] = PreparedCf(v, r, E)
        /\ pending' = [pending EXCEPT ![v] = @ \cup {n}]
        /\ UNCHANGED <<chain, gsm, torn>>
    <2>1. cfs'[n] = PreparedCf(v, r, E) /\ Len(cfs') = n
      BY <1>0 DEF TryCreateCf, OpenBuild, IInv, TypeOK
    <2> QED
      BY <1>0, <2>1, CreateEffect DEF TryCreateCf
  <1>2. ASSUME NEW w \in Validators PROVE RootAt(chain[w])' = RootAt(chain[w])
    <2>1. chain[w] \in 0 .. Len(cfs)
      BY DEF IInv, RefsExist
    <2> QED
      BY <1>1, <2>1 DEF RootAt, Genesis
  <1>3. StateFollowsChain'
    BY <1>1, <1>2 DEF SInv, StateFollowsChain
  <1>4. ASSUME NEW w \in Validators \ torn, NEW i \in Builds(w)', SnapshotMatches(w, i)'
        PROVE  RootMatches(w, i)'
    <2>1. /\ i \in pending'[w] /\ pending[w] \subseteq 1 .. Len(cfs)
          /\ pending \in [Validators -> SUBSET Ids]
      BY <1>4 DEF Builds, IInv, TypeOK, RefsExist
    <2>2. CASE i \in pending[w]
      <3>1. cfs'[i] = cfs[i]
        BY <1>1, <2>1, <2>2
      <3>2. i \in Builds(w) /\ SnapshotMatches(w, i)
        BY <1>1, <1>4, <2>2, <3>1 DEF Builds, SnapshotMatches
      <3> QED
        BY <1>1, <3>1, <3>2 DEF SInv, BuildsDeclared, RootMatches
    <2>3. CASE i = n /\ w = v
      BY <1>1, <2>3 DEF RootMatches, PreparedCf
    <2> QED
      BY <1>1, <2>1, <2>2, <2>3
  <1>5. BuildsDeclared'
    BY <1>1, <1>4 DEF BuildsDeclared
  <1> QED
    BY <1>3, <1>5 DEF SInv

\* A step that proposes nothing keeps the roots of the validators whose chain
\* root and state it leaves alone.
LEMMA QuietState ==
  ASSUME IInv, OInv, SInv, cfs' = cfs, NEW w \in Validators \ torn,
         gsm'[w] = gsm[w], chain'[w] = chain[w],
         \A i \in pending'[w] : i \in pending[w] \/ (pc[w] = "cf" /\ i = cur[w])
  PROVE  /\ gsm'[w] = RootAt(chain[w])'
         /\ \A i \in Builds(w)' : SnapshotMatches(w, i)' => RootMatches(w, i)'
  <1>1. gsm'[w] = RootAt(chain[w])'
    BY DEF SInv, StateFollowsChain, RootAt
  <1>2. Builds(w)' \subseteq Builds(w)
    BY BuildsShrink
  <1>3. ASSUME NEW i \in Builds(w)', SnapshotMatches(w, i)' PROVE RootMatches(w, i)'
    BY <1>2, <1>3 DEF SInv, BuildsDeclared, SnapshotMatches, RootMatches
  <1> QED
    BY <1>1, <1>3

\* A commit ends in the declared root, or leaves its validator torn; no build
\* of that validator was prepared on the new root.
LEMMA CommitSInv ==
  ASSUME IInv, OInv, LInv, SInv, NEW v \in Validators, NEW i \in 1 .. Len(cfs), CommitsNew(v, i),
         \A w \in Validators : \A j \in pending'[w] :
             j \in pending[w] \/ (pc[w] = "cf" /\ j = cur[w])
  PROVE  SInv'
  <1>1. /\ cfs' = cfs /\ i \notin FinalizedCfs(v) /\ ApplySucceeds(v, i)
        /\ gsm' = [gsm EXCEPT ![v] = @ \cup cfs[i].events]
        /\ chain' = [chain EXCEPT ![v] = i]
        /\ torn' = IF RootMatches(v, i) THEN torn \ {v} ELSE torn
    BY DEF CommitsNew, TakesUp, Commit, Apply
  <1>2. /\ gsm \in [Validators -> SUBSET Events] /\ chain \in [Validators -> Ids \cup {Genesis}]
        /\ i # Genesis /\ i \in Ids
    <2>1. i \in Ids /\ i # 0
      BY RefTypes DEF IInv
    <2> QED
      BY <2>1 DEF IInv, TypeOK, Genesis
  <1>3. ASSUME NEW w \in Validators \ torn', w # v
        PROVE  /\ gsm'[w] = RootAt(chain[w])'
               /\ \A j \in Builds(w)' : SnapshotMatches(w, j)' => RootMatches(w, j)'
    <2>1. w \in Validators \ torn /\ gsm'[w] = gsm[w] /\ chain'[w] = chain[w]
      BY <1>1, <1>2, <1>3
    <2> QED
      BY <1>1, <2>1, QuietState
  <1>4. ASSUME v \notin torn'
        PROVE  /\ gsm'[v] = RootAt(chain[v])'
               /\ \A j \in Builds(v)' : SnapshotMatches(v, j)' => RootMatches(v, j)'
    <2>1. RootMatches(v, i)
      BY <1>1, <1>4, WholeRootMatches
    <2>2. gsm'[v] = cfs[i].root /\ chain'[v] = i
      BY <1>1, <1>2, <2>1 DEF RootMatches
    <2>3. RootAt(chain[v])' = cfs[i].root
      BY <1>1, <1>2, <2>2 DEF RootAt
    <2>4. ASSUME NEW j \in Builds(v)' PROVE ~SnapshotMatches(v, j)'
      <3>1. j \in Builds(v)
        BY <1>1, BuildsShrink
      <3>2. InHand(v, j)
        BY <3>1 DEF Builds, InHand
      <3>3. PICK k \in 0 .. Height(v) : cfs[j].prev = At(v, k)
        BY <3>2 DEF LInv, HandsOnLine
      <3>4. Height(v) \in Nat
        BY DEF IInv, TypeOK, Height
      <3>5. At(v, k) # i
        BY <1>1, <1>2, <3>3, <3>4 DEF At, Height, FinalizedCfs
      <3> QED
        BY <1>1, <2>2, <3>3, <3>5 DEF SnapshotMatches
    <2> QED
      BY <2>2, <2>3, <2>4
  <1>5. ASSUME NEW w \in Validators \ torn'
        PROVE  /\ gsm'[w] = RootAt(chain[w])'
               /\ \A j \in Builds(w)' : SnapshotMatches(w, j)' => RootMatches(w, j)'
    BY <1>3, <1>4
  <1>6. StateFollowsChain'
    BY <1>5 DEF StateFollowsChain
  <1>7. BuildsDeclared'
    BY <1>5 DEF BuildsDeclared
  <1> QED
    BY <1>6, <1>7 DEF SInv

\* A commit that fails tears one validator and leaves the others alone.
LEMMA FailsSInv ==
  ASSUME IInv, OInv, SInv, NEW v \in Validators, NEW i \in 1 .. Len(cfs), FailsNew(v, i),
         \A w \in Validators : \A j \in pending'[w] :
             j \in pending[w] \/ (pc[w] = "cf" /\ j = cur[w])
  PROVE  SInv'
  <1>1. /\ cfs' = cfs /\ chain' = chain /\ torn' = torn \cup {v}
        /\ gsm' = [gsm EXCEPT ![v] = @ \cup cfs[i].events]
        /\ gsm \in [Validators -> SUBSET Events]
    BY DEF FailsNew, TakesUp, CommitFails, Apply, IInv, TypeOK
  <1>2. ASSUME NEW w \in Validators \ torn'
        PROVE  /\ gsm'[w] = RootAt(chain[w])'
               /\ \A j \in Builds(w)' : SnapshotMatches(w, j)' => RootMatches(w, j)'
    <2>1. w \in Validators \ torn /\ gsm'[w] = gsm[w] /\ chain'[w] = chain[w]
      BY <1>1, <1>2
    <2> QED
      BY <1>1, <2>1, QuietState
  <1>3. StateFollowsChain'
    BY <1>2 DEF StateFollowsChain
  <1>4. BuildsDeclared'
    BY <1>2 DEF BuildsDeclared
  <1> QED
    BY <1>3, <1>4 DEF SInv

\* Every step keeps one state per chain root.
LEMMA NextSInv == IInv /\ OInv /\ QInv /\ LInv /\ SInv /\ [Next]_vars => SInv'
  <1> SUFFICES ASSUME IInv, OInv, QInv, LInv, SInv, [Next]_vars PROVE SInv'
    OBVIOUS
  <1>1. CASE \E v \in Validators, r \in Nat, E \in SUBSET Events : TryCreateCf(v, r, E)
    BY <1>1, CreateSInv
  <1>2. ASSUME cfs' = cfs,
               \A w \in Validators : \A j \in pending'[w] :
                   j \in pending[w] \/ (pc[w] = "cf" /\ j = cur[w]),
               \/ \E v \in Validators : \E C \in SUBSET Unindexed(v) : Persist(v, C)
               \/ \E v \in Validators : Complete(v)
               \/ LedgerKept
        PROVE  SInv'
    <2>1. UNCHANGED <<chain, gsm, torn>>
      BY <1>2 DEF Persist, Complete, LedgerKept, folder
    <2>2. ASSUME NEW w \in Validators \ torn'
          PROVE  /\ gsm'[w] = RootAt(chain[w])'
                 /\ \A j \in Builds(w)' : SnapshotMatches(w, j)' => RootMatches(w, j)'
      <3>1. w \in Validators \ torn /\ gsm'[w] = gsm[w] /\ chain'[w] = chain[w]
        BY <2>1, <2>2
      <3> QED
        BY <1>2, <3>1, QuietState
    <2>3. StateFollowsChain'
      BY <2>2 DEF StateFollowsChain
    <2>4. BuildsDeclared'
      BY <2>2 DEF BuildsDeclared
    <2> QED
      BY <2>3, <2>4 DEF SInv
  <1> QED
    BY <1>1, <1>2, PendingCases, LedgerCases, CommitSInv, FailsSInv

\* Nothing is proposed at the start.
LEMMA InitOInv == Init => OInv
  BY DEF Init, OInv, ForeignProposal, SingleBuild

\* No validator is torn at the start, and all states are empty.
LEMMA InitSInv == Init => SInv
  BY DEF Init, SInv, StateFollowsChain, BuildsDeclared, Builds, RootAt

\* For any number of validators, any rivals, timeouts, catch-ups and failures:
\* two validators with the same anchor chain root have the same state, unless
\* a commit has failed in the store of one of them and it has not reached a
\* declared root since.
THEOREM StateRootsAgree == Spec => []StateRootAgreement
  <1>1. Init => OInv /\ QInv /\ LInv /\ SInv
    BY InitOInv, InitQInv, InitLInv, InitSInv
  <1>2. SInv => StateRootAgreement
    BY DEF SInv, StateFollowsChain, StateRootAgreement
  <1> QED
    BY <1>1, <1>2, NextOInv, NextQInv, NextLInv, NextSInv, Inductive, PTL DEF Spec

-----------------------------------------------------------------------------
(* Consensus implements AnchorTree.                                        *)

\* The CFs whose anchor some validator has stored.
Durable == UNION {anchorStore[v] : v \in Validators}

\* The tip of a validator's line is its chain root.
LEMMA TipIsChain ==
  ASSUME IInv, LInv, NEW v \in Validators
  PROVE  Tree!Tip(v) = chain[v]
  BY DEF Tree!Tip, LInv, Line, At, Height, Genesis

\* The quorum of the code is more than two thirds of the nodes of the tree.
LEMMA BackedIsDecided ==
  ASSUME NEW i, Backed(i)'
  PROVE  Tree!Decided(sentVotes', i)
  <1>1. VotersOf(sentVotes', i) = {n \in Validators : <<n, i>> \in sentVotes'}
    BY DEF VotersOf
  <1>2. 3 * Cardinality(VotersOf(sentVotes', i)) > 2 * N
    BY DEF Backed, VotersOf
  <1> QED
    BY <1>1, <1>2 DEF Tree!Decided

\* A prepared CF is a new frame on its proposer's tip, with events that no frame
\* the proposer has taken carries.
LEMMA CreateTree ==
  ASSUME IInv, LInv, NEW v \in Validators, NEW r \in Nat, NEW E \in SUBSET Events,
         TryCreateCf(v, r, E)
  PROVE  Tree!Propose(v)
  <1> DEFINE f == PreparedCf(v, r, E)
  <1>1. /\ Len(cfs') = Len(cfs) + 1 /\ cfs'[Len(cfs) + 1] = f
        /\ sentVotes' = sentVotes \cup {<<v, Len(cfs) + 1>>}
        /\ E # {} /\ E \subseteq Selectable(v)
        /\ UNCHANGED <<sentFinal, gsm, finalized, anchorStore, torn>>
    BY CreateEffect DEF TryCreateCf
  <1>2. cfs' = Append(cfs, f)
    BY DEF TryCreateCf, OpenBuild
  <1>3. f.prev = Tree!Tip(v)
    BY TipIsChain DEF PreparedCf
  <1>4. f.events = E /\ f.root = gsm[v] \cup E
    BY DEF PreparedCf
  <1>5. ASSUME NEW j \in Tree!Taken(v) PROVE E \cap cfs[j].events = {}
    <2>1. PICK k \in 1 .. Height(v) : j = At(v, k)
      BY DEF Tree!Taken, Height, At, IInv, TypeOK
    <2>2. cfs[j].events \subseteq done[v]
      BY <2>1 DEF LInv, Line
    <2> QED
      BY <1>1, <2>2 DEF Selectable
  <1> HIDE DEF f
  <1> QED
    BY <1>1, <1>2, <1>3, <1>4, <1>5 DEF Tree!Propose

\* What is decided about a CF with a quorum takes its events in as the tree does.
LEMMA EnterTree ==
  ASSUME IInv, LInv, SInv, NEW v \in Validators, NEW i \in 1 .. Len(cfs), TakesUp(v, i),
         ApplySucceeds(v, i), Apply(v, i), Backed(i)'
  PROVE  Tree!Enter(v, i)
  <1>1. /\ i \notin FinalizedCfs(v) /\ InHand(v, i)
        /\ gsm' = [gsm EXCEPT ![v] = @ \cup cfs[i].events]
        /\ UNCHANGED <<cfs, anchorStore, sentFinal>>
        /\ sentVotes' \in {sentVotes, sentVotes \cup {<<v, i>>}}
    BY DEF TakesUp, Apply, MayVote
  <1>2. v \notin torn => gsm[v] \cup cfs[i].events = cfs[i].root
    BY WholeRootMatches DEF RootMatches
  <1>3. Tree!Decided(sentVotes', i)
    BY BackedIsDecided
  <1>4. Tree!Forkless => cfs[i].prev = Tree!Tip(v)
    <2> SUFFICES ASSUME Tree!Forkless PROVE cfs[i].prev = chain[v]
      BY TipIsChain
    <2>1. NoRivals
      BY DEF NoRivals, Created, Tree!Forkless
    <2> QED
      BY <1>1, <2>1, CommitExtends
  <1>5. i \notin Tree!Taken(v)
    BY <1>1 DEF Tree!Taken, FinalizedCfs
  <1> QED
    BY <1>1, <1>2, <1>3, <1>4, <1>5 DEF Tree!Enter

\* Committing a CF takes one frame of the tree.
LEMMA CommitTree ==
  ASSUME IInv, LInv, SInv, QInv', NEW v \in Validators, NEW i \in 1 .. Len(cfs), CommitsNew(v, i)
  PROVE  Tree!Extend(v, i)
  <1>0. finalized \in [Validators -> Seq(Ids)] /\ i \in Ids /\ gsm \in [Validators -> SUBSET Events]
    BY RefTypes DEF IInv, TypeOK
  <1>1. /\ TakesUp(v, i) /\ ApplySucceeds(v, i) /\ Apply(v, i)
        /\ finalized' = [finalized EXCEPT ![v] = Append(@, i)]
        /\ torn' = IF RootMatches(v, i) THEN torn \ {v} ELSE torn
    BY DEF CommitsNew, Commit
  <1>2. Backed(i)'
    <2>1. finalized' = [finalized EXCEPT ![v] = Append(@, i)]
      BY <1>1
    <2>2. i \in Ids
      BY <1>0
    <2>3. FinalizedCfs(v)' = FinalizedCfs(v) \cup {i}
      BY <2>1, <2>2, FinalizedAppend, ZenonT(30)
    <2> QED
      BY <2>3 DEF QInv, Claimed, TakenFor
  <1>3. Tree!Enter(v, i)
    BY <1>1, <1>2, EnterTree
  <1>4. RootMatches(v, i) <=> gsm'[v] = cfs[i].root
    BY <1>0, <1>1 DEF RootMatches, Apply
  <1> QED
    BY <1>1, <1>3, <1>4 DEF Tree!Extend

\* A commit that fails tears the node.
LEMMA FailsTree ==
  ASSUME IInv, LInv, SInv, NEW v \in Validators, NEW i \in 1 .. Len(cfs), FailsNew(v, i)
  PROVE  Tree!Falter(v, i)
  <1>1. /\ TakesUp(v, i) /\ ApplySucceeds(v, i) /\ Apply(v, i) /\ Backed(i)'
        /\ torn' = torn \cup {v} /\ finalized' = finalized
    BY DEF FailsNew, CommitFails
  <1>2. Tree!Enter(v, i)
    BY <1>1, EnterTree
  <1> QED
    BY <1>1, <1>2 DEF Tree!Falter

\* Storing the anchor of a finalized CF makes its frame durable.
LEMMA PersistTree ==
  ASSUME IInv, RInv, NEW v \in Validators, NEW C, Persist(v, C)
  PROVE  \E i \in 1 .. Len(cfs) : Tree!Store(i)
  <1>1. /\ pc[v] = "persist" /\ UNCHANGED <<cfs, sentVotes, sentFinal, finalized, gsm, torn>>
        /\ anchorStore' = [anchorStore EXCEPT ![v] = @ \cup {cur[v]}]
        /\ anchorStore \in [Validators -> SUBSET Ids]
    BY DEF Persist, net, folder, IInv, TypeOK
  <1>2. PICK i \in 1 .. Len(cfs) : i = cur[v]
    BY <1>1 DEF IInv, RefsExist, Genesis
  <1>3. i \in Tree!Taken(v)
    BY <1>1, <1>2 DEF RInv, Booked, FinalizedCfs, Tree!Taken
  <1>4. Durable' = Durable \cup {i}
    BY <1>1, <1>2 DEF Durable
  <1>5. Tree!Store(i)
    BY <1>1, <1>3, <1>4 DEF Tree!Store, Durable
  <1> QED
    BY <1>5

\* Completing a CF announces a durable frame.
LEMMA CompleteTree ==
  ASSUME IInv, RInv, NEW v \in Validators, Complete(v)
  PROVE  \E i \in 1 .. Len(cfs) : Tree!Announce(i)
  <1>1. /\ pc[v] = "complete" /\ UNCHANGED <<cfs, sentVotes, finalized, gsm, anchorStore, torn>>
        /\ sentFinal' = sentFinal \cup {cur[v]}
    BY DEF Complete, store
  <1>2. PICK i \in 1 .. Len(cfs) : i = cur[v]
    BY <1>1 DEF IInv, RefsExist, Genesis
  <1>3. i \in Durable
    BY <1>1, <1>2 DEF RInv, Booked, Durable
  <1>4. Tree!Announce(i)
    BY <1>1, <1>2, <1>3 DEF Tree!Announce, Durable
  <1> QED
    BY <1>4

\* Every step of the network is a step of the tree or none.
LEMMA StepTree ==
  IInv /\ LInv /\ SInv /\ RInv /\ QInv /\ QInv' /\ [Next]_vars => [Tree!Next]_(Tree!treeVars)
  <1> SUFFICES ASSUME IInv, LInv, SInv, RInv, QInv, QInv', [Next]_vars
               PROVE  Tree!Next \/ UNCHANGED <<cfs, sentVotes, finalized, gsm, torn, Durable, sentFinal>>
    BY DEF Tree!treeVars, Durable
  <1>1. ASSUME NEW v \in Validators, NEW r \in Nat, NEW E \in SUBSET Events, TryCreateCf(v, r, E)
        PROVE  Tree!Next
    <2>1. Tree!Propose(v)
      BY <1>1, CreateTree
    <2> QED
      BY <2>1 DEF Tree!Next
  <1>2. ASSUME NEW v \in Validators, NEW i \in 1 .. Len(cfs), CommitsNew(v, i)
        PROVE  Tree!Next
    <2>1. Tree!Extend(v, i)
      BY <1>2, CommitTree
    <2> QED
      BY <2>1 DEF Tree!Next
  <1>3. ASSUME NEW v \in Validators, NEW C \in SUBSET Unindexed(v), Persist(v, C)
        PROVE  Tree!Next
    <2>1. \E i \in 1 .. Len(cfs) : Tree!Store(i)
      BY <1>3, PersistTree
    <2> QED
      BY <2>1 DEF Tree!Next
  <1>4. ASSUME NEW v \in Validators, Complete(v) PROVE Tree!Next
    <2>1. \E i \in 1 .. Len(cfs) : Tree!Announce(i)
      BY <1>4, CompleteTree
    <2> QED
      BY <2>1 DEF Tree!Next
  <1>5. ASSUME LedgerKept
        PROVE  Tree!Next \/ UNCHANGED <<cfs, sentVotes, finalized, gsm, torn, Durable, sentFinal>>
    <2>1. UNCHANGED <<cfs, finalized, gsm, torn, anchorStore, Durable, sentFinal>>
      BY <1>5 DEF LedgerKept, Durable
    <2>2. ASSUME NEW v \in Validators, NEW i \in 1 .. Len(cfs),
                 sentVotes' = sentVotes \cup {<<v, i>>}
          PROVE  Tree!Next
      <3>1. Tree!Vote(v, i)
        BY <2>1, <2>2 DEF Tree!Vote, Durable
      <3> QED
        BY <3>1 DEF Tree!Next
    <2> QED
      BY <1>5, <2>1, <2>2 DEF LedgerKept, MayVote
  <1>6. ASSUME NEW v \in Validators, NEW i \in 1 .. Len(cfs), FailsNew(v, i)
        PROVE  Tree!Next
    <2>1. Tree!Falter(v, i)
      BY <1>6, FailsTree
    <2> QED
      BY <2>1 DEF Tree!Next
  <1> QED
    BY <1>1, <1>2, <1>3, <1>4, <1>5, <1>6, LedgerCases

\* Consensus implements AnchorTree: for any number of validators and any mix of
\* proposals, votes, timeouts, catch-up, failed persists and failed commits, a
\* validator only appends to what it has finalized, each CF backed by more than
\* two thirds, ending in the declared root unless a commit has failed in its own
\* store, on its own tip unless somebody forked, stored before it is announced.
THEOREM ConsensusImplementsTree == Spec => ImplementsTree
  <1>1. Init => Tree!Init
    BY DEF Init, Tree!Init
  <1>2. Init => LInv /\ RInv /\ QInv /\ OInv /\ SInv
    BY InitLInv, InitRInv, InitQInv, InitOInv, InitSInv
  <1> QED
    BY <1>1, <1>2, StepTree, NextLInv, NextRInv, NextQInv, NextOInv, NextSInv, Inductive, PTL
       DEF Spec, ImplementsTree, Tree!Spec
=============================================================================
