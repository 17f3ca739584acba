----------------------------- MODULE AnchorTree -----------------------------
(***************************************************************************)
(* What consensus promises, without rounds, leaders, pending CFs, message  *)
(* handling, catch-up or queues.  Frames form a tree: each one names the   *)
(* frame it was prepared on, carries events that no frame on the way to    *)
(* its base carries, and declares the state it leads to.  Every node walks *)
(* down one line of that tree, one frame at a time and never back; a step  *)
(* needs the ballots of a quorum and ends in the declared state.           *)
(* A node whose store fails in the middle of a step is torn: it has the    *)
(* events of the frame and does not stand on it.  It is whole again when a *)
(* later step ends in the state that its frame declares.                   *)
(* A frame is made durable after some node has taken it, and announced     *)
(* after it is durable.                                                    *)
(***************************************************************************)
EXTENDS Integers, Sequences

CONSTANTS Nodes,
          Quorums      \* the sets of nodes whose ballots decide

VARIABLES frames,      \* the frames proposed so far
          ballots,     \* pairs <<node, frame>>: the ballots cast
          line,        \* the frames each node has taken, in order
          ledger,      \* the events in the state of each node
          torn,        \* the nodes with the events of a frame they did not take
          durable,     \* frames that some node has stored
          announced    \* frames announced as final

treeVars == <<frames, ballots, line, ledger, torn, durable, announced>>

Init ==
    /\ frames = << >> /\ ballots = {}
    /\ line = [n \in Nodes |-> << >>]
    /\ ledger = [n \in Nodes |-> {}]
    /\ torn = {} /\ durable = {} /\ announced = {}

\* The frame a node stands on, 0 at the root of the tree.
Tip(n) == IF Len(line[n]) = 0 THEN 0 ELSE line[n][Len(line[n])]

Taken(n) == {line[n][k] : k \in 1 .. Len(line[n])}

Decided(B, i) == {n \in Nodes : <<n, i>> \in B} \in Quorums

\* The tree is a line: no two frames share a base.
Forkless ==
    \A i, j \in 1 .. Len(frames) : frames[i].prev = frames[j].prev => i = j

Propose(n) ==
    LET i == Len(frames) + 1
        f == frames'[i]
    IN  /\ Len(frames') = i /\ frames' = Append(frames, f)
        /\ f.prev = Tip(n)
        /\ f.events # {}
        /\ \A j \in Taken(n) : f.events \cap frames[j].events = {}
        /\ f.root = ledger[n] \cup f.events
        /\ ballots' = ballots \cup {<<n, i>>}
        /\ UNCHANGED <<line, ledger, torn, durable, announced>>

Vote(n, i) ==
    /\ ballots' = ballots \cup {<<n, i>>}
    /\ UNCHANGED <<frames, line, ledger, torn, durable, announced>>

\* The events of a new frame reach the state of a node, possibly with its own
\* ballot as the last one needed.  In a forkless tree the frame can only be the
\* child of the one it stands on.
Enter(n, i) ==
    /\ i \notin Taken(n)
    /\ ballots' \in {ballots, ballots \cup {<<n, i>>}}
    /\ Decided(ballots', i)
    /\ n \notin torn => ledger[n] \cup frames[i].events = frames[i].root
    /\ Forkless => frames[i].prev = Tip(n)
    /\ ledger' = [ledger EXCEPT ![n] = @ \cup frames[i].events]
    /\ UNCHANGED <<frames, durable, announced>>

Extend(n, i) ==
    /\ Enter(n, i)
    /\ line' = [line EXCEPT ![n] = Append(@, i)]
    /\ torn' = IF ledger'[n] = frames[i].root THEN torn \ {n} ELSE torn

Falter(n, i) ==
    /\ Enter(n, i)
    /\ torn' = torn \cup {n}
    /\ UNCHANGED line

Store(i) ==
    /\ \E n \in Nodes : i \in Taken(n)
    /\ durable' = durable \cup {i}
    /\ UNCHANGED <<frames, ballots, line, ledger, torn, announced>>

Announce(i) ==
    /\ i \in durable
    /\ announced' = announced \cup {i}
    /\ UNCHANGED <<frames, ballots, line, ledger, torn, durable>>

Next ==
    \/ \E n \in Nodes : Propose(n)
    \/ \E i \in 1 .. Len(frames) :
          \/ \E n \in Nodes : Vote(n, i) \/ Extend(n, i) \/ Falter(n, i)
          \/ Store(i) \/ Announce(i)

Spec == Init /\ [][Next]_treeVars
=============================================================================
