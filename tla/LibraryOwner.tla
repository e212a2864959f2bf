---------------------------- MODULE LibraryOwner ----------------------------
(***************************************************************************)
(* What the handoff of optical libraries promises, without messages,       *)
(* receipts or files: every archived item has one owner, a library changes *)
(* its owner as a whole, and a node that has handed its library over never *)
(* owns anything again.                                                    *)
(***************************************************************************)
CONSTANTS Nodes, Items, First, Home, NoNode

VARIABLES owner,   \* item: the node a reader is sent to
          left     \* nodes that have handed their library over

Init ==
    /\ owner = [i \in Items |-> IF i = First THEN Home ELSE NoNode]
    /\ left = {}

(* A new item is archived on a node that still has its own library. *)
Archive(i, n) ==
    /\ owner[i] = NoNode /\ n \notin left
    /\ owner' = [owner EXCEPT ![i] = n]
    /\ UNCHANGED left

(* All items of s go to t at once. *)
Move(s, t) ==
    /\ s # t /\ s \notin left /\ t \notin left
    /\ owner' = [i \in Items |-> IF owner[i] = s THEN t ELSE owner[i]]
    /\ left' = left \cup {s}

Next == \/ \E i \in Items, n \in Nodes : Archive(i, n)
        \/ \E s, t \in Nodes : Move(s, t)

Spec == Init /\ [][Next]_<<owner, left>>
=============================================================================
