------------------------------ MODULE AtMostOnce ------------------------------
(***************************************************************************)
(* What a single-use capability promises: it is issued, then spent by one    *)
(* user, and only the user who spent it may perform what it is for, once.  A *)
(* spent capability may never be performed at all, but nobody spends it      *)
(* again.  The ledger records who spent and who performed: a second spend or *)
(* a second performer is a step of its own, and no step of this              *)
(* specification.                                                            *)
(***************************************************************************)
CONSTANTS Ids, Users

VARIABLE ledger

Entry(issued, spentBy, performedBy) ==
    [issued |-> issued, spentBy |-> spentBy, performedBy |-> performedBy]

Init == ledger = [i \in Ids |-> Entry(FALSE, {}, {})]

Move(i, from, to) ==
    /\ ledger[i] = from
    /\ ledger' = [ledger EXCEPT ![i] = to]

Issue(i)      == Move(i, Entry(FALSE, {}, {}), Entry(TRUE, {}, {}))
Spend(i, u)   == Move(i, Entry(TRUE, {}, {}), Entry(TRUE, {u}, {}))
Perform(i, u) == Move(i, Entry(TRUE, {u}, {}), Entry(TRUE, {u}, {u}))

Next == \E i \in Ids : Issue(i) \/ \E u \in Users : Spend(i, u) \/ Perform(i, u)

Spec == Init /\ [][Next]_ledger
===============================================================================
