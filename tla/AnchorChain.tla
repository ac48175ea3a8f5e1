---------------------------- MODULE AnchorChain ----------------------------
(***************************************************************************)
(* What the rolling anchors of packages/evidence promise about one tenant: *)
(* the audit log only grows, and the external chain over it grows by       *)
(* anchors each of which starts right after its predecessor and covers     *)
(* rows that are committed.  How runs, leases and the time stamp authority *)
(* bring that about is AuditAnchor.                                        *)
(***************************************************************************)
EXTENDS Naturals, Sequences

CONSTANT MaxRows

VARIABLES rows,    \* number of committed audit rows
          ranges   \* every anchor's first and last row and the place of the one it cites

LastTop == IF ranges = <<>> THEN 0 ELSE ranges[Len(ranges)].last

Init == rows = 0 /\ ranges = <<>>

Append1 == /\ rows < MaxRows
           /\ rows' = rows + 1
           /\ UNCHANGED ranges

Anchor == /\ \E last \in LastTop + 1 .. rows :
               ranges' = Append(ranges, [first |-> LastTop + 1, last |-> last,
                                       cites |-> Len(ranges)])
          /\ UNCHANGED rows

Next == Append1 \/ Anchor

Spec == Init /\ [][Next]_<<rows, ranges>>
=============================================================================
