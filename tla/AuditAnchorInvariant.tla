------------------------ MODULE AuditAnchorInvariant ------------------------
(***************************************************************************)
(* The inductive invariants of AuditAnchor: why the chain cannot branch    *)
(* though a run cites what it read long ago, why the stored status claims  *)
(* no more than there is, and why a prompt run is alone with its request.  *)
(***************************************************************************)
EXTENDS AuditAnchor

(* Every anchor cites the one before it and starts right after its tip.     *)
Linked ==
  \A i \in 1 .. Len(anchors) :
    /\ anchors[i].prev = i - 1
    /\ anchors[i].from = Top(i - 1) + 1
    /\ Top(i - 1) < anchors[i].top /\ anchors[i].top <= rows

\* A run that has read the last anchor, and one that has its range too.
Ranged == {"pending", "asking", "answered", "inserting", "writing"}
Seeing == Ranged \union {"tip"}

(* The anchor a run has read is in the chain, though others may follow it   *)
(* by now; its own range starts there.                                      *)
Past(r) ==
  /\ run[r].pc \in Seeing => run[r].seen <= Len(anchors)
  /\ run[r].pc \in Ranged =>
       /\ run[r].from = Top(run[r].seen) + 1
       /\ Top(run[r].seen) < run[r].top /\ run[r].top <= rows

ReadIsPast == \A r \in Runs : Past(r)

ChainInv == TypeOK /\ Linked /\ ReadIsPast

Tops == {0} \union {anchors[i].top : i \in 1 .. Len(anchors)}

(* The status a run has read was true, and each refusal is blamed once; an  *)
(* outcome to be recorded is settled in the next step of its run.           *)
Heeds(r) ==
  /\ run[r].prior.anchored \in Tops
  /\ run[r].prior.failures <= refusals
  /\ run[r].outcome = "anchored" => run[r].pc = "settling" /\ run[r].top \in Tops
  /\ run[r].outcome = "tsa-failed" =>
       run[r].pc = "settling" /\ run[r].prior.failures < refusals

PriorTruthful == \A r \in Runs : Heeds(r)

StatusInv == StatusTruthful /\ PriorTruthful

(* The whole, for any runs, with or without leases.                         *)
AnchorInv == ChainInv /\ StatusInv

(* The lease of a run that asks has lost no more time than the request took.*)
AsksUnderLease ==
  \A r \in Runs \ Leaseless :
    run[r].pc = "asking" =>
      lease.holder = r /\ lease.left + run[r].waited >= TTL
=============================================================================
