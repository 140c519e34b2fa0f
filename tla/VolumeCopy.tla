----------------------------- MODULE VolumeCopy -----------------------------
(***************************************************************************)
(* What a transfer promises (state_transfer/transfer/transfer.go, Transfer: *)
(* "knows how to transfer PV data from a source to a destination"): data    *)
(* flows from the source volume of a pair to its destination and nowhere    *)
(* else, whatever is created, fails or is retried on the way.               *)
(***************************************************************************)
CONSTANTS
  PVCs,   \* the pairs of a source and a destination claim
  Empty   \* the contents of a fresh destination

VARIABLES
  src,    \* contents of the source volumes, named by the pair they are of
  dst     \* contents of the destination volumes

Init ==
  /\ src = [p \in PVCs |-> p]
  /\ dst = [p \in PVCs |-> Empty]

Copy(p) ==
  /\ dst' = [dst EXCEPT ![p] = src[p]]
  /\ UNCHANGED src

Next == \E p \in PVCs : Copy(p)

Spec == Init /\ [][Next]_<< src, dst >>
=============================================================================
