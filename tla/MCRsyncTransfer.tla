--------------------------- MODULE MCRsyncTransfer ---------------------------
(* Small instances for the runs of RsyncTransfer.                           *)
EXTENDS RsyncTransfer, TLC

(* One transfer of one volume, and two transfers, of two volumes and of one, *)
(* between the same namespaces.                                              *)
OneVolume == "t1" :> << "a" >>
TwoTransfers == "t1" :> << "a", "b" >> @@ "t2" :> << "c" >>

(* The sums of the names of the destination claims. *)
OneName == "a" :> "md5(a)"
ThreeNames == "a" :> "md5(a)" @@ "b" :> "md5(b)" @@ "c" :> "md5(c)"
=============================================================================
