------------------------- MODULE MCIndirectTransfer -------------------------
(* Two claims of the same name in different namespaces go to one namespace.      *)
EXTENDS IndirectTransfer, TLC

CONSTANTS t1, t2

MCTransfers == {t1, t2}
MCSource == t1 :> <<"ns", "long-one">> @@ t2 :> <<"other", "long-one">>
MCDest == t1 :> <<"target", "long-one">> @@ t2 :> <<"target", "long-two">>

(* The names of their pods differ at the destination,                           *)
MCTruncated == "long-one" :> "one" @@ "long-two" :> "two"
(* or they differ only behind the place where names of pods are cut.             *)
MCCut == "long-one" :> "long" @@ "long-two" :> "long"
=============================================================================
