-------------------------- MODULE MCSubscriberPasses --------------------------
(* Every profile and every document over two or three values per field. *)
EXTENDS SubscriberPasses

MCAtoiTable == [sst \in {"1", "2"} |-> IF sst = "1" THEN 1 ELSE 2]
MCDocuments ==
  [imsi : IMSIs, k : Keys, opc : OPCs,
   sst : [gotype : {"int32", "int64"}, n : {1, 2}],
   sd : SDs \cup {NoField}, name : APNs \cup {DefaultAPN}]
===============================================================================
