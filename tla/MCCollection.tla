---------------------------- MODULE MCCollection ----------------------------
(* Two endpoints; three bids on three days: a phrase, the same words in    *)
(* the other order, and one word whose other is in an attached file; and   *)
(* an entry without a number.                                              *)
EXTENDS MCNoticePipeline, Collection

MCBids == {"n1", "n2", "n3", "x"}
MCEndpoint == [b \in MCBids |-> IF b = "n3" THEN 2 ELSE 1]
MCListing == << <<"n1", "n2">>, <<"n3">> >>
MCDay == "n1" :> 1 @@ "n2" :> 3 @@ "n3" :> 3 @@ "x" :> 3
MCTitle == "n1" :> <<2, 3>> @@ "n2" :> <<3, 2>> @@ "n3" :> <<3, 1>> @@ "x" :> <<2, 3>>
MCFields == "n1" :> {} @@ "n2" :> {} @@ "n3" :> {2} @@ "x" :> {}
MCKeywords == {<<2, 3>>, <<3>>, <<1, 3>>}
MCRanges == {<<1, 3>>, <<2, 3>>}
=============================================================================
