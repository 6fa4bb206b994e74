-------------------------- MODULE MCForwardDriver --------------------------
(***************************************************************************)
(* An instance of ForwardDriver for TLC: three layers, of which the second *)
(* needs no buffer, in two shards whose data are a few bytes.              *)
(***************************************************************************)
EXTENDS ForwardDriver

MCShard == "s0" :> "A" @@ "e0" :> "A" @@ "e1" :> "B" @@ "s2" :> "B" @@ "hd" :> "B" @@ "mt" :> "A" @@ "me" :> "B"
MCBytes == "A" :> 4 @@ "B" :> 4
Extent(o, l) == [off |-> o, n |-> l]
MCSpan == "s0" :> Extent(0, 1) @@ "e0" :> Extent(1, 2) @@ "mt" :> Extent(3, 1)
            @@ "e1" :> Extent(0, 1) @@ "s2" :> Extent(1, 1) @@ "hd" :> Extent(2, 1) @@ "me" :> Extent(3, 1)
MCName == DOMAIN MCShard
MCKey(n) == n
MCDeq == 0 :> {"s0"} @@ 1 :> {} @@ 2 :> {"s2"}
MCScratch == "block" :> 4 @@ "head" :> 3 @@ "draft" :> 4
MCExperts == 0 :> {"e0"} @@ 1 :> {"e1"} @@ 2 :> {}

=============================================================================
