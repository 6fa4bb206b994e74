---------------------------- MODULE MCChatText ----------------------------
(***************************************************************************)
(* An instance of ChatText for TLC: a letter with three merges, a space, a *)
(* character of two bytes that is not in the vocabulary.                   *)
(***************************************************************************)
EXTENDS ChatText, TLC

MCLead(b) == IF b = "x1" THEN 2 ELSE 1
MCStr == "A" :> <<"a">> @@ "AA" :> <<"a", "a">> @@ "AAA" :> <<"a", "a", "a">> @@ "_" :> <<"_">>
           @@ "_A" :> <<"_", "a">> @@ "NL" :> <<"n">> @@ "TH" :> <<"t">>
MCByteOf == "X1" :> "x1" @@ "X2" :> "x2"
Merge(x, y, xy) == [a |-> x, b |-> y, ab |-> xy]
MCMerges == <<Merge("_", "A", "_A"), Merge("A", "A", "AA"), Merge("AA", "A", "AAA")>>
MCThought(name) == \E i \in DOMAIN name : name[i] = "t"
MCLines == {<<"a", "a", "a", " ", "a", "a", "a", "a", "a">>, <<"x1", "x2", "a">>}

=============================================================================
