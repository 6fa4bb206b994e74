------------------------- MODULE GraphDecode_proofs -------------------------
(***************************************************************************)
(* GraphInv of GraphDecode is inductive, for every prompt of at least an   *)
(* overlap group, model, number of layers, ratios, window and number of    *)
(* replays; BitExact and the refinement follow.                            *)
(***************************************************************************)
EXTENDS GraphDecode, FiniteSetTheorems, SequenceTheorems, TLAPS

-----------------------------------------------------------------------------
(* Groups of a ratio: division by a positive integer. *)

\* Division with remainder by a positive integer.
LEMMA DivMod ==
    ASSUME NEW a \in Nat, NEW R \in Nat \ {0}
    PROVE  /\ a \div R \in Nat
           /\ a % R \in 0..(R - 1)
           /\ a = (a \div R) * R + (a % R)
BY SMT

\* Products with a positive integer are ordered as the other factors are.
LEMMA MulMono ==
    ASSUME NEW a \in Int, NEW b \in Int, NEW R \in Nat \ {0}
    PROVE  /\ a <= b => a * R <= b * R
           /\ a * R < b * R => a < b
BY SMT

\* Quotient and remainder are determined by the division equation.
LEMMA DivUnique ==
    ASSUME NEW a \in Nat, NEW R \in Nat \ {0}, NEW q \in Nat, NEW r \in 0..(R - 1),
           a = q * R + r
    PROVE  a \div R = q /\ a % R = r
<1> DEFINE d == a \div R
<1>1. d \in Nat /\ a % R \in 0..(R - 1) /\ a = d * R + (a % R)
  BY DivMod
<1> HIDE DEF d
<1>2. d * R < (q + 1) * R /\ q * R < (d + 1) * R
  BY <1>1
<1>3. d < q + 1 /\ q < d + 1
  BY <1>1, <1>2, MulMono
<1>4. d = q
  BY <1>1, <1>3
<1> QED
  BY <1>1, <1>4 DEF d

\* The position completing group g, and that no other does.
LEMMA GroupEnd ==
    ASSUME NEW R \in Nat \ {0}, NEW j \in Nat
    PROVE  (j + 1) % R = 0 <=> j = (j \div R) * R + R - 1
<1>1. /\ j \div R \in Nat /\ j % R \in 0..(R - 1) /\ j = (j \div R) * R + (j % R)
  BY DivMod
<1> DEFINE q == j \div R
<1> HIDE DEF q
<1>2. q \in Nat
  BY <1>1 DEF q
<1>3. CASE j = q * R + R - 1
  <2>1. j + 1 = (q + 1) * R + 0 /\ q + 1 \in Nat /\ 0 \in 0..(R - 1) /\ j + 1 \in Nat
    BY <1>2, <1>3
  <2>2. (j + 1) % R = 0
    BY <2>1, DivUnique
  <2> QED
    BY <2>2, <1>3 DEF q
<1>4. CASE j # q * R + R - 1
  <2>1. (j % R) + 1 \in 0..(R - 1) /\ j + 1 = q * R + ((j % R) + 1) /\ j + 1 \in Nat
    BY <1>1, <1>2, <1>4 DEF q
  <2>2. (j + 1) % R = (j % R) + 1
    BY <2>1, <1>2, DivUnique
  <2> QED
    BY <2>1, <2>2, <1>1, <1>4 DEF q
<1> QED
  BY <1>3, <1>4

\* A position that completes a group: the groups complete before it are as many
\* as its group's index, and one more is complete after it.
LEMMA CompletingDiv ==
    ASSUME NEW R \in Nat \ {0}, NEW j \in Nat, (j + 1) % R = 0
    PROVE  (j + 1) \div R = j \div R + 1
<1>1. j = (j \div R) * R + R - 1 /\ j \div R \in Nat
  BY GroupEnd, DivMod
<1> DEFINE q == j \div R
<1> HIDE DEF q
<1>2. j + 1 = (q + 1) * R + 0 /\ q + 1 \in Nat /\ 0 \in 0..(R - 1) /\ j + 1 \in Nat
  BY <1>1 DEF q
<1> QED
  BY <1>2, DivUnique DEF q

\* The quotient is monotone.
LEMMA DivMono ==
    ASSUME NEW R \in Nat \ {0}, NEW a \in Nat, NEW b \in Nat, a <= b
    PROVE  a \div R <= b \div R
<1> DEFINE p == a \div R
           q == b \div R
<1>1. /\ p \in Nat /\ a % R \in 0..(R - 1) /\ a = p * R + (a % R)
      /\ q \in Nat /\ b % R \in 0..(R - 1) /\ b = q * R + (b % R)
  BY DivMod
<1> HIDE DEF p, q
<1>2. p * R < (q + 1) * R
  BY <1>1
<1>3. p < q + 1
  BY <1>1, <1>2, MulMono
<1> QED
  BY <1>1, <1>3 DEF p, q

\* A group index below (n div R) is a group complete in 0..n-1.
LEMMA GroupBelow ==
    ASSUME NEW R \in Nat \ {0}, NEW n \in Nat, NEW g \in Nat
    PROVE  g < n \div R <=> g * R + R - 1 < n
<1> DEFINE q == n \div R
<1>1. q \in Nat /\ n % R \in 0..(R - 1) /\ n = q * R + (n % R)
  BY DivMod
<1> HIDE DEF q
<1>2. CASE g < q
  <2>1. (g + 1) * R <= q * R
    BY <1>1, <1>2, MulMono
  <2>2. g * R + R - 1 < n
    BY <2>1, <1>1
  <2> QED
    BY <2>2, <1>2 DEF q
<1>3. CASE ~(g < q)
  <2>1. q * R <= g * R
    BY <1>1, <1>3, MulMono
  <2>2. ~(g * R + R - 1 < n)
    BY <2>1, <1>1
  <2> QED
    BY <2>2, <1>3 DEF q
<1> QED
  BY <1>2, <1>3

\* A row pools only positions up to the end of its own group.
LEMMA GroupToksBelow ==
    ASSUME NEW R \in Nat \ {0}, NEW t \in Nat, NEW n \in Nat, t < n \div R
    PROVE  \A q \in GroupToks(R, t) : q \in 0..(n - 1)
<1>1. t * R + R - 1 < n
  BY GroupBelow
<1>2. 0 <= t * R /\ (t >= 1 => 0 <= (t - 1) * R)
  BY MulMono
<1> QED
  BY <1>1, <1>2 DEF GroupToks

-----------------------------------------------------------------------------
(* Constants, texts and the operators of the model. *)

LEMMA Constants ==
    /\ PS \in Nat /\ PS >= 1 /\ NDEC \in Nat /\ NLayers \in Nat /\ NLayers >= 1
    /\ OverlapRatio \in Nat \ {0} /\ SeqMax \in Nat /\ PS + 1 + NDEC < SeqMax
    /\ Positions = 0..(SeqMax - 1) /\ Layers = 0..(NLayers - 1)
    /\ Ratio \in [Layers -> Nat] /\ \A L \in Layers : Ratio[L] # 0 => Ratio[L] >= OverlapRatio
    /\ Junk \notin Token /\ Junk \notin Histories
BY GraphAssumption DEF SeqMax, Positions, Layers

\* A larger ratio has no more groups.
LEMMA DivAntitone ==
    ASSUME NEW n \in Nat, NEW O \in Nat \ {0}, NEW R \in Nat \ {0}, R >= O
    PROVE  n \div R <= n \div O
<1> DEFINE a == n \div R
           b == n \div O
<1>1. /\ a \in Nat /\ n % R \in 0..(R - 1) /\ n = a * R + (n % R)
      /\ b \in Nat /\ n % O \in 0..(O - 1) /\ n = b * O + (n % O)
  BY DivMod
<1> HIDE DEF a, b
<1>2. a * R <= n /\ n < (b + 1) * O
  BY <1>1
<1>3. O * a <= R * a
  BY <1>1
<1>4. a * O < (b + 1) * O
  BY <1>1, <1>2, <1>3
<1>5. a < b + 1
  BY <1>1, <1>4, MulMono
<1> QED
  BY <1>1, <1>5 DEF a, b

\* A position that completes no group leaves their number.
LEMMA NotCompletingDiv ==
    ASSUME NEW R \in Nat \ {0}, NEW j \in Nat, (j + 1) % R # 0
    PROVE  (j + 1) \div R = j \div R
<1> DEFINE q == j \div R
<1>1. q \in Nat /\ j % R \in 0..(R - 1) /\ j = q * R + (j % R) /\ j # q * R + R - 1
  BY DivMod, GroupEnd
<1> HIDE DEF q
<1>2. (j % R) + 1 \in 0..(R - 1) /\ j + 1 = q * R + ((j % R) + 1) /\ j + 1 \in Nat
  BY <1>1
<1>3. (j + 1) \div R = q
  BY <1>1, <1>2, DivUnique
<1> QED
  BY <1>3 DEF q

\* Row counts fit the compressed region of kvc.
LEMMA RowsFit ==
    ASSUME NEW L \in Layers, Ratio[L] # 0, NEW n \in 0..SeqMax
    PROVE  /\ Ratio[L] \in Nat \ {0} /\ n \div Ratio[L] \in Nat /\ n \div Ratio[L] < Tmax
           /\ Tmax \in Nat /\ CompRows(L) = 0..(Tmax - 1)
<1>1. /\ Ratio[L] \in Nat \ {0} /\ Ratio[L] >= OverlapRatio /\ OverlapRatio \in Nat \ {0}
      /\ n \in Nat /\ SeqMax \in Nat /\ n <= SeqMax
  BY Constants
<1>2. /\ n \div Ratio[L] \in Nat /\ n \div OverlapRatio \in Nat /\ SeqMax \div OverlapRatio \in Nat
  BY <1>1, DivMod
<1>3. n \div Ratio[L] <= n \div OverlapRatio
  BY <1>1, DivAntitone
<1>4. n \div OverlapRatio <= SeqMax \div OverlapRatio
  BY <1>1, DivMono
<1> QED
  BY <1>1, <1>2, <1>3, <1>4 DEF Tmax, CompRows

\* The groups complete in the prefill, as PrefillLayer enumerates them.
LEMMA PrefillGroups ==
    ASSUME NEW R \in Nat \ {0}
    PROVE  LET groups == {g \in 0..(PS - 1) : g * R + R <= PS}
           IN  groups = 0..(PS \div R - 1) /\ Cardinality(groups) = PS \div R
<1> DEFINE q == PS \div R
           groups == {g \in 0..(PS - 1) : g * R + R <= PS}
<1>1. q \in Nat /\ PS \in Nat
  BY Constants, DivMod
<1>2. \A g \in Nat : g < q <=> g * R + R - 1 < PS
  BY Constants, GroupBelow
<1> HIDE DEF q
<1>3. \A g \in Nat : g * R + R - 1 < PS => g <= PS - 1
  BY Constants, MulMono
<1>4. groups = 0..(q - 1)
  BY <1>1, <1>2, <1>3
<1>5. Cardinality(0..(q - 1)) = q
  <2>1. 0 \in Int /\ q - 1 \in Int
    BY <1>1
  <2> QED
    BY <2>1, <1>1, FS_Interval
<1> QED
  BY <1>4, <1>5 DEF q

LEMMA PrefixPrefix ==
    ASSUME NEW h, NEW p \in Nat, NEW q \in 0..p
    PROVE  Prefix(Prefix(h, p), q) = Prefix(h, q)
BY DEF Prefix

\* The prefixes of tokens are histories, and so no Junk.
LEMMA PrefixHist ==
    ASSUME NEW h, NEW p \in Positions, \A r \in 0..p : h[r] \in Token
    PROVE  Prefix(h, p) \in Histories /\ Prefix(h, p) # Junk /\ Prefix(h, p) \in Rows
<1>1. Prefix(h, p) \in [0..p -> Token]
  BY DEF Prefix
<1> QED
  BY <1>1, Constants DEF Histories, Rows

\* Histories that agree on a prefix are due the same groups in it.
LEMMA DueAgree ==
    ASSUME NEW R \in Nat \ {0}, NEW g, NEW h, NEW n \in Nat, NEW t \in Nat, t < n \div R,
           \A q \in 0..(n - 1) : Prefix(g, q) = Prefix(h, q)
    PROVE  DueRow(g, R, t) = DueRow(h, R, t)
<1>1. \A q \in GroupToks(R, t) : q \in 0..(n - 1)
  BY GroupToksBelow
<1>2. \A q \in GroupToks(R, t) : Prefix(g, q) = Prefix(h, q)
  BY <1>1
<1> QED
  BY <1>2 DEF DueRow

\* The text so far consists of tokens, ends with the current one and fits the caches.
LEMMA TextIs ==
    ASSUME TypeOK, ControlOK
    PROVE  /\ Len(ggen) \in Nat /\ PS + Len(ggen) \in Positions /\ PS + Len(ggen) + 1 < SeqMax
           /\ Text \in [0..(PS + Len(ggen)) -> Token]
           /\ \A p \in 0..PS : Text[p] = prompt[p]
           /\ Text[PS + Len(ggen)] = cur
           /\ \A p \in 0..(PS + Len(ggen)) :
                Prefix(Text, p) \in Rows /\ Prefix(Text, p) \in Histories /\ Prefix(Text, p) # Junk
<1>1. /\ Len(ggen) \in Nat /\ Len(ggen) <= NDEC /\ prompt \in [0..PS -> Token]
      /\ \A i \in 1..Len(ggen) : ggen[i] \in Token
  BY ElementOfSeq, LenProperties DEF TypeOK, ControlOK
<1>2. PS + Len(ggen) \in Positions /\ PS + Len(ggen) + 1 < SeqMax /\ PS \in Nat
  BY <1>1, Constants
<1>3. \A p \in 0..(PS + Len(ggen)) : ~(p <= PS) => p - PS \in 1..Len(ggen)
  BY <1>1, <1>2
<1>4. \A p \in 0..(PS + Len(ggen)) : TextAt(p) \in Token
  BY <1>1, <1>2, <1>3 DEF TextAt
<1>5. Text \in [0..(PS + Len(ggen)) -> Token]
  BY <1>4 DEF Text
<1>6. \A p \in 0..PS : Text[p] = prompt[p]
  BY <1>1, <1>2 DEF Text, TextAt
<1>7. Text[PS + Len(ggen)] = cur
  BY DEF ControlOK
<1>8. ASSUME NEW p \in 0..(PS + Len(ggen))
      PROVE  Prefix(Text, p) \in Rows /\ Prefix(Text, p) \in Histories /\ Prefix(Text, p) # Junk
  <2>1. p \in Positions /\ \A r \in 0..p : r \in 0..(PS + Len(ggen))
    BY <1>1, <1>2, Constants
  <2> QED
    BY <1>5, <2>1, PrefixHist
<1> QED
  BY <1>1, <1>2, <1>5, <1>6, <1>7, <1>8

LEMMA TextSame ==
    ASSUME UNCHANGED <<prompt, ggen>>
    PROVE  /\ Text' = Text
           /\ (Greedy!IsGreedy(prompt, ggen))' <=> Greedy!IsGreedy(prompt, ggen)
BY DEF Text, TextAt, Greedy!IsGreedy, Greedy!HistoryBefore

\* What the layers hold does not change with what they are not made of.
LEMMA LayersSame ==
    ASSUME UNCHANGED <<prompt, ggen>>, NEW L,
           win'[L] = win[L], xin'[L] = xin[L]
    PROVE  /\ comp'[L] = comp[L] /\ T'[L] = T[L] => (Prefilled(L)' <=> Prefilled(L))
           /\ kvw'[L] = kvw[L] /\ kvc'[L] = kvc[L] /\ dT'[L] = dT[L] =>
                \A m : CachedTo(L, m)' <=> CachedTo(L, m)
BY TextSame DEF Prefilled, CachedTo, Held, GroupsHeld

-----------------------------------------------------------------------------
(* The initial state and the steps. *)

LEMMA GraphInit == Init => GraphInv
<1> SUFFICES ASSUME Init
             PROVE  GraphInv
  OBVIOUS
<1>1. ggen = << >> /\ Len(ggen) = 0 /\ << >> \in Seq(Token)
  BY EmptySeq DEF Init
<1>2. T \in [Layers -> 0..Tmax] /\ dT \in [Layers -> 0..Tmax]
  <2>1. \A L \in Layers : Ratio[L] # 0 => (PS + NDEC) \div Ratio[L] \in 0..Tmax
    <3> TAKE L \in Layers
    <3> HAVE Ratio[L] # 0
    <3>1. PS + NDEC \in 0..SeqMax
      BY Constants
    <3> QED
      BY <3>1, RowsFit
  <2>2. Tmax \in Nat
    <3>1. SeqMax \div OverlapRatio \in Nat
      BY Constants, DivMod
    <3> QED
      BY <3>1 DEF Tmax
  <2> QED
    BY <2>1, <2>2 DEF Init
<1>3. 0 \in Positions /\ PS \in 0..PS /\ 0 \in 0..NLayers
  BY Constants
<1>4. TypeOK
  <2>1. /\ win \in [Layers -> [Positions -> Rows]] /\ xin \in [Layers -> [Positions -> Rows]]
        /\ kvw \in [Layers -> [Positions -> Rows]]
    BY DEF Init, Rows
  <2>2. /\ DOMAIN comp = Layers /\ DOMAIN kvc = Layers
        /\ \A L \in Layers : DOMAIN comp[L] = CompRows(L) /\ DOMAIN kvc[L] = CompRows(L)
    BY DEF Init
  <2>3. \A i \in DOMAIN x : x[i] \in Rows
    BY DEF Init
  <2> QED
    BY <1>1, <1>2, <1>3, <2>1, <2>2, <2>3 DEF Init, TypeOK
<1>5. ControlOK
  <2>1. Text[PS + Len(ggen)] = prompt[PS]
    BY <1>1, <1>3, Constants DEF Text, TextAt
  <2> QED
    BY <1>1, <2>1, Constants DEF Init, ControlOK
<1>6. CacheOK /\ WritesFit
  BY DEF Init, CacheOK, WritesFit
<1>7. Greedy!IsGreedy(prompt, ggen)
  BY <1>1 DEF Greedy!IsGreedy
<1> QED
  BY <1>4, <1>5, <1>6, <1>7 DEF GraphInv

LEMMA StartPrefillStep ==
    ASSUME GraphInv, StartPrefill
    PROVE  GraphInv'
<1>1. /\ TypeOK /\ ControlOK /\ CacheOK /\ Greedy!IsGreedy(prompt, ggen)
      /\ phase = "prefill" /\ ~busy /\ busy' = TRUE /\ lay' = 0
      /\ T' = [L \in Layers |-> 0] /\ x' = [p \in 0..(PS - 1) |-> Prefix(prompt, p)]
      /\ UNCHANGED <<phase, prompt, cur, ggen, warmed, win, xin, comp, kvw, kvc, dT, dpos, dcurid, dg>>
  BY DEF GraphInv, StartPrefill, host, device, cells
<1>2. TypeOK'
  <2>1. \A i \in DOMAIN x' : x'[i] \in Rows
    <3>1. \A p \in 0..(PS - 1) : p \in Positions /\ \A r \in 0..p : prompt[r] \in Token
      BY <1>1, Constants DEF TypeOK
    <3> QED
      BY <1>1, <3>1, PrefixHist
  <2>2. 0 \in 0..Tmax /\ 0 \in 0..NLayers
    <3>1. SeqMax \div OverlapRatio \in Nat
      BY Constants, DivMod
    <3> QED
      BY <3>1, Constants DEF Tmax
  <2> QED
    BY <1>1, <2>1, <2>2 DEF TypeOK
<1>3. ControlOK'
  BY <1>1, TextSame DEF ControlOK
<1>4. CacheOK' /\ WritesFit'
  BY <1>1, Constants DEF CacheOK, WritesFit
<1> QED
  BY <1>1, <1>2, <1>3, <1>4, TextSame DEF GraphInv

\* A prefill layer holds the prompt's rows and groups.
LEMMA PrefillLayerStep ==
    ASSUME GraphInv, PrefillLayer
    PROVE  GraphInv'
<1> DEFINE R == Ratio[lay]
           Filled(rows) == [p \in Positions |-> IF p < PS THEN x[p] ELSE rows[p]]
           groups == {g \in 0..(PS - 1) : g * R + R <= PS}
<1>1. /\ TypeOK /\ ControlOK /\ CacheOK /\ Greedy!IsGreedy(prompt, ggen)
      /\ phase = "prefill" /\ busy /\ lay < NLayers /\ lay' = lay + 1
      /\ win' = [win EXCEPT ![lay] = Filled(@)]
      /\ UNCHANGED <<phase, busy, prompt, cur, ggen, warmed, x, kvw, kvc, dT, dpos, dcurid, dg>>
  BY DEF GraphInv, PrefillLayer, host, device, cells
<1>2. \/ R = 0 /\ UNCHANGED <<xin, comp, T>>
      \/ /\ R # 0
         /\ xin' = [xin EXCEPT ![lay] = Filled(@)]
         /\ comp' = [comp EXCEPT ![lay] = [t \in CompRows(lay) |->
                       IF t \in groups THEN GroupRow(xin'[lay], R, t) ELSE @[t]]]
         /\ T' = [T EXCEPT ![lay] = Cardinality(groups)]
  BY DEF PrefillLayer
<1>3. /\ lay \in Layers /\ lay + 1 \in 0..NLayers /\ R \in Nat /\ PS \in Nat
      /\ 0..(PS - 1) \subseteq Positions
  BY <1>1, Constants DEF TypeOK
<1>4. /\ ggen = << >> /\ \A p \in 0..(PS - 1) : x[p] = Prefix(Text, p) /\ x[p] \in Rows
  <2>1. ggen = << >> /\ \A p \in 0..(PS - 1) : x[p] = Prefix(prompt, p)
    BY <1>1 DEF ControlOK
  <2>2. \A p \in 0..(PS - 1) : \A r \in 0..p : r \in 0..PS
    BY <1>3
  <2>3. \A p \in 0..(PS - 1) : Prefix(prompt, p) = Prefix(Text, p)
    BY <1>1, <2>2, TextIs DEF Prefix
  <2>4. \A p \in 0..(PS - 1) : p \in 0..(PS + Len(ggen))
    BY <1>1, <1>3, TextIs
  <2> QED
    BY <1>1, <2>1, <2>3, <2>4, TextIs
<1> HIDE DEF R, groups
<1>5. \A rows : \A p \in Positions : Filled(rows)[p] = IF p < PS THEN x[p] ELSE rows[p]
  OBVIOUS
<1>6. \A rows \in [Positions -> Rows] : Filled(rows) \in [Positions -> Rows]
  <2> SUFFICES ASSUME NEW rows \in [Positions -> Rows], NEW p \in Positions, p < PS
               PROVE  x[p] \in Rows
    OBVIOUS
  <2>1. p \in 0..(PS - 1)
    BY <1>3, Constants
  <2> QED
    BY <1>4, <2>1
<1> HIDE DEF Filled
<1>7. win'[lay] = Filled(win[lay]) /\ (R # 0 => xin'[lay] = Filled(xin[lay]))
  BY <1>1, <1>2, <1>3 DEF TypeOK
<1>8. \A rows : \A p \in 0..(PS - 1) : Filled(rows)[p] = Prefix(Text, p)
  BY <1>3, <1>4, <1>5
<1>9. ASSUME R # 0
      PROVE  /\ T'[lay] = PS \div R /\ PS \div R \in Nat /\ PS \div R < Tmax
             /\ \A t \in 0..(PS \div R - 1) : comp'[lay][t] = DueRow(Text, R, t)
             /\ DOMAIN comp'[lay] = CompRows(lay)
  <2>1. PS \in 0..SeqMax
    BY Constants
  <2>2. R \in Nat \ {0} /\ PS \div R \in Nat /\ PS \div R < Tmax /\ Tmax \in Nat
        /\ CompRows(lay) = 0..(Tmax - 1)
    BY <1>3, <1>9, <2>1, RowsFit DEF R
  <2>3. groups = 0..(PS \div R - 1) /\ Cardinality(groups) = PS \div R
    BY <2>2, PrefillGroups DEF groups
  <2>4. T'[lay] = PS \div R
    BY <1>1, <1>2, <1>3, <1>9, <2>3 DEF TypeOK
  <2>5. comp'[lay] = [t \in CompRows(lay) |->
                        IF t \in groups THEN GroupRow(xin'[lay], R, t) ELSE comp[lay][t]]
    BY <1>1, <1>2, <1>3, <1>9 DEF TypeOK
  <2>6. ASSUME NEW t \in 0..(PS \div R - 1)
        PROVE  comp'[lay][t] = DueRow(Text, R, t)
    <3>1. t \in CompRows(lay) /\ t \in groups /\ t \in Nat /\ t < PS \div R
      BY <2>2, <2>3
    <3>2. \A q \in GroupToks(R, t) : q \in 0..(PS - 1)
      BY <1>3, <2>2, <3>1, GroupToksBelow
    <3>3. \A q \in GroupToks(R, t) : xin'[lay][q] = Prefix(Text, q)
      BY <1>7, <1>8, <1>9, <3>2
    <3>4. GroupRow(xin'[lay], R, t) = DueRow(Text, R, t)
      BY <3>3 DEF GroupRow, DueRow
    <3> QED
      BY <2>5, <3>1, <3>4
  <2>7. DOMAIN comp'[lay] = CompRows(lay)
    BY <2>5
  <2> QED
    BY <2>2, <2>4, <2>6, <2>7
<1>10. ASSUME NEW L \in Layers, L = lay
       PROVE  Prefilled(L)'
  <2>1. Text' = Text
    BY <1>1, TextSame
  <2>2. \A q \in 0..(PS - 1) : win'[L][q] = Prefix(Text, q)
    BY <1>7, <1>8, <1>10
  <2>3. Ratio[L] # 0 => /\ \A q \in 0..(PS - 1) : xin'[L][q] = Prefix(Text, q)
                       /\ T'[L] = PS \div Ratio[L]
                       /\ \A t \in 0..(T'[L] - 1) : comp'[L][t] = DueRow(Text, Ratio[L], t)
    BY <1>7, <1>8, <1>9, <1>10 DEF R
  <2> QED
    BY <2>1, <2>2, <2>3 DEF Prefilled, Held, GroupsHeld
<1>11. \A L \in Layers : L < lay => Prefilled(L)'
  <2> SUFFICES ASSUME NEW L \in Layers, L < lay
               PROVE  Prefilled(L)'
    OBVIOUS
  <2>1. L # lay /\ Prefilled(L)
    BY <1>1, <1>3, Constants DEF CacheOK
  <2>2. win'[L] = win[L] /\ xin'[L] = xin[L] /\ comp'[L] = comp[L] /\ T'[L] = T[L]
    BY <1>1, <1>2, <1>3, <2>1 DEF TypeOK
  <2> QED
    BY <1>1, <2>1, <2>2, LayersSame
<1>12. CacheOK' /\ WritesFit'
  <2>1. \A L \in Layers : L < lay' => L < lay \/ L = lay
    BY <1>1, <1>3, Constants
  <2> QED
    BY <1>1, <1>10, <1>11, <2>1 DEF CacheOK, WritesFit
<1>13. ControlOK'
  BY <1>1, TextSame DEF ControlOK
<1>14. TypeOK'
  <2>1. win' \in [Layers -> [Positions -> Rows]] /\ xin' \in [Layers -> [Positions -> Rows]]
    <3>1. /\ win \in [Layers -> [Positions -> Rows]] /\ xin \in [Layers -> [Positions -> Rows]]
          /\ Filled(win[lay]) \in [Positions -> Rows] /\ Filled(xin[lay]) \in [Positions -> Rows]
      BY <1>1, <1>3, <1>6 DEF TypeOK
    <3>2. win' \in [Layers -> [Positions -> Rows]]
      BY <1>1, <3>1
    <3>3. xin' \in [Layers -> [Positions -> Rows]]
      BY <1>2, <3>1
    <3> QED
      BY <3>2, <3>3
  <2>2. DOMAIN comp' = Layers /\ \A L \in Layers : DOMAIN comp'[L] = CompRows(L)
    <3>1. DOMAIN comp = Layers /\ \A L \in Layers : DOMAIN comp[L] = CompRows(L)
      BY <1>1 DEF TypeOK
    <3>2. CASE R = 0
      BY <1>2, <3>1, <3>2
    <3>3. CASE R # 0
      <4>1. DOMAIN comp' = Layers /\ \A L \in Layers \ {lay} : comp'[L] = comp[L]
        BY <1>2, <1>3, <3>1, <3>3
      <4>2. DOMAIN comp'[lay] = CompRows(lay)
        BY <1>9, <3>3
      <4>3. \A L \in Layers : L # lay => DOMAIN comp'[L] = CompRows(L)
        BY <3>1, <4>1
      <4> QED
        BY <4>1, <4>2, <4>3
    <3> QED
      BY <3>2, <3>3
  <2>3. T' \in [Layers -> 0..Tmax]
    <3>1. CASE R = 0
      BY <1>1, <1>2, <3>1 DEF TypeOK
    <3>2. CASE R # 0
      <4>1. Cardinality(groups) \in 0..Tmax
        <5>1. T'[lay] = Cardinality(groups)
          BY <1>1, <1>2, <1>3, <3>2 DEF TypeOK
        <5>2. Tmax \in Nat
          BY <1>3, <3>2, RowsFit, Constants DEF R
        <5> QED
          BY <1>9, <3>2, <5>1, <5>2
      <4> QED
        BY <1>1, <1>2, <3>2, <4>1 DEF TypeOK
    <3> QED
      BY <3>1, <3>2
  <2> QED
    BY <1>1, <1>3, <2>1, <2>2, <2>3 DEF TypeOK
<1> QED
  BY <1>1, <1>12, <1>13, <1>14, TextSame DEF GraphInv

\* Steps that leave the caches alone.
LEMMA EndPrefillStep ==
    ASSUME GraphInv, EndPrefill
    PROVE  GraphInv'
<1>1. /\ TypeOK /\ ControlOK /\ CacheOK /\ Greedy!IsGreedy(prompt, ggen)
      /\ phase = "prefill" /\ busy /\ lay = NLayers /\ phase' = "copy" /\ busy' = FALSE
      /\ lay' = 0 /\ x' = << >>
      /\ UNCHANGED <<prompt, cur, ggen, warmed, win, xin, comp, T, kvw, kvc, dT, dpos, dcurid, dg>>
  BY DEF GraphInv, EndPrefill, host, hostCaches, device, cells
<1>2. TypeOK'
  <2>1. 0 \in 0..NLayers /\ \A i \in DOMAIN x' : x'[i] \in Rows
    BY <1>1, Constants
  <2> QED
    BY <1>1, <2>1 DEF TypeOK
<1>3. ControlOK' /\ WritesFit'
  BY <1>1, TextSame DEF ControlOK, WritesFit
<1>4. CacheOK'
  <2>1. \A L \in Layers : Prefilled(L) /\ ~(L < lay')
    BY <1>1, Constants DEF CacheOK
  <2>2. \A L \in Layers : Prefilled(L)'
    BY <1>1, <2>1, LayersSame
  <2> QED
    BY <1>1, <2>1, <2>2 DEF CacheOK
<1> QED
  BY <1>1, <1>2, <1>3, <1>4, TextSame DEF GraphInv

LEMMA EndCopyStep ==
    ASSUME GraphInv, EndCopy
    PROVE  GraphInv'
<1>1. /\ TypeOK /\ ControlOK /\ CacheOK /\ Greedy!IsGreedy(prompt, ggen)
      /\ phase = "copy" /\ lay = NLayers /\ phase' \in {"warm", "capture"} /\ lay' = 0
      /\ UNCHANGED <<busy, prompt, cur, ggen, warmed, x, win, xin, comp, T, kvw, kvc, dT, dpos, dcurid, dg>>
  BY DEF GraphInv, EndCopy, host, hostCaches, device, cells
<1>2. TypeOK'
  BY <1>1, Constants DEF TypeOK
<1>3. ~busy /\ ggen = << >> /\ Len(ggen) = 0
  BY <1>1 DEF ControlOK
<1>4. ControlOK' /\ WritesFit'
  BY <1>1, <1>3, TextSame DEF ControlOK, WritesFit
<1>5. CacheOK'
  <2>1. \A L \in Layers : CachedTo(L, PS)
    BY <1>1, Constants DEF CacheOK
  <2>2. \A L \in Layers : CachedTo(L, PS)'
    BY <1>1, <2>1, LayersSame
  <2>3. \A L \in Layers : PS + Len(ggen)' + (IF busy' /\ L < lay' THEN 1 ELSE 0) = PS
    BY <1>1, <1>3, Constants
  <2>4. \A L \in Layers : CachedTo(L, PS + Len(ggen) + (IF busy /\ L < lay THEN 1 ELSE 0))'
    BY <2>2, <2>3 DEF CachedTo, Held
  <2> QED
    BY <1>1, <2>4 DEF CacheOK
<1> QED
  BY <1>1, <1>2, <1>4, <1>5, TextSame DEF GraphInv

\* The copied rows, groups and count of a layer are those of its prefill.
LEMMA CopyLayerStep ==
    ASSUME GraphInv, CopyLayer
    PROVE  GraphInv'
<1> DEFINE W(rows) == [p \in Positions |-> IF p < PS THEN win[lay][p] ELSE rows[p]]
           C(rows) == [t \in CompRows(lay) |-> IF t < T[lay] THEN comp[lay][t] ELSE rows[t]]
<1>1. /\ TypeOK /\ ControlOK /\ CacheOK /\ Greedy!IsGreedy(prompt, ggen)
      /\ phase = "copy" /\ lay < NLayers /\ lay' = lay + 1
      /\ UNCHANGED <<phase, busy, prompt, cur, ggen, warmed, x, win, xin, comp, T, dpos, dcurid, dg>>
  BY DEF GraphInv, CopyLayer, host, hostCaches, cells
<1>2. \/ Ratio[lay] = 0 /\ UNCHANGED <<kvw, kvc, dT>>
      \/ /\ Ratio[lay] # 0
         /\ kvw' = [kvw EXCEPT ![lay] = W(@)]
         /\ kvc' = [kvc EXCEPT ![lay] = C(@)]
         /\ dT' = [dT EXCEPT ![lay] = T[lay]]
  BY DEF CopyLayer, CopiedCount, device
<1>3. /\ lay \in Layers /\ lay + 1 \in 0..NLayers /\ PS \in Nat
      /\ 0..(PS - 1) \subseteq Positions /\ T[lay] \in 0..Tmax
      /\ kvw \in [Layers -> [Positions -> Rows]] /\ win \in [Layers -> [Positions -> Rows]]
      /\ DOMAIN kvc = Layers /\ dT \in [Layers -> 0..Tmax]
      /\ \A L \in Layers : DOMAIN kvc[L] = CompRows(L)
  BY <1>1, Constants DEF TypeOK
<1>4. Prefilled(lay) /\ ~busy /\ Text' = Text
  BY <1>1, <1>3, TextSame DEF CacheOK, ControlOK
<1>5. /\ \A rows : \A p \in 0..(PS - 1) : W(rows)[p] = win[lay][p]
      /\ \A rows : \A t \in CompRows(lay) : t < T[lay] => C(rows)[t] = comp[lay][t]
      /\ \A rows : DOMAIN C(rows) = CompRows(lay)
  BY <1>3
<1>6. W(kvw[lay]) \in [Positions -> Rows]
  BY <1>3
<1> HIDE DEF W, C
<1>7. ASSUME NEW L \in Layers, L # lay
      PROVE  kvw'[L] = kvw[L] /\ kvc'[L] = kvc[L] /\ dT'[L] = dT[L]
  BY <1>2, <1>3, <1>7
<1>8. Ratio[lay] # 0 => /\ kvw'[lay] = W(kvw[lay]) /\ kvc'[lay] = C(kvc[lay]) /\ dT'[lay] = T[lay]
  BY <1>2, <1>3
<1>9. ASSUME NEW L \in Layers, L = lay
      PROVE  CachedTo(L, PS)'
  <2>1. CASE Ratio[L] = 0
    BY <1>1, <1>4, <1>9, <2>1 DEF CachedTo, Prefilled, Held
  <2>2. CASE Ratio[L] # 0
    <3>1. /\ Held(xin[L], PS) /\ \A p \in 0..(PS - 1) : win[L][p] = Prefix(Text, p)
          /\ T[L] = PS \div Ratio[L] /\ \A t \in 0..(T[L] - 1) : comp[L][t] = DueRow(Text, Ratio[L], t)
      BY <1>4, <1>9, <2>2 DEF Prefilled, Held, GroupsHeld
    <3>2. \A t \in 0..(T[L] - 1) : t \in CompRows(L) /\ t < T[L]
      <4>1. PS \in 0..SeqMax
        BY Constants
      <4>2. Tmax \in Nat /\ CompRows(L) = 0..(Tmax - 1) /\ T[L] \in 0..Tmax
        BY <1>3, <1>9, <2>2, <4>1, RowsFit
      <4> QED
        BY <4>2
    <3>3. \A p \in 0..(PS - 1) : kvw'[L][p] = Prefix(Text, p)
      BY <1>5, <1>8, <1>9, <2>2, <3>1
    <3>4. \A t \in 0..(T[L] - 1) : kvc'[L][t] = DueRow(Text, Ratio[L], t)
      BY <1>5, <1>8, <1>9, <2>2, <3>1, <3>2
    <3>5. Held(xin[L], PS)'
      BY <1>1, <1>4, <3>1 DEF Held
    <3>6. dT'[L] = T[L]
      BY <1>8, <1>9, <2>2
    <3> QED
      BY <1>1, <1>4, <2>2, <3>1, <3>3, <3>4, <3>5, <3>6 DEF CachedTo, Held, GroupsHeld
  <2> QED
    BY <2>1, <2>2
<1>10. ASSUME NEW L \in Layers, L < lay
       PROVE  CachedTo(L, PS)'
  <2>1. L # lay /\ CachedTo(L, PS)
    BY <1>1, <1>3, <1>10, Constants DEF CacheOK
  <2> QED
    BY <1>1, <1>7, <2>1, LayersSame
<1>11. CacheOK' /\ WritesFit'
  <2>1. \A L \in Layers : L < lay' => L < lay \/ L = lay
    BY <1>1, <1>3, Constants
  <2>2. \A L \in Layers : Prefilled(L)'
    BY <1>1, LayersSame DEF CacheOK
  <2> QED
    BY <1>1, <1>4, <1>9, <1>10, <2>1, <2>2 DEF CacheOK, WritesFit
<1>12. ControlOK'
  BY <1>1, TextSame DEF ControlOK
<1>13. TypeOK'
  <2>1. kvw' \in [Layers -> [Positions -> Rows]] /\ dT' \in [Layers -> 0..Tmax]
    BY <1>2, <1>3, <1>6
  <2>2. DOMAIN kvc' = Layers /\ \A L \in Layers : DOMAIN kvc'[L] = CompRows(L)
    <3>1. DOMAIN kvc' = Layers
      BY <1>2, <1>3
    <3>2. DOMAIN kvc'[lay] = CompRows(lay)
      BY <1>2, <1>3, <1>5, <1>8
    <3>3. \A L \in Layers : L # lay => DOMAIN kvc'[L] = CompRows(L)
      BY <1>3, <1>7
    <3> QED
      BY <3>1, <3>2, <3>3
  <2> QED
    BY <1>1, <1>3, <2>1, <2>2 DEF TypeOK
<1> QED
  BY <1>1, <1>11, <1>12, <1>13, TextSame DEF GraphInv

LEMMA CaptureStep ==
    ASSUME GraphInv, Capture
    PROVE  GraphInv'
<1>1. /\ TypeOK /\ ControlOK /\ CacheOK /\ Greedy!IsGreedy(prompt, ggen)
      /\ phase = "capture" /\ phase' = "replay" /\ cur' = prompt[PS]
      /\ UNCHANGED <<busy, lay, prompt, ggen, warmed, x, win, xin, comp, T, kvw, kvc, dT, dpos, dcurid, dg>>
  BY DEF GraphInv, Capture, hostCaches, device, cells
<1>2. ~busy /\ ggen = << >> /\ Len(ggen) = 0
  BY <1>1 DEF ControlOK
<1>3. cur' = cur
  <2>1. PS + Len(ggen) = PS /\ PS \in 0..PS
    BY <1>2, Constants
  <2> QED
    BY <1>1, <2>1, TextIs
<1>4. TypeOK'
  BY <1>1, <1>3 DEF TypeOK
<1>5. ControlOK' /\ WritesFit'
  BY <1>1, <1>2, <1>3, TextSame DEF ControlOK, WritesFit
<1>6. CacheOK'
  <2>1. \A L \in Layers : CachedTo(L, PS + Len(ggen) + (IF busy /\ L < lay THEN 1 ELSE 0))
    BY <1>1 DEF CacheOK
  <2>2. \A L \in Layers : CachedTo(L, PS + Len(ggen) + (IF busy /\ L < lay THEN 1 ELSE 0))'
    BY <1>1, <2>1, LayersSame DEF CachedTo, Held, GroupsHeld, Text, TextAt
  <2> QED
    BY <1>1, <2>2 DEF CacheOK
<1> QED
  BY <1>1, <1>4, <1>5, <1>6, TextSame DEF GraphInv

-----------------------------------------------------------------------------
(* One step through the layers. *)

\* A step begins on the caches of the text, with room for the groups it may commit.
LEMMA StartStepStep ==
    ASSUME GraphInv, StartStep
    PROVE  GraphInv'
<1>1. /\ TypeOK /\ ControlOK /\ CacheOK /\ Greedy!IsGreedy(prompt, ggen)
      /\ phase = "warm" \/ (phase = "replay" /\ Len(ggen) < NDEC)
      /\ ~busy /\ busy' = TRUE /\ lay' = 0 /\ dcurid' = cur
      /\ UNCHANGED <<phase, prompt, cur, ggen, warmed, win, xin, comp, T, kvw, kvc, dT, dg>>
  BY DEF GraphInv, StartStep, host, hostCaches, device
<1>2. /\ dpos' = PS + Len(ggen)
      /\ x' = [i \in {0} |-> [r \in 0..dpos' |-> IF r = dpos' THEN cur ELSE TextAt(r)]]
  BY DEF StartStep, StepPosition
<1>3. /\ Len(ggen) \in Nat /\ PS + Len(ggen) \in Positions /\ PS \in Nat
      /\ PS + Len(ggen) \in 0..(PS + Len(ggen)) /\ PS + Len(ggen) < SeqMax
      /\ PS + Len(ggen) \in 0..SeqMax
      /\ cur = Text[PS + Len(ggen)] /\ cur \in Token
  <2>1. cur = Text[PS + Len(ggen)] /\ cur \in Token
    BY <1>1 DEF ControlOK, TypeOK
  <2>2. Len(ggen) \in Nat /\ PS + Len(ggen) \in Positions /\ PS + Len(ggen) + 1 < SeqMax
    BY <1>1, TextIs
  <2>3. PS \in Nat /\ SeqMax \in Nat
    BY Constants
  <2>4. /\ PS + Len(ggen) \in 0..(PS + Len(ggen)) /\ PS + Len(ggen) < SeqMax
        /\ PS + Len(ggen) \in 0..SeqMax
    BY <2>2, <2>3
  <2> QED
    BY <2>1, <2>2, <2>3, <2>4
<1>4. x' = [i \in {0} |-> Prefix(Text, dpos')] /\ x'[0] \in Rows
  <2>1. [r \in 0..dpos' |-> IF r = dpos' THEN cur ELSE TextAt(r)] = Prefix(Text, dpos')
    BY <1>2, <1>3 DEF Text, Prefix
  <2> QED
    BY <1>1, <1>2, <1>3, <2>1, TextIs
<1>5. TypeOK'
  <2>1. 0 \in 0..NLayers /\ \A i \in DOMAIN x' : x'[i] \in Rows
    BY <1>4, Constants
  <2> QED
    BY <1>1, <1>2, <1>3, <2>1 DEF TypeOK
<1>6. ControlOK'
  <2>1. Text' = Text
    BY <1>1, TextSame
  <2> QED
    BY <1>1, <1>2, <1>4, <2>1, TextSame DEF ControlOK
<1>7. CacheOK'
  <2>1. \A L \in Layers : CachedTo(L, PS + Len(ggen))
    BY <1>1, <1>3 DEF CacheOK
  <2>2. \A L \in Layers : CachedTo(L, PS + Len(ggen))'
    BY <1>1, <2>1, LayersSame DEF CachedTo, Held, GroupsHeld, Text, TextAt
  <2>3. ASSUME NEW L \in Layers, NEW m, m = PS + Len(ggen) + (IF busy' /\ L < lay' THEN 1 ELSE 0)
        PROVE  CachedTo(L, m)'
    <3>1. m = PS + Len(ggen)
      BY <1>1, <1>3, <2>3, Constants
    <3> QED
      BY <1>1, <2>2, <3>1 DEF CachedTo, Held
  <2>4. \A L \in Layers : CachedTo(L, PS + Len(ggen) + (IF busy /\ L < lay THEN 1 ELSE 0))'
    BY <1>1, <2>3 DEF CachedTo, Held
  <2> QED
    BY <1>1, <2>4 DEF CacheOK
<1>8. WritesFit'
  <2>1. \A L \in Layers : Ratio[L] # 0 => dT'[L] < Tmax
    <3> SUFFICES ASSUME NEW L \in Layers, Ratio[L] # 0
                 PROVE  dT[L] < Tmax
      BY <1>1
    <3>1. CachedTo(L, PS + Len(ggen))
      BY <1>1, <1>3 DEF CacheOK
    <3> QED
      BY <1>3, <3>1, RowsFit DEF CachedTo
  <2> QED
    BY <1>2, <1>3, <2>1 DEF WritesFit
<1> QED
  BY <1>1, <1>5, <1>6, <1>7, <1>8, TextSame DEF GraphInv

\* What the device emit pools for a complete group that is not the first of an overlap layer
\* is the group.
LEMMA DeviceRowDue ==
    ASSUME NEW R \in Nat \ {0}, NEW p \in Nat, (p + 1) % R = 0, R = OverlapRatio => p >= R,
           NEW src, NEW h, \A q \in 0..p : src[q] = Prefix(h, q)
    PROVE  DeviceGroupRow(src, R, p) = DueRow(h, R, p \div R)
<1> DEFINE g == p \div R
           ntok == IF R = OverlapRatio THEN 2 * R ELSE R
<1>1. g \in Nat /\ p = g * R + R - 1
  BY DivMod, GroupEnd
<1>2. R = OverlapRatio => g >= 1
  <2>1. 1 * R = R /\ 1 * R <= p /\ R = 1 * R + 0 /\ 0 \in 0..(R - 1) => R \div R = 1
    BY DivUnique
  <2> SUFFICES ASSUME R = OverlapRatio
               PROVE  g >= 1
    OBVIOUS
  <2>2. R \div R = 1 /\ p >= R
    BY <2>1
  <2> QED
    BY <2>2, DivMono
<1> HIDE DEF g
<1>3. (p - ntok + 1)..p = GroupToks(R, g)
  <2>1. CASE R = OverlapRatio
    <3>1. (g - 1) * R = g * R - R
      BY <1>1
    <3>2. p - ntok + 1 = (g - 1) * R
      BY <1>1, <2>1, <3>1
    <3> QED
      BY <1>1, <1>2, <2>1, <3>2 DEF GroupToks
  <2>2. CASE R # OverlapRatio
    <3>1. p - ntok + 1 = g * R
      BY <1>1, <2>2
    <3> QED
      BY <1>1, <2>2, <3>1 DEF GroupToks
  <2> QED
    BY <2>1, <2>2
<1>4. \A q \in GroupToks(R, g) : q \in 0..p /\ ~(q < 0)
  <2>1. /\ p + 1 \in Nat /\ g < (p + 1) \div R
    BY <1>1, GroupBelow
  <2>2. \A q \in GroupToks(R, g) : q \in 0..(p + 1 - 1)
    BY <1>1, <2>1, GroupToksBelow
  <2> QED
    BY <2>2
<1>5. DeviceGroupRow(src, R, p) = [q \in GroupToks(R, g) |-> src[IF q < 0 THEN 0 ELSE q]]
  BY <1>3 DEF DeviceGroupRow
<1>6. [q \in GroupToks(R, g) |-> src[IF q < 0 THEN 0 ELSE q]] = [q \in GroupToks(R, g) |-> Prefix(h, q)]
  BY <1>4
<1> QED
  BY <1>5, <1>6 DEF DueRow, g

\* A row written behind the rows of the text extends them.
LEMMA RowHeld ==
    ASSUME NEW p \in Positions, NEW rows \in [Positions -> Rows], NEW h,
           \A q \in 0..(p - 1) : rows[q] = Prefix(h, q), NEW r \in Rows, r = Prefix(h, p)
    PROVE  LET rows2 == [rows EXCEPT ![p] = r]
           IN  rows2 \in [Positions -> Rows] /\ \A q \in 0..p : rows2[q] = Prefix(h, q)
<1>1. p \in Nat /\ \A q \in 0..p : q \in Positions /\ (q = p \/ q \in 0..(p - 1))
  BY Constants
<1> QED
  BY <1>1

\* What a layer has written when its query reads.
LEMMA LayerWritten ==
    ASSUME GraphInv, StepLayer, LongPrompt, NEW p, p = PS + Len(ggen)
    PROVE  /\ lay \in Layers /\ lay + 1 \in 0..NLayers /\ p \in Nat /\ p \in Positions /\ dpos = p
           /\ Ratio[lay] \in Nat /\ x = [i \in {0} |-> Prefix(Text, p)]
           /\ x[0] \in Rows /\ x[0] # Junk
           /\ win' \in [Layers -> [Positions -> Rows]] /\ xin' \in [Layers -> [Positions -> Rows]]
           /\ kvw' \in [Layers -> [Positions -> Rows]] /\ dT' \in [Layers -> 0..Tmax]
           /\ DOMAIN kvc' = Layers /\ \A L \in Layers : DOMAIN kvc'[L] = CompRows(L)
           /\ dg' \in Nat
           /\ \A L \in Layers : L # lay =>
                /\ win'[L] = win[L] /\ xin'[L] = xin[L] /\ kvw'[L] = kvw[L]
                /\ kvc'[L] = kvc[L] /\ dT'[L] = dT[L]
           /\ Ratio[lay] = 0 => \A q \in 0..p : win'[lay][q] = Prefix(Text, q)
           /\ Ratio[lay] # 0 =>
                /\ \A q \in 0..p : xin'[lay][q] = Prefix(Text, q) /\ kvw'[lay][q] = Prefix(Text, q)
                /\ dT'[lay] = (p + 1) \div Ratio[lay] /\ dT'[lay] \in Nat
                /\ \A t \in 0..(dT'[lay] - 1) : kvc'[lay][t] = DueRow(Text, Ratio[lay], t)
<1> DEFINE R == Ratio[lay]
           C(rows) == [t \in CompRows(lay) |->
                        IF (dpos + 1) % R = 0 /\ t = dT[lay]
                        THEN DeviceGroupRow(xin'[lay], R, dpos) ELSE rows[t]]
<1>1. /\ TypeOK /\ ControlOK /\ CacheOK /\ WritesFit
      /\ phase \in {"warm", "replay"} /\ busy /\ lay < NLayers
  BY DEF GraphInv, StepLayer
<1>2. \/ /\ R = 0
         /\ win' = [win EXCEPT ![lay] = [@ EXCEPT ![dpos] = x[0]]]
         /\ UNCHANGED <<xin, kvw, kvc, dT, dg>>
      \/ /\ R # 0
         /\ xin' = [xin EXCEPT ![lay] = [@ EXCEPT ![dpos] = x[0]]]
         /\ kvw' = [kvw EXCEPT ![lay] = [@ EXCEPT ![dpos] = x[0]]]
         /\ kvc' = [kvc EXCEPT ![lay] = C(@)]
         /\ dT' = [dT EXCEPT ![lay] = IF (dpos + 1) % R = 0 THEN @ + 1 ELSE @]
         /\ dg' = dpos \div R
         /\ UNCHANGED win
  BY DEF StepLayer, Commits, device
<1>3. /\ lay \in Layers /\ lay + 1 \in 0..NLayers /\ p \in Nat /\ p \in Positions /\ dpos = p
      /\ R \in Nat /\ p < SeqMax /\ p + 1 < SeqMax /\ PS <= p /\ PS \in Nat
  <2>1. /\ lay \in 0..NLayers /\ lay < NLayers /\ dpos = PS + Len(ggen)
        /\ phase # "prefill" /\ dpos \in Positions
    BY <1>1 DEF TypeOK, ControlOK
  <2>2. Len(ggen) \in Nat /\ PS + Len(ggen) + 1 < SeqMax /\ PS \in Nat /\ SeqMax \in Nat
    BY <1>1, Constants, TextIs
  <2>3. lay \in Layers /\ lay + 1 \in 0..NLayers
    BY <2>1, Constants
  <2> QED
    BY <2>1, <2>2, <2>3, Constants
<1>4. /\ x = [i \in {0} |-> Prefix(Text, p)] /\ x[0] = Prefix(Text, p)
      /\ x[0] \in Rows /\ x[0] # Junk
  <2>1. x = [i \in {0} |-> Prefix(Text, p)]
    BY <1>1, <1>3 DEF ControlOK
  <2>2. p \in 0..(PS + Len(ggen))
    BY <1>3
  <2> QED
    BY <1>1, <2>1, <2>2, TextIs
<1>5. /\ win \in [Layers -> [Positions -> Rows]] /\ xin \in [Layers -> [Positions -> Rows]]
      /\ kvw \in [Layers -> [Positions -> Rows]] /\ dT \in [Layers -> 0..Tmax]
      /\ DOMAIN kvc = Layers /\ \A L \in Layers : DOMAIN kvc[L] = CompRows(L)
      /\ dg \in Nat
  BY <1>1 DEF TypeOK
<1>6. CachedTo(lay, p)
  <2>1. CachedTo(lay, PS + Len(ggen) + (IF busy /\ lay < lay THEN 1 ELSE 0))
    BY <1>1, <1>3 DEF CacheOK
  <2>2. PS + Len(ggen) + (IF busy /\ lay < lay THEN 1 ELSE 0) = p
    BY <1>3, Constants
  <2> QED
    BY <2>1, <2>2
<1>7. \A rows : DOMAIN C(rows) = CompRows(lay)
  OBVIOUS
<1>8. \A rows : \A t \in CompRows(lay) :
        C(rows)[t] = IF (p + 1) % R = 0 /\ t = dT[lay] THEN DeviceGroupRow(xin'[lay], R, p) ELSE rows[t]
  BY <1>3
<1> HIDE DEF C, R
<1>9. ASSUME R = 0
      PROVE  /\ win' \in [Layers -> [Positions -> Rows]]
             /\ \A L \in Layers : L # lay => win'[L] = win[L]
             /\ \A q \in 0..p : win'[lay][q] = Prefix(Text, q)
  <2>1. \A q \in 0..(p - 1) : win[lay][q] = Prefix(Text, q)
    BY <1>6, <1>9 DEF CachedTo, Held, R
  <2>2. PICK rows : rows = [win[lay] EXCEPT ![p] = x[0]]
    OBVIOUS
  <2>3. rows \in [Positions -> Rows] /\ \A q \in 0..p : rows[q] = Prefix(Text, q)
    BY <1>3, <1>4, <1>5, <2>1, <2>2, RowHeld
  <2>4. win' = [win EXCEPT ![lay] = rows]
    BY <1>2, <1>3, <1>9, <2>2
  <2> QED
    BY <1>3, <1>5, <2>3, <2>4
<1>10. ASSUME R # 0
       PROVE  /\ xin' \in [Layers -> [Positions -> Rows]] /\ kvw' \in [Layers -> [Positions -> Rows]]
              /\ \A L \in Layers : L # lay => xin'[L] = xin[L] /\ kvw'[L] = kvw[L]
              /\ \A q \in 0..p : xin'[lay][q] = Prefix(Text, q) /\ kvw'[lay][q] = Prefix(Text, q)
  <2>1. \A q \in 0..(p - 1) : xin[lay][q] = Prefix(Text, q) /\ kvw[lay][q] = Prefix(Text, q)
    BY <1>6, <1>10 DEF CachedTo, Held, R
  <2>2. PICK rows : rows = [xin[lay] EXCEPT ![p] = x[0]]
    OBVIOUS
  <2>3. PICK rows2 : rows2 = [kvw[lay] EXCEPT ![p] = x[0]]
    OBVIOUS
  <2>4. rows \in [Positions -> Rows] /\ \A q \in 0..p : rows[q] = Prefix(Text, q)
    BY <1>3, <1>4, <1>5, <2>1, <2>2, RowHeld
  <2>5. rows2 \in [Positions -> Rows] /\ \A q \in 0..p : rows2[q] = Prefix(Text, q)
    BY <1>3, <1>4, <1>5, <2>1, <2>3, RowHeld
  <2>6. xin' = [xin EXCEPT ![lay] = rows] /\ kvw' = [kvw EXCEPT ![lay] = rows2]
    BY <1>2, <1>3, <1>10, <2>2, <2>3
  <2> QED
    BY <1>3, <1>5, <2>4, <2>5, <2>6
<1>11. ASSUME R # 0
       PROVE  /\ dT' \in [Layers -> 0..Tmax] /\ DOMAIN kvc' = Layers
              /\ DOMAIN kvc'[lay] = CompRows(lay)
              /\ \A L \in Layers : L # lay => kvc'[L] = kvc[L] /\ dT'[L] = dT[L]
              /\ dT'[lay] = (p + 1) \div R /\ dT'[lay] \in Nat /\ dg' \in Nat
              /\ \A t \in 0..(dT'[lay] - 1) : kvc'[lay][t] = DueRow(Text, R, t)
  <2>1. R \in Nat \ {0}
    BY <1>3, <1>11
  <2>2. /\ p \div R \in Nat /\ p \div R < Tmax /\ Tmax \in Nat /\ CompRows(lay) = 0..(Tmax - 1)
        /\ (p + 1) \div R \in Nat /\ (p + 1) \div R < Tmax
    <3>1. p \in 0..SeqMax /\ p + 1 \in 0..SeqMax
      BY <1>3, Constants
    <3> QED
      BY <1>3, <1>11, <3>1, RowsFit DEF R
  <2>3. dT[lay] = p \div R /\ \A t \in 0..(p \div R - 1) : kvc[lay][t] = DueRow(Text, R, t)
    BY <1>6, <1>11 DEF CachedTo, GroupsHeld, R
  <2>4. dT'[lay] = (p + 1) \div R
    <3>1. dT'[lay] = IF (p + 1) % R = 0 THEN dT[lay] + 1 ELSE dT[lay]
      BY <1>2, <1>3, <1>5, <1>11
    <3>2. (p + 1) % R = 0 => (p + 1) \div R = p \div R + 1
      BY <1>3, <2>1, CompletingDiv
    <3>3. (p + 1) % R # 0 => (p + 1) \div R = p \div R
      BY <1>3, <2>1, NotCompletingDiv
    <3> QED
      BY <2>3, <3>1, <3>2, <3>3
  <2>5. dT' \in [Layers -> 0..Tmax] /\ \A L \in Layers : L # lay => dT'[L] = dT[L]
    <3>1. PICK d : d = (IF (p + 1) % R = 0 THEN dT[lay] + 1 ELSE dT[lay])
      OBVIOUS
    <3>2. dT' = [dT EXCEPT ![lay] = d]
      BY <1>2, <1>3, <1>11, <3>1
    <3>3. d = (p + 1) \div R
      BY <1>3, <1>5, <2>4, <3>2
    <3>4. d \in 0..Tmax
      BY <2>2, <3>3
    <3> QED
      BY <1>5, <3>2, <3>4
  <2>6. kvc' = [kvc EXCEPT ![lay] = C(kvc[lay])]
    BY <1>2, <1>11
  <2>7. /\ DOMAIN kvc' = Layers /\ kvc'[lay] = C(kvc[lay])
        /\ \A L \in Layers : L # lay => kvc'[L] = kvc[L]
    BY <1>3, <1>5, <2>6
  <2>8. DOMAIN kvc'[lay] = CompRows(lay)
    BY <1>7, <2>7
  <2>9. dg' \in Nat
    BY <1>2, <1>3, <1>11, <2>2
  <2>10. ASSUME NEW t \in 0..((p + 1) \div R - 1)
         PROVE  kvc'[lay][t] = DueRow(Text, R, t)
    <3>1. t \in CompRows(lay) /\ t \in Nat
      BY <2>2
    <3>2. kvc'[lay][t] = IF (p + 1) % R = 0 /\ t = dT[lay]
                         THEN DeviceGroupRow(xin'[lay], R, p) ELSE kvc[lay][t]
      BY <1>8, <2>7, <3>1
    <3>3. CASE (p + 1) % R = 0 /\ t = dT[lay]
      <4>1. R = OverlapRatio => p >= R
        <5>1. Ratio[lay] = OverlapRatio => PS >= OverlapRatio
          BY <1>3 DEF LongPrompt
        <5> QED
          BY <1>3, <5>1, Constants DEF R
      <4>2. DeviceGroupRow(xin'[lay], R, p) = DueRow(Text, R, p \div R)
        BY <1>3, <1>10, <1>11, <2>1, <3>3, <4>1, DeviceRowDue
      <4> QED
        BY <2>3, <3>2, <3>3, <4>2
    <3>4. CASE ~((p + 1) % R = 0 /\ t = dT[lay])
      <4>1. (p + 1) % R = 0 => (p + 1) \div R = p \div R + 1
        BY <1>3, <2>1, CompletingDiv
      <4>2. (p + 1) % R # 0 => (p + 1) \div R = p \div R
        BY <1>3, <2>1, NotCompletingDiv
      <4>3. t \in 0..(p \div R - 1)
        <5>1. CASE (p + 1) % R = 0
          BY <2>2, <2>3, <2>10, <3>4, <4>1, <5>1
        <5>2. CASE (p + 1) % R # 0
          BY <2>10, <4>2, <5>2
        <5> QED
          BY <5>1, <5>2
      <4>4. kvc'[lay][t] = kvc[lay][t]
        BY <3>2, <3>4
      <4> QED
        BY <2>3, <4>3, <4>4
    <3> QED
      BY <3>3, <3>4
  <2> QED
    BY <2>2, <2>4, <2>5, <2>7, <2>8, <2>9, <2>10
<1>12. CASE R = 0
  <2>1. UNCHANGED <<xin, kvw, kvc, dT, dg>>
    BY <1>2, <1>12
  <2> QED
    BY <1>3, <1>4, <1>5, <1>9, <1>12, <2>1 DEF R
<1>13. CASE R # 0
  <2>1. UNCHANGED win
    BY <1>2, <1>13
  <2>2. \A L \in Layers : DOMAIN kvc'[L] = CompRows(L)
    BY <1>5, <1>11, <1>13
  <2> QED
    BY <1>3, <1>4, <1>5, <1>10, <1>11, <1>13, <2>1, <2>2 DEF R
<1> QED
  BY <1>12, <1>13

\* The step's query reads the rows and groups of its history, so it passes its hidden
\* state on.
LEMMA QueryAgrees ==
    ASSUME GraphInv, StepLayer, LongPrompt
    PROVE  x' = x
<1>1. PICK p : p = PS + Len(ggen)
  OBVIOUS
<1>2. /\ lay \in Layers /\ p \in Nat /\ p \in Positions /\ dpos = p
      /\ Ratio[lay] \in Nat /\ x = [i \in {0} |-> Prefix(Text, p)] /\ x[0] # Junk
      /\ Ratio[lay] = 0 => \A q \in 0..p : win'[lay][q] = Prefix(Text, q)
      /\ Ratio[lay] # 0 =>
           /\ \A q \in 0..p : xin'[lay][q] = Prefix(Text, q) /\ kvw'[lay][q] = Prefix(Text, q)
           /\ dT'[lay] = (p + 1) \div Ratio[lay] /\ dT'[lay] \in Nat
           /\ \A t \in 0..(dT'[lay] - 1) : kvc'[lay][t] = DueRow(Text, Ratio[lay], t)
  BY <1>1, LayerWritten
<1>3. x[0] = Prefix(Text, p)
  BY <1>2
<1>4. PICK w : w = (IF Ratio[lay] = 0 THEN win'[lay] ELSE kvw'[lay])
  OBVIOUS
<1>5. PICK ts : ts = (IF Ratio[lay] = 0 THEN {} ELSE 0..(dT'[lay] - 1))
  OBVIOUS
<1>6. ts = DueRows(Ratio[lay], p)
  BY <1>2, <1>5 DEF DueRows
<1>7. \A q \in WinReads(p) : w[q] = Prefix(x[0], q)
  <2> TAKE q \in WinReads(p)
  <2>1. q \in 0..p
    BY <1>2, WindowAssumption DEF WinReads
  <2>2. Prefix(x[0], q) = Prefix(Text, q)
    BY <1>2, <1>3, <2>1, PrefixPrefix
  <2> QED
    BY <1>2, <1>4, <2>1, <2>2
<1>8. \A t \in ts : kvc'[lay][t] = DueRow(x[0], Ratio[lay], t)
  <2> SUFFICES ASSUME NEW t \in ts
               PROVE  kvc'[lay][t] = DueRow(x[0], Ratio[lay], t)
    OBVIOUS
  <2>1. Ratio[lay] # 0 /\ t \in 0..(dT'[lay] - 1) /\ dT'[lay] = (p + 1) \div Ratio[lay]
        /\ dT'[lay] \in Nat /\ Ratio[lay] \in Nat \ {0} /\ p + 1 \in Nat
    BY <1>2, <1>5
  <2>2. t \in Nat /\ t < (p + 1) \div Ratio[lay]
    BY <2>1
  <2>3. kvc'[lay][t] = DueRow(Text, Ratio[lay], t)
    BY <1>2, <2>1
  <2>4. \A q \in 0..p : Prefix(x[0], q) = Prefix(Text, q)
    BY <1>2, <1>3, PrefixPrefix
  <2>5. DueRow(x[0], Ratio[lay], t) = DueRow(Text, Ratio[lay], t)
    <3>1. PICK R : R = Ratio[lay] /\ R \in Nat \ {0} /\ t < (p + 1) \div R
      BY <2>1, <2>2
    <3>2. PICK g, h, m : g = x[0] /\ h = Text /\ m = p + 1
      OBVIOUS
    <3>3. m \in Nat /\ t \in Nat /\ t < m \div R
      BY <2>1, <2>2, <3>1, <3>2
    <3>4. \A q \in 0..p : Prefix(g, q) = Prefix(h, q)
      BY <2>4, <3>2
    <3>5. m - 1 = p
      BY <1>2, <3>2
    <3>6. \A q \in 0..(m - 1) : Prefix(g, q) = Prefix(h, q)
      BY <3>4, <3>5
    <3>7. DueRow(g, R, t) = DueRow(h, R, t)
      BY <3>1, <3>3, <3>6, DueAgree
    <3> QED
      BY <3>1, <3>2, <3>7
  <2> QED
    BY <2>3, <2>5
<1>9. ReadsAgree(x[0], p, w, kvc'[lay], ts, Ratio[lay])
  BY <1>6, <1>7, <1>8 DEF ReadsAgree
<1>10. DeviceReads(x[0])
  BY <1>2, <1>4, <1>5, <1>9 DEF DeviceReads
<1>11. x' = [i \in {0} |-> IF x[0] # Junk /\ DeviceReads(x[0]) THEN x[0] ELSE Junk]
  BY DEF StepLayer
<1> QED
  BY <1>2, <1>10, <1>11

LEMMA StepLayerStep ==
    ASSUME GraphInv, StepLayer, LongPrompt
    PROVE  GraphInv'
<1>1. PICK p : p = PS + Len(ggen)
  OBVIOUS
<1>2. /\ lay \in Layers /\ lay + 1 \in 0..NLayers /\ p \in Nat /\ dpos = p
      /\ win' \in [Layers -> [Positions -> Rows]] /\ xin' \in [Layers -> [Positions -> Rows]]
      /\ kvw' \in [Layers -> [Positions -> Rows]] /\ dT' \in [Layers -> 0..Tmax]
      /\ DOMAIN kvc' = Layers /\ \A L \in Layers : DOMAIN kvc'[L] = CompRows(L)
      /\ dg' \in Nat
      /\ \A L \in Layers : L # lay =>
           /\ win'[L] = win[L] /\ xin'[L] = xin[L] /\ kvw'[L] = kvw[L]
           /\ kvc'[L] = kvc[L] /\ dT'[L] = dT[L]
      /\ Ratio[lay] = 0 => \A q \in 0..p : win'[lay][q] = Prefix(Text, q)
      /\ Ratio[lay] # 0 =>
           /\ \A q \in 0..p : xin'[lay][q] = Prefix(Text, q) /\ kvw'[lay][q] = Prefix(Text, q)
           /\ dT'[lay] = (p + 1) \div Ratio[lay]
           /\ \A t \in 0..(dT'[lay] - 1) : kvc'[lay][t] = DueRow(Text, Ratio[lay], t)
  BY <1>1, LayerWritten
<1>3. /\ TypeOK /\ ControlOK /\ CacheOK /\ WritesFit /\ Greedy!IsGreedy(prompt, ggen)
      /\ phase \in {"warm", "replay"} /\ busy /\ lay < NLayers /\ lay' = lay + 1 /\ x' = x
      /\ UNCHANGED <<phase, busy, prompt, cur, ggen, warmed, comp, T, dpos, dcurid>>
  BY QueryAgrees DEF GraphInv, StepLayer, host
<1>4. lay' \in 0..NLayers
  BY <1>2, <1>3
<1>5. TypeOK'
  BY <1>2, <1>3, <1>4 DEF TypeOK
<1>6. ControlOK'
  BY <1>3, TextSame DEF ControlOK
<1>7. ASSUME NEW L \in Layers, L # lay, NEW m, CachedTo(L, m)
      PROVE  CachedTo(L, m)'
  BY <1>2, <1>3, <1>7, LayersSame
<1>8. ASSUME NEW L \in Layers, L = lay
      PROVE  CachedTo(L, p + 1)'
  <2>1. PICK m : Text' = Text /\ m = p + 1 /\ m - 1 = p
    BY <1>2, <1>3, TextSame
  <2>2. /\ Ratio[L] = 0 => \A q \in 0..p : win'[L][q] = Prefix(Text, q)
        /\ Ratio[L] # 0 =>
             /\ \A q \in 0..p : xin'[L][q] = Prefix(Text, q) /\ kvw'[L][q] = Prefix(Text, q)
             /\ dT'[L] = m \div Ratio[L]
             /\ \A t \in 0..(dT'[L] - 1) : kvc'[L][t] = DueRow(Text, Ratio[L], t)
    BY <1>2, <1>8, <2>1
  <2>3. CachedTo(L, m)'
    BY <2>1, <2>2 DEF CachedTo, Held, GroupsHeld
  <2> QED
    BY <2>1, <2>3
<1>9. CacheOK'
  <2>1. ASSUME NEW L \in Layers, NEW m, m = p + (IF L < lay' THEN 1 ELSE 0)
        PROVE  CachedTo(L, m)'
    <3>1. CASE L = lay
      <4>1. m = p + 1
        BY <1>2, <1>3, <2>1, <3>1, Constants
      <4> QED
        BY <1>8, <3>1, <4>1
    <3>2. CASE L # lay
      <4>1. m = p + (IF L < lay THEN 1 ELSE 0)
        BY <1>2, <1>3, <2>1, <3>2, Constants
      <4>2. CachedTo(L, p + (IF L < lay THEN 1 ELSE 0))
        BY <1>1, <1>3 DEF CacheOK
      <4> QED
        BY <1>7, <3>2, <4>1, <4>2
    <3> QED
      BY <3>1, <3>2
  <2>2. \A L \in Layers : CachedTo(L, PS + Len(ggen) + (IF busy /\ L < lay THEN 1 ELSE 0))'
    BY <1>1, <1>3, <2>1 DEF CachedTo, Held
  <2> QED
    BY <1>3, <2>2 DEF CacheOK
<1>10. WritesFit'
  <2>1. \A L \in Layers : L >= lay' => L # lay /\ L >= lay
    BY <1>2, <1>3, Constants
  <2> QED
    BY <1>2, <1>3, <2>1 DEF WritesFit, Commits
<1> QED
  BY <1>3, <1>5, <1>6, <1>9, <1>10, TextSame DEF GraphInv

-----------------------------------------------------------------------------
(* The ends of the steps. *)

\* The warm-up's rows are prefilled and copied again: nothing is claimed of them.
LEMMA EndWarmStep ==
    ASSUME GraphInv, EndWarm
    PROVE  GraphInv'
<1>1. /\ TypeOK /\ ControlOK /\ Greedy!IsGreedy(prompt, ggen)
      /\ phase = "warm" /\ phase' = "prefill" /\ warmed' = TRUE /\ busy' = FALSE /\ lay' = 0 /\ x' = << >>
      /\ UNCHANGED <<prompt, cur, ggen, win, xin, comp, T, kvw, kvc, dT, dpos, dcurid, dg>>
  BY DEF GraphInv, EndWarm, AfterWarm, hostCaches, device, cells
<1>2. TypeOK'
  <2>1. 0 \in 0..NLayers /\ \A i \in DOMAIN x' : x'[i] \in Rows
    BY <1>1, Constants
  <2> QED
    BY <1>1, <2>1 DEF TypeOK
<1>3. ControlOK'
  BY <1>1, TextSame DEF ControlOK
<1>4. CacheOK' /\ WritesFit'
  BY <1>1 DEF CacheOK, WritesFit
<1> QED
  BY <1>1, <1>2, <1>3, <1>4, TextSame DEF GraphInv

\* A replay appends the target's token after the text.
LEMMA ReplayAppends ==
    ASSUME GraphInv, EndReplay
    PROVE  /\ cur' \in Token /\ cur' = Target(Prefix(Text, PS + Len(ggen)))
           /\ ggen' = Append(ggen, cur') /\ ggen' \in Seq(Token)
           /\ Len(ggen) \in Nat /\ Len(ggen') = Len(ggen) + 1 /\ Len(ggen) < NDEC
           /\ \A k \in 1..Len(ggen) : ggen'[k] = ggen[k]
           /\ ggen'[Len(ggen) + 1] = cur'
<1>1. /\ TypeOK /\ ControlOK /\ phase = "replay" /\ busy /\ Len(ggen) < NDEC
      /\ ggen \in Seq(Token)
  BY DEF GraphInv, EndReplay, ControlOK, TypeOK
<1>2. PS + Len(ggen) \in Positions /\ Len(ggen) \in Nat /\ Prefix(Text, PS + Len(ggen)) \in Histories
  <2>1. Len(ggen) \in Nat /\ PS + Len(ggen) \in 0..(PS + Len(ggen))
    BY <1>1, TextIs, Constants
  <2> QED
    BY <1>1, <2>1, TextIs
<1>3. x[0] = Prefix(Text, PS + Len(ggen))
  BY <1>1 DEF ControlOK
<1>4. PICK am : /\ am \in IF x[0] \in Histories THEN {Target(x[0])} ELSE Token
                /\ ggen' = Append(ggen, am) /\ cur' = am
  BY DEF EndReplay
<1>5. am = Target(Prefix(Text, PS + Len(ggen))) /\ am \in Token
  BY <1>2, <1>3, <1>4, GraphAssumption
<1> QED
  BY <1>1, <1>2, <1>4, <1>5, AppendProperties

LEMMA EndReplayStep ==
    ASSUME GraphInv, EndReplay
    PROVE  GraphInv'
<1>1. /\ TypeOK /\ ControlOK /\ CacheOK /\ Greedy!IsGreedy(prompt, ggen)
      /\ phase = "replay" /\ busy /\ lay = NLayers
      /\ busy' = FALSE /\ lay' = 0 /\ x' = << >>
      /\ UNCHANGED <<phase, warmed, prompt, win, xin, comp, T, kvw, kvc, dT, dpos, dcurid, dg>>
  BY DEF GraphInv, EndReplay, hostCaches, device, cells
<1>2. PICK n : n = Len(ggen)
  OBVIOUS
<1>3. /\ cur' \in Token /\ cur' = Target(Prefix(Text, PS + n))
      /\ ggen' \in Seq(Token) /\ n \in Nat /\ Len(ggen') = n + 1 /\ n < NDEC
      /\ \A k \in 1..n : ggen'[k] = ggen[k]
      /\ ggen'[n + 1] = cur'
  BY <1>2, ReplayAppends
<1>4. PS \in Nat /\ NDEC \in Nat /\ Text = [q \in 0..(PS + n) |-> IF q <= PS THEN prompt[q] ELSE ggen[q - PS]]
  BY <1>2, Constants DEF Text, TextAt
<1>5. \A q \in 0..(PS + n) : Text'[q] = Text[q]
  <2>1. Text' = [q \in 0..(PS + (n + 1)) |-> IF q <= PS THEN prompt[q] ELSE ggen'[q - PS]]
    BY <1>1, <1>3 DEF Text, TextAt
  <2>2. \A q \in 0..(PS + n) : q \in 0..(PS + (n + 1)) /\ (~(q <= PS) => q - PS \in 1..n)
    BY <1>3, <1>4
  <2> QED
    BY <1>3, <1>4, <2>1, <2>2
<1>6. \A q \in 0..(PS + n) : Prefix(Text', q) = Prefix(Text, q)
  <2>1. \A q \in 0..(PS + n) : \A r \in 0..q : r \in 0..(PS + n)
    BY <1>3, <1>4
  <2> QED
    BY <1>5, <2>1 DEF Prefix
<1>7. TypeOK'
  <2>1. 0 \in 0..NLayers /\ \A i \in DOMAIN x' : x'[i] \in Rows
    BY <1>1, Constants
  <2> QED
    BY <1>1, <1>3, <2>1 DEF TypeOK
<1>8. ControlOK'
  <2>1. cur' = (Text[PS + Len(ggen)])'
    <3>1. PICK k, e : k = n + 1 /\ e = PS + k
      OBVIOUS
    <3>2. k \in Nat /\ e \in Nat /\ ~(e <= PS) /\ e - PS = k /\ e \in 0..e
      BY <1>3, <1>4, <3>1
    <3>3. Len(ggen') = k /\ ggen'[k] = cur'
      BY <1>3, <3>1
    <3>4. Text' = [q \in 0..(PS + k) |-> IF q <= PS THEN prompt'[q] ELSE ggen'[q - PS]]
      BY <3>3 DEF Text, TextAt
    <3>5. Text'[PS + k] = cur'
      <4>1. Text' = [q \in 0..e |-> IF q <= PS THEN prompt'[q] ELSE ggen'[q - PS]]
        BY <3>1, <3>4
      <4>2. Text'[e] = ggen'[e - PS]
        BY <3>2, <4>1
      <4> QED
        BY <3>1, <3>3, <3>2, <4>2
    <3> QED
      BY <3>3, <3>5
  <2>2. Len(ggen') <= NDEC
    BY <1>3, <1>4
  <2> QED
    BY <1>1, <2>1, <2>2 DEF ControlOK
<1>9. CacheOK' /\ WritesFit'
  <2>1. ASSUME NEW L \in Layers
        PROVE  CachedTo(L, PS + n + 1)
    <3>1. CachedTo(L, PS + Len(ggen) + (IF busy /\ L < lay THEN 1 ELSE 0))
      BY <1>1 DEF CacheOK
    <3>2. L < lay
      BY <1>1, Constants
    <3> QED
      BY <1>1, <1>2, <3>1, <3>2
  <2>2. PICK m : m = PS + n + 1
    OBVIOUS
  <2>3. m \in Nat /\ \A q \in 0..(m - 1) : q \in 0..(PS + n)
    BY <1>3, <1>4, <2>2
  <2>4. ASSUME NEW L \in Layers
        PROVE  CachedTo(L, m)'
    <3>1. CASE Ratio[L] = 0
      <4>1. \A q \in 0..(m - 1) : win[L][q] = Prefix(Text', q)
        BY <1>6, <2>1, <2>2, <2>3, <3>1 DEF CachedTo, Held
      <4> QED
        BY <1>1, <3>1, <4>1 DEF CachedTo, Held
    <3>2. CASE Ratio[L] # 0
      <4>1. /\ \A q \in 0..(m - 1) : xin[L][q] = Prefix(Text, q) /\ kvw[L][q] = Prefix(Text, q)
            /\ dT[L] = m \div Ratio[L] /\ \A t \in 0..(dT[L] - 1) : kvc[L][t] = DueRow(Text, Ratio[L], t)
        BY <2>1, <2>2, <3>2 DEF CachedTo, Held, GroupsHeld
      <4>2. \A q \in 0..(m - 1) : Prefix(Text', q) = Prefix(Text, q)
        BY <1>6, <2>3
      <4>3. ASSUME NEW t \in 0..(dT[L] - 1)
            PROVE  kvc[L][t] = DueRow(Text', Ratio[L], t)
        <5>1. PICK R : R = Ratio[L] /\ R \in Nat \ {0}
          BY <3>2, Constants
        <5>2. m \div R \in Nat
          BY <2>3, <5>1, DivMod
        <5>3. t \in Nat /\ t < m \div R
          BY <4>1, <5>1, <5>2
        <5>4. PICK g, h : g = Text' /\ h = Text /\ \A q \in 0..(m - 1) : Prefix(g, q) = Prefix(h, q)
          BY <4>2
        <5>5. DueRow(g, R, t) = DueRow(h, R, t)
          BY <2>3, <5>1, <5>3, <5>4, DueAgree
        <5> QED
          BY <4>1, <5>1, <5>4, <5>5
      <4> QED
        BY <1>1, <3>2, <4>1, <4>2, <4>3 DEF CachedTo, Held, GroupsHeld
    <3> QED
      BY <3>1, <3>2
  <2>5. \A L \in Layers : CachedTo(L, PS + Len(ggen) + (IF busy /\ L < lay THEN 1 ELSE 0))'
    <3>1. PS + (n + 1) + 0 = m
      BY <1>3, <1>4, <2>2
    <3> QED
      BY <1>1, <1>3, <2>4, <3>1 DEF CachedTo, Held
  <2> QED
    BY <1>1, <2>5 DEF CacheOK, WritesFit
<1>10. Greedy!IsGreedy(prompt, ggen')
  <2>1. ASSUME NEW k \in 1..(n + 1)
        PROVE  ggen'[k] = Target(Greedy!HistoryBefore(prompt, ggen', k))
    <3>1. CASE k \in 1..n
      <4>1. ggen[k] = Target(Greedy!HistoryBefore(prompt, ggen, k))
        BY <1>1, <1>2, <3>1 DEF Greedy!IsGreedy
      <4>2. \A q \in 0..(PS + k - 1) : ~(q <= PS) => q - PS \in 1..n
        BY <1>3, <1>4, <3>1
      <4>3. Greedy!HistoryBefore(prompt, ggen', k) = Greedy!HistoryBefore(prompt, ggen, k)
        BY <1>3, <4>2 DEF Greedy!HistoryBefore
      <4> QED
        BY <1>3, <3>1, <4>1, <4>3
    <3>2. CASE k = n + 1
      <4>1. PS + k - 1 = PS + n /\ \A q \in 0..(PS + n) : ~(q <= PS) => q - PS \in 1..n
        BY <1>3, <1>4, <3>2
      <4>2. Greedy!HistoryBefore(prompt, ggen', k) = Prefix(Text, PS + n)
        BY <1>3, <1>4, <4>1 DEF Greedy!HistoryBefore, Prefix
      <4> QED
        BY <1>3, <3>2, <4>2
    <3> QED
      BY <1>3, <3>1, <3>2
  <2> QED
    BY <1>3, <2>1 DEF Greedy!IsGreedy
<1>11. (Greedy!IsGreedy(prompt, ggen))'
  BY <1>1, <1>10 DEF Greedy!IsGreedy, Greedy!HistoryBefore
<1> QED
  BY <1>7, <1>8, <1>9, <1>11 DEF GraphInv

LEMMA DoneStep ==
    ASSUME GraphInv, Done
    PROVE  GraphInv'
<1>1. /\ TypeOK /\ ControlOK /\ Greedy!IsGreedy(prompt, ggen)
      /\ phase = "replay" /\ ~busy /\ phase' = "done"
      /\ UNCHANGED <<busy, lay, x, prompt, cur, ggen, warmed, win, xin, comp, T, kvw, kvc, dT, dpos, dcurid, dg>>
  BY DEF GraphInv, Done, host, hostCaches, device, cells
<1>2. TypeOK'
  BY <1>1 DEF TypeOK
<1>3. ControlOK' /\ CacheOK' /\ WritesFit'
  BY <1>1, TextSame DEF ControlOK, CacheOK, WritesFit
<1> QED
  BY <1>1, <1>2, <1>3, TextSame DEF GraphInv

LEMMA StutterStep ==
    ASSUME GraphInv, UNCHANGED vars
    PROVE  GraphInv'
<1>1. /\ TypeOK /\ ControlOK /\ CacheOK /\ WritesFit /\ Greedy!IsGreedy(prompt, ggen)
      /\ UNCHANGED <<phase, warmed, busy, lay, prompt, x, win, xin, comp, T, kvw, kvc, dT,
                     dpos, dcurid, dg, cur, ggen>>
  BY DEF GraphInv, vars
<1>2. TypeOK'
  BY <1>1 DEF TypeOK
<1>3. ControlOK' /\ WritesFit'
  BY <1>1, TextSame DEF ControlOK, WritesFit, Commits
<1>4. \A L : Prefilled(L)' <=> Prefilled(L)
  BY <1>1, LayersSame
<1>5. \A L, m : CachedTo(L, m) => CachedTo(L, m)'
  BY <1>1, LayersSame
<1>6. CacheOK'
  BY <1>1, <1>4, <1>5 DEF CacheOK
<1> QED
  BY <1>1, <1>2, <1>3, <1>6, TextSame DEF GraphInv

-----------------------------------------------------------------------------
(* GraphInv is an invariant, and what follows from it. *)

\* After a prompt of at least a group, every stage of the GRAPH block keeps the caches, the
\* counts and the tokens of one text (decode.cu:240-286).
THEOREM GraphInvHolds ==
    ASSUME LongPrompt
    PROVE  Spec => []GraphInv
<1>1. Init => GraphInv
  BY GraphInit
<1>2. GraphInv /\ [Next]_vars => GraphInv'
  <2> SUFFICES ASSUME GraphInv, [Next]_vars
               PROVE  GraphInv'
    OBVIOUS
  <2>1. CASE StartPrefill
    BY <2>1, StartPrefillStep
  <2>2. CASE PrefillLayer
    BY <2>2, PrefillLayerStep
  <2>3. CASE EndPrefill
    BY <2>3, EndPrefillStep
  <2>4. CASE CopyLayer
    BY <2>4, CopyLayerStep
  <2>5. CASE EndCopy
    BY <2>5, EndCopyStep
  <2>6. CASE Capture
    BY <2>6, CaptureStep
  <2>7. CASE StartStep
    BY <2>7, StartStepStep
  <2>8. CASE StepLayer
    BY <2>8, LongPrompt, StepLayerStep
  <2>9. CASE EndWarm
    BY <2>9, EndWarmStep
  <2>10. CASE EndReplay
    BY <2>10, EndReplayStep
  <2>11. CASE Done
    BY <2>11, DoneStep
  <2>12. CASE UNCHANGED vars
    BY <2>12, StutterStep
  <2> QED
    BY <2>1, <2>2, <2>3, <2>4, <2>5, <2>6, <2>7, <2>8, <2>9, <2>10, <2>11, <2>12 DEF Next
<1> QED
  BY <1>1, <1>2, PTL DEF Spec

\* After a prompt of at least a group, a replayed step gives every layer the hidden state the
\* eager step would give it (START_HERE.md:41, decode.cu:261-286).
THEOREM BitExactHolds ==
    ASSUME LongPrompt
    PROVE  Spec => []BitExact
<1>1. ASSUME GraphInv
      PROVE  BitExact
  <2>1. TypeOK /\ ControlOK
    BY <1>1 DEF GraphInv
  <2>2. phase = "replay" /\ busy =>
          dpos \in 0..(PS + Len(ggen)) /\ x = [i \in {0} |-> Prefix(Text, dpos)]
    BY <2>1, Constants, TextIs DEF ControlOK
  <2>3. ~busy => x = << >>
    BY <2>1 DEF ControlOK
  <2> QED
    BY <2>1, <2>2, <2>3, TextIs DEF BitExact
<1> QED
  BY <1>1, GraphInvHolds, LongPrompt, PTL

\* After a prompt of at least a group, the replays implement greedy decoding one token at a
\* time, every other step is a stutter (decode.cu:279-286).
THEOREM GraphRefinement ==
    ASSUME LongPrompt
    PROVE  Spec => RefinesGreedy
<1>1. Init => Greedy!GreedyInit
  BY DEF Init, Greedy!GreedyInit
<1>2. GraphInv /\ GraphInv' /\ [Next]_vars => [Greedy!GreedyNext]_(Greedy!greedyVars)
  <2> SUFFICES ASSUME GraphInv, GraphInv', [Next]_vars
               PROVE  [Greedy!GreedyNext]_(Greedy!greedyVars)
    OBVIOUS
  <2>1. CASE EndReplay
    <3>1. PICK ext : ext = <<cur'>>
      OBVIOUS
    <3>2. /\ cur' \in Token /\ ggen' = Append(ggen, cur') /\ Len(ggen) < NDEC /\ ggen \in Seq(Token)
      BY <2>1, ReplayAppends DEF GraphInv, TypeOK
    <3>3. ext \in [1..1 -> Token] /\ ggen' = ggen \o ext
      BY <3>1, <3>2
    <3>4. Greedy!IsGreedy(prompt, ggen') /\ UNCHANGED prompt
      BY <2>1 DEF GraphInv, EndReplay, Greedy!IsGreedy, Greedy!HistoryBefore
    <3>5. phase # "done" /\ phase' = phase
      BY <2>1 DEF EndReplay
    <3>6. Greedy!Emit
      BY <3>2, <3>3, <3>4, <3>5 DEF Greedy!Emit
    <3> QED
      BY <3>6 DEF Greedy!GreedyNext
  <2>2. CASE Done
    <3>1. /\ Len(ggen) >= NDEC /\ phase = "replay" /\ phase' = "done" /\ UNCHANGED <<prompt, ggen>>
      BY <2>2 DEF Done, host
    <3> QED
      BY <3>1 DEF Greedy!GreedyNext, Greedy!Stop
  <2>3. CASE StartPrefill \/ PrefillLayer \/ EndPrefill \/ CopyLayer \/ EndCopy \/ Capture
             \/ StartStep \/ StepLayer \/ EndWarm \/ UNCHANGED vars
    <3>1. UNCHANGED <<prompt, ggen>> /\ (phase' = "done") = (phase = "done")
      BY <2>3 DEF StartPrefill, PrefillLayer, EndPrefill, CopyLayer, EndCopy, Capture,
         StartStep, StepLayer, EndWarm, AfterWarm, host, vars
    <3> QED
      BY <3>1 DEF Greedy!greedyVars
  <2> QED
    BY <2>1, <2>2, <2>3 DEF Next
<1> QED
  BY <1>1, <1>2, GraphInvHolds, LongPrompt, PTL DEF Spec, RefinesGreedy, Greedy!GreedySpec

=============================================================================
