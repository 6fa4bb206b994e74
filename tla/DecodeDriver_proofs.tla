------------------------ MODULE DecodeDriver_proofs ------------------------
(***************************************************************************)
(* IInv of DecodeDriver is inductive, for every prompt, model, number of   *)
(* layers, ratios, block and window; the safety properties follow.         *)
(***************************************************************************)
EXTENDS DecodeDriver, FunctionTheorems, FiniteSetTheorems, SequenceTheorems, TLAPS

-----------------------------------------------------------------------------
(* Groups of a ratio: division by a positive integer. *)

\* Division with remainder by a positive integer.
LEMMA DivMod ==
    ASSUME NEW a \in Nat, NEW R \in Nat \ {0}
    PROVE  /\ a \div R \in Nat
           /\ a % R \in 0..(R - 1)
           /\ a = (a \div R) * R + (a % R)
BY SMT

\* Products with a positive integer are ordered as the other factors are.
LEMMA MulMono ==
    ASSUME NEW a \in Int, NEW b \in Int, NEW R \in Nat \ {0}
    PROVE  /\ a <= b => a * R <= b * R
           /\ a * R < b * R => a < b
BY SMT

\* Quotient and remainder are determined by the division equation.
LEMMA DivUnique ==
    ASSUME NEW a \in Nat, NEW R \in Nat \ {0}, NEW q \in Nat, NEW r \in 0..(R - 1),
           a = q * R + r
    PROVE  a \div R = q /\ a % R = r
<1> DEFINE d == a \div R
<1>1. d \in Nat /\ a % R \in 0..(R - 1) /\ a = d * R + (a % R)
  BY DivMod
<1> HIDE DEF d
<1>2. d * R < (q + 1) * R /\ q * R < (d + 1) * R
  BY <1>1
<1>3. d < q + 1 /\ q < d + 1
  BY <1>1, <1>2, MulMono
<1>4. d = q
  BY <1>1, <1>3
<1> QED
  BY <1>1, <1>4 DEF d

\* The position completing group g, and that no other does.
LEMMA GroupEnd ==
    ASSUME NEW R \in Nat \ {0}, NEW j \in Nat
    PROVE  (j + 1) % R = 0 <=> j = (j \div R) * R + R - 1
<1>1. /\ j \div R \in Nat /\ j % R \in 0..(R - 1) /\ j = (j \div R) * R + (j % R)
  BY DivMod
<1> DEFINE q == j \div R
<1> HIDE DEF q
<1>2. q \in Nat
  BY <1>1 DEF q
<1>3. CASE j = q * R + R - 1
  <2>1. j + 1 = (q + 1) * R + 0 /\ q + 1 \in Nat /\ 0 \in 0..(R - 1) /\ j + 1 \in Nat
    BY <1>2, <1>3
  <2>2. (j + 1) % R = 0
    BY <2>1, DivUnique
  <2> QED
    BY <2>2, <1>3 DEF q
<1>4. CASE j # q * R + R - 1
  <2>1. (j % R) + 1 \in 0..(R - 1) /\ j + 1 = q * R + ((j % R) + 1) /\ j + 1 \in Nat
    BY <1>1, <1>2, <1>4 DEF q
  <2>2. (j + 1) % R = (j % R) + 1
    BY <2>1, <1>2, DivUnique
  <2> QED
    BY <2>1, <2>2, <1>1, <1>4 DEF q
<1> QED
  BY <1>3, <1>4

\* The quotient is monotone.
LEMMA DivMono ==
    ASSUME NEW R \in Nat \ {0}, NEW a \in Nat, NEW b \in Nat, a <= b
    PROVE  a \div R <= b \div R
<1> DEFINE p == a \div R
           q == b \div R
<1>1. /\ p \in Nat /\ a % R \in 0..(R - 1) /\ a = p * R + (a % R)
      /\ q \in Nat /\ b % R \in 0..(R - 1) /\ b = q * R + (b % R)
  BY DivMod
<1> HIDE DEF p, q
<1>2. p * R < (q + 1) * R
  BY <1>1
<1>3. p < q + 1
  BY <1>1, <1>2, MulMono
<1> QED
  BY <1>1, <1>3 DEF p, q

\* A group index below (n div R) is a group complete in 0..n-1.
LEMMA GroupBelow ==
    ASSUME NEW R \in Nat \ {0}, NEW n \in Nat, NEW g \in Nat
    PROVE  g < n \div R <=> g * R + R - 1 < n
<1> DEFINE q == n \div R
<1>1. q \in Nat /\ n % R \in 0..(R - 1) /\ n = q * R + (n % R)
  BY DivMod
<1> HIDE DEF q
<1>2. CASE g < q
  <2>1. (g + 1) * R <= q * R
    BY <1>1, <1>2, MulMono
  <2>2. g * R + R - 1 < n
    BY <2>1, <1>1
  <2> QED
    BY <2>2, <1>2 DEF q
<1>3. CASE ~(g < q)
  <2>1. q * R <= g * R
    BY <1>1, <1>3, MulMono
  <2>2. ~(g * R + R - 1 < n)
    BY <2>1, <1>1
  <2> QED
    BY <2>2, <1>3 DEF q
<1> QED
  BY <1>2, <1>3

\* Positions of a range that complete a group are their groups' last tokens.
LEMMA CompletingGroups ==
    ASSUME NEW R \in Nat \ {0}, NEW lo \in Nat, NEW hi \in Int, hi >= lo - 1
    PROVE  /\ \A j \in Completing(lo, hi, R) :
                /\ j \div R \in (lo \div R)..((hi + 1) \div R - 1)
                /\ j = (j \div R) * R + R - 1
           /\ \A g \in (lo \div R)..((hi + 1) \div R - 1) :
                /\ g * R + R - 1 \in Completing(lo, hi, R)
                /\ (g * R + R - 1) \div R = g
<1> DEFINE A == lo \div R
           B == (hi + 1) \div R
<1>a. hi + 1 \in Nat
  OBVIOUS
<1>0. A \in Nat /\ B \in Nat /\ hi + 1 \in Nat
  BY <1>a, DivMod
<1>1. ASSUME NEW j \in Completing(lo, hi, R)
      PROVE  j \div R \in A..(B - 1) /\ j = (j \div R) * R + R - 1
  <2>1. j \in Nat /\ lo <= j /\ j <= hi /\ (j + 1) % R = 0
    BY DEF Completing
  <2>2. j = (j \div R) * R + R - 1 /\ j \div R \in Nat
    BY <2>1, GroupEnd, DivMod
  <2>3. A <= j \div R
    BY <2>1, DivMono
  <2>4. j \div R < B
    <3>1. (j \div R) * R + R - 1 < hi + 1
      BY <2>1, <2>2, <1>0
    <3> QED
      BY <3>1, <2>2, <1>0, GroupBelow
  <2> QED
    BY <2>2, <2>3, <2>4, <1>0
<1>2. ASSUME NEW g \in A..(B - 1)
      PROVE  g * R + R - 1 \in Completing(lo, hi, R) /\ (g * R + R - 1) \div R = g
  <2> DEFINE j == g * R + R - 1
  <2>1. g \in Nat
    BY <1>0
  <2>2. j \in Nat
    BY <2>1
  <2>3. j \div R = g
    BY <2>1, <2>2, DivUnique
  <2>4. j < hi + 1
    BY <2>1, <1>0, GroupBelow
  <2>5. ~(j < lo)
    BY <2>1, GroupBelow, <1>0
  <2>6. (j + 1) % R = 0
    BY <2>2, <2>3, GroupEnd
  <2> QED
    BY <2>2, <2>3, <2>4, <2>5, <2>6 DEF Completing
<1> QED
  BY <1>1, <1>2

\* The number of groups completing in lo..hi, as the loops count them.
LEMMA CompletingCount ==
    ASSUME NEW R \in Nat \ {0}, NEW lo \in Nat, NEW hi \in Int, hi >= lo - 1
    PROVE  Cardinality(Completing(lo, hi, R)) = (hi + 1) \div R - lo \div R
<1> DEFINE A == lo \div R
           B == (hi + 1) \div R
           S == A..(B - 1)
           C == Completing(lo, hi, R)
           f == [g \in S |-> g * R + R - 1]
<1>a. hi + 1 \in Nat
  OBVIOUS
<1>0. A \in Nat /\ B \in Nat /\ hi + 1 \in Nat
  BY <1>a, DivMod
<1>1. A <= B
  BY <1>0, DivMono
<1>2. /\ \A j \in C : j \div R \in S /\ j = (j \div R) * R + R - 1
      /\ \A g \in S : g * R + R - 1 \in C /\ (g * R + R - 1) \div R = g
  BY CompletingGroups
<1> HIDE DEF A, B, C
<1>3. f \in Bijection(S, C)
  <2>1. f \in [S -> C]
    BY <1>2
  <2>2. \A g, h \in S : f[g] = f[h] => g = h
    BY <1>2
  <2>3. \A j \in C : \E g \in S : f[g] = j
    BY <1>2
  <2> QED
    BY <2>1, <2>2, <2>3, Fun_IsBij
<1>4. IsFiniteSet(S) /\ Cardinality(S) = B - A
  <2>1. B - 1 \in Int /\ A \in Int
    BY <1>0
  <2>2. IsFiniteSet(S) /\ Cardinality(S) = IF A > B - 1 THEN 0 ELSE B - 1 - A + 1
    BY <2>1, FS_Interval
  <2> QED
    BY <2>2, <1>0, <1>1
<1>5. Cardinality(C) = Cardinality(S)
  BY <1>3, <1>4, FS_Bijection DEF ExistsBijection
<1> QED
  BY <1>4, <1>5 DEF A, B, C

\* rows are the rows c with rows A..B-1 taking their groups from src.
Emitted(rows, c, src, R, A, B) ==
    /\ DOMAIN rows = DOMAIN c
    /\ \A t \in DOMAIN c :
         /\ A <= t /\ t < B => rows[t] = GroupRow(src, R, t)
         /\ ~(A <= t /\ t < B) => rows[t] = c[t]

\* The emit loop over lo..hi, started with every group complete before lo in
\* place: row t takes group t, for the groups completing in lo..hi.
LEMMA EmitRowsGroups ==
    ASSUME NEW c, DOMAIN c \subseteq Nat, NEW src, NEW R \in Nat \ {0},
           NEW lo \in Nat, NEW hi \in Int, hi >= lo - 1
    PROVE  Emitted(EmitRows(c, lo \div R, src, lo, hi, R), c, src, R, lo \div R, (hi + 1) \div R)
<1> DEFINE A == lo \div R
           B == (hi + 1) \div R
           C == Completing(lo, hi, R)
           Writes(t, j) == t = A + Cardinality(Completing(lo, j - 1, R))
           rows == EmitRows(c, A, src, lo, hi, R)
<1>0. hi + 1 \in Nat
  OBVIOUS
<1>1. A \in Nat /\ B \in Nat
  BY <1>0, DivMod
<1>2. \A j \in C : \A t \in Nat : Writes(t, j) <=> t = j \div R
  <2> TAKE j \in C
  <2>1. j \in Nat /\ lo <= j
    BY DEF Completing
  <2>2. j - 1 \in Int /\ j - 1 >= lo - 1 /\ j - 1 + 1 = j
    BY <2>1
  <2>3. Cardinality(Completing(lo, j - 1, R)) = (j - 1 + 1) \div R - A
    BY <2>2, CompletingCount
  <2>4. j \div R \in Nat
    BY <2>1, DivMod
  <2> QED
    BY <2>2, <2>3, <2>4, <1>1
<1>3. /\ \A j \in C : j \div R \in A..(B - 1) /\ j = (j \div R) * R + R - 1
      /\ \A g \in A..(B - 1) : g * R + R - 1 \in C /\ (g * R + R - 1) \div R = g
  BY CompletingGroups
<1>4. rows = [t \in DOMAIN c |->
                IF \E j \in C : Writes(t, j)
                THEN GroupRow(src, R, (CHOOSE j \in C : Writes(t, j)) \div R) ELSE c[t]]
  BY DEF EmitRows
<1> HIDE DEF A, B, C, Writes, rows
<1>5. ASSUME NEW t \in DOMAIN c, A <= t, t < B
      PROVE  rows[t] = GroupRow(src, R, t)
  <2>1. t \in Nat /\ t \in A..(B - 1)
    BY <1>1, <1>5
  <2>2. \E j \in C : Writes(t, j)
    BY <1>2, <1>3, <2>1
  <2>3. (CHOOSE j \in C : Writes(t, j)) \in C /\ Writes(t, CHOOSE j \in C : Writes(t, j))
    BY <2>2
  <2>4. (CHOOSE j \in C : Writes(t, j)) \div R = t
    BY <2>1, <2>3, <1>2
  <2> QED
    BY <1>4, <2>2, <2>4
<1>6. ASSUME NEW t \in DOMAIN c, ~(A <= t /\ t < B)
      PROVE  rows[t] = c[t]
  <2>1. t \in Nat /\ t \notin A..(B - 1)
    BY <1>1, <1>6
  <2>2. ~ \E j \in C : Writes(t, j)
    BY <1>2, <1>3, <2>1
  <2> QED
    BY <1>4, <2>2
<1>7. DOMAIN rows = DOMAIN c
  BY <1>4
<1> QED
  BY <1>5, <1>6, <1>7 DEF Emitted, A, B, rows

\* A row pools only positions up to the end of its own group.
LEMMA GroupToksBelow ==
    ASSUME NEW R \in Nat \ {0}, NEW t \in Nat, NEW n \in Nat, t < n \div R
    PROVE  \A q \in GroupToks(R, t) : q \in 0..(n - 1)
<1>1. t * R + R - 1 < n
  BY GroupBelow
<1>2. 0 <= t * R /\ (t >= 1 => 0 <= (t - 1) * R)
  BY MulMono
<1> QED
  BY <1>1, <1>2 DEF GroupToks

-----------------------------------------------------------------------------
(* Constants and the operators of the model. *)

LEMMA Consts ==
    /\ PS \in Nat /\ PS >= 1 /\ NDEC \in Nat /\ NGen \in Nat
    /\ Block \in Nat /\ Block >= 1 /\ NLayers \in Nat /\ NLayers >= 1
    /\ VK \in 0..NDEC /\ VK <= Block
    /\ SeqMax \in Nat
    /\ PS + 1 + NDEC + Block <= SeqMax /\ PS + 1 + NGen + Block <= SeqMax
    /\ Positions = 0..(SeqMax - 1)
    /\ 0..PS \subseteq Positions /\ 0 \in Layers
    /\ Ratio \in [Layers -> Nat]
    /\ Junk \notin Token /\ Junk \notin Histories
BY DriverAssumption DEF VK, MinOf, MaxOf, SeqMax, Positions, Layers

\* Histories agree where the tokens do.
LEMMA PrefixEq ==
    ASSUME NEW g, NEW h, NEW p \in Nat, \A r \in 0..p : g[r] = h[r]
    PROVE  Prefix(g, p) = Prefix(h, p)
BY DEF Prefix

\* A prefix of a prefix.
LEMMA PrefixPrefix ==
    ASSUME NEW h, NEW p \in Nat, NEW q \in 0..p
    PROVE  Prefix(Prefix(h, p), q) = Prefix(h, q)
BY DEF Prefix

\* The prefixes of tokens are histories, and so no Junk.
LEMMA PrefixHist ==
    ASSUME NEW h, NEW p \in Positions, \A r \in 0..p : h[r] \in Token
    PROVE  Prefix(h, p) \in Histories /\ Prefix(h, p) # Junk
<1>1. Prefix(h, p) \in [0..p -> Token]
  BY DEF Prefix
<1> QED
  BY <1>1, Consts DEF Histories

\* Row counts fit comp_kv.
LEMMA RowsFit ==
    ASSUME NEW L \in Layers, Ratio[L] # 0, NEW n \in 0..SeqMax
    PROVE  /\ n \div Ratio[L] \in Nat
           /\ n \div Ratio[L] <= CompCap(L)
           /\ \A t \in Nat : t < n \div Ratio[L] => t \in CompRows(L)
<1>1. Ratio[L] \in Nat \ {0} /\ n \in Nat /\ SeqMax \in Nat /\ n <= SeqMax
  BY Consts
<1>2. n \div Ratio[L] \in Nat /\ SeqMax \div Ratio[L] \in Nat
  BY <1>1, DivMod
<1>3. n \div Ratio[L] <= SeqMax \div Ratio[L]
  BY <1>1, DivMono
<1> QED
  BY <1>1, <1>2, <1>3 DEF CompCap, CompRows

\* A set of positive numbers with everything below its members is an initial
\* segment.
LEMMA DownClosed ==
    ASSUME NEW n \in Nat, NEW S \in SUBSET (1..n), \A a \in S : \A b \in 1..a : b \in S
    PROVE  S = 1..Cardinality(S) /\ Cardinality(S) \in 0..n
<1> DEFINE c == Cardinality(S)
<1>1. \A m \in 0..n : IsFiniteSet(1..m) /\ Cardinality(1..m) = m
  <2> TAKE m \in 0..n
  <2>1. 1 \in Int /\ m \in Int
    OBVIOUS
  <2> QED
    BY <2>1, FS_Interval
<1>2. IsFiniteSet(S) /\ c \in 0..n
  <2>1. IsFiniteSet(1..n) /\ Cardinality(1..n) = n
    BY <1>1
  <2>2. IsFiniteSet(S) /\ c <= n
    BY <2>1, FS_Subset
  <2>3. c \in Nat
    BY <2>2, FS_CardinalityType
  <2> QED
    BY <2>2, <2>3
<1> HIDE DEF c
<1>3. \A a \in S : a <= c
  <2> TAKE a \in S
  <2>1. 1..a \subseteq S /\ a \in 0..n
    OBVIOUS
  <2>2. Cardinality(1..a) <= c
    BY <2>1, <1>2, FS_Subset DEF c
  <2> QED
    BY <2>1, <2>2, <1>1
<1>4. S \subseteq 1..c
  BY <1>2, <1>3
<1>5. c \in 0..n /\ IsFiniteSet(1..c) /\ Cardinality(1..c) = c
  BY <1>1, <1>2
<1>6. S = 1..c
  BY <1>4, <1>5, FS_Subset DEF c
<1> QED
  BY <1>2, <1>6 DEF c

\* The accepted drafts all match the target, and there are at most Block-1.
LEMMA AcceptedMatches ==
    ASSUME NEW d, NEW tam
    PROVE  /\ Accepted(d, tam) \in 0..(Block - 1)
           /\ \A i \in 0..(Accepted(d, tam) - 1) : d[i] = tam[i]
<1> DEFINE S == {n \in 1..(Block - 1) : \A i \in 0..(n - 1) : d[i] = tam[i]}
           c == Cardinality(S)
<1>1. Block - 1 \in Nat /\ S \in SUBSET (1..(Block - 1))
  BY Consts
<1>2. \A a \in S : \A b \in 1..a : b \in S
  BY <1>1
<1>3. S = 1..c /\ c \in 0..(Block - 1)
  BY <1>1, <1>2, DownClosed
<1>4. c = Accepted(d, tam)
  BY DEF Accepted
<1> HIDE DEF c
<1>5. \A i \in 0..(c - 1) : d[i] = tam[i]
  <2> TAKE i \in 0..(c - 1)
  <2>1. c \in S
    BY <1>1, <1>3
  <2> QED
    BY <2>1
<1> QED
  BY <1>3, <1>4, <1>5

-----------------------------------------------------------------------------
(* The initial state. *)

LEMMA InitTypeOK == Init => TypeOK
<1> SUFFICES ASSUME Init PROVE TypeOK
  OBVIOUS
<1> USE DEF Init
<1>1. /\ stage \in {"ar", "gate", "spec", "done"}
      /\ prompt \in [0..PS -> Token]
      /\ run \in {"idle", "prefill", "decode", "verify"}
      /\ lay \in 0..NLayers /\ pos \in Nat /\ K \in Nat
      /\ cur \in Token
  BY Consts
<1>2. ids \in [Positions -> Token \cup {Junk}]
  BY Consts
<1>3. x \in [0..(K - 1) -> Rows]
  OBVIOUS
<1>4. win \in [Layers -> [Positions -> Rows]] /\ xin \in [Layers -> [Positions -> Rows]]
  BY DEF Rows
<1>5. DOMAIN comp = Layers /\ \A L \in Layers : DOMAIN comp[L] = CompRows(L)
  OBVIOUS
<1>6. T \in [Layers -> Nat] /\ Tbefore \in [Layers -> Nat]
  OBVIOUS
<1>7. gen \in Seq(Token) /\ vam \in Seq(Token) /\ sgen \in Seq(Token)
  OBVIOUS
<1>8. mainx \in [Positions -> Rows]
  BY DEF Rows
<1>9. draft \in [0..(Block - 1) -> Token] \cup {<< >>}
  OBVIOUS
<1> QED
  BY <1>1, <1>2, <1>3, <1>4, <1>5, <1>6, <1>7, <1>8, <1>9 DEF TypeOK

LEMMA InitIInv == Init => IInv
<1> SUFFICES ASSUME Init PROVE IInv
  OBVIOUS
<1>1. TypeOK
  BY InitTypeOK
<1>2. ControlOK
  BY Consts DEF Init, ControlOK
<1>3. TextOK
  BY Consts DEF Init, TextOK
<1>4. CacheOK
  BY DEF Init, CacheOK, Ready
<1>5. OutputOK
  BY DEF Init, OutputOK, Greedy!IsGreedy, GateMatches
<1> QED
  BY <1>1, <1>2, <1>3, <1>4, <1>5 DEF IInv

-----------------------------------------------------------------------------
(* A pass starts. *)

\* The outputs stay greedy when they and the prompt are unchanged.
LEMMA OutputSame ==
    ASSUME IInv, UNCHANGED <<prompt, gen, vam, sgen>>
    PROVE  OutputOK'
BY DEF IInv, OutputOK, Greedy!IsGreedy, Greedy!HistoryBefore, GateMatches

\* The hidden states a pass starts with are the histories of its positions.
LEMMA Started ==
    ASSUME NEW r, NEW p \in Nat, NEW n \in Nat, Start(r, p, n), p + n <= SeqMax,
           \A q \in 0..(p + n - 1) : ids'[q] \in Token
    PROVE  /\ x' \in [0..(K' - 1) -> Rows]
           /\ \A i \in 0..(K' - 1) : x'[i] = Prefix(ids', pos' + i)
<1>1. x' = [i \in 0..(n - 1) |-> Prefix(ids', p + i)] /\ K' = n /\ pos' = p
  BY DEF StartPrefill, Start, head
<1>2. \A i \in 0..(n - 1) : Prefix(ids', p + i) \in Histories
  <2> TAKE i \in 0..(n - 1)
  <2>1. p + i \in Positions /\ \A q \in 0..(p + i) : ids'[q] \in Token
    BY Consts
  <2> QED
    BY <2>1, PrefixHist
<1> QED
  BY <1>1, <1>2 DEF Rows

LEMMA StartPrefillIInv ==
    ASSUME IInv, StartPrefill
    PROVE  IInv'
<1>0. TypeOK /\ ControlOK /\ TextOK /\ CacheOK
  BY DEF IInv
<1>1. /\ run' = "prefill" /\ lay' = 0 /\ pos' = 0 /\ K' = PS /\ pos = 0 /\ ids' = ids
      /\ T' = [L \in Layers |-> 0]
      /\ stage # "done" /\ run = "idle"
      /\ UNCHANGED <<stage, prompt, cur, gen, vam, sgen, win, xin, comp, mainx, draft, Tbefore>>
  BY DEF StartPrefill, Start, head
<1>2. \A q \in 0..(0 + PS - 1) : ids'[q] \in Token
  <2>1. \A q \in 0..PS : ids[q] = prompt[q] /\ prompt[q] \in Token
    BY <1>0 DEF TextOK, TypeOK
  <2> QED
    BY <1>1, <2>1, Consts
<1>3. /\ x' \in [0..(K' - 1) -> Rows]
      /\ \A i \in 0..(K' - 1) : x'[i] = Prefix(ids', pos' + i)
  <2>1. Start("prefill", 0, PS)
    BY DEF StartPrefill
  <2> QED
    BY <1>2, <2>1, Started, Consts
<1>4. TypeOK'
  BY <1>0, <1>1, <1>3, Consts DEF TypeOK
<1>5. ControlOK'
  BY <1>0, <1>1, Consts DEF ControlOK
<1>6. TextOK'
  BY <1>0, <1>1, <1>2, Consts DEF TextOK
<1>7. CacheOK'
  <2>1. \A L \in Layers : Ready(L)' = 0
    BY <1>1, Consts DEF Ready, Layers
  <2>2. \A L \in Layers : Ratio[L] # 0 => 0 \div Ratio[L] = 0
    <3> SUFFICES ASSUME NEW L \in Layers, Ratio[L] # 0 PROVE 0 \div Ratio[L] = 0
      OBVIOUS
    <3>1. Ratio[L] \in Nat \ {0} /\ 0 = 0 * Ratio[L] + 0 /\ 0 \in 0..(Ratio[L] - 1)
      BY Consts
    <3> QED
      BY <3>1, DivUnique
  <2>3. \A L \in Layers : CachedTo(L, 0)'
    BY <1>1, <2>2, Consts DEF CachedTo
  <2> QED
    BY <1>0, <1>1, <1>3, <2>1, <2>3 DEF CacheOK
<1>8. OutputOK'
  BY <1>1, OutputSame
<1> QED
  BY <1>4, <1>5, <1>6, <1>7, <1>8 DEF IInv

-----------------------------------------------------------------------------
(* A layer writes its caches. *)

\* The rows of the pass extend a cache that holds the rows of the text before.
LEMMA RowsExtended ==
    ASSUME IInv, NEW rows \in [Positions -> Rows],
           \A p \in 0..(pos - 1) : rows[p] = Prefix(ids, p)
    PROVE  /\ WriteRows(rows) \in [Positions -> Rows]
           /\ \A p \in 0..(pos + K - 1) : WriteRows(rows)[p] = Prefix(ids, p)
<1>1. /\ pos \in Nat /\ K \in Nat /\ pos + K <= SeqMax
      /\ x \in [0..(K - 1) -> Rows]
      /\ \A i \in 0..(K - 1) : x[i] = Prefix(ids, pos + i)
  BY DEF IInv, TypeOK, ControlOK, CacheOK
<1>2. \A p \in pos..(pos + K - 1) : p - pos \in 0..(K - 1) /\ pos + (p - pos) = p
  BY <1>1
<1>3. WriteRows(rows) \in [Positions -> Rows]
  BY <1>1, <1>2 DEF WriteRows
<1>4. \A p \in 0..(pos + K - 1) : p \in Positions
  BY <1>1, Consts
<1> QED
  BY <1>1, <1>2, <1>3, <1>4 DEF WriteRows

\* Layer lay of a pass, in the caches: its rows follow those of the text, the
\* other layers are untouched.
LEMMA LayerCached ==
    ASSUME IInv, run # "idle", lay < NLayers, lay' = lay + 1,
           UNCHANGED <<ids, pos, K>>,
           win' = [win EXCEPT ![lay] = WriteRows(win[lay])],
           Ratio[lay] = 0 => UNCHANGED <<xin, comp, T>>,
           Ratio[lay] # 0 =>
              /\ xin' = [xin EXCEPT ![lay] = WriteRows(xin[lay])]
              /\ T' = [T EXCEPT ![lay] = (pos + K) \div Ratio[lay]]
              /\ DOMAIN comp' = Layers /\ DOMAIN comp'[lay] = CompRows(lay)
              /\ \A L \in Layers \ {lay} : comp'[L] = comp[L]
              /\ \A t \in CompRows(lay) :
                   t < (pos + K) \div Ratio[lay] =>
                     comp'[lay][t] = IF t < pos \div Ratio[lay] THEN comp[lay][t]
                                     ELSE GroupRow(xin'[lay], Ratio[lay], t)
    PROVE  /\ win' \in [Layers -> [Positions -> Rows]]
           /\ xin' \in [Layers -> [Positions -> Rows]]
           /\ DOMAIN comp' = Layers /\ \A L \in Layers : DOMAIN comp'[L] = CompRows(L)
           /\ T' \in [Layers -> Nat]
           /\ \A L \in Layers : CachedTo(L, Ready(L))'
<1>0. TypeOK /\ ControlOK /\ CacheOK
  BY DEF IInv
<1>1. /\ lay \in Layers /\ lay \in Nat /\ pos \in Nat /\ K \in Nat /\ pos + K <= SeqMax
      /\ Ratio[lay] \in Nat /\ pos + K \in Nat /\ pos + K \in 0..SeqMax /\ pos \in 0..SeqMax
      /\ Layers \subseteq Nat
  BY <1>0, Consts DEF TypeOK, ControlOK, Layers
<1>2. /\ win \in [Layers -> [Positions -> Rows]] /\ xin \in [Layers -> [Positions -> Rows]]
      /\ DOMAIN comp = Layers /\ \A L \in Layers : DOMAIN comp[L] = CompRows(L)
      /\ T \in [Layers -> Nat]
  BY <1>0 DEF TypeOK
<1>3. \A L \in Layers : CachedTo(L, Ready(L))
  BY <1>0 DEF CacheOK
<1>4. CachedTo(lay, pos)
  BY <1>1, <1>3 DEF Ready
<1>5. /\ WriteRows(win[lay]) \in [Positions -> Rows]
      /\ \A p \in 0..(pos + K - 1) : WriteRows(win[lay])[p] = Prefix(ids, p)
  <2>1. win[lay] \in [Positions -> Rows] /\ \A p \in 0..(pos - 1) : win[lay][p] = Prefix(ids, p)
    BY <1>1, <1>2, <1>4 DEF CachedTo
  <2> QED
    BY <2>1, RowsExtended
<1>6. ASSUME Ratio[lay] # 0
      PROVE  /\ WriteRows(xin[lay]) \in [Positions -> Rows]
             /\ \A p \in 0..(pos + K - 1) : WriteRows(xin[lay])[p] = Prefix(ids, p)
  <2>1. xin[lay] \in [Positions -> Rows] /\ \A p \in 0..(pos - 1) : xin[lay][p] = Prefix(ids, p)
    BY <1>1, <1>2, <1>4, <1>6 DEF CachedTo
  <2> QED
    BY <2>1, RowsExtended
<1>7. Ratio[lay] # 0 => (pos + K) \div Ratio[lay] \in Nat
  BY <1>1, RowsFit
<1>8. /\ win' \in [Layers -> [Positions -> Rows]]
      /\ xin' \in [Layers -> [Positions -> Rows]]
      /\ DOMAIN comp' = Layers /\ \A L \in Layers : DOMAIN comp'[L] = CompRows(L)
      /\ T' \in [Layers -> Nat]
  BY <1>1, <1>2, <1>5, <1>6, <1>7
<1>9. /\ \A p \in 0..(pos + K - 1) : win'[lay][p] = Prefix(ids, p)
      /\ Ratio[lay] # 0 =>
           /\ \A p \in 0..(pos + K - 1) : xin'[lay][p] = Prefix(ids, p)
           /\ T'[lay] = (pos + K) \div Ratio[lay]
           /\ \A t \in 0..(T'[lay] - 1) :
                comp'[lay][t] = DueRow(ids, Ratio[lay], t)
  <2>1. \A p \in 0..(pos + K - 1) : win'[lay][p] = Prefix(ids, p)
    BY <1>1, <1>2, <1>5
  <2>2. ASSUME Ratio[lay] # 0
        PROVE  /\ \A p \in 0..(pos + K - 1) : xin'[lay][p] = Prefix(ids, p)
               /\ T'[lay] = (pos + K) \div Ratio[lay]
               /\ \A t \in 0..(T'[lay] - 1) :
                    comp'[lay][t] = DueRow(ids, Ratio[lay], t)
    <3>1. /\ \A p \in 0..(pos + K - 1) : xin'[lay][p] = Prefix(ids, p)
          /\ T'[lay] = (pos + K) \div Ratio[lay]
      BY <1>1, <1>2, <1>6, <2>2
    <3>2. ASSUME NEW t \in 0..(T'[lay] - 1)
          PROVE  comp'[lay][t] = DueRow(ids, Ratio[lay], t)
      <4>1. t \in Nat /\ t < (pos + K) \div Ratio[lay]
        BY <3>1, <3>2, <1>7, <2>2
      <4>2. t \in CompRows(lay)
        BY <4>1, <1>1, <2>2, RowsFit
      <4>3. CASE t < pos \div Ratio[lay]
        <5>1. comp'[lay][t] = comp[lay][t]
          BY <4>1, <4>2, <4>3, <2>2
        <5>2. T[lay] = pos \div Ratio[lay] /\ T[lay] \in Nat
          BY <1>1, <1>2, <1>4, <2>2 DEF CachedTo
        <5>3. t \in 0..(T[lay] - 1)
          BY <4>1, <4>3, <5>2
        <5> QED
          BY <5>1, <5>3, <1>4, <2>2 DEF CachedTo
      <4>4. CASE ~(t < pos \div Ratio[lay])
        <5>1. comp'[lay][t] = GroupRow(xin'[lay], Ratio[lay], t)
          BY <4>1, <4>2, <4>4, <2>2
        <5>2. \A q \in GroupToks(Ratio[lay], t) : q \in 0..(pos + K - 1)
          BY <4>1, <1>1, <2>2, GroupToksBelow
        <5> QED
          BY <5>1, <5>2, <3>1 DEF GroupRow, DueRow
      <4> QED
        BY <4>3, <4>4
    <3> QED
      BY <3>1, <3>2
  <2> QED
    BY <2>1, <2>2
<1>10. ASSUME NEW L \in Layers
       PROVE  CachedTo(L, Ready(L))'
  <2>1. CASE L = lay
    <3>1. ids' = ids /\ L < lay' /\ pos' + K' = pos + K
      BY <1>1, <2>1
    <3>2. /\ \A p \in 0..(pos + K - 1) : win'[L][p] = Prefix(ids, p)
          /\ Ratio[L] # 0 =>
               /\ \A p \in 0..(pos + K - 1) : xin'[L][p] = Prefix(ids, p)
               /\ T'[L] = (pos + K) \div Ratio[L]
               /\ \A t \in 0..(T'[L] - 1) : comp'[L][t] = DueRow(ids, Ratio[L], t)
      BY ONLY <1>9, <2>1
    <3>3. CachedTo(L, pos + K)'
      BY <1>1, <3>1, <3>2 DEF CachedTo
    <3> QED
      BY ONLY <3>1, <3>3 DEF Ready
  <2>2. CASE L # lay
    <3>1. ids' = ids /\ (L < lay' <=> L < lay) /\ pos' = pos /\ K' = K
      BY <1>1, <2>2
    <3>2. win'[L] = win[L] /\ xin'[L] = xin[L] /\ comp'[L] = comp[L] /\ T'[L] = T[L]
      BY <1>1, <1>2, <2>2
    <3> QED
      BY <3>1, <3>2, <1>3 DEF CachedTo, Ready
  <2> QED
    BY <2>1, <2>2
<1> QED
  BY <1>8, <1>10

\* What is left to show of a layer: the text and the pass are untouched.
LEMMA LayerIInv ==
    ASSUME IInv, run # "idle", lay < NLayers, lay' = lay + 1, x' = x,
           UNCHANGED <<stage, run, pos, K, text, head>>,
           win' \in [Layers -> [Positions -> Rows]],
           xin' \in [Layers -> [Positions -> Rows]],
           DOMAIN comp' = Layers, \A L \in Layers : DOMAIN comp'[L] = CompRows(L),
           T' \in [Layers -> Nat],
           \A L \in Layers : CachedTo(L, Ready(L))'
    PROVE  IInv'
<1>0. TypeOK /\ ControlOK /\ TextOK /\ CacheOK
  BY DEF IInv
<1>1. UNCHANGED <<stage, run, pos, K, prompt, ids, cur, gen, vam, sgen, mainx, draft, Tbefore>>
  BY DEF text, head
<1>2. lay' \in 0..NLayers
  BY <1>0, Consts DEF TypeOK
<1>3. TypeOK'
  BY <1>0, <1>1, <1>2 DEF TypeOK
<1>4. ControlOK'
  BY <1>0, <1>1 DEF ControlOK
<1>5. TextOK'
  BY <1>0, <1>1 DEF TextOK, TextEndsAt, TextAt, GateToken
<1>6. CacheOK'
  BY <1>0, <1>1 DEF CacheOK
<1>7. OutputOK'
  BY <1>1, OutputSame
<1> QED
  BY <1>3, <1>4, <1>5, <1>6, <1>7 DEF IInv

\* The groups complete in the prefill, as PrefillLayer enumerates them.
LEMMA PrefillGroups ==
    ASSUME NEW R \in Nat \ {0}
    PROVE  LET groups == {g \in 0..(PS - 1) : g * R + R - 1 <= PS - 1}
           IN  groups = 0..(PS \div R - 1) /\ Cardinality(groups) = PS \div R
<1> DEFINE q == PS \div R
           groups == {g \in 0..(PS - 1) : g * R + R - 1 <= PS - 1}
<1>1. q \in Nat /\ PS \in Nat
  BY Consts, DivMod
<1>2. \A g \in Nat : g < q <=> g * R + R - 1 < PS
  BY Consts, GroupBelow
<1> HIDE DEF q
<1>3. \A g \in Nat : g * R + R - 1 < PS => g <= PS - 1
  BY Consts, MulMono
<1>4. groups = 0..(q - 1)
  BY <1>1, <1>2, <1>3
<1>5. Cardinality(0..(q - 1)) = q
  <2>1. 0 \in Int /\ q - 1 \in Int
    BY <1>1
  <2> QED
    BY <2>1, <1>1, FS_Interval
<1> QED
  BY <1>4, <1>5 DEF q

LEMMA PrefillLayerIInv ==
    ASSUME IInv, PrefillLayer
    PROVE  IInv'
<1> DEFINE R == Ratio[lay]
           groups == {g \in 0..(PS - 1) : g * R + R - 1 <= PS - 1}
<1>0. TypeOK /\ ControlOK
  BY DEF IInv
<1>1. /\ run = "prefill" /\ lay < NLayers /\ lay' = lay + 1
      /\ UNCHANGED <<stage, run, pos, K, x, text, head>>
      /\ win' = [win EXCEPT ![lay] = WriteRows(win[lay])]
  BY DEF PrefillLayer
<1>2. ids' = ids /\ pos = 0 /\ K = PS /\ lay \in Layers /\ R \in Nat
  BY <1>0, <1>1, Consts DEF text, TypeOK, ControlOK, Layers
<1>3. R = 0 => UNCHANGED <<xin, comp, T>>
  BY DEF PrefillLayer
<1>4. ASSUME R # 0
      PROVE  /\ xin' = [xin EXCEPT ![lay] = WriteRows(xin[lay])]
             /\ comp' = [comp EXCEPT ![lay] = [t \in CompRows(lay) |->
                            IF t \in groups THEN GroupRow(xin'[lay], R, t) ELSE comp[lay][t]]]
             /\ T' = [T EXCEPT ![lay] = Cardinality(groups)]
  BY <1>4 DEF PrefillLayer
<1>5. R # 0 => groups = 0..(PS \div R - 1) /\ Cardinality(groups) = PS \div R /\ PS \div R \in Nat
  BY <1>2, PrefillGroups, Consts, DivMod
<1>6. R # 0 =>
        /\ xin' = [xin EXCEPT ![lay] = WriteRows(xin[lay])]
        /\ T' = [T EXCEPT ![lay] = (pos + K) \div R]
        /\ DOMAIN comp' = Layers /\ DOMAIN comp'[lay] = CompRows(lay)
        /\ \A L \in Layers \ {lay} : comp'[L] = comp[L]
        /\ \A t \in CompRows(lay) :
             t < (pos + K) \div R =>
               comp'[lay][t] = IF t < pos \div R THEN comp[lay][t]
                               ELSE GroupRow(xin'[lay], R, t)
  <2> SUFFICES ASSUME R # 0 PROVE <1>6!2
    OBVIOUS
  <2>1. pos + K = PS /\ DOMAIN comp = Layers
    BY <1>0, <1>2, Consts DEF TypeOK
  <2>2. pos \div R = 0
    <3>1. R \in Nat \ {0} /\ 0 = 0 * R + 0 /\ 0 \in 0..(R - 1)
      BY <1>2
    <3> QED
      BY <3>1, <1>2, DivUnique
  <2>3. comp'[lay] = [t \in CompRows(lay) |->
                        IF t \in groups THEN GroupRow(xin'[lay], R, t) ELSE comp[lay][t]]
    BY <1>2, <1>4, <2>1
  <2>4. \A t \in CompRows(lay) : t \in Nat
    BY DEF CompRows
  <2>5. \A t \in CompRows(lay) : t < PS \div R => t \in groups
    BY <1>5, <2>4
  <2>6. \A t \in CompRows(lay) : t < PS \div R =>
          comp'[lay][t] = IF t < 0 THEN comp[lay][t] ELSE GroupRow(xin'[lay], R, t)
    BY <2>3, <2>4, <2>5
  <2>7. DOMAIN comp' = Layers /\ \A L \in Layers \ {lay} : comp'[L] = comp[L]
    BY <1>4, <2>1
  <2> HIDE DEF groups, R
  <2> QED
    BY <1>4, <1>5, <2>1, <2>2, <2>3, <2>6, <2>7
<1> HIDE DEF groups
<1>7. /\ win' \in [Layers -> [Positions -> Rows]]
      /\ xin' \in [Layers -> [Positions -> Rows]]
      /\ DOMAIN comp' = Layers /\ \A L \in Layers : DOMAIN comp'[L] = CompRows(L)
      /\ T' \in [Layers -> Nat]
      /\ \A L \in Layers : CachedTo(L, Ready(L))'
  BY <1>1, <1>2, <1>3, <1>6, LayerCached
<1> QED
  BY <1>1, <1>7, LayerIInv

\* A layer over the caches emits the rows that complete in the pass.
LEMMA LayerWritesCached ==
    ASSUME IInv, run # "idle", LayerWrites
    PROVE  /\ win' \in [Layers -> [Positions -> Rows]]
           /\ xin' \in [Layers -> [Positions -> Rows]]
           /\ DOMAIN comp' = Layers /\ \A L \in Layers : DOMAIN comp'[L] = CompRows(L)
           /\ T' \in [Layers -> Nat]
           /\ \A L \in Layers : CachedTo(L, Ready(L))'
<1> DEFINE R == Ratio[lay]
<1>0. TypeOK /\ ControlOK /\ CacheOK
  BY DEF IInv
<1>1. /\ lay < NLayers /\ lay' = lay + 1
      /\ UNCHANGED <<pos, K, text>>
      /\ win' = [win EXCEPT ![lay] = WriteRows(win[lay])]
  BY DEF LayerWrites
<1>2. /\ ids' = ids /\ lay \in Layers /\ R \in Nat /\ pos \in Nat /\ K \in Nat
      /\ pos + K - 1 \in Int /\ pos + K - 1 >= pos - 1 /\ pos + K - 1 + 1 = pos + K
      /\ pos + K \in 0..SeqMax
  BY <1>0, <1>1, Consts DEF text, TypeOK, ControlOK, Layers
<1>3. R = 0 => UNCHANGED <<xin, comp, T>>
  BY DEF LayerWrites
<1>4. ASSUME R # 0
      PROVE  /\ xin' = [xin EXCEPT ![lay] = WriteRows(xin[lay])]
             /\ comp' = [comp EXCEPT ![lay] =
                           EmitRows(comp[lay], T[lay], xin'[lay], pos, pos + K - 1, R)]
             /\ T' = [T EXCEPT ![lay] = T[lay] + Cardinality(Completing(pos, pos + K - 1, R))]
  BY <1>4 DEF LayerWrites
<1>5. R # 0 =>
        /\ xin' = [xin EXCEPT ![lay] = WriteRows(xin[lay])]
        /\ T' = [T EXCEPT ![lay] = (pos + K) \div R]
        /\ DOMAIN comp' = Layers /\ DOMAIN comp'[lay] = CompRows(lay)
        /\ \A L \in Layers \ {lay} : comp'[L] = comp[L]
        /\ \A t \in CompRows(lay) :
             t < (pos + K) \div R =>
               comp'[lay][t] = IF t < pos \div R THEN comp[lay][t]
                               ELSE GroupRow(xin'[lay], R, t)
  <2> SUFFICES ASSUME R # 0 PROVE <1>5!2
    OBVIOUS
  <2>1. R \in Nat \ {0} /\ pos \div R \in Nat /\ (pos + K) \div R \in Nat
    <3>1. R \in Nat \ {0} /\ pos + K \in Nat
      BY <1>2
    <3> QED
      BY <1>2, <3>1, DivMod
  <2>2. T[lay] = pos \div R
    <3>1. CachedTo(lay, pos)
      BY <1>0, <1>2 DEF CacheOK, Ready, TypeOK
    <3> QED
      BY <3>1 DEF CachedTo
  <2>3. Cardinality(Completing(pos, pos + K - 1, R)) = (pos + K) \div R - pos \div R
    BY <1>2, <2>1, CompletingCount
  <2>4. DOMAIN comp = Layers /\ DOMAIN comp[lay] = CompRows(lay)
    BY <1>0, <1>2 DEF TypeOK
  <2>5. comp'[lay] = EmitRows(comp[lay], pos \div R, xin'[lay], pos, pos + K - 1, R)
    BY <1>2, <1>4, <2>2, <2>4
  <2>6. CompRows(lay) \subseteq Nat
    BY DEF CompRows
  <2>7. Emitted(comp'[lay], comp[lay], xin'[lay], R, pos \div R, (pos + K) \div R)
    <3> DEFINE src == xin'[lay]
               c == comp[lay]
               hi == pos + K - 1
               r == Ratio[lay]
    <3>1. /\ r \in Nat \ {0} /\ DOMAIN c \subseteq Nat
          /\ pos \in Nat /\ hi \in Int /\ hi >= pos - 1
      BY <1>2, <2>1, <2>4, <2>6
    <3>2. comp'[lay] = EmitRows(c, pos \div r, src, pos, hi, r) /\ hi + 1 = pos + K
      BY <1>2, <2>5
    <3> HIDE DEF src, c, hi, r
    <3>3. Emitted(EmitRows(c, pos \div r, src, pos, hi, r), c, src, r, pos \div r, (hi + 1) \div r)
      BY <3>1, EmitRowsGroups
    <3> QED
      BY <3>2, <3>3 DEF src, c, r
  <2>8. T' = [T EXCEPT ![lay] = (pos + K) \div R]
    BY <1>4, <2>1, <2>2, <2>3
  <2>9. DOMAIN comp' = Layers /\ \A L \in Layers \ {lay} : comp'[L] = comp[L]
    BY <1>4, <2>4
  <2>10. \A t \in CompRows(lay) :
           t < (pos + K) \div R =>
             comp'[lay][t] = IF t < pos \div R THEN comp[lay][t]
                             ELSE GroupRow(xin'[lay], R, t)
    BY <2>1, <2>4, <2>6, <2>7 DEF Emitted
  <2>11. DOMAIN comp'[lay] = CompRows(lay)
    BY <2>4, <2>7 DEF Emitted
  <2> QED
    BY <1>4, <2>8, <2>9, <2>10, <2>11
<1> HIDE DEF R
<1> QED
  BY <1>1, <1>2, <1>3, <1>5, LayerCached DEF R

\* The layer just written, in the caches.
LEMMA LayerWritten ==
    ASSUME IInv, run # "idle", LayerWrites
    PROVE  /\ lay \in Layers /\ lay' = lay + 1 /\ Ratio[lay] \in Nat
           /\ pos \in Nat /\ K \in Nat /\ pos + K <= SeqMax
           /\ UNCHANGED <<stage, run, pos, K, text, head, ids>>
           /\ \A q \in 0..(pos + K - 1) : win'[lay][q] = Prefix(ids, q)
           /\ Ratio[lay] # 0 =>
                /\ T'[lay] = (pos + K) \div Ratio[lay]
                /\ \A t \in 0..(T'[lay] - 1) : comp'[lay][t] = DueRow(ids, Ratio[lay], t)
<1>0. TypeOK /\ ControlOK
  BY DEF IInv
<1>1. lay < NLayers /\ lay' = lay + 1 /\ UNCHANGED <<stage, run, pos, K, text, head>>
  BY DEF LayerWrites
<1>2. /\ lay \in Layers /\ Ratio[lay] \in Nat /\ pos \in Nat /\ K \in Nat /\ pos + K <= SeqMax
      /\ lay \in Nat /\ ids' = ids
  BY <1>0, <1>1, Consts DEF TypeOK, ControlOK, Layers, text
<1>3. ASSUME NEW L \in Layers, L = lay
      PROVE  /\ \A q \in 0..(pos + K - 1) : win'[L][q] = Prefix(ids, q)
             /\ Ratio[L] # 0 =>
                  /\ T'[L] = (pos + K) \div Ratio[L]
                  /\ \A t \in 0..(T'[L] - 1) : comp'[L][t] = DueRow(ids, Ratio[L], t)
  <2>1. CachedTo(L, Ready(L))'
    BY LayerWritesCached
  <2>2. Ready(L)' = (pos + K)'
    BY <1>1, <1>2, <1>3 DEF Ready
  <2>3. CachedTo(L, pos + K)'
    BY ONLY <2>1, <2>2
  <2> QED
    BY <1>1, <1>2, <2>3 DEF CachedTo
<1> QED
  BY <1>1, <1>2, <1>3

\* A query that sees the due rows reads what belongs to its history.
LEMMA QueryAgrees ==
    ASSUME IInv, run # "idle", LayerWrites, NEW i \in 0..(K - 1)
    PROVE  /\ x[i] # Junk
           /\ ReadsAgree(x[i], pos + i, win'[lay], comp'[lay],
                         DueRows(Ratio[lay], pos + i), Ratio[lay])
<1> DEFINE R == Ratio[lay]
           p == pos + i
<1>0. TypeOK /\ ControlOK /\ TextOK /\ CacheOK
  BY DEF IInv
<1>1. /\ lay \in Layers /\ R \in Nat /\ pos \in Nat /\ K \in Nat /\ pos + K <= SeqMax
      /\ \A q \in 0..(pos + K - 1) : win'[lay][q] = Prefix(ids, q)
      /\ R # 0 => /\ T'[lay] = (pos + K) \div R
                  /\ \A t \in 0..(T'[lay] - 1) : comp'[lay][t] = DueRow(ids, R, t)
  BY LayerWritten
<1>2. p \in Nat /\ p + 1 <= pos + K /\ p \in Positions
  BY <1>1, Consts
<1>3. x[i] = Prefix(ids, p)
  BY <1>0 DEF CacheOK
<1>4. x[i] # Junk
  <2>1. \A r \in 0..p : ids[r] \in Token
    BY <1>0, <1>1, <1>2 DEF TextOK
  <2> QED
    BY <1>2, <1>3, <2>1, PrefixHist
<1>5. \A q \in WinReads(p) : win'[lay][q] = Prefix(x[i], q)
  <2> TAKE q \in WinReads(p)
  <2>1. q \in 0..p /\ q \in 0..(pos + K - 1)
    BY <1>1, <1>2, WindowAssumption DEF WinReads
  <2>2. Prefix(x[i], q) = Prefix(ids, q)
    BY <1>2, <1>3, <2>1, PrefixPrefix
  <2> QED
    BY <1>1, <2>1, <2>2
<1>6. \A t \in DueRows(R, p) : comp'[lay][t] = DueRow(x[i], R, t)
  <2> TAKE t \in DueRows(R, p)
  <2>1. R \in Nat \ {0} /\ p + 1 \in Nat /\ pos + K \in Nat
    BY <1>1, <1>2 DEF DueRows
  <2>2. /\ (p + 1) \div R \in Nat /\ (pos + K) \div R \in Nat
        /\ (p + 1) \div R <= (pos + K) \div R
    BY <1>2, <2>1, DivMod, DivMono
  <2>3. t \in Nat /\ t < (p + 1) \div R
    BY <2>1, <2>2 DEF DueRows
  <2>4. comp'[lay][t] = DueRow(ids, R, t)
    BY <1>1, <2>1, <2>2, <2>3
  <2>5. \A q \in GroupToks(R, t) : q \in 0..p
    BY <1>2, <2>1, <2>3, GroupToksBelow
  <2>6. \A q \in GroupToks(R, t) : Prefix(x[i], q) = Prefix(ids, q)
    BY <1>2, <1>3, <2>5, PrefixPrefix
  <2> HIDE DEF R
  <2>7. DueRow(x[i], R, t) = DueRow(ids, R, t)
    BY <2>6 DEF DueRow
  <2> QED
    BY <2>4, <2>7
<1> QED
  BY <1>4, <1>5, <1>6 DEF ReadsAgree

LEMMA DecodeLayerIInv ==
    ASSUME IInv, DecodeLayer
    PROVE  IInv'
<1> DEFINE R == Ratio[lay]
<1>0. TypeOK /\ ControlOK /\ CacheOK
  BY DEF IInv
<1>1. run = "decode" /\ LayerWrites
  BY DEF DecodeLayer
<1>2. x' = [i \in 0..(K - 1) |->
              IF x[i] # Junk
                 /\ ReadsAgree(x[i], pos + i, win'[lay], comp'[lay], AllRows(R), R)
              THEN x[i] ELSE Junk]
  BY DEF DecodeLayer, Attended
<1>3. /\ win' \in [Layers -> [Positions -> Rows]]
      /\ xin' \in [Layers -> [Positions -> Rows]]
      /\ DOMAIN comp' = Layers /\ \A L \in Layers : DOMAIN comp'[L] = CompRows(L)
      /\ T' \in [Layers -> Nat]
      /\ \A L \in Layers : CachedTo(L, Ready(L))'
  BY <1>1, LayerWritesCached
<1>4. K = 1 /\ x \in [0..(K - 1) -> Rows]
  BY <1>0, <1>1 DEF TypeOK, ControlOK
<1>5. \A i \in 0..(K - 1) : AllRows(R) = DueRows(R, pos + i)
  <2> SUFFICES ASSUME NEW i \in 0..(K - 1) PROVE AllRows(R) = DueRows(R, pos + i)
    OBVIOUS
  <2>1. i = 0 /\ pos + i + 1 = pos + K
    BY <1>0, <1>4 DEF TypeOK
  <2>2. R # 0 => T'[lay] = (pos + i + 1) \div R
    BY <1>1, <2>1, LayerWritten
  <2> QED
    BY <2>2 DEF DueRows, AllRows
<1>6. x' = x
  <2>1. \A i \in 0..(K - 1) :
          /\ x[i] # Junk
          /\ ReadsAgree(x[i], pos + i, win'[lay], comp'[lay], DueRows(R, pos + i), R)
    BY <1>1, QueryAgrees
  <2>2. \A i \in 0..(K - 1) : x'[i] = x[i]
    BY <1>2, <1>5, <2>1
  <2> QED
    BY <1>2, <1>4, <2>2
<1> QED
  BY <1>1, <1>3, <1>6, LayerIInv DEF LayerWrites

LEMMA VerifyLayerIInv ==
    ASSUME IInv, VerifyLayer
    PROVE  IInv'
<1> DEFINE R == Ratio[lay]
<1>0. TypeOK /\ ControlOK /\ CacheOK
  BY DEF IInv
<1>1. run = "verify" /\ LayerWrites
  BY DEF VerifyLayer
<1>2. x' = [i \in 0..(K - 1) |->
              IF x[i] # Junk
                 /\ ReadsAgree(x[i], pos + i, win'[lay], comp'[lay], CausalRows(R, pos + i), R)
              THEN x[i] ELSE Junk]
  BY DEF VerifyLayer, Attended
<1>3. /\ win' \in [Layers -> [Positions -> Rows]]
      /\ xin' \in [Layers -> [Positions -> Rows]]
      /\ DOMAIN comp' = Layers /\ \A L \in Layers : DOMAIN comp'[L] = CompRows(L)
      /\ T' \in [Layers -> Nat]
      /\ \A L \in Layers : CachedTo(L, Ready(L))'
  BY <1>1, LayerWritesCached
<1>4. K \in Nat /\ pos \in Nat /\ x \in [0..(K - 1) -> Rows]
  BY <1>0 DEF TypeOK
<1>5. \A i \in 0..(K - 1) : CausalRows(R, pos + i) = DueRows(R, pos + i)
  <2> SUFFICES ASSUME NEW i \in 0..(K - 1) PROVE CausalRows(R, pos + i) = DueRows(R, pos + i)
    OBVIOUS
  <2>1. R # 0 => MinOf((pos + i + 1) \div R, T'[lay]) = (pos + i + 1) \div R
    <3> SUFFICES ASSUME R # 0 PROVE MinOf((pos + i + 1) \div R, T'[lay]) = (pos + i + 1) \div R
      OBVIOUS
    <3>1. T'[lay] = (pos + K) \div R /\ R \in Nat \ {0}
      BY <1>1, LayerWritten
    <3>2. pos + i + 1 \in Nat /\ pos + K \in Nat /\ pos + i + 1 <= pos + K
      BY <1>4
    <3>3. /\ (pos + i + 1) \div R \in Nat /\ (pos + K) \div R \in Nat
          /\ (pos + i + 1) \div R <= (pos + K) \div R
      BY <3>1, <3>2, DivMod, DivMono
    <3> QED
      BY <3>1, <3>3 DEF MinOf
  <2> QED
    BY <2>1 DEF DueRows, CausalRows
<1>6. x' = x
  <2>1. \A i \in 0..(K - 1) :
          /\ x[i] # Junk
          /\ ReadsAgree(x[i], pos + i, win'[lay], comp'[lay], DueRows(R, pos + i), R)
    BY <1>1, QueryAgrees
  <2>2. \A i \in 0..(K - 1) : x'[i] = x[i]
    BY <1>2, <1>5, <2>1
  <2> QED
    BY <1>2, <1>4, <2>2
<1> QED
  BY <1>1, <1>3, <1>6, LayerIInv DEF LayerWrites

-----------------------------------------------------------------------------
(* A pass over the caches starts: the tokens of ids at pos and after are its
   own, the text before pos and the rows computed from it stay. *)

LEMMA PassStarted ==
    ASSUME IInv, run = "idle", pos >= PS, NEW r \in {"decode", "verify"}, NEW n \in Nat \ {0},
           Start(r, pos, n), pos + n <= SeqMax,
           ids' \in [Positions -> Token \cup {Junk}],
           \A p \in 0..(pos - 1) : ids'[p] = ids[p],
           \A p \in pos..(pos + n - 1) : ids'[p] \in Token,
           UNCHANGED <<stage, prompt, win, xin, comp, T, mainx>>,
           r = "verify" /\ stage = "spec" => Tbefore' = T
    PROVE  /\ x' \in [0..(K' - 1) -> Rows]
           /\ \A p \in 0..(pos' + K' - 1) : ids'[p] \in Token
           /\ CacheOK'
<1>0. TypeOK /\ ControlOK /\ TextOK /\ CacheOK
  BY DEF IInv
<1>1. run' = r /\ lay' = 0 /\ pos' = pos /\ K' = n
  BY DEF Start
<1>2. /\ pos \in Nat /\ pos > 0 /\ K = 0 /\ lay = 0
      /\ \A p \in 0..(pos - 1) : ids[p] \in Token
  BY <1>0, Consts DEF TypeOK, ControlOK, TextOK
<1>3. \A p \in 0..(pos + n - 1) : ids'[p] \in Token
  BY <1>2
<1>4. /\ x' \in [0..(K' - 1) -> Rows]
      /\ \A i \in 0..(K' - 1) : x'[i] = Prefix(ids', pos' + i)
  BY <1>2, <1>3, Started
<1>5. \A p \in 0..(pos - 1) : Prefix(ids', p) = Prefix(ids, p)
  <2> TAKE p \in 0..(pos - 1)
  <2>1. p \in Nat /\ \A q \in 0..p : ids'[q] = ids[q]
    BY <1>2
  <2> QED
    BY <2>1, PrefixEq
<1>6. ASSUME NEW L \in Layers
      PROVE  CachedTo(L, pos) /\ CachedTo(L, pos)'
  <2>1. Ready(L) = pos
    BY <1>2, Consts DEF Ready, Layers
  <2>2. CachedTo(L, pos)
    BY <1>0, <1>2, <2>1 DEF CacheOK
  <2>3. ASSUME Ratio[L] # 0, NEW t \in 0..(T[L] - 1)
        PROVE  comp[L][t] = DueRow(ids', Ratio[L], t)
    <3>1. Ratio[L] \in Nat \ {0} /\ pos \div Ratio[L] \in Nat /\ T[L] = pos \div Ratio[L]
      <4>1. Ratio[L] \in Nat \ {0}
        BY <2>3, Consts
      <4> QED
        BY <1>2, <2>2, <4>1, DivMod DEF CachedTo
    <3>2. \A q \in GroupToks(Ratio[L], t) : q \in 0..(pos - 1)
      <4>1. t \in Nat /\ t < pos \div Ratio[L]
        BY <2>3, <3>1
      <4> QED
        BY <1>2, <3>1, <4>1, GroupToksBelow
    <3>3. DueRow(ids', Ratio[L], t) = DueRow(ids, Ratio[L], t)
      BY <1>5, <3>2 DEF DueRow
    <3> QED
      BY <2>2, <2>3, <3>3 DEF CachedTo
  <2> QED
    BY <1>1, <1>5, <2>2, <2>3 DEF CachedTo
<1>7. ASSUME NEW L \in Layers
      PROVE  CachedTo(L, Ready(L))'
  <2>1. Ready(L)' = pos'
    BY <1>1, Consts DEF Ready, Layers
  <2> QED
    BY ONLY <1>6, <1>7, <2>1
<1>8. stage \in {"spec", "done"} => \A p \in 0..(pos - 1) : mainx[p] = Prefix(ids', p)
  BY <1>0, <1>5 DEF CacheOK
<1>9. r = "verify" /\ stage = "spec" =>
        \A L \in Layers : Ratio[L] # 0 => Tbefore'[L] = pos \div Ratio[L]
  BY <1>6 DEF CachedTo
<1> QED
  BY <1>1, <1>3, <1>4, <1>7, <1>8, <1>9 DEF CacheOK

LEMMA DecodeStepIInv ==
    ASSUME IInv, DecodeStep
    PROVE  IInv'
<1>0. TypeOK /\ ControlOK /\ TextOK /\ CacheOK
  BY DEF IInv
<1>1. /\ stage = "ar" /\ run = "idle" /\ pos >= PS /\ Len(gen) < NDEC
      /\ ids' = [ids EXCEPT ![pos] = cur]
      /\ Start("decode", pos, 1)
      /\ UNCHANGED <<stage, prompt, cur, gen, vam, sgen, win, xin, comp, T, mainx, draft, Tbefore>>
  BY DEF DecodeStep, caches, head
<1>2. run' = "decode" /\ lay' = 0 /\ pos' = pos /\ K' = 1
  BY <1>1 DEF Start
<1>3. /\ pos = PS + Len(gen) /\ pos \in Nat /\ pos > 0 /\ pos \in Positions /\ pos + 1 <= SeqMax
      /\ Len(gen) \in Nat /\ cur \in Token
      /\ ids \in [Positions -> Token \cup {Junk}]
      /\ TextEndsAt(gen)
  BY <1>0, <1>1, Consts DEF TypeOK, TextOK, TextEndsAt
<1>4. /\ ids' \in [Positions -> Token \cup {Junk}]
      /\ \A p \in 0..(pos - 1) : ids'[p] = ids[p]
      /\ ids'[pos] = cur
  BY <1>1, <1>3, Consts
<1>5. /\ x' \in [0..(K' - 1) -> Rows]
      /\ \A p \in 0..(pos' + K' - 1) : ids'[p] \in Token
      /\ CacheOK'
  <2>1. \A p \in pos..(pos + 1 - 1) : ids'[p] \in Token
    BY <1>3, <1>4
  <2>2. /\ "decode" \in {"decode", "verify"} /\ 1 \in Nat \ {0} /\ pos + 1 <= SeqMax
        /\ "decode" = "verify" /\ stage = "spec" => Tbefore' = T
    BY <1>3
  <2>3. UNCHANGED <<stage, prompt, win, xin, comp, T, mainx>>
    BY <1>1
  <2>4. run = "idle" /\ pos >= PS /\ Start("decode", pos, 1)
    BY <1>1
  <2> QED
    BY ONLY IInv, <1>4, <2>1, <2>2, <2>3, <2>4, PassStarted
<1>6. TypeOK'
  BY <1>0, <1>1, <1>2, <1>4, <1>5, Consts DEF TypeOK
<1>7. ControlOK'
  BY <1>0, <1>1, <1>2, <1>3 DEF ControlOK
<1>8. TextOK'
  <2>1. \A p \in 0..PS : ids'[p] = prompt'[p]
    <3>1. \A p \in 0..PS : ids[p] = prompt[p]
      BY <1>0 DEF TextOK
    <3>2. pos = PS => cur = prompt[PS]
      BY <1>3 DEF TextEndsAt, TextAt
    <3> QED
      BY <1>1, <1>3, <1>4, <3>1, <3>2, Consts
  <2>2. TextEndsAt(gen)'
    BY <1>1, <1>2, <1>3, <1>4 DEF TextEndsAt, TextAt
  <2> QED
    BY <1>0, <1>1, <1>2, <1>3, <1>4, <1>5, <2>1, <2>2 DEF TextOK
<1>9. OutputOK'
  BY <1>1, OutputSame
<1> QED
  BY <1>5, <1>6, <1>7, <1>8, <1>9 DEF IInv

LEMMA GateVerifyIInv ==
    ASSUME IInv, GateVerify
    PROVE  IInv'
<1>0. TypeOK /\ ControlOK /\ TextOK /\ CacheOK
  BY DEF IInv
<1>1. /\ stage = "gate" /\ run = "idle" /\ pos = PS
      /\ ids' = [p \in Positions |->
                   IF p \in PS..(PS + VK - 1) THEN GateToken(p - PS) ELSE ids[p]]
      /\ Start("verify", PS, VK)
      /\ UNCHANGED <<stage, prompt, cur, gen, vam, sgen, win, xin, comp, T, mainx, draft, Tbefore>>
  BY DEF GateVerify, caches, head
<1>2. run' = "verify" /\ lay' = 0 /\ pos' = pos /\ K' = VK
  BY <1>1 DEF Start
<1>3. VK >= 2 /\ VK \in Nat /\ PS + VK <= SeqMax /\ Len(gen) = NDEC /\ gen \in Seq(Token)
  BY <1>0, <1>1, Consts DEF TypeOK, TextOK
<1>4. \A i \in 0..(VK - 1) : GateToken(i) \in Token
  <2>1. prompt[PS] \in Token
    BY <1>0, Consts DEF TypeOK
  <2>2. \A i \in 1..(VK - 1) : gen[i] \in Token
    BY <1>3, Consts
  <2> QED
    BY <2>1, <2>2, <1>3 DEF GateToken
<1>5. /\ ids' \in [Positions -> Token \cup {Junk}]
      /\ \A p \in 0..(pos - 1) : ids'[p] = ids[p]
      /\ \A i \in 0..(VK - 1) : ids'[PS + i] = GateToken(i)
  <2>1. \A p \in PS..(PS + VK - 1) : p - PS \in 0..(VK - 1)
    BY <1>3, Consts
  <2>2. \A p \in Positions : ids[p] \in Token \cup {Junk}
    BY <1>0 DEF TypeOK
  <2>3. ids' \in [Positions -> Token \cup {Junk}]
    BY <1>1, <1>4, <2>1, <2>2
  <2>4. \A p \in 0..(pos - 1) : ids'[p] = ids[p]
    BY <1>1, <1>3, Consts
  <2>5. \A i \in 0..(VK - 1) : ids'[PS + i] = GateToken(i)
    <3> TAKE i \in 0..(VK - 1)
    <3>1. PS + i \in Positions /\ PS + i \in PS..(PS + VK - 1) /\ (PS + i) - PS = i
      BY <1>3, Consts
    <3> QED
      BY <1>1, <3>1
  <2> QED
    BY <2>3, <2>4, <2>5
<1>6. /\ x' \in [0..(K' - 1) -> Rows]
      /\ \A p \in 0..(pos' + K' - 1) : ids'[p] \in Token
      /\ CacheOK'
  <2>1. \A p \in pos..(pos + VK - 1) : ids'[p] \in Token
    <3> TAKE p \in pos..(pos + VK - 1)
    <3>1. p - PS \in 0..(VK - 1) /\ PS + (p - PS) = p
      BY <1>1, <1>3, Consts
    <3> QED
      BY <1>4, <1>5, <3>1
  <2>2. /\ "verify" \in {"decode", "verify"} /\ VK \in Nat \ {0} /\ pos + VK <= SeqMax
        /\ "verify" = "verify" /\ stage = "spec" => Tbefore' = T
    BY <1>1, <1>3
  <2>3. UNCHANGED <<stage, prompt, win, xin, comp, T, mainx>>
    BY <1>1
  <2>4. run = "idle" /\ pos >= PS /\ Start("verify", pos, VK)
    BY <1>1, Consts
  <2> QED
    BY ONLY IInv, <1>5, <2>1, <2>2, <2>3, <2>4, PassStarted
<1>7. TypeOK'
  BY <1>0, <1>1, <1>2, <1>3, <1>5, <1>6, Consts DEF TypeOK
<1>8. ControlOK'
  BY <1>0, <1>1, <1>2, <1>3 DEF ControlOK
<1>9. TextOK'
  <2>1. \A p \in 0..PS : ids'[p] = prompt'[p]
    <3>1. \A p \in 0..PS : ids[p] = prompt[p]
      BY <1>0 DEF TextOK
    <3>2. ids'[PS] = prompt[PS]
      <4>1. 0 \in 0..(VK - 1) /\ PS + 0 = PS
        BY <1>3, Consts
      <4> QED
        BY <1>5, <4>1 DEF GateToken
    <3> QED
      BY <1>1, <1>5, <3>1, <3>2, Consts
  <2>2. \A i \in 0..(VK - 1) : ids'[PS + i] = GateToken(i)'
    BY <1>1, <1>5 DEF GateToken
  <2> QED
    BY <1>0, <1>1, <1>2, <1>3, <1>6, <2>1, <2>2 DEF TextOK
<1>10. OutputOK'
  BY <1>1, OutputSame
<1> QED
  BY <1>6, <1>7, <1>8, <1>9, <1>10 DEF IInv

LEMMA SpecRoundIInv ==
    ASSUME IInv, SpecRound
    PROVE  IInv'
<1>0. TypeOK /\ ControlOK /\ TextOK /\ CacheOK
  BY DEF IInv
<1>1. /\ stage = "spec" /\ run = "idle" /\ pos >= PS
      /\ Len(sgen) < NGen /\ pos + Block + 1 < SeqMax
      /\ draft' \in [0..(Block - 1) -> Token]
      /\ Tbefore' = T
      /\ ids' = [p \in Positions |->
                   IF p = pos THEN cur
                   ELSE IF p \in (pos + 1)..(pos + Block - 1) THEN draft'[p - pos - 1]
                   ELSE ids[p]]
      /\ Start("verify", pos, Block)
      /\ UNCHANGED <<stage, prompt, cur, gen, vam, sgen, win, xin, comp, T, mainx>>
  BY DEF SpecRound, SpecRoom, Drafts, caches
<1>2. run' = "verify" /\ lay' = 0 /\ pos' = pos /\ K' = Block
  BY <1>1 DEF Start
<1>3. /\ pos = PS + Len(sgen) /\ pos \in Nat /\ pos > 0
      /\ Len(sgen) \in Nat /\ cur \in Token /\ TextEndsAt(sgen)
      /\ \A p \in Positions : ids[p] \in Token \cup {Junk}
  BY <1>0, <1>1, Consts DEF TypeOK, TextOK, TextEndsAt
<1>4. \A i \in 1..(Block - 1) :
        /\ pos + i \in Positions /\ pos + i \in (pos + 1)..(pos + Block - 1) /\ pos + i # pos
        /\ (pos + i) - pos - 1 = i - 1 /\ i - 1 \in 0..(Block - 1)
  BY <1>1, <1>3, Consts
<1>5. /\ ids' \in [Positions -> Token \cup {Junk}]
      /\ \A p \in 0..(pos - 1) : ids'[p] = ids[p]
      /\ ids'[pos] = cur
      /\ \A i \in 1..(Block - 1) : ids'[pos + i] = draft'[i - 1]
  <2>1. \A p \in (pos + 1)..(pos + Block - 1) : p - pos - 1 \in 0..(Block - 1)
    BY <1>3, Consts
  <2>2. \A p \in (pos + 1)..(pos + Block - 1) : draft'[p - pos - 1] \in Token
    BY <1>1, <2>1
  <2>3. ids' \in [Positions -> Token \cup {Junk}]
    BY <1>1, <1>3, <2>2
  <2>4. pos \in Positions /\ \A p \in 0..(pos - 1) : p \in Positions /\ p # pos
                               /\ p \notin (pos + 1)..(pos + Block - 1)
    BY <1>1, <1>3, Consts
  <2>5. (\A p \in 0..(pos - 1) : ids'[p] = ids[p]) /\ ids'[pos] = cur
    BY <1>1, <2>4
  <2>6. \A i \in 1..(Block - 1) : ids'[pos + i] = draft'[i - 1]
    BY <1>1, <1>4
  <2> QED
    BY <2>3, <2>5, <2>6
<1>6. /\ x' \in [0..(K' - 1) -> Rows]
      /\ \A p \in 0..(pos' + K' - 1) : ids'[p] \in Token
      /\ CacheOK'
  <2>1. \A p \in pos..(pos + Block - 1) : ids'[p] \in Token
    <3> TAKE p \in pos..(pos + Block - 1)
    <3>1. CASE p = pos
      BY <1>3, <1>5, <3>1
    <3>2. CASE p # pos
      <4>1. p - pos \in 1..(Block - 1) /\ pos + (p - pos) = p
        BY <1>3, <3>2, Consts
      <4>2. ids'[p] = draft'[p - pos - 1] /\ p - pos - 1 \in 0..(Block - 1)
        BY <1>4, <1>5, <4>1
      <4> QED
        BY <1>1, <4>2
    <3> QED
      BY <3>1, <3>2
  <2>2. /\ "verify" \in {"decode", "verify"} /\ Block \in Nat \ {0} /\ pos + Block <= SeqMax
        /\ "verify" = "verify" /\ stage = "spec" => Tbefore' = T
    BY <1>1, <1>3, Consts
  <2>3. UNCHANGED <<stage, prompt, win, xin, comp, T, mainx>>
    BY <1>1
  <2>4. run = "idle" /\ pos >= PS /\ Start("verify", pos, Block)
    BY <1>1
  <2> QED
    BY ONLY IInv, <1>5, <2>1, <2>2, <2>3, <2>4, PassStarted
<1>7. TypeOK'
  BY <1>0, <1>1, <1>2, <1>3, <1>5, <1>6, Consts DEF TypeOK
<1>8. ControlOK'
  BY <1>0, <1>1, <1>2, <1>3, Consts DEF ControlOK
<1>9. TextOK'
  <2>1. \A p \in 0..PS : ids'[p] = prompt'[p]
    <3>1. \A p \in 0..PS : ids[p] = prompt[p]
      BY <1>0 DEF TextOK
    <3>2. pos = PS => cur = prompt[PS]
      BY <1>3 DEF TextEndsAt, TextAt
    <3>3. prompt' = prompt /\ \A p \in 0..PS : p \in 0..(pos - 1) \/ (p = pos /\ p = PS)
      BY <1>1, <1>3, Consts
    <3> QED
      BY ONLY <1>5, <3>1, <3>2, <3>3
  <2>2. TextEndsAt(sgen)'
    BY <1>1, <1>2, <1>3, <1>5 DEF TextEndsAt, TextAt
  <2>3. /\ stage' = "spec" /\ run' = "verify" /\ pos' # 0 /\ Len(gen') = NDEC
        /\ Len(sgen') < NGen + Block /\ Len(vam') <= VK
    BY <1>0, <1>1, <1>2, <1>3 DEF TextOK
  <2>4. /\ \A p \in 0..(pos' + K' - 1) : ids'[p] \in Token
        /\ ids'[pos'] = cur' /\ \A i \in 1..(Block - 1) : ids'[pos' + i] = draft'[i - 1]
    BY <1>1, <1>2, <1>5, <1>6
  <2> QED
    BY ONLY <2>1, <2>2, <2>3, <2>4 DEF TextOK
<1>10. OutputOK'
  BY <1>1, OutputSame
<1> QED
  BY <1>6, <1>7, <1>8, <1>9, <1>10 DEF IInv

-----------------------------------------------------------------------------
(* The output grows by the target's tokens. *)

\* A greedy output stays greedy when every token added is the target's after
\* the buffer h that holds the text.
LEMMA GreedyExtends ==
    ASSUME NEW pr, NEW o \in Seq(Token), NEW o2 \in Seq(Token), NEW h,
           Greedy!IsGreedy(pr, o), Len(o) <= Len(o2),
           \A k \in 1..Len(o) : o2[k] = o[k],
           \A q \in 0..(PS + Len(o2) - 1) : h[q] = IF q <= PS THEN pr[q] ELSE o2[q - PS],
           \A k \in (Len(o) + 1)..Len(o2) : o2[k] = Target(Prefix(h, PS + k - 1))
    PROVE  Greedy!IsGreedy(pr, o2)
<1>1. Len(o) \in Nat /\ Len(o2) \in Nat
  OBVIOUS
<1>2. ASSUME NEW n \in 1..Len(o2)
      PROVE  o2[n] = Target(Greedy!HistoryBefore(pr, o2, n))
  <2>1. CASE n <= Len(o)
    <3>1. o[n] = Target(Greedy!HistoryBefore(pr, o, n))
      BY <1>1, <2>1 DEF Greedy!IsGreedy
    <3>2. \A q \in 0..(PS + n - 1) : ~(q <= PS) => q - PS \in 1..Len(o)
      BY <1>1, <2>1, Consts
    <3>3. Greedy!HistoryBefore(pr, o, n) = Greedy!HistoryBefore(pr, o2, n)
      BY <3>2 DEF Greedy!HistoryBefore
    <3> QED
      BY <1>1, <2>1, <3>1, <3>3
  <2>2. CASE ~(n <= Len(o))
    <3>1. \A q \in 0..(PS + n - 1) : h[q] = IF q <= PS THEN pr[q] ELSE o2[q - PS]
      BY <1>1, Consts
    <3>2. Greedy!HistoryBefore(pr, o2, n) = Prefix(h, PS + n - 1)
      BY ONLY <3>1 DEF Greedy!HistoryBefore, Prefix
    <3>3. n \in (Len(o) + 1)..Len(o2)
      BY <1>1, <2>2
    <3> QED
      BY <3>2, <3>3
  <2> QED
    BY <2>1, <2>2
<1> QED
  BY <1>2 DEF Greedy!IsGreedy

\* A pass that has run through the layers gives the target's token after each
\* of its positions.
LEMMA ArgmaxIsTarget ==
    ASSUME IInv, NEW i \in 0..(K - 1), NEW tok, tok \in Argmax(x[i])
    PROVE  tok = Target(Prefix(ids, pos + i)) /\ tok \in Token
<1>0. TypeOK /\ ControlOK /\ TextOK /\ CacheOK
  BY DEF IInv
<1>1. /\ pos + i \in Positions /\ \A q \in 0..(pos + i) : ids[q] \in Token
      /\ x[i] = Prefix(ids, pos + i)
  <2>1. pos \in Nat /\ K \in Nat /\ pos + K <= SeqMax
    BY <1>0 DEF TypeOK, ControlOK
  <2>2. \A q \in 0..(pos + i) : q \in 0..(pos + K - 1)
    BY <2>1
  <2>3. \A q \in 0..(pos + i) : ids[q] \in Token
    BY <1>0, <2>2 DEF TextOK
  <2>4. pos + i \in Positions
    BY <2>1, Consts
  <2> QED
    BY <1>0, <2>3, <2>4 DEF CacheOK
<1>2. x[i] \in Histories
  BY <1>1, PrefixHist
<1> QED
  BY <1>1, <1>2, DriverAssumption DEF Argmax

\* A finished pass leaves the first n positions in the caches, once the counts
\* say so.
LEMMA PassFinished ==
    ASSUME IInv, run # "idle", lay = NLayers, NEW n \in Nat, PS <= n, n <= pos + K, Finish(n),
           UNCHANGED <<ids, win, xin, comp>>,
           \A L \in Layers : Ratio[L] # 0 => T'[L] = n \div Ratio[L],
           stage' \in {"spec", "done"} => \A p \in 0..(n - 1) : mainx'[p] = Prefix(ids, p)
    PROVE  CacheOK'
<1>0. TypeOK /\ ControlOK /\ CacheOK
  BY DEF IInv
<1>1. run' = "idle" /\ lay' = 0 /\ pos' = n /\ K' = 0
  BY DEF Finish
<1>2. pos \in Nat /\ K \in Nat
  BY <1>0 DEF TypeOK
<1>3. ASSUME NEW L \in Layers
      PROVE  CachedTo(L, Ready(L))'
  <2>1. Ready(L) = pos + K
    BY Consts DEF Ready, Layers
  <2>2. CachedTo(L, pos + K)
    BY <1>0, <2>1 DEF CacheOK
  <2>3. ASSUME Ratio[L] # 0
        PROVE  \A t \in 0..(T'[L] - 1) : t \in 0..(T[L] - 1)
    <3>1. Ratio[L] \in Nat \ {0} /\ pos + K \in Nat
      BY <1>2, <2>3, Consts
    <3>2. T'[L] = n \div Ratio[L] /\ T[L] = (pos + K) \div Ratio[L]
      BY <2>2, <2>3 DEF CachedTo
    <3>3. n \div Ratio[L] \in Nat /\ (pos + K) \div Ratio[L] \in Nat
          /\ n \div Ratio[L] <= (pos + K) \div Ratio[L]
      BY <3>1, DivMod, DivMono
    <3> QED
      BY <3>2, <3>3
  <2>4. CachedTo(L, n)'
    BY <1>1, <1>2, <2>2, <2>3 DEF CachedTo
  <2>5. Ready(L)' = n
    BY <1>1, Consts DEF Ready, Layers
  <2>6. Ready(L)' = n'
    BY <2>5
  <2> QED
    BY ONLY <2>4, <2>6
<1> QED
  BY <1>1, <1>3 DEF CacheOK

LEMMA PrefillDoneIInv ==
    ASSUME IInv, PrefillDone
    PROVE  IInv'
<1>0. TypeOK /\ ControlOK /\ TextOK /\ CacheOK
  BY DEF IInv
<1>1. /\ run = "prefill" /\ lay = NLayers /\ Finish(PS) /\ cur' = prompt[PS]
      /\ mainx' = IF stage = "spec" THEN WriteRows(mainx) ELSE mainx
      /\ UNCHANGED <<stage, prompt, ids, gen, vam, sgen, win, xin, comp, T, draft, Tbefore>>
  BY DEF PrefillDone, caches
<1>2. run' = "idle" /\ lay' = 0 /\ pos' = PS /\ K' = 0 /\ x' = << >>
  BY <1>1 DEF Finish
<1>3. stage # "done" /\ pos = 0 /\ K = PS /\ pos + K = PS
  BY <1>0, <1>1, Consts DEF ControlOK
<1>4. mainx' \in [Positions -> Rows] /\ (stage = "spec" => \A p \in 0..(PS - 1) : mainx'[p] = Prefix(ids, p))
  <2>1. mainx \in [Positions -> Rows] /\ \A p \in 0..(pos - 1) : mainx[p] = Prefix(ids, p)
    BY <1>0, <1>3 DEF TypeOK
  <2>2. /\ WriteRows(mainx) \in [Positions -> Rows]
        /\ \A p \in 0..(pos + K - 1) : WriteRows(mainx)[p] = Prefix(ids, p)
    BY <2>1, RowsExtended
  <2>3. CASE stage = "spec"
    <3>1. mainx' = WriteRows(mainx) /\ pos + K - 1 = PS - 1
      BY <1>1, <1>3, <2>3, Consts
    <3> QED
      BY ONLY <2>2, <3>1
  <2>4. CASE stage # "spec"
    BY <1>1, <2>1, <2>4
  <2> QED
    BY <2>3, <2>4
<1>5. TypeOK'
  <2>1. prompt[PS] \in Token
    BY <1>0, Consts DEF TypeOK
  <2>2. x' \in [0..(K' - 1) -> Rows]
    BY <1>2
  <2> QED
    BY <1>0, <1>1, <1>2, <1>4, <2>1, <2>2, Consts DEF TypeOK
<1>6. ControlOK'
  BY <1>0, <1>1, <1>2, <1>3, Consts DEF ControlOK
<1>7. TextOK'
  <2>1. \A p \in 0..PS : ids[p] = prompt[p] /\ prompt[p] \in Token
    BY <1>0 DEF TextOK, TypeOK
  <2>a. (stage = "ar" => gen = << >>) /\ (stage = "spec" => sgen = << >>)
    BY <1>0, <1>3 DEF TextOK
  <2>b. /\ ids' = ids /\ prompt' = prompt /\ gen' = gen /\ sgen' = sgen
        /\ pos' = PS /\ cur' = prompt[PS] /\ PS \in Nat /\ Len(<< >>) = 0
    BY <1>1, <1>2, Consts
  <2>2. stage = "ar" => TextEndsAt(gen)'
    BY ONLY <2>1, <2>a, <2>b DEF TextEndsAt, TextAt
  <2>3. stage = "spec" => TextEndsAt(sgen)'
    BY ONLY <2>1, <2>a, <2>b DEF TextEndsAt, TextAt
  <2> QED
    BY <1>0, <1>1, <1>2, <1>3, <2>1, <2>2, <2>3, Consts DEF TextOK
<1>8. CacheOK'
  <2>1. ASSUME NEW L \in Layers, Ratio[L] # 0
        PROVE  T'[L] = PS \div Ratio[L]
    <3>1. Ready(L) = PS
      BY <1>1, <1>3, Consts DEF Ready, Layers
    <3>2. CachedTo(L, PS)
      BY <1>0, <1>1, <3>1 DEF CacheOK
    <3> QED
      BY <1>1, <2>1, <3>2 DEF CachedTo
  <2>2. stage' \in {"spec", "done"} => \A p \in 0..(PS - 1) : mainx'[p] = Prefix(ids, p)
    BY <1>1, <1>3, <1>4
  <2>3. run # "idle" /\ lay = NLayers /\ PS \in Nat /\ PS <= PS /\ PS <= pos + K
    BY <1>1, <1>3, Consts
  <2> QED
    BY <1>1, <2>1, <2>2, <2>3, PassFinished
<1>9. OutputOK'
  BY <1>1, OutputSame
<1> QED
  BY <1>5, <1>6, <1>7, <1>8, <1>9 DEF IInv

LEMMA DecodeHeadIInv ==
    ASSUME IInv, DecodeHead
    PROVE  IInv'
<1>0. TypeOK /\ ControlOK /\ TextOK /\ CacheOK /\ OutputOK
  BY DEF IInv
<1> PICK am \in Argmax(x[0]) : gen' = Append(gen, am) /\ cur' = am
  BY DEF DecodeHead
<1>1. /\ run = "decode" /\ lay = NLayers /\ Finish(pos + 1)
      /\ UNCHANGED <<stage, prompt, ids, vam, sgen, win, xin, comp, T, mainx, draft, Tbefore>>
  BY DEF DecodeHead, caches, head
<1>2. run' = "idle" /\ lay' = 0 /\ pos' = pos + 1 /\ K' = 0 /\ x' = << >>
  BY <1>1 DEF Finish
<1>3. /\ stage = "ar" /\ pos >= PS /\ K = 1 /\ Len(gen) < NDEC /\ TextEndsAt(gen)
      /\ pos \in Nat /\ pos > 0 /\ gen \in Seq(Token) /\ Len(gen) \in Nat
      /\ ids[pos] = cur /\ pos + 1 <= SeqMax /\ vam = << >> /\ sgen = << >>
  BY <1>0, <1>1, Consts DEF TypeOK, ControlOK, TextOK
<1>4. am = Target(Prefix(ids, pos)) /\ am \in Token
  <2>1. 0 \in 0..(K - 1) /\ pos + 0 = pos
    BY <1>3
  <2> QED
    BY <2>1, ArgmaxIsTarget
<1>5. /\ gen' \in Seq(Token) /\ Len(gen') = Len(gen) + 1 /\ gen'[Len(gen) + 1] = am
      /\ \A k \in 1..Len(gen) : gen'[k] = gen[k]
  BY <1>3, <1>4
<1>6. /\ pos = PS + Len(gen)
      /\ \A q \in 0..pos : ids[q] = IF q <= PS THEN prompt[q] ELSE gen[q - PS]
  BY <1>3 DEF TextEndsAt, TextAt
<1>7. \A q \in 0..pos : ids[q] = IF q <= PS THEN prompt[q] ELSE gen'[q - PS]
  <2> TAKE q \in 0..pos
  <2>1. ~(q <= PS) => q - PS \in 1..Len(gen)
    BY <1>3, <1>6, Consts
  <2> QED
    BY <1>5, <1>6, <2>1
<1>8. TypeOK'
  <2>1. x' \in [0..(K' - 1) -> Rows]
    BY <1>2
  <2>2. /\ run' = "idle" /\ lay' \in 0..NLayers /\ pos' \in Nat /\ K' \in Nat /\ cur' \in Token
    BY <1>2, <1>3, <1>4, Consts
  <2> QED
    BY ONLY <1>0, <1>1, <1>5, <2>1, <2>2 DEF TypeOK
<1>9. ControlOK'
  BY <1>0, <1>1, <1>2, <1>3, Consts DEF ControlOK
<1>10. TextOK'
  <2>1. TextEndsAt(gen)'
    <3>1. pos' = PS + Len(gen') /\ ~(pos' <= PS) /\ pos' - PS = Len(gen) + 1
      <4>1. pos' = pos + 1 /\ pos = PS + Len(gen) /\ Len(gen') = Len(gen) + 1
        BY <1>2, <1>5, <1>6
      <4>2. PS \in Nat /\ Len(gen) \in Nat
        BY <1>3, Consts
      <4> QED
        BY ONLY <4>1, <4>2
    <3>2. cur' = gen'[pos' - PS]
      BY <1>5, <3>1
    <3>3. \A p \in 0..(pos' - 1) : ids'[p] = IF p <= PS THEN prompt'[p] ELSE gen'[p - PS]
      <4>1. ids' = ids /\ prompt' = prompt /\ pos' - 1 = pos
        BY <1>1, <1>2, <1>3
      <4> QED
        BY ONLY <1>7, <4>1
    <3> QED
      BY <3>1, <3>2, <3>3 DEF TextEndsAt, TextAt
  <2>2. \A p \in 0..(pos' + K' - 1) : ids'[p] \in Token
    BY <1>0, <1>1, <1>2, <1>3 DEF TextOK
  <2>3. /\ \A p \in 0..PS : ids'[p] = prompt'[p]
        /\ stage' = "ar" /\ run' = "idle" /\ pos' # 0 /\ Len(gen') <= NDEC
        /\ vam' = << >> /\ sgen' = << >> /\ Len(sgen') < NGen + Block /\ Len(vam') <= VK
    BY <1>0, <1>1, <1>2, <1>3, <1>5, Consts DEF TextOK
  <2> QED
    BY ONLY <2>1, <2>2, <2>3 DEF TextOK
<1>11. CacheOK'
  <2>1. ASSUME NEW L \in Layers, Ratio[L] # 0
        PROVE  T'[L] = (pos + 1) \div Ratio[L]
    <3>1. Ready(L) = pos + 1
      BY <1>1, <1>3, Consts DEF Ready, Layers
    <3>2. CachedTo(L, pos + 1)
      BY <1>0, <1>1, <3>1 DEF CacheOK
    <3> QED
      BY <1>1, <2>1, <3>2 DEF CachedTo
  <2>2. stage' \notin {"spec", "done"}
    BY <1>1, <1>3
  <2>3. run # "idle" /\ lay = NLayers /\ pos + 1 \in Nat /\ PS <= pos + 1 /\ pos + 1 <= pos + K
    BY <1>1, <1>3, Consts
  <2> QED
    BY <1>1, <2>1, <2>2, <2>3, PassFinished
<1>12. OutputOK'
  <2>1. Greedy!IsGreedy(prompt, gen')
    <3>1. Greedy!IsGreedy(prompt, gen) /\ Len(gen) <= Len(gen')
      BY <1>0, <1>3, <1>5 DEF OutputOK
    <3>2. \A q \in 0..(PS + Len(gen') - 1) : ids[q] = IF q <= PS THEN prompt[q] ELSE gen'[q - PS]
      BY <1>3, <1>5, <1>6, <1>7, Consts
    <3>3. \A k \in (Len(gen) + 1)..Len(gen') : gen'[k] = Target(Prefix(ids, PS + k - 1))
      <4> TAKE k \in (Len(gen) + 1)..Len(gen')
      <4>1. k = Len(gen) + 1 /\ PS + k - 1 = pos
        BY <1>3, <1>5, <1>6, Consts
      <4> QED
        BY <1>4, <1>5, <4>1
    <3> QED
      BY <1>3, <1>5, <3>1, <3>2, <3>3, GreedyExtends
  <2>2. Greedy!IsGreedy(prompt, gen)'
    BY <1>1, <2>1 DEF Greedy!IsGreedy, Greedy!HistoryBefore
  <2>3. Greedy!IsGreedy(prompt, sgen)' /\ GateMatches'
    BY <1>1, <1>3 DEF Greedy!IsGreedy, GateMatches
  <2> QED
    BY <2>2, <2>3 DEF OutputOK
<1> QED
  BY <1>8, <1>9, <1>10, <1>11, <1>12 DEF IInv

LEMMA DecodeEndIInv ==
    ASSUME IInv, DecodeEnd
    PROVE  IInv'
<1>0. TypeOK /\ ControlOK /\ TextOK /\ CacheOK /\ OutputOK
  BY DEF IInv
<1>1. /\ stage = "ar" /\ run = "idle" /\ pos >= PS /\ Len(gen) >= NDEC
      /\ stage' = (IF VK >= 2 THEN "gate" ELSE "spec") /\ Finish(0)
      /\ UNCHANGED <<prompt, ids, cur, gen, vam, sgen, win, xin, comp, T, mainx, draft, Tbefore>>
  BY DEF DecodeEnd, text, caches, head
<1>2. run' = "idle" /\ lay' = 0 /\ pos' = 0 /\ K' = 0 /\ x' = << >>
  BY <1>1 DEF Finish
<1>3. Len(gen) = NDEC /\ vam = << >> /\ sgen = << >> /\ \A p \in 0..PS : ids[p] = prompt[p]
  BY <1>0, <1>1, Consts DEF TypeOK, TextOK
<1>4. TypeOK'
  <2>1. x' \in [0..(K' - 1) -> Rows]
    BY <1>2
  <2> QED
    BY <1>0, <1>1, <1>2, <2>1, Consts DEF TypeOK
<1>5. ControlOK'
  BY <1>0, <1>1, <1>2, Consts DEF ControlOK
<1>6. TextOK'
  BY <1>1, <1>2, <1>3, Consts DEF TextOK
<1>7. CacheOK'
  BY <1>2 DEF CacheOK
<1>8. OutputOK'
  BY <1>1, OutputSame
<1> QED
  BY <1>4, <1>5, <1>6, <1>7, <1>8 DEF IInv

LEMMA GateHeadIInv ==
    ASSUME IInv, GateHead
    PROVE  IInv'
<1>0. TypeOK /\ ControlOK /\ TextOK /\ CacheOK /\ OutputOK
  BY DEF IInv
<1> PICK am \in [1..VK -> Token] :
           (\A i \in 1..VK : am[i] \in Argmax(x[i - 1])) /\ vam' = am
  BY DEF GateHead
<1>1. /\ stage = "gate" /\ run = "verify" /\ lay = NLayers /\ stage' = "spec" /\ Finish(0)
      /\ UNCHANGED <<prompt, ids, cur, gen, sgen, win, xin, comp, T, mainx, draft, Tbefore>>
  BY DEF GateHead, caches, head
<1>2. run' = "idle" /\ lay' = 0 /\ pos' = 0 /\ K' = 0 /\ x' = << >>
  BY <1>1 DEF Finish
<1>3. /\ Len(gen) = NDEC /\ gen \in Seq(Token) /\ sgen = << >> /\ pos = PS /\ K = VK
      /\ \A p \in 0..PS : ids[p] = prompt[p]
      /\ \A i \in 0..(VK - 1) : ids[PS + i] = GateToken(i)
  BY <1>0, <1>1, Consts DEF TypeOK, TextOK, ControlOK
<1>4. vam' \in Seq(Token) /\ Len(vam') = VK
  BY Consts
<1>5. TypeOK'
  <2>1. x' \in [0..(K' - 1) -> Rows]
    BY <1>2
  <2> QED
    BY <1>0, <1>1, <1>2, <1>4, <2>1, Consts DEF TypeOK
<1>6. ControlOK'
  BY <1>0, <1>1, <1>2, Consts DEF ControlOK
<1>7. TextOK'
  BY <1>1, <1>2, <1>3, <1>4, Consts DEF TextOK
<1>8. CacheOK'
  BY <1>2 DEF CacheOK
<1>9. ASSUME NEW i \in 1..VK
      PROVE  am[i] = gen[i]
  <2>1. i - 1 \in 0..(K - 1) /\ am[i] \in Argmax(x[i - 1]) /\ pos + (i - 1) = PS + i - 1
    BY <1>3, Consts
  <2>2. am[i] = Target(Prefix(ids, PS + i - 1))
    BY <2>1, ArgmaxIsTarget
  <2>3. gen[i] = Target(Greedy!HistoryBefore(prompt, gen, i))
    <3>1. Greedy!IsGreedy(prompt, gen) /\ i \in 1..Len(gen)
      BY <1>0, <1>3, Consts DEF OutputOK
    <3> QED
      BY <3>1 DEF Greedy!IsGreedy
  <2>4. \A q \in 0..(PS + i - 1) : ids[q] = IF q <= PS THEN prompt[q] ELSE gen[q - PS]
    <3> TAKE q \in 0..(PS + i - 1)
    <3>1. CASE q <= PS
      BY <1>3, <3>1
    <3>2. CASE ~(q <= PS)
      <4>1. q - PS \in 0..(VK - 1) /\ q - PS # 0 /\ PS + (q - PS) = q
        BY <3>2, Consts
      <4> QED
        BY <1>3, <3>2, <4>1 DEF GateToken
    <3> QED
      BY <3>1, <3>2
  <2>5. Greedy!HistoryBefore(prompt, gen, i) = Prefix(ids, PS + i - 1)
    BY ONLY <2>4 DEF Greedy!HistoryBefore, Prefix
  <2> QED
    BY <2>2, <2>3, <2>5
<1>10. OutputOK'
  <2>1. GateMatches'
    BY <1>1, <1>9 DEF GateMatches
  <2>2. Greedy!IsGreedy(prompt, gen)' /\ Greedy!IsGreedy(prompt, sgen)'
    BY <1>0, <1>1 DEF OutputOK, Greedy!IsGreedy, Greedy!HistoryBefore
  <2> QED
    BY <2>1, <2>2 DEF OutputOK
<1> QED
  BY <1>5, <1>6, <1>7, <1>8, <1>10 DEF IInv

LEMMA SpecEndIInv ==
    ASSUME IInv, SpecEnd
    PROVE  IInv'
<1>0. TypeOK /\ ControlOK /\ TextOK /\ CacheOK /\ OutputOK
  BY DEF IInv
<1>1. /\ stage = "spec" /\ run = "idle" /\ pos >= PS /\ stage' = "done"
      /\ UNCHANGED <<run, lay, pos, K, x, prompt, ids, cur, gen, vam, sgen, win, xin, comp, T,
                     mainx, draft, Tbefore>>
  BY DEF SpecEnd, text, caches, head
<1>2. TypeOK'
  BY <1>0, <1>1 DEF TypeOK
<1>3. ControlOK'
  BY <1>0, <1>1 DEF ControlOK
<1>4. TextOK'
  <2>1. /\ pos = PS + Len(sgen) /\ Len(sgen) \in Nat
        /\ ~(Len(sgen) < NGen /\ pos + Block + 1 < SeqMax)
    BY <1>0, <1>1, Consts DEF SpecEnd, SpecRoom, TypeOK, TextOK, TextEndsAt
  <2>2. Len(sgen) >= NGen
    BY <2>1, Consts
  <2> QED
    BY <1>0, <1>1, <2>2 DEF TextOK, TextEndsAt, TextAt, GateToken
<1>5. CacheOK'
  <2>1. \A L \in Layers : CachedTo(L, Ready(L)) <=> CachedTo(L, Ready(L))'
    BY <1>1 DEF CachedTo, Ready
  <2> QED
    BY <1>0, <1>1, <2>1 DEF CacheOK
<1>6. OutputOK'
  BY <1>1, OutputSame
<1> QED
  BY <1>2, <1>3, <1>4, <1>5, <1>6 DEF IInv

LEMMA AcceptIInv ==
    ASSUME IInv, Accept
    PROVE  IInv'
<1>0. TypeOK /\ ControlOK /\ TextOK /\ CacheOK /\ OutputOK
  BY DEF IInv
<1> PICK tam \in [0..(Block - 1) -> Token] :
           LET acc == Accepted(draft, tam)
               e == Emission(tam, acc)
           IN  /\ \A i \in 0..(Block - 1) : tam[i] \in Argmax(x[i])
               /\ sgen' = sgen \o e.out
               /\ mainx' = Taps(acc)
               /\ T' = [L \in Layers |-> IF Ratio[L] = 0 THEN T[L] ELSE Kept(L, acc)]
               /\ cur' = e.cur
               /\ Finish(pos + e.n)
  BY DEF Accept
<1> DEFINE acc == Accepted(draft, tam)
           out == [i \in 1..(acc + 1) |-> IF i <= acc THEN draft[i - 1] ELSE tam[acc]]
           m == Len(sgen)
<1>1. /\ \A i \in 0..(Block - 1) : tam[i] \in Argmax(x[i])
      /\ sgen' = sgen \o out /\ mainx' = Taps(acc) /\ cur' = tam[acc] /\ Finish(pos + acc + 1)
      /\ T' = [L \in Layers |-> IF Ratio[L] = 0 THEN T[L] ELSE Kept(L, acc)]
  <2>1. acc \in Nat
    BY AcceptedMatches, Consts
  <2> HIDE DEF acc
  <2>2. acc + 1 \in Nat /\ pos \in Nat /\ pos + (acc + 1) = pos + acc + 1
    BY <1>0, <2>1 DEF TypeOK
  <2>3. Emission(tam, acc).out = out /\ Emission(tam, acc).n = acc + 1
        /\ Emission(tam, acc).cur = tam[acc]
    BY DEF Emission
  <2>4. /\ \A i \in 0..(Block - 1) : tam[i] \in Argmax(x[i])
        /\ sgen' = sgen \o Emission(tam, acc).out
        /\ mainx' = Taps(acc)
        /\ T' = [L \in Layers |-> IF Ratio[L] = 0 THEN T[L] ELSE Kept(L, acc)]
        /\ cur' = Emission(tam, acc).cur
        /\ Finish(pos + Emission(tam, acc).n)
    BY DEF acc
  <2> QED
    BY <2>2, <2>3, <2>4
<1>2. /\ stage = "spec" /\ run = "verify" /\ lay = NLayers /\ draft' = << >>
      /\ UNCHANGED <<stage, prompt, ids, gen, vam, win, xin, comp, Tbefore>>
  BY DEF Accept
<1>3. acc \in 0..(Block - 1) /\ \A i \in 0..(acc - 1) : draft[i] = tam[i]
  BY AcceptedMatches
<1>4. /\ pos >= PS /\ pos > 0 /\ pos \in Nat /\ K = Block /\ pos + Block <= SeqMax
      /\ m \in Nat /\ m < NGen /\ sgen \in Seq(Token) /\ draft \in [0..(Block - 1) -> Token]
      /\ TextEndsAt(sgen) /\ pos = PS + m
      /\ ids[pos] = cur /\ \A i \in 1..(Block - 1) : ids[pos + i] = draft[i - 1]
  BY <1>0, <1>2, Consts DEF TypeOK, ControlOK, TextOK, TextEndsAt
<1> HIDE DEF acc
<1>5. run' = "idle" /\ lay' = 0 /\ pos' = pos + acc + 1 /\ K' = 0 /\ x' = << >>
  BY <1>1 DEF Finish
<1>6. /\ \A j \in 1..(acc + 1) : out[j] = tam[j - 1] /\ out[j] \in Token
      /\ \A j \in 1..acc : out[j] = draft[j - 1]
  <2>1. \A j \in 1..(acc + 1) : j - 1 \in 0..(Block - 1) /\ (j <= acc => j - 1 \in 0..(acc - 1))
                                /\ (~(j <= acc) => j - 1 = acc)
    BY <1>3, Consts
  <2>2. tam[acc] \in Token /\ \A j \in 1..(acc + 1) : tam[j - 1] \in Token
    BY <1>3, <2>1
  <2>3. \A j \in 1..(acc + 1) : out[j] = tam[j - 1]
    BY <1>3, <2>1
  <2> QED
    BY <1>3, <2>1, <2>2, <2>3
<1>7. /\ sgen' \in Seq(Token) /\ Len(sgen') = m + acc + 1
      /\ \A k \in 1..m : sgen'[k] = sgen[k]
      /\ \A j \in 1..(acc + 1) : sgen'[m + j] = out[j]
  <2>1. out \in Seq(Token) /\ Len(out) = acc + 1
    <3>1. acc + 1 \in Nat /\ out \in [1..(acc + 1) -> Token]
      BY <1>3, <1>6
    <3> HIDE DEF out
    <3> QED
      BY <3>1
  <2> HIDE DEF out
  <2>2. /\ sgen' \in Seq(Token) /\ Len(sgen') = Len(sgen) + Len(out)
        /\ \A i \in 1..(Len(sgen) + Len(out)) :
             sgen'[i] = IF i <= Len(sgen) THEN sgen[i] ELSE out[i - Len(sgen)]
    <3>1. sgen \in Seq(Token) /\ sgen' = sgen \o out
      BY <1>1, <1>4
    <3> QED
      BY ONLY <2>1, <3>1, ConcatProperties
  <2>3. m \in Nat /\ m = Len(sgen) /\ acc \in Nat
    BY <1>3, <1>4
  <2> HIDE DEF m
  <2>4. /\ \A k \in 1..m : k \in 1..(m + acc + 1) /\ k <= m
        /\ \A j \in 1..(acc + 1) : m + j \in 1..(m + acc + 1) /\ ~(m + j <= m) /\ (m + j) - m = j
        /\ m + (acc + 1) = m + acc + 1
    BY ONLY <2>3
  <2> QED
    BY ONLY <2>1, <2>2, <2>3, <2>4
<1> HIDE DEF out
<1>8. \A p \in 0..(pos + acc) : ids[p] = IF p <= PS THEN prompt[p] ELSE sgen'[p - PS]
  <2> TAKE p \in 0..(pos + acc)
  <2>1. \A q \in 0..pos : ids[q] = IF q <= PS THEN prompt[q] ELSE sgen[q - PS]
    BY <1>4 DEF TextEndsAt, TextAt
  <2>2. CASE p <= pos
    <3>1. p \in 0..pos /\ (~(p <= PS) => p - PS \in 1..m)
      BY <1>3, <1>4, <2>2, Consts
    <3> QED
      BY <1>7, <2>1, <3>1
  <2>3. CASE ~(p <= pos)
    <3>1. p - pos \in 1..acc /\ p - pos \in 1..(Block - 1) /\ p - pos \in 1..(acc + 1)
          /\ pos + (p - pos) = p /\ p - PS = m + (p - pos) /\ ~(p <= PS)
      BY <1>3, <1>4, <2>3, Consts
    <3>2. ids[p] = draft[p - pos - 1] /\ out[p - pos] = draft[p - pos - 1]
      BY <1>4, <1>6, <3>1
    <3>3. sgen'[p - PS] = out[p - pos]
      BY <1>7, <3>1
    <3> QED
      BY <3>1, <3>2, <3>3
  <2> QED
    BY <2>2, <2>3
<1>9. /\ mainx' \in [Positions -> Rows]
      /\ \A p \in 0..(pos + acc) : mainx'[p] = Prefix(ids, p)
  <2>1. /\ mainx \in [Positions -> Rows] /\ x \in [0..(K - 1) -> Rows]
        /\ \A i \in 0..(K - 1) : x[i] = Prefix(ids, pos + i)
        /\ \A p \in 0..(pos - 1) : mainx[p] = Prefix(ids, p)
    BY <1>0, <1>2 DEF TypeOK, CacheOK
  <2>2. \A p \in pos..(pos + acc) : p - pos \in 0..(K - 1) /\ pos + (p - pos) = p
    BY <1>3, <1>4, Consts
  <2>3. \A p \in 0..(pos + acc) : p \in Positions /\ (p \in 0..(pos - 1) \/ p \in pos..(pos + acc))
                                  /\ (p \in 0..(pos - 1) => p \notin pos..(pos + acc))
    BY <1>3, <1>4, Consts
  <2>4. mainx' = [p \in Positions |-> IF p \in pos..(pos + acc) THEN x[p - pos] ELSE mainx[p]]
    BY <1>1 DEF Taps
  <2>5. mainx' \in [Positions -> Rows]
    BY <2>1, <2>2, <2>4
  <2> QED
    BY <2>1, <2>2, <2>3, <2>4, <2>5
<1>10. ASSUME NEW L \in Layers, Ratio[L] # 0
       PROVE  T'[L] = (pos + acc + 1) \div Ratio[L]
  <2> DEFINE R == Ratio[L]
  <2>1. R \in Nat \ {0} /\ pos \in Nat /\ pos + acc \in Int /\ pos + acc >= pos - 1
    BY <1>3, <1>4, <1>10, Consts
  <2>2. Tbefore[L] = pos \div R
    BY <1>0, <1>2, <1>10 DEF CacheOK
  <2>3. Cardinality(Completing(pos, pos + acc, R)) = (pos + acc + 1) \div R - pos \div R
    BY ONLY <2>1, CompletingCount
  <2>4. pos \div R \in Nat /\ (pos + acc + 1) \div R \in Nat
    <3>1. pos + acc + 1 \in Nat
      BY <1>3, <1>4
    <3> QED
      BY <2>1, <3>1, DivMod
  <2>5. T'[L] = pos \div R + Cardinality(Completing(pos, pos + acc, R))
    BY <1>1, <1>10, <2>2 DEF Kept
  <2> HIDE DEF R
  <2>6. T'[L] = (pos + acc + 1) \div R
    BY ONLY <2>3, <2>4, <2>5
  <2> QED
    BY <2>6 DEF R
<1>11. TypeOK'
  <2>1. T' \in [Layers -> Nat]
    <3>1. T \in [Layers -> Nat] /\ pos + acc + 1 \in Nat
      BY <1>0, <1>3, <1>4 DEF TypeOK
    <3>2. \A L \in Layers : Ratio[L] # 0 => (pos + acc + 1) \div Ratio[L] \in Nat
      BY <3>1, Consts, DivMod
    <3>3. DOMAIN T' = Layers /\ T' = [L \in Layers |-> T'[L]]
      BY <1>1
    <3>4. \A L \in Layers : Ratio[L] = 0 => T'[L] = T[L]
      BY <1>1
    <3>5. \A L \in Layers : T'[L] \in Nat
      BY <1>10, <3>1, <3>2, <3>4
    <3> QED
      BY <3>3, <3>5
  <2>2. x' \in [0..(K' - 1) -> Rows] /\ cur' \in Token /\ pos' \in Nat /\ lay' \in 0..NLayers
        /\ K' \in Nat /\ run' = "idle" /\ draft' = << >>
    BY <1>1, <1>2, <1>3, <1>4, <1>5, Consts
  <2> QED
    BY ONLY <1>0, <1>2, <1>7, <1>9, <2>1, <2>2 DEF TypeOK
<1>12. ControlOK'
  BY <1>0, <1>2, <1>3, <1>4, <1>5, Consts DEF ControlOK
<1>13. TextEndsAt(sgen)'
  <2>1. pos' = PS + Len(sgen') /\ ~(pos' <= PS) /\ pos' - PS = m + (acc + 1)
        /\ acc + 1 \in 1..(acc + 1) /\ (acc + 1) - 1 = acc
    BY <1>3, <1>4, <1>5, <1>7, Consts
  <2>2. cur' = sgen'[pos' - PS]
    BY <1>1, <1>6, <1>7, <2>1
  <2>3. \A p \in 0..(pos' - 1) : ids'[p] = IF p <= PS THEN prompt'[p] ELSE sgen'[p - PS]
    <3>1. ids' = ids /\ prompt' = prompt /\ pos' - 1 = pos + acc
      BY <1>2, <1>3, <1>4, <1>5
    <3> QED
      BY ONLY <1>8, <3>1
  <2> QED
    BY <2>1, <2>2, <2>3 DEF TextEndsAt, TextAt
<1>14. TextOK'
  <2>1. \A p \in 0..(pos' + K' - 1) : ids'[p] \in Token
    <3>1. \A p \in 0..(pos' + K' - 1) : p \in 0..(pos + K - 1)
      BY <1>3, <1>4, <1>5, Consts
    <3> QED
      BY <1>0, <1>2, <3>1 DEF TextOK
  <2>2. /\ \A p \in 0..PS : ids'[p] = prompt'[p]
        /\ stage' = "spec" /\ run' = "idle" /\ pos' # 0 /\ Len(gen') = NDEC
        /\ Len(sgen') < NGen + Block /\ Len(vam') <= VK
    BY <1>0, <1>2, <1>3, <1>4, <1>5, <1>7, Consts DEF TextOK
  <2> QED
    BY ONLY <1>13, <2>1, <2>2 DEF TextOK
<1>15. CacheOK'
  <2> DEFINE n == pos + acc + 1
  <2>1. stage' \in {"spec", "done"} => \A p \in 0..(n - 1) : mainx'[p] = Prefix(ids, p)
    <3>1. n - 1 = pos + acc
      BY <1>3, <1>4
    <3> QED
      BY <1>9, <3>1
  <2>2. run # "idle" /\ lay = NLayers /\ n \in Nat /\ PS <= n /\ n <= pos + K
    BY <1>2, <1>3, <1>4, Consts
  <2>3. Finish(n) /\ UNCHANGED <<ids, win, xin, comp>>
    BY <1>1, <1>2
  <2>4. \A L \in Layers : Ratio[L] # 0 => T'[L] = n \div Ratio[L]
    BY <1>10
  <2> HIDE DEF n
  <2> QED
    BY <2>1, <2>2, <2>3, <2>4, PassFinished
<1>16. OutputOK'
  <2>1. Greedy!IsGreedy(prompt, sgen')
    <3>1. /\ Greedy!IsGreedy(prompt, sgen) /\ Len(sgen) <= Len(sgen')
          /\ sgen \in Seq(Token) /\ sgen' \in Seq(Token)
          /\ \A k \in 1..Len(sgen) : sgen'[k] = sgen[k]
      BY <1>0, <1>3, <1>4, <1>7 DEF OutputOK
    <3>2. \A q \in 0..(PS + Len(sgen') - 1) : ids[q] = IF q <= PS THEN prompt[q] ELSE sgen'[q - PS]
      <4>1. PS + Len(sgen') - 1 = pos + acc
        BY <1>3, <1>4, <1>7, Consts
      <4> QED
        BY ONLY <1>8, <4>1
    <3>3. ASSUME NEW k \in (Len(sgen) + 1)..Len(sgen')
          PROVE  sgen'[k] = Target(Prefix(ids, PS + k - 1))
      <4>1. /\ k - m \in 1..(acc + 1) /\ k = m + (k - m) /\ k - m - 1 \in 0..(K - 1)
            /\ k - m - 1 \in 0..(Block - 1) /\ pos + (k - m - 1) = PS + k - 1
        BY <1>3, <1>4, <1>7, Consts
      <4>2. sgen'[k] = tam[k - m - 1]
        BY <1>6, <1>7, <4>1
      <4>3. tam[k - m - 1] \in Argmax(x[k - m - 1])
        BY <1>1, <4>1
      <4>4. tam[k - m - 1] = Target(Prefix(ids, pos + (k - m - 1)))
        BY ONLY IInv, <4>1, <4>3, ArgmaxIsTarget
      <4> QED
        BY <4>1, <4>2, <4>4
    <3> QED
      BY ONLY <3>1, <3>2, <3>3, GreedyExtends
  <2>2. Greedy!IsGreedy(prompt, sgen)'
    BY <1>2, <2>1 DEF Greedy!IsGreedy, Greedy!HistoryBefore
  <2>3. Greedy!IsGreedy(prompt, gen)' /\ GateMatches'
    BY <1>0, <1>2 DEF OutputOK, Greedy!IsGreedy, Greedy!HistoryBefore, GateMatches
  <2> QED
    BY <2>2, <2>3 DEF OutputOK
<1> QED
  BY <1>11, <1>12, <1>14, <1>15, <1>16 DEF IInv

-----------------------------------------------------------------------------
(* IInv is an invariant, and what follows from it. *)

LEMMA StutterIInv ==
    ASSUME IInv, UNCHANGED vars
    PROVE  IInv'
<1>0. TypeOK /\ ControlOK /\ TextOK /\ CacheOK
  BY DEF IInv
<1>1. UNCHANGED <<stage, prompt, ids, run, lay, pos, K, x, win, xin, comp, T, cur, gen, vam,
                  mainx, draft, Tbefore, sgen>>
  BY DEF vars
<1>2. TypeOK'
  BY <1>0, <1>1 DEF TypeOK
<1>3. ControlOK'
  BY <1>0, <1>1 DEF ControlOK
<1>4. TextOK'
  BY <1>0, <1>1 DEF TextOK, TextEndsAt, TextAt, GateToken
<1>5. CacheOK'
  <2>1. \A L \in Layers : CachedTo(L, Ready(L)) <=> CachedTo(L, Ready(L))'
    BY <1>1 DEF CachedTo, Ready
  <2> QED
    BY <1>0, <1>1, <2>1 DEF CacheOK
<1>6. OutputOK'
  BY <1>1, OutputSame
<1> QED
  BY <1>2, <1>3, <1>4, <1>5, <1>6 DEF IInv

\* The caches, the token buffer and the outputs agree in every reachable state,
\* whatever the drafts were.
THEOREM Invariant == Spec => []IInv
<1>1. Init => IInv
  BY InitIInv
<1>2. IInv /\ [Next]_vars => IInv'
  <2> SUFFICES ASSUME IInv, [Next]_vars PROVE IInv'
    OBVIOUS
  <2>1. CASE StartPrefill
    BY <2>1, StartPrefillIInv
  <2>2. CASE PrefillLayer
    BY <2>2, PrefillLayerIInv
  <2>3. CASE PrefillDone
    BY <2>3, PrefillDoneIInv
  <2>4. CASE DecodeStep
    BY <2>4, DecodeStepIInv
  <2>5. CASE DecodeLayer
    BY <2>5, DecodeLayerIInv
  <2>6. CASE DecodeHead
    BY <2>6, DecodeHeadIInv
  <2>7. CASE DecodeEnd
    BY <2>7, DecodeEndIInv
  <2>8. CASE GateVerify
    BY <2>8, GateVerifyIInv
  <2>9. CASE VerifyLayer
    BY <2>9, VerifyLayerIInv
  <2>10. CASE GateHead
    BY <2>10, GateHeadIInv
  <2>11. CASE SpecRound
    BY <2>11, SpecRoundIInv
  <2>12. CASE Accept
    BY <2>12, AcceptIInv
  <2>13. CASE SpecEnd
    BY <2>13, SpecEndIInv
  <2>14. CASE UNCHANGED vars
    BY <2>14, StutterIInv
  <2> QED
    BY <2>1, <2>2, <2>3, <2>4, <2>5, <2>6, <2>7, <2>8, <2>9, <2>10, <2>11, <2>12, <2>13, <2>14
       DEF Next
<1> QED
  BY <1>1, <1>2, PTL DEF Spec

\* Every variable keeps its type.
THEOREM TypeCorrect == Spec => []TypeOK
<1>1. IInv => TypeOK
  BY DEF IInv
<1> QED
  BY <1>1, Invariant, PTL

\* No query of any pass reads a row of another history, a row never written, or
\* misses one.
THEOREM NoStaleReadHolds == Spec => []NoStaleRead
<1>1. ASSUME IInv
      PROVE  NoStaleRead
  <2>1. /\ pos \in Nat /\ K \in Nat /\ pos + K <= SeqMax
        /\ \A i \in 0..(K - 1) : x[i] = Prefix(ids, pos + i)
        /\ \A q \in 0..(pos + K - 1) : ids[q] \in Token
    BY <1>1 DEF IInv, TypeOK, ControlOK, TextOK, CacheOK
  <2>2. \A i \in 0..(K - 1) : pos + i \in Positions /\ \A r \in 0..(pos + i) : r \in 0..(pos + K - 1)
    BY <2>1, Consts
  <2> QED
    BY <2>1, <2>2, PrefixHist DEF NoStaleRead
<1> QED
  BY <1>1, Invariant, PTL

\* The rollback after a speculative round leaves exactly the compressed rows of
\* the text accepted so far.
THEOREM RowCountsHold == Spec => []RowCounts
<1>1. ASSUME IInv
      PROVE  RowCounts
  <2>1. ControlOK /\ CacheOK
    BY <1>1 DEF IInv
  <2>2. run = "idle" => lay = 0
    BY <2>1 DEF ControlOK
  <2>3. run = "idle" => \A L \in Layers : Ready(L) = pos
    BY <2>2 DEF Ready, Layers
  <2> QED
    BY <2>1, <2>3 DEF CacheOK, CachedTo, RowCounts
<1> QED
  BY <1>1, Invariant, PTL

\* A speculative round drafts from the taps of the committed text.
THEOREM DraftContextHolds == Spec => []DraftContext
<1>1. IInv => DraftContext
  BY DEF IInv, CacheOK, DraftContext
<1> QED
  BY <1>1, Invariant, PTL

\* The verify gate gives the tokens of the M=1 decode.
THEOREM GateMatchesHolds == Spec => []GateMatches
<1>1. IInv => GateMatches
  BY DEF IInv, OutputOK
<1> QED
  BY <1>1, Invariant, PTL

\* The row counts belong to a text: a pass runs or has run in this stage.
InUse == run # "idle" \/ pos > 0

LEMMA CountsKept ==
    ASSUME IInv, [Next]_vars
    PROVE  InUse' \/ UNCHANGED T
<1>1. pos \in Nat /\ ControlOK
  BY DEF IInv, TypeOK
<1>2. CASE StartPrefill
  BY <1>2 DEF StartPrefill, Start, InUse
<1>3. CASE PrefillLayer \/ DecodeLayer \/ VerifyLayer
  BY <1>3 DEF PrefillLayer, DecodeLayer, VerifyLayer, LayerWrites, InUse
<1>4. CASE PrefillDone
  BY <1>4, Consts DEF PrefillDone, Finish, InUse
<1>5. CASE DecodeHead
  BY <1>1, <1>5 DEF DecodeHead, Finish, InUse
<1>6. CASE DecodeStep \/ GateVerify \/ SpecRound
  BY <1>6 DEF DecodeStep, GateVerify, SpecRound, caches
<1>7. CASE DecodeEnd \/ GateHead \/ SpecEnd \/ UNCHANGED vars
  BY <1>7 DEF DecodeEnd, GateHead, SpecEnd, caches, vars
<1>8. CASE Accept
  <2> PICK tam : Finish(pos + Emission(tam, Accepted(draft, tam)).n)
    BY <1>8 DEF Accept
  <2>1. Accepted(draft, tam) \in Nat
    BY AcceptedMatches, Consts
  <2>2. pos' = pos + (Accepted(draft, tam) + 1)
    BY DEF Emission, Finish
  <2> HIDE DEF Accepted
  <2> QED
    BY <1>1, <2>1, <2>2 DEF InUse
<1> QED
  BY <1>2, <1>3, <1>4, <1>5, <1>6, <1>7, <1>8 DEF Next

\* seqmax and comp_kv are large enough for every pass, rejected drafts included.
THEOREM WritesFitHolds == Spec => []WritesFit
<1>1. ASSUME IInv, InUse
      PROVE  WritesFit
  <2>1. /\ pos + K <= SeqMax /\ pos \in Nat /\ K \in Nat
        /\ \A L \in Layers : CachedTo(L, Ready(L))
    BY <1>1 DEF IInv, TypeOK, ControlOK, CacheOK, InUse
  <2>2. ASSUME NEW L \in Layers, Ratio[L] # 0
        PROVE  T[L] <= CompCap(L)
    <3>1. Ready(L) \in 0..SeqMax
      BY <2>1, Consts DEF Ready
    <3>2. T[L] = Ready(L) \div Ratio[L]
      BY <2>1, <2>2 DEF CachedTo
    <3> QED
      BY <2>2, <3>1, <3>2, RowsFit
  <2> QED
    BY <2>1, <2>2 DEF WritesFit
<1>2. Init => WritesFit
  <2> SUFFICES ASSUME Init PROVE WritesFit
    OBVIOUS
  <2>1. ASSUME NEW L \in Layers, Ratio[L] # 0
        PROVE  T[L] <= CompCap(L)
    <3>1. 0 \in 0..SeqMax /\ Ratio[L] \in Nat \ {0} /\ 0 = 0 * Ratio[L] + 0
          /\ 0 \in 0..(Ratio[L] - 1)
      BY <2>1, Consts
    <3>2. 0 \div Ratio[L] = 0
      BY <3>1, DivUnique
    <3>3. T[L] = 0
      BY DEF Init
    <3> QED
      BY <2>1, <3>1, <3>2, <3>3, RowsFit
  <2> QED
    BY <2>1, Consts DEF Init, WritesFit
<1>3. IInv /\ [Next]_vars => InUse' \/ UNCHANGED T
  BY CountsKept
<1>4. WritesFit /\ UNCHANGED T /\ IInv' => WritesFit'
  BY DEF WritesFit, IInv, ControlOK
<1>5. IInv /\ InUse => WritesFit
  BY <1>1
<1> QED
  BY <1>2, <1>3, <1>4, <1>5, Invariant, PTL DEF Spec

\* Speculative decode ends with all the tokens asked for.
THEOREM EnoughTokensHolds == Spec => []EnoughTokens
<1>1. IInv => EnoughTokens
  BY DEF IInv, TextOK, EnoughTokens
<1> QED
  BY <1>1, Invariant, PTL

\* The speculative decode emits the tokens of the M=1 decode: both are the only
\* greedy continuation of the prompt.
THEOREM SameTokensHolds == Spec => []SameTokens
<1>1. ASSUME IInv
      PROVE  SameTokens
  <2> DEFINE N == MinOf(Len(sgen), Len(gen))
             S == {n \in 1..N : \A i \in 1..n : sgen[i] = gen[i]}
             c == Cardinality(S)
  <2>1. /\ Len(gen) \in Nat /\ Len(sgen) \in Nat
        /\ \A n \in 1..Len(gen) : gen[n] = Target(Greedy!HistoryBefore(prompt, gen, n))
        /\ \A n \in 1..Len(sgen) : sgen[n] = Target(Greedy!HistoryBefore(prompt, sgen, n))
    BY <1>1 DEF IInv, TypeOK, OutputOK, Greedy!IsGreedy
  <2>2. N \in Nat /\ N <= Len(gen) /\ N <= Len(sgen)
    BY <2>1 DEF MinOf
  <2> HIDE DEF N
  <2>3. S \in SUBSET (1..N) /\ \A a \in S : \A b \in 1..a : b \in S
    BY <2>2
  <2>4. S = 1..c /\ c \in 0..N
    BY <2>2, <2>3, DownClosed
  <2> HIDE DEF c
  <2>5. \A i \in 1..c : sgen[i] = gen[i]
    <3> TAKE i \in 1..c
    <3>1. i \in S
      BY <2>4
    <3> QED
      BY <3>1
  <2>6. CASE c < N
    <3>1. c + 1 \in 1..Len(gen) /\ c + 1 \in 1..Len(sgen) /\ c + 1 \in 1..N /\ c \in Nat
      BY <2>2, <2>4, <2>6
    <3>2. \A q \in 0..(PS + (c + 1) - 1) : ~(q <= PS) => q - PS \in 1..c
      BY <3>1, Consts
    <3>3. Greedy!HistoryBefore(prompt, gen, c + 1) = Greedy!HistoryBefore(prompt, sgen, c + 1)
      BY <2>5, <3>2 DEF Greedy!HistoryBefore
    <3>4. sgen[c + 1] = gen[c + 1]
      BY <2>1, <3>1, <3>3
    <3>5. c + 1 \in S
      <4>1. \A i \in 1..(c + 1) : i \in 1..c \/ i = c + 1
        BY <3>1
      <4> QED
        BY <2>5, <3>1, <3>4, <4>1
    <3> QED
      BY <2>4, <3>1, <3>5
  <2>7. CASE ~(c < N)
    <3>1. c = N
      BY <2>2, <2>4, <2>7
    <3> QED
      BY <2>5, <3>1 DEF SameTokens, N
  <2> QED
    BY <2>6, <2>7
<1> QED
  BY <1>1, Invariant, PTL

\* A layer emits behind the rows in use.
LEMMA LayerKeepsRows ==
    ASSUME IInv, run # "idle", LayerWrites, NEW L \in Layers, Ratio[L] # 0,
           NEW t \in CompRows(L), t < pos \div Ratio[L]
    PROVE  comp'[L][t] = comp[L][t]
<1>0. TypeOK /\ ControlOK /\ CacheOK
  BY DEF IInv
<1>1. DOMAIN comp = Layers /\ lay \in Layers /\ pos \in Nat /\ K \in Nat /\ Ratio[L] \in Nat \ {0}
      /\ \A M \in Layers : DOMAIN comp[M] = CompRows(M)
  BY <1>0, Consts DEF TypeOK, LayerWrites, Layers
<1>2. CASE L # lay
  BY <1>1, <1>2 DEF LayerWrites
<1>3. CASE L = lay
  <2> DEFINE R == Ratio[L]
             hi == pos + K - 1
  <2>1. comp'[L] = EmitRows(comp[L], T[L], xin'[L], pos, hi, R)
    BY <1>1, <1>3 DEF LayerWrites
  <2>2. T[L] = pos \div R
    <3>1. Ready(L) = pos
      BY <1>1, <1>3 DEF Ready, Layers
    <3> QED
      BY <1>0, <3>1 DEF CacheOK, CachedTo
  <2>3. hi \in Int /\ hi >= pos - 1 /\ DOMAIN comp[L] \subseteq Nat
    <3>1. CompRows(L) \subseteq Nat /\ DOMAIN comp[L] = CompRows(L)
      BY <1>1 DEF CompRows
    <3> QED
      BY <1>1, <3>1
  <2>4. R \in Nat \ {0}
    BY <1>1
  <2> HIDE DEF hi, R
  <2>5. Emitted(EmitRows(comp[L], pos \div R, xin'[L], pos, hi, R), comp[L], xin'[L], R,
                pos \div R, (hi + 1) \div R)
    BY <1>1, <2>3, <2>4, EmitRowsGroups
  <2>6. Emitted(comp'[L], comp[L], xin'[L], R, pos \div R, (hi + 1) \div R)
    BY <2>1, <2>2, <2>5
  <2>7. t < pos \div R /\ pos \div R \in Nat /\ t \in Nat /\ t \in DOMAIN comp[L]
    <3>1. t < pos \div R /\ CompRows(L) \subseteq Nat
      BY DEF R, CompRows
    <3> QED
      BY <1>1, <2>4, <3>1, DivMod
  <2>8. ~(pos \div R <= t)
    BY ONLY <2>7
  <2> QED
    BY ONLY <2>6, <2>7, <2>8 DEF Emitted
<1> QED
  BY <1>2, <1>3

\* Committed compressed rows are final within a stage.
THEOREM RowsFinalHolds == Spec => RowsFinal
<1>1. ASSUME IInv, [Next]_vars, NEW L \in Layers, Ratio[L] # 0, NEW t \in 0..(pos \div Ratio[L] - 1)
      PROVE  comp'[L][t] = comp[L][t]
  <2>0. TypeOK /\ ControlOK /\ pos \in Nat /\ pos <= SeqMax /\ Ratio[L] \in Nat \ {0}
    BY <1>1, Consts DEF IInv, TypeOK, ControlOK
  <2>1. t \in CompRows(L) /\ t < pos \div Ratio[L] /\ t \in Nat
    <3>1. pos \div Ratio[L] \in Nat /\ \A u \in Nat : u < pos \div Ratio[L] => u \in CompRows(L)
      BY <1>1, <2>0, Consts, RowsFit
    <3> QED
      BY <3>1
  <2>2. CASE UNCHANGED comp
    BY <2>2
  <2>3. CASE PrefillLayer
    <3>1. pos = 0
      BY <2>0, <2>3 DEF PrefillLayer, ControlOK
    <3>2. 0 \div Ratio[L] = 0
      <4>1. 0 = 0 * Ratio[L] + 0 /\ 0 \in 0..(Ratio[L] - 1)
        BY <2>0
      <4> QED
        BY <2>0, <4>1, DivUnique
    <3> QED
      BY <2>1, <3>1, <3>2
  <2>4. CASE DecodeLayer \/ VerifyLayer
    <3>1. run # "idle" /\ LayerWrites
      BY <2>4 DEF DecodeLayer, VerifyLayer
    <3> QED
      BY <1>1, <2>1, <3>1, LayerKeepsRows
  <2> QED
    BY <1>1, <2>2, <2>3, <2>4 DEF Next, StartPrefill, PrefillDone, DecodeStep, DecodeHead, DecodeEnd,
       GateVerify, GateHead, SpecRound, Accept, SpecEnd, caches, vars
<1>2. IInv /\ [Next]_vars =>
        [stage' = stage => \A L \in Layers : Ratio[L] # 0 =>
           \A t \in 0..(pos \div Ratio[L] - 1) : comp'[L][t] = comp[L][t]]_vars
  BY <1>1
<1> QED
  BY <1>2, Invariant, PTL DEF Spec, RowsFinal

-----------------------------------------------------------------------------
(* The refinement. *)

LEMMA AcceptEmits ==
    ASSUME IInv, IInv', Accept
    PROVE  Greedy!Emit
<1>0. /\ stage = "spec" /\ stage' = "spec" /\ run = "verify" /\ UNCHANGED prompt
      /\ draft \in [0..(Block - 1) -> Token] /\ Len(sgen) < NGen
      /\ Greedy!IsGreedy(prompt, sgen)'
  BY DEF IInv, ControlOK, OutputOK, Accept
<1> PICK tam \in [0..(Block - 1) -> Token] :
           sgen' = sgen \o Emission(tam, Accepted(draft, tam)).out
  BY DEF Accept
<1> DEFINE acc == Accepted(draft, tam)
           out == Emission(tam, acc).out
<1>1. acc \in 0..(Block - 1)
  BY AcceptedMatches
<1> HIDE DEF acc
<1>2. out = [i \in 1..(acc + 1) |-> IF i <= acc THEN draft[i - 1] ELSE tam[acc]]
  BY DEF Emission
<1>3. out \in [1..(acc + 1) -> Token] /\ acc + 1 \in 1..Block
  <2>1. \A i \in 1..(acc + 1) : i - 1 \in 0..(Block - 1)
    BY <1>1, Consts
  <2> QED
    BY <1>0, <1>1, <1>2, <2>1, Consts
<1>4. sgen' = sgen \o out
  BY DEF acc
<1>5. Greedy!IsGreedy(prompt, sgen')
  BY <1>0 DEF Greedy!IsGreedy, Greedy!HistoryBefore
<1> HIDE DEF out
<1>6. \E n \in 1..Block : \E ext \in [1..n -> Token] :
        sgen' = sgen \o ext /\ Greedy!IsGreedy(prompt, sgen')
  BY <1>3, <1>4, <1>5
<1> QED
  BY <1>0, <1>6 DEF Greedy!Emit

\* The speculative decode implements greedy decoding of the target: every round
\* emits one to Block tokens of its continuation, every other step none.
THEOREM Refinement == Spec => RefinesGreedy
<1>1. Init => Greedy!GreedyInit
  BY DEF Init, Greedy!GreedyInit
<1>2. IInv /\ IInv' /\ [Next]_vars => [Greedy!GreedyNext]_(Greedy!greedyVars)
  <2> SUFFICES ASSUME IInv, IInv', [Next]_vars
               PROVE  [Greedy!GreedyNext]_(Greedy!greedyVars)
    OBVIOUS
  <2>1. CASE Accept
    BY <2>1, AcceptEmits DEF Greedy!GreedyNext
  <2>2. CASE SpecEnd
    <3>1. Len(sgen) >= NGen /\ stage = "spec" /\ stage' = "done" /\ UNCHANGED <<prompt, sgen>>
      BY <2>2 DEF SpecEnd, IInv, TextOK, text
    <3> QED
      BY <3>1 DEF Greedy!GreedyNext, Greedy!Stop
  <2>3. CASE UNCHANGED <<prompt, sgen>> /\ (stage' = "done") = (stage = "done")
    BY <2>3 DEF Greedy!greedyVars
  <2>4. CASE StartPrefill \/ PrefillLayer \/ PrefillDone \/ DecodeStep \/ DecodeLayer
             \/ DecodeHead \/ DecodeEnd \/ GateVerify \/ VerifyLayer \/ GateHead
             \/ SpecRound \/ UNCHANGED vars
    <3>1. UNCHANGED <<prompt, sgen>>
      BY <2>4 DEF StartPrefill, PrefillLayer, PrefillDone, DecodeStep, DecodeLayer, DecodeHead,
         DecodeEnd, GateVerify, VerifyLayer, LayerWrites, GateHead, SpecRound, vars, text
    <3>2. (stage' = "done") = (stage = "done")
      BY <2>4 DEF StartPrefill, PrefillLayer, PrefillDone, DecodeStep, DecodeLayer, DecodeHead,
         DecodeEnd, GateVerify, VerifyLayer, LayerWrites, GateHead, SpecRound, vars, text
    <3> QED
      BY <2>3, <3>1, <3>2
  <2> QED
    BY <2>1, <2>2, <2>4 DEF Next
<1> QED
  BY <1>1, <1>2, Invariant, PTL DEF Spec, RefinesGreedy, Greedy!GreedySpec

=============================================================================
