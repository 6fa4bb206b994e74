------------------------- MODULE GenGolden_proofs --------------------------
(***************************************************************************)
(* GoldenInv is inductive, for every text, model, window, ratios and       *)
(* checkpoint: what the reference computes token by token is what one      *)
(* prefill computes, and a golden is what the checkpoint holds.            *)
(***************************************************************************)
EXTENDS GenGolden, TLAPS

-----------------------------------------------------------------------------
(* Groups of a ratio: division by a positive integer. *)

\* Division with remainder by a positive integer.
LEMMA DivMod ==
    ASSUME NEW a \in Nat, NEW R \in Nat \ {0}
    PROVE  /\ a \div R \in Nat
           /\ a % R \in 0..(R - 1)
           /\ a = (a \div R) * R + (a % R)
BY SMT

\* Products with a positive integer are ordered as the other factors are.
LEMMA MulMono ==
    ASSUME NEW a \in Int, NEW b \in Int, NEW R \in Nat \ {0}
    PROVE  /\ a <= b => a * R <= b * R
           /\ a * R < b * R => a < b
BY SMT

\* Quotient and remainder are determined by the division equation.
LEMMA DivUnique ==
    ASSUME NEW a \in Nat, NEW R \in Nat \ {0}, NEW q \in Nat, NEW r \in 0..(R - 1),
           a = q * R + r
    PROVE  a \div R = q /\ a % R = r
<1> DEFINE d == a \div R
<1>1. d \in Nat /\ a % R \in 0..(R - 1) /\ a = d * R + (a % R)
  BY DivMod
<1> HIDE DEF d
<1>2. d * R < (q + 1) * R /\ q * R < (d + 1) * R
  BY <1>1
<1>3. d < q + 1 /\ q < d + 1
  BY <1>1, <1>2, MulMono
<1>4. d = q
  BY <1>1, <1>3
<1> QED
  BY <1>1, <1>4 DEF d

\* The position completing group g, and that no other does.
LEMMA GroupEnd ==
    ASSUME NEW R \in Nat \ {0}, NEW j \in Nat
    PROVE  (j + 1) % R = 0 <=> j = (j \div R) * R + R - 1
<1>1. /\ j \div R \in Nat /\ j % R \in 0..(R - 1) /\ j = (j \div R) * R + (j % R)
  BY DivMod
<1> DEFINE q == j \div R
<1> HIDE DEF q
<1>2. q \in Nat
  BY <1>1 DEF q
<1>3. CASE j = q * R + R - 1
  <2>1. j + 1 = (q + 1) * R + 0 /\ q + 1 \in Nat /\ 0 \in 0..(R - 1) /\ j + 1 \in Nat
    BY <1>2, <1>3
  <2>2. (j + 1) % R = 0
    BY <2>1, DivUnique
  <2> QED
    BY <2>2, <1>3 DEF q
<1>4. CASE j # q * R + R - 1
  <2>1. (j % R) + 1 \in 0..(R - 1) /\ j + 1 = q * R + ((j % R) + 1) /\ j + 1 \in Nat
    BY <1>1, <1>2, <1>4 DEF q
  <2>2. (j + 1) % R = (j % R) + 1
    BY <2>1, <1>2, DivUnique
  <2> QED
    BY <2>1, <2>2, <1>1, <1>4 DEF q
<1> QED
  BY <1>3, <1>4

\* A position that completes a group: the groups complete before it are as many
\* as its group's index, and one more is complete after it.
LEMMA CompletingDiv ==
    ASSUME NEW R \in Nat \ {0}, NEW j \in Nat, (j + 1) % R = 0
    PROVE  (j + 1) \div R = j \div R + 1
<1>1. j = (j \div R) * R + R - 1 /\ j \div R \in Nat
  BY GroupEnd, DivMod
<1> DEFINE q == j \div R
<1> HIDE DEF q
<1>2. j + 1 = (q + 1) * R + 0 /\ q + 1 \in Nat /\ 0 \in 0..(R - 1) /\ j + 1 \in Nat
  BY <1>1 DEF q
<1> QED
  BY <1>2, DivUnique DEF q

\* The quotient is monotone.
LEMMA DivMono ==
    ASSUME NEW R \in Nat \ {0}, NEW a \in Nat, NEW b \in Nat, a <= b
    PROVE  a \div R <= b \div R
<1> DEFINE p == a \div R
           q == b \div R
<1>1. /\ p \in Nat /\ a % R \in 0..(R - 1) /\ a = p * R + (a % R)
      /\ q \in Nat /\ b % R \in 0..(R - 1) /\ b = q * R + (b % R)
  BY DivMod
<1> HIDE DEF p, q
<1>2. p * R < (q + 1) * R
  BY <1>1
<1>3. p < q + 1
  BY <1>1, <1>2, MulMono
<1> QED
  BY <1>1, <1>3 DEF p, q

\* A group index below (n div R) is a group complete in 0..n-1.
LEMMA GroupBelow ==
    ASSUME NEW R \in Nat \ {0}, NEW n \in Nat, NEW g \in Nat
    PROVE  g < n \div R <=> g * R + R - 1 < n
<1> DEFINE q == n \div R
<1>1. q \in Nat /\ n % R \in 0..(R - 1) /\ n = q * R + (n % R)
  BY DivMod
<1> HIDE DEF q
<1>2. CASE g < q
  <2>1. (g + 1) * R <= q * R
    BY <1>1, <1>2, MulMono
  <2>2. g * R + R - 1 < n
    BY <2>1, <1>1
  <2> QED
    BY <2>2, <1>2 DEF q
<1>3. CASE ~(g < q)
  <2>1. q * R <= g * R
    BY <1>1, <1>3, MulMono
  <2>2. ~(g * R + R - 1 < n)
    BY <2>1, <1>1
  <2> QED
    BY <2>2, <1>3 DEF q
<1> QED
  BY <1>2, <1>3

\* The next position: in the same group, or the first of the next one.
LEMMA NextInGroup ==
    ASSUME NEW R \in Nat \ {0}, NEW p \in Nat
    PROVE  /\ (p + 1) % R # 0 => (p + 1) \div R = p \div R /\ (p + 1) % R = (p % R) + 1
           /\ (p + 1) % R = 0 => (p + 1) \div R = p \div R + 1 /\ p % R = R - 1
<1> DEFINE k == p \div R
           m == p % R
<1>1. k \in Nat /\ m \in 0..(R - 1) /\ p = k * R + m
  BY DivMod
<1> HIDE DEF k, m
<1>2. CASE m < R - 1
  <2>1. m + 1 \in 0..(R - 1) /\ p + 1 = k * R + (m + 1) /\ p + 1 \in Nat
    BY <1>1, <1>2
  <2>2. (p + 1) \div R = k /\ (p + 1) % R = m + 1
    BY <2>1, <1>1, DivUnique
  <2> QED
    BY <2>1, <2>2, <1>1 DEF k, m
<1>3. CASE m = R - 1
  <2>1. k + 1 \in Nat /\ 0 \in 0..(R - 1) /\ p + 1 = (k + 1) * R + 0 /\ p + 1 \in Nat
    BY <1>1, <1>3
  <2>2. (p + 1) \div R = k + 1 /\ (p + 1) % R = 0
    BY <2>1, DivUnique
  <2> QED
    BY <2>2, <1>1, <1>3 DEF k, m
<1> QED
  BY <1>1, <1>2, <1>3

\* Positions less than a window apart have different slots.
LEMMA SlotsDiffer ==
    ASSUME NEW W \in Nat \ {0}, NEW p \in Nat, NEW q \in Nat, q < p, p - W < q
    PROVE  p % W # q % W
<1> DEFINE a == p \div W
           b == q \div W
           s == p % W
<1>1. a \in Nat /\ p % W \in 0..(W - 1) /\ p = a * W + (p % W)
  BY DivMod
<1>2. b \in Nat /\ q % W \in 0..(W - 1) /\ q = b * W + (q % W)
  BY DivMod
<1> SUFFICES ASSUME p % W = q % W PROVE FALSE
  OBVIOUS
<1>3. p = a * W + s /\ q = b * W + s /\ s \in 0..(W - 1)
  BY <1>1, <1>2
<1> HIDE DEF a, b, s
<1>4. b * W < a * W /\ a * W < (b + 1) * W
  BY <1>1, <1>2, <1>3
<1>5. b < a /\ a < b + 1
  BY <1>1, <1>2, <1>4, MulMono
<1> QED
  BY <1>1, <1>2, <1>5

\* Every slot a query may read is the slot of one of the last Window positions.
LEMMA SlotHasPosition ==
    ASSUME NEW W \in Nat \ {0}, NEW p \in Nat, NEW s \in 0..(W - 1), s <= p
    PROVE  \E q \in (IF p < W THEN 0 ELSE p - W + 1)..p : q % W = s
<1>1. CASE p < W
  <2>1. s = 0 * W + s /\ s \in Nat /\ 0 \in Nat
    OBVIOUS
  <2>2. s % W = s
    BY <2>1, DivUnique
  <2> QED
    BY <1>1, <2>2
<1>2. CASE p >= W
  <2> DEFINE a == p \div W
             m == p % W
  <2>1. a \in Nat /\ m \in 0..(W - 1) /\ p = a * W + m
    BY DivMod
  <2> HIDE DEF a, m
  <2>2. CASE s <= m
    <3>1. a * W + s \in Nat
      BY <2>1
    <3>2. (a * W + s) % W = s
      BY <2>1, <3>1, DivUnique
    <3>3. p - W + 1 <= a * W + s /\ a * W + s <= p
      BY <2>1, <2>2
    <3> QED
      BY <1>2, <3>1, <3>2, <3>3
  <2>3. CASE s > m
    <3>1. 0 * W < a * W
      BY <1>2, <2>1
    <3>2. a - 1 \in Nat
      BY <2>1, <3>1, MulMono
    <3>3. (a - 1) * W + s \in Nat
      BY <3>2
    <3>4. ((a - 1) * W + s) % W = s
      BY <3>2, <3>3, DivUnique
    <3>5. p - W + 1 <= (a - 1) * W + s /\ (a - 1) * W + s <= p
      BY <2>1, <2>3
    <3> QED
      BY <1>2, <3>3, <3>4, <3>5
  <2> QED
    BY <2>1, <2>2, <2>3
<1> QED
  BY <1>1, <1>2

\* A position below the window is its own slot.
LEMMA SlotOfSmall ==
    ASSUME NEW W \in Nat \ {0}, NEW q \in Nat, q < W
    PROVE  q % W = q
<1>1. q = 0 * W + q /\ q \in 0..(W - 1) /\ 0 \in Nat
  OBVIOUS
<1> QED
  BY <1>1, DivUnique

-----------------------------------------------------------------------------
(* Rings. *)

\* A prefix of a prefix.
LEMMA PrefixOfPrefix ==
    ASSUME NEW h, NEW p \in Int, NEW q \in Int, q <= p
    PROVE  Prefix(Prefix(h, p), q) = Prefix(h, q)
<1>1. \A r \in 0..q : Prefix(h, p)[r] = h[r]
  BY DEF Prefix
<1> QED
  BY <1>1 DEF Prefix

\* The rows a query must see, from the text or from the history of the query.
LEMMA DueOfPrefix ==
    ASSUME NEW h, NEW p \in Nat
    PROVE  Due(Prefix(h, p), p) = {Prefix(h, q) : q \in WinReads(p)}
<1>1. \A q \in WinReads(p) : q \in Int /\ q <= p
  BY WindowAssumption DEF WinReads
<1>2. \A q \in WinReads(p) : Prefix(Prefix(h, p), q) = Prefix(h, q)
  BY <1>1, PrefixOfPrefix
<1> QED
  BY <1>2 DEF Due

\* The prefill's two copies put the last Window rows of the pass in their slots.
LEMMA RingAfterPrefill ==
    ASSUME len \in Nat, NEW r, DOMAIN r = 0..(Window - 1), NEW rows, NEW h,
           \A i \in 0..(len - 1) : rows[i] = Prefix(h, i)
    PROVE  RingHeld(RingPrefill(r, rows), h, len)
<1> DEFINE W == Window
           new == RingPrefill(r, rows)
<1>0. W \in Nat \ {0}
  BY WindowAssumption
<1> SUFFICES ASSUME NEW q \in 0..(len - 1), q >= len - W
             PROVE  new[q % W] = Prefix(h, q)
  BY DEF RingHeld
<1>1. CASE len <= W
  <2>1. q % W = q /\ q \in 0..(W - 1)
    BY <1>0, <1>1, SlotOfSmall
  <2>2. new = [s \in DOMAIN r |-> IF s < len THEN rows[s] ELSE r[s]]
    BY <1>1 DEF RingPrefill
  <2> QED
    BY <2>1, <2>2
<1>2. CASE len > W
  <2> DEFINE cutoff == len % W
             k == len \div W
  <2>1. new = [s \in DOMAIN r |-> IF s >= cutoff THEN rows[len - W + s - cutoff] ELSE rows[len - cutoff + s]]
    BY <1>0, <1>2 DEF RingPrefill
  <2>2. k \in Nat /\ cutoff \in 0..(W - 1) /\ len = k * W + cutoff
    BY <1>0, DivMod
  <2> HIDE DEF cutoff, k, new
  <2>3. CASE q >= len - cutoff
    <3> DEFINE j == q - (len - cutoff)
    <3>1. j \in 0..(W - 1) /\ q = k * W + j /\ j < cutoff /\ q \in Nat
      BY <1>0, <2>2, <2>3
    <3> HIDE DEF j
    <3>2. q % W = j
      BY <1>0, <2>2, <3>1, DivUnique
    <3>3. new[j] = rows[len - cutoff + j]
      BY <2>1, <2>2, <3>1
    <3>4. len - cutoff + j = q
      BY <2>2 DEF j
    <3> QED
      BY <3>2, <3>3, <3>4
  <2>4. CASE q < len - cutoff
    <3>1. 0 * W < k * W
      BY <1>0, <1>2, <2>2
    <3>2. k - 1 \in Nat
      BY <1>0, <2>2, <3>1, MulMono
    <3> DEFINE j == q - (k - 1) * W
    <3>3. (k - 1) * W = k * W - W /\ (k - 1) * W \in Int /\ k * W \in Int
      BY <1>0, <2>2
    <3>4. j \in 0..(W - 1) /\ q = (k - 1) * W + j /\ j >= cutoff
      BY <1>0, <2>2, <2>4, <3>3
    <3>5. q % W = j
      BY <1>0, <3>2, <3>4, DivUnique
    <3>6. new[j] = rows[len - W + j - cutoff]
      BY <2>1, <2>2, <3>4
    <3>7. len - W + j - cutoff = q
      BY <1>0, <2>2, <3>3
    <3> QED
      BY <3>5, <3>6, <3>7
  <2> QED
    BY <2>2, <2>3, <2>4
<1> QED
  BY <1>0, <1>1, <1>2

\* A token overwrites the row that has left the window.
LEMMA RingAfterToken ==
    ASSUME NEW r, DOMAIN r = 0..(Window - 1), NEW h, NEW p \in Nat, RingHeld(r, h, p),
           NEW new, new = [r EXCEPT ![p % Window] = Prefix(h, p)]
    PROVE  RingHeld(new, h, p + 1)
<1> DEFINE W == Window
<1>0. W \in Nat \ {0}
  BY WindowAssumption
<1>1. p % W \in 0..(W - 1)
  BY <1>0, DivMod
<1> SUFFICES ASSUME NEW q \in 0..(p + 1 - 1), q >= p + 1 - Window
             PROVE  new[q % Window] = Prefix(h, q)
  BY <1>0 DEF RingHeld
<1>2. CASE q = p
  BY <1>1, <1>2
<1>3. CASE q # p
  <2>1. q \in Nat /\ q < p /\ p - W < q /\ q \in 0..(p - 1) /\ q >= p - W
    BY <1>0, <1>3
  <2>2. p % W # q % W /\ q % W \in 0..(W - 1)
    BY <1>0, <2>1, SlotsDiffer, DivMod
  <2>3. r[q % W] = Prefix(h, q)
    BY <2>1 DEF RingHeld
  <2> QED
    BY <2>2, <2>3
<1> QED
  BY <1>2, <1>3

\* The slots a token's query reads hold the rows due to it.
LEMMA RingReadsDue ==
    ASSUME NEW r, NEW h, NEW p \in Nat, RingHeld(r, h, p + 1),
           NEW S, S = 0..((IF Window < p + 1 THEN Window ELSE p + 1) - 1)
    PROVE  {r[s] : s \in S} = Due(Prefix(h, p), p)
<1> DEFINE W == Window
<1>0. W \in Nat \ {0}
  BY WindowAssumption
<1>1. ASSUME NEW s \in S
      PROVE  \E q \in WinReads(p) : r[s] = Prefix(h, q)
  <2>1. s \in 0..(W - 1) /\ s <= p
    BY <1>0
  <2>2. PICK q \in (IF p < W THEN 0 ELSE p - W + 1)..p : q % W = s
    BY <1>0, <2>1, SlotHasPosition
  <2>3. q \in 0..p /\ q >= p + 1 - W /\ q \in WinReads(p)
    BY <1>0, <2>2 DEF WinReads
  <2>4. r[q % W] = Prefix(h, q)
    BY <2>3, <1>0 DEF RingHeld
  <2> QED
    BY <2>2, <2>3, <2>4
<1>2. ASSUME NEW q \in WinReads(p)
      PROVE  \E s \in S : r[s] = Prefix(h, q)
  <2>1. q \in 0..p /\ q >= p + 1 - W
    BY <1>0 DEF WinReads
  <2>2. r[q % W] = Prefix(h, q) /\ q % W \in 0..(W - 1)
    BY <2>1, <1>0, DivMod DEF RingHeld
  <2>3. q < W => q % W = q
    BY <1>0, <2>1, SlotOfSmall
  <2>4. q % W \in S
    BY <1>0, <2>1, <2>2, <2>3
  <2> QED
    BY <2>2, <2>4
<1> QED
  BY <1>1, <1>2, DueOfPrefix

-----------------------------------------------------------------------------
(* Compressors. *)

\* A row pooled from what the text has at its positions is the row due.
LEMMA RowDue ==
    ASSUME NEW h, NEW R, NEW g, NEW old, NEW new,
           old = (IF Overlaps(R) /\ g > 0
                  THEN {Slot(i, Prefix(h, (g - 1) * R + i)) : i \in 0..(R - 1)} ELSE {})
              \/ (old = {Nothing} /\ ~(Overlaps(R) /\ g > 0)),
           new = {Slot(i, Prefix(h, g * R + i)) : i \in 0..(R - 1)}
    PROVE  Row(g * R, old, new) = DueCompressed(h, R, g)
<1>1. CASE old = (IF Overlaps(R) /\ g > 0
                  THEN {Slot(i, Prefix(h, (g - 1) * R + i)) : i \in 0..(R - 1)} ELSE {})
  BY <1>1 DEF DueCompressed
<1>2. CASE old = {Nothing} /\ ~(Overlaps(R) /\ g > 0)
  <2>1. old \ {Nothing} = {} \ {Nothing}
    BY <1>2
  <2>2. Row(g * R, old, new) = Row(g * R, {}, new)
    BY <2>1 DEF Row
  <2> QED
    BY <1>2, <2>2 DEF DueCompressed
<1> QED
  BY <1>1, <1>2

\* Row g of a prefill is pooled from the positions of its group.
LEMMA PrefillRowDue ==
    ASSUME NEW h, NEW n \in Nat, \A i \in 0..(n - 1) : x[i] = Prefix(h, i),
           NEW R \in Nat \ {0}, NEW g \in Nat, g < n \div R
    PROVE  PrefillRow(R, g) = DueCompressed(h, R, g)
<1>1. g * R + R - 1 < n /\ g * R \in Nat
  BY GroupBelow
<1>2. \A i \in 0..(R - 1) : x[g * R + i] = Prefix(h, g * R + i)
  <2> TAKE i \in 0..(R - 1)
  <2>1. g * R + i \in 0..(n - 1)
    BY <1>1
  <2> QED
    BY <2>1
<1>3. {Slot(i, x[g * R + i]) : i \in 0..(R - 1)} = {Slot(i, Prefix(h, g * R + i)) : i \in 0..(R - 1)}
  BY <1>2
<1>4. ASSUME g > 0
      PROVE  {Slot(i, x[(g - 1) * R + i]) : i \in 0..(R - 1)} = {Slot(i, Prefix(h, (g - 1) * R + i)) : i \in 0..(R - 1)}
  <2>1. g - 1 \in Nat /\ (g - 1) * R = g * R - R /\ (g - 1) * R \in Nat
    BY <1>4
  <2>2. ASSUME NEW i \in 0..(R - 1)
        PROVE  x[(g - 1) * R + i] = Prefix(h, (g - 1) * R + i)
    <3>1. (g - 1) * R + i \in 0..(n - 1)
      BY <1>1, <2>1
    <3> QED
      BY <3>1
  <2> QED
    BY <2>2
<1>5. (IF Overlaps(R) /\ g > 0 THEN {Slot(i, x[(g - 1) * R + i]) : i \in 0..(R - 1)} ELSE {})
      = (IF Overlaps(R) /\ g > 0 THEN {Slot(i, Prefix(h, (g - 1) * R + i)) : i \in 0..(R - 1)} ELSE {})
  BY <1>4
<1> QED
  BY <1>3, <1>5 DEF PrefillRow, DueCompressed

\* A prefill leaves its rows, its last whole group and the rest; of less than an
\* overlap group it leaves what was behind as it found it.
LEMMA CompAfterPrefill ==
    ASSUME NEW h, NEW n \in Nat, n <= MaxSeq, \A i \in 0..(n - 1) : x[i] = Prefix(h, i),
           NEW R \in Nat \ {0}, NEW c, HasShape(c, R),
           NEW d, d = CompressPrefill(c, R, n)
    PROVE  /\ HasShape(d, R) /\ CompHeld(d, h, R, n)
           /\ Overlaps(R) /\ n < R /\ NothingBehind(c, R) => NothingBehind(d, R)
<1> DEFINE m == n % R
           k == n \div R
           first == IF Overlaps(R) THEN R ELSE 0
           st == PrefillState(c, R, n)
<1>1. m \in 0..(R - 1) /\ k \in Nat /\ n = k * R + m /\ k * R \in Nat
  BY DivMod
<1>2. d = [state |-> st, cache |-> [g \in DOMAIN c.cache |-> IF g < k THEN PrefillRow(R, g) ELSE c.cache[g]]]
  BY DEF CompressPrefill
<1>3. st = [s \in DOMAIN c.state |->
              IF Overlaps(R) /\ n - m >= R /\ s < R THEN Slot(s, x[n - m - R + s])
              ELSE IF s \in first..(first + m - 1) THEN Slot(s - first, x[n - m + s - first])
              ELSE c.state[s]]
  BY DEF PrefillState
<1>4. k <= MaxSeq \div R /\ MaxSeq \div R \in Nat
  BY RefAssumption, DivMono, DivMod
<1>5. k >= 1 <=> n >= R
  <2>1. k >= 1 => 1 * R <= k * R
    BY <1>1, MulMono
  <2>2. k = 0 => k * R = 0
    BY <1>1
  <2> QED
    BY <2>1, <2>2, <1>1
<1>6. n - m = k * R
  BY <1>1
<1> HIDE DEF m, k, first, st
<1>7. d.state = st /\ d.cache = [g \in DOMAIN c.cache |-> IF g < k THEN PrefillRow(R, g) ELSE c.cache[g]]
      /\ DOMAIN d = {"state", "cache"}
  BY <1>2
<1>8. HasShape(d, R)
  BY <1>3, <1>7 DEF HasShape
<1>9. GroupsHeld(d, h, R, n)
  <2> SUFFICES ASSUME NEW g \in 0..(k - 1) PROVE d.cache[g] = DueCompressed(h, R, g)
    BY DEF GroupsHeld, k
  <2>1. g \in CompRows(R) /\ g < k /\ g \in Nat
    BY <1>1, <1>4 DEF CompRows
  <2>2. d.cache[g] = PrefillRow(R, g)
    BY <1>7, <2>1 DEF HasShape
  <2> QED
    BY <2>1, <2>2, PrefillRowDue DEF k
<1>10. RestHeld(d, h, R, n)
  <2> SUFFICES ASSUME NEW i \in 0..(m - 1) PROVE d.state[first + i] = Slot(i, Prefix(h, n - m + i))
    BY DEF RestHeld, m, first
  <2>1. first + i \in DOMAIN c.state /\ first \in Nat /\ (Overlaps(R) => first + i >= R)
    BY <1>1 DEF HasShape, States, first
  <2>2. first + i \in first..(first + m - 1) /\ first + i - first = i /\ n - m + (first + i) - first = n - m + i
    BY <1>1, <2>1
  <2>3. st[first + i] = Slot(i, x[n - m + i])
    BY <1>1, <1>3, <2>1, <2>2
  <2>4. n - m + i \in 0..(n - 1)
    BY <1>1
  <2> QED
    BY <1>7, <2>3, <2>4
<1>11. PreviousHeld(d, h, R, n)
  <2> SUFFICES ASSUME Overlaps(R), n >= R, NEW i \in 0..(R - 1)
               PROVE  d.state[i] = Slot(i, Prefix(h, n - m - R + i))
    BY DEF PreviousHeld, m
  <2>1. i \in DOMAIN c.state /\ i < R
    BY DEF HasShape, States
  <2>2. 1 * R <= k * R
    BY <1>1, <1>5, MulMono
  <2>3. n - m >= R
    BY <1>6, <2>2
  <2>4. st[i] = Slot(i, x[n - m - R + i])
    BY <1>3, <2>1, <2>3
  <2>5. n - m - R + i \in 0..(n - 1)
    BY <1>1, <2>3
  <2> QED
    BY <1>7, <2>4, <2>5
<1>12. ASSUME Overlaps(R), n < R, NothingBehind(c, R)
       PROVE  NothingBehind(d, R)
  <2> SUFFICES ASSUME NEW i \in 0..(R - 1) PROVE d.state[i] = Nothing
    BY DEF NothingBehind
  <2>1. i \in DOMAIN c.state /\ first = R
    BY <1>12 DEF HasShape, States, first
  <2>2. ~(n - m >= R) /\ i \notin first..(first + m - 1)
    BY <1>1, <1>12, <2>1
  <2>3. st[i] = c.state[i]
    BY <1>3, <2>1, <2>2
  <2> QED
    BY <1>7, <1>12, <2>3 DEF NothingBehind
<1> QED
  BY <1>8, <1>9, <1>10, <1>11, <1>12 DEF CompHeld

\* A token takes its slot, completes its group's row and, behind an overlap, makes
\* the group the previous one.
LEMMA CompAfterToken ==
    ASSUME NEW h, NEW p \in Nat, p + 1 <= MaxSeq, x[0] = Prefix(h, p),
           NEW R \in Nat \ {0}, NEW c, HasShape(c, R), CompHeld(c, h, R, p),
           Overlaps(R) /\ p < R => NothingBehind(c, R),
           NEW d, d = CompressToken(c, R, p)
    PROVE  /\ HasShape(d, R) /\ CompHeld(d, h, R, p + 1)
           /\ Overlaps(R) /\ p + 1 < R => NothingBehind(d, R)
<1> DEFINE m == p % R
           k == p \div R
           m1 == (p + 1) % R
           k1 == (p + 1) \div R
           first == IF Overlaps(R) THEN R ELSE 0
           st == [c.state EXCEPT ![first + m] = Slot(m, x[0])]
           old == {st[s] : s \in 0..(first - 1)}
           new == {st[s] : s \in first..(first + R - 1)}
<1>1. m \in 0..(R - 1) /\ k \in Nat /\ p = k * R + m /\ k * R \in Nat
  BY DivMod
<1>2. /\ m1 # 0 => k1 = k /\ m1 = m + 1
      /\ m1 = 0 => k1 = k + 1 /\ m = R - 1
  BY NextInGroup
<1>3. /\ m1 # 0 => d = [c EXCEPT !.state = st]
      /\ m1 = 0 => d = [state |-> IF Overlaps(R) THEN Shift(st, R) ELSE st,
                        cache |-> [c.cache EXCEPT ![k] = Row(p + 1 - R, old, new)]]
  BY DEF CompressToken
<1>4. p - m = k * R /\ first \in Nat /\ (Overlaps(R) => first = R) /\ (~Overlaps(R) => first = 0)
  BY <1>1
<1>5. DOMAIN c = {"state", "cache"} /\ DOMAIN c.state = 0..(States(R) - 1) /\ DOMAIN c.cache = CompRows(R)
  BY DEF HasShape
<1>6. first..(first + R - 1) \subseteq DOMAIN c.state /\ 0..(R - 1) \subseteq DOMAIN c.state
  BY <1>4, <1>5 DEF States
<1>7. \A i \in 0..(m - 1) : c.state[first + i] = Slot(i, Prefix(h, k * R + i))
  BY <1>4 DEF CompHeld, RestHeld
<1>8. \A i \in 0..m : st[first + i] = Slot(i, Prefix(h, k * R + i))
  <2> TAKE i \in 0..m
  <2>1. first + m \in DOMAIN c.state /\ first + i \in DOMAIN c.state
    BY <1>1, <1>4, <1>6
  <2>2. CASE i = m
    BY <1>1, <2>1, <2>2
  <2>3. CASE i # m
    <3>1. first + i # first + m /\ i \in 0..(m - 1)
      BY <1>1, <1>4, <2>3
    <3>2. st[first + i] = c.state[first + i]
      BY <2>1, <3>1
    <3> QED
      BY <1>7, <3>1, <3>2
  <2> QED
    BY <2>2, <2>3
<1>9. Overlaps(R) => \A i \in 0..(R - 1) : st[i] = c.state[i]
  <2> SUFFICES ASSUME Overlaps(R), NEW i \in 0..(R - 1) PROVE st[i] = c.state[i]
    OBVIOUS
  <2>1. i # first + m /\ i \in DOMAIN c.state
    BY <1>1, <1>4, <1>6
  <2> QED
    BY <2>1
<1>10. DOMAIN st = DOMAIN c.state
  OBVIOUS
<1>11. k >= 1 <=> p >= R
  <2>1. k >= 1 => 1 * R <= k * R
    BY <1>1, MulMono
  <2>2. k = 0 => k * R = 0
    BY <1>1
  <2> QED
    BY <2>1, <2>2, <1>1
<1> HIDE DEF m, k, m1, k1, first, st, old, new
<1>12. CASE m1 # 0
  <2>1. d.state = st /\ d.cache = c.cache /\ DOMAIN d = DOMAIN c
    BY <1>3, <1>5, <1>12
  <2>2. HasShape(d, R)
    BY <1>5, <1>10, <2>1 DEF HasShape
  <2>3. GroupsHeld(d, h, R, p + 1)
    BY <1>2, <1>12, <2>1 DEF GroupsHeld, CompHeld, k, k1
  <2>4. p + 1 - m1 = k * R /\ m1 - 1 = m
    BY <1>1, <1>2, <1>12
  <2>5. RestHeld(d, h, R, p + 1)
    BY <1>8, <2>1, <2>4 DEF RestHeld, first, m1
  <2>6. PreviousHeld(d, h, R, p + 1)
    <3> SUFFICES ASSUME Overlaps(R), p + 1 >= R, NEW i \in 0..(R - 1)
                 PROVE  d.state[i] = Slot(i, Prefix(h, k * R - R + i))
      BY <2>4 DEF PreviousHeld, m1
    <3>1. p >= R
      <4>1. (p + 1 = 1 * R + 0) => m1 = 0
        <5>1. 1 \in Nat /\ 0 \in 0..(R - 1) /\ p + 1 \in Nat
          OBVIOUS
        <5> QED
          BY <5>1, DivUnique DEF m1
      <4> QED
        BY <1>12, <4>1
    <3>2. c.state[i] = Slot(i, Prefix(h, p - m - R + i))
      BY <3>1 DEF CompHeld, PreviousHeld, m
    <3> QED
      BY <1>4, <1>9, <2>1, <3>2
  <2>7. Overlaps(R) /\ p + 1 < R => NothingBehind(d, R)
    BY <1>9, <2>1 DEF NothingBehind
  <2> QED
    BY <2>2, <2>3, <2>5, <2>6, <2>7 DEF CompHeld
<1>13. CASE m1 = 0
  <2>1. /\ d.state = IF Overlaps(R) THEN Shift(st, R) ELSE st
        /\ d.cache = [c.cache EXCEPT ![k] = Row(p + 1 - R, old, new)]
        /\ DOMAIN d = {"state", "cache"}
    BY <1>3, <1>13
  <2>2. k1 = k + 1 /\ m = R - 1 /\ p + 1 - R = k * R
    BY <1>1, <1>2, <1>13
  <2>3. HasShape(d, R)
    BY <1>5, <1>10, <2>1 DEF HasShape, Shift
  <2>4. Row(k * R, old, new) = DueCompressed(h, R, k)
    <3>1. new = {Slot(i, Prefix(h, k * R + i)) : i \in 0..(R - 1)}
      <4>1. \A i \in 0..(R - 1) : st[first + i] = Slot(i, Prefix(h, k * R + i)) /\ first + i \in first..(first + R - 1)
        BY <1>4, <1>8, <2>2
      <4>2. \A s \in first..(first + R - 1) : s - first \in 0..(R - 1) /\ first + (s - first) = s
        BY <1>4
      <4> QED
        BY <4>1, <4>2 DEF new
    <3>2. CASE ~Overlaps(R)
      <4>1. old = {}
        BY <1>4, <3>2 DEF old
      <4> QED
        BY <3>1, <3>2, <4>1, RowDue
    <3>3. CASE Overlaps(R) /\ k = 0
      <4>1. \A i \in 0..(R - 1) : st[i] = Nothing
        BY <1>9, <1>11, <1>1, <3>3 DEF NothingBehind
      <4>2. 0 \in 0..(R - 1)
        OBVIOUS
      <4>3. old = {Nothing}
        BY <1>4, <3>3, <4>1, <4>2 DEF old
      <4>4. ~(Overlaps(R) /\ k > 0)
        BY <3>3
      <4> QED
        BY <3>1, <4>3, <4>4, RowDue
    <3>4. CASE Overlaps(R) /\ k # 0
      <4>1. p >= R /\ k > 0
        BY <1>1, <1>11, <3>4
      <4>2. (k - 1) * R = k * R - R
        BY <1>1
      <4>3. \A i \in 0..(R - 1) : c.state[i] = Slot(i, Prefix(h, p - m - R + i))
        BY <3>4, <4>1 DEF CompHeld, PreviousHeld, m
      <4>4. \A i \in 0..(R - 1) : st[i] = Slot(i, Prefix(h, (k - 1) * R + i))
        BY <1>4, <1>9, <3>4, <4>2, <4>3
      <4>5. old = {Slot(i, Prefix(h, (k - 1) * R + i)) : i \in 0..(R - 1)}
        BY <1>4, <3>4, <4>4 DEF old
      <4> QED
        BY <3>1, <3>4, <4>1, <4>5, RowDue
    <3> QED
      BY <3>2, <3>3, <3>4
  <2>5. GroupsHeld(d, h, R, p + 1)
    <3> SUFFICES ASSUME NEW g \in 0..k PROVE d.cache[g] = DueCompressed(h, R, g)
      BY <1>1, <2>2 DEF GroupsHeld, k1
    <3>1. k + 1 <= MaxSeq \div R /\ MaxSeq \div R \in Nat
      <4>1. p + 1 \in Nat /\ MaxSeq \in Nat
        BY RefAssumption
      <4>2. k1 <= MaxSeq \div R
        BY <4>1, DivMono DEF k1
      <4> QED
        BY <2>2, <4>1, <4>2, DivMod
    <3>2. g \in DOMAIN c.cache /\ k \in DOMAIN c.cache
      BY <1>1, <1>5, <3>1 DEF CompRows
    <3>3. CASE g = k
      BY <2>1, <2>2, <2>4, <3>2, <3>3
    <3>4. CASE g # k
      <4>1. d.cache[g] = c.cache[g] /\ g \in 0..(k - 1)
        BY <1>1, <2>1, <3>2, <3>4
      <4> QED
        BY <4>1 DEF CompHeld, GroupsHeld, k
    <3> QED
      BY <3>3, <3>4
  <2>6. RestHeld(d, h, R, p + 1)
    BY <1>13 DEF RestHeld, m1
  <2>7. PreviousHeld(d, h, R, p + 1)
    <3> SUFFICES ASSUME Overlaps(R), NEW i \in 0..(R - 1)
                 PROVE  d.state[i] = Slot(i, Prefix(h, p + 1 - m1 - R + i))
      BY DEF PreviousHeld, m1
    <3>1. d.state[i] = st[R + i]
      BY <1>6, <1>10, <2>1 DEF Shift
    <3>2. st[R + i] = Slot(i, Prefix(h, k * R + i))
      BY <1>4, <1>8, <2>2
    <3>3. p + 1 - m1 - R + i = k * R + i
      BY <1>1, <1>13, <2>2
    <3> QED
      BY <3>1, <3>2, <3>3
  <2>8. ~(p + 1 < R)
    <3>1. 0 * R <= k * R
      BY <1>1, MulMono
    <3> QED
      BY <1>1, <2>2, <3>1
  <2> QED
    BY <2>3, <2>5, <2>6, <2>7, <2>8 DEF CompHeld
<1> QED
  BY <1>12, <1>13

\* A row due to a text is the row due to any history of it that has the group.
LEMMA DueOfHistory ==
    ASSUME NEW h, NEW p \in Nat, NEW R \in Nat \ {0}, NEW g \in Nat, g < (p + 1) \div R
    PROVE  DueCompressed(Prefix(h, p), R, g) = DueCompressed(h, R, g)
<1>1. g * R + R - 1 <= p /\ g * R \in Nat
  <2>1. p + 1 \in Nat
    OBVIOUS
  <2>2. g * R + R - 1 < p + 1
    BY <2>1, GroupBelow
  <2> QED
    BY <2>2
<1>2. \A i \in 0..(R - 1) : Prefix(Prefix(h, p), g * R + i) = Prefix(h, g * R + i)
  <2> TAKE i \in 0..(R - 1)
  <2>1. g * R + i \in Int /\ g * R + i <= p
    BY <1>1
  <2> QED
    BY <2>1, PrefixOfPrefix
<1>3. g > 0 => \A i \in 0..(R - 1) : Prefix(Prefix(h, p), (g - 1) * R + i) = Prefix(h, (g - 1) * R + i)
  <2> SUFFICES ASSUME g > 0, NEW i \in 0..(R - 1)
               PROVE  Prefix(Prefix(h, p), (g - 1) * R + i) = Prefix(h, (g - 1) * R + i)
    OBVIOUS
  <2>1. (g - 1) * R = g * R - R /\ (g - 1) * R \in Int
    OBVIOUS
  <2>2. (g - 1) * R + i \in Int /\ (g - 1) * R + i <= p
    BY <1>1, <2>1
  <2> QED
    BY <2>2, PrefixOfPrefix
<1>4. {Slot(i, Prefix(Prefix(h, p), g * R + i)) : i \in 0..(R - 1)} = {Slot(i, Prefix(h, g * R + i)) : i \in 0..(R - 1)}
  BY <1>2
<1>5. g > 0 => {Slot(i, Prefix(Prefix(h, p), (g - 1) * R + i)) : i \in 0..(R - 1)}
               = {Slot(i, Prefix(h, (g - 1) * R + i)) : i \in 0..(R - 1)}
  BY <1>3
<1> QED
  BY <1>4, <1>5 DEF DueCompressed

-----------------------------------------------------------------------------
(* A call of the model. *)

\* Histories of the text are rows.
LEMMA PrefixIsRow ==
    ASSUME NEW t \in Texts, NEW p \in 0..(MaxSeq - 1)
    PROVE  Prefix(t, p) \in Rows
<1>1. MaxSeq \in Nat /\ t \in [0..(MaxSeq - 1) -> Token]
  BY RefAssumption
<1>2. \A r \in 0..p : r \in 0..(MaxSeq - 1)
  BY <1>1
<1>3. Prefix(t, p) \in [0..p -> Token]
  BY <1>1, <1>2 DEF Prefix
<1> QED
  BY <1>3 DEF Rows

\* The ring after a call, from the ring before it.
LEMMA RingedRight ==
    ASSUME TypeOK, DecodeIsPrefill, call # "none",
           NEW r \in Ring, start > 0 => RingHeld(r, ids, start),
           NEW new, new = Ringed(r, x)
    PROVE  new \in Ring /\ RingHeld(new, ids, start + len)
<1>1. /\ start \in Nat /\ len \in Nat /\ len > 0 /\ (start > 0 => len = 1)
      /\ DOMAIN x = 0..(len - 1) /\ (\A i \in DOMAIN x : x[i] \in Rows)
      /\ DOMAIN r = 0..(Window - 1) /\ Window \in Nat \ {0}
  BY WindowAssumption DEF TypeOK, Ring
<1>2. \A i \in 0..(len - 1) : x[i] = Prefix(ids, start + i) /\ x[i] \in Rows
  BY <1>1 DEF DecodeIsPrefill
<1>3. CASE start = 0
  <2>1. new = RingPrefill(r, x)
    BY <1>3 DEF Ringed
  <2>2. \A i \in 0..(len - 1) : x[i] = Prefix(ids, i)
    BY <1>1, <1>2, <1>3
  <2>3. RingHeld(new, ids, len)
    BY <1>1, <2>1, <2>2, RingAfterPrefill
  <2>4. new \in Ring
    <3>1. CASE len <= Window
      <4>1. new = [s \in 0..(Window - 1) |-> IF s < len THEN x[s] ELSE r[s]]
        BY <1>1, <2>1, <3>1 DEF RingPrefill
      <4>2. \A s \in 0..(Window - 1) : (IF s < len THEN x[s] ELSE r[s]) \in Rows
        BY <1>1, <1>2 DEF Ring
      <4> QED
        BY <4>1, <4>2 DEF Ring
    <3>2. CASE ~(len <= Window)
      <4> DEFINE cutoff == len % Window
      <4>1. cutoff \in 0..(Window - 1)
        BY <1>1, DivMod
      <4>2. new = [s \in 0..(Window - 1) |-> IF s >= cutoff THEN x[len - Window + s - cutoff]
                                             ELSE x[len - cutoff + s]]
        BY <1>1, <2>1, <3>2 DEF RingPrefill
      <4> HIDE DEF cutoff
      <4>3. \A s \in 0..(Window - 1) :
              /\ s >= cutoff => len - Window + s - cutoff \in 0..(len - 1)
              /\ ~(s >= cutoff) => len - cutoff + s \in 0..(len - 1)
        BY <1>1, <3>2, <4>1
      <4> QED
        BY <1>2, <4>2, <4>3 DEF Ring
    <3> QED
      BY <3>1, <3>2
  <2> QED
    BY <1>1, <1>3, <2>3, <2>4
<1>4. CASE start > 0
  <2>1. x[0] = Prefix(ids, start) /\ x[0] \in Rows
    <3>1. 0 \in 0..(len - 1) /\ start + 0 = start
      BY <1>1
    <3> QED
      BY <1>2, <3>1
  <2>2. new = [r EXCEPT ![start % Window] = Prefix(ids, start)]
    BY <1>4, <1>1, <2>1 DEF Ringed
  <2>3. RingHeld(new, ids, start + 1)
    BY <1>1, <1>4, <2>2, RingAfterToken
  <2>4. new \in Ring
    BY <2>1, <2>2 DEF Ring
  <2> QED
    BY <1>1, <1>4, <2>3, <2>4
<1> QED
  BY <1>1, <1>3, <1>4

\* A compressor after a call, from the one before it.
LEMMA CompressRight ==
    ASSUME TypeOK, DecodeIsPrefill, call # "none",
           NEW R \in Nat \ {0}, NEW c, HasShape(c, R),
           start > 0 => CompHeld(c, ids, R, start) /\ (InFirstGroup(R, start) => NothingBehind(c, R)),
           NEW d, d = Compress(c, R)
    PROVE  /\ HasShape(d, R) /\ CompHeld(d, ids, R, start + len)
           /\ (InFirstGroup(R, start) => NothingBehind(c, R)) /\ InFirstGroup(R, start + len)
              => NothingBehind(d, R)
<1>1. /\ start \in Nat /\ len \in Nat /\ len > 0 /\ (start > 0 => len = 1) /\ start + len <= MaxSeq
      /\ DOMAIN x = 0..(len - 1) /\ texts > 0
  BY DEF TypeOK
<1>2. \A i \in 0..(len - 1) : x[i] = Prefix(ids, start + i)
  BY <1>1 DEF DecodeIsPrefill
<1>3. CASE start = 0
  <2>1. d = CompressPrefill(c, R, len)
    BY <1>3 DEF Compress
  <2>2. \A i \in 0..(len - 1) : x[i] = Prefix(ids, i)
    BY <1>1, <1>2, <1>3
  <2>3. /\ HasShape(d, R) /\ CompHeld(d, ids, R, len)
        /\ Overlaps(R) /\ len < R /\ NothingBehind(c, R) => NothingBehind(d, R)
    BY <1>1, <1>3, <2>1, <2>2, CompAfterPrefill
  <2>4. start + len = len
    BY <1>1, <1>3
  <2>5. InFirstGroup(R, len) => InFirstGroup(R, start) /\ Overlaps(R) /\ len < R
    BY <1>1, <1>3 DEF InFirstGroup
  <2> QED
    BY <2>3, <2>4, <2>5
<1>4. CASE start > 0
  <2>1. x[0] = Prefix(ids, start)
    <3>1. 0 \in 0..(len - 1) /\ start + 0 = start
      BY <1>1
    <3> QED
      BY <1>2, <3>1
  <2>2. d = CompressToken(c, R, start)
    BY <1>4, <1>1 DEF Compress
  <2>3. Overlaps(R) /\ start < R => NothingBehind(c, R)
    BY <1>1, <1>4 DEF InFirstGroup
  <2>4. start + 1 <= MaxSeq
    BY <1>1, <1>4
  <2>5. /\ HasShape(d, R) /\ CompHeld(d, ids, R, start + 1)
        /\ Overlaps(R) /\ start + 1 < R => NothingBehind(d, R)
    BY <1>1, <1>4, <2>1, <2>2, <2>3, <2>4, CompAfterToken
  <2>6. start + len = start + 1
    BY <1>1, <1>4
  <2> QED
    BY <2>5, <2>6 DEF InFirstGroup
<1> QED
  BY <1>1, <1>3, <1>4

\* A prefill's query reads, of the pass, what is due to it.
LEMMA PassReadsDue ==
    ASSUME len \in Nat, NEW i \in 0..(len - 1), NEW h, \A q \in 0..(len - 1) : x[q] = Prefix(h, q)
    PROVE  {x[q] : q \in WindowIdxs(i)} = Due(Prefix(h, i), i)
<1>1. Window \in Nat \ {0} /\ i \in Nat /\ i < len
  BY WindowAssumption
<1>2. WindowIdxs(i) = WinReads(i)
  BY <1>1 DEF WindowIdxs, WinReads
<1>3. \A q \in WinReads(i) : x[q] = Prefix(h, q)
  <2> TAKE q \in WinReads(i)
  <2>1. q \in 0..(len - 1)
    BY <1>1 DEF WinReads
  <2> QED
    BY <2>1
<1> QED
  BY <1>1, <1>2, <1>3, DueOfPrefix

\* Every query of a call reads what is due to it, and keeps its history.
LEMMA AttendedRight ==
    ASSUME TypeOK, DecodeIsPrefill, call # "none", lay \in Layers,
           start > 0 => RingHeld(ring'[lay], ids, start + len),
           lay \in Compressed => GroupsHeld(cmp'[lay], ids, Ratio[lay], start + len),
           lay \in Indexed => GroupsHeld(icmp'[lay], ids, Ratio[lay], start + len),
           NEW i \in DOMAIN x
    PROVE  Attended(i, lay) = x[i]
<1> DEFINE R == Ratio[lay]
           p == start + i
           window == IF start = 0 THEN {x[q] : q \in WindowIdxs(i)} ELSE {ring'[lay][s] : s \in RingIdxs}
           rowsRight(c) == \A g \in CompressIdxs(i, R) : c.cache[g] = DueCompressed(x[i], R, g)
<1>1. /\ start \in Nat /\ len \in Nat /\ (start > 0 => len = 1) /\ i \in 0..(len - 1)
      /\ DOMAIN x = 0..(len - 1) /\ R \in Nat /\ Window \in Nat \ {0}
      /\ OverlapRatio \in Nat \ {0}
  BY RefAssumption, WindowAssumption DEF TypeOK
<1>2. x[i] = Prefix(ids, p) /\ p \in Nat /\ p + 1 <= start + len
  BY <1>1 DEF DecodeIsPrefill
<1>3. window = Due(x[i], p)
  <2>1. CASE start = 0
    <3>1. p = i /\ \A q \in 0..(len - 1) : x[q] = Prefix(ids, q)
      BY <1>1, <2>1 DEF DecodeIsPrefill
    <3> QED
      BY <1>1, <1>2, <2>1, <3>1, PassReadsDue
  <2>2. CASE start > 0
    <3>1. p = start /\ start + len = start + 1
      BY <1>1, <2>2
    <3>2. RingIdxs = 0..((IF Window < start + 1 THEN Window ELSE start + 1) - 1)
      BY <1>1 DEF RingIdxs
    <3>3. {ring'[lay][s] : s \in RingIdxs} = Due(Prefix(ids, start), start)
      BY <1>1, <2>2, <3>1, <3>2, RingReadsDue
    <3>4. window = {ring'[lay][s] : s \in RingIdxs}
      BY <1>1, <2>2
    <3> HIDE DEF window
    <3> QED
      BY <1>2, <3>1, <3>3, <3>4
  <2> QED
    BY <1>1, <2>1, <2>2
<1>4. CompressIdxs(i, R) = 0..((p + 1) \div R - 1)
  BY <1>1 DEF CompressIdxs
<1>5. R # 0 => CompressIdxs(i, R) = DueRows(R, p)
  BY <1>4 DEF DueRows
<1>6. ASSUME NEW c, R # 0, GroupsHeld(c, ids, R, start + len)
      PROVE  rowsRight(c)
  <2> SUFFICES ASSUME NEW g \in CompressIdxs(i, R) PROVE c.cache[g] = DueCompressed(x[i], R, g)
    OBVIOUS
  <2>1. p + 1 \in Nat /\ start + len \in Nat /\ R \in Nat \ {0}
    BY <1>1, <1>2, <1>6
  <2>2. (p + 1) \div R <= (start + len) \div R /\ (p + 1) \div R \in Nat /\ (start + len) \div R \in Nat
    BY <1>2, <2>1, DivMono, DivMod
  <2>3. g \in Nat /\ g < (p + 1) \div R /\ g \in 0..((start + len) \div R - 1)
    BY <1>4, <2>2
  <2>4. c.cache[g] = DueCompressed(ids, R, g)
    BY <1>6, <2>3 DEF GroupsHeld
  <2> QED
    BY <1>2, <2>1, <2>3, <2>4, DueOfHistory
<1>7. R # 0 => rowsRight(cmp'[lay])
  <2>1. R # 0 => lay \in Compressed
    BY DEF Compressed
  <2> QED
    BY <1>6, <2>1
<1>8. Overlaps(R) => rowsRight(icmp'[lay])
  <2>1. Overlaps(R) => lay \in Indexed /\ R # 0
    BY <1>1 DEF Indexed, Overlaps
  <2> QED
    BY <1>6, <2>1
<1> QED
  BY <1>3, <1>5, <1>7, <1>8 DEF Attended

\* Block.forward of a layer, in a prefill or with the buffers as they should be.
LEMMA ForwardLayerStep ==
    ASSUME TypeOK, DecodeIsPrefill, ForwardLayer, start = 0 \/ BuffersHeld
    PROVE  /\ TypeOK' /\ DecodeIsPrefill'
           /\ BuffersHeld => BuffersHeld'
<1>1. /\ call = "forward" /\ lay \in Layers /\ lay \in Nat
      /\ start \in Nat /\ len \in Nat /\ DOMAIN x = 0..(len - 1) /\ \A i \in DOMAIN x : x[i] \in Rows
      /\ ring \in [Layers -> Ring] /\ Ratio \in [Layers -> Nat] /\ OverlapRatio \in Nat \ {0}
      /\ \A L \in Compressed : L \in Layers /\ Ratio[L] \in Nat \ {0} /\ HasShape(cmp[L], Ratio[L])
      /\ \A L \in Indexed : L \in Compressed /\ HasShape(icmp[L], Ratio[L])
  BY RefAssumption DEF TypeOK, ForwardLayer, Layers, Compressed, Indexed
<1>2. /\ ring' = [ring EXCEPT ![lay] = Ringed(ring[lay], x)]
      /\ cmp' = [L \in Compressed |-> IF L = lay THEN Compress(cmp[L], Ratio[L]) ELSE cmp[L]]
      /\ icmp' = [L \in Indexed |-> IF L = lay THEN Compress(icmp[L], Ratio[L]) ELSE icmp[L]]
      /\ x' = [i \in DOMAIN x |-> Attended(i, lay)]
      /\ lay' = lay + 1
      /\ UNCHANGED <<dirty, texts, ids, start, len, call, dring, draft>>
  BY DEF ForwardLayer
<1>3. \A L \in Layers : /\ FedTo(L)' = IF L = lay THEN start + len ELSE FedTo(L)
                        /\ L = lay => FedTo(L) = start
  <2> TAKE L \in Layers
  <2>1. L \in Nat
    BY DEF Layers
  <2> QED
    BY <1>1, <1>2, <2>1 DEF FedTo
<1>4. ASSUME start > 0
      PROVE  /\ RingHeld(ring[lay], ids, start)
             /\ lay \in Compressed => Compressing(cmp, lay)
             /\ lay \in Indexed => Compressing(icmp, lay)
  BY <1>1, <1>3, <1>4 DEF BuffersHeld, RingsHeld
<1>5. ring'[lay] \in Ring /\ RingHeld(ring'[lay], ids, start + len)
  <2>1. ring'[lay] = Ringed(ring[lay], x) /\ ring[lay] \in Ring
    BY <1>1, <1>2
  <2> QED
    BY <1>1, <1>4, <2>1, RingedRight
<1>6. ASSUME lay \in Compressed
      PROVE  LET R == Ratio[lay] IN
             /\ HasShape(cmp'[lay], R) /\ CompHeld(cmp'[lay], ids, R, start + len)
             /\ (InFirstGroup(R, start) => NothingBehind(cmp[lay], R)) /\ InFirstGroup(R, start + len)
                => NothingBehind(cmp'[lay], R)
  <2>1. cmp'[lay] = Compress(cmp[lay], Ratio[lay])
    BY <1>2, <1>6
  <2>2. start > 0 => /\ CompHeld(cmp[lay], ids, Ratio[lay], start)
                     /\ InFirstGroup(Ratio[lay], start) => NothingBehind(cmp[lay], Ratio[lay])
    BY <1>1, <1>3, <1>4, <1>6 DEF Compressing
  <2> QED
    BY <1>1, <1>6, <2>1, <2>2, CompressRight
<1>7. ASSUME lay \in Indexed
      PROVE  LET R == Ratio[lay] IN
             /\ HasShape(icmp'[lay], R) /\ CompHeld(icmp'[lay], ids, R, start + len)
             /\ (InFirstGroup(R, start) => NothingBehind(icmp[lay], R)) /\ InFirstGroup(R, start + len)
                => NothingBehind(icmp'[lay], R)
  <2>1. icmp'[lay] = Compress(icmp[lay], Ratio[lay])
    BY <1>2, <1>7
  <2>2. start > 0 => /\ CompHeld(icmp[lay], ids, Ratio[lay], start)
                     /\ InFirstGroup(Ratio[lay], start) => NothingBehind(icmp[lay], Ratio[lay])
    BY <1>1, <1>3, <1>4, <1>7 DEF Compressing
  <2>3. HasShape(icmp[lay], Ratio[lay]) /\ Ratio[lay] \in Nat \ {0}
    BY <1>1, <1>7
  <2> QED
    BY <1>1, <2>1, <2>2, <2>3, CompressRight
<1>8. \A i \in DOMAIN x : x'[i] = x[i]
  <2>1. /\ lay \in Compressed => GroupsHeld(cmp'[lay], ids, Ratio[lay], start + len)
        /\ lay \in Indexed => GroupsHeld(icmp'[lay], ids, Ratio[lay], start + len)
    BY <1>6, <1>7 DEF CompHeld
  <2>2. \A i \in DOMAIN x : Attended(i, lay) = x[i]
    BY <1>1, <1>5, <2>1, AttendedRight
  <2> QED
    BY <1>2, <2>2
<1>9. DOMAIN x' = DOMAIN x
  BY <1>2
<1>10. DecodeIsPrefill'
  <2>1. \A i \in DOMAIN x : x'[i] = Prefix(ids', start' + i)
    BY <1>2, <1>8 DEF DecodeIsPrefill
  <2> QED
    BY <1>9, <2>1 DEF DecodeIsPrefill
<1>11. TypeOK'
  <2>1. ring' \in [Layers -> Ring]
    BY <1>1, <1>2, <1>5
  <2>2. DOMAIN cmp' = Compressed /\ \A L \in Compressed : HasShape(cmp'[L], Ratio[L])
    BY <1>1, <1>2, <1>6
  <2>3. DOMAIN icmp' = Indexed /\ \A L \in Indexed : HasShape(icmp'[L], Ratio[L])
    BY <1>1, <1>2, <1>7
  <2>4. lay' \in 0..NLayers
    BY <1>1, <1>2, RefAssumption DEF Layers
  <2>5. DOMAIN x' = 0..(len' - 1) /\ \A i \in DOMAIN x' : x'[i] \in Rows
    BY <1>1, <1>2, <1>8, <1>9
  <2> QED
    BY <1>2, <2>1, <2>2, <2>3, <2>4, <2>5 DEF TypeOK
<1>12. ASSUME BuffersHeld PROVE BuffersHeld'
  <2>1. \A L \in Layers : RingHeld(ring'[L], ids, FedTo(L)')
    BY <1>1, <1>2, <1>3, <1>5, <1>12 DEF BuffersHeld, RingsHeld
  <2>2. \A L \in Compressed : /\ CompHeld(cmp'[L], ids, Ratio[L], FedTo(L)')
                              /\ InFirstGroup(Ratio[L], FedTo(L)') => NothingBehind(cmp'[L], Ratio[L])
    <3> TAKE L \in Compressed
    <3>1. Compressing(cmp, L)
      BY <1>12 DEF BuffersHeld
    <3>2. CASE L = lay
      BY <1>1, <1>3, <1>6, <3>1, <3>2 DEF Compressing
    <3>3. CASE L # lay
      BY <1>1, <1>2, <1>3, <3>1, <3>3 DEF Compressing
    <3> QED
      BY <3>2, <3>3
  <2>3. \A L \in Indexed : /\ CompHeld(icmp'[L], ids, Ratio[L], FedTo(L)')
                           /\ InFirstGroup(Ratio[L], FedTo(L)') => NothingBehind(icmp'[L], Ratio[L])
    <3> TAKE L \in Indexed
    <3>1. Compressing(icmp, L)
      BY <1>12 DEF BuffersHeld
    <3>2. CASE L = lay
      BY <1>1, <1>3, <1>7, <3>1, <3>2 DEF Compressing
    <3>3. CASE L # lay
      BY <1>1, <1>2, <1>3, <3>1, <3>3 DEF Compressing
    <3> QED
      BY <3>2, <3>3
  <2>4. \A s \in Stages : RingHeld(dring'[s], ids, FedToStages')
    BY <1>2, <1>12 DEF BuffersHeld, RingsHeld, FedToStages
  <2>5. \A R, n : InFirstGroup(R, n)' <=> InFirstGroup(R, n)
    BY <1>2 DEF InFirstGroup
  <2> QED
    BY <1>2, <2>1, <2>2, <2>3, <2>4, <2>5 DEF BuffersHeld, RingsHeld, Compressing
<1> QED
  BY <1>10, <1>11, <1>12

-----------------------------------------------------------------------------
(* Between the layers. *)

\* The model begins with its buffers' shapes, and nothing fed.
LEMMA InitRight ==
    ASSUME Init
    PROVE  TypeOK /\ DecodeIsPrefill /\ DraftRight /\ BuffersHeld
<1>1. /\ dirty \in BOOLEAN /\ texts = 0 /\ ids \in Texts
      /\ start = 0 /\ len = 0 /\ call = "none" /\ lay = 0 /\ x = << >> /\ draft = "none"
      /\ ring = [L \in Layers |-> [s \in 0..(Window - 1) |-> Junk]]
      /\ cmp = [L \in Compressed |-> IF dirty THEN Garbage(Ratio[L]) ELSE Created(Ratio[L])]
      /\ icmp = [L \in Indexed |-> cmp[L]]
      /\ dring = [s \in Stages |-> [i \in 0..(Window - 1) |-> Junk]]
  BY DEF Init
<1>2. \A L \in Compressed : HasShape(cmp[L], Ratio[L])
  BY <1>1 DEF HasShape, Garbage, Created
<1>3. \A L \in Indexed : L \in Compressed /\ L \in Layers /\ Ratio[L] \in Nat \ {0}
  BY RefAssumption DEF Indexed, Compressed
<1>4. \A L \in Compressed : L \in Layers /\ Ratio[L] \in Nat \ {0}
  BY RefAssumption DEF Compressed
<1>5. TypeOK
  <2>1. Junk \in Rows
    BY DEF Rows
  <2>2. ring \in [Layers -> Ring] /\ dring \in [Stages -> Ring]
    BY <1>1, <2>1 DEF Ring
  <2>3. 0..(len - 1) = {} /\ start + len <= MaxSeq /\ 0 \in 0..NLayers /\ 0 \in Nat
    BY <1>1, RefAssumption
  <2>4. DOMAIN x = {}
    BY <1>1
  <2>5. DOMAIN cmp = Compressed /\ DOMAIN icmp = Indexed /\ \A L \in Indexed : HasShape(icmp[L], Ratio[L])
    BY <1>1, <1>2, <1>3
  <2>6. /\ start \in Nat /\ len \in Nat /\ texts \in Nat /\ start + len = 0
        /\ ~(start > 0) /\ ~(texts > 0)
    BY <1>1
  <2> QED
    BY <1>1, <1>2, <2>2, <2>3, <2>4, <2>5, <2>6 DEF TypeOK
<1>6. DecodeIsPrefill
  BY <1>1 DEF DecodeIsPrefill
<1>7. \A L : FedTo(L) = 0
  BY <1>1 DEF FedTo
<1>8. FedToStages = 0
  BY <1>1 DEF FedToStages
<1>9. \A r : RingHeld(r, ids, 0)
  BY DEF RingHeld
<1>10. ASSUME NEW R \in Nat \ {0}, NEW c
       PROVE  CompHeld(c, ids, R, 0)
  <2>1. 0 \in Nat /\ 0 \in 0..(R - 1) /\ 0 = 0 * R + 0
    OBVIOUS
  <2>2. 0 \div R = 0 /\ 0 % R = 0
    BY <2>1, DivUnique
  <2> QED
    BY <2>2 DEF CompHeld, GroupsHeld, RestHeld, PreviousHeld
<1>11. ASSUME NEW L \in Compressed, InFirstGroup(Ratio[L], 0)
       PROVE  NothingBehind(cmp[L], Ratio[L])
  <2>1. ~dirty /\ Overlaps(Ratio[L])
    BY <1>1, <1>11 DEF InFirstGroup
  <2>2. cmp[L] = Created(Ratio[L]) /\ Ratio[L] \in Nat \ {0}
    BY <1>1, <1>4, <2>1
  <2> QED
    BY <2>1, <2>2 DEF Created, NothingBehind, States
<1>12. BuffersHeld
  BY <1>1, <1>3, <1>4, <1>7, <1>8, <1>9, <1>10, <1>11 DEF BuffersHeld, RingsHeld, Compressing
<1> QED
  BY <1>1, <1>5, <1>6, <1>12 DEF DraftRight

\* A text begins: nothing of it is fed, and less than a group only behind nothing.
LEMMA StartTextStep ==
    ASSUME TypeOK, BuffersHeld, NEW t \in Texts, NEW n \in PromptLens, StartText(t, n)
    PROVE  TypeOK' /\ DecodeIsPrefill' /\ BuffersHeld'
<1>1. /\ call = "none" /\ (dirty => n >= OverlapRatio)
      /\ ids' = t /\ texts' = texts + 1 /\ dirty' = TRUE
      /\ start' = 0 /\ len' = n /\ call' = "forward" /\ lay' = 0
      /\ x' = [i \in 0..(n - 1) |-> Prefix(t, i)]
      /\ UNCHANGED <<buffers, draft>>
  BY DEF StartText
<1>2. n \in Nat /\ n > 0 /\ n <= MaxSeq /\ texts \in Nat /\ OverlapRatio \in Nat \ {0} /\ Ratio \in [Layers -> Nat]
  BY RefAssumption DEF TypeOK
<1>3. \A i \in 0..(n - 1) : Prefix(t, i) \in Rows
  <2> TAKE i \in 0..(n - 1)
  <2>1. i \in 0..(MaxSeq - 1)
    BY <1>2, RefAssumption
  <2> QED
    BY <2>1, PrefixIsRow
<1>4. TypeOK'
  BY <1>1, <1>2, <1>3, RefAssumption DEF TypeOK, buffers
<1>5. DecodeIsPrefill'
  BY <1>1, <1>2 DEF DecodeIsPrefill
<1>6. \A L \in Layers : FedTo(L)' = 0
  BY <1>1 DEF FedTo, Layers
<1>7. FedToStages' = 0
  BY <1>1 DEF FedToStages
<1>8. \A r : RingHeld(r, t, 0)
  BY DEF RingHeld
<1>9. ASSUME NEW R \in Nat \ {0}, NEW c
      PROVE  CompHeld(c, t, R, 0)
  <2>1. 0 \in Nat /\ 0 \in 0..(R - 1) /\ 0 = 0 * R + 0
    OBVIOUS
  <2>2. 0 \div R = 0 /\ 0 % R = 0
    BY <2>1, DivUnique
  <2> QED
    BY <2>2 DEF CompHeld, GroupsHeld, RestHeld, PreviousHeld
<1>10. ASSUME NEW L \in Layers, InFirstGroup(Ratio[L], 0)'
       PROVE  InFirstGroup(Ratio[L], FedTo(L))
  <2>1. Overlaps(Ratio[L]) /\ n < Ratio[L] /\ Ratio[L] = OverlapRatio
    BY <1>1, <1>10 DEF InFirstGroup, Overlaps
  <2>2. ~dirty
    BY <1>1, <1>2, <2>1
  <2>3. FedTo(L) = 0
    BY <1>1, <2>2 DEF FedTo, TypeOK
  <2> QED
    BY <1>2, <2>1, <2>2, <2>3 DEF InFirstGroup
<1>11. /\ \A L \in Compressed : L \in Layers /\ Ratio[L] \in Nat \ {0}
       /\ \A L \in Indexed : L \in Layers /\ Ratio[L] \in Nat \ {0}
  BY <1>2 DEF Compressed, Indexed
<1>12. /\ \A L \in Compressed : Compressing(cmp, L)'
       /\ \A L \in Indexed : Compressing(icmp, L)'
  <2>1. ASSUME NEW L \in Compressed PROVE Compressing(cmp, L)'
    <3>1. Compressing(cmp, L)
      BY DEF BuffersHeld
    <3> QED
      BY <1>1, <1>6, <1>9, <1>10, <1>11, <3>1 DEF Compressing, buffers
  <2>2. ASSUME NEW L \in Indexed PROVE Compressing(icmp, L)'
    <3>1. Compressing(icmp, L)
      BY DEF BuffersHeld
    <3> QED
      BY <1>1, <1>6, <1>9, <1>10, <1>11, <3>1 DEF Compressing, buffers
  <2> QED
    BY <2>1, <2>2
<1>13. BuffersHeld'
  BY <1>1, <1>6, <1>7, <1>8, <1>12 DEF BuffersHeld, RingsHeld, buffers
<1> QED
  BY <1>4, <1>5, <1>13

\* What holds of a buffer holds after a step that neither changes nor feeds it.
LEMMA BuffersKept ==
    ASSUME BuffersHeld, UNCHANGED <<ids, ring, cmp, icmp, dring>>,
           \A L \in Layers : FedTo(L)' = FedTo(L), FedToStages' = FedToStages,
           \A L \in Compressed : InFirstGroup(Ratio[L], FedTo(L))' => InFirstGroup(Ratio[L], FedTo(L))
    PROVE  BuffersHeld'
<1>1. \A L \in Compressed : L \in Layers
  BY DEF Compressed
<1>2. \A L \in Indexed : L \in Compressed
  BY RefAssumption DEF Indexed, Compressed
<1>3. ASSUME NEW L \in Compressed, NEW cs, Compressing(cs, L)
      PROVE  /\ CompHeld(cs[L], ids', Ratio[L], FedTo(L)')
             /\ InFirstGroup(Ratio[L], FedTo(L))' => NothingBehind(cs[L], Ratio[L])
  BY <1>1, <1>3 DEF Compressing
<1>4. \A L \in Compressed : Compressing(cmp, L)'
  BY <1>3 DEF BuffersHeld, Compressing
<1>5. \A L \in Indexed : Compressing(icmp, L)'
  BY <1>2, <1>3 DEF BuffersHeld, Compressing
<1> QED
  BY <1>4, <1>5 DEF BuffersHeld, RingsHeld

\* The next token is fed to no layer yet: what was fed before is what is held.
LEMMA NextTokenStep ==
    ASSUME TypeOK, BuffersHeld, NextToken
    PROVE  TypeOK' /\ DecodeIsPrefill' /\ BuffersHeld'
<1>1. /\ call = "none" /\ texts > 0 /\ start + len < MaxSeq
      /\ start' = start + len /\ len' = 1 /\ call' = "forward" /\ lay' = 0
      /\ x' = [i \in {0} |-> Prefix(ids, start')]
      /\ UNCHANGED <<dirty, texts, ids, buffers, draft>>
  BY DEF NextToken
<1>2. /\ start \in Nat /\ len \in Nat /\ len > 0 /\ texts \in Nat /\ ids \in Texts
      /\ MaxSeq \in Nat /\ NLayers \in Nat
  BY <1>1, RefAssumption DEF TypeOK
<1>3. start' \in 0..(MaxSeq - 1) /\ start' > 0 /\ start' + 1 <= MaxSeq
  BY <1>1, <1>2
<1>4. DOMAIN x' = 0..(len' - 1) /\ x'[0] = Prefix(ids, start') /\ x'[0] \in Rows
  <2>1. 0..(len' - 1) = {0}
    BY <1>1
  <2>2. Prefix(ids, start') \in Rows
    BY <1>2, <1>3, PrefixIsRow
  <2> QED
    BY <1>1, <2>1, <2>2
<1>5. TypeOK'
  <2>1. \A i \in DOMAIN x' : x'[i] \in Rows
    BY <1>1, <1>4
  <2>2. 0 \in 0..NLayers /\ start' \in Nat /\ len' \in Nat /\ start' + len' <= MaxSeq /\ ~(texts = 0)
    BY <1>1, <1>2, <1>3
  <2> QED
    BY <1>1, <1>2, <1>3, <1>4, <2>1, <2>2 DEF TypeOK, buffers
<1>6. DecodeIsPrefill'
  <2>1. ids' = ids /\ \A i \in DOMAIN x' : i = 0
    BY <1>1
  <2>2. start' + 0 = start'
    BY <1>1, <1>2
  <2> QED
    BY <1>4, <2>1, <2>2 DEF DecodeIsPrefill
<1>7. \A L \in Layers : FedTo(L)' = FedTo(L)
  BY <1>1 DEF FedTo, Layers
<1>8. FedToStages' = FedToStages
  BY <1>1 DEF FedToStages
<1>9. \A L \in Compressed : InFirstGroup(Ratio[L], FedTo(L))' => InFirstGroup(Ratio[L], FedTo(L))
  <2> TAKE L \in Compressed
  <2>1. L \in Layers /\ FedTo(L)' = FedTo(L) /\ FedTo(L) = start + len /\ FedTo(L) > 0
    BY <1>1, <1>2, <1>7 DEF Compressed, FedTo
  <2> QED
    BY <1>1, <2>1 DEF InFirstGroup
<1>10. BuffersHeld'
  BY <1>1, <1>7, <1>8, <1>9, BuffersKept DEF buffers
<1> QED
  BY <1>5, <1>6, <1>10

\* The head changes what the caller is in.
LEMMA ForwardHeadStep ==
    ASSUME TypeOK, DecodeIsPrefill, BuffersHeld, ForwardHead
    PROVE  TypeOK' /\ DecodeIsPrefill' /\ BuffersHeld'
<1>1. /\ call = "forward" /\ lay = NLayers /\ call' = "spec"
      /\ UNCHANGED <<dirty, texts, ids, start, len, lay, x, buffers, draft>>
  BY DEF ForwardHead
<1>2. TypeOK' /\ DecodeIsPrefill'
  BY <1>1 DEF TypeOK, DecodeIsPrefill, buffers
<1>3. \A L \in Layers : FedTo(L)' = FedTo(L)
  <2> TAKE L \in Layers
  <2>1. ~(NLayers <= L)
    BY RefAssumption DEF Layers
  <2> QED
    BY <1>1, <2>1 DEF FedTo
<1>4. FedToStages' = FedToStages
  BY <1>1 DEF FedToStages
<1>5. \A L \in Compressed : InFirstGroup(Ratio[L], FedTo(L))' => InFirstGroup(Ratio[L], FedTo(L))
  <2> TAKE L \in Compressed
  <2>1. L \in Layers /\ FedTo(L)' = FedTo(L)
    BY <1>3 DEF Compressed
  <2> QED
    BY <1>1, <2>1 DEF InFirstGroup
<1>6. BuffersHeld'
  BY <1>1, <1>3, <1>4, <1>5, BuffersKept DEF buffers
<1> QED
  BY <1>2, <1>6

\* The stages' rings take the rows of the call; a draft reads what is due to it.
LEMMA ForwardSpecStep ==
    ASSUME TypeOK, DecodeIsPrefill, BuffersHeld, DraftRight, ForwardSpec
    PROVE  TypeOK' /\ DecodeIsPrefill' /\ BuffersHeld' /\ DraftRight'
<1>1. /\ call = "spec" /\ call' = "none"
      /\ dring' = [s \in Stages |-> Ringed(dring[s], x)]
      /\ draft' = IF start = 0 THEN "none"
                  ELSE IF \A s \in Stages : {dring'[s][i] : i \in DraftSlots} = Due(Prefix(ids, start), start)
                  THEN "right" ELSE "wrong"
      /\ UNCHANGED <<dirty, texts, ids, start, len, lay, x, ring, cmp, icmp>>
  BY DEF ForwardSpec
<1>2. start \in Nat /\ len \in Nat /\ (start > 0 => len = 1) /\ dring \in [Stages -> Ring]
  BY DEF TypeOK
<1>3. \A s \in Stages : dring'[s] \in Ring /\ RingHeld(dring'[s], ids, start + len)
  <2> TAKE s \in Stages
  <2>1. dring[s] \in Ring /\ dring'[s] = Ringed(dring[s], x)
    BY <1>1, <1>2
  <2>2. RingHeld(dring[s], ids, start)
    BY <1>1 DEF BuffersHeld, RingsHeld, FedToStages
  <2>3. call # "none"
    BY <1>1
  <2> QED
    BY <2>1, <2>2, <2>3, RingedRight
<1>4. dring' \in [Stages -> Ring]
  BY <1>1, <1>3
<1>5. draft' \in {"none", "right"}
  <2>1. CASE start = 0
    BY <1>1, <2>1
  <2>2. CASE start > 0
    <3>1. start + len = start + 1
      BY <1>2, <2>2
    <3>2. DraftSlots = 0..((IF Window < start + 1 THEN Window ELSE start + 1) - 1)
      BY DEF DraftSlots
    <3>3. ASSUME NEW s \in Stages
          PROVE  {dring'[s][i] : i \in DraftSlots} = Due(Prefix(ids, start), start)
      <4>1. RingHeld(dring'[s], ids, start + 1)
        BY <1>3, <3>1
      <4> QED
        BY <1>2, <3>2, <4>1, RingReadsDue
    <3> QED
      BY <1>1, <3>3
  <2> QED
    BY <1>2, <2>1, <2>2
<1>6. TypeOK'
  BY <1>1, <1>4, <1>5 DEF TypeOK
<1>7. DecodeIsPrefill' /\ DraftRight'
  BY <1>1, <1>5 DEF DecodeIsPrefill, DraftRight
<1>8. \A L \in Layers : FedTo(L)' = FedTo(L)
  BY <1>1 DEF FedTo
<1>9. FedToStages' = start + len
  BY <1>1 DEF FedToStages
<1>10. \A L \in Compressed : L \in Layers
  BY DEF Compressed
<1>11. \A L \in Indexed : L \in Layers
  BY DEF Indexed
<1>12. \A R, n : InFirstGroup(R, n)' <=> InFirstGroup(R, n)
  BY <1>1 DEF InFirstGroup
<1>13. ASSUME NEW L \in Layers, NEW cs, Compressing(cs, L)
       PROVE  /\ CompHeld(cs[L], ids', Ratio[L], FedTo(L)')
              /\ InFirstGroup(Ratio[L], FedTo(L)') => NothingBehind(cs[L], Ratio[L])
  BY <1>1, <1>8, <1>13 DEF Compressing
<1>14. \A L \in Compressed : Compressing(cmp, L)'
  BY <1>1, <1>10, <1>12, <1>13 DEF BuffersHeld, Compressing
<1>15. \A L \in Indexed : Compressing(icmp, L)'
  BY <1>1, <1>11, <1>12, <1>13 DEF BuffersHeld, Compressing
<1>16. BuffersHeld'
  BY <1>1, <1>3, <1>8, <1>9, <1>14, <1>15 DEF BuffersHeld, RingsHeld
<1> QED
  BY <1>6, <1>7, <1>16

\* A step of the model on its own.
LEMMA ModelStep ==
    ASSUME TypeOK, DecodeIsPrefill, DraftRight, BuffersHeld, Next
    PROVE  TypeOK' /\ DecodeIsPrefill' /\ DraftRight' /\ BuffersHeld'
<1>1. CASE \E t \in Texts, n \in PromptLens : StartText(t, n)
  <2>1. PICK t \in Texts, n \in PromptLens : StartText(t, n)
    BY <1>1
  <2>2. TypeOK' /\ DecodeIsPrefill' /\ BuffersHeld'
    BY <2>1, StartTextStep
  <2>3. DraftRight'
    BY <2>1 DEF StartText, DraftRight
  <2> QED
    BY <2>2, <2>3
<1>2. CASE NextToken
  <2>1. TypeOK' /\ DecodeIsPrefill' /\ BuffersHeld'
    BY <1>2, NextTokenStep
  <2>2. DraftRight'
    BY <1>2 DEF NextToken, DraftRight
  <2> QED
    BY <2>1, <2>2
<1>3. CASE ForwardLayer
  <2>1. TypeOK' /\ DecodeIsPrefill' /\ BuffersHeld'
    BY <1>3, ForwardLayerStep
  <2>2. DraftRight'
    BY <1>3 DEF ForwardLayer, DraftRight
  <2> QED
    BY <2>1, <2>2
<1>4. CASE ForwardHead
  <2>1. TypeOK' /\ DecodeIsPrefill' /\ BuffersHeld'
    BY <1>4, ForwardHeadStep
  <2>2. DraftRight'
    BY <1>4 DEF ForwardHead, DraftRight
  <2> QED
    BY <2>1, <2>2
<1>5. CASE ForwardSpec
  BY <1>5, ForwardSpecStep
<1> QED
  BY <1>1, <1>2, <1>3, <1>4, <1>5 DEF Next

-----------------------------------------------------------------------------
(* The loader. *)

\* What a mode loads is fixed when it begins.
LEMMA Fixed ==
    ASSUME UNCHANGED <<mode, target, files>>
    PROVE  /\ Parameters' = Parameters /\ Wanted' = Wanted /\ Constructed' = Constructed
           /\ Complete' = Complete /\ LayerFits(mode, target)' = LayerFits(mode, target)
           /\ \A n : InCheckpoint(n)' = InCheckpoint(n)
<1>1. Constructed' = Constructed
  BY DEF Constructed
<1>2. Parameters' = Parameters /\ Wanted' = Wanted
  BY <1>1 DEF Parameters, Wanted
<1>3. \A n : InCheckpoint(n)' = InCheckpoint(n)
  BY DEF InCheckpoint
<1>4. Complete' = Complete
  BY <1>2, <1>3 DEF Complete, InCheckpoint
<1> QED
  BY <1>1, <1>2, <1>3, <1>4

\* The weights and scales a layer may have, and the scale of each.
LEMMA ParametersAre ==
    /\ Parameters \subseteq Wanted
    /\ Tensor("attn.wo_a", "weight") \in Parameters
    /\ ScaleOf(Tensor("attn.wo_a", "weight")) = Tensor("attn.wo_a", "scale")
    /\ \A n \in Parameters : /\ n = Tensor(n.of, n.part)
                             /\ n.of \in Constructed /\ n.part \in {"weight", "scale"}
                             /\ n.part = "scale" => n.of \in Fp8 \cup Fp4
                             /\ n.of # "attn.kv_cache"
<1>1. Parameters \subseteq Wanted
  BY DEF Wanted
<1>2. {"attn.linear", "attn.wo_a", "attn.norms"} \subseteq Constructed
  BY DEF Constructed, BlockOf, AttentionOf
<1>3. Tensor("attn.wo_a", "weight") \in Parameters
  <2>1. "attn.wo_a" \in Constructed /\ "weight" \in Parts("attn.wo_a")
    BY <1>2 DEF Parts
  <2> QED
    BY <2>1 DEF Parameters
<1>4. ScaleOf(Tensor("attn.wo_a", "weight")) = Tensor("attn.wo_a", "scale")
  BY DEF ScaleOf, Tensor
<1>5. ASSUME NEW n \in Parameters
      PROVE  /\ n = Tensor(n.of, n.part)
             /\ n.of \in Constructed /\ n.part \in {"weight", "scale"}
             /\ n.part = "scale" => n.of \in Fp8 \cup Fp4
             /\ n.of # "attn.kv_cache"
  <2>1. PICK o \in Constructed : \E part \in Parts(o) : n = Tensor(o, part)
    BY DEF Parameters
  <2>2. PICK part \in Parts(o) : n = Tensor(o, part)
    BY <2>1
  <2>3. n.of = o /\ n.part = part
    BY <2>2 DEF Tensor
  <2>4. part \in {"weight", "scale"} /\ (part = "scale" => o \in Fp8 \cup Fp4)
    BY <2>2 DEF Parts
  <2>5. o # "attn.kv_cache"
    BY DEF Constructed, BlockOf, AttentionOf
  <2> QED
    BY <2>2, <2>3, <2>4, <2>5
<1> QED
  BY <1>1, <1>3, <1>4, <1>5

\* Everything of the shards read is at hand: once all are, everything there is.
LEMMA ReadShardStep ==
    ASSUME Loaded, ReadShard
    PROVE  Loaded'
<1>1. /\ phase = "read" /\ phase' = (IF toRead' = {} THEN "load" ELSE "read")
      /\ UNCHANGED <<mode, target, files, toLoad, params, golden, vars>>
  BY DEF ReadShard
<1>2. PICK s \in toRead :
        LET keys == {k \in toLoad \cup {ScaleOf(n) : n \in toLoad} : k \in DOMAIN files.index /\ files.index[k] = s}
        IN  toRead' = toRead \ {s} /\ tensors' = tensors \cup (keys \cap files.shards[s])
  BY DEF ReadShard
<1>3. toLoad = Wanted
  BY <1>1 DEF Loaded
<1>4. ASSUME Complete, NEW n \in Parameters \cup {Tensor("attn.wo_a", "scale")}
      PROVE  n \in tensors' \/ files.index[n] \in toRead'
  <2>1. n \in tensors \/ files.index[n] \in toRead
    BY <1>4 DEF Loaded
  <2>2. n \in DOMAIN files.index /\ n \in files.shards[files.index[n]]
    BY <1>4 DEF Complete, InCheckpoint
  <2>3. n \in toLoad \cup {ScaleOf(m) : m \in toLoad}
    BY <1>3, ParametersAre
  <2> QED
    BY <1>2, <2>1, <2>2, <2>3
<1>5. /\ Parameters' = Parameters /\ Wanted' = Wanted /\ Complete' = Complete
      /\ LayerFits(mode, target)' = LayerFits(mode, target)
  BY <1>1, Fixed
<1>6. Complete' => \A n \in (Parameters \cup {Tensor("attn.wo_a", "scale")})' : n \in tensors' \/ files'.index[n] \in toRead'
  BY <1>1, <1>4, <1>5
<1>7. (Complete => \A n \in Parameters \ toLoad : params[n] = DueValue(n))'
  <2>1. Parameters \ toLoad = {}
    BY <1>3, ParametersAre
  <2> QED
    BY <1>1, <1>5, <2>1
<1>8. phase' \in {"read", "load"} /\ (phase' # "read" => toRead' = {})
  BY <1>1
<1> QED
  BY <1>1, <1>3, <1>5, <1>6, <1>7, <1>8 DEF Loaded

\* Of a complete checkpoint, what is assigned is what is due.
LEMMA AssignedDue ==
    ASSUME Loaded, Complete, toRead = {}, NEW n \in Parameters
    PROVE  n \in tensors /\ Assigned(n) = DueValue(n)
<1>1. \A m \in Parameters \cup {Tensor("attn.wo_a", "scale")} : m \in tensors
  BY DEF Loaded
<1>2. CASE n.of = "attn.wo_a"
  <2>1. n = Tensor("attn.wo_a", "weight")
    <3>1. n.part = "weight"
      BY <1>2, ParametersAre DEF Fp8, Fp4
    <3> QED
      BY <1>2, <3>1, ParametersAre
  <2>2. ScaleRead(n)
    BY <1>1, <2>1, ParametersAre DEF ScaleRead
  <2> QED
    BY <1>1, <1>2, <2>2 DEF Assigned, DueValue, Fp4
<1>3. CASE n.of # "attn.wo_a"
  BY <1>1, <1>3 DEF Assigned, DueValue
<1> QED
  BY <1>2, <1>3

\* One turn of the assigning loop.
LEMMA AssignTensorStep ==
    ASSUME Loaded, AssignTensor
    PROVE  Loaded'
<1>1. /\ phase = "load" /\ phase' = (IF toLoad' = {} THEN "forward" ELSE "load")
      /\ UNCHANGED <<mode, target, files, toRead, tensors, golden, vars>>
  BY DEF AssignTensor
<1>2. PICK n \in toLoad :
        /\ toLoad' = toLoad \ {n}
        /\ params' = IF n \notin tensors THEN params
                     ELSE [m \in DOMAIN params |->
                             IF m = n THEN Assigned(n)
                             ELSE IF m = ScaleOf(n) /\ ScaleRead(n) THEN <<"raw", m>>
                             ELSE params[m]]
  BY DEF AssignTensor
<1>3. /\ toRead = {} /\ toLoad \subseteq Wanted /\ DOMAIN params = Wanted
  BY <1>1 DEF Loaded
<1>4. /\ Parameters' = Parameters /\ Wanted' = Wanted /\ Complete' = Complete
      /\ LayerFits(mode, target)' = LayerFits(mode, target)
  BY <1>1, Fixed
<1>5. ASSUME Complete, NEW m \in Parameters, m \notin toLoad'
      PROVE  params'[m] = DueValue(m)
  <2>1. m \in DOMAIN params
    BY <1>3, ParametersAre
  <2>2. CASE m = n
    <3>1. m \in tensors /\ Assigned(m) = DueValue(m)
      BY <1>3, <1>5, AssignedDue
    <3> QED
      BY <1>2, <2>1, <2>2, <3>1
  <2>3. CASE m # n
    <3>1. params[m] = DueValue(m)
      BY <1>2, <1>5, <2>3 DEF Loaded
    <3>2. ASSUME m = ScaleOf(n) PROVE DueValue(m) = <<"raw", m>>
      <4>1. m.part # "weight"
        BY <3>2, <2>3 DEF ScaleOf
      <4>2. m.of \in Fp8 \cup Fp4
        BY <4>1, ParametersAre
      <4>3. m.of # "attn.wo_a"
        BY <4>2 DEF Fp8, Fp4
      <4> QED
        BY <4>1, <4>3 DEF DueValue
    <3> QED
      BY <1>2, <2>1, <2>3, <3>1, <3>2
  <2> QED
    BY <2>2, <2>3
<1>6. DOMAIN params' = DOMAIN params /\ toLoad' \subseteq toLoad
  BY <1>2
<1>7. (Complete => \A m \in Parameters \ toLoad : params[m] = DueValue(m))'
  <2>1. \A m : DueValue(m)' = DueValue(m)
    BY DEF DueValue
  <2> QED
    BY <1>4, <1>5, <2>1
<1>8. (Complete => \A m \in Parameters \cup {Tensor("attn.wo_a", "scale")} : m \in tensors \/ files.index[m] \in toRead)'
  BY <1>1, <1>4 DEF Loaded
<1>9. phase' \in {"load", "forward"} /\ (phase' \notin {"read", "load"} => toLoad' = {}) /\ toRead' = {}
  BY <1>1, <1>3
<1> QED
  BY <1>1, <1>3, <1>4, <1>6, <1>7, <1>8, <1>9 DEF Loaded

\* What a mode dumps is what it constructed, for a layer it covers.
LEMMA DumpsAre ==
    ASSUME mode \in {"block", "mla", "cmla"}, target \in Layers, LayerFits(mode, target)
    PROVE  Dumps(mode, target) = Constructed
<1>1. OverlapRatio # 0
  BY RefAssumption
<1>2. CASE mode = "block"
  BY <1>1, <1>2 DEF LayerFits, Dumps, Constructed, BlockOf, AttentionOf
<1>3. CASE mode = "mla"
  BY <1>1, <1>3 DEF LayerFits, Dumps, Constructed, AttentionOf
<1>4. CASE mode = "cmla"
  BY <1>1, <1>4 DEF LayerFits, Dumps, Constructed, AttentionOf, Indexed
<1> QED
  BY <1>2, <1>3, <1>4

\* What is dumped of a complete checkpoint is all of it, as it is due.
LEMMA DumpStep ==
    ASSUME Loaded, CalledOnce, DecodeIsPrefill, TypeOK, Dump
    PROVE  Loaded' /\ CalledOnce' /\ GoldenRight'
<1>1. /\ phase = "dump" /\ phase' = "done"
      /\ golden' = [n \in {n \in DOMAIN params : n.of \in Dumps(mode, target)} |-> params[n]]
      /\ UNCHANGED <<mode, target, files, toRead, tensors, toLoad, params, vars>>
  BY DEF Dump
<1>2. /\ Parameters' = Parameters /\ Wanted' = Wanted /\ Complete' = Complete
      /\ LayerFits(mode, target)' = LayerFits(mode, target)
  BY <1>1, Fixed
<1>3. \A m : DueValue(m)' = DueValue(m)
  BY DEF DueValue
<1>4. Loaded'
  BY <1>1, <1>2, <1>3 DEF Loaded
<1>5. CalledOnce'
  BY <1>1 DEF CalledOnce, vars
<1>6. DOMAIN params = Wanted /\ toLoad = {}
  BY <1>1 DEF Loaded
<1>7. {n \in DOMAIN params : n.of \in Dumps(mode, target)} = Parameters
  <2>1. Dumps(mode, target) = Constructed
    BY DumpsAre DEF Loaded
  <2>2. \A n \in Parameters : n \in Wanted /\ n.of \in Constructed
    BY ParametersAre
  <2>3. \A n \in Wanted \ Parameters : n.of = "attn.kv_cache"
    BY DEF Wanted, Tensor
  <2>4. "attn.kv_cache" \notin Constructed
    BY DEF Constructed, BlockOf, AttentionOf
  <2> QED
    BY <1>6, <2>1, <2>2, <2>3, <2>4
<1>8. Complete => \A n \in Parameters : golden'[n] = DueValue(n)
  BY <1>1, <1>6, <1>7 DEF Loaded
<1>9. \A i \in DOMAIN x : x[i] = Prefix(ids, i)
  <2>1. DOMAIN x = 0..(len - 1) /\ len \in Nat /\ start = 0
    BY <1>1 DEF TypeOK, Loaded, CalledOnce
  <2>2. \A i \in DOMAIN x : start + i = i
    BY <2>1
  <2> QED
    BY <2>2 DEF DecodeIsPrefill
<1>10. DOMAIN golden' = Parameters
  BY <1>1, <1>7
<1>11. GoldenRight'
  BY <1>1, <1>2, <1>3, <1>8, <1>9, <1>10 DEF GoldenRight, vars
<1> QED
  BY <1>4, <1>5, <1>11

\* The one call of the layer, and the layer's step.
LEMMA CallLayerStep ==
    ASSUME TypeOK, Loaded, CalledOnce, CallLayer
    PROVE  TypeOK' /\ DecodeIsPrefill' /\ Loaded' /\ CalledOnce'
<1>1. /\ phase = "forward" /\ call = "none"
      /\ start' = 0 /\ texts' = texts + 1 /\ dirty' = TRUE /\ call' = "forward" /\ lay' = target
      /\ UNCHANGED <<buffers, draft, goldenVars>>
  BY DEF CallLayer
<1>2. PICK t \in Texts, n \in PromptLens :
        ids' = t /\ len' = n /\ x' = [i \in 0..(n - 1) |-> Prefix(t, i)]
  BY DEF CallLayer
<1>3. n \in Nat /\ n > 0 /\ n <= MaxSeq /\ texts \in Nat
  BY RefAssumption DEF TypeOK
<1>4. \A i \in 0..(n - 1) : Prefix(t, i) \in Rows
  <2> TAKE i \in 0..(n - 1)
  <2>1. i \in 0..(MaxSeq - 1)
    BY <1>3, RefAssumption
  <2> QED
    BY <2>1, PrefixIsRow
<1>5. target \in 0..NLayers
  BY RefAssumption DEF Loaded, Layers
<1>6. TypeOK'
  BY <1>1, <1>2, <1>3, <1>4, <1>5, RefAssumption DEF TypeOK, buffers
<1>7. DecodeIsPrefill'
  BY <1>1, <1>2, <1>3 DEF DecodeIsPrefill
<1>8. UNCHANGED <<mode, target, files, toRead, tensors, toLoad, params, golden, phase>>
  BY <1>1 DEF goldenVars
<1>9. Loaded'
  <2>1. /\ Parameters' = Parameters /\ Wanted' = Wanted /\ Complete' = Complete
        /\ LayerFits(mode, target)' = LayerFits(mode, target)
    BY <1>8, Fixed
  <2>2. \A m : DueValue(m)' = DueValue(m)
    BY DEF DueValue
  <2> QED
    BY <1>8, <2>1, <2>2 DEF Loaded
<1>10. CalledOnce'
  BY <1>1, <1>8 DEF CalledOnce
<1> QED
  BY <1>6, <1>7, <1>9, <1>10

LEMMA RunLayerStep ==
    ASSUME TypeOK, DecodeIsPrefill, Loaded, CalledOnce, RunLayer
    PROVE  TypeOK' /\ DecodeIsPrefill' /\ Loaded' /\ CalledOnce'
<1>1. /\ phase = "forward" /\ ForwardLayer /\ phase' = "dump"
      /\ UNCHANGED <<mode, target, files, toRead, tensors, toLoad, params, golden>>
  BY DEF RunLayer
<1>2. start = 0 /\ call = "forward" /\ UNCHANGED <<start, call, texts>>
  BY <1>1 DEF CalledOnce, ForwardLayer
<1>3. TypeOK' /\ DecodeIsPrefill'
  BY <1>1, <1>2, ForwardLayerStep
<1>4. Loaded'
  <2>1. /\ Parameters' = Parameters /\ Wanted' = Wanted /\ Complete' = Complete
        /\ LayerFits(mode, target)' = LayerFits(mode, target)
    BY <1>1, Fixed
  <2>2. \A m : DueValue(m)' = DueValue(m)
    BY DEF DueValue
  <2> QED
    BY <1>1, <2>1, <2>2 DEF Loaded
<1>5. CalledOnce'
  BY <1>1, <1>2 DEF CalledOnce
<1> QED
  BY <1>3, <1>4, <1>5

-----------------------------------------------------------------------------
(* The inductive invariant, and what follows. *)

GoldenInv == RefInv /\ DecodeIsPrefill /\ DraftRight /\ GoldenRight

\* A loader begins with everything to load and nothing called.
LEMMA GoldenInitRight == GoldenInit => GoldenInv
<1> SUFFICES ASSUME GoldenInit PROVE GoldenInv
  OBVIOUS
<1>1. TypeOK /\ DecodeIsPrefill /\ DraftRight /\ BuffersHeld
  BY InitRight DEF GoldenInit
<1>2. CASE mode = "smoke" /\ phase = "model"
  BY <1>1, <1>2 DEF GoldenInv, RefInv, GoldenRight
<1>3. CASE /\ mode \in {"block", "mla", "cmla"} /\ ~dirty
           /\ target \in Layers /\ files \in Checkpoints
           /\ phase = IF LayerFits(mode, target) THEN "read" ELSE "refused"
  <2>1. CASE ~LayerFits(mode, target)
    BY <1>1, <1>3, <2>1 DEF GoldenInv, RefInv, GoldenRight
  <2>2. CASE LayerFits(mode, target)
    <3>1. /\ phase = "read" /\ toRead = DOMAIN files.shards /\ toLoad = Wanted
          /\ params = [n \in toLoad |-> Junk]
      BY <1>3, <2>2 DEF GoldenInit
    <3>2. \A n : Complete /\ n \in Parameters \cup {Tensor("attn.wo_a", "scale")} => files.index[n] \in toRead
      <4> TAKE n
      <4>1. Complete /\ n \in Parameters \cup {Tensor("attn.wo_a", "scale")} => n \in DOMAIN files.index
        BY DEF Complete, InCheckpoint
      <4> QED
        BY <1>3, <3>1, <4>1, CheckpointAssumption
    <3>3. Parameters \ toLoad = {}
      BY <3>1, ParametersAre
    <3>4. Loaded
      BY <1>3, <2>2, <3>1, <3>2, <3>3 DEF Loaded
    <3>5. CalledOnce
      BY <3>1 DEF GoldenInit, Init, CalledOnce
    <3> QED
      BY <1>1, <3>1, <3>4, <3>5 DEF GoldenInv, RefInv, GoldenRight
  <2> QED
    BY <2>1, <2>2
<1> QED
  BY <1>2, <1>3 DEF GoldenInit

\* Every step keeps it.
LEMMA GoldenStepRight == GoldenInv /\ [GoldenNext]_<<vars, goldenVars>> => GoldenInv'
<1> SUFFICES ASSUME GoldenInv, [GoldenNext]_<<vars, goldenVars>> PROVE GoldenInv'
  OBVIOUS
<1>1. /\ TypeOK /\ DecodeIsPrefill /\ DraftRight /\ GoldenRight
      /\ phase \in {"model", "read", "load", "forward", "dump", "done", "refused"}
      /\ phase = "model" => BuffersHeld
      /\ phase \notin {"model", "refused"} => Loaded /\ CalledOnce
  BY DEF GoldenInv, RefInv
<1>2. ASSUME UNCHANGED vars, UNCHANGED draft
      PROVE  TypeOK' /\ DecodeIsPrefill' /\ DraftRight'
  BY <1>1, <1>2 DEF vars, TypeOK, DecodeIsPrefill, DraftRight
<1>3. CASE phase = "model" /\ Next /\ UNCHANGED goldenVars
  <2>1. TypeOK' /\ DecodeIsPrefill' /\ DraftRight' /\ BuffersHeld'
    BY <1>1, <1>3, ModelStep
  <2>2. phase' = "model"
    BY <1>3 DEF goldenVars
  <2> QED
    BY <2>1, <2>2 DEF GoldenInv, RefInv, GoldenRight
<1>4. CASE ReadShard
  <2>1. UNCHANGED vars /\ UNCHANGED draft /\ phase = "read" /\ phase' \in {"read", "load"}
    BY <1>4 DEF ReadShard, vars
  <2>2. Loaded'
    BY <1>1, <1>4, <2>1, ReadShardStep
  <2>3. CalledOnce'
    BY <1>1, <2>1 DEF CalledOnce, vars
  <2> QED
    BY <1>2, <2>1, <2>2, <2>3 DEF GoldenInv, RefInv, GoldenRight
<1>5. CASE AssignTensor
  <2>1. UNCHANGED vars /\ UNCHANGED draft /\ phase = "load" /\ phase' \in {"load", "forward"}
    BY <1>5 DEF AssignTensor, vars
  <2>2. Loaded'
    BY <1>1, <1>5, <2>1, AssignTensorStep
  <2>3. CalledOnce'
    BY <1>1, <2>1 DEF CalledOnce, vars
  <2> QED
    BY <1>2, <2>1, <2>2, <2>3 DEF GoldenInv, RefInv, GoldenRight
<1>6. CASE CallLayer
  <2>1. phase = "forward" /\ phase' = "forward" /\ draft' = draft
    BY <1>6 DEF CallLayer, goldenVars
  <2>2. TypeOK' /\ DecodeIsPrefill' /\ Loaded' /\ CalledOnce'
    BY <1>1, <1>6, <2>1, CallLayerStep
  <2> QED
    BY <1>1, <2>1, <2>2 DEF GoldenInv, RefInv, GoldenRight, DraftRight
<1>7. CASE RunLayer
  <2>1. phase = "forward" /\ phase' = "dump" /\ draft' = draft
    BY <1>7 DEF RunLayer, ForwardLayer
  <2>2. TypeOK' /\ DecodeIsPrefill' /\ Loaded' /\ CalledOnce'
    BY <1>1, <1>7, <2>1, RunLayerStep
  <2> QED
    BY <1>1, <2>1, <2>2 DEF GoldenInv, RefInv, GoldenRight, DraftRight
<1>8. CASE Dump
  <2>1. UNCHANGED vars /\ UNCHANGED draft /\ phase = "dump" /\ phase' = "done"
    BY <1>8 DEF Dump, vars
  <2>2. Loaded' /\ CalledOnce' /\ GoldenRight'
    BY <1>1, <1>8, <2>1, DumpStep
  <2> QED
    BY <1>2, <2>1, <2>2 DEF GoldenInv, RefInv
<1>9. CASE UNCHANGED <<vars, goldenVars>>
  <2>1. UNCHANGED vars /\ UNCHANGED draft
    BY <1>9 DEF vars
  <2>2. UNCHANGED <<mode, target, phase, files, toRead, tensors, toLoad, params, golden>>
    BY <1>9 DEF goldenVars
  <2>3. /\ Parameters' = Parameters /\ Wanted' = Wanted /\ Complete' = Complete
        /\ LayerFits(mode, target)' = LayerFits(mode, target)
    BY <2>2, Fixed
  <2>4. \A m : DueValue(m)' = DueValue(m)
    BY DEF DueValue
  <2>5. GoldenRight'
    BY <1>1, <2>1, <2>2, <2>3, <2>4 DEF GoldenRight, vars
  <2>6. Loaded => Loaded'
    BY <2>2, <2>3, <2>4 DEF Loaded
  <2>7. CalledOnce => CalledOnce'
    BY <2>1, <2>2 DEF CalledOnce, vars
  <2>8. BuffersHeld => BuffersHeld'
    <3>1. UNCHANGED <<dirty, texts, ids, start, len, call, lay, ring, cmp, icmp, dring>>
      BY <2>1 DEF vars
    <3>2. /\ \A L \in Layers : FedTo(L)' = FedTo(L)
          /\ FedToStages' = FedToStages
          /\ \A L \in Compressed : InFirstGroup(Ratio[L], FedTo(L))' => InFirstGroup(Ratio[L], FedTo(L))
      BY <3>1 DEF FedTo, FedToStages, InFirstGroup
    <3> QED
      BY <3>1, <3>2, BuffersKept
  <2> QED
    BY <1>1, <1>2, <2>1, <2>2, <2>5, <2>6, <2>7, <2>8 DEF GoldenInv, RefInv
<1> QED
  BY <1>3, <1>4, <1>5, <1>6, <1>7, <1>8, <1>9 DEF GoldenNext

LEMMA GoldenInvHolds == GoldenSpec => []GoldenInv
BY GoldenInitRight, GoldenStepRight, PTL DEF GoldenSpec

\* In every mode the buffers are what one prefill of the tokens fed so far would leave,
\* and the loader has what the shards read hold (deepseek_v4_ref.py:322-376, 466-526,
\* raw_loader.py:34-94).
THEOREM RefInvHolds == GoldenSpec => []RefInv
<1>1. GoldenInv => RefInv
  BY DEF GoldenInv
<1> QED
  BY <1>1, GoldenInvHolds, PTL

\* Whatever texts went through the buffers before, and wherever a call is in its layers,
\* every position has the hidden state one prefill of its text would give it
\* (deepseek_v4_ref.py:322-376, 466-526).
THEOREM DecodeIsPrefillHolds == GoldenSpec => []DecodeIsPrefill
<1>1. GoldenInv => DecodeIsPrefill
  BY DEF GoldenInv
<1> QED
  BY <1>1, GoldenInvHolds, PTL

\* No draft is computed from anything but the last Window rows of its text
\* (deepseek_v4_ref.py:752-763, 875-882).
THEOREM DraftRightHolds == GoldenSpec => []DraftRight
<1>1. GoldenInv => DraftRight
  BY DEF GoldenInv
<1> QED
  BY <1>1, GoldenInvHolds, PTL

\* A golden of a complete checkpoint holds every weight of its layer as the checkpoint has
\* it, and the outputs of its inputs (gen_golden.py:91-271, raw_loader.py:34-94).
THEOREM GoldenRightHolds == GoldenSpec => []GoldenRight
<1>1. GoldenInv => GoldenRight
  BY DEF GoldenInv
<1> QED
  BY <1>1, GoldenInvHolds, PTL

=============================================================================
