------------------------ MODULE MoeForward_proofs ------------------------
(***************************************************************************)
(* MoeInv of MoeForward is inductive, for every number of tokens, slots,   *)
(* experts and rows of a tile, every routing and every order of threads.   *)
(* A group begins behind the assignments of smaller experts, so the rows   *)
(* claimed for an expert stay inside its group; a row per assignment makes *)
(* the grouping a bijection, because there are as many rows.               *)
(***************************************************************************)
EXTENDS MoeForward, FunctionTheorems, FiniteSetTheorems, SequenceTheorems, TLAPS

-----------------------------------------------------------------------------
(* Sizes, and the rows of a token. *)

LEMMA Sizes ==
    /\ NTok \in Nat /\ NTok >= 1 /\ NAct \in Nat /\ NAct >= 1
    /\ NExperts \in Nat /\ NExperts >= 1 /\ TileRows \in Nat /\ TileRows >= 1
    /\ NRows \in Nat /\ NRows = NTok * NAct
    /\ Experts = 0..(NExperts - 1) /\ Rows = 0..(NRows - 1) /\ Toks = 0..(NTok - 1)
    /\ Junk \notin Rows /\ Shared \notin Rows /\ Shared # Junk
<1>1. /\ NTok \in Nat \ {0} /\ NAct \in Nat \ {0} /\ NExperts \in Nat \ {0} /\ TileRows \in Nat \ {0}
      /\ Junk \notin Rows /\ Shared \notin Rows /\ Shared # Junk
  BY MoeAssumption
<1>2. NTok * NAct \in Nat
  BY <1>1
<1> QED
  BY <1>1, <1>2 DEF NRows, Experts, Rows, Toks

LEMMA RowsFinite == IsFiniteSet(Rows) /\ Cardinality(Rows) = NRows
<1>1. NRows \in Nat /\ Rows = 0..(NRows - 1) /\ 0 \in Int /\ NRows - 1 \in Int
  BY Sizes
<1>2. IsFiniteSet(0..(NRows - 1)) /\ Cardinality(0..(NRows - 1)) = IF 0 > NRows - 1 THEN 0 ELSE NRows - 1 - 0 + 1
  BY <1>1, FS_Interval
<1> QED
  BY <1>1, <1>2

LEMMA SubRows ==
    ASSUME NEW S, S \subseteq Rows
    PROVE  IsFiniteSet(S) /\ Cardinality(S) \in Nat /\ Cardinality(S) <= NRows
<1>1. S \in SUBSET Rows
  OBVIOUS
<1>2. IsFiniteSet(S) /\ Cardinality(S) <= Cardinality(Rows)
  BY <1>1, RowsFinite, FS_Subset
<1>3. Cardinality(S) \in Nat
  BY <1>2, FS_CardinalityType
<1> QED
  BY <1>2, <1>3, RowsFinite

\* Assignment i is slot s of token t.
LEMMA SlotOfRow ==
    ASSUME NEW i \in Rows
    PROVE  \E t \in Toks, s \in 1..NAct : i = t * NAct + s - 1 /\ i \div NAct = t
<1>1. /\ i \in Nat /\ NAct \in Nat /\ NAct >= 1 /\ NTok \in Nat /\ i < NTok * NAct /\ Toks = 0..(NTok - 1)
  BY Sizes
<1>2. PICK a : a = NAct
  OBVIOUS
<1>3. PICK t, m : t = i \div a /\ m = i % a
  OBVIOUS
<1>4. t \in Nat /\ m \in 0..(a - 1) /\ i = a * t + m
  BY <1>1, <1>2, <1>3
<1>5. a * t = t * a /\ t * a \in Nat
  BY <1>1, <1>2, <1>4
<1>6. t < NTok
  <2> SUFFICES ASSUME t >= NTok
               PROVE  FALSE
    BY <1>1, <1>4
  <2>1. t * a >= NTok * a
    <3>1. PICK d \in Nat : t = NTok + d
      <4>1. t - NTok \in Nat /\ t = NTok + (t - NTok)
        BY <1>1, <1>4
      <4> QED
        BY <4>1
    <3>2. t * a = NTok * a + d * a
      BY <1>1, <1>2, <3>1
    <3>3. d * a \in Nat /\ NTok * a \in Nat
      BY <1>1, <1>2, <3>1
    <3> QED
      BY <3>2, <3>3
  <2>2. NTok * a \in Nat
    BY <1>1, <1>2
  <2> QED
    BY <1>1, <1>2, <1>4, <1>5, <2>1, <2>2
<1>7. t \in Toks /\ m + 1 \in 1..NAct
  BY <1>1, <1>2, <1>4, <1>6
<1>8. i = t * NAct + (m + 1) - 1
  BY <1>2, <1>4, <1>5
<1> QED
  BY <1>2, <1>3, <1>7, <1>8

LEMMA RowOfSlot ==
    ASSUME NEW t \in Toks, NEW s \in 1..NAct
    PROVE  t * NAct + s - 1 \in Rows /\ (t * NAct + s - 1) \div NAct = t
<1>1. t \in Nat /\ t + 1 <= NTok /\ s \in Nat /\ s >= 1 /\ s <= NAct /\ NAct \in Nat /\ NTok \in Nat /\ NAct >= 1
  BY Sizes
<1>2. PICK a : a = NAct
  OBVIOUS
<1>3. PICK i : i = t * a + s - 1
  OBVIOUS
<1>4. t * a \in Nat
  BY <1>1, <1>2
<1>5. i \in Nat /\ i < t * a + a
  BY <1>1, <1>2, <1>3, <1>4
<1>6. NTok * a >= t * a + a
  <2>1. PICK d \in Nat : NTok = t + 1 + d
    <3>1. NTok - t - 1 \in Nat /\ NTok = t + 1 + (NTok - t - 1)
      BY <1>1
    <3> QED
      BY <3>1
  <2>2. NTok * a = t * a + a + d * a
    BY <1>1, <1>2, <2>1
  <2>3. d * a \in Nat
    BY <1>1, <1>2, <2>1
  <2> QED
    BY <1>1, <1>2, <1>4, <2>2, <2>3
<1>7. i \in Rows
  <2>1. NTok * a \in Nat /\ NRows = NTok * a /\ Rows = 0..(NRows - 1)
    BY <1>1, <1>2, Sizes
  <2> QED
    BY <1>1, <1>2, <1>4, <1>5, <1>6, <2>1
<1>8. i \div a = t
  <2>1. PICK q, m : q = i \div a /\ m = i % a
    OBVIOUS
  <2>2. q \in Nat /\ m \in 0..(a - 1) /\ i = a * q + m
    BY <1>1, <1>2, <1>5, <2>1
  <2>3. a * q + m = a * t + (s - 1)
    BY <1>1, <1>2, <1>3, <2>2
  <2>4. ~(q < t)
    <3> SUFFICES ASSUME q < t
                 PROVE  FALSE
      OBVIOUS
    <3>1. PICK d \in Nat : t = q + 1 + d
      <4>1. t - q - 1 \in Nat /\ t = q + 1 + (t - q - 1)
        BY <1>1, <2>2
      <4> QED
        BY <4>1
    <3>2. a * t = a * q + a + a * d /\ a * d \in Nat /\ a * q \in Nat
      BY <1>1, <1>2, <2>2, <3>1
    <3> QED
      BY <1>1, <1>2, <2>2, <2>3, <3>2
  <2>5. ~(t < q)
    <3> SUFFICES ASSUME t < q
                 PROVE  FALSE
      OBVIOUS
    <3>1. PICK d \in Nat : q = t + 1 + d
      <4>1. q - t - 1 \in Nat /\ q = t + 1 + (q - t - 1)
        BY <1>1, <2>2
      <4> QED
        BY <4>1
    <3>2. a * q = a * t + a + a * d /\ a * d \in Nat /\ a * t \in Nat
      BY <1>1, <1>2, <2>2, <3>1
    <3> QED
      BY <1>1, <1>2, <2>2, <2>3, <3>2
  <2> QED
    BY <1>1, <2>1, <2>2, <2>4, <2>5
<1> QED
  BY <1>2, <1>3, <1>7, <1>8

\* The assignments of a token are its slots.
LEMMA RowsOfToken ==
    ASSUME NEW t \in Toks
    PROVE  /\ {i \in Rows : i \div NAct = t} = {t * NAct + s : s \in 0..(NAct - 1)}
           /\ Cardinality({i \in Rows : i \div NAct = t}) = NAct
<1>1. PICK b : b = t * NAct
  OBVIOUS
<1>2. b \in Nat /\ NAct \in Nat /\ NAct >= 1
  BY <1>1, Sizes
<1>3. \A i \in Rows : i \div NAct = t => i \in b..(b + NAct - 1)
  <2> SUFFICES ASSUME NEW i \in Rows, i \div NAct = t
               PROVE  i \in b..(b + NAct - 1)
    OBVIOUS
  <2>1. PICK u \in Toks, s \in 1..NAct : i = u * NAct + s - 1 /\ i \div NAct = u
    BY SlotOfRow
  <2>2. i = b + s - 1
    BY <1>1, <2>1
  <2> QED
    BY <1>2, <2>1, <2>2
<1>4. \A i \in b..(b + NAct - 1) : i \in Rows /\ i \div NAct = t
  <2> SUFFICES ASSUME NEW i \in b..(b + NAct - 1)
               PROVE  i \in Rows /\ i \div NAct = t
    OBVIOUS
  <2>1. PICK s : s = i - b + 1
    OBVIOUS
  <2>2. s \in 1..NAct /\ i = b + s - 1
    BY <1>2, <2>1
  <2> QED
    BY <1>1, <2>2, RowOfSlot
<1>5. {i \in Rows : i \div NAct = t} = b..(b + NAct - 1)
  BY <1>3, <1>4
<1>6. {b + s : s \in 0..(NAct - 1)} = b..(b + NAct - 1)
  <2>1. \A i \in b..(b + NAct - 1) : i - b \in 0..(NAct - 1) /\ i = b + (i - b)
    BY <1>2
  <2>2. \A s \in 0..(NAct - 1) : b + s \in b..(b + NAct - 1)
    BY <1>2
  <2> QED
    BY <2>1, <2>2
<1>7. Cardinality(b..(b + NAct - 1)) = NAct
  <2>1. b \in Int /\ b + NAct - 1 \in Int
    BY <1>2
  <2>2. Cardinality(b..(b + NAct - 1)) = IF b > b + NAct - 1 THEN 0 ELSE (b + NAct - 1) - b + 1
    BY <2>1, FS_Interval
  <2> QED
    BY <1>2, <2>2
<1> QED
  BY <1>1, <1>5, <1>6, <1>7

-----------------------------------------------------------------------------
(* The counting sort. *)

LEMMA Types ==
    ASSUME TypeOK
    PROVE  /\ mode \in Modes /\ idx \in [Rows -> Experts] /\ expert \in Experts /\ added \subseteq Rows
           /\ counts \in [Experts -> 0..NRows] /\ cursor \in [Experts -> 0..NRows]
           /\ off \in [0..NExperts -> 0..NRows]
           /\ slot \in [Rows -> Rows \cup {Junk}] /\ grp \in [Rows -> Rows \cup {Junk}]
           /\ oeb \in [Rows -> Rows \cup {Junk}] /\ ts \in [Rows -> Rows \cup {Junk}]
           /\ out \in [Toks -> Seq(Rows \cup {Junk, Shared})]
           /\ layout \in [Experts -> {"raw", "packed", "garbled"}] /\ ppdone \subseteq Experts
           /\ copy \in [Experts -> {"none", "packed", "garbled"}]
<1>1. {slot, grp, oeb, ts} \subseteq [Rows -> Rows \cup {Junk}]
  BY DEF TypeOK
<1> QED
  BY <1>1 DEF TypeOK

LEMMA Subsets ==
    ASSUME NEW e
    PROVE  /\ IsFiniteSet(Assigned(e)) /\ Cardinality(Assigned(e)) \in Nat /\ Cardinality(Assigned(e)) <= NRows
           /\ IsFiniteSet(Smaller(e)) /\ Cardinality(Smaller(e)) \in Nat /\ Cardinality(Smaller(e)) <= NRows
<1>1. Assigned(e) \subseteq Rows /\ Smaller(e) \subseteq Rows
  BY DEF Assigned, Smaller
<1> QED
  BY <1>1, SubRows

\* Where groups begin, if that is the number of assignments of smaller experts.
LEMMA NextSmaller ==
    ASSUME idx \in [Rows -> Experts], NEW e \in Experts
    PROVE  Cardinality(Smaller(e + 1)) = Cardinality(Smaller(e)) + Cardinality(Assigned(e))
<1>1. \A i \in Rows : idx[i] \in Nat /\ e \in Nat
  BY Sizes
<1>2. Smaller(e + 1) = Smaller(e) \cup Assigned(e) /\ Smaller(e) \cap Assigned(e) = {}
  BY <1>1 DEF Smaller, Assigned
<1>3. Cardinality(Smaller(e) \cup Assigned(e)) =
        Cardinality(Smaller(e)) + Cardinality(Assigned(e)) - Cardinality(Smaller(e) \cap Assigned(e))
  BY Subsets, FS_Union
<1>4. Cardinality(Smaller(e) \cap Assigned(e)) = 0
  BY <1>2, FS_EmptySet
<1>5. Cardinality(Smaller(e)) \in Nat /\ Cardinality(Assigned(e)) \in Nat
  BY Subsets
<1>6. Cardinality(Smaller(e + 1)) = Cardinality(Smaller(e) \cup Assigned(e))
  BY <1>2
<1>7. PICK a, b, c, d : /\ a = Cardinality(Smaller(e)) /\ b = Cardinality(Assigned(e))
                       /\ c = Cardinality(Smaller(e + 1)) /\ d = Cardinality(Smaller(e) \cap Assigned(e))
  OBVIOUS
<1>8. a \in Nat /\ b \in Nat /\ c = a + b - d /\ d = 0
  BY <1>3, <1>4, <1>5, <1>6, <1>7
<1>9. c = a + b
  BY <1>8
<1> QED
  BY <1>7, <1>9

LEMMA MoreSmaller ==
    ASSUME idx \in [Rows -> Experts], NEW a \in 0..NExperts, NEW b \in 0..NExperts, a <= b
    PROVE  Cardinality(Smaller(a)) <= Cardinality(Smaller(b))
<1>1. \A i \in Rows : idx[i] \in Nat
  BY Sizes
<1>2. Smaller(a) \in SUBSET Smaller(b)
  <2>1. a \in Nat /\ b \in Nat
    BY Sizes
  <2> QED
    BY <1>1, <2>1 DEF Smaller
<1> QED
  BY <1>2, Subsets, FS_Subset

LEMMA AllSmaller ==
    ASSUME idx \in [Rows -> Experts]
    PROVE  Cardinality(Smaller(0)) = 0 /\ Cardinality(Smaller(NExperts)) = NRows
<1>1. \A i \in Rows : idx[i] \in Nat /\ idx[i] < NExperts
  BY Sizes
<1>2. Smaller(0) = {} /\ Smaller(NExperts) = Rows
  BY <1>1 DEF Smaller
<1> QED
  BY <1>2, FS_EmptySet, RowsFinite

\* The first n groups lie in the rows, one behind the other.
LEMMA GroupsApart ==
    ASSUME TypeOK, NEW n \in 0..NExperts, \A e \in 0..n : off[e] = Cardinality(Smaller(e))
    PROVE  \A e \in 0..(n - 1) :
             /\ e \in Experts /\ e + 1 \in 0..n /\ off[e] \in Nat /\ off[e + 1] \in Nat
             /\ off[e + 1] = off[e] + Cardinality(Assigned(e)) /\ off[e + 1] <= NRows
             /\ GroupRows(e) \subseteq Rows
             /\ \A f \in (e + 1)..n : off[e + 1] <= off[f]
             /\ \A f \in (e + 1)..(n - 1) : GroupRows(e) \cap GroupRows(f) = {}
<1>1. idx \in [Rows -> Experts] /\ NExperts \in Nat /\ Experts = 0..(NExperts - 1) /\ NRows \in Nat /\ Rows = 0..(NRows - 1)
  BY Types, Sizes
<1> TAKE e \in 0..(n - 1)
<1>2. e \in Experts /\ e \in 0..n /\ e + 1 \in 0..n /\ n \in Nat /\ e \in Nat
  BY <1>1
<1>3. off[e] = Cardinality(Smaller(e)) /\ off[e + 1] = Cardinality(Smaller(e + 1))
  BY <1>2
<1>4. /\ Cardinality(Smaller(e)) \in Nat /\ Cardinality(Smaller(e + 1)) \in Nat
      /\ Cardinality(Smaller(e + 1)) <= NRows
  BY Subsets
<1>5. off[e + 1] = off[e] + Cardinality(Assigned(e))
  BY <1>1, <1>2, <1>3, NextSmaller
<1>6. GroupRows(e) \subseteq Rows
  BY <1>1, <1>3, <1>4 DEF GroupRows
<1>7. ASSUME NEW f \in (e + 1)..n
      PROVE  off[e + 1] <= off[f] /\ off[f] \in Nat
  <2>1. f \in 0..n /\ f \in 0..NExperts /\ e + 1 \in 0..NExperts /\ e + 1 <= f
    BY <1>1, <1>2
  <2>2. off[f] = Cardinality(Smaller(f))
    BY <2>1
  <2>3. Cardinality(Smaller(e + 1)) <= Cardinality(Smaller(f))
    BY <1>1, <2>1, MoreSmaller
  <2> QED
    BY <1>3, <2>2, <2>3, Subsets
<1>8. ASSUME NEW f \in (e + 1)..(n - 1)
      PROVE  GroupRows(e) \cap GroupRows(f) = {}
  <2>1. f \in (e + 1)..n
    BY <1>2
  <2>2. off[e + 1] <= off[f] /\ off[f] \in Nat
    BY <1>7, <2>1
  <2>3. \A r \in GroupRows(e) : r \in Int /\ r < off[e + 1]
    BY <1>3, <1>4 DEF GroupRows
  <2>4. \A r \in GroupRows(f) : r \in Int /\ r >= off[f]
    BY <2>2 DEF GroupRows
  <2>5. off[e + 1] \in Nat
    BY <1>3, <1>4
  <2> QED
    BY <2>2, <2>3, <2>4, <2>5
<1> QED
  BY <1>2, <1>3, <1>4, <1>5, <1>6, <1>7, <1>8

\* A row for each assignment, in its expert's group, makes the grouping a bijection.
LEMMA GroupingIs ==
    ASSUME TypeOK, OffsRight, ClaimsOK, Grouped
    PROVE  /\ \A r \in Rows : grp[r] \in Rows
           /\ \A r \in Rows, s \in Rows : grp[r] = grp[s] => r = s
           /\ \A i \in Rows : \E r \in Rows : grp[r] = i
           /\ \A e \in Experts : /\ GroupRows(e) \subseteq Rows
                                 /\ \A r \in Rows : r \in GroupRows(e) <=> idx[grp[r]] = e
                                 /\ {grp[r] : r \in GroupRows(e)} = Assigned(e)
                                 /\ off[e] \in Nat /\ off[e + 1] \in Nat /\ off[e + 1] <= NRows
                                 /\ off[e + 1] = off[e] + Cardinality(Assigned(e))
                                 /\ Cardinality(GroupRows(e)) = Cardinality(Assigned(e))
<1>1. idx \in [Rows -> Experts] /\ NExperts \in Nat /\ NExperts >= 1 /\ Experts = 0..(NExperts - 1) /\ NExperts \in 0..NExperts
  BY Types, Sizes
<1>2. \A e \in 0..NExperts : off[e] = Cardinality(Smaller(e))
  BY DEF OffsRight
<1>3. \A e \in Experts :
        /\ off[e] \in Nat /\ off[e + 1] \in Nat /\ off[e + 1] <= NRows /\ GroupRows(e) \subseteq Rows
        /\ off[e + 1] = off[e] + Cardinality(Assigned(e))
        /\ \A f \in (e + 1)..(NExperts - 1) : GroupRows(e) \cap GroupRows(f) = {}
  BY <1>1, <1>2, GroupsApart
<1>4. \A e \in Experts, f \in Experts : e # f => GroupRows(e) \cap GroupRows(f) = {}
  <2> SUFFICES ASSUME NEW e \in Experts, NEW f \in Experts, e # f
               PROVE  GroupRows(e) \cap GroupRows(f) = {}
    OBVIOUS
  <2>1. e \in Nat /\ f \in Nat
    BY <1>1
  <2>2. CASE e < f
    <3>1. f \in (e + 1)..(NExperts - 1)
      BY <1>1, <2>1, <2>2
    <3> QED
      BY <1>3, <3>1
  <2>3. CASE f < e
    <3>1. e \in (f + 1)..(NExperts - 1)
      BY <1>1, <2>1, <2>3
    <3>2. GroupRows(f) \cap GroupRows(e) = {}
      BY <1>3, <3>1
    <3> QED
      BY <3>2
  <2> QED
    BY <2>1, <2>2, <2>3
<1>5. \A i \in Rows : \E r \in GroupRows(idx[i]) : grp[r] = i
  <2> SUFFICES ASSUME NEW i \in Rows
               PROVE  \E r \in GroupRows(idx[i]) : grp[r] = i
    OBVIOUS
  <2>1. PICK e \in Experts : e = idx[i]
    BY <1>1
  <2>2. i \in Assigned(e)
    BY <2>1 DEF Assigned
  <2>3. \E r \in GroupRows(e) : grp[r] = i
    BY <2>2 DEF ClaimsOK
  <2> QED
    BY <2>1, <2>3
<1> DEFINE f == [i \in Rows |-> CHOOSE r \in GroupRows(idx[i]) : grp[r] = i]
<1>6. \A i \in Rows : f[i] \in GroupRows(idx[i]) /\ grp[f[i]] = i /\ f[i] \in Rows
  <2> SUFFICES ASSUME NEW i \in Rows
               PROVE  f[i] \in GroupRows(idx[i]) /\ grp[f[i]] = i /\ f[i] \in Rows
    OBVIOUS
  <2>1. \E r \in GroupRows(idx[i]) : grp[r] = i
    BY <1>5
  <2>2. f[i] = CHOOSE r \in GroupRows(idx[i]) : grp[r] = i
    OBVIOUS
  <2>3. f[i] \in GroupRows(idx[i]) /\ grp[f[i]] = i
    BY <2>1, <2>2
  <2>4. idx[i] \in Experts
    BY <1>1
  <2> QED
    BY <1>3, <2>3, <2>4
<1>7. f \in [Rows -> Rows]
  BY <1>6
<1> HIDE DEF f
<1>8. \A a \in Rows, b \in Rows : f[a] = f[b] => a = b
  BY <1>6
<1>9. f \in Injection(Rows, Rows)
  BY <1>7, <1>8, Fun_IsInj
<1>10. f \in Surjection(Rows, Rows)
  BY <1>9, RowsFinite, FS_Injection
<1>11. \A r \in Rows : \E i \in Rows : f[i] = r
  BY <1>10, Fun_SurjectionProperties
<1>12. \A r \in Rows : grp[r] \in Rows /\ f[grp[r]] = r
  BY <1>6, <1>11
<1>13. \A r \in Rows : r \in GroupRows(idx[grp[r]]) /\ idx[grp[r]] \in Experts
  BY <1>1, <1>6, <1>12
<1>14. ASSUME NEW e \in Experts
       PROVE  /\ \A r \in Rows : r \in GroupRows(e) <=> idx[grp[r]] = e
              /\ {grp[r] : r \in GroupRows(e)} = Assigned(e)
  <2>1. \A r \in Rows : r \in GroupRows(e) <=> idx[grp[r]] = e
    BY <1>4, <1>13
  <2>2. \A r \in GroupRows(e) : grp[r] \in Assigned(e)
    BY <1>3, <1>12, <2>1 DEF Assigned
  <2>3. \A i \in Assigned(e) : f[i] \in GroupRows(e) /\ grp[f[i]] = i
    BY <1>6 DEF Assigned
  <2> QED
    BY <2>1, <2>2, <2>3
<1>15. ASSUME NEW e \in Experts
       PROVE  Cardinality(GroupRows(e)) = Cardinality(Assigned(e))
  <2>1. PICK a, b, c : a = off[e] /\ b = off[e + 1] /\ c = Cardinality(Assigned(e))
    OBVIOUS
  <2>2. a \in Nat /\ b = a + c /\ c \in Nat
    BY <1>3, <2>1, Subsets
  <2>3. a \in Int /\ b - 1 \in Int
    BY <2>2
  <2>4. Cardinality(a..(b - 1)) = IF a > b - 1 THEN 0 ELSE (b - 1) - a + 1
    BY <2>3, FS_Interval
  <2>5. Cardinality(a..(b - 1)) = c
    BY <2>2, <2>4
  <2> QED
    BY <2>1, <2>5 DEF GroupRows
<1> QED
  BY <1>3, <1>6, <1>8, <1>12, <1>14, <1>15

-----------------------------------------------------------------------------
(* Tiles and weights. *)

LEMMA FunctionSeq ==
    ASSUME NEW n \in Nat, NEW S, NEW f \in [1..n -> S]
    PROVE  f \in Seq(S) /\ Len(f) = n /\ DOMAIN f = 1..n
  OBVIOUS

\* The tiles of a group of c rows, c and rows counted from the group's begin.
LEMMA TileRanges ==
    ASSUME NEW c \in Nat
    PROVE  /\ TileCount(c) \in 0..c
           /\ \A k \in 1..TileCount(c) : (k - 1) * TileRows \in 0..(c - 1)
           /\ \A d \in 0..(c - 1) : \E k \in 1..TileCount(c) :
                (k - 1) * TileRows <= d /\ d < (k - 1) * TileRows + TileRows
<1>1. PICK w : w = TileRows
  OBVIOUS
<1>2. w \in Nat /\ w >= 1
  BY <1>1, Sizes
<1>3. PICK q, m : q = (c + w - 1) \div w /\ m = (c + w - 1) % w
  OBVIOUS
<1>4. q \in Nat /\ m \in 0..(w - 1) /\ c + w - 1 = w * q + m /\ TileCount(c) = q
  BY <1>1, <1>2, <1>3 DEF TileCount
<1>5. w * q \in Nat /\ w * q >= c /\ w * q <= c + w - 1
  BY <1>2, <1>4
<1>6. q <= c
  <2> SUFFICES ASSUME q > c
               PROVE  FALSE
    BY <1>4
  <2>1. PICK d \in Nat : q = c + 1 + d
    <3>1. q - c - 1 \in Nat /\ q = c + 1 + (q - c - 1)
      BY <1>4
    <3> QED
      BY <3>1
  <2>2. w * q = w * c + w + w * d /\ w * d \in Nat /\ w * c \in Nat
    BY <1>2, <2>1
  <2>3. w * c >= c
    <3>1. PICK v \in Nat : w = v + 1
      <4>1. w - 1 \in Nat /\ w = (w - 1) + 1
        BY <1>2
      <4> QED
        BY <4>1
    <3>2. w * c = v * c + c /\ v * c \in Nat
      BY <3>1
    <3> QED
      BY <3>2
  <2> QED
    BY <1>2, <1>5, <2>2, <2>3
<1>7. ASSUME NEW k \in 1..q
      PROVE  (k - 1) * w \in 0..(c - 1)
  <2>1. PICK j \in Nat, d \in Nat : k = j + 1 /\ q = j + 1 + d
    <3>1. k - 1 \in Nat /\ q - k \in Nat /\ k = (k - 1) + 1 /\ q = (k - 1) + 1 + (q - k)
      BY <1>4
    <3> QED
      BY <3>1
  <2>2. w * q = j * w + w + d * w /\ j * w \in Nat /\ d * w \in Nat
    BY <1>2, <2>1
  <2>3. j * w <= c - 1 /\ k - 1 = j
    BY <1>2, <1>5, <2>1, <2>2
  <2> QED
    BY <2>2, <2>3
<1>8. ASSUME NEW d \in 0..(c - 1)
      PROVE  \E k \in 1..q : (k - 1) * w <= d /\ d < (k - 1) * w + w
  <2>1. PICK a, b : a = d \div w /\ b = d % w
    OBVIOUS
  <2>2. a \in Nat /\ b \in 0..(w - 1) /\ d = w * a + b
    BY <1>2, <2>1
  <2>3. a < q
    <3> SUFFICES ASSUME a >= q
                 PROVE  FALSE
      BY <1>4, <2>2
    <3>1. PICK v \in Nat : a = q + v
      <4>1. a - q \in Nat /\ a = q + (a - q)
        BY <1>4, <2>2
      <4> QED
        BY <4>1
    <3>2. w * a = w * q + w * v /\ w * v \in Nat
      BY <1>2, <1>4, <3>1
    <3> QED
      BY <1>2, <1>5, <2>2, <3>2
  <2>4. a + 1 \in 1..q /\ (a + 1) - 1 = a
    BY <1>4, <2>2, <2>3
  <2>5. w * a = a * w /\ a * w \in Nat
    BY <1>2, <2>2
  <2>6. a * w <= d /\ d < a * w + w
    BY <1>2, <2>2, <2>5
  <2> QED
    BY <2>4, <2>6
<1> QED
  BY <1>1, <1>4, <1>6, <1>7, <1>8

\* Two tiles of a group that own a common row are the same.
LEMMA TilesApart ==
    ASSUME NEW k \in Nat, NEW l \in Nat, NEW d \in Nat, k >= 1, l >= 1,
           (k - 1) * TileRows <= d, d < (k - 1) * TileRows + TileRows,
           (l - 1) * TileRows <= d, d < (l - 1) * TileRows + TileRows
    PROVE  k = l
<1>1. PICK w : w = TileRows
  OBVIOUS
<1>2. w \in Nat /\ w >= 1
  BY <1>1, Sizes
<1>3. PICK a \in Nat, b \in Nat : a = k - 1 /\ b = l - 1
  <2>1. k - 1 \in Nat /\ l - 1 \in Nat
    OBVIOUS
  <2> QED
    BY <2>1
<1>4. a * w <= d /\ d < a * w + w /\ b * w <= d /\ d < b * w + w
  BY <1>1, <1>3
<1>5. \A u \in Nat, v \in Nat : u * w <= d /\ d < v * w + w => ~(v < u)
  <2> SUFFICES ASSUME NEW u \in Nat, NEW v \in Nat, u * w <= d, d < v * w + w, v < u
               PROVE  FALSE
    OBVIOUS
  <2>1. PICK x \in Nat : u = v + 1 + x
    <3>1. u - v - 1 \in Nat /\ u = v + 1 + (u - v - 1)
      OBVIOUS
    <3> QED
      BY <3>1
  <2>2. u * w = v * w + w + x * w /\ x * w \in Nat /\ v * w \in Nat
    BY <1>2, <2>1
  <2> QED
    BY <1>2, <2>2
<1>6. ~(a < b) /\ ~(b < a)
  BY <1>4, <1>5
<1> QED
  BY <1>3, <1>6

\* Preparing weights keeps the record of them right, and leaves those prepared readable.
LEMMA Prepared ==
    ASSUME TypeOK, WeightsOK, NEW S, S \subseteq Experts, Prepare(S), mode' = mode
    PROVE  /\ WeightsOK' /\ ppdone' \subseteq Experts
           /\ layout' \in [Experts -> {"raw", "packed", "garbled"}]
           /\ copy' \in [Experts -> {"none", "packed", "garbled"}]
           /\ \A e \in S : Readable(e)
<1>1. /\ layout \in [Experts -> {"raw", "packed", "garbled"}] /\ ppdone \subseteq Experts
      /\ copy \in [Experts -> {"none", "packed", "garbled"}]
      /\ mode.gemm \in {"fp4", "tc", "pp", "mma", "gemv"}
  BY Types, MoeAssumption
<1>2. /\ \A e \in Experts : layout[e] = IF e \in ppdone THEN "packed" ELSE "raw"
      /\ IF mode.gemm \in InPlace THEN \A e \in Experts : copy[e] = "none"
         ELSE ppdone = {} /\ \A e \in Experts : copy[e] \in {"none", "packed"}
  BY DEF WeightsOK
<1>3. /\ layout' = [e \in Experts |->
                      IF mode.gemm \in InPlace /\ e \in S \ ppdone THEN Repack(layout[e]) ELSE layout[e]]
      /\ ppdone' = IF mode.gemm \in InPlace THEN ppdone \cup S ELSE ppdone
      /\ copy' = [e \in Experts |->
                    IF mode.gemm = "tc" /\ e \in S /\ copy[e] = "none" THEN Repack(layout[e]) ELSE copy[e]]
  BY DEF Prepare, Due
<1>4. CASE mode.gemm \in InPlace
  <2>1. ppdone' = ppdone \cup S /\ mode.gemm # "tc"
    BY <1>3, <1>4 DEF InPlace
  <2>2. \A e \in Experts : layout'[e] = IF e \in ppdone' THEN "packed" ELSE "raw"
    BY <1>2, <1>3, <1>4, <2>1 DEF Repack
  <2>3. \A e \in Experts : copy'[e] = "none"
    BY <1>2, <1>3, <1>4, <2>1
  <2>4. \A e \in S : layout'[e] = "packed"
    BY <2>1, <2>2
  <2>5. WeightsOK'
    BY <1>4, <2>2, <2>3 DEF WeightsOK
  <2>6. layout' \in [Experts -> {"raw", "packed", "garbled"}]
    BY <1>1, <1>3 DEF Repack
  <2>7. copy' \in [Experts -> {"none", "packed", "garbled"}]
    BY <1>1, <1>3 DEF Repack
  <2>8. \A e \in S : Readable(e)
    BY <1>4, <2>4 DEF Readable, InPlace
  <2> QED
    BY <1>1, <2>1, <2>5, <2>6, <2>7, <2>8
<1>5. CASE mode.gemm \notin InPlace
  <2>1. ppdone' = {} /\ ppdone = {}
    BY <1>2, <1>3, <1>5
  <2>2. \A e \in Experts : layout[e] = "raw" /\ layout'[e] = "raw"
    BY <1>2, <1>3, <1>5, <2>1
  <2>3. \A e \in Experts : /\ copy'[e] \in {"none", "packed"}
                           /\ mode.gemm = "tc" /\ e \in S => copy'[e] = "packed"
    BY <1>2, <1>3, <1>5, <2>2 DEF Repack
  <2>4. WeightsOK'
    BY <1>5, <2>1, <2>2, <2>3 DEF WeightsOK
  <2>5. layout' \in [Experts -> {"raw", "packed", "garbled"}]
    BY <1>1, <1>3 DEF Repack
  <2>6. copy' \in [Experts -> {"none", "packed", "garbled"}]
    BY <1>1, <1>3 DEF Repack
  <2>7. \A e \in S : Readable(e)
    BY <1>1, <1>5, <2>2, <2>3 DEF Readable, InPlace
  <2> QED
    BY <2>1, <2>4, <2>5, <2>6, <2>7
<1> QED
  BY <1>4, <1>5

-----------------------------------------------------------------------------
(* The inductive invariant, and what a step that leaves a part alone leaves of it. *)

Core ==
    /\ TypeOK /\ StageOK /\ OffsRight /\ ClaimsOK /\ TilesOK /\ WeightsOK
    /\ ResultsOK /\ FixedOrder /\ EverySlotOnce

LEMMA SetsStay ==
    ASSUME idx' = idx
    PROVE  \A e : Assigned(e)' = Assigned(e) /\ Smaller(e)' = Smaller(e)
  BY DEF Assigned, Smaller

\* Which groups fit a tile does not change within a call.
LEMMA FitsStays ==
    ASSUME UNCHANGED <<mode, idx>>
    PROVE  /\ \A e : FitsTile(e)' = FitsTile(e)
           /\ \A t : Whole(t)' = Whole(t)
<1>1. \A e : FitsTile(e)' = FitsTile(e)
  BY DEF FitsTile, Assigned
<1> QED
  BY <1>1 DEF Whole

LEMMA GroupsStay ==
    ASSUME off' = off
    PROVE  \A e : GroupRows(e)' = GroupRows(e)
  BY DEF GroupRows

LEMMA OwnedStay ==
    ASSUME off' = off, tiles' = tiles
    PROVE  \A n : TileOwns(n)' = TileOwns(n)
  BY DEF TileOwns

\* The counting sort once it is done, until the groups are used no more.
LEMMA SortStays ==
    ASSUME OffsRight, ClaimsOK, Grouped, UNCHANGED <<idx, off, counts, grp>>,
           stage' \notin {"idle", "count", "prefix", "scatter", "host"}
    PROVE  OffsRight' /\ ClaimsOK'
<1>1. stage \in {"tiles", "experts", "add", "gemm", "combine", "reduce"}
  BY DEF Grouped
<1>2. \A e : Assigned(e)' = Assigned(e) /\ Smaller(e)' = Smaller(e) /\ GroupRows(e)' = GroupRows(e)
  BY SetsStay, GroupsStay
<1>3. OffsRight'
  BY <1>1, <1>2 DEF OffsRight, Grouped
<1>4. \A e \in Experts : \A i \in Assigned(e) : \E r \in GroupRows(e) : grp[r] = i
  BY <1>1 DEF ClaimsOK, Grouped
<1>5. ClaimsOK'
  BY <1>2, <1>4 DEF ClaimsOK
<1> QED
  BY <1>3, <1>5

\* The groups are right and the tiles cover the rows.
LEMMA CoreSuffices == Core => GroupsRight /\ TilesCover
<1> SUFFICES ASSUME Core
             PROVE  GroupsRight /\ TilesCover
  OBVIOUS
<1>1. GroupsRight
  <2> SUFFICES ASSUME Grouped, NEW e \in Experts
               PROVE  /\ {grp[r] : r \in GroupRows(e)} = {i \in Rows : idx[i] = e}
                      /\ Cardinality(GroupRows(e)) = counts[e]
    BY DEF GroupsRight, Grouped
  <2>1. /\ {grp[r] : r \in GroupRows(e)} = Assigned(e)
        /\ Cardinality(GroupRows(e)) = Cardinality(Assigned(e))
    BY GroupingIs DEF Core
  <2>2. counts[e] = Cardinality(Assigned(e))
    BY DEF Core, OffsRight
  <2> QED
    BY <2>1, <2>2 DEF Assigned
<1>2. TilesCover
  <2> SUFFICES ASSUME stage = "gemm"
               PROVE  /\ \A r \in Rows : Cardinality({n \in DOMAIN tiles : r \in TileOwns(n)}) = 1
                      /\ Len(tiles) <= NRows
    BY DEF TilesCover
  <2>1. off[NExperts] = NRows
    <3>1. NExperts \in 0..NExperts
      BY Sizes
    <3>2. off[NExperts] = Cardinality(Smaller(NExperts))
      BY <3>1 DEF Core, OffsRight, Grouped
    <3>3. idx \in [Rows -> Experts]
      BY Types DEF Core
    <3> QED
      BY <3>2, <3>3, AllSmaller
  <2>2. /\ Len(tiles) <= NRows
        /\ \A n \in DOMAIN tiles : \A r \in TileOwns(n) : \A m \in DOMAIN tiles : r \in TileOwns(m) => m = n
        /\ \A r \in Rows : r < NRows => \E n \in DOMAIN tiles : r \in TileOwns(n)
    BY <2>1 DEF Core, TilesOK
  <2>3. ASSUME NEW r \in Rows
        PROVE  Cardinality({n \in DOMAIN tiles : r \in TileOwns(n)}) = 1
    <3>1. r < NRows
      BY Sizes
    <3>2. PICK n \in DOMAIN tiles : r \in TileOwns(n)
      BY <2>2, <3>1
    <3>3. {m \in DOMAIN tiles : r \in TileOwns(m)} = {n}
      BY <2>2, <3>2
    <3> QED
      BY <3>3, FS_Singleton
  <2> QED
    BY <2>2, <2>3
<1> QED
  BY <1>1, <1>2

-----------------------------------------------------------------------------
(* Routing and grouping. *)

LEMMA InitCore == Init => Core
<1> SUFFICES ASSUME Init
             PROVE  Core
  OBVIOUS
<1> USE DEF Init
<1>1. /\ 0 \in 0..MaxCalls /\ 0 \in Experts /\ 0 \in 0..NRows
  BY Sizes, MoeAssumption
<1>2. NoOut \in [Toks -> Seq(Rows \cup {Junk, Shared})]
  BY EmptySeq DEF NoOut
<1>3. TypeOK
  <2>1. {slot, grp, oeb, ts} \subseteq [Rows -> Rows \cup {Junk}]
    BY DEF Unset
  <2>2. counts \in [Experts -> 0..NRows] /\ cursor \in [Experts -> 0..NRows] /\ off \in [0..NExperts -> 0..NRows]
    BY <1>1 DEF Zeros, NoOff
  <2>3. idx \in [Rows -> Experts]
    BY <1>1
  <2> QED
    BY <1>1, <1>2, <2>1, <2>2, <2>3 DEF TypeOK
<1>4. StageOK
  BY DEF StageOK
<1>5. OffsRight
  <2>1. off[0] = 0
    BY Sizes DEF NoOff
  <2> QED
    BY <2>1 DEF OffsRight, Grouped
<1>6. ClaimsOK /\ TilesOK /\ WeightsOK
  BY DEF ClaimsOK, TilesOK, WeightsOK, Grouped
<1>7. ResultsOK /\ FixedOrder /\ EverySlotOnce
  BY DEF ResultsOK, FixedOrder, EverySlotOnce
<1> QED
  BY <1>3, <1>4, <1>5, <1>6, <1>7 DEF Core

LEMMA CallCore == Core /\ Call => Core'
<1> SUFFICES ASSUME Core, Call
             PROVE  Core'
  OBVIOUS
<1>1. /\ stage = "idle" /\ calls < MaxCalls /\ calls' = calls + 1
      /\ mode' \in Compatible(mode) /\ idx' \in [Rows -> Experts]
      /\ stage' = IF mode'.group \in {"token", "host"} THEN mode'.group ELSE "count"
      /\ UNCHANGED <<sorting, results, out, weights>>
  BY DEF Call, Routings
<1>2. /\ expert = 0 /\ off[0] = 0 /\ slot = Unset /\ cursor = Zeros /\ grp = Unset /\ tiles = << >>
      /\ out = NoOut /\ TypeOK /\ WeightsOK
  BY <1>1 DEF Core, StageOK, OffsRight, ClaimsOK, TilesOK, ResultsOK
<1>3. mode' \in Modes /\ (mode'.gemm \in InPlace <=> mode.gemm \in InPlace)
  BY <1>1 DEF Compatible
<1>4. mode'.group \in {"token", "host", "device", "grouped"}
  BY <1>3, MoeAssumption
<1>5. stage' \in {"token", "host", "count"}
  BY <1>1
<1>6. TypeOK'
  <2>1. calls' \in 0..MaxCalls
    BY <1>1, <1>2, MoeAssumption DEF TypeOK
  <2> QED
    BY <1>1, <1>2, <1>3, <1>5, <2>1 DEF TypeOK, sorting, results, weights
<1>7. StageOK'
  BY <1>1, <1>2, <1>4 DEF StageOK, results
<1>8. OffsRight'
  <2>1. Smaller(0)' = {}
    <3>1. \A i \in Rows : idx'[i] \in Nat
      BY <1>1, Sizes
    <3> QED
      BY <3>1 DEF Smaller
  <2>2. Cardinality(Smaller(0)') = 0
    BY <2>1, FS_EmptySet
  <2>3. expert' = 0 /\ off' = off /\ \A e \in 0..0 : e = 0
    BY <1>1, <1>2 DEF results, sorting
  <2>4. \A e \in Experts : ~(e < 0)
    BY Sizes
  <2> QED
    BY <1>2, <1>5, <2>2, <2>3, <2>4 DEF OffsRight, Grouped
<1>9. ClaimsOK'
  <2>1. expert' = 0 /\ \A e \in Experts : ~(e < 0)
    BY <1>1, <1>2, Sizes DEF results
  <2> QED
    BY <1>1, <1>2, <1>5, <2>1 DEF ClaimsOK, sorting, Grouped
<1>10. TilesOK' /\ ResultsOK' /\ FixedOrder' /\ EverySlotOnce'
  BY <1>1, <1>2, <1>5 DEF TilesOK, ResultsOK, FixedOrder, EverySlotOnce, results
<1>11. WeightsOK'
  BY <1>1, <1>2, <1>3 DEF WeightsOK, weights
<1> QED
  BY <1>6, <1>7, <1>8, <1>9, <1>10, <1>11 DEF Core

LEMMA CountCore == Core /\ Count => Core'
<1> SUFFICES ASSUME Core, Count
             PROVE  Core'
  OBVIOUS
<1>1. /\ stage = "count" /\ stage' = "prefix"
      /\ counts' = [e \in Experts |-> Cardinality(Assigned(e))]
      /\ UNCHANGED <<calls, mode, idx, off, cursor, slot, grp, results, out, weights>>
  BY DEF Count
<1>2. /\ expert = 0 /\ off[0] = 0 /\ slot = Unset /\ cursor = Zeros /\ grp = Unset /\ tiles = << >>
      /\ out = NoOut /\ TypeOK /\ WeightsOK /\ mode.group \in {"device", "grouped"} /\ idx \in [Rows -> Experts]
  BY <1>1 DEF Core, StageOK, OffsRight, ClaimsOK, TilesOK, ResultsOK, TypeOK
<1>3. counts' \in [Experts -> 0..NRows]
  BY <1>1, Subsets, Sizes
<1>4. TypeOK'
  BY <1>1, <1>2, <1>3 DEF TypeOK, results, weights
<1>5. StageOK'
  BY <1>1, <1>2 DEF StageOK, results
<1>6. OffsRight'
  <2>1. Cardinality(Smaller(0)) = 0 /\ \A e \in 0..0 : e = 0
    BY <1>2, AllSmaller
  <2>2. \A e : Assigned(e)' = Assigned(e) /\ Smaller(e)' = Smaller(e)
    BY <1>1, SetsStay
  <2> QED
    BY <1>1, <1>2, <2>1, <2>2 DEF OffsRight, Grouped, results
<1>7. ClaimsOK' /\ TilesOK' /\ WeightsOK'
  BY <1>1, <1>2 DEF ClaimsOK, TilesOK, WeightsOK, Grouped, results, weights
<1>8. ResultsOK' /\ FixedOrder' /\ EverySlotOnce'
  BY <1>1, <1>2 DEF ResultsOK, FixedOrder, EverySlotOnce
<1> QED
  BY <1>4, <1>5, <1>6, <1>7, <1>8 DEF Core

\* The next expert, or after the last one the next stage.
LEMMA LoopSteps ==
    ASSUME expert \in Experts, NEW again, NEW next, Loop(again, next)
    PROVE  /\ expert' \in Experts /\ expert + 1 \in 0..NExperts /\ expert \in Nat
           /\ \/ /\ expert + 1 < NExperts /\ expert' = expert + 1 /\ stage' = again
              \/ /\ expert + 1 = NExperts /\ expert' = 0 /\ stage' = next
<1>1. expert \in 0..(NExperts - 1) /\ NExperts \in Nat /\ Experts = 0..(NExperts - 1)
  BY Sizes
<1>2. /\ expert' = IF expert + 1 < NExperts THEN expert + 1 ELSE 0
      /\ stage' = IF expert + 1 < NExperts THEN again ELSE next
  BY DEF Loop
<1> QED
  BY <1>1, <1>2

LEMMA PrefixCore == Core /\ PrefixSum => Core'
<1> SUFFICES ASSUME Core, PrefixSum
             PROVE  Core'
  OBVIOUS
<1>1. /\ stage = "prefix" /\ Loop("prefix", "scatter")
      /\ off' = [off EXCEPT ![expert + 1] = off[expert] + counts[expert]]
      /\ UNCHANGED <<calls, mode, idx, counts, cursor, slot, grp, tiles, added, oeb, ts, out, weights>>
  BY DEF PrefixSum, Scan
<1>2. /\ TypeOK /\ WeightsOK /\ off[0] = 0 /\ slot = Unset /\ cursor = Zeros /\ grp = Unset /\ tiles = << >>
      /\ out = NoOut /\ mode.group \in {"device", "grouped"}
      /\ \A e \in 0..expert : off[e] = Cardinality(Smaller(e))
      /\ \A e \in Experts : counts[e] = Cardinality(Assigned(e))
  BY <1>1 DEF Core, StageOK, OffsRight, ClaimsOK, TilesOK, ResultsOK
<1>3. idx \in [Rows -> Experts] /\ expert \in Experts /\ off \in [0..NExperts -> 0..NRows]
  BY <1>2, Types
<1>4. /\ expert' \in Experts /\ expert + 1 \in 0..NExperts /\ expert \in Nat
      /\ \/ expert + 1 < NExperts /\ expert' = expert + 1 /\ stage' = "prefix"
         \/ expert + 1 = NExperts /\ expert' = 0 /\ stage' = "scatter"
  BY <1>1, <1>3, LoopSteps
<1>5. off[expert] + counts[expert] = Cardinality(Smaller(expert + 1))
  BY <1>2, <1>3, <1>4, NextSmaller
<1>6. off' \in [0..NExperts -> 0..NRows]
  <2>1. off[expert] + counts[expert] \in 0..NRows
    BY <1>5, Subsets, Sizes
  <2> QED
    BY <1>1, <1>3, <2>1
<1>7. \A e \in 0..(expert + 1) : off'[e] = Cardinality(Smaller(e))
  <2> SUFFICES ASSUME NEW e \in 0..(expert + 1)
               PROVE  off'[e] = Cardinality(Smaller(e))
    OBVIOUS
  <2>1. CASE e = expert + 1
    BY <1>1, <1>3, <1>4, <1>5, <2>1
  <2>2. CASE e # expert + 1
    <3>1. e \in 0..expert /\ off'[e] = off[e]
      BY <1>1, <1>3, <1>4, <2>2
    <3> QED
      BY <1>2, <3>1
  <2> QED
    BY <2>1, <2>2
<1>8. off'[0] = 0
  <2>1. 0 \in 0..NExperts /\ 0 # expert + 1
    BY <1>4, Sizes
  <2> QED
    BY <1>1, <1>2, <1>3, <2>1
<1>9. TypeOK'
  BY <1>1, <1>2, <1>4, <1>6 DEF TypeOK, weights
<1>10. StageOK'
  BY <1>1, <1>2, <1>4 DEF StageOK
<1>11. OffsRight'
  <2>1. \A e : Assigned(e)' = Assigned(e) /\ Smaller(e)' = Smaller(e)
    BY <1>1, SetsStay
  <2> QED
    BY <1>1, <1>2, <1>4, <1>7, <1>8, <2>1 DEF OffsRight, Grouped
<1>12. ClaimsOK'
  <2>1. \A e : {i \in Assigned(e) : slot[i] # Junk} = {}
    BY <1>2 DEF Assigned, Unset
  <2>2. \A e : {i \in Assigned(e)' : slot'[i] # Junk} = {}
    BY <1>1, <2>1, SetsStay
  <2>3. \A e \in Experts : cursor'[e] = Cardinality({i \in Assigned(e)' : slot'[i] # Junk})
    BY <1>1, <1>2, <2>2, FS_EmptySet DEF Zeros
  <2>4. \A i \in Rows : slot'[i] = Junk /\ grp'[i] = Junk
    BY <1>1, <1>2 DEF Unset
  <2> QED
    BY <1>1, <1>2, <1>4, <2>3, <2>4 DEF ClaimsOK, Grouped
<1>13. TilesOK' /\ WeightsOK'
  BY <1>1, <1>2, <1>4 DEF TilesOK, WeightsOK, weights
<1>14. ResultsOK' /\ FixedOrder' /\ EverySlotOnce'
  BY <1>1, <1>2, <1>4 DEF ResultsOK, FixedOrder, EverySlotOnce
<1> QED
  BY <1>9, <1>10, <1>11, <1>12, <1>13, <1>14 DEF Core

\* While rows are claimed only slot, cursor and grp change.
LEMMA ScatterFrame ==
    ASSUME Core, stage = "scatter", stage' = "scatter", TypeOK', ClaimsOK',
           UNCHANGED <<calls, mode, idx, counts, off, results, out, weights>>
    PROVE  Core'
<1>1. \A e : Assigned(e)' = Assigned(e) /\ Smaller(e)' = Smaller(e)
  BY SetsStay
<1>2. OffsRight'
  BY <1>1 DEF Core, OffsRight, Grouped
<1>3. StageOK' /\ TilesOK' /\ WeightsOK'
  BY DEF Core, StageOK, TilesOK, WeightsOK, results, weights
<1>4. ResultsOK' /\ FixedOrder' /\ EverySlotOnce'
  BY DEF Core, ResultsOK, FixedOrder, EverySlotOnce
<1> QED
  BY <1>2, <1>3, <1>4 DEF Core

LEMMA ClaimCore == ASSUME NEW i \in Rows, Core, Claim(i) PROVE Core'
<1>1. /\ stage = "scatter" /\ slot[i] = Junk
      /\ slot' = [slot EXCEPT ![i] = off[idx[i]] + cursor[idx[i]]]
      /\ cursor' = [cursor EXCEPT ![idx[i]] = cursor[idx[i]] + 1]
      /\ UNCHANGED <<calls, mode, stage, idx, counts, off, grp, results, out, weights>>
  BY DEF Claim
<1>2. /\ TypeOK /\ \A e \in 0..NExperts : off[e] = Cardinality(Smaller(e))
      /\ \A e \in Experts : cursor[e] = Cardinality({j \in Assigned(e) : slot[j] # Junk})
      /\ \A j \in Rows : slot[j] # Junk =>
           /\ slot[j] \in off[idx[j]]..(off[idx[j]] + cursor[idx[j]] - 1)
           /\ \A k \in Rows : slot[k] = slot[j] => k = j
      /\ \A r \in Rows : grp[r] # Junk => slot[grp[r]] = r
  BY <1>1 DEF Core, OffsRight, ClaimsOK
<1>3. /\ idx \in [Rows -> Experts] /\ slot \in [Rows -> Rows \cup {Junk}] /\ grp \in [Rows -> Rows \cup {Junk}]
      /\ cursor \in [Experts -> 0..NRows] /\ off \in [0..NExperts -> 0..NRows]
  BY <1>2, Types
<1>4. PICK e \in Experts : e = idx[i]
  BY <1>3
<1>5. PICK v : v = off[e] + cursor[e]
  OBVIOUS
<1>6. \A f \in Experts :
        /\ off[f] \in Nat /\ off[f + 1] = off[f] + Cardinality(Assigned(f)) /\ off[f + 1] <= NRows
        /\ \A g \in Experts : f < g => off[f + 1] <= off[g]
  <2>1. NExperts \in 0..NExperts /\ Experts = 0..(NExperts - 1) /\ NExperts \in Nat
    BY Sizes
  <2>2. \A f \in 0..(NExperts - 1) :
          /\ off[f] \in Nat /\ off[f + 1] = off[f] + Cardinality(Assigned(f)) /\ off[f + 1] <= NRows
          /\ \A g \in (f + 1)..NExperts : off[f + 1] <= off[g]
    BY <1>2, <2>1, GroupsApart
  <2>3. \A f \in Experts, g \in Experts : f < g => g \in (f + 1)..NExperts
    BY <2>1
  <2> QED
    BY <2>1, <2>2, <2>3
<1>7. \A f \in Experts : cursor[f] \in Nat /\ cursor[f] <= Cardinality(Assigned(f))
  <2> SUFFICES ASSUME NEW f \in Experts
               PROVE  cursor[f] \in Nat /\ cursor[f] <= Cardinality(Assigned(f))
    OBVIOUS
  <2>1. {j \in Assigned(f) : slot[j] # Junk} \in SUBSET Assigned(f)
    OBVIOUS
  <2>2. Cardinality({j \in Assigned(f) : slot[j] # Junk}) <= Cardinality(Assigned(f))
    BY <2>1, Subsets, FS_Subset
  <2>3. cursor[f] = Cardinality({j \in Assigned(f) : slot[j] # Junk})
    BY <1>2
  <2>4. cursor[f] \in 0..NRows
    BY <1>3
  <2>5. cursor[f] \in Nat
    BY <2>4, Sizes
  <2> QED
    BY <2>2, <2>3, <2>5
<1>8. cursor[e] < Cardinality(Assigned(e))
  <2>1. i \in Assigned(e) /\ i \notin {j \in Assigned(e) : slot[j] # Junk}
    BY <1>1, <1>4 DEF Assigned
  <2>2. {j \in Assigned(e) : slot[j] # Junk} \in SUBSET Assigned(e)
    OBVIOUS
  <2>3. Cardinality(Assigned(e)) # Cardinality({j \in Assigned(e) : slot[j] # Junk})
    BY <2>1, <2>2, Subsets, FS_Subset
  <2>4. cursor[e] # Cardinality(Assigned(e))
    BY <1>2, <2>3
  <2> QED
    BY <1>7, <2>4, Subsets
<1>9. v \in Nat /\ v < off[e + 1] /\ v \in Rows /\ v # Junk
  <2>1. v \in Nat /\ v < off[e + 1]
    BY <1>5, <1>6, <1>7, <1>8, Subsets
  <2>2. off[e + 1] <= NRows /\ off[e + 1] \in Nat
    BY <1>6, Subsets
  <2> QED
    BY <2>1, <2>2, Sizes
<1>10. \A j \in Rows : slot[j] # Junk => slot[j] # v
  <2> SUFFICES ASSUME NEW j \in Rows, slot[j] # Junk, slot[j] = v
               PROVE  FALSE
    OBVIOUS
  <2>1. PICK f \in Experts : f = idx[j]
    BY <1>3
  <2>2. slot[j] \in off[f]..(off[f] + cursor[f] - 1)
    BY <1>2, <2>1
  <2>3. v >= off[f] /\ v < off[f] + cursor[f] /\ v < off[f + 1]
    <3>1. PICK a, b, c, d : a = off[f] /\ b = cursor[f] /\ c = Cardinality(Assigned(f)) /\ d = off[f + 1]
      OBVIOUS
    <3>2. a \in Nat /\ b \in Nat /\ c \in Nat /\ b <= c /\ d = a + c /\ v \in a..(a + b - 1)
      BY <1>6, <1>7, <2>2, <3>1, Subsets
    <3>3. v >= a /\ v < a + b /\ v < d
      BY <3>2
    <3> QED
      BY <3>1, <3>3
  <2>4. e \in Nat /\ f \in Nat
    BY Sizes
  <2>5. CASE f = e
    BY <1>5, <1>6, <1>7, <2>3, <2>5
  <2>6. CASE f < e
    <3>1. off[f + 1] <= off[e] /\ off[e] <= v /\ off[f + 1] \in Nat /\ off[e] \in Nat
      BY <1>5, <1>6, <1>7, <2>6, Subsets
    <3> QED
      BY <1>9, <2>3, <3>1
  <2>7. CASE e < f
    <3>1. off[e + 1] <= off[f] /\ off[e + 1] \in Nat /\ off[f] \in Nat
      BY <1>6, <2>7, Subsets
    <3> QED
      BY <1>9, <2>3, <3>1
  <2> QED
    BY <2>4, <2>5, <2>6, <2>7
<1>11. /\ slot'[i] = v /\ \A j \in Rows : j # i => slot'[j] = slot[j]
       /\ cursor'[e] = cursor[e] + 1 /\ \A f \in Experts : f # e => cursor'[f] = cursor[f]
  BY <1>1, <1>3, <1>4, <1>5
<1>12. \A f \in Experts : cursor'[f] = Cardinality({j \in Assigned(f) : slot'[j] # Junk})
  <2> SUFFICES ASSUME NEW f \in Experts
               PROVE  cursor'[f] = Cardinality({j \in Assigned(f) : slot'[j] # Junk})
    OBVIOUS
  <2> DEFINE S == {j \in Assigned(f) : slot[j] # Junk}
  <2>1. S \subseteq Rows /\ Assigned(f) \subseteq Rows
    BY DEF Assigned
  <2>2. IsFiniteSet(S) /\ cursor[f] = Cardinality(S)
    BY <1>2, <2>1, SubRows
  <2>3. CASE f = e
    <3>1. {j \in Assigned(f) : slot'[j] # Junk} = S \cup {i} /\ i \notin S
      BY <1>1, <1>4, <1>9, <1>11, <2>1, <2>3 DEF Assigned
    <3>2. Cardinality(S \cup {i}) = Cardinality(S) + 1
      BY <2>2, <3>1, FS_AddElement
    <3> QED
      BY <1>11, <2>2, <2>3, <3>1, <3>2
  <2>4. CASE f # e
    <3>1. {j \in Assigned(f) : slot'[j] # Junk} = S
      BY <1>4, <1>11, <2>1, <2>4 DEF Assigned
    <3> QED
      BY <1>11, <2>2, <2>4, <3>1
  <2> QED
    BY <2>3, <2>4
<1>13. ASSUME NEW j \in Rows, slot'[j] # Junk
       PROVE  /\ slot'[j] \in off[idx[j]]..(off[idx[j]] + cursor'[idx[j]] - 1)
              /\ \A k \in Rows : slot'[k] = slot'[j] => k = j
  <2>1. PICK f \in Experts : f = idx[j]
    BY <1>3
  <2>2. off[f] \in Nat /\ cursor[f] \in Nat
    BY <1>6, <1>7
  <2>3. CASE j = i
    <3>1. v \in off[e]..(off[e] + cursor'[e] - 1)
      BY <1>4, <1>5, <1>6, <1>7, <1>9, <1>11
    <3>2. \A k \in Rows : slot'[k] = v => k = i
      BY <1>9, <1>10, <1>11
    <3> QED
      BY <1>4, <1>11, <2>3, <3>1, <3>2
  <2>4. CASE j # i
    <3>1. slot'[j] = slot[j] /\ slot[j] # Junk
      BY <1>11, <1>13, <2>4
    <3>2. slot[j] \in off[f]..(off[f] + cursor[f] - 1) /\ \A k \in Rows : slot[k] = slot[j] => k = j
      BY <1>2, <2>1, <3>1
    <3>3. cursor'[f] = cursor[f] \/ cursor'[f] = cursor[f] + 1
      BY <1>11
    <3>4. slot[j] \in off[f]..(off[f] + cursor'[f] - 1)
      BY <2>2, <3>2, <3>3
    <3>5. \A k \in Rows : slot'[k] = slot[j] => k = j
      BY <1>10, <1>11, <3>1, <3>2
    <3> QED
      BY <2>1, <3>1, <3>4, <3>5
  <2> QED
    BY <2>3, <2>4
<1>14. \A r \in Rows : grp[r] # Junk => slot'[grp[r]] = r
  <2> SUFFICES ASSUME NEW r \in Rows, grp[r] # Junk
               PROVE  slot'[grp[r]] = r
    OBVIOUS
  <2>1. grp[r] \in Rows /\ slot[grp[r]] = r /\ r # Junk
    BY <1>2, <1>3, Sizes
  <2>2. grp[r] # i
    BY <1>1, <2>1
  <2> QED
    BY <1>11, <2>1, <2>2
<1>15. ClaimsOK'
  <2>1. \A f : Assigned(f)' = Assigned(f)
    BY <1>1, SetsStay
  <2>2. \A f \in Experts : cursor'[f] = Cardinality({j \in Assigned(f)' : slot'[j] # Junk})
    BY <1>12, <2>1
  <2> QED
    BY <1>1, <1>13, <1>14, <2>2 DEF ClaimsOK, Grouped
<1>16. TypeOK'
  <2>1. slot' \in [Rows -> Rows \cup {Junk}]
    BY <1>1, <1>3, <1>4, <1>5, <1>9
  <2>2. cursor' \in [Experts -> 0..NRows]
    <3>1. cursor[e] + 1 \in 0..NRows
      BY <1>7, <1>8, Subsets, Sizes
    <3> QED
      BY <1>1, <1>3, <1>4, <3>1
  <2> QED
    BY <1>1, <1>2, <2>1, <2>2 DEF TypeOK, results, weights
<1> QED
  BY <1>1, <1>15, <1>16, ScatterFrame

LEMMA FillCore == ASSUME NEW i \in Rows, Core, Fill(i) PROVE Core'
<1>1. /\ stage = "scatter" /\ slot[i] \in Rows /\ grp' = [grp EXCEPT ![slot[i]] = i]
      /\ UNCHANGED <<calls, mode, stage, idx, counts, off, cursor, slot, results, out, weights>>
  BY DEF Fill
<1>2. TypeOK /\ grp \in [Rows -> Rows \cup {Junk}]
  BY Types DEF Core
<1>3. TypeOK'
  <2>1. grp' \in [Rows -> Rows \cup {Junk}]
    BY <1>1, <1>2
  <2> QED
    BY <1>1, <1>2, <2>1 DEF TypeOK, results, weights
<1>4. ClaimsOK'
  <2>1. \A f : Assigned(f)' = Assigned(f)
    BY <1>1, SetsStay
  <2>2. \A r \in Rows : grp'[r] # Junk => slot[grp'[r]] = r
    <3>1. \A r \in Rows : grp[r] # Junk => slot[grp[r]] = r
      BY <1>1 DEF Core, ClaimsOK
    <3> QED
      BY <1>1, <1>2, <3>1
  <2>3. \A e \in Experts : cursor[e] = Cardinality({j \in Assigned(e)' : slot[j] # Junk})
    BY <1>1, <2>1 DEF Core, ClaimsOK
  <2>4. \A j \in Rows : slot[j] # Junk =>
          /\ slot[j] \in off[idx[j]]..(off[idx[j]] + cursor[idx[j]] - 1)
          /\ \A k \in Rows : slot[k] = slot[j] => k = j
    BY <1>1 DEF Core, ClaimsOK
  <2> QED
    BY <1>1, <2>2, <2>3, <2>4 DEF ClaimsOK, Grouped
<1> QED
  BY <1>1, <1>3, <1>4, ScatterFrame

-----------------------------------------------------------------------------
(* From the scatter and from the host's grouping to the experts. *)

\* The per-expert loop begins with nothing added.
LEMMA NothingSummed ==
    ASSUME expert' = 0, stage' = "experts", out' = NoOut, idx' \in [Rows -> Experts]
    PROVE  ResultsOK'
<1>1. Summed' = {}
  <2>1. \A i \in Rows : ~(idx'[i] < 0)
    BY Sizes
  <2> QED
    BY <2>1 DEF Summed
<1>2. \A t \in Toks : {i \in Summed' : i \div NAct = t} = {}
  BY <1>1
<1>3. \A t \in Toks : /\ Len(out'[t]) = 0 /\ {out'[t][k] : k \in 1..Len(out'[t])} = {}
  <2>1. Len(<< >>) = 0 /\ 1..0 = {}
    OBVIOUS
  <2>2. {<< >>[k] : k \in 1..Len(<< >>)} = {}
    BY <2>1
  <2> QED
    BY <2>1, <2>2 DEF NoOut
<1>4. Cardinality({}) = 0
  BY FS_EmptySet
<1> QED
  BY <1>2, <1>3, <1>4 DEF ResultsOK

LEMMA ScatteredCore == Core /\ Scattered => Core'
<1> SUFFICES ASSUME Core, Scattered
             PROVE  Core'
  OBVIOUS
<1>1. /\ stage = "scatter"
      /\ \A i \in Rows : slot[i] # Junk /\ (slot[i] \in Rows => grp[slot[i]] # Junk)
      /\ stage' = IF mode.group = "grouped" THEN "tiles" ELSE "experts"
      /\ UNCHANGED <<calls, mode, idx, sorting, results, out, weights>>
  BY DEF Scattered
<1>2. /\ TypeOK /\ \A e \in 0..NExperts : off[e] = Cardinality(Smaller(e))
      /\ \A e \in Experts : counts[e] = Cardinality(Assigned(e))
      /\ \A e \in Experts : cursor[e] = Cardinality({j \in Assigned(e) : slot[j] # Junk})
      /\ \A j \in Rows : slot[j] # Junk =>
           /\ slot[j] \in off[idx[j]]..(off[idx[j]] + cursor[idx[j]] - 1)
           /\ \A k \in Rows : slot[k] = slot[j] => k = j
      /\ \A r \in Rows : grp[r] # Junk => slot[grp[r]] = r
      /\ tiles = << >> /\ expert = 0 /\ off[0] = 0 /\ out = NoOut /\ WeightsOK
      /\ mode.group \in {"device", "grouped"}
  BY <1>1 DEF Core, OffsRight, ClaimsOK, TilesOK, StageOK, ResultsOK
<1>3. /\ idx \in [Rows -> Experts] /\ slot \in [Rows -> Rows \cup {Junk}] /\ grp \in [Rows -> Rows \cup {Junk}]
      /\ cursor \in [Experts -> 0..NRows] /\ off \in [0..NExperts -> 0..NRows]
  BY <1>2, Types
<1>4. TypeOK'
  BY <1>1, <1>2 DEF TypeOK, sorting, results, weights
<1>5. StageOK'
  BY <1>1, <1>2 DEF StageOK, results
<1>6. \A e : Assigned(e)' = Assigned(e) /\ Smaller(e)' = Smaller(e) /\ GroupRows(e)' = GroupRows(e)
  BY <1>1, SetsStay, GroupsStay DEF sorting
<1>7. OffsRight'
  BY <1>1, <1>2, <1>6 DEF OffsRight, Grouped, sorting
<1>8. ASSUME NEW e \in Experts, NEW i \in Assigned(e)
      PROVE  \E r \in GroupRows(e) : grp[r] = i
  <2>1. i \in Rows /\ idx[i] = e
    BY DEF Assigned
  <2>2. slot[i] \in Rows /\ grp[slot[i]] # Junk
    BY <1>1, <1>3, <2>1
  <2>3. grp[slot[i]] \in Rows /\ slot[grp[slot[i]]] = slot[i]
    BY <1>2, <1>3, <2>2
  <2>4. grp[slot[i]] = i
    BY <1>1, <1>2, <2>1, <2>3
  <2>5. slot[i] \in off[e]..(off[e] + cursor[e] - 1)
    BY <1>1, <1>2, <2>1
  <2>6. {j \in Assigned(e) : slot[j] # Junk} = Assigned(e)
    BY <1>1 DEF Assigned
  <2>7. cursor[e] = Cardinality(Assigned(e))
    BY <1>2, <2>6
  <2>8. off[e + 1] = off[e] + Cardinality(Assigned(e))
    <3>1. NExperts \in 0..NExperts /\ e \in 0..(NExperts - 1)
      BY Sizes
    <3> QED
      BY <1>2, <3>1, GroupsApart
  <2>9. slot[i] \in GroupRows(e)
    <3>1. off[e] + cursor[e] = off[e + 1]
      BY <2>7, <2>8
    <3>2. PICK a, c, d : a = off[e] /\ c = cursor[e] /\ d = off[e + 1]
      OBVIOUS
    <3>3. a \in Nat /\ c \in Nat /\ d = a + c /\ slot[i] \in a..(a + c - 1)
      BY <1>2, <1>3, <2>5, <2>7, <3>1, <3>2, Subsets, Sizes
    <3>4. slot[i] \in a..(d - 1)
      BY <3>3
    <3> QED
      BY <3>2, <3>4 DEF GroupRows
  <2> QED
    BY <2>4, <2>9
<1>9. ClaimsOK'
  BY <1>1, <1>6, <1>8 DEF ClaimsOK, sorting
<1>10. TilesOK'
  <2>1. CASE stage' = "tiles"
    <3>1. tiles' = << >> /\ off'[expert'] = 0
      BY <1>1, <1>2 DEF sorting, results
    <3>2. tiles' \in Seq([e : Experts, row0 : Rows]) /\ Len(tiles') = 0 /\ DOMAIN tiles' = {}
      BY <3>1
    <3>3. \A r \in Rows : ~(r < 0)
      BY Sizes
    <3> QED
      BY <2>1, <3>1, <3>2, <3>3 DEF TilesOK
  <2>2. CASE stage' = "experts"
    BY <2>2 DEF TilesOK
  <2> QED
    BY <1>1, <2>1, <2>2
<1>11. WeightsOK'
  BY <1>1, <1>2 DEF WeightsOK, weights
<1>12. ResultsOK'
  <2>1. CASE stage' = "tiles"
    BY <1>1, <1>2, <2>1 DEF ResultsOK
  <2>2. CASE stage' = "experts"
    BY <1>1, <1>2, <1>3, <2>2, NothingSummed DEF results
  <2> QED
    BY <1>1, <2>1, <2>2
<1>13. FixedOrder' /\ EverySlotOnce'
  BY <1>1 DEF FixedOrder, EverySlotOnce
<1> QED
  BY <1>4, <1>5, <1>7, <1>9, <1>10, <1>11, <1>12, <1>13 DEF Core

\* The host puts the assignments of an expert one behind the other.
LEMMA HostRows ==
    ASSUME TypeOK, off[expert] = Cardinality(Smaller(expert))
    PROVE  /\ \A i \in Assigned(expert) :
                HostRow(i) \in off[expert]..(off[expert] + Cardinality(Assigned(expert)) - 1)
           /\ \A i \in Assigned(expert), k \in Assigned(expert) : HostRow(i) = HostRow(k) => i = k
<1>1. Rows = 0..(NRows - 1) /\ NRows \in Nat /\ \A i \in Rows : i \in Nat
  BY Sizes
<1>2. idx \in [Rows -> Experts] /\ expert \in Experts /\ off[expert] \in Nat
  BY Types, Subsets
<1>3. \A i \in Assigned(expert) : i \in Nat
  BY <1>1 DEF Assigned
<1> DEFINE Before(i) == {j \in Assigned(expert) : j < i}
<1>4. \A i \in Assigned(expert) : HostRow(i) = off[expert] + Cardinality(Before(i))
  BY <1>2 DEF HostRow, Assigned
<1>5. \A i : Before(i) \in SUBSET Assigned(expert) /\ IsFiniteSet(Before(i)) /\ Cardinality(Before(i)) \in Nat
  <2> SUFFICES ASSUME NEW i
               PROVE  Before(i) \in SUBSET Assigned(expert) /\ IsFiniteSet(Before(i)) /\ Cardinality(Before(i)) \in Nat
    OBVIOUS
  <2>1. Before(i) \subseteq Assigned(expert) /\ Before(i) \subseteq Rows
    BY DEF Assigned
  <2> QED
    BY <2>1, SubRows
<1>6. ASSUME NEW i \in Assigned(expert)
      PROVE  Cardinality(Before(i)) < Cardinality(Assigned(expert))
  <2>1. i \notin Before(i)
    BY <1>3
  <2>2. Before(i) # Assigned(expert)
    BY <2>1
  <2>3. Cardinality(Before(i)) <= Cardinality(Assigned(expert)) /\ Cardinality(Before(i)) # Cardinality(Assigned(expert))
    BY <1>5, <2>2, Subsets, FS_Subset
  <2> QED
    BY <1>5, <2>3, Subsets
<1>7. ASSUME NEW i \in Assigned(expert), NEW k \in Assigned(expert), i < k
      PROVE  Cardinality(Before(i)) # Cardinality(Before(k))
  <2>1. Before(i) \in SUBSET Before(k)
    BY <1>7, <1>3
  <2>2. i \in Before(k) /\ i \notin Before(i)
    BY <1>7, <1>3
  <2> QED
    BY <1>5, <2>1, <2>2, FS_Subset
<1> HIDE DEF Before
<1>8. ASSUME NEW i \in Assigned(expert)
      PROVE  HostRow(i) \in off[expert]..(off[expert] + Cardinality(Assigned(expert)) - 1)
  <2>1. PICK a, b, c : a = off[expert] /\ b = Cardinality(Before(i)) /\ c = Cardinality(Assigned(expert))
    OBVIOUS
  <2>2. a \in Nat /\ b \in Nat /\ c \in Nat /\ b < c /\ HostRow(i) = a + b
    BY <1>2, <1>4, <1>5, <1>6, <2>1, Subsets
  <2>3. HostRow(i) \in a..(a + c - 1)
    BY <2>2
  <2> QED
    BY <2>1, <2>3
<1>9. ASSUME NEW i \in Assigned(expert), NEW k \in Assigned(expert), HostRow(i) = HostRow(k)
      PROVE  i = k
  <2>1. PICK a, b, c : a = off[expert] /\ b = Cardinality(Before(i)) /\ c = Cardinality(Before(k))
    OBVIOUS
  <2>2. a \in Nat /\ b \in Nat /\ c \in Nat /\ a + b = a + c
    BY <1>2, <1>4, <1>5, <1>9, <2>1
  <2>3. b = c
    BY <2>2
  <2>4. ~(i < k) /\ ~(k < i)
    BY <1>7, <2>1, <2>3
  <2> QED
    BY <1>3, <2>4
<1> QED
  BY <1>8, <1>9

LEMMA HostCore == Core /\ HostGroup => Core'
<1> SUFFICES ASSUME Core, HostGroup
             PROVE  Core'
  OBVIOUS
<1>1. /\ stage = "host" /\ Loop("host", "experts")
      /\ counts' = [counts EXCEPT ![expert] = Cardinality(Assigned(expert))]
      /\ off' = [off EXCEPT ![expert + 1] = off[expert] + Cardinality(Assigned(expert))]
      /\ grp' = [r \in Rows |-> IF \E i \in Assigned(expert) : HostRow(i) = r
                                THEN CHOOSE i \in Assigned(expert) : HostRow(i) = r ELSE grp[r]]
      /\ UNCHANGED <<calls, mode, idx, cursor, slot, tiles, added, oeb, ts, out, weights>>
  BY DEF HostGroup
<1>2. /\ TypeOK /\ WeightsOK /\ off[0] = 0 /\ out = NoOut /\ mode.group = "host"
      /\ \A e \in 0..expert : off[e] = Cardinality(Smaller(e))
      /\ \A e \in Experts : e < expert => counts[e] = Cardinality(Assigned(e))
      /\ \A e \in Experts : e < expert => \A i \in Assigned(e) : \E r \in GroupRows(e) : grp[r] = i
  BY <1>1 DEF Core, StageOK, OffsRight, ClaimsOK, ResultsOK
<1>3. /\ idx \in [Rows -> Experts] /\ expert \in Experts /\ off \in [0..NExperts -> 0..NRows]
      /\ counts \in [Experts -> 0..NRows] /\ grp \in [Rows -> Rows \cup {Junk}]
  BY <1>2, Types
<1>4. /\ expert' \in Experts /\ expert + 1 \in 0..NExperts /\ expert \in Nat
      /\ \/ expert + 1 < NExperts /\ expert' = expert + 1 /\ stage' = "host"
         \/ expert + 1 = NExperts /\ expert' = 0 /\ stage' = "experts"
  BY <1>1, <1>3, LoopSteps
<1>5. /\ off[expert] + Cardinality(Assigned(expert)) = Cardinality(Smaller(expert + 1))
      /\ off[expert] = Cardinality(Smaller(expert))
  BY <1>2, <1>3, <1>4, NextSmaller
<1>6. off' \in [0..NExperts -> 0..NRows] /\ off'[expert + 1] = off[expert] + Cardinality(Assigned(expert))
  <2>1. off[expert] + Cardinality(Assigned(expert)) \in 0..NRows
    BY <1>5, Subsets, Sizes
  <2> QED
    BY <1>1, <1>3, <1>4, <2>1
<1>7. \A e \in 0..expert : off'[e] = off[e]
  BY <1>1, <1>3, <1>4
<1>8. \A e \in 0..(expert + 1) : off'[e] = Cardinality(Smaller(e))
  <2> SUFFICES ASSUME NEW e \in 0..(expert + 1)
               PROVE  off'[e] = Cardinality(Smaller(e))
    OBVIOUS
  <2>1. CASE e = expert + 1
    BY <1>5, <1>6, <2>1
  <2>2. CASE e # expert + 1
    <3>1. e \in 0..expert
      BY <1>4, <2>2
    <3> QED
      BY <1>2, <1>7, <3>1
  <2> QED
    BY <2>1, <2>2
<1>9. counts' \in [Experts -> 0..NRows] /\ \A e \in Experts : e < expert + 1 => counts'[e] = Cardinality(Assigned(e))
  <2>1. Cardinality(Assigned(expert)) \in 0..NRows
    BY Subsets, Sizes
  <2>2. counts' \in [Experts -> 0..NRows] /\ counts'[expert] = Cardinality(Assigned(expert))
    BY <1>1, <1>3, <2>1
  <2>3. \A e \in Experts : e < expert + 1 => e = expert \/ (e < expert /\ counts'[e] = counts[e])
    BY <1>1, <1>3, <1>4, Sizes
  <2> QED
    BY <1>2, <2>2, <2>3
<1>10. /\ \A i \in Assigned(expert) :
             HostRow(i) \in off[expert]..(off[expert] + Cardinality(Assigned(expert)) - 1)
       /\ \A i \in Assigned(expert), k \in Assigned(expert) : HostRow(i) = HostRow(k) => i = k
  BY <1>2, <1>5, HostRows
<1>11. grp' \in [Rows -> Rows \cup {Junk}]
  BY <1>1, <1>3 DEF Assigned
<1>12. off[expert] \in Nat /\ Cardinality(Assigned(expert)) \in Nat /\ off'[expert + 1] <= NRows
  BY <1>3, <1>4, <1>5, <1>6, Subsets, Sizes
<1>13. PICK x : x = expert
  OBVIOUS
<1>14. off[x] \in Nat /\ off'[x] = off[x] /\ off'[x + 1] = off[x] + Cardinality(Assigned(x))
  BY <1>4, <1>6, <1>7, <1>12, <1>13
<1>15. \A e : GroupRows(e)' = off'[e]..(off'[e + 1] - 1)
  BY DEF GroupRows
<1>16. ASSUME NEW i \in Assigned(x)
       PROVE  \E r \in GroupRows(x)' : grp'[r] = i
  <2>1. PICK r : r = HostRow(i)
    OBVIOUS
  <2>2. r \in off[x]..(off[x] + Cardinality(Assigned(x)) - 1)
    BY <1>10, <1>13, <2>1
  <2>3. r \in GroupRows(x)'
    <3>1. PICK a, c, b, d : a = off[x] /\ c = Cardinality(Assigned(x)) /\ b = off'[x] /\ d = off'[x + 1]
      OBVIOUS
    <3>2. a \in Nat /\ c \in Nat /\ b = a /\ d = a + c /\ r \in a..(a + c - 1)
      BY <1>14, <2>2, <3>1, Subsets
    <3>3. r \in b..(d - 1)
      BY <3>2
    <3> QED
      BY <1>15, <3>1, <3>3
  <2>4. r \in Rows
    <3>1. PICK a, b : a = off[x] /\ b = Cardinality(Assigned(x))
      OBVIOUS
    <3>2. a \in Nat /\ b \in Nat /\ a + b <= NRows /\ r \in a..(a + b - 1) /\ NRows \in Nat
      BY <1>6, <1>12, <1>13, <2>2, <3>1, Sizes
    <3> QED
      BY <3>2, Sizes
  <2>5. \E j \in Assigned(expert) : HostRow(j) = r
    BY <1>13, <2>1
  <2>6. grp'[r] = CHOOSE j \in Assigned(expert) : HostRow(j) = r
    BY <1>1, <2>4, <2>5
  <2>7. grp'[r] \in Assigned(expert) /\ HostRow(grp'[r]) = r
    BY <2>5, <2>6
  <2>8. grp'[r] = i
    BY <1>10, <1>13, <2>1, <2>7
  <2> QED
    BY <2>3, <2>8
<1>17. ASSUME NEW e \in Experts, e < x, NEW i \in Assigned(e)
       PROVE  \E r \in GroupRows(e)' : grp'[r] = i
  <2>1. PICK r \in GroupRows(e) : grp[r] = i
    BY <1>2, <1>13, <1>17
  <2>2. x \in 0..NExperts /\ x \in Nat /\ e \in 0..(x - 1) /\ x \in (e + 1)..x /\ e + 1 \in 0..x
    BY <1>3, <1>4, <1>13, <1>17, Sizes
  <2>3. /\ off[e] \in Nat /\ off[e + 1] \in Nat /\ GroupRows(e) \subseteq Rows /\ off[e + 1] <= off[x]
    BY <1>2, <1>13, <2>2, GroupsApart
  <2>4. off'[e] = off[e] /\ off'[e + 1] = off[e + 1]
    BY <1>7, <1>13, <2>2
  <2>5. r \in GroupRows(e)'
    BY <1>15, <2>4 DEF GroupRows
  <2>6. r \in Rows /\ r < off[x]
    <3>1. r \in off[e]..(off[e + 1] - 1)
      BY DEF GroupRows
    <3> QED
      BY <1>14, <2>3, <3>1
  <2>7. \A j \in Assigned(expert) : HostRow(j) # r
    <3> SUFFICES ASSUME NEW j \in Assigned(expert), HostRow(j) = r
                 PROVE  FALSE
      OBVIOUS
    <3>1. r \in off[x]..(off[x] + Cardinality(Assigned(x)) - 1)
      BY <1>10, <1>13
    <3>2. Cardinality(Assigned(x)) \in Nat
      BY Subsets
    <3> QED
      BY <1>14, <2>6, <3>1, <3>2
  <2>8. grp'[r] = i
    BY <1>1, <2>1, <2>6, <2>7
  <2> QED
    BY <2>5, <2>8
<1>18. \A e : Assigned(e)' = Assigned(e) /\ Smaller(e)' = Smaller(e)
  BY <1>1, SetsStay
<1>19. off'[0] = 0
  BY <1>2, <1>4, <1>7
<1>20. TypeOK'
  <2>1. slot \in [Rows -> Rows \cup {Junk}] /\ grp \in [Rows -> Rows \cup {Junk}]
        /\ oeb \in [Rows -> Rows \cup {Junk}] /\ ts \in [Rows -> Rows \cup {Junk}]
    BY <1>2, Types
  <2>2. UNCHANGED <<slot, oeb, ts>>
    BY <1>1
  <2>3. {slot', grp', oeb', ts'} \subseteq [Rows -> Rows \cup {Junk}]
    BY <2>1, <2>2, <1>11
  <2> QED
    BY <1>1, <1>2, <1>4, <1>6, <1>9, <2>3 DEF TypeOK, weights
<1>21. StageOK'
  BY <1>1, <1>2, <1>4 DEF StageOK
<1>22. OffsRight'
  <2>1. CASE stage' = "host" /\ expert' = expert + 1
    <3>1. \A e \in 0..expert' : off'[e] = Cardinality(Smaller(e)')
      BY <1>8, <1>18, <2>1
    <3>2. \A e \in Experts : e < expert' => counts'[e] = Cardinality(Assigned(e)')
      BY <1>9, <1>18, <2>1
    <3> QED
      BY <1>19, <2>1, <3>1, <3>2 DEF OffsRight, Grouped
  <2>2. CASE stage' = "experts" /\ expert + 1 = NExperts
    <3>1. \A e \in 0..NExperts : off'[e] = Cardinality(Smaller(e)')
      BY <1>8, <1>18, <2>2
    <3>2. \A e \in Experts : e < NExperts
      BY Sizes
    <3>3. \A e \in Experts : counts'[e] = Cardinality(Assigned(e)')
      BY <1>9, <1>18, <2>2, <3>2
    <3> QED
      BY <1>19, <2>2, <3>1, <3>3 DEF OffsRight, Grouped
  <2> QED
    BY <1>4, <2>1, <2>2
<1>23. ASSUME NEW e \in Experts, e < expert + 1
       PROVE  \A i \in Assigned(e)' : \E r \in GroupRows(e)' : grp'[r] = i
  <2>1. e = x \/ e < x
    BY <1>4, <1>13, <1>23, Sizes
  <2> QED
    BY <1>16, <1>17, <1>18, <2>1
<1>24. ClaimsOK'
  <2>1. CASE stage' = "host" /\ expert' = expert + 1
    BY <1>23, <2>1 DEF ClaimsOK, Grouped
  <2>2. CASE stage' = "experts" /\ expert + 1 = NExperts
    <3>1. \A e \in Experts : e < expert + 1
      BY <2>2, Sizes
    <3> QED
      BY <1>23, <2>2, <3>1 DEF ClaimsOK, Grouped
  <2> QED
    BY <1>4, <2>1, <2>2
<1>25. TilesOK' /\ WeightsOK'
  BY <1>1, <1>2, <1>4 DEF TilesOK, WeightsOK, weights
<1>26. ResultsOK'
  <2>1. CASE stage' = "host"
    BY <1>1, <1>2, <2>1 DEF ResultsOK
  <2>2. CASE stage' = "experts" /\ expert' = 0
    BY <1>1, <1>2, <1>3, <2>2, NothingSummed
  <2> QED
    BY <1>4, <2>1, <2>2
<1>27. FixedOrder' /\ EverySlotOnce'
  BY <1>4 DEF FixedOrder, EverySlotOnce
<1> QED
  BY <1>20, <1>21, <1>22, <1>24, <1>25, <1>26, <1>27 DEF Core

-----------------------------------------------------------------------------
(* One token after the other, one expert after the other. *)

LEMMA TokenCore == Core /\ TokenLoop => Core'
<1> SUFFICES ASSUME Core, TokenLoop
             PROVE  Core'
  OBVIOUS
<1>1. /\ stage = "token" /\ stage' = "shared" /\ Prepare({idx[i] : i \in Rows})
      /\ out' = [t \in Toks |-> [s \in 1..NAct |->
                   Contribution(idx[t * NAct + s - 1], t * NAct + s - 1)]]
      /\ UNCHANGED <<calls, mode, idx, sorting, results>>
  BY DEF TokenLoop
<1>2. TypeOK /\ WeightsOK /\ off[0] = 0 /\ expert = 0 /\ mode.group = "token" /\ idx \in [Rows -> Experts]
  BY <1>1, Types DEF Core, StageOK, OffsRight
<1>3. /\ WeightsOK' /\ ppdone' \subseteq Experts
      /\ layout' \in [Experts -> {"raw", "packed", "garbled"}]
      /\ copy' \in [Experts -> {"none", "packed", "garbled"}]
      /\ \A e \in {idx[i] : i \in Rows} : Readable(e)
  <2>1. {idx[i] : i \in Rows} \subseteq Experts
    BY <1>2
  <2> QED
    BY <1>1, <1>2, <2>1, Prepared
<1>4. \A i \in Rows : Contribution(idx[i], i) = i
  <2> SUFFICES ASSUME NEW i \in Rows
               PROVE  Contribution(idx[i], i) = i
    OBVIOUS
  <2>1. Readable(idx[i])
    BY <1>3
  <2> QED
    BY <2>1 DEF Contribution
<1>5. \A t \in Toks : out'[t] = [s \in 1..NAct |-> t * NAct + s - 1]
  <2> SUFFICES ASSUME NEW t \in Toks
               PROVE  out'[t] = [s \in 1..NAct |-> t * NAct + s - 1]
    OBVIOUS
  <2>1. out'[t] = [s \in 1..NAct |-> Contribution(idx[t * NAct + s - 1], t * NAct + s - 1)]
    BY <1>1
  <2>2. \A s \in 1..NAct : t * NAct + s - 1 \in Rows
    BY RowOfSlot
  <2>3. \A s \in 1..NAct : Contribution(idx[t * NAct + s - 1], t * NAct + s - 1) = t * NAct + s - 1
    BY <1>4, <2>2
  <2> QED
    BY <2>1, <2>3
<1>6. out' \in [Toks -> Seq(Rows \cup {Junk, Shared})]
  <2>1. ASSUME NEW t \in Toks
        PROVE  out'[t] \in Seq(Rows \cup {Junk, Shared})
    <3>1. \A s \in 1..NAct : t * NAct + s - 1 \in Rows \cup {Junk, Shared}
      BY RowOfSlot
    <3>2. out'[t] \in [1..NAct -> Rows \cup {Junk, Shared}]
      BY <1>5, <3>1
    <3> QED
      BY <3>2, FunctionSeq, Sizes
  <2>2. DOMAIN out' = Toks /\ out' = [t \in Toks |-> out'[t]]
    BY <1>1
  <2> QED
    BY <2>1, <2>2
<1>7. TypeOK'
  BY <1>1, <1>2, <1>3, <1>6 DEF TypeOK, sorting, results
<1>8. StageOK' /\ OffsRight' /\ ClaimsOK' /\ TilesOK'
  <2>1. expert' = 0 /\ off'[0] = 0
    BY <1>1, <1>2 DEF sorting, results
  <2> QED
    BY <1>1, <2>1 DEF StageOK, OffsRight, ClaimsOK, TilesOK, Grouped
<1>9. ResultsOK'
  BY <1>1, <1>2, <1>5 DEF ResultsOK
<1>10. FixedOrder' /\ EverySlotOnce'
  BY <1>1 DEF FixedOrder, EverySlotOnce
<1> QED
  BY <1>3, <1>7, <1>8, <1>9, <1>10 DEF Core

\* The rows of an expert's group hold the assignments to it.
LEMMA GroupOf ==
    ASSUME Core, Grouped, NEW e \in Experts
    PROVE  /\ GroupRows(e) \subseteq Rows /\ off[e] \in Nat
           /\ \A r \in GroupRows(e) : grp[r] \in Rows /\ idx[grp[r]] = e /\ r - off[e] < NRows
<1>1. /\ \A r \in Rows : grp[r] \in Rows /\ (r \in GroupRows(e) <=> idx[grp[r]] = e)
      /\ GroupRows(e) \subseteq Rows /\ off[e] \in Nat
  BY GroupingIs DEF Core
<1>2. \A r \in Rows : r \in Nat /\ r < NRows /\ NRows \in Nat
  BY Sizes
<1>3. \A r \in Rows : r - off[e] < NRows
  <2> SUFFICES ASSUME NEW r \in Rows
               PROVE  r - off[e] < NRows
    OBVIOUS
  <2>1. PICK a : a = off[e]
    OBVIOUS
  <2>2. r - a < NRows
    BY <1>1, <1>2, <2>1
  <2> QED
    BY <2>1, <2>2
<1> QED
  BY <1>1, <1>3

LEMMA GemmCore == Core /\ ExpertGemm => Core'
<1> SUFFICES ASSUME Core, ExpertGemm
             PROVE  Core'
  OBVIOUS
<1>1. /\ stage = "experts" /\ Prepare(IF GroupRows(expert) = {} THEN {} ELSE {expert})
      /\ oeb' = [r \in Rows |-> IF r \in GroupRows(expert) /\ r - off[expert] < GemmRows
                                THEN Contribution(expert, grp[r]) ELSE Junk]
      /\ stage' = "add" /\ added' = {}
      /\ UNCHANGED <<calls, mode, idx, sorting, tiles, expert, ts, out>>
  BY DEF ExpertGemm
<1>2. /\ TypeOK /\ WeightsOK /\ Grouped /\ mode.group \in {"device", "host"} /\ mode \in Modes
      /\ idx \in [Rows -> Experts] /\ expert \in Experts
  BY <1>1, Types DEF Core, StageOK, Grouped
<1>3. /\ WeightsOK' /\ ppdone' \subseteq Experts
      /\ layout' \in [Experts -> {"raw", "packed", "garbled"}]
      /\ copy' \in [Experts -> {"none", "packed", "garbled"}]
      /\ GroupRows(expert) # {} => Readable(expert)
  <2>1. PICK S : S = IF GroupRows(expert) = {} THEN {} ELSE {expert}
    OBVIOUS
  <2>2. S \subseteq Experts /\ Prepare(S)
    BY <1>1, <1>2, <2>1
  <2>3. /\ WeightsOK' /\ ppdone' \subseteq Experts
        /\ layout' \in [Experts -> {"raw", "packed", "garbled"}]
        /\ copy' \in [Experts -> {"none", "packed", "garbled"}]
        /\ \A e \in S : Readable(e)
    BY <1>1, <1>2, <2>2, Prepared
  <2>4. GroupRows(expert) # {} => expert \in S
    BY <2>1
  <2> QED
    BY <2>3, <2>4
<1>4. /\ GroupRows(expert) \subseteq Rows
      /\ \A r \in GroupRows(expert) : grp[r] \in Rows /\ idx[grp[r]] = expert /\ r - off[expert] < NRows
  BY <1>2, GroupOf
<1>5. \A r \in GroupRows(expert) : Contribution(expert, grp[r]) = grp[r]
  BY <1>3, <1>4 DEF Contribution
<1>6. FitsTile(expert) => \A r \in GroupRows(expert) : oeb'[r] = grp[r]
  <2> SUFFICES ASSUME FitsTile(expert), NEW r \in GroupRows(expert)
               PROVE  oeb'[r] = grp[r]
    OBVIOUS
  <2>1. PICK a, n : a = off[expert] /\ n = Cardinality(Assigned(expert))
    OBVIOUS
  <2>2. a \in Nat /\ off[expert + 1] = a + n /\ off[expert + 1] \in Nat
    BY <1>2, <2>1, GroupingIs DEF Core
  <2>3. r \in a..(a + n - 1) /\ n \in Nat
    <3>1. r \in a..(off[expert + 1] - 1)
      BY <2>1 DEF GroupRows
    <3>2. n \in Nat
      BY <2>1, SubRows, FS_CardinalityType DEF Assigned
    <3> QED
      BY <2>2, <3>1, <3>2
  <2>4. r - off[expert] < GemmRows
    <3>1. CASE mode.gemm \in {"tc", "pp"}
      <4>1. n <= TileRows /\ GemmRows = TileRows
        BY <1>2, <2>1, <3>1 DEF FitsTile, GemmRows
      <4>2. r - a < TileRows
        BY <2>2, <2>3, <4>1, Sizes
      <4> QED
        BY <2>1, <4>1, <4>2
    <3>2. CASE mode.gemm \notin {"tc", "pp"}
      BY <1>4, <3>2 DEF GemmRows
    <3> QED
      BY <3>1, <3>2
  <2> QED
    BY <1>1, <1>4, <1>5, <2>4
<1>7. oeb' \in [Rows -> Rows \cup {Junk}]
  <2>1. \A r : Contribution(expert, grp[r]) \in Rows \cup {Junk}
    BY DEF Contribution
  <2> QED
    BY <1>1, <2>1
<1>8. TypeOK'
  <2>1. slot \in [Rows -> Rows \cup {Junk}] /\ grp \in [Rows -> Rows \cup {Junk}]
        /\ oeb \in [Rows -> Rows \cup {Junk}] /\ ts \in [Rows -> Rows \cup {Junk}]
    BY <1>2, Types
  <2>2. UNCHANGED <<slot, grp, ts>>
    BY <1>1 DEF sorting
  <2>3. {slot', grp', oeb', ts'} \subseteq [Rows -> Rows \cup {Junk}]
    BY <2>1, <2>2, <1>7
  <2> QED
    BY <1>1, <1>2, <1>3, <2>3 DEF TypeOK, sorting
<1>9. StageOK' /\ TilesOK'
  BY <1>1, <1>2 DEF StageOK, TilesOK
<1>10. OffsRight' /\ ClaimsOK'
  BY <1>1, <1>2, SortStays DEF Core, sorting
<1>11. Summed' = Summed
  BY <1>1 DEF Summed
<1>12. ResultsOK'
  <2>1. GroupRows(expert)' = GroupRows(expert)
    BY <1>1 DEF GroupRows, sorting
  <2>2. \A t \in Toks : Whole(t) =>
          LET due == {i \in Summed : i \div NAct = t}
          IN  /\ Len(out[t]) = Cardinality(due)
              /\ {out[t][k] : k \in 1..Len(out[t])} = due
    BY <1>1, <1>2 DEF Core, ResultsOK
  <2>3. grp' = grp
    BY <1>1 DEF sorting
  <2>4. FitsTile(expert)' = FitsTile(expert) /\ \A t : Whole(t)' = Whole(t)
    BY <1>1, FitsStays
  <2> QED
    BY <1>1, <1>6, <1>11, <2>1, <2>2, <2>3, <2>4 DEF ResultsOK
<1>13. FixedOrder' /\ EverySlotOnce'
  BY <1>1 DEF FixedOrder, EverySlotOnce
<1> QED
  BY <1>3, <1>8, <1>9, <1>10, <1>12, <1>13 DEF Core

\* One contribution more to the token it is of.
LEMMA OneMore ==
    ASSUME NEW T, NEW q \in Seq(T), NEW i \in T, NEW S, IsFiniteSet(S), i \notin S,
           Len(q) = Cardinality(S), {q[k] : k \in 1..Len(q)} = S
    PROVE  /\ Len(Append(q, i)) = Cardinality(S \cup {i})
           /\ {Append(q, i)[k] : k \in 1..Len(Append(q, i))} = S \cup {i}
<1>1. PICK n : n = Len(q)
  OBVIOUS
<1>2. /\ n \in Nat /\ Len(Append(q, i)) = n + 1
      /\ \A k \in 1..n : Append(q, i)[k] = q[k]
      /\ Append(q, i)[n + 1] = i
  BY <1>1, AppendProperties
<1>3. Cardinality(S \cup {i}) = Cardinality(S) + 1
  BY FS_AddElement
<1>4. \A k \in 1..(n + 1) : k \in 1..n \/ k = n + 1
  BY <1>2
<1>5. 1..n \subseteq 1..(n + 1) /\ n + 1 \in 1..(n + 1)
  BY <1>2
<1>6. {Append(q, i)[k] : k \in 1..(n + 1)} = {q[k] : k \in 1..n} \cup {i}
  BY <1>2, <1>4, <1>5
<1> QED
  BY <1>1, <1>2, <1>3, <1>6

LEMMA AddCore == ASSUME NEW r \in Rows, Core, AddRow(r) PROVE Core'
<1>1. /\ stage = "add" /\ r \in GroupRows(expert) \ added
      /\ added' = added \cup {r}
      /\ out' = [out EXCEPT ![grp[r] \div NAct] = Append(out[grp[r] \div NAct], oeb[r])]
      /\ UNCHANGED <<calls, mode, stage, idx, sorting, tiles, expert, oeb, ts, weights>>
  BY DEF AddRow
<1>2. /\ TypeOK /\ WeightsOK /\ Grouped /\ mode.group \in {"device", "host"}
      /\ idx \in [Rows -> Experts] /\ expert \in Experts /\ added \subseteq GroupRows(expert)
      /\ out \in [Toks -> Seq(Rows \cup {Junk, Shared})] /\ oeb \in [Rows -> Rows \cup {Junk}]
  BY <1>1, Types DEF Core, StageOK, Grouped, ResultsOK
<1>3. /\ GroupRows(expert) \subseteq Rows
      /\ \A q \in GroupRows(expert) : grp[q] \in Rows /\ idx[grp[q]] = expert
  BY <1>2, GroupOf
<1>4. PICK i : i = grp[r]
  OBVIOUS
<1>5. i \in Rows /\ idx[i] = expert
  BY <1>1, <1>3, <1>4
<1>6. PICK u \in Toks : u = i \div NAct
  BY <1>5, SlotOfRow
<1>7. /\ out'[u] = Append(out[u], oeb[r]) /\ \A t \in Toks : t # u => out'[t] = out[t]
      /\ out' \in [Toks -> Seq(Rows \cup {Junk, Shared})]
  <2>1. out' = [out EXCEPT ![u] = Append(out[u], oeb[r])]
    BY <1>1, <1>4, <1>6
  <2>2. oeb[r] \in Rows \cup {Junk, Shared} /\ out[u] \in Seq(Rows \cup {Junk, Shared})
    BY <1>2
  <2>3. Append(out[u], oeb[r]) \in Seq(Rows \cup {Junk, Shared})
    BY <2>2, AppendProperties
  <2> QED
    BY <1>2, <2>1, <2>3
<1>8. TypeOK'
  <2>1. added' \subseteq Rows
    BY <1>1, <1>2, <1>3
  <2> QED
    BY <1>1, <1>2, <1>7, <2>1 DEF TypeOK, sorting, weights
<1>9. StageOK' /\ TilesOK' /\ WeightsOK'
  BY <1>1, <1>2 DEF StageOK, TilesOK, WeightsOK, weights
<1>10. OffsRight' /\ ClaimsOK'
  BY <1>1, <1>2, SortStays DEF Core, sorting
<1>11. Summed = {j \in Rows : idx[j] < expert} \cup {grp[q] : q \in added}
  BY <1>1 DEF Summed
<1>12. Summed' = Summed \cup {i}
  <2>1. Summed' = {j \in Rows : idx[j] < expert} \cup {grp[q] : q \in added \cup {r}}
    BY <1>1 DEF Summed, sorting
  <2>2. {grp[q] : q \in added \cup {r}} = {grp[q] : q \in added} \cup {i}
    BY <1>4
  <2> QED
    BY <1>11, <2>1, <2>2
<1>13. i \notin Summed
  <2>1. ~(idx[i] < expert)
    BY <1>2, <1>5, Sizes
  <2>2. \A q \in added : grp[q] # i
    <3>1. \A p \in Rows, q \in Rows : grp[p] = grp[q] => p = q
      BY <1>2, GroupingIs DEF Core
    <3> QED
      BY <1>1, <1>2, <1>3, <1>4, <3>1
  <2> QED
    BY <1>11, <2>1, <2>2
<1>14. ASSUME NEW t \in Toks, Whole(t)
       PROVE  /\ Len(out'[t]) = Cardinality({j \in Summed' : j \div NAct = t})
              /\ {out'[t][k] : k \in 1..Len(out'[t])} = {j \in Summed' : j \div NAct = t}
  <2>1. t = u => oeb[r] = i
    <3>1. t = u => FitsTile(expert)
      BY <1>5, <1>6, <1>14 DEF Whole
    <3> QED
      BY <1>1, <1>4, <3>1 DEF Core, ResultsOK
  <2> DEFINE D == {j \in Summed : j \div NAct = t}
  <2>2. Len(out[t]) = Cardinality(D) /\ {out[t][k] : k \in 1..Len(out[t])} = D
    BY <1>1, <1>2, <1>14 DEF Core, ResultsOK
  <2>3. CASE t = u
    <3>1. {j \in Summed' : j \div NAct = t} = D \cup {i} /\ i \notin D
      BY <1>6, <1>12, <1>13, <2>3
    <3>2. IsFiniteSet(D)
      <4>1. D \subseteq Rows
        <5>1. Summed \subseteq Rows
          BY <1>2, <1>3, <1>11
        <5> QED
          BY <5>1
      <4> QED
        BY <4>1, SubRows
    <3> HIDE DEF D
    <3>3. PICK T, q, E : T = Rows \cup {Junk, Shared} /\ q = out[t] /\ E = D
      OBVIOUS
    <3>4. /\ q \in Seq(T) /\ i \in T /\ IsFiniteSet(E) /\ i \notin E
          /\ Len(q) = Cardinality(E) /\ {q[k] : k \in 1..Len(q)} = E
      BY <1>2, <1>5, <2>2, <3>1, <3>2, <3>3
    <3>5. /\ Len(Append(q, i)) = Cardinality(E \cup {i})
          /\ {Append(q, i)[k] : k \in 1..Len(Append(q, i))} = E \cup {i}
      BY <3>4, OneMore
    <3>6. out'[t] = Append(q, i)
      BY <1>7, <2>1, <2>3, <3>3
    <3> QED
      BY <3>1, <3>3, <3>5, <3>6
  <2>4. CASE t # u
    <3>1. {j \in Summed' : j \div NAct = t} = D
      BY <1>6, <1>12, <2>4
    <3>2. out'[t] = out[t]
      BY <1>7, <2>4
    <3> QED
      BY <2>2, <3>1, <3>2
  <2> QED
    BY <2>3, <2>4
<1>15. ResultsOK'
  <2>1. GroupRows(expert)' = GroupRows(expert)
    BY <1>1 DEF GroupRows, sorting
  <2>2. added' \subseteq GroupRows(expert)'
    BY <1>1, <1>2, <2>1
  <2>3. FitsTile(expert)' = FitsTile(expert) /\ \A t : Whole(t)' = Whole(t)
    BY <1>1, FitsStays
  <2>4. FitsTile(expert) => \A q \in GroupRows(expert)' : oeb'[q] = grp'[q]
    BY <1>1, <2>1 DEF Core, ResultsOK, sorting
  <2>5. expert' = expert
    BY <1>1
  <2> QED
    BY <1>1, <1>14, <2>2, <2>3, <2>4, <2>5 DEF ResultsOK
<1>16. FixedOrder' /\ EverySlotOnce'
  BY <1>1 DEF FixedOrder, EverySlotOnce
<1> QED
  BY <1>8, <1>9, <1>10, <1>15, <1>16 DEF Core

LEMMA NextExpertCore == Core /\ NextExpert => Core'
<1> SUFFICES ASSUME Core, NextExpert
             PROVE  Core'
  OBVIOUS
<1>1. /\ stage = "add" /\ added = GroupRows(expert) /\ Loop("experts", "shared")
      /\ UNCHANGED <<calls, mode, idx, sorting, tiles, added, oeb, ts, out, weights>>
  BY DEF NextExpert
<1>2. /\ TypeOK /\ WeightsOK /\ Grouped /\ mode.group \in {"device", "host"}
      /\ idx \in [Rows -> Experts] /\ expert \in Experts
  BY <1>1, Types DEF Core, StageOK, Grouped
<1>3. /\ expert' \in Experts /\ expert + 1 \in 0..NExperts /\ expert \in Nat
      /\ \/ expert + 1 < NExperts /\ expert' = expert + 1 /\ stage' = "experts"
         \/ expert + 1 = NExperts /\ expert' = 0 /\ stage' = "shared"
  BY <1>1, <1>2, LoopSteps
<1>4. Summed = {i \in Rows : idx[i] < expert + 1}
  <2>1. {grp[r] : r \in GroupRows(expert)} = Assigned(expert)
    BY <1>2, GroupingIs DEF Core
  <2>2. Summed = {i \in Rows : idx[i] < expert} \cup Assigned(expert)
    BY <1>1, <2>1 DEF Summed
  <2>3. \A i \in Rows : idx[i] \in Nat
    BY <1>2, Sizes
  <2>4. \A i \in Rows : idx[i] < expert + 1 <=> idx[i] < expert \/ idx[i] = expert
    BY <1>3, <2>3
  <2> QED
    BY <2>2, <2>4 DEF Assigned
<1>5. Summed' = Summed
  <2>1. CASE stage' = "experts" /\ expert' = expert + 1
    BY <1>1, <1>4, <2>1 DEF Summed
  <2>2. CASE stage' = "shared" /\ expert + 1 = NExperts
    <3>1. \A i \in Rows : idx[i] < NExperts
      BY <1>2, Sizes
    <3> QED
      BY <1>4, <2>2, <3>1 DEF Summed
  <2> QED
    BY <1>3, <2>1, <2>2
<1>6. TypeOK'
  BY <1>1, <1>2, <1>3 DEF TypeOK, sorting, weights
<1>7. StageOK' /\ TilesOK' /\ WeightsOK'
  BY <1>1, <1>2, <1>3 DEF StageOK, TilesOK, WeightsOK, weights
<1>8. OffsRight' /\ ClaimsOK'
  BY <1>1, <1>2, <1>3, SortStays DEF Core, sorting
<1>9. ResultsOK'
  <2>1. \A t \in Toks : Whole(t) =>
          LET due == {i \in Summed : i \div NAct = t}
          IN  /\ Len(out[t]) = Cardinality(due)
              /\ {out[t][k] : k \in 1..Len(out[t])} = due
    BY <1>1, <1>2 DEF Core, ResultsOK
  <2> QED
    BY <1>1, <1>2, <1>3, <1>5, <2>1, FitsStays DEF ResultsOK
<1>10. FixedOrder' /\ EverySlotOnce'
  BY <1>3 DEF FixedOrder, EverySlotOnce
<1> QED
  BY <1>6, <1>7, <1>8, <1>9, <1>10 DEF Core

-----------------------------------------------------------------------------
(* One launch for all experts: tiles, GEMM, combination. *)

LEMMA TilesCore == Core /\ BuildTiles => Core'
<1> SUFFICES ASSUME Core, BuildTiles
             PROVE  Core'
  OBVIOUS
<1>1. PICK x, b, c : x = expert /\ b = off[x] /\ c = Cardinality(Assigned(x))
  OBVIOUS
<1> DEFINE Begin(k) == (k - 1) * TileRows
<1> DEFINE new == [k \in 1..TileCount(c) |-> [e |-> x, row0 |-> b + Begin(k)]]
<1>2. /\ TypeOK /\ WeightsOK /\ stage = "tiles" /\ Grouped /\ mode.group = "grouped" /\ out = NoOut
      /\ idx \in [Rows -> Experts] /\ x \in Experts /\ off[0] = 0
      /\ tiles \in Seq([e : Experts, row0 : Rows]) /\ Len(tiles) <= b
      /\ \A n \in DOMAIN tiles :
           /\ off[tiles[n].e] <= tiles[n].row0 /\ off[tiles[n].e + 1] <= b
           /\ \A r \in TileOwns(n) : \A m \in DOMAIN tiles : r \in TileOwns(m) => m = n
      /\ \A r \in Rows : r < b => \E n \in DOMAIN tiles : r \in TileOwns(n)
  <2>1. stage = "tiles" /\ Core
    BY DEF BuildTiles
  <2> QED
    BY <1>1, <2>1, Types DEF Core, StageOK, OffsRight, TilesOK, ResultsOK, Grouped
<1>3. /\ b \in Nat /\ c \in Nat /\ off[x + 1] = b + c /\ b + c <= NRows
      /\ \A e \in Experts : off[e] \in Nat /\ off[e + 1] \in Nat
  BY <1>1, <1>2, GroupingIs, Subsets DEF Core
<1>4. off[expert + 1] - off[expert] = c
  BY <1>1, <1>3
<1>5. /\ Loop("tiles", "gemm") /\ tiles' = tiles \o new
      /\ UNCHANGED <<calls, mode, idx, sorting, added, oeb, ts, out, weights>>
  BY <1>1, <1>4 DEF BuildTiles
<1>6. /\ expert' \in Experts /\ x + 1 \in 0..NExperts /\ x \in Nat
      /\ \/ x + 1 < NExperts /\ expert' = x + 1 /\ stage' = "tiles"
         \/ x + 1 = NExperts /\ expert' = 0 /\ stage' = "gemm"
  BY <1>1, <1>2, <1>5, LoopSteps
<1>7. PICK t : t = TileCount(c)
  OBVIOUS
<1>8. /\ t \in Nat /\ t <= c
      /\ \A k \in 1..t : Begin(k) \in 0..(c - 1)
      /\ \A d \in 0..(c - 1) : \E k \in 1..t : Begin(k) <= d /\ d < Begin(k) + TileRows
      /\ \A k \in 1..t, j \in 1..t, d \in Nat :
           Begin(k) <= d /\ d < Begin(k) + TileRows /\ Begin(j) <= d /\ d < Begin(j) + TileRows => k = j
  <2>1. /\ TileCount(c) \in 0..c
        /\ \A k \in 1..TileCount(c) : Begin(k) \in 0..(c - 1)
        /\ \A d \in 0..(c - 1) : \E k \in 1..TileCount(c) : Begin(k) <= d /\ d < Begin(k) + TileRows
    BY <1>3, TileRanges, Zenon
  <2>2. \A k \in Nat, j \in Nat, d \in Nat :
          k >= 1 /\ j >= 1 /\ Begin(k) <= d /\ d < Begin(k) + TileRows /\ Begin(j) <= d /\ d < Begin(j) + TileRows => k = j
    BY TilesApart, Zenon
  <2> HIDE DEF Begin
  <2>3. t \in 0..c
    BY <1>7, <2>1
  <2>4. \A k \in 1..t : k \in Nat /\ k >= 1
    BY <1>3, <2>3
  <2> QED
    BY <1>3, <1>7, <2>1, <2>2, <2>3, <2>4
<1> HIDE DEF Begin
<1>9. new \in Seq([e : Experts, row0 : Rows]) /\ Len(new) = t
  <2>1. \A k \in 1..t : b + Begin(k) \in Rows
    BY <1>3, <1>8, Sizes
  <2>2. new \in [1..t -> [e : Experts, row0 : Rows]]
    BY <1>2, <1>7, <2>1
  <2> QED
    BY <1>8, <2>2, FunctionSeq
<1>10. PICK l : l = Len(tiles)
  OBVIOUS
<1>11. /\ l \in Nat /\ DOMAIN tiles = 1..l /\ tiles' \in Seq([e : Experts, row0 : Rows])
       /\ Len(tiles') = l + t /\ DOMAIN tiles' = 1..(l + t)
       /\ \A n \in 1..l : tiles'[n] = tiles[n]
       /\ \A k \in 1..t : tiles'[l + k] = new[k]
  <2>1. PICK q, T : q = new /\ T = [e : Experts, row0 : Rows]
    OBVIOUS
  <2> HIDE DEF new
  <2>2. tiles \in Seq(T) /\ q \in Seq(T) /\ Len(q) = t /\ l \in Nat /\ DOMAIN tiles = 1..l
    BY <1>2, <1>9, <1>10, <2>1
  <2>3. /\ tiles \o q \in Seq(T) /\ Len(tiles \o q) = l + t
        /\ \A i \in 1..(l + t) : (tiles \o q)[i] = IF i <= l THEN tiles[i] ELSE q[i - l]
    BY <1>10, <2>2, ConcatProperties
  <2>4. DOMAIN (tiles \o q) = 1..(l + t)
    BY <2>3
  <2>5. \A k \in 1..t : l + k \in 1..(l + t) /\ ~(l + k <= l) /\ (l + k) - l = k
    BY <1>8, <2>2
  <2>6. \A n \in 1..l : n \in 1..(l + t) /\ n <= l
    BY <1>8, <2>2
  <2> QED
    BY <1>5, <2>1, <2>2, <2>3, <2>4, <2>5, <2>6
<1>12. \A k \in 1..t : tiles'[l + k].e = x /\ tiles'[l + k].row0 = b + Begin(k)
  <2>1. \A k \in 1..t : new[k].e = x /\ new[k].row0 = b + Begin(k)
    BY <1>7
  <2> HIDE DEF new
  <2> QED
    BY <1>11, <2>1
<1> HIDE DEF new
<1>13. ASSUME NEW n \in 1..l
       PROVE  /\ n \in DOMAIN tiles' /\ n \in DOMAIN tiles /\ tiles'[n].e = tiles[n].e
              /\ tiles'[n].row0 = tiles[n].row0 /\ TileOwns(n)' = TileOwns(n)
              /\ \A r \in TileOwns(n) : r < b
  <2>1. n \in DOMAIN tiles' /\ n \in DOMAIN tiles /\ tiles'[n] = tiles[n] /\ off' = off
    BY <1>5, <1>8, <1>11 DEF sorting
  <2>2. TileOwns(n)' = TileOwns(n)
    BY <2>1 DEF TileOwns
  <2>3. tiles[n].e \in Experts /\ tiles[n].row0 \in Rows
    <3>1. tiles[n] \in [e : Experts, row0 : Rows]
      BY <1>2, <1>10, ElementOfSeq
    <3> QED
      BY <3>1
  <2>4. \A r \in TileOwns(n) : r < b
    <3>1. PICK f, g : f = off[tiles[n].e + 1] /\ g = tiles[n].row0
      OBVIOUS
    <3>2. f \in Nat /\ f <= b /\ g \in Nat
      <4>1. f \in Nat
        BY <1>3, <2>3, <3>1
      <4>2. f <= b
        BY <1>2, <2>1, <3>1
      <4>3. g \in Nat
        BY <2>3, <3>1, Sizes
      <4> QED
        BY <4>1, <4>2, <4>3
    <3>3. \A r \in TileOwns(n) : r \in Int /\ r < f
      BY <3>1, <3>2, Sizes DEF TileOwns
    <3> QED
      BY <1>3, <3>2, <3>3
  <2> QED
    BY <2>1, <2>2, <2>4
<1>14. ASSUME NEW k \in 1..t
       PROVE  /\ l + k \in DOMAIN tiles'
              /\ \A r : r \in TileOwns(l + k)' <=>
                   /\ r \in Int /\ b + Begin(k) <= r
                   /\ r < b + Begin(k) + TileRows /\ r < b + c
  <2>1. PICK v : v = b + Begin(k)
    OBVIOUS
  <2>2. v \in Nat /\ TileRows \in Nat
    <3>1. Begin(k) \in 0..(c - 1)
      BY <1>8
    <3> QED
      BY <1>3, <2>1, <3>1, Sizes
  <2>3. PICK j : j = l + k
    OBVIOUS
  <2>4. j \in DOMAIN tiles' /\ tiles'[j].e = x /\ tiles'[j].row0 = v /\ off' = off
    <3>1. j \in 1..(l + t)
      BY <1>8, <1>11, <2>3
    <3> QED
      BY <1>5, <1>11, <1>12, <2>1, <2>3, <3>1 DEF sorting
  <2>5. TileOwns(j)' = {r \in v..(v + TileRows - 1) : r < b + c}
    <3>1. TileOwns(j)' = {r \in tiles'[j].row0..(tiles'[j].row0 + TileRows - 1) : r < off'[tiles'[j].e + 1]}
      BY DEF TileOwns
    <3> QED
      BY <1>3, <2>4, <3>1
  <2>6. \A r : r \in TileOwns(j)' <=> r \in Int /\ v <= r /\ r < v + TileRows /\ r < b + c
    BY <2>2, <2>5
  <2> QED
    BY <2>1, <2>3, <2>4, <2>6
<1>15. \A n \in DOMAIN tiles' : n \in 1..l \/ \E k \in 1..t : n = l + k
  <2> SUFFICES ASSUME NEW n \in 1..(l + t), n \notin 1..l
               PROVE  \E k \in 1..t : n = l + k
    BY <1>11
  <2>1. n - l \in 1..t /\ n = l + (n - l)
    BY <1>8, <1>11
  <2> QED
    BY <2>1
<1>16. PICK g : g = b + c
  OBVIOUS
<1>17. /\ off' = off /\ g \in Nat /\ b <= g /\ g <= NRows /\ off'[x + 1] = g
       /\ off'[IF stage' = "tiles" THEN expert' ELSE NExperts] = g /\ l + t <= g
  <2>1. off' = off /\ g \in Nat /\ b <= g /\ g <= NRows /\ off'[x + 1] = g
    BY <1>3, <1>5, <1>16 DEF sorting
  <2>2. l + t <= g
    BY <1>2, <1>3, <1>8, <1>10, <1>11, <1>16
  <2> QED
    BY <1>6, <2>1, <2>2
<1>18. ASSUME NEW n \in DOMAIN tiles'
       PROVE  off'[tiles'[n].e] <= tiles'[n].row0 /\ off'[tiles'[n].e + 1] <= g
  <2>1. CASE n \in 1..l
    <3>1. /\ off[tiles[n].e] <= tiles[n].row0 /\ off[tiles[n].e + 1] <= b /\ tiles[n].e \in Experts
      <4>1. tiles[n] \in [e : Experts, row0 : Rows]
        BY <1>2, <1>10, <2>1, ElementOfSeq
      <4> QED
        BY <1>2, <1>13, <2>1, <4>1
    <3>2. off[tiles[n].e + 1] \in Nat
      BY <1>3, <3>1
    <3>3. off[tiles[n].e + 1] <= g
      BY <1>3, <1>17, <3>1, <3>2
    <3> QED
      BY <1>13, <1>17, <2>1, <3>1, <3>3
  <2>2. ASSUME NEW k \in 1..t, n = l + k
        PROVE  off'[tiles'[n].e] <= tiles'[n].row0 /\ off'[tiles'[n].e + 1] <= g
    <3>1. tiles'[n].e = x /\ tiles'[n].row0 = b + Begin(k) /\ Begin(k) \in 0..(c - 1)
      BY <1>8, <1>12, <2>2
    <3>2. b <= b + Begin(k)
      BY <1>3, <3>1
    <3> QED
      BY <1>1, <1>17, <3>1, <3>2
  <2> QED
    BY <1>15, <2>1, <2>2
<1>19. ASSUME NEW n \in DOMAIN tiles', NEW r \in TileOwns(n)', NEW m \in DOMAIN tiles', r \in TileOwns(m)'
       PROVE  m = n
  <2>1. \A k \in 1..t : r \in TileOwns(l + k)' => b <= r
    <3> SUFFICES ASSUME NEW k \in 1..t, r \in TileOwns(l + k)'
                 PROVE  b <= r
      OBVIOUS
    <3>1. r \in Int /\ b + Begin(k) <= r /\ Begin(k) \in 0..(c - 1)
      BY <1>8, <1>14
    <3> QED
      BY <1>3, <3>1
  <2>2. \A i \in 1..l : r \in TileOwns(i)' => r < b /\ r \in TileOwns(i)
    BY <1>13
  <2>3. r \in Int
    BY <1>13, <1>14, <1>15 DEF TileOwns
  <2>4. CASE n \in 1..l /\ m \in 1..l
    <3>1. r \in TileOwns(n) /\ r \in TileOwns(m) /\ n \in DOMAIN tiles /\ m \in DOMAIN tiles
      BY <1>13, <1>19, <2>4
    <3> QED
      BY <1>2, <3>1
  <2>5. ASSUME NEW k \in 1..t, NEW j \in 1..t, n = l + k, m = l + j
        PROVE  m = n
    <3>1. /\ b + Begin(k) <= r /\ r < b + Begin(k) + TileRows /\ b + Begin(j) <= r /\ r < b + Begin(j) + TileRows
          /\ Begin(k) \in 0..(c - 1) /\ Begin(j) \in 0..(c - 1)
      BY <1>8, <1>14, <1>19, <2>5
    <3>2. PICK d, p, q : d = r - b /\ p = Begin(k) /\ q = Begin(j)
      OBVIOUS
    <3>3. d \in Nat /\ p <= d /\ d < p + TileRows /\ q <= d /\ d < q + TileRows
      BY <1>3, <2>3, <3>1, <3>2, Sizes
    <3>4. k = j
      BY <1>8, <3>2, <3>3
    <3> QED
      BY <2>5, <3>4
  <2>6. (n \in 1..l => ~(m \notin 1..l)) /\ (m \in 1..l => ~(n \notin 1..l))
    BY <1>3, <1>15, <1>19, <2>1, <2>2, <2>3
  <2> QED
    BY <1>15, <2>4, <2>5, <2>6
<1>20. ASSUME NEW r \in Rows, r < g
       PROVE  \E n \in DOMAIN tiles' : r \in TileOwns(n)'
  <2>1. r \in Nat
    BY Sizes
  <2>2. CASE r < b
    <3>1. PICK n \in DOMAIN tiles : r \in TileOwns(n)
      BY <1>2, <2>2
    <3>2. n \in 1..l
      BY <1>11
    <3> QED
      BY <1>13, <3>1, <3>2
  <2>3. CASE ~(r < b)
    <3>1. PICK d : d = r - b
      OBVIOUS
    <3>2. d \in 0..(c - 1) /\ r = b + d
      BY <1>3, <1>16, <1>20, <2>1, <2>3, <3>1
    <3>3. PICK k \in 1..t : Begin(k) <= d /\ d < Begin(k) + TileRows
      BY <1>8, <3>2
    <3>4. Begin(k) \in 0..(c - 1)
      BY <1>8
    <3>5. r \in Int /\ b + Begin(k) <= r /\ r < b + Begin(k) + TileRows /\ r < b + c
      BY <1>3, <2>1, <3>2, <3>3, <3>4, Sizes
    <3> QED
      BY <1>14, <3>5
  <2> QED
    BY <2>2, <2>3
<1>21. TilesOK'
  BY <1>6, <1>11, <1>17, <1>18, <1>19, <1>20 DEF TilesOK
<1>22. TypeOK'
  BY <1>2, <1>5, <1>6 DEF TypeOK, sorting, weights
<1>23. StageOK' /\ WeightsOK'
  BY <1>2, <1>5, <1>6 DEF StageOK, WeightsOK, weights
<1>24. OffsRight' /\ ClaimsOK'
  BY <1>2, <1>5, <1>6, SortStays DEF Core, sorting
<1>25. ResultsOK' /\ FixedOrder' /\ EverySlotOnce'
  BY <1>2, <1>5, <1>6 DEF ResultsOK, FixedOrder, EverySlotOnce
<1> QED
  BY <1>21, <1>22, <1>23, <1>24, <1>25 DEF Core

LEMMA GroupedCore == Core /\ GroupedGemm => Core'
<1> SUFFICES ASSUME Core, GroupedGemm
             PROVE  Core'
  OBVIOUS
<1>1. /\ stage = "gemm" /\ stage' = "combine" /\ Prepare(Experts)
      /\ oeb' = [r \in Rows |->
                   IF \E n \in DOMAIN tiles : r \in TileOwns(n)
                   THEN LET n == CHOOSE n \in DOMAIN tiles : r \in TileOwns(n)
                        IN  Contribution(tiles[n].e, grp[r])
                   ELSE Junk]
      /\ UNCHANGED <<calls, mode, idx, sorting, tiles, expert, added, ts, out>>
  BY DEF GroupedGemm
<1>2. /\ TypeOK /\ WeightsOK /\ Grouped /\ mode.group = "grouped" /\ expert = 0 /\ out = NoOut
      /\ idx \in [Rows -> Experts] /\ grp \in [Rows -> Rows \cup {Junk}]
  BY <1>1, Types DEF Core, StageOK, ResultsOK, Grouped
<1>3. /\ WeightsOK' /\ ppdone' \subseteq Experts
      /\ layout' \in [Experts -> {"raw", "packed", "garbled"}]
      /\ copy' \in [Experts -> {"none", "packed", "garbled"}]
      /\ \A e \in Experts : Readable(e)
  BY <1>1, <1>2, Prepared
<1>4. off[NExperts] = NRows
  <2>1. NExperts \in 0..NExperts
    BY Sizes
  <2>2. off[NExperts] = Cardinality(Smaller(NExperts))
    BY <1>2, <2>1 DEF Core, OffsRight
  <2> QED
    BY <1>2, <2>2, AllSmaller
<1>5. /\ tiles \in Seq([e : Experts, row0 : Rows])
      /\ \A n \in DOMAIN tiles : off[tiles[n].e] <= tiles[n].row0
      /\ \A r \in Rows : r < NRows => \E n \in DOMAIN tiles : r \in TileOwns(n)
  BY <1>1, <1>4 DEF Core, TilesOK
<1>6. ASSUME NEW r \in Rows, NEW n \in DOMAIN tiles, r \in TileOwns(n)
      PROVE  Contribution(tiles[n].e, grp[r]) = grp[r]
  <2>1. PICK e, a : e = tiles[n].e /\ a = tiles[n].row0
    OBVIOUS
  <2>2. e \in Experts /\ a \in Rows
    <3>1. n \in 1..Len(tiles)
      BY <1>5
    <3>2. tiles[n] \in [e : Experts, row0 : Rows]
      BY <1>5, <3>1, ElementOfSeq
    <3> QED
      BY <2>1, <3>2
  <2>3. off[e] <= a /\ r \in a..(a + TileRows - 1) /\ r < off[e + 1]
    BY <1>5, <1>6, <2>1 DEF TileOwns
  <2>4. off[e] \in Nat /\ off[e + 1] \in Nat
    BY <1>2, <2>2, GroupingIs DEF Core
  <2>5. r \in GroupRows(e)
    <3>1. PICK b, d : b = off[e] /\ d = off[e + 1]
      OBVIOUS
    <3>2. b \in Nat /\ d \in Nat /\ a \in Nat /\ TileRows \in Nat /\ b <= a /\ r \in a..(a + TileRows - 1) /\ r < d
      BY <2>2, <2>3, <2>4, <3>1, Sizes
    <3>3. r \in b..(d - 1)
      BY <3>2
    <3> QED
      BY <3>1, <3>3 DEF GroupRows
  <2>6. grp[r] \in Rows /\ idx[grp[r]] = e
    BY <1>2, <2>2, <2>5, GroupOf
  <2> QED
    BY <1>3, <2>1, <2>2, <2>6 DEF Contribution
<1>7. \A r \in Rows : oeb'[r] = grp[r]
  <2> SUFFICES ASSUME NEW r \in Rows
               PROVE  oeb'[r] = grp[r]
    OBVIOUS
  <2>1. r < NRows
    BY Sizes
  <2>2. \E n \in DOMAIN tiles : r \in TileOwns(n)
    BY <1>5, <2>1
  <2>3. PICK n : n = CHOOSE m \in DOMAIN tiles : r \in TileOwns(m)
    OBVIOUS
  <2>4. n \in DOMAIN tiles /\ r \in TileOwns(n)
    BY <2>2, <2>3
  <2>5. oeb'[r] = Contribution(tiles[n].e, grp[r])
    BY <1>1, <2>2, <2>3
  <2> QED
    BY <1>6, <2>4, <2>5
<1>8. oeb' = grp
  <2>1. DOMAIN oeb' = Rows /\ oeb' = [r \in Rows |-> oeb'[r]]
    BY <1>1
  <2> QED
    BY <1>2, <1>7, <2>1
<1>9. TypeOK'
  <2>1. slot \in [Rows -> Rows \cup {Junk}] /\ grp \in [Rows -> Rows \cup {Junk}]
        /\ oeb \in [Rows -> Rows \cup {Junk}] /\ ts \in [Rows -> Rows \cup {Junk}]
    BY <1>2, Types
  <2>2. UNCHANGED <<slot, grp, ts>>
    BY <1>1 DEF sorting
  <2>3. {slot', grp', oeb', ts'} \subseteq [Rows -> Rows \cup {Junk}]
    BY <2>1, <2>2, <1>8
  <2> QED
    BY <1>1, <1>2, <1>3, <2>3 DEF TypeOK, sorting
<1>10. StageOK' /\ TilesOK'
  BY <1>1, <1>2 DEF StageOK, TilesOK
<1>11. OffsRight' /\ ClaimsOK'
  BY <1>1, <1>2, SortStays DEF Core, sorting
<1>12. ResultsOK' /\ FixedOrder' /\ EverySlotOnce'
  BY <1>1, <1>2, <1>8 DEF ResultsOK, FixedOrder, EverySlotOnce, sorting
<1> QED
  BY <1>3, <1>9, <1>10, <1>11, <1>12 DEF Core

LEMMA CombineCore == Core /\ Combine => Core'
<1> SUFFICES ASSUME Core, Combine
             PROVE  Core'
  OBVIOUS
<1>1. /\ stage = "combine" /\ stage' = "reduce"
      /\ ts' = [i \in Rows |-> IF \E r \in Rows : grp[r] = i
                               THEN oeb[CHOOSE r \in Rows : grp[r] = i] ELSE Junk]
      /\ UNCHANGED <<calls, mode, idx, sorting, tiles, expert, added, oeb, out, weights>>
  BY DEF Combine
<1>2. /\ TypeOK /\ WeightsOK /\ Grouped /\ mode.group = "grouped" /\ expert = 0 /\ out = NoOut /\ oeb = grp
  BY <1>1 DEF Core, StageOK, ResultsOK, Grouped
<1>3. \A i \in Rows : ts'[i] = i
  <2> SUFFICES ASSUME NEW i \in Rows
               PROVE  ts'[i] = i
    OBVIOUS
  <2>1. \E r \in Rows : grp[r] = i
    BY <1>2, GroupingIs DEF Core
  <2>2. PICK q : q = CHOOSE r \in Rows : grp[r] = i
    OBVIOUS
  <2>3. grp[q] = i
    BY <2>1, <2>2
  <2>4. ts'[i] = oeb[q]
    BY <1>1, <2>1, <2>2
  <2> QED
    BY <1>2, <2>3, <2>4
<1>4. ts' \in [Rows -> Rows \cup {Junk}]
  <2>1. DOMAIN ts' = Rows /\ ts' = [i \in Rows |-> ts'[i]]
    BY <1>1
  <2> QED
    BY <1>3, <2>1
<1>5. TypeOK'
  <2>1. slot \in [Rows -> Rows \cup {Junk}] /\ grp \in [Rows -> Rows \cup {Junk}]
        /\ oeb \in [Rows -> Rows \cup {Junk}] /\ ts \in [Rows -> Rows \cup {Junk}]
    BY <1>2, Types
  <2>2. UNCHANGED <<slot, grp, oeb>>
    BY <1>1 DEF sorting
  <2>3. {slot', grp', oeb', ts'} \subseteq [Rows -> Rows \cup {Junk}]
    BY <2>1, <2>2, <1>4
  <2> QED
    BY <1>1, <1>2, <2>3 DEF TypeOK, sorting, weights
<1>6. StageOK' /\ TilesOK' /\ WeightsOK'
  BY <1>1, <1>2 DEF StageOK, TilesOK, WeightsOK, weights
<1>7. OffsRight' /\ ClaimsOK'
  BY <1>1, <1>2, SortStays DEF Core, sorting
<1>8. ResultsOK' /\ FixedOrder' /\ EverySlotOnce'
  BY <1>1, <1>2, <1>3 DEF ResultsOK, FixedOrder, EverySlotOnce
<1> QED
  BY <1>5, <1>6, <1>7, <1>8 DEF Core

LEMMA ReduceCore == Core /\ Reduce => Core'
<1> SUFFICES ASSUME Core, Reduce
             PROVE  Core'
  OBVIOUS
<1>1. /\ stage = "reduce" /\ stage' = "shared" /\ out' = [t \in Toks |-> Reduced(t)]
      /\ UNCHANGED <<calls, mode, idx, sorting, results, weights>>
  BY DEF Reduce
<1>2. /\ TypeOK /\ WeightsOK /\ Grouped /\ mode.group = "grouped" /\ expert = 0 /\ \A i \in Rows : ts[i] = i
  BY <1>1 DEF Core, StageOK, ResultsOK, Grouped
<1>3. \A t \in Toks : out'[t] = [s \in 1..NAct |-> t * NAct + s - 1]
  <2> SUFFICES ASSUME NEW t \in Toks
               PROVE  out'[t] = [s \in 1..NAct |-> t * NAct + s - 1]
    OBVIOUS
  <2>1. out'[t] = [s \in 1..NAct |-> ts[t * NAct + s - 1]]
    BY <1>1 DEF Reduced
  <2>2. \A s \in 1..NAct : ts[t * NAct + s - 1] = t * NAct + s - 1
    BY <1>2, RowOfSlot
  <2> QED
    BY <2>1, <2>2
<1>4. out' \in [Toks -> Seq(Rows \cup {Junk, Shared})]
  <2>1. ASSUME NEW t \in Toks
        PROVE  out'[t] \in Seq(Rows \cup {Junk, Shared})
    <3>1. \A s \in 1..NAct : t * NAct + s - 1 \in Rows \cup {Junk, Shared}
      BY RowOfSlot
    <3>2. out'[t] \in [1..NAct -> Rows \cup {Junk, Shared}]
      BY <1>3, <3>1
    <3> QED
      BY <3>2, FunctionSeq, Sizes
  <2>2. DOMAIN out' = Toks /\ out' = [t \in Toks |-> out'[t]]
    BY <1>1
  <2> QED
    BY <2>1, <2>2
<1>5. TypeOK'
  BY <1>1, <1>2, <1>4 DEF TypeOK, sorting, results, weights
<1>6. StageOK' /\ TilesOK' /\ WeightsOK'
  BY <1>1, <1>2 DEF StageOK, TilesOK, WeightsOK, results, weights
<1>7. OffsRight' /\ ClaimsOK'
  BY <1>1, <1>2, SortStays DEF Core, sorting
<1>8. ResultsOK' /\ FixedOrder' /\ EverySlotOnce'
  BY <1>1, <1>2, <1>3 DEF ResultsOK, FixedOrder, EverySlotOnce
<1> QED
  BY <1>5, <1>6, <1>7, <1>8 DEF Core

-----------------------------------------------------------------------------
(* The shared expert, and the end of a call. *)

\* A token that has the slots of its token in any order, once each, ends with the shared one.
LEMMA EndsShared ==
    ASSUME NEW q \in Seq(Rows \cup {Junk, Shared}), NEW t \in Toks,
           Len(q) = NAct, {q[k] : k \in 1..NAct} = {i \in Rows : i \div NAct = t}
    PROVE  /\ Len(Append(q, Shared)) = NAct + 1
           /\ {Append(q, Shared)[k] : k \in 1..(NAct + 1)} =
                {t * NAct + s : s \in 0..(NAct - 1)} \cup {Shared}
<1>1. /\ Len(Append(q, Shared)) = NAct + 1
      /\ \A k \in 1..NAct : Append(q, Shared)[k] = q[k]
      /\ Append(q, Shared)[NAct + 1] = Shared
  <2>1. PICK T : T = Rows \cup {Junk, Shared}
    OBVIOUS
  <2>2. q \in Seq(T) /\ Shared \in T
    BY <2>1
  <2> QED
    BY <2>2, AppendProperties
<1>2. \A k \in 1..(NAct + 1) : k \in 1..NAct \/ k = NAct + 1
  BY Sizes
<1>3. 1..NAct \subseteq 1..(NAct + 1) /\ NAct + 1 \in 1..(NAct + 1)
  BY Sizes
<1>4. {Append(q, Shared)[k] : k \in 1..(NAct + 1)} = {q[k] : k \in 1..NAct} \cup {Shared}
  BY <1>1, <1>2, <1>3
<1> QED
  BY <1>1, <1>4, RowsOfToken

LEMMA SharedCore == Core /\ SharedExpert => Core'
<1> SUFFICES ASSUME Core, SharedExpert
             PROVE  Core'
  OBVIOUS
<1>1. /\ stage = "shared" /\ stage' = "done" /\ out' = [t \in Toks |-> Append(out[t], Shared)]
      /\ UNCHANGED <<calls, mode, idx, sorting, results, weights>>
  BY DEF SharedExpert
<1>2. /\ TypeOK /\ WeightsOK /\ expert = 0 /\ off[0] = 0 /\ mode \in Modes
      /\ out \in [Toks -> Seq(Rows \cup {Junk, Shared})]
  BY <1>1, Types DEF Core, StageOK, OffsRight
<1>3. out' \in [Toks -> Seq(Rows \cup {Junk, Shared})]
  <2>1. \A q \in Seq(Rows \cup {Junk, Shared}) : Append(q, Shared) \in Seq(Rows \cup {Junk, Shared})
    BY AppendProperties
  <2> QED
    BY <1>1, <1>2, <2>1
<1>4. TypeOK'
  BY <1>1, <1>2, <1>3 DEF TypeOK, sorting, results, weights
<1>5. StageOK' /\ OffsRight' /\ ClaimsOK' /\ TilesOK'
  <2>1. expert' = 0 /\ off'[0] = 0
    BY <1>1, <1>2 DEF sorting, results
  <2> QED
    BY <1>1, <2>1 DEF StageOK, OffsRight, ClaimsOK, TilesOK, Grouped
<1>6. WeightsOK' /\ ResultsOK'
  BY <1>1, <1>2 DEF WeightsOK, ResultsOK, weights
<1>7. mode.group \in {"grouped", "token"} => \A t \in Toks : out[t] = [s \in 1..NAct |-> t * NAct + s - 1]
  BY <1>1 DEF Core, ResultsOK
<1>8. FixedOrder'
  <2> SUFFICES ASSUME mode.group \in {"grouped", "token"}, NEW t \in Toks
               PROVE  out'[t] = [s \in 1..NAct |-> t * NAct + s - 1] \o <<Shared>>
    BY <1>1 DEF FixedOrder
  <2>1. PICK q : q = [s \in 1..NAct |-> t * NAct + s - 1]
    OBVIOUS
  <2>2. out[t] = q /\ q \in Seq(Rows \cup {Junk, Shared})
    BY <1>2, <1>7, <2>1
  <2>3. out'[t] = Append(q, Shared)
    BY <1>1, <2>2
  <2>4. Append(q, Shared) = q \o <<Shared>>
    BY <2>2, AppendIsConcat
  <2> QED
    BY <2>1, <2>3, <2>4
<1>9. ASSUME NEW t \in Toks, Whole(t)
      PROVE  Len(out[t]) = NAct /\ {out[t][k] : k \in 1..NAct} = {i \in Rows : i \div NAct = t}
  <2>1. CASE mode.group \in {"grouped", "token"}
    <3>1. PICK f : f = out[t]
      OBVIOUS
    <3>2. f = [s \in 1..NAct |-> t * NAct + s - 1]
      BY <1>7, <2>1, <3>1
    <3>3. \A s \in 1..NAct : f[s] \in Rows
      BY <3>2, RowOfSlot
    <3>4. f \in [1..NAct -> Rows]
      BY <3>2, <3>3
    <3>5. Len(f) = NAct
      BY <3>4, FunctionSeq, Sizes
    <3>6. \A s \in 1..NAct : f[s] \in {i \in Rows : i \div NAct = t}
      BY <3>2, RowOfSlot
    <3>7. \A i \in {j \in Rows : j \div NAct = t} : \E s \in 1..NAct : i = f[s]
      <4> SUFFICES ASSUME NEW i \in Rows, i \div NAct = t
                   PROVE  \E s \in 1..NAct : i = f[s]
        OBVIOUS
      <4>1. PICK u \in Toks, s \in 1..NAct : i = u * NAct + s - 1 /\ i \div NAct = u
        BY SlotOfRow
      <4>2. u = t
        BY <4>1
      <4>3. f[s] = t * NAct + s - 1
        BY <3>2
      <4> QED
        BY <4>1, <4>2, <4>3
    <3> QED
      BY <3>1, <3>5, <3>6, <3>7
  <2>2. CASE mode.group \in {"host", "device"}
    <3>1. Summed = Rows
      BY <1>1 DEF Summed
    <3>2. LET due == {i \in Rows : i \div NAct = t}
          IN  /\ Len(out[t]) = Cardinality(due)
              /\ {out[t][k] : k \in 1..Len(out[t])} = due
      BY <1>1, <1>9, <2>2, <3>1 DEF Core, ResultsOK
    <3> QED
      BY <3>2, RowsOfToken
  <2>3. mode.group \in {"token", "host", "device", "grouped"}
    BY <1>2, MoeAssumption
  <2> QED
    BY <2>1, <2>2, <2>3
<1>10. EverySlotOnce'
  <2> SUFFICES ASSUME NEW t \in Toks, Whole(t)
               PROVE  /\ Len(out'[t]) = NAct + 1
                      /\ {out'[t][k] : k \in 1..(NAct + 1)} =
                           {t * NAct + s : s \in 0..(NAct - 1)} \cup {Shared}
    BY <1>1, FitsStays DEF EverySlotOnce, SlotsOnce
  <2>1. PICK q : q = out[t]
    OBVIOUS
  <2>2. /\ q \in Seq(Rows \cup {Junk, Shared})
        /\ Len(q) = NAct /\ {q[k] : k \in 1..NAct} = {i \in Rows : i \div NAct = t}
    BY <1>2, <1>9, <2>1
  <2>3. out'[t] = Append(q, Shared)
    BY <1>1, <2>1
  <2>4. /\ Len(Append(q, Shared)) = NAct + 1
        /\ {Append(q, Shared)[k] : k \in 1..(NAct + 1)} =
             {t * NAct + s : s \in 0..(NAct - 1)} \cup {Shared}
    BY <2>2, EndsShared, Zenon
  <2> QED
    BY <2>3, <2>4, Zenon
<1> QED
  BY <1>4, <1>5, <1>6, <1>8, <1>10 DEF Core

LEMMA ReturnCore == Core /\ Return => Core'
<1> SUFFICES ASSUME Core, Return
             PROVE  Core'
  OBVIOUS
<1>1. /\ stage' = "idle" /\ counts' = Zeros /\ off' = NoOff /\ cursor' = Zeros
      /\ slot' = Unset /\ grp' = Unset /\ oeb' = Unset /\ ts' = Unset
      /\ tiles' = << >> /\ expert' = 0 /\ added' = {} /\ out' = NoOut
      /\ UNCHANGED <<calls, mode, idx, weights>>
  BY DEF Return
<1>2. TypeOK /\ WeightsOK
  BY DEF Core
<1>3. TypeOK'
  <2>1. 0 \in Experts /\ 0 \in 0..NRows
    BY Sizes
  <2>2. {slot', grp', oeb', ts'} \subseteq [Rows -> Rows \cup {Junk}]
    BY <1>1 DEF Unset
  <2>3. /\ counts' \in [Experts -> 0..NRows] /\ cursor' \in [Experts -> 0..NRows]
        /\ off' \in [0..NExperts -> 0..NRows]
    BY <1>1, <2>1 DEF Zeros, NoOff
  <2>4. out' \in [Toks -> Seq(Rows \cup {Junk, Shared})]
    BY <1>1, EmptySeq DEF NoOut
  <2> QED
    BY <1>1, <1>2, <2>1, <2>2, <2>3, <2>4 DEF TypeOK, weights
<1>4. StageOK' /\ WeightsOK'
  BY <1>1, <1>2 DEF StageOK, WeightsOK, weights
<1>5. OffsRight'
  <2>1. off'[0] = 0
    BY <1>1, Sizes DEF NoOff
  <2> QED
    BY <1>1, <2>1 DEF OffsRight, Grouped
<1>6. ClaimsOK' /\ TilesOK'
  BY <1>1 DEF ClaimsOK, TilesOK, Grouped
<1>7. ResultsOK' /\ FixedOrder' /\ EverySlotOnce'
  BY <1>1 DEF ResultsOK, FixedOrder, EverySlotOnce
<1> QED
  BY <1>3, <1>4, <1>5, <1>6, <1>7 DEF Core

LEMMA ClearCore == Core /\ ClearCache => Core'
<1> SUFFICES ASSUME Core, ClearCache
             PROVE  Core'
  OBVIOUS
<1>1. /\ stage = "idle" /\ copy' = [e \in Experts |-> "none"]
      /\ UNCHANGED <<calls, mode, stage, idx, sorting, results, out, layout, ppdone>>
  BY DEF ClearCache
<1>2. TypeOK /\ WeightsOK
  BY DEF Core
<1>3. TypeOK'
  BY <1>1, <1>2 DEF TypeOK, sorting, results
<1>4. WeightsOK'
  BY <1>1, <1>2 DEF WeightsOK
<1>5. StageOK' /\ OffsRight' /\ TilesOK'
  BY <1>1 DEF Core, StageOK, OffsRight, TilesOK, Grouped, sorting, results
<1>6. ClaimsOK'
  BY <1>1 DEF Core, ClaimsOK, Grouped, sorting
<1>7. ResultsOK' /\ FixedOrder' /\ EverySlotOnce'
  BY <1>1 DEF Core, ResultsOK, FixedOrder, EverySlotOnce
<1> QED
  BY <1>3, <1>4, <1>5, <1>6, <1>7 DEF Core

LEMMA StutterCore == Core /\ UNCHANGED vars => Core'
<1> SUFFICES ASSUME Core, UNCHANGED vars
             PROVE  Core'
  OBVIOUS
<1>1. UNCHANGED <<calls, mode, stage, idx, counts, off, cursor, slot, grp, tiles, expert, added, oeb, ts,
                  out, layout, ppdone, copy>>
  BY DEF vars, sorting, results, weights
<1>2. /\ \A e : Assigned(e)' = Assigned(e) /\ Smaller(e)' = Smaller(e) /\ GroupRows(e)' = GroupRows(e)
      /\ \A n : TileOwns(n)' = TileOwns(n)
      /\ FitsTile(expert)' = FitsTile(expert) /\ \A t : Whole(t)' = Whole(t)
  BY <1>1, SetsStay, GroupsStay, OwnedStay, FitsStays
<1>3. TypeOK' /\ StageOK' /\ WeightsOK'
  BY <1>1 DEF Core, TypeOK, StageOK, WeightsOK
<1>4. OffsRight' /\ ClaimsOK'
  BY <1>1, <1>2 DEF Core, OffsRight, ClaimsOK, Grouped
<1>5. TilesOK'
  BY <1>1, <1>2 DEF Core, TilesOK
<1>6. Summed' = Summed /\ GroupRows(expert)' = GroupRows(expert)
  BY <1>1 DEF Summed, GroupRows
<1>7. ResultsOK'
  <2>1. PICK S : S = Summed
    OBVIOUS
  <2>2. Summed' = S
    BY <1>6, <2>1
  <2>3. mode.group \in {"host", "device"} /\ stage \in {"experts", "add", "shared"} =>
          \A t \in Toks : Whole(t) =>
            LET due == {i \in S : i \div NAct = t}
            IN  /\ Len(out[t]) = Cardinality(due)
                /\ {out[t][k] : k \in 1..Len(out[t])} = due
    BY <2>1 DEF Core, ResultsOK
  <2>4. /\ stage = "combine" => oeb = grp
        /\ stage = "reduce" => \A i \in Rows : ts[i] = i
        /\ stage \notin {"experts", "add", "shared", "done"} => out = NoOut
        /\ stage = "shared" /\ mode.group \in {"grouped", "token"} =>
             \A t \in Toks : out[t] = [s \in 1..NAct |-> t * NAct + s - 1]
        /\ stage = "add" =>
             /\ added \subseteq GroupRows(expert)
             /\ FitsTile(expert) => \A r \in GroupRows(expert) : oeb[r] = grp[r]
    BY DEF Core, ResultsOK
  <2>5. stage' = "add" =>
             /\ added' \subseteq GroupRows(expert)'
             /\ FitsTile(expert)' => \A r \in GroupRows(expert)' : oeb'[r] = grp'[r]
    BY <1>1, <1>2, <1>6, <2>4
  <2> QED
    BY <1>1, <1>2, <2>2, <2>3, <2>4, <2>5 DEF ResultsOK
<1>8. FixedOrder' /\ EverySlotOnce'
  BY <1>1, <1>2 DEF Core, FixedOrder, EverySlotOnce, SlotsOnce
<1> QED
  BY <1>3, <1>4, <1>5, <1>7, <1>8 DEF Core

-----------------------------------------------------------------------------
(* The theorems. *)

LEMMA CoreNext == Core /\ [Next]_vars => Core'
<1> SUFFICES ASSUME Core, [Next]_vars
             PROVE  Core'
  OBVIOUS
<1>1. CASE Call
  BY <1>1, CallCore
<1>2. CASE Count
  BY <1>2, CountCore
<1>3. CASE PrefixSum
  BY <1>3, PrefixCore
<1>4. ASSUME NEW i \in Rows, Claim(i)
      PROVE  Core'
  BY <1>4, ClaimCore
<1>5. ASSUME NEW i \in Rows, Fill(i)
      PROVE  Core'
  BY <1>5, FillCore
<1>6. CASE Scattered
  BY <1>6, ScatteredCore
<1>7. CASE HostGroup
  BY <1>7, HostCore
<1>8. CASE TokenLoop
  BY <1>8, TokenCore
<1>9. CASE ExpertGemm
  BY <1>9, GemmCore
<1>10. ASSUME NEW r \in Rows, AddRow(r)
       PROVE  Core'
  BY <1>10, AddCore
<1>11. CASE NextExpert
  BY <1>11, NextExpertCore
<1>12. CASE BuildTiles
  BY <1>12, TilesCore
<1>13. CASE GroupedGemm
  BY <1>13, GroupedCore
<1>14. CASE Combine
  BY <1>14, CombineCore
<1>15. CASE Reduce
  BY <1>15, ReduceCore
<1>16. CASE SharedExpert
  BY <1>16, SharedCore
<1>17. CASE Return
  BY <1>17, ReturnCore
<1>18. CASE ClearCache
  BY <1>18, ClearCore
<1>19. CASE UNCHANGED vars
  BY <1>19, StutterCore
<1> QED
  BY <1>1, <1>2, <1>3, <1>4, <1>5, <1>6, <1>7, <1>8, <1>9, <1>10, <1>11, <1>12, <1>13, <1>14,
     <1>15, <1>16, <1>17, <1>18, <1>19 DEF Next

LEMMA CoreHolds == Spec => []Core
  BY InitCore, CoreNext, PTL DEF Spec

\* However the scatter's threads interleave, the grouping is sound: each assignment in
\* one row of its expert's group and each row in one tile (moe.cu:164-174,
\* tc_moe_gemm.cu:212-227), weights in the layout recorded for them, results not lost.
THEOREM MoeInvHolds == Spec => []MoeInv
<1>1. Core => MoeInv
  BY CoreSuffices DEF Core, MoeInv
<1> QED
  BY <1>1, CoreHolds, PTL

\* The grouped and the per-token path add a token's contributions in the order of its
\* slots, the shared expert last, whatever the interleaving (moe.cu:175-183).
THEOREM FixedOrderHolds == Spec => []FixedOrder
<1>1. Core => FixedOrder
  BY DEF Core
<1> QED
  BY <1>1, CoreHolds, PTL

\* In every mode each assignment is added to its token exactly once, computed by its own
\* expert from weights in the layout the GEMM reads, but for the tokens routed to a group
\* that a one-tile GEMM cannot hold (moe.cu:336-347, tc_moe_gemm.cu:125-174).
THEOREM EverySlotOnceHolds == Spec => []EverySlotOnce
<1>1. Core => EverySlotOnce
  BY DEF Core
<1> QED
  BY <1>1, CoreHolds, PTL

=============================================================================
