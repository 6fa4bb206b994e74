------------------------- MODULE MegaKernels_proofs -------------------------
(***************************************************************************)
(* KernelInv and OutputsRight of MegaKernels are invariant together, for   *)
(* every capacity, every grid and any number of launches; ResidualOnce     *)
(* follows.                                                                *)
(***************************************************************************)
EXTENDS MegaKernels, FunctionTheorems, FiniteSetTheorems, SequenceTheorems, TLAPS

Inductive == KernelInv /\ OutputsRight

-----------------------------------------------------------------------------
(* Grids and counting. *)

LEMMA BlocksFinite == IsFiniteSet(Blocks)
<1> DEFINE G == QkvGrids \cup {Capacity}
           f == [n \in G |-> 0..(n - 1)]
           I == {0..(n - 1) : n \in G}
<1>1. IsFiniteSet(G)
  BY MegaAssumption, FS_AddElement
<1>2. f \in Surjection(G, I)
  BY Fun_IsSurj
<1>3. IsFiniteSet(I)
  BY <1>1, <1>2, FS_Surjection
<1>4. \A J \in I : IsFiniteSet(J)
  <2> TAKE J \in I
  <2>1. PICK n \in G : J = 0..(n - 1)
    OBVIOUS
  <2>2. n \in Nat
    BY MegaAssumption
  <2> QED
    BY <2>1, <2>2, FS_Interval
<1> QED
  BY <1>3, <1>4, FS_UNION DEF Blocks

\* The blocks of every grid a kernel is launched with are blocks.
LEMMA GridBlocks ==
    ASSUME NEW k \in Kernels, NEW n \in Grids(k)
    PROVE  /\ n \in Nat /\ n >= 1 /\ 0..(n - 1) \subseteq Blocks
           /\ n \in 0..Cardinality(Blocks)
           /\ IsFiniteSet(0..(n - 1)) /\ Cardinality(0..(n - 1)) = n
<1>1. n \in Nat /\ n >= 1 /\ n \in QkvGrids \cup {Capacity}
  BY MegaAssumption DEF Grids
<1>2. 0..(n - 1) \subseteq Blocks
  BY <1>1 DEF Blocks
<1>3. IsFiniteSet(0..(n - 1)) /\ Cardinality(0..(n - 1)) = n
  BY <1>1, FS_Interval
<1>4. Cardinality(Blocks) \in Nat /\ n <= Cardinality(Blocks)
  BY <1>2, <1>3, BlocksFinite, FS_Subset, FS_CardinalityType
<1> QED
  BY <1>1, <1>2, <1>3, <1>4

LEMMA BlockNumbers == Blocks \subseteq Nat /\ 0 \in Blocks
<1>1. \A n \in QkvGrids \cup {Capacity} : n \in Nat /\ n >= 1
  BY MegaAssumption
<1> QED
  BY <1>1 DEF Blocks

\* What the current launch is.
LEMMA Running ==
    ASSUME GridOK, TypeOK, NEW b \in Blocks, pc[b] # "exited"
    PROVE  /\ epoch > 0 /\ epoch \in Nat /\ kernel \in Kernels /\ b \in Grid /\ 0 \in Grid
           /\ nb \in Grids(kernel) /\ nb \in Nat /\ Grid \subseteq Blocks
           /\ IsFiniteSet(Grid) /\ Cardinality(Grid) = nb /\ nb <= Cardinality(Blocks)
           /\ Cardinality(Blocks) \in Nat /\ nb >= 1
           /\ \A c \in Grid : pc[c] \in Path(kernel, c)
<1>1. b \in Grid
  BY DEF GridOK
<1>2. epoch # 0
  BY <1>1, BlockNumbers DEF GridOK, Grid
<1>3. launched \in Seq(Kernels) /\ epoch \in Nat
  BY LenProperties DEF TypeOK, epoch
<1>4. kernel \in Kernels /\ epoch > 0
  BY <1>2, <1>3, ElementOfSeq DEF kernel, epoch
<1>5. nb \in Grids(kernel) /\ \A c \in Grid : pc[c] \in Path(kernel, c)
  BY <1>2 DEF GridOK
<1> QED
  BY <1>1, <1>3, <1>4, <1>5, GridBlocks, BlocksFinite, FS_CardinalityType DEF Grid

\* A set of blocks of the grid is counted by a number up to nb, and is the grid when
\* it counts nb.
LEMMA Counting ==
    ASSUME IsFiniteSet(Grid), Cardinality(Grid) = nb, nb \in Nat, NEW S \in SUBSET Grid
    PROVE  /\ IsFiniteSet(S) /\ Cardinality(S) \in 0..nb
           /\ Cardinality(S) >= nb => S = Grid
<1>1. IsFiniteSet(S) /\ Cardinality(S) <= nb /\ Cardinality(S) \in Nat
  BY FS_Subset, FS_CardinalityType
<1>2. Cardinality(S) = nb => S = Grid
  BY FS_Subset
<1> QED
  BY <1>1, <1>2

\* One more block past a point is one more in its count.
LEMMA OneMore ==
    ASSUME NEW S, IsFiniteSet(S), NEW b, b \notin S, NEW R, R = S \cup {b}
    PROVE  IsFiniteSet(R) /\ Cardinality(R) = Cardinality(S) + 1
BY FS_AddElement

\* A block that moves on leaves the launch and the other blocks as they are, and adds
\* itself to what it has passed.
LEMMA Move ==
    ASSUME TypeOK, GridOK, NEW b \in Blocks, pc[b] # "exited", NEW to \in Path(kernel, b),
           pc' = [pc EXCEPT ![b] = to], UNCHANGED launch
    PROVE  /\ GridOK' /\ kernel' = kernel /\ epoch' = epoch /\ Grid' = Grid /\ nb' = nb
           /\ launched' = launched /\ pc' \in [Blocks -> Phases]
           /\ pc'[b] = to /\ \A c \in Blocks \ {b} : pc'[c] = pc[c]
           /\ \A P : pc[b] \in P /\ to \notin P =>
                 Past(P)' = Past(P) \cup {b} /\ Cardinality(Past(P)') = Cardinality(Past(P)) + 1
           /\ \A P : (pc[b] \in P <=> to \in P) => Past(P)' = Past(P)
           /\ \A P : Cardinality(Past(P)) \in 0..nb /\ (Cardinality(Past(P)) >= nb => Past(P) = Grid)
<1>1. /\ kernel' = kernel /\ epoch' = epoch /\ Grid' = Grid /\ nb' = nb /\ launched' = launched
  BY DEF launch, kernel, epoch, Grid
<1>2. epoch > 0 /\ b \in Grid /\ Grid \subseteq Blocks /\ IsFiniteSet(Grid) /\ Cardinality(Grid) = nb /\ nb \in Nat
  BY Running
<1>3. to \in Phases
  BY DEF Path, Phases
<1>4. pc \in [Blocks -> Phases] /\ pc' \in [Blocks -> Phases]
  BY <1>3 DEF TypeOK
<1>5. pc'[b] = to /\ \A c \in Blocks \ {b} : pc'[c] = pc[c]
  BY <1>4
<1>6. GridOK'
  <2>1. \A k : Grids(k)' = Grids(k)
    BY DEF Grids
  <2>2. \A k, c : Path(k, c)' = Path(k, c)
    BY DEF Path
  <2>3. \A c \in Blocks \ Grid : pc'[c] = "exited"
    BY <1>2, <1>5 DEF GridOK
  <2>4. epoch # 0
    BY <1>2
  <2>5. nb \in Grids(kernel) /\ \A c \in Grid : pc'[c] \in Path(kernel, c)
    BY <1>2, <1>5, <2>4 DEF GridOK
  <2> QED
    BY <1>1, <2>3, <2>4, <2>5 DEF GridOK, Grids, Path
<1>7. ASSUME NEW P
      PROVE  Past(P) \in SUBSET Grid
  BY DEF Past
<1>8. ASSUME NEW P, pc[b] \in P, to \notin P
      PROVE  Past(P)' = Past(P) \cup {b} /\ Cardinality(Past(P)') = Cardinality(Past(P)) + 1
  <2>1. Past(P)' = Past(P) \cup {b} /\ b \notin Past(P)
    BY <1>1, <1>2, <1>5, <1>8 DEF Past
  <2>2. IsFiniteSet(Past(P))
    BY <1>2, <1>7, Counting
  <2> QED
    BY <2>1, <2>2, OneMore
<1>9. ASSUME NEW P, pc[b] \in P <=> to \in P
      PROVE  Past(P)' = Past(P)
  BY <1>1, <1>2, <1>5, <1>9 DEF Past
<1>10. \A P : Cardinality(Past(P)) \in 0..nb /\ (Cardinality(Past(P)) >= nb => Past(P) = Grid)
  BY <1>2, <1>7, Counting
<1> QED
  BY <1>1, <1>4, <1>5, <1>6, <1>8, <1>9, <1>10

\* What a step of a block that neither ends the first block of a mega_oproj nor adds to
\* the residual leaves of ResidualOK.
LEMMA ResidualStays ==
    ASSUME ResidualOK, launched' = launched, epoch' = epoch, res' = res,
           kernel = "oproj" => (pc'[0] = "exited" <=> pc[0] = "exited"), TypeOK
    PROVE  ResidualOK'
<1>1. DOMAIN launched = 1..epoch /\ epoch \in Nat
  BY LenProperties DEF TypeOK, epoch
<1>2. \A n \in DOMAIN launched : n < epoch \/ launched[n] = kernel
  BY <1>1 DEF kernel, epoch
<1>3. Added' = Added
  BY <1>2 DEF Added
<1> QED
  BY <1>3 DEF ResidualOK

-----------------------------------------------------------------------------
(* mega_qkv and mega_oproj: a producer and a signal. *)

\* A thread of block 0 writes its part; nobody moves.
LEMMA ProduceStep ==
    ASSUME Inductive, NEW b \in Blocks, Produce(b)
    PROVE  Inductive'
<1>1. PICK t \in writing : writing' = writing \ {t} /\ mid' = [mid EXCEPT ![kernel][t] = epoch]
  BY DEF Produce
<1>2. /\ TypeOK /\ GridOK /\ CountersOK /\ BarrierHolds /\ WaitedOK /\ ScratchOK /\ ResidualOK /\ OutputsRight
      /\ b = 0 /\ pc[b] # "exited" /\ UNCHANGED launch /\ UNCHANGED <<pc, cnt, sumsq, stale, out, res>>
  BY DEF Inductive, KernelInv, Produce
<1>3. /\ epoch > 0 /\ epoch \in Nat /\ kernel \in Kernels /\ t \in Threads /\ t \in Parts
      /\ kernel # "af"
  BY <1>1, <1>2, Running DEF TypeOK, ScratchOK, Parts
<1>4. kernel' = kernel /\ epoch' = epoch /\ Grid' = Grid /\ nb' = nb /\ launched' = launched
  BY <1>2 DEF launch, kernel, epoch, Grid
<1>5. mid'[kernel][t] = epoch /\ \A p \in Parts \ {t} : mid'[kernel][p] = mid[kernel][p]
  BY <1>1, <1>2, <1>3 DEF TypeOK
<1>6. TypeOK'
  <2>1. mid' \in [Kernels -> [Parts -> 0..epoch]]
    BY <1>1, <1>2, <1>3 DEF TypeOK
  <2> QED
    BY <1>1, <1>2, <1>4, <2>1 DEF TypeOK
<1>7. ScratchOK'
  <2>1. \A u \in Threads \ writing' : mid'[kernel][u] = epoch
    BY <1>1, <1>2, <1>3, <1>5 DEF ScratchOK, Parts
  <2> QED
    BY <1>1, <1>2, <1>3, <1>4, <2>1 DEF ScratchOK, BeforeSignal
<1>8. GridOK' /\ CountersOK' /\ BarrierHolds' /\ WaitedOK' /\ ResidualOK'
  BY <1>2, <1>4 DEF GridOK, Grids, Path, CountersOK, Past, BarrierHolds, WaitedOK, ResidualOK, Added
<1>9. OutputsRight'
  BY <1>2, <1>4 DEF OutputsRight, Unsignalled
<1> QED
  BY <1>6, <1>7, <1>8, <1>9 DEF Inductive, KernelInv

LEMMA SignalStep ==
    ASSUME Inductive, NEW b \in Blocks, Signal(b)
    PROVE  Inductive'
<1>1. /\ TypeOK /\ GridOK /\ CountersOK /\ WaitedOK /\ ScratchOK /\ ResidualOK /\ OutputsRight
      /\ pc[b] = "produce" /\ pc' = [pc EXCEPT ![b] = "spin"] /\ UNCHANGED launch
      /\ 0 \notin writing /\ cnt' = [cnt EXCEPT ![kernel][0] = 1]
      /\ UNCHANGED <<sumsq, writing, mid, stale, out, res>>
  BY DEF Inductive, KernelInv, Signal, Goto, data
<1>2. /\ epoch > 0 /\ epoch \in Nat /\ kernel \in Kernels /\ b \in Grid /\ 0 \in Grid /\ Grid \subseteq Blocks
      /\ pc[b] \in Path(kernel, b) /\ Cardinality(Blocks) \in Nat /\ nb >= 1 /\ nb <= Cardinality(Blocks) /\ nb \in Nat
  BY <1>1, Running
<1>3. kernel # "af" /\ b = 0 /\ "spin" \in Path(kernel, b)
  BY <1>1, <1>2 DEF Path
<1>4. /\ GridOK' /\ kernel' = kernel /\ epoch' = epoch /\ Grid' = Grid /\ nb' = nb
      /\ launched' = launched /\ pc' \in [Blocks -> Phases]
      /\ pc'[b] = "spin" /\ \A c \in Blocks \ {b} : pc'[c] = pc[c]
      /\ \A P : (pc[b] \in P <=> "spin" \in P) => Past(P)' = Past(P)
  BY <1>1, <1>3, Move
<1>5. TypeOK'
  <2>1. cnt' \in [Kernels -> [0..1 -> 0..Cardinality(Blocks)]]
    BY <1>1, <1>2 DEF TypeOK
  <2> QED
    BY <1>1, <1>2, <1>4, <2>1 DEF TypeOK
<1>6. CountersOK'
  <2>1. cnt'[kernel][0] = 1 /\ cnt'[kernel][1] = cnt[kernel][1]
    BY <1>1, <1>2 DEF TypeOK
  <2> QED
    BY <1>1, <1>2, <1>3, <1>4, <2>1 DEF CountersOK, BeforeSignal, BeforeArrive
<1>7. BarrierHolds'
  BY <1>3, <1>4 DEF BarrierHolds
<1>8. WaitedOK'
  BY <1>1, <1>2, <1>3, <1>4 DEF WaitedOK, BeforeSignal, BeforeArrive
<1>9. ScratchOK'
  BY <1>1, <1>2, <1>3, <1>4 DEF ScratchOK, BeforeSignal
<1>10. ResidualOK'
  BY <1>1, <1>3, <1>4, ResidualStays
<1>11. OutputsRight'
  BY <1>1, <1>4 DEF OutputsRight, Unsignalled
<1> QED
  BY <1>4, <1>5, <1>6, <1>7, <1>8, <1>9, <1>10, <1>11 DEF Inductive, KernelInv

LEMMA SpinStep ==
    ASSUME Inductive, NEW b \in Blocks, Spin(b)
    PROVE  Inductive'
<1>1. /\ TypeOK /\ GridOK /\ CountersOK /\ WaitedOK /\ ScratchOK /\ ResidualOK /\ OutputsRight
      /\ pc[b] = "spin" /\ pc' = [pc EXCEPT ![b] = "gemv"] /\ UNCHANGED launch
      /\ cnt[kernel][0] # 0 /\ (b = 0 => writing = {}) /\ UNCHANGED <<cnt, sumsq, writing, mid, stale, out, res>>
  BY DEF Inductive, KernelInv, Spin, Goto, Signalled, data
<1>2. /\ epoch > 0 /\ epoch \in Nat /\ kernel \in Kernels /\ b \in Grid /\ 0 \in Grid /\ Grid \subseteq Blocks
      /\ pc[b] \in Path(kernel, b)
  BY <1>1, Running
<1>3. kernel # "af" /\ "gemv" \in Path(kernel, b)
  BY <1>1, <1>2 DEF Path
<1>4. /\ GridOK' /\ kernel' = kernel /\ epoch' = epoch /\ Grid' = Grid /\ nb' = nb
      /\ launched' = launched /\ pc' \in [Blocks -> Phases]
      /\ pc'[b] = "gemv" /\ \A c \in Blocks \ {b} : pc'[c] = pc[c]
      /\ \A P : (pc[b] \in P <=> "gemv" \in P) => Past(P)' = Past(P)
  BY <1>1, <1>3, Move
<1>5. TypeOK'
  BY <1>1, <1>4 DEF TypeOK
<1>6. CountersOK'
  BY <1>1, <1>2, <1>3, <1>4 DEF CountersOK, BeforeSignal, BeforeArrive
<1>7. BarrierHolds'
  BY <1>3, <1>4 DEF BarrierHolds
<1>8. WaitedOK'
  <2>1. pc[0] \notin BeforeSignal
    BY <1>1, <1>2, <1>3 DEF CountersOK
  <2> QED
    BY <1>1, <1>2, <1>3, <1>4, <2>1 DEF WaitedOK, BeforeSignal, BeforeArrive
<1>9. ScratchOK'
  BY <1>1, <1>2, <1>3, <1>4 DEF ScratchOK, BeforeSignal
<1>10. ResidualOK'
  BY <1>1, <1>2, <1>4, ResidualStays
<1>11. OutputsRight'
  BY <1>1, <1>4 DEF OutputsRight, Unsignalled
<1> QED
  BY <1>4, <1>5, <1>6, <1>7, <1>8, <1>9, <1>10, <1>11 DEF Inductive, KernelInv

\* What a block may read too early: nothing after the second barrier or in block 0 itself,
\* and not the part of thread 0, which signalled when it had written it.
LEMMA GemvStep ==
    ASSUME Inductive, NEW b \in Blocks, Gemv(b)
    PROVE  Inductive'
<1> DEFINE to == IF kernel = "oproj" THEN "arrive" ELSE "exited"
<1>1. /\ TypeOK /\ GridOK /\ CountersOK /\ BarrierHolds /\ WaitedOK /\ ScratchOK /\ ResidualOK /\ OutputsRight
      /\ pc[b] = "gemv" /\ pc' = [pc EXCEPT ![b] = to] /\ UNCHANGED launch
      /\ UNCHANGED <<cnt, sumsq, writing, mid, res>>
      /\ out' = [out EXCEPT ![kernel][b] = epoch]
      /\ stale' = stale \cup {<<b, p>> : p \in {q \in Due : mid[kernel][q] # epoch}}
  BY DEF Inductive, KernelInv, Gemv, Goto
<1>2. /\ epoch > 0 /\ epoch \in Nat /\ kernel \in Kernels /\ b \in Grid /\ 0 \in Grid /\ Grid \subseteq Blocks
      /\ \A c \in Grid : pc[c] \in Path(kernel, c)
  BY <1>1, Running
<1>3. to \in Path(kernel, b) /\ (kernel = "oproj" => to = "arrive") /\ (kernel # "oproj" => to = "exited")
  BY DEF Path
<1> HIDE DEF to
<1>4. /\ GridOK' /\ kernel' = kernel /\ epoch' = epoch /\ Grid' = Grid /\ nb' = nb
      /\ launched' = launched /\ pc' \in [Blocks -> Phases]
      /\ pc'[b] = to /\ \A c \in Blocks \ {b} : pc'[c] = pc[c]
      /\ \A P : (pc[b] \in P <=> to \in P) => Past(P)' = Past(P)
  BY <1>1, <1>3, Move
<1>5. \A p \in Due : mid[kernel][p] # epoch => <<b, p>> \in Unsignalled
  <2>1. CASE kernel = "af"
    <3>1. \A c \in Grid : pc[c] \notin Before1
      BY <1>1, <1>2, <2>1 DEF BarrierHolds, Before0, Before1
    <3>2. \A c \in Grid : c \in Past(Before1 \ {"arrive1"})
      BY <3>1 DEF Past
    <3> QED
      BY <1>1, <1>2, <2>1, <3>2 DEF ScratchOK, Due
  <2>2. CASE kernel # "af"
    <3>1. pc[0] \notin BeforeSignal
      BY <1>1, <1>2, <2>2 DEF WaitedOK, BeforeSignal
    <3>2. 0 \notin writing /\ (b = 0 => writing = {})
      BY <1>1, <1>2, <2>2, <3>1 DEF ScratchOK, BeforeSignal
    <3>3. \A t \in Threads : mid[kernel][t] # epoch => t \in writing
      BY <1>1, <1>2, <2>2 DEF ScratchOK
    <3> QED
      BY <1>2, <2>2, <3>2, <3>3 DEF Due, Unsignalled
  <2> QED
    BY <2>1, <2>2
<1>6. /\ out' = [out EXCEPT ![kernel][b] = epoch] /\ out'[kernel][b] = epoch
      /\ \A c \in Blocks \ {b} : out'[kernel][c] = out[kernel][c]
  BY <1>1, <1>2 DEF TypeOK
<1>7. TypeOK'
  <2>1. out' \in [Kernels -> [Blocks -> 0..epoch]]
    BY <1>1, <1>2, <1>6 DEF TypeOK
  <2>2. stale' \subseteq Blocks \X Parts
    BY <1>1, <1>2 DEF TypeOK, Due, Parts
  <2> QED
    BY <1>1, <1>4, <2>1, <2>2 DEF TypeOK
<1>8. CountersOK'
  BY <1>1, <1>2, <1>3, <1>4 DEF CountersOK, BeforeSignal, BeforeArrive, Before0, Before1
<1>9. BarrierHolds'
  BY <1>1, <1>2, <1>3, <1>4 DEF BarrierHolds, Before0, Before1
<1>10. WaitedOK'
  BY <1>1, <1>2, <1>3, <1>4 DEF WaitedOK, BeforeSignal, BeforeArrive
<1>11. ScratchOK'
  BY <1>1, <1>2, <1>3, <1>4 DEF ScratchOK, Before0, Before1, BeforeSignal
<1>12. ResidualOK'
  BY <1>1, <1>2, <1>3, <1>4, ResidualStays
<1>13. OutputsRight'
  <2>1. stale' \subseteq Unsignalled'
    BY <1>1, <1>2, <1>4, <1>5 DEF OutputsRight, Unsignalled
  <2> QED
    BY <1>1, <1>2, <1>4, <1>6, <2>1 DEF OutputsRight
<1> QED
  BY <1>4, <1>7, <1>8, <1>9, <1>10, <1>11, <1>12, <1>13 DEF Inductive, KernelInv

LEMMA ArriveStep ==
    ASSUME Inductive, NEW b \in Blocks, Arrive(b)
    PROVE  Inductive'
<1> DEFINE to == IF b = 0 THEN "await" ELSE "exited"
<1>1. /\ TypeOK /\ GridOK /\ CountersOK /\ WaitedOK /\ ScratchOK /\ ResidualOK /\ OutputsRight
      /\ pc[b] = "arrive" /\ pc' = [pc EXCEPT ![b] = to] /\ UNCHANGED launch
      /\ UNCHANGED <<sumsq, writing, mid, stale, out, res>>
      /\ cnt' = [cnt EXCEPT ![kernel][1] = @ + 1]
  BY DEF Inductive, KernelInv, Arrive, Goto, Add, data
<1>2. /\ epoch > 0 /\ epoch \in Nat /\ kernel \in Kernels /\ b \in Grid /\ 0 \in Grid /\ Grid \subseteq Blocks
      /\ pc[b] \in Path(kernel, b) /\ nb \in Nat /\ nb <= Cardinality(Blocks) /\ Cardinality(Blocks) \in Nat
  BY <1>1, Running
<1>3. kernel = "oproj" /\ to \in Path(kernel, b) /\ (b = 0 => to = "await") /\ (b # 0 => to = "exited")
  BY <1>1, <1>2 DEF Path
<1> HIDE DEF to
<1>4. /\ GridOK' /\ kernel' = kernel /\ epoch' = epoch /\ Grid' = Grid /\ nb' = nb
      /\ launched' = launched /\ pc' \in [Blocks -> Phases]
      /\ pc'[b] = to /\ \A c \in Blocks \ {b} : pc'[c] = pc[c]
      /\ \A P : (pc[b] \in P <=> to \in P) => Past(P)' = Past(P)
      /\ \A P : pc[b] \in P /\ to \notin P =>
           Past(P)' = Past(P) \cup {b} /\ Cardinality(Past(P)') = Cardinality(Past(P)) + 1
  BY <1>1, <1>3, Move
<1>5. /\ cnt'["oproj"][1] = cnt["oproj"][1] + 1 /\ cnt'["oproj"][0] = cnt["oproj"][0]
      /\ \A k \in Kernels \ {"oproj"} : cnt'[k] = cnt[k]
  BY <1>1, <1>2, <1>3 DEF TypeOK
<1>6. cnt'["oproj"][1] = Cardinality(Past(BeforeArrive)')
  <2>1. pc[b] \in BeforeArrive /\ to \notin BeforeArrive
    BY <1>1, <1>3 DEF BeforeArrive, BeforeSignal
  <2>2. Cardinality(Past(BeforeArrive)') = Cardinality(Past(BeforeArrive)) + 1
    BY <1>4, <2>1
  <2>3. cnt["oproj"][1] = Cardinality(Past(BeforeArrive))
    BY <1>1, <1>2, <1>3 DEF CountersOK
  <2> QED
    BY <1>5, <2>2, <2>3
<1>7. cnt'["oproj"][1] \in 0..Cardinality(Blocks)
  <2>1. IsFiniteSet(Grid) /\ Cardinality(Grid) = nb
    BY <1>1, Running
  <2>2. Past(BeforeArrive)' \in SUBSET Grid
    BY <1>4 DEF Past
  <2>3. Cardinality(Past(BeforeArrive)') \in 0..nb
    BY <1>2, <2>1, <2>2, Counting
  <2> QED
    BY <1>2, <1>6, <2>3
<1>8. TypeOK'
  <2>1. cnt' \in [Kernels -> [0..1 -> 0..Cardinality(Blocks)]]
    BY <1>1, <1>3, <1>5, <1>7 DEF TypeOK
  <2> QED
    BY <1>1, <1>4, <2>1 DEF TypeOK
<1>9. CountersOK'
  BY <1>1, <1>2, <1>3, <1>4, <1>5, <1>6 DEF CountersOK, BeforeSignal
<1>10. BarrierHolds'
  BY <1>3, <1>4 DEF BarrierHolds
<1>11. WaitedOK'
  <2>1. pc[0] \notin BeforeSignal
    BY <1>1, <1>2, <1>3 DEF WaitedOK, BeforeSignal
  <2>2. pc'[0] \notin BeforeSignal /\ (pc'[0] \in {"reduce", "exited"} => pc[0] \in {"reduce", "exited"})
    BY <1>2, <1>3, <1>4, <2>1 DEF BeforeSignal
  <2>3. pc[0] \in {"reduce", "exited"} => Past(BeforeArrive) = Grid
    BY <1>1, <1>2, <1>3 DEF WaitedOK
  <2>4. Past(BeforeArrive)' \in SUBSET Grid /\ Past(BeforeArrive) \subseteq Past(BeforeArrive)'
    BY <1>1, <1>3, <1>4 DEF Past, BeforeArrive, BeforeSignal
  <2> QED
    BY <1>4, <2>2, <2>3, <2>4 DEF WaitedOK
<1>12. ScratchOK'
  BY <1>1, <1>2, <1>3, <1>4 DEF ScratchOK, BeforeSignal
<1>13. ResidualOK'
  BY <1>1, <1>2, <1>3, <1>4, ResidualStays
<1>14. OutputsRight'
  BY <1>1, <1>2, <1>4 DEF OutputsRight, Unsignalled
<1> QED
  BY <1>4, <1>8, <1>9, <1>10, <1>11, <1>12, <1>13, <1>14 DEF Inductive, KernelInv

LEMMA AwaitStep ==
    ASSUME Inductive, NEW b \in Blocks, Await(b)
    PROVE  Inductive'
<1>1. /\ TypeOK /\ GridOK /\ CountersOK /\ WaitedOK /\ ScratchOK /\ ResidualOK /\ OutputsRight
      /\ pc[b] = "await" /\ pc' = [pc EXCEPT ![b] = "reduce"] /\ UNCHANGED launch
      /\ UNCHANGED <<cnt, sumsq, writing, mid, stale, out, res>> /\ cnt[kernel][1] >= nb
  BY DEF Inductive, KernelInv, Await, Goto, AllArrived, data
<1>2. /\ epoch > 0 /\ kernel \in Kernels /\ b \in Grid /\ 0 \in Grid /\ Grid \subseteq Blocks
      /\ pc[b] \in Path(kernel, b)
  BY <1>1, Running
<1>3. kernel = "oproj" /\ b = 0 /\ "reduce" \in Path(kernel, b)
  BY <1>1, <1>2 DEF Path
<1>4. /\ GridOK' /\ kernel' = kernel /\ epoch' = epoch /\ Grid' = Grid /\ nb' = nb
      /\ launched' = launched /\ pc' \in [Blocks -> Phases]
      /\ pc'[b] = "reduce" /\ \A c \in Blocks \ {b} : pc'[c] = pc[c]
      /\ \A P : (pc[b] \in P <=> "reduce" \in P) => Past(P)' = Past(P)
      /\ \A P : Cardinality(Past(P)) >= nb => Past(P) = Grid
  BY <1>1, <1>3, Move
<1>5. Past(BeforeArrive)' = Grid
  <2>1. Past(BeforeArrive)' = Past(BeforeArrive)
    BY <1>1, <1>4 DEF BeforeArrive, BeforeSignal
  <2>2. Past(BeforeArrive) = Grid
    BY <1>1, <1>2, <1>3, <1>4 DEF CountersOK
  <2> QED
    BY <2>1, <2>2
<1>6. TypeOK'
  BY <1>1, <1>4 DEF TypeOK
<1>7. CountersOK'
  BY <1>1, <1>2, <1>3, <1>4 DEF CountersOK, BeforeSignal, BeforeArrive
<1>8. BarrierHolds'
  BY <1>3, <1>4 DEF BarrierHolds
<1>9. WaitedOK'
  BY <1>1, <1>2, <1>3, <1>4, <1>5 DEF WaitedOK, BeforeSignal
<1>10. ScratchOK'
  BY <1>1, <1>2, <1>3, <1>4 DEF ScratchOK, BeforeSignal
<1>11. ResidualOK'
  BY <1>1, <1>2, <1>3, <1>4, ResidualStays
<1>12. OutputsRight'
  BY <1>1, <1>2, <1>4 DEF OutputsRight, Unsignalled
<1> QED
  BY <1>4, <1>6, <1>7, <1>8, <1>9, <1>10, <1>11, <1>12 DEF Inductive, KernelInv

\* All blocks have arrived, so op is whole, and the launch is counted once.
LEMMA ReduceStep ==
    ASSUME Inductive, NEW b \in Blocks, Reduce(b)
    PROVE  Inductive'
<1>1. /\ TypeOK /\ GridOK /\ CountersOK /\ WaitedOK /\ ScratchOK /\ ResidualOK /\ OutputsRight
      /\ pc[b] = "reduce" /\ pc' = [pc EXCEPT ![b] = "exited"] /\ UNCHANGED launch
      /\ UNCHANGED <<cnt, sumsq, writing, mid, stale, out>>
      /\ res' = IF res >= 0 /\ \A c \in Grid : out["oproj"][c] = epoch THEN res + 1 ELSE -1
  BY DEF Inductive, KernelInv, Reduce, Goto
<1>2. /\ epoch > 0 /\ epoch \in Nat /\ kernel \in Kernels /\ b \in Grid /\ 0 \in Grid /\ Grid \subseteq Blocks
      /\ \A c \in Grid : pc[c] \in Path(kernel, c)
  BY <1>1, Running
<1>3. kernel = "oproj" /\ b = 0 /\ "exited" \in Path(kernel, b)
  BY <1>1, <1>2 DEF Path
<1>4. /\ GridOK' /\ kernel' = kernel /\ epoch' = epoch /\ Grid' = Grid /\ nb' = nb
      /\ launched' = launched /\ pc' \in [Blocks -> Phases]
      /\ pc'[b] = "exited" /\ \A c \in Blocks \ {b} : pc'[c] = pc[c]
      /\ \A P : (pc[b] \in P <=> "exited" \in P) => Past(P)' = Past(P)
  BY <1>1, <1>3, Move
<1>5. \A c \in Grid : out["oproj"][c] = epoch
  <2>1. Past(BeforeArrive) = Grid
    BY <1>1, <1>2, <1>3 DEF WaitedOK
  <2>2. \A c \in Grid : pc[c] \in {"arrive", "await", "reduce", "exited"}
    BY <1>2, <1>3, <2>1 DEF Past, Path, BeforeArrive, BeforeSignal
  <2> QED
    BY <1>1, <1>2, <1>3, <2>2 DEF OutputsRight, Unsignalled
<1>6. IsFiniteSet(Added) /\ Cardinality(Added) \in Nat /\ IsFiniteSet(Added') /\ Cardinality(Added') \in 0..epoch
      /\ Cardinality(Added') = Cardinality(Added) + 1
  <2>1. DOMAIN launched = 1..epoch /\ launched[epoch] = "oproj" /\ epoch \in 1..epoch
    BY <1>1, <1>2, <1>3, LenProperties DEF TypeOK, epoch, kernel
  <2>2. IsFiniteSet(1..epoch) /\ Cardinality(1..epoch) = epoch
    BY <1>2, FS_Interval
  <2>3. Added \in SUBSET (1..epoch) /\ epoch \notin Added
    BY <1>1, <1>3, <2>1 DEF Added
  <2>4. Added' = Added \cup {epoch}
    BY <1>3, <1>4, <2>1 DEF Added
  <2>5. Added' \in SUBSET (1..epoch)
    BY <2>1, <2>3, <2>4
  <2>6. IsFiniteSet(Added) /\ Cardinality(Added) \in Nat
    BY <2>2, <2>3, FS_Subset, FS_CardinalityType
  <2>7. IsFiniteSet(Added') /\ Cardinality(Added') = Cardinality(Added) + 1
    BY <2>3, <2>4, <2>6, OneMore
  <2>8. Cardinality(Added') <= epoch
    BY <2>2, <2>5, FS_Subset
  <2> QED
    BY <1>2, <2>6, <2>7, <2>8
<1>7. res' = res + 1
  BY <1>1, <1>5, <1>6 DEF ResidualOK
<1>8. ResidualOK'
  BY <1>1, <1>6, <1>7 DEF ResidualOK
<1>9. TypeOK'
  <2>1. res' \in -1..epoch
    BY <1>6, <1>8 DEF ResidualOK
  <2> QED
    BY <1>1, <1>4, <2>1 DEF TypeOK
<1>10. CountersOK'
  BY <1>1, <1>2, <1>3, <1>4 DEF CountersOK, BeforeSignal, BeforeArrive
<1>11. BarrierHolds'
  BY <1>3, <1>4 DEF BarrierHolds
<1>12. WaitedOK'
  BY <1>1, <1>2, <1>3, <1>4 DEF WaitedOK, BeforeSignal, BeforeArrive
<1>13. ScratchOK'
  BY <1>1, <1>2, <1>3, <1>4 DEF ScratchOK, BeforeSignal
<1>14. OutputsRight'
  BY <1>1, <1>2, <1>4 DEF OutputsRight, Unsignalled
<1> QED
  BY <1>4, <1>8, <1>9, <1>10, <1>11, <1>12, <1>13, <1>14 DEF Inductive, KernelInv

-----------------------------------------------------------------------------
(* mega_attn_front: two grid barriers. *)

LEMMA SumStep ==
    ASSUME Inductive, NEW b \in Blocks, Sum(b)
    PROVE  Inductive'
<1>1. /\ TypeOK /\ GridOK /\ CountersOK /\ BarrierHolds /\ WaitedOK /\ ScratchOK /\ ResidualOK /\ OutputsRight
      /\ pc[b] = "sum" /\ pc' = [pc EXCEPT ![b] = "arrive0"] /\ UNCHANGED launch
      /\ UNCHANGED <<cnt, writing, mid, stale, out, res>> /\ sumsq' = sumsq + 1
  BY DEF Inductive, KernelInv, Sum, Goto
<1>2. /\ epoch > 0 /\ kernel \in Kernels /\ b \in Grid /\ 0 \in Grid /\ Grid \subseteq Blocks
      /\ \A c \in Grid : pc[c] \in Path(kernel, c)
      /\ nb \in Grids(kernel) /\ nb \in Nat /\ IsFiniteSet(Grid) /\ Cardinality(Grid) = nb
  BY <1>1, Running
<1>3. kernel = "af" /\ "arrive0" \in Path(kernel, b) /\ nb = Capacity
  BY <1>1, <1>2 DEF Path, Grids
<1>4. /\ GridOK' /\ kernel' = kernel /\ epoch' = epoch /\ Grid' = Grid /\ nb' = nb
      /\ launched' = launched /\ pc' \in [Blocks -> Phases]
      /\ pc'[b] = "arrive0" /\ \A c \in Blocks \ {b} : pc'[c] = pc[c]
      /\ \A P : (pc[b] \in P <=> "arrive0" \in P) => Past(P)' = Past(P)
      /\ \A P : pc[b] \in P /\ "arrive0" \notin P =>
           Past(P)' = Past(P) \cup {b} /\ Cardinality(Past(P)') = Cardinality(Past(P)) + 1
  BY <1>1, <1>3, Move
<1>5. sumsq' = Cardinality(Past({"queued", "sum"})')
  BY <1>1, <1>2, <1>3, <1>4 DEF CountersOK
<1>6. TypeOK'
  <2>1. Past({"queued", "sum"})' \in SUBSET Grid
    BY <1>4 DEF Past
  <2>2. sumsq' \in 0..Capacity
    BY <1>2, <1>3, <1>5, <2>1, Counting
  <2> QED
    BY <1>1, <1>4, <2>2 DEF TypeOK
<1>7. CountersOK'
  BY <1>1, <1>2, <1>3, <1>4, <1>5 DEF CountersOK, Before0, Before1
<1>8. BarrierHolds'
  BY <1>1, <1>2, <1>3, <1>4 DEF BarrierHolds, Before0, Before1
<1>9. WaitedOK'
  BY <1>3, <1>4 DEF WaitedOK
<1>10. ScratchOK'
  BY <1>1, <1>2, <1>3, <1>4 DEF ScratchOK, Before0, Before1, BeforeSignal
<1>11. ResidualOK'
  BY <1>1, <1>2, <1>3, <1>4, ResidualStays
<1>12. OutputsRight'
  BY <1>1, <1>2, <1>4 DEF OutputsRight, Unsignalled
<1> QED
  BY <1>4, <1>6, <1>7, <1>8, <1>9, <1>10, <1>11, <1>12 DEF Inductive, KernelInv

\* The sum is whole: no block is before the first barrier.
LEMMA NormStep ==
    ASSUME Inductive, NEW b \in Blocks, Norm(b)
    PROVE  Inductive'
<1>1. /\ TypeOK /\ GridOK /\ CountersOK /\ BarrierHolds /\ WaitedOK /\ ScratchOK /\ ResidualOK /\ OutputsRight
      /\ pc[b] = "norm" /\ pc' = [pc EXCEPT ![b] = "arrive1"] /\ UNCHANGED launch
      /\ UNCHANGED <<cnt, sumsq, writing, stale, out, res>>
      /\ mid' = [mid EXCEPT !["af"][b] = IF sumsq = nb THEN epoch ELSE 0]
  BY DEF Inductive, KernelInv, Norm, Goto
<1>2. /\ epoch > 0 /\ epoch \in Nat /\ kernel \in Kernels /\ b \in Grid /\ 0 \in Grid /\ Grid \subseteq Blocks
      /\ \A c \in Grid : pc[c] \in Path(kernel, c) /\ Cardinality(Grid) = nb
  BY <1>1, Running
<1>3. kernel = "af" /\ "arrive1" \in Path(kernel, b)
  BY <1>1, <1>2 DEF Path
<1>4. /\ GridOK' /\ kernel' = kernel /\ epoch' = epoch /\ Grid' = Grid /\ nb' = nb
      /\ launched' = launched /\ pc' \in [Blocks -> Phases]
      /\ pc'[b] = "arrive1" /\ \A c \in Blocks \ {b} : pc'[c] = pc[c]
      /\ \A P : (pc[b] \in P <=> "arrive1" \in P) => Past(P)' = Past(P)
      /\ \A P : pc[b] \in P /\ "arrive1" \notin P => Past(P)' = Past(P) \cup {b}
  BY <1>1, <1>3, Move
<1>5. sumsq = nb
  <2>1. \A c \in Grid : pc[c] \notin Before0
    BY <1>1, <1>2, <1>3 DEF BarrierHolds, Before0
  <2>2. Past({"queued", "sum"}) = Grid
    BY <2>1 DEF Past, Before0
  <2> QED
    BY <1>1, <1>2, <1>3, <2>2 DEF CountersOK
<1>6. /\ mid' = [mid EXCEPT !["af"][b] = epoch] /\ mid'["af"][b] = epoch
      /\ \A c \in Blocks \ {b} : mid'["af"][c] = mid["af"][c]
  BY <1>1, <1>2, <1>3, <1>5 DEF TypeOK, Parts
<1>7. TypeOK'
  <2>1. mid' \in [Kernels -> [Parts -> 0..epoch]]
    <3>1. b \in Parts /\ mid \in [Kernels -> [Parts -> 0..epoch]]
      BY <1>1 DEF Parts, TypeOK
    <3> QED
      BY <1>2, <1>3, <1>6, <3>1
  <2> QED
    BY <1>1, <1>4, <2>1 DEF TypeOK
<1>8. CountersOK'
  BY <1>1, <1>2, <1>3, <1>4 DEF CountersOK, Before0, Before1
<1>9. BarrierHolds'
  BY <1>1, <1>2, <1>3, <1>4 DEF BarrierHolds, Before0, Before1
<1>10. WaitedOK'
  BY <1>3, <1>4 DEF WaitedOK
<1>11. ScratchOK'
  <2>1. Past(Before1 \ {"arrive1"})' = Past(Before1 \ {"arrive1"}) \cup {b}
    BY <1>1, <1>4 DEF Before1, Before0
  <2>2. Past(Before1 \ {"arrive1"}) \subseteq Blocks
    BY <1>2 DEF Past
  <2> QED
    BY <1>1, <1>2, <1>3, <1>4, <1>6, <2>1, <2>2 DEF ScratchOK, BeforeSignal
<1>12. ResidualOK'
  BY <1>1, <1>2, <1>3, <1>4, ResidualStays
<1>13. OutputsRight'
  BY <1>1, <1>2, <1>4 DEF OutputsRight, Unsignalled
<1> QED
  BY <1>4, <1>7, <1>8, <1>9, <1>10, <1>11, <1>12, <1>13 DEF Inductive, KernelInv

\* Arriving at barrier i adds one to its counter.
LEMMA BarrierArrives ==
    ASSUME Inductive, NEW b \in Blocks, NEW i \in 0..1, NEW from, NEW to,
           <<i, from, to>> \in {<<0, "arrive0", "spin0">>, <<1, "arrive1", "spin1">>},
           Goto(b, from, to), Add(i), UNCHANGED <<launch, data>>
    PROVE  Inductive'
<1>1. /\ TypeOK /\ GridOK /\ CountersOK /\ BarrierHolds /\ WaitedOK /\ ScratchOK /\ ResidualOK /\ OutputsRight
      /\ pc[b] = from /\ pc' = [pc EXCEPT ![b] = to] /\ UNCHANGED launch
      /\ UNCHANGED <<sumsq, writing, mid, stale, out, res>> /\ cnt' = [cnt EXCEPT ![kernel][i] = @ + 1]
      /\ from \in {"arrive0", "arrive1"} /\ to \in {"spin0", "spin1"}
  BY DEF Inductive, KernelInv, Goto, Add, data
<1>2. /\ epoch > 0 /\ epoch \in Nat /\ kernel \in Kernels /\ b \in Grid /\ 0 \in Grid /\ Grid \subseteq Blocks
      /\ \A c \in Grid : pc[c] \in Path(kernel, c)
      /\ IsFiniteSet(Grid) /\ Cardinality(Grid) = nb /\ nb \in Nat
      /\ nb <= Cardinality(Blocks) /\ Cardinality(Blocks) \in Nat
  BY <1>1, Running
<1>3. kernel = "af" /\ to \in Path(kernel, b)
  BY <1>1, <1>2 DEF Path
<1>4. /\ GridOK' /\ kernel' = kernel /\ epoch' = epoch /\ Grid' = Grid /\ nb' = nb
      /\ launched' = launched /\ pc' \in [Blocks -> Phases]
      /\ pc'[b] = to /\ \A c \in Blocks \ {b} : pc'[c] = pc[c]
      /\ \A P : (pc[b] \in P <=> to \in P) => Past(P)' = Past(P)
      /\ \A P : pc[b] \in P /\ to \notin P =>
           Past(P)' = Past(P) \cup {b} /\ Cardinality(Past(P)') = Cardinality(Past(P)) + 1
  BY <1>1, <1>3, Move
<1>5. /\ cnt'["af"][i] = cnt["af"][i] + 1 /\ cnt'["af"][1 - i] = cnt["af"][1 - i]
      /\ \A k \in Kernels \ {"af"} : cnt'[k] = cnt[k]
  BY <1>1, <1>2, <1>3 DEF TypeOK
<1>6. /\ cnt'["af"][0] = Cardinality(Past(Before0)') /\ cnt'["af"][1] = Cardinality(Past(Before1)')
      /\ sumsq' = Cardinality(Past({"queued", "sum"})')
  <2>1. /\ cnt["af"][0] = Cardinality(Past(Before0)) /\ cnt["af"][1] = Cardinality(Past(Before1))
        /\ sumsq = Cardinality(Past({"queued", "sum"}))
    BY <1>1, <1>2, <1>3 DEF CountersOK
  <2>2. Past({"queued", "sum"})' = Past({"queued", "sum"})
    BY <1>1, <1>4
  <2>3. CASE i = 0
    <3>1. /\ Cardinality(Past(Before0)') = Cardinality(Past(Before0)) + 1
          /\ Past(Before1)' = Past(Before1)
      BY <1>1, <1>4, <2>3 DEF Before0, Before1
    <3> QED
      BY <1>1, <1>5, <2>1, <2>2, <2>3, <3>1
  <2>4. CASE i = 1
    <3>1. /\ Cardinality(Past(Before1)') = Cardinality(Past(Before1)) + 1
          /\ Past(Before0)' = Past(Before0)
      BY <1>1, <1>4, <2>4 DEF Before0, Before1
    <3> QED
      BY <1>1, <1>5, <2>1, <2>2, <2>4, <3>1
  <2> QED
    BY <2>3, <2>4
<1>7. TypeOK'
  <2>1. Past(Before0)' \in SUBSET Grid /\ Past(Before1)' \in SUBSET Grid
    BY <1>4 DEF Past
  <2>2. cnt'["af"][0] \in 0..nb /\ cnt'["af"][1] \in 0..nb
    BY <1>2, <1>6, <2>1, Counting
  <2>3. cnt' \in [Kernels -> [0..1 -> 0..Cardinality(Blocks)]]
    <3>1. \A j \in 0..1 : cnt'["af"][j] \in 0..Cardinality(Blocks)
      BY <1>2, <2>2
    <3>2. /\ DOMAIN cnt' = Kernels /\ cnt' = [k \in Kernels |-> cnt'[k]]
          /\ \A k \in Kernels : DOMAIN cnt'[k] = 0..1 /\ cnt'[k] = [j \in 0..1 |-> cnt'[k][j]]
      BY <1>1, <1>3 DEF TypeOK
    <3>3. \A k \in Kernels \ {"af"} : cnt'[k] = cnt[k]
      BY <1>1, <1>3 DEF TypeOK
    <3>4. cnt'["af"] \in [0..1 -> 0..Cardinality(Blocks)]
      BY <3>1, <3>2 DEF Kernels
    <3> QED
      BY <1>1, <3>2, <3>3, <3>4 DEF TypeOK
  <2> QED
    BY <1>1, <1>4, <2>3 DEF TypeOK
<1>8. CountersOK'
  BY <1>3, <1>4, <1>6 DEF CountersOK
<1>9. BarrierHolds'
  BY <1>1, <1>2, <1>3, <1>4 DEF BarrierHolds, Before0, Before1
<1>10. WaitedOK'
  BY <1>3, <1>4 DEF WaitedOK
<1>11. ScratchOK'
  BY <1>1, <1>2, <1>3, <1>4 DEF ScratchOK, Before0, Before1, BeforeSignal
<1>12. ResidualOK'
  BY <1>1, <1>2, <1>3, <1>4, ResidualStays
<1>13. OutputsRight'
  BY <1>1, <1>2, <1>4 DEF OutputsRight, Unsignalled
<1> QED
  BY <1>4, <1>7, <1>8, <1>9, <1>10, <1>11, <1>12, <1>13 DEF Inductive, KernelInv

\* Leaving barrier i: its counter says that all blocks have arrived.
LEMMA BarrierPasses ==
    ASSUME Inductive, NEW b \in Blocks, NEW i \in 0..1, NEW from, NEW to,
           <<i, from, to>> \in {<<0, "spin0", "norm">>, <<1, "spin1", "gemv">>},
           Goto(b, from, to), AllArrived(i), UNCHANGED <<launch, cnt, data>>
    PROVE  Inductive'
<1>1. /\ TypeOK /\ GridOK /\ CountersOK /\ BarrierHolds /\ WaitedOK /\ ScratchOK /\ ResidualOK /\ OutputsRight
      /\ pc[b] = from /\ pc' = [pc EXCEPT ![b] = to] /\ UNCHANGED launch
      /\ UNCHANGED <<cnt, sumsq, writing, mid, stale, out, res>> /\ cnt[kernel][i] >= nb
      /\ from \in {"spin0", "spin1"} /\ to \in {"norm", "gemv"}
  BY DEF Inductive, KernelInv, Goto, AllArrived, data
<1>2. /\ epoch > 0 /\ epoch \in Nat /\ kernel \in Kernels /\ b \in Grid /\ 0 \in Grid /\ Grid \subseteq Blocks
      /\ \A c \in Grid : pc[c] \in Path(kernel, c)
  BY <1>1, Running
<1>3. kernel = "af" /\ to \in Path(kernel, b)
  BY <1>1, <1>2 DEF Path
<1>4. /\ GridOK' /\ kernel' = kernel /\ epoch' = epoch /\ Grid' = Grid /\ nb' = nb
      /\ launched' = launched /\ pc' \in [Blocks -> Phases]
      /\ pc'[b] = to /\ \A c \in Blocks \ {b} : pc'[c] = pc[c]
      /\ \A P : (pc[b] \in P <=> to \in P) => Past(P)' = Past(P)
      /\ \A P : Cardinality(Past(P)) >= nb => Past(P) = Grid
  BY <1>1, <1>3, Move
<1>5. Past(IF i = 0 THEN Before0 ELSE Before1) = Grid
  BY <1>1, <1>2, <1>3, <1>4 DEF CountersOK
<1>6. TypeOK'
  BY <1>1, <1>4 DEF TypeOK
<1>7. CountersOK'
  BY <1>1, <1>2, <1>3, <1>4 DEF CountersOK, Before0, Before1
<1>8. BarrierHolds'
  <2>1. i = 0 => \A c \in Grid : pc[c] \notin Before0
    BY <1>5 DEF Past
  <2>2. i = 1 => \A c \in Grid : pc[c] \notin Before1
    BY <1>5 DEF Past
  <2> QED
    BY <1>1, <1>2, <1>3, <1>4, <2>1, <2>2 DEF BarrierHolds, Before0, Before1
<1>9. WaitedOK'
  BY <1>3, <1>4 DEF WaitedOK
<1>10. ScratchOK'
  BY <1>1, <1>2, <1>3, <1>4 DEF ScratchOK, Before0, Before1, BeforeSignal
<1>11. ResidualOK'
  BY <1>1, <1>2, <1>3, <1>4, ResidualStays
<1>12. OutputsRight'
  BY <1>1, <1>2, <1>4 DEF OutputsRight, Unsignalled
<1> QED
  BY <1>4, <1>6, <1>7, <1>8, <1>9, <1>10, <1>11, <1>12 DEF Inductive, KernelInv

LEMMA GridBarStep ==
    ASSUME Inductive, NEW b \in Blocks, GridBar(b)
    PROVE  Inductive'
<1>1. CASE Goto(b, "arrive0", "spin0") /\ Add(0)
  BY <1>1, BarrierArrives DEF GridBar
<1>2. CASE Goto(b, "arrive1", "spin1") /\ Add(1)
  BY <1>2, BarrierArrives DEF GridBar
<1>3. CASE Goto(b, "spin0", "norm") /\ AllArrived(0) /\ UNCHANGED cnt
  BY <1>3, BarrierPasses DEF GridBar
<1>4. CASE Goto(b, "spin1", "gemv") /\ AllArrived(1) /\ UNCHANGED cnt
  BY <1>4, BarrierPasses DEF GridBar
<1> QED
  BY <1>1, <1>2, <1>3, <1>4 DEF GridBar

-----------------------------------------------------------------------------
(* The scheduler and the host. *)

LEMMA DispatchStep ==
    ASSUME Inductive, NEW b \in Blocks, Dispatch(b)
    PROVE  Inductive'
<1> DEFINE to == IF kernel = "af" THEN "sum" ELSE IF b = 0 THEN "produce" ELSE "spin"
<1>1. /\ TypeOK /\ GridOK /\ CountersOK /\ BarrierHolds /\ WaitedOK /\ ScratchOK /\ ResidualOK /\ OutputsRight
      /\ pc[b] = "queued" /\ pc' = [pc EXCEPT ![b] = to] /\ UNCHANGED launch
      /\ UNCHANGED <<cnt, sumsq, writing, mid, stale, out, res>>
  BY DEF Inductive, KernelInv, Dispatch, data
<1>2. /\ epoch > 0 /\ epoch \in Nat /\ kernel \in Kernels /\ b \in Grid /\ 0 \in Grid /\ Grid \subseteq Blocks
      /\ \A c \in Grid : pc[c] \in Path(kernel, c)
  BY <1>1, Running
<1>3. /\ to \in Path(kernel, b) /\ to \in {"sum", "produce", "spin"} /\ (to = "sum" <=> kernel = "af")
      /\ to = "produce" <=> kernel # "af" /\ b = 0
  BY DEF Path
<1> HIDE DEF to
<1>4. /\ GridOK' /\ kernel' = kernel /\ epoch' = epoch /\ Grid' = Grid /\ nb' = nb
      /\ launched' = launched /\ pc' \in [Blocks -> Phases]
      /\ pc'[b] = to /\ \A c \in Blocks \ {b} : pc'[c] = pc[c]
      /\ \A P : (pc[b] \in P <=> to \in P) => Past(P)' = Past(P)
  BY <1>1, <1>3, Move
<1>5. TypeOK'
  BY <1>1, <1>4 DEF TypeOK
<1>6. CountersOK'
  BY <1>1, <1>2, <1>3, <1>4 DEF CountersOK, Before0, Before1, BeforeSignal, BeforeArrive
<1>7. BarrierHolds'
  BY <1>1, <1>2, <1>3, <1>4 DEF BarrierHolds, Before0, Before1
<1>8. WaitedOK'
  BY <1>1, <1>2, <1>3, <1>4 DEF WaitedOK, BeforeSignal, BeforeArrive
<1>9. ScratchOK'
  BY <1>1, <1>2, <1>3, <1>4 DEF ScratchOK, Before0, Before1, BeforeSignal
<1>10. ResidualOK'
  BY <1>1, <1>2, <1>3, <1>4, ResidualStays
<1>11. OutputsRight'
  BY <1>1, <1>2, <1>3, <1>4 DEF OutputsRight, Unsignalled
<1> QED
  BY <1>4, <1>5, <1>6, <1>7, <1>8, <1>9, <1>10, <1>11 DEF Inductive, KernelInv

\* The first m numbers.
LEMMA Interval ==
    ASSUME NEW m \in Nat, NEW b \in Nat, NEW G, G = 0..(m - 1)
    PROVE  (b \in G <=> b < m) /\ (m >= 1 => 0 \in G)
OBVIOUS

\* A launch finds all blocks out, resets its counters and queues its grid.
LEMMA LaunchStep ==
    ASSUME Inductive, NEW k \in Kernels, Launch(k)
    PROVE  Inductive'
<1>1. /\ TypeOK /\ GridOK /\ ResidualOK /\ \A b \in Blocks : pc[b] = "exited"
      /\ launched' = Append(launched, k) /\ nb' \in Grids(k)
      /\ cnt' = [cnt EXCEPT ![k] = [i \in 0..1 |-> 0]]
      /\ sumsq' = IF k = "af" THEN 0 ELSE sumsq
      /\ pc' = [b \in Blocks |-> IF b < nb' THEN "queued" ELSE "exited"]
      /\ writing' = (IF k = "af" THEN {} ELSE Threads) /\ stale' = {}
      /\ UNCHANGED <<mid, out, res>>
  BY DEF Inductive, KernelInv, Launch, Idle, Memset
<1>2. /\ epoch \in Nat /\ epoch' = epoch + 1 /\ kernel' = k /\ launched' \in Seq(Kernels)
      /\ DOMAIN launched = 1..epoch /\ DOMAIN launched' = 1..(epoch + 1)
      /\ launched'[epoch + 1] = k /\ \A n \in 1..epoch : launched'[n] = launched[n]
  BY <1>1, AppendProperties, LenProperties DEF TypeOK, epoch, kernel
<1>3. nb' \in Nat /\ nb' >= 1 /\ nb' \in 0..Cardinality(Blocks) /\ Grid' \subseteq Blocks /\ Blocks \subseteq Nat
  BY <1>1, GridBlocks, BlockNumbers DEF Grid
<1>4. (\A b \in Grid' : pc'[b] = "queued") /\ (\A b \in Blocks \ Grid' : pc'[b] = "exited") /\ 0 \in Grid'
  <2>1. Grid' = 0..(nb' - 1)
    BY DEF Grid
  <2>2. \A b \in Blocks : b \in Nat /\ (b \in Grid' <=> b < nb')
    <3> SUFFICES ASSUME NEW b \in Blocks PROVE b \in Nat /\ (b \in Grid' <=> b < nb')
      OBVIOUS
    <3>1. b \in Nat
      BY <1>3
    <3>2. nb' \in Nat
      BY <1>3
    <3> QED
      BY <2>1, <3>1, <3>2, Interval
  <2>3. 0 \in Grid'
    <3>1. nb' \in Nat /\ nb' >= 1
      BY <1>3
    <3> QED
      BY <2>1, <3>1, Interval
  <2> QED
    BY <1>1, <1>3, <2>2, <2>3
<1>5. GridOK'
  <2>1. \A b \in Grid' : pc'[b] \in Path(k, b)
    BY <1>4 DEF Path
  <2>2. epoch' # 0 /\ nb' \in Grids(k)
    BY <1>1, <1>2
  <2> QED
    BY <1>2, <1>4, <2>1, <2>2 DEF GridOK, Grids, Path
<1>6. TypeOK'
  <2>1. Cardinality(Blocks) \in Nat
    BY BlocksFinite, FS_CardinalityType
  <2>2. cnt' \in [Kernels -> [0..1 -> 0..Cardinality(Blocks)]] /\ sumsq' \in 0..Capacity
    BY <1>1, <2>1, MegaAssumption DEF TypeOK
  <2>3. pc' \in [Blocks -> Phases]
    BY <1>1 DEF Phases
  <2>4. 0..epoch \subseteq 0..epoch' /\ -1..epoch \subseteq -1..epoch'
    BY <1>2
  <2>5. mid' \in [Kernels -> [Parts -> 0..epoch']]
    BY <1>1, <2>4 DEF TypeOK
  <2>6. out' \in [Kernels -> [Blocks -> 0..epoch']]
    BY <1>1, <2>4 DEF TypeOK
  <2> QED
    BY <1>1, <1>2, <1>3, <2>2, <2>3, <2>4, <2>5, <2>6 DEF TypeOK
<1>7. CountersOK'
  <2>1. \A P : "queued" \in P => Past(P)' = {}
    BY <1>4 DEF Past
  <2>2. Cardinality({}) = 0
    BY FS_EmptySet
  <2>3. cnt'[k][0] = 0 /\ cnt'[k][1] = 0 /\ (k = "af" => sumsq' = 0) /\ pc'[0] = "queued"
    BY <1>1, <1>4 DEF TypeOK
  <2> QED
    BY <1>2, <2>1, <2>2, <2>3 DEF CountersOK, BeforeSignal, BeforeArrive, Before0, Before1
<1>8. BarrierHolds'
  BY <1>2, <1>4 DEF BarrierHolds, Before0, Before1
<1>9. WaitedOK'
  BY <1>2, <1>4 DEF WaitedOK, BeforeSignal
<1>10. ScratchOK'
  BY <1>1, <1>2, <1>4 DEF ScratchOK, Past, Before0, Before1, BeforeSignal
<1>11. ResidualOK'
  <2>1. pc[0] = "exited" /\ pc'[0] = "queued"
    BY <1>1, <1>4, BlockNumbers
  <2>2. Added = {n \in 1..epoch : launched[n] = "oproj"}
    BY <1>2, <2>1 DEF Added
  <2>3. Added' = {n \in 1..(epoch + 1) : launched'[n] = "oproj" /\ n < epoch + 1}
    BY <1>2, <2>1 DEF Added
  <2>4. Added' = Added
    BY <1>2, <2>2, <2>3
  <2> QED
    BY <1>1, <2>4 DEF ResidualOK
<1>12. OutputsRight'
  BY <1>1, <1>2, <1>4 DEF OutputsRight
<1> QED
  BY <1>5, <1>6, <1>7, <1>8, <1>9, <1>10, <1>11, <1>12 DEF Inductive, KernelInv

-----------------------------------------------------------------------------
LEMMA InductiveInit == Init => Inductive
<1> SUFFICES ASSUME Init
             PROVE  Inductive
  OBVIOUS
<1>1. launched = << >> /\ epoch = 0 /\ nb = 0 /\ Grid = {} /\ res = 0 /\ sumsq = 0
  BY DEF Init, epoch, Grid
<1>2. TypeOK
  <2>1. Cardinality(Blocks) \in Nat
    BY BlocksFinite, FS_CardinalityType
  <2>2. launched \in Seq(Kernels)
    BY <1>1, EmptySeq
  <2> QED
    BY <1>1, <2>1, <2>2, MegaAssumption DEF Init, TypeOK, Phases
<1>3. GridOK
  BY <1>1 DEF Init, GridOK
<1>4. CountersOK /\ BarrierHolds /\ WaitedOK /\ ScratchOK /\ OutputsRight
  BY <1>1 DEF CountersOK, BarrierHolds, WaitedOK, ScratchOK, OutputsRight
<1>5. ResidualOK
  <2>1. Added = {}
    BY <1>1 DEF Added
  <2> QED
    BY <1>1, <2>1, FS_EmptySet DEF ResidualOK
<1> QED
  BY <1>2, <1>3, <1>4, <1>5 DEF Inductive, KernelInv

LEMMA InductiveNext == Inductive /\ [Next]_vars => Inductive'
<1> SUFFICES ASSUME Inductive, [Next]_vars
             PROVE  Inductive'
  OBVIOUS
<1>1. ASSUME NEW k \in Kernels, Launch(k)
      PROVE  Inductive'
  BY <1>1, LaunchStep
<1>2. ASSUME NEW b \in Blocks, Dispatch(b)
      PROVE  Inductive'
  BY <1>2, DispatchStep
<1>3. ASSUME NEW b \in Blocks, Step(b)
      PROVE  Inductive'
  BY <1>3, ProduceStep, SignalStep, SpinStep, GemvStep, SumStep, NormStep, GridBarStep,
     ArriveStep, AwaitStep, ReduceStep DEF Step
<1>4. CASE UNCHANGED vars
  BY <1>4 DEF vars, Inductive, KernelInv, TypeOK, GridOK, Grids, Path, CountersOK, Past, BarrierHolds,
              WaitedOK, ScratchOK, ResidualOK, Added, OutputsRight, Unsignalled, kernel, epoch, Grid
<1> QED
  BY <1>1, <1>2, <1>3, <1>4 DEF Next

LEMMA InductiveHolds == Spec => []Inductive
<1> QED
  BY InductiveInit, InductiveNext, PTL DEF Spec

\* Counters, phases and scratch agree, and the blocks of a grid pass each of its barriers
\* together, for every capacity, grid and number of launches (megakernel.cu:67-73).
THEOREM KernelInvHolds == Spec => []KernelInv
<1>1. Inductive => KernelInv
  BY DEF Inductive
<1> QED
  BY <1>1, InductiveHolds, PTL

\* Every output slice is computed in this launch, from scratch that no launch before left,
\* but for the parts of the threads of block 0 that the signal does not speak for
\* (megakernel.cu:51-64, 90-97, 118-124).
THEOREM OutputsRightHolds == Spec => []OutputsRight
<1>1. Inductive => OutputsRight
  BY DEF Inductive
<1> QED
  BY <1>1, InductiveHolds, PTL

\* Between launches the residual has had one addition for each mega_oproj, made when all
\* slices of that launch were computed (megakernel.cu:125-135).
THEOREM ResidualOnceHolds == Spec => []ResidualOnce
<1>1. Inductive => ResidualOnce
  <2> SUFFICES ASSUME Inductive, Idle
               PROVE  res = Cardinality({n \in DOMAIN launched : launched[n] = "oproj"})
    BY DEF ResidualOnce
  <2>1. pc[0] = "exited"
    BY BlockNumbers DEF Idle
  <2> QED
    BY <2>1 DEF Inductive, KernelInv, ResidualOK, Added
<1> QED
  BY <1>1, InductiveHolds, PTL

=============================================================================
