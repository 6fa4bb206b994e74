---------------------------- MODULE MegaKernels ----------------------------
(***************************************************************************)
(* src/src/megakernel.cu: three fused kernels whose thread blocks          *)
(* synchronise through counters in global memory.                          *)
(*                                                                         *)
(*   "qkv"    mega_qkv: block 0 normalises, all blocks spin on its signal  *)
(*   "af"     mega_attn_front: all blocks reduce, normalise and project,   *)
(*            two grid barriers apart                                      *)
(*   "oproj"  mega_oproj: block 0 converts and signals, all blocks project *)
(*            and arrive, block 0 awaits them and adds the residual        *)
(*                                                                         *)
(* A block is one thread here, except block 0 while it produces the vector *)
(* of mega_qkv or mega_oproj: its threads write their parts and only       *)
(* thread 0 signals, with no __syncthreads() between.                      *)
(*                                                                         *)
(* A block only runs while resident: the GPU holds Capacity blocks, and a  *)
(* block leaves its slot when it exits, not while it spins. The scratch    *)
(* buffers and counters are static: every launch reuses them after a       *)
(* memset in the same stream.                                              *)
(***************************************************************************)
EXTENDS Integers, FiniteSets, Sequences

CONSTANTS
    NThreads,       \* blockDim.x
    Capacity,       \* blocks the GPU holds: maxb * multiProcessorCount
    QkvGrids,       \* (total_out + 7) / 8, the grids of mega_qkv: one per kind of layer
    OrderedGrids,   \* grids whose blocks become resident in the order of their indices
    MaxLaunches     \* bound on the launches of a run

Kernels == {"qkv", "af", "oproj"}
Blocks == UNION {0..(n - 1) : n \in QkvGrids \cup {Capacity}}
Threads == 0..(NThreads - 1)
Parts == Blocks \cup Threads

ASSUME MegaAssumption ==
    /\ NThreads \in Nat \ {0}
    /\ Capacity \in Nat \ {0} /\ QkvGrids \subseteq Nat \ {0} /\ IsFiniteSet(QkvGrids)
    /\ OrderedGrids \subseteq Nat /\ MaxLaunches \in Nat

VARIABLES
    launched,   \* the kernels launched so far; the last one may be running
    nb,         \* its grid: the number of its blocks
    pc,         \* where each block is: "queued", a phase of the kernel, "exited"
    cnt,        \* counter / bar[0..1] / cnt[0..1] of each kernel
    sumsq,      \* contributions added to mega_attn_front's sum of squares
    writing,    \* the threads of block 0 that still have their part of it to write
    mid,        \* hnorm16 / ao16 of each kernel by part: the launch it holds
    stale,      \* <<b, p>>: block b of this launch read part p of an earlier one
    out,        \* q,k,v / op of each kernel by slice: the launch that computed it
    res         \* residual additions made to hres, -1 once one was wrong

vars == <<launched, nb, pc, cnt, sumsq, writing, mid, stale, out, res>>
launch == <<launched, nb>>
data == <<sumsq, writing, mid, stale, out, res>>

kernel == launched[Len(launched)]
epoch == Len(launched)
Grid == 0..(nb - 1)
Idle == \A b \in Blocks : pc[b] = "exited"

Init ==
    /\ launched = << >> /\ nb = 0
    /\ pc = [b \in Blocks |-> "exited"]
    /\ cnt = [k \in Kernels |-> [i \in 0..1 |-> 0]]
    /\ sumsq = 0
    /\ writing = {} /\ stale = {}
    /\ mid = [k \in Kernels |-> [p \in Parts |-> 0]]
    /\ out = [k \in Kernels |-> [b \in Blocks |-> 0]]
    /\ res = 0

-----------------------------------------------------------------------------
\* mega_qkv takes a block for every 8 outputs, the others what the GPU can hold.
Grids(k) == IF k = "qkv" THEN QkvGrids ELSE {Capacity}

\* The host queues memset and kernel in one stream: they follow the kernel before.
NoMemset(k) == cnt[k]
Memset(k) == [i \in 0..1 |-> 0]
Launch(k) ==
    /\ Idle /\ Len(launched) < MaxLaunches
    /\ launched' = Append(launched, k) /\ nb' \in Grids(k)
    /\ cnt' = [cnt EXCEPT ![k] = Memset(k)]
    /\ sumsq' = IF k = "af" THEN 0 ELSE sumsq
    /\ pc' = [b \in Blocks |-> IF b < nb' THEN "queued" ELSE "exited"]
    /\ writing' = (IF k = "af" THEN {} ELSE Threads) /\ stale' = {}
    /\ UNCHANGED <<mid, out, res>>

\* The GPU gives a free slot to a queued block.
Dispatch(b) ==
    /\ pc[b] = "queued"
    /\ Cardinality({c \in Blocks : pc[c] \notin {"queued", "exited"}}) < Capacity
    /\ nb \in OrderedGrids => \A c \in Blocks : c < b => pc[c] # "queued"
    /\ pc' = [pc EXCEPT ![b] = IF kernel = "af" THEN "sum"
                               ELSE IF b = 0 THEN "produce" ELSE "spin"]
    /\ UNCHANGED <<launch, cnt, data>>

Goto(b, from, to) == pc[b] = from /\ pc' = [pc EXCEPT ![b] = to]
Add(i) == cnt' = [cnt EXCEPT ![kernel][i] = @ + 1]

\* The threads of block 0 write their parts of hnorm16 or ao16, each in its own time.
\* Thread 0 signals when it has written its own: nothing makes it wait for the others.
Produce(b) ==
    /\ b = 0 /\ pc[b] \notin {"queued", "exited"}
    /\ \E t \in writing :
          /\ writing' = writing \ {t}
          /\ mid' = [mid EXCEPT ![kernel][t] = epoch]
    /\ UNCHANGED <<launch, pc, cnt, sumsq, stale, out, res>>
Signal(b) ==
    /\ Goto(b, "produce", "spin")
    /\ 0 \notin writing
    /\ cnt' = [cnt EXCEPT ![kernel][0] = 1]
    /\ UNCHANGED <<launch, data>>
SignalledAlways == TRUE
Signalled == cnt[kernel][0] # 0

\* Thread 0 of a block spins, then the block's __syncthreads() joins its threads: block 0
\* has written all its parts when it goes on.
Spin(b) ==
    /\ Goto(b, "spin", "gemv")
    /\ Signalled /\ (b = 0 => writing = {})
    /\ UNCHANGED <<launch, cnt, data>>

\* A warp-per-output product of its slice with the whole vector, as it finds it: Due
\* are the parts that have to be of this launch. In mega_oproj the block then arrives,
\* elsewhere it is done.
Due == IF kernel = "af" THEN Grid ELSE Threads
Gemv(b) ==
    /\ Goto(b, "gemv", IF kernel = "oproj" THEN "arrive" ELSE "exited")
    /\ out' = [out EXCEPT ![kernel][b] = epoch]
    /\ stale' = stale \cup {<<b, p>> : p \in {q \in Due : mid[kernel][q] # epoch}}
    /\ UNCHANGED <<launch, cnt, sumsq, writing, mid, res>>

-----------------------------------------------------------------------------
\* mega_attn_front: add a partial sum, meet, normalise a slice, meet.
Sum(b) ==
    /\ Goto(b, "sum", "arrive0")
    /\ sumsq' = sumsq + 1
    /\ UNCHANGED <<launch, cnt, writing, mid, stale, out, res>>
Norm(b) ==
    /\ Goto(b, "norm", "arrive1")
    /\ mid' = [mid EXCEPT !["af"][b] = IF sumsq = nb THEN epoch ELSE 0]
    /\ UNCHANGED <<launch, cnt, sumsq, writing, stale, out, res>>

\* grid_bar: add one to the barrier's counter, spin until all nb have.
AllButOneArrived(i) == cnt[kernel][i] >= nb - 1
MoreThanAllArrived(i) == cnt[kernel][i] > nb
AllArrived(i) == cnt[kernel][i] >= nb
GridBar(b) ==
    /\ \/ Goto(b, "arrive0", "spin0") /\ Add(0)
       \/ Goto(b, "spin0", "norm") /\ AllArrived(0) /\ UNCHANGED cnt
       \/ Goto(b, "arrive1", "spin1") /\ Add(1)
       \/ Goto(b, "spin1", "gemv") /\ AllArrived(1) /\ UNCHANGED cnt
    /\ UNCHANGED <<launch, data>>

\* mega_oproj: every block arrives, block 0 stays to reduce op and add it.
Arrive(b) ==
    /\ Goto(b, "arrive", IF b = 0 THEN "await" ELSE "exited")
    /\ Add(1)
    /\ UNCHANGED <<launch, data>>
Await(b) ==
    /\ Goto(b, "await", "reduce")
    /\ AllArrived(1)
    /\ UNCHANGED <<launch, cnt, data>>
Reduce(b) ==
    /\ Goto(b, "reduce", "exited")
    /\ res' = IF res >= 0 /\ \A c \in Grid : out["oproj"][c] = epoch THEN res + 1 ELSE -1
    /\ UNCHANGED <<launch, cnt, sumsq, writing, mid, stale, out>>

-----------------------------------------------------------------------------
Step(b) ==
    \/ Produce(b) \/ Signal(b) \/ Spin(b) \/ Gemv(b)
    \/ Sum(b) \/ Norm(b) \/ GridBar(b)
    \/ Arrive(b) \/ Await(b) \/ Reduce(b)

Next ==
    \/ \E k \in Kernels : Launch(k)
    \/ \E b \in Blocks : Dispatch(b) \/ Step(b)

Spec == Init /\ [][Next]_vars

\* A resident block runs on, and a free slot does not stay free while a block
\* waits for one. Which block gets it the GPU decides.
FairSpec ==
    /\ Spec
    /\ WF_vars(\E b \in Blocks : Dispatch(b))
    /\ \A b \in Blocks : WF_vars(Step(b))

-----------------------------------------------------------------------------
Phases == {"queued", "produce", "spin", "gemv", "sum", "arrive0", "spin0", "norm",
           "arrive1", "spin1", "arrive", "await", "reduce", "exited"}

\* Types; a counter never passes the number of blocks.
TypeOK ==
    /\ launched \in Seq(Kernels) /\ nb \in 0..Cardinality(Blocks)
    /\ pc \in [Blocks -> Phases]
    /\ cnt \in [Kernels -> [0..1 -> 0..Cardinality(Blocks)]]
    /\ sumsq \in 0..Capacity
    /\ writing \subseteq Threads /\ stale \subseteq Blocks \X Parts
    /\ mid \in [Kernels -> [Parts -> 0..epoch]]
    /\ out \in [Kernels -> [Blocks -> 0..epoch]]
    /\ res \in -1..epoch

\* Every output slice is computed in this launch, and no block reads scratch that a
\* previous launch left, but for one gap: in mega_qkv and mega_oproj the signal is thread
\* 0's alone, so the other blocks may be ahead of the other threads of block 0
\* (megakernel.cu:51-64, 90-97, 118-124).
Unsignalled == IF kernel = "af" THEN {} ELSE (Grid \ {0}) \X (Threads \ {0})
OutputsRight ==
    epoch > 0 =>
        /\ stale \subseteq Unsignalled
        /\ \A b \in Grid :
              pc[b] \in {"arrive", "await", "reduce", "exited"} => out[kernel][b] = epoch

\* What the comments promise, "RMSNorm h -> hnorm16, signal counter. All blocks spin, then
\* Phase B: GEMV" (megakernel.cu:37): it does not hold, see Unsignalled.
NoStaleRead == stale = {}

\* No block is past a grid barrier while another is before it (megakernel.cu:67).
Before0 == {"queued", "sum", "arrive0"}
Before1 == Before0 \cup {"spin0", "norm", "arrive1"}
BarrierHolds ==
    \A b, c \in Blocks :
        epoch > 0 /\ kernel = "af" /\ b \in Grid /\ c \in Grid =>
            /\ pc[b] \notin Before0 \cup {"spin0"} => pc[c] \notin Before0
            /\ pc[b] \notin Before1 \cup {"spin1"} => pc[c] \notin Before1

\* Each mega_oproj adds to the residual exactly once, and only when all slices of its own
\* projection have been computed (megakernel.cu:125-135).
ResidualOnce ==
    Idle => res = Cardinality({n \in DOMAIN launched : launched[n] = "oproj"})

\* Every launch ends: no deadlock (megakernel.cu:55, 67, 113).
EveryLaunchEnds == \A n \in 1..MaxLaunches : (epoch = n) ~> (epoch = n /\ Idle)

-----------------------------------------------------------------------------
\* The phases block b of kernel k goes through.
Path(k, b) ==
    {"queued", "gemv", "exited"}
      \cup (IF k = "af" THEN {"sum", "arrive0", "spin0", "norm", "arrive1", "spin1"} ELSE {"spin"})
      \cup (IF k = "oproj" THEN {"arrive"} ELSE {})
      \cup (IF k # "af" /\ b = 0 THEN {"produce"} ELSE {})
      \cup (IF k = "oproj" /\ b = 0 THEN {"await", "reduce"} ELSE {})
GridOK ==
    /\ \A b \in Blocks \ Grid : pc[b] = "exited"
    /\ IF epoch = 0 THEN nb = 0
       ELSE nb \in Grids(kernel) /\ \A b \in Grid : pc[b] \in Path(kernel, b)

\* A counter is the number of blocks past the point where it is incremented; the
\* signal is one bit.
Past(before) == {b \in Grid : pc[b] \notin before}
BeforeSignal == {"queued", "produce"}
BeforeArrive == BeforeSignal \cup {"spin", "gemv", "arrive"}
CountersOK ==
    epoch > 0 =>
        /\ kernel = "af" =>
            /\ sumsq = Cardinality(Past({"queued", "sum"}))
            /\ cnt["af"][0] = Cardinality(Past(Before0))
            /\ cnt["af"][1] = Cardinality(Past(Before1))
        /\ kernel # "af" => cnt[kernel][0] = IF pc[0] \in BeforeSignal THEN 0 ELSE 1
        /\ kernel = "oproj" => cnt["oproj"][1] = Cardinality(Past(BeforeArrive))

\* What a block that stopped spinning has waited for.
WaitedOK ==
    epoch > 0 /\ kernel # "af" =>
        /\ \A b \in Grid : pc[b] \notin BeforeSignal \cup {"spin"} => pc[0] \notin BeforeSignal
        /\ kernel = "oproj" /\ pc[0] \in {"reduce", "exited"} => Past(BeforeArrive) = Grid

\* The scratch that is ready is of this launch: what a thread of block 0 is through with,
\* thread 0's part at the signal, all parts where block 0's threads have met again.
ScratchOK ==
    epoch > 0 =>
        /\ kernel = "af" =>
             writing = {} /\ \A b \in Past(Before1 \ {"arrive1"}) : mid["af"][b] = epoch
        /\ kernel # "af" =>
             /\ \A t \in Threads \ writing : mid[kernel][t] = epoch
             /\ pc[0] \notin BeforeSignal => 0 \notin writing
             /\ pc[0] \notin BeforeSignal \cup {"spin"} => writing = {}

\* The residual counts the mega_oproj launches whose block 0 has ended.
Added == {n \in DOMAIN launched : launched[n] = "oproj" /\ (n < epoch \/ pc[0] = "exited")}
ResidualOK == res = Cardinality(Added)

\* Counters and phases have their types and agree, the blocks of a grid pass each of its
\* barriers together, and what they read beyond one was written in this launch
\* (megakernel.cu:44-57, 67-73, 117-128).
KernelInv ==
    /\ TypeOK /\ GridOK /\ CountersOK /\ BarrierHolds
    /\ WaitedOK /\ ScratchOK /\ ResidualOK

=============================================================================
