---------------------------- MODULE ForwardDriver ----------------------------
(***************************************************************************)
(* src/src/forward.cu main(): two passes of a prompt through all layers    *)
(* over a WeightStore that nearly fills the memory, then the draft head.   *)
(* A layer's weights that the kernels need as fp32 are dequantised into    *)
(* buffers that live for that layer only; its expert weights are repacked  *)
(* in place in the store, once. A buffer freed is an address to reuse. A   *)
(* call of the kernels takes buffers of its own and gives back all but     *)
(* some: moe_forward keeps allslot_d, and OEbts of grouped experts.        *)
(*                                                                         *)
(* A hidden state is the number of layers it went through with the right   *)
(* weights, or Junk.                                                       *)
(***************************************************************************)
EXTENDS WeightStore, SequencesExt

CONSTANTS
    NLayers,        \* N_LAYERS
    Deq, Experts,   \* [Layers -> sets of internal names]: dequantised, repacked
    HeadDeq,        \* head.weight, norm.weight
    DraftDeq, DraftExperts,     \* those of mtp.0; head.weight is dequantised again
    TapLayers,      \* layers whose output the draft head is trained on (40..42)
    Addr,           \* addresses of the Loader's buffers
    Mems,           \* how many buffers the store may leave memory for
    Scratch,        \* buffers a call needs: [{"block", "head", "draft"} -> Nat]
    Leaks,          \* of them, those moe_forward never frees
    Junk

Layers == 0..(NLayers - 1)

ASSUME ForwardAssumption ==
    /\ NLayers \in Nat \ {0} /\ Junk \notin 0..NLayers
    /\ TapLayers \subseteq Layers
    /\ IsFiniteSet(Addr) /\ IsFiniteSet(HeadDeq) /\ IsFiniteSet(DraftDeq)
    \* A layer's names are its own; head.weight and norm.weight are of none.
    /\ \A l \in Layers : IsFiniteSet(Deq[l]) /\ Deq[l] \cap HeadDeq = {}
    /\ Mems \subseteq Nat /\ Scratch \in [{"block", "head", "draft"} -> Nat] /\ Leaks \in Nat
    \* Addresses for one layer, or the draft model, besides the head.
    /\ \A l \in Layers : Cardinality(Deq[l]) + Cardinality(HeadDeq) <= Cardinality(Addr)
    /\ Cardinality(DraftDeq) + Cardinality(HeadDeq) <= Cardinality(Addr)

VARIABLES
    step,       \* "load", "reset", "build", "block", "after", "head", "fill", "draft", "done", "failed"
    pass, lyr,
    heap,       \* live buffers: address -> internal name dequantised into it
    allocs, mk, \* the Loader's stack of buffers and the layer's mark
    built,      \* pointers filled in for the block: internal name -> address
    mem,        \* buffers there is memory for
    leaked,     \* those no pointer is left to
    wild,       \* a kernel ran on a pointer that cudaMalloc did not set
    done,       \* g_pp_done: addresses repacked
    packs,      \* repacks of the bytes at an address of the store, 2 for more
    buf2, h,    \* the two hidden buffers and which one is h
    taps,       \* main_hidden
    logits,     \* of the passes
    drafted     \* what the draft head computed from, "none" before

memory == <<heap, allocs, mk, built>>
room == <<mem, leaked, wild>>
experts == <<done, packs>>
hidden == <<buf2, h, taps, logits, drafted>>
vars == <<store, step, pass, lyr, memory, room, experts, hidden>>

Init ==
    /\ InitStore
    /\ step = "load" /\ pass = 0 /\ lyr = 0
    /\ heap = << >> /\ allocs = << >> /\ mk = 0 /\ built = << >>
    /\ mem \in Mems /\ leaked = 0 /\ wild = FALSE
    /\ done = {} /\ packs = << >>
    /\ buf2 = <<Junk, Junk>> /\ h = 1
    /\ taps = [l \in TapLayers |-> Junk] /\ logits = << >> /\ drafted = "none"

-----------------------------------------------------------------------------
Served(names) == names \subseteq DOMAIN dev
Free == Addr \ DOMAIN heap
Loc(k) == <<dev[k].file, dev[k].off>>

\* m with the values of f.
Overwrite(m, f) == [i \in DOMAIN f \cup DOMAIN m |-> IF i \in DOMAIN f THEN f[i] ELSE m[i]]

\* Dequantise the named weights into new buffers; f is where the allocator puts
\* them.
Allocate(names, f) ==
    /\ f \in [names -> Free] /\ \A a, b \in names : f[a] = f[b] => a = b
    /\ heap' = Overwrite(heap, [a \in {f[k] : k \in names} |-> CHOOSE k \in names : f[k] = a])
    /\ allocs' = allocs \o SetToSeq({f[k] : k \in names})

\* A weight that is not served throws and a failed cudaMalloc of the Loader exits.
Room == mem - Cardinality(DOMAIN heap) - leaked
Fails(needed, n) == ~Served(needed) \/ Room < n
Stop == step' = "failed" /\ UNCHANGED <<store, pass, lyr, memory, room, experts, hidden>>

\* Free the buffers above the mark.
ReleaseNone(m) == heap' = heap /\ allocs' = SubSeq(allocs, 1, m)
Release(m) ==
    /\ heap' = [a \in DOMAIN heap \ {allocs[i] : i \in (m + 1)..Len(allocs)} |-> heap[a]]
    /\ allocs' = SubSeq(allocs, 1, m)

Live(names) == \A k \in names : built[k] \in DOMAIN heap /\ heap[built[k]] = k

\* The first use of an expert weight repacks it, keyed by its address.
RepackAlways(names) == names
RepackDue(names) == {k \in names : Loc(k) \notin done}
Repack(names) ==
    LET due == {Loc(k) : k \in RepackDue(names)}
        count(a) == IF a \in DOMAIN packs THEN packs[a] ELSE 0
    IN  /\ done' = done \cup due
        /\ packs' = Overwrite(packs, [a \in due |-> IF count(a) = 0 THEN 1 ELSE 2])
Packed(names) == \A k \in names : packs'[Loc(k)] = 1

\* The buffers of a call of the kernels, lost of them for good. Where memory is
\* short it ends the run, or goes on: dmalloc hands on the pointer that cudaMalloc
\* did not set, and no result is known after that.
Call(kind, lost) ==
    /\ \/ Room >= Scratch[kind] /\ leaked' = leaked + lost /\ wild' = wild
       \/ /\ Room < Scratch[kind] /\ wild' = TRUE
          /\ \E n \in 0..lost : n <= Room /\ leaked' = leaked + n
    /\ mem' = mem
Short(kind) == Room < Scratch[kind] /\ Stop
Result(right, wrong) == IF wild' THEN {right, wrong} ELSE {right}

\* What a block computes from its input, and the draft head from the last hidden
\* state.
BlockOut == IF buf2[h] = lyr /\ Live(Deq[lyr]) /\ Packed(Experts[lyr]) THEN lyr + 1 ELSE Junk
DraftOut == IF buf2[h] = NLayers /\ Live(DraftDeq) /\ Packed(DraftExperts) THEN "right" ELSE "wrong"

-----------------------------------------------------------------------------
\* The store is loaded, or main() ends; the head weights stay for both passes.
LoadHead ==
    /\ step = "load" /\ load \in {"ready", "failed"}
    /\ \/ /\ load = "failed" \/ Fails(HeadDeq, Cardinality(HeadDeq))
          /\ Stop
       \/ /\ load = "ready" /\ ~Fails(HeadDeq, Cardinality(HeadDeq))
          /\ \E f \in [HeadDeq -> Free] : Allocate(HeadDeq, f) /\ built' = f
          /\ step' = "reset"
          /\ UNCHANGED <<store, pass, lyr, mk, room, experts, hidden>>

\* A pass starts from the embeddings again.
Reset ==
    /\ step = "reset"
    /\ buf2' = [buf2 EXCEPT ![h] = 0]
    /\ lyr' = 0 /\ step' = "build"
    /\ UNCHANGED <<store, pass, memory, room, experts, h, taps, logits, drafted>>

\* Mark, then fill in the layer's weights.
BuildLayer ==
    LET needed == Deq[lyr] \cup Experts[lyr] IN
    /\ step = "build" /\ lyr < NLayers
    /\ \/ Fails(needed, Cardinality(Deq[lyr])) /\ Stop
       \/ /\ ~Fails(needed, Cardinality(Deq[lyr]))
          /\ mk' = Len(allocs)
          /\ \E f \in [Deq[lyr] -> Free] : Allocate(Deq[lyr], f) /\ built' = Overwrite(built, f)
          /\ step' = "block"
          /\ UNCHANGED <<store, pass, lyr, room, experts, hidden>>

\* The block reads h into h2; they swap.
RunBlock ==
    /\ step = "block"
    /\ \/ Short("block")
       \/ /\ Call("block", Leaks)
          /\ Repack(Experts[lyr])
          /\ \E out \in Result(BlockOut, Junk) : buf2' = [buf2 EXCEPT ![3 - h] = out]
          /\ h' = 3 - h
          /\ step' = "after"
          /\ UNCHANGED <<store, pass, lyr, memory, taps, logits, drafted>>

\* Tap the output and free the layer's buffers. tc_moe_clear_cache() finds nothing:
\* experts repacked in place are not in its cache.
LayerEnd ==
    /\ step = "after"
    /\ taps' = IF lyr \in TapLayers THEN [taps EXCEPT ![lyr] = buf2[h]] ELSE taps
    /\ Release(mk)
    /\ lyr' = lyr + 1
    /\ step' = IF lyr + 1 < NLayers THEN "build" ELSE "head"
    /\ UNCHANGED <<store, pass, mk, built, room, experts, buf2, h, logits, drafted>>

\* The logits; after the warm-up pass, the pass that is timed.
PassHead ==
    /\ step = "head"
    /\ \/ Short("head")
       \/ /\ Call("head", 0)
          /\ \E out \in Result(IF Live(HeadDeq) THEN buf2[h] ELSE Junk, Junk) : logits' = Append(logits, out)
          /\ pass' = pass + 1
          /\ step' = IF pass = 0 THEN "reset" ELSE "fill"
          /\ UNCHANGED <<store, lyr, memory, experts, buf2, h, taps, drafted>>

\* The draft head's weights.
FillDraft ==
    LET needed == DraftDeq \cup DraftExperts IN
    /\ step = "fill"
    /\ \/ Fails(needed, Cardinality(DraftDeq)) /\ Stop
       \/ /\ ~Fails(needed, Cardinality(DraftDeq))
          /\ \E f \in [DraftDeq -> Free] : Allocate(DraftDeq, f) /\ built' = Overwrite(built, f)
          /\ step' = "draft"
          /\ UNCHANGED <<store, pass, lyr, mk, room, experts, hidden>>

\* The draft head runs on the last hidden state; main() returns and the Loader
\* frees what it holds.
DraftForward ==
    /\ step = "draft"
    /\ \/ Short("draft")
       \/ /\ Call("draft", Leaks)
          /\ Repack(DraftExperts)
          /\ drafted' \in Result(DraftOut, "wrong")
          /\ Release(0)
          /\ step' = "done"
          /\ UNCHANGED <<store, pass, lyr, mk, built, buf2, h, taps, logits>>

-----------------------------------------------------------------------------
Driver == LoadHead \/ Reset \/ BuildLayer \/ RunBlock \/ LayerEnd \/ PassHead \/ FillDraft \/ DraftForward
Loading == NextStore /\ UNCHANGED <<step, pass, lyr, memory, room, experts, hidden>>
Next == Loading \/ Driver

Spec == Init /\ [][Next]_vars

-----------------------------------------------------------------------------
\* Types, and the Loader's stack lists exactly the live buffers, each once.
TypeOK ==
    /\ step \in {"load", "reset", "build", "block", "after", "head", "fill", "draft", "done", "failed"}
    /\ pass \in 0..2 /\ lyr \in 0..NLayers /\ mk \in 0..Cardinality(Addr)
    /\ allocs \in Seq(Addr) /\ DOMAIN heap = {allocs[i] : i \in 1..Len(allocs)}
    /\ \A i, j \in 1..Len(allocs) : allocs[i] = allocs[j] => i = j
    /\ mem \in Nat /\ leaked \in Nat /\ wild \in BOOLEAN
    /\ h \in {1, 2} /\ DOMAIN buf2 = {1, 2} /\ \A i \in {1, 2} : buf2[i] \in 0..NLayers \cup {Junk}
    /\ DOMAIN taps = TapLayers /\ logits \in Seq(0..NLayers \cup {Junk})

\* Unless memory ran out under a kernel, warm-up and steady-state pass compute the
\* same: every block finds its own weights live and its experts repacked exactly
\* once, the taps are those of their layers, and so is what the draft head starts
\* from (forward.cu:144-188, tc_moe_gemm.cu:191-192).
ForwardRight ==
    ~wild =>
        /\ \A i \in 1..Len(logits) : logits[i] = NLayers
        /\ step \in {"fill", "draft", "done"} => \A l \in TapLayers : taps[l] = l + 1
        /\ drafted # "wrong"

\* Memory for the head, then for one layer, the head's kernels or the draft model, and
\* for what the blocks of both passes leak.
Bottom == Cardinality(HeadDeq)
Enough ==
    LET most == {Cardinality(Deq[l]) + Scratch["block"] : l \in Layers}
                  \cup {Scratch["head"], Cardinality(DraftDeq) + Scratch["draft"]}
    IN  \A n \in most : Bottom + n + 2 * NLayers * Leaks <= mem

\* With that much, only a weight that is not served ends a run early and no kernel gets
\* a pointer cudaMalloc did not set (forward.cu:58-63, 138-188, dscratch.h:14-20).
MemoryEnough ==
    Enough =>
        /\ ~wild
        /\ step = "failed" =>
             load = "failed" \/ ~Served(HeadDeq \cup DraftDeq \cup DraftExperts
                                          \cup UNION {Deq[l] \cup Experts[l] : l \in Layers})

\* What is lost is lost by the blocks that ran, Leaks by each at most (moe.cu:221,
\* 250, 285-291).
BlocksRun ==
    pass * NLayers + CASE step \in {"build", "block", "head"} -> lyr
                       [] step = "after" -> lyr + 1
                       [] step = "done" -> 1
                       [] OTHER -> 0
LeaksOK == step # "failed" => leaked <= Leaks * BlocksRun

\* The head's buffers lie below the layer's on the Loader's stack, and the buffers of
\* what runs next are live.
HeapOK ==
    /\ IF step = "load" THEN allocs = << >> ELSE load \in {"ready", "failed"}
    /\ step \in {"reset", "build", "block", "after", "head", "fill", "draft"} => load = "ready"
    /\ step \in {"reset", "build", "block", "after", "head", "fill"} =>
        /\ Len(allocs) >= Bottom /\ HeadDeq \subseteq DOMAIN built
        /\ \A k \in HeadDeq : \E i \in 1..Bottom : built[k] = allocs[i] /\ heap[allocs[i]] = k
    /\ step \in {"reset", "build", "head", "fill"} => Len(allocs) = Bottom
    /\ step \in {"block", "after"} => mk = Bottom /\ lyr < NLayers
    /\ step = "block" => Len(allocs) = Bottom + Cardinality(Deq[lyr]) /\ Live(Deq[lyr])
    /\ step = "draft" => Len(allocs) = Bottom + Cardinality(DraftDeq) /\ Live(DraftDeq)

\* A weight repacked is repacked once.
PacksOK == DOMAIN packs = done /\ \A a \in done : packs[a] = 1

\* The hidden state has been through the layers of the pass, and so have the taps.
HiddenOK ==
    /\ step \in {"build", "block"} => lyr < NLayers
    /\ step = "head" => lyr = NLayers
    /\ step \in {"load", "reset", "build", "block", "after", "head"} => pass <= 1
    /\ step \in {"fill", "draft", "done"} => pass = 2 /\ lyr = NLayers
    /\ step = "load" => pass = 0
    /\ ~wild =>
        /\ step \in {"build", "block"} => buf2[h] = lyr
        /\ step = "after" => buf2[h] = lyr + 1
        /\ step \in {"head", "fill", "draft", "done"} => buf2[h] = NLayers
        /\ \A l \in TapLayers : l < lyr => taps[l] = l + 1
        /\ \A i \in 1..Len(logits) : logits[i] = NLayers
        /\ drafted \in {"none", "right"}

\* A loaded store holds its tensors, the Loader's stack is the live buffers, memory for
\* one layer or the draft model and for the leaks is enough, and what runs next finds
\* its weights and its input (weight_store.h:22-53, forward.cu:58-70, 139-188).
ForwardInv == TypeOK /\ StoreOK /\ HeapOK /\ PacksOK /\ HiddenOK /\ LeaksOK /\ MemoryEnough

\* forward.cu:139-140 says that no pass allocates for good. False of grouped experts, of
\* which every block leaks two buffers: checked as an INVARIANT it fails after a pass.
NoPassAllocations == step = "reset" => leaked = 0

=============================================================================
