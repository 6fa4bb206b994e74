----------------------------- MODULE MoeForward -----------------------------
(***************************************************************************)
(* moe_forward of src/kernels/moe.cu for one layer: assignments (token,    *)
(* slot) are grouped by expert, every expert's weights are applied to its  *)
(* group, the results are combined per token, the shared expert is added.  *)
(*                                                                         *)
(* Floating-point addition does not associate, so a token's output is the  *)
(* sequence of the contributions added to it. A contribution is named by   *)
(* its assignment t*NAct + s, Junk when it was computed from a wrong row   *)
(* or weight. Kernels of a stream run one after the other, the threads of  *)
(* one kernel in any order.                                                *)
(*                                                                         *)
(* A mode is a way to call it. group: "token" (one token at a time),       *)
(* "host" or "device" (one GEMM per expert), "grouped" (one GEMM for all). *)
(* gemm: "fp4" (the oracle), "tc" (a repacked copy), "pp" and "mma"        *)
(* (repacked in place), "gemv" (the original layout).                      *)
(***************************************************************************)
EXTENDS Integers, FiniteSets, Sequences

CONSTANTS
    NTok, NAct, NExperts,   \* bs, n_act, n_routed
    TileRows,       \* 16, the rows of one mma tile
    Modes,          \* the modes used
    Junk, Shared,
    MaxCalls        \* bound on the calls

NRows == NTok * NAct        \* maxm
Rows == 0..(NRows - 1)
Toks == 0..(NTok - 1)
Experts == 0..(NExperts - 1)

InPlace == {"pp", "mma"}
ASSUME MoeAssumption ==
    /\ {NTok, NAct, NExperts, TileRows} \subseteq Nat \ {0} /\ MaxCalls \in Nat
    /\ {Junk, Shared} \cap Rows = {} /\ Junk # Shared
    /\ \A m \in Modes : /\ m.group = "grouped" <=> m.gemm \in {"mma", "gemv"}
                        /\ m.group \in {"token", "host", "device", "grouped"}
                        /\ m.gemm \in {"fp4", "tc", "pp", "mma", "gemv"}

VARIABLES
    calls,          \* calls made
    mode,           \* of the call in progress
    stage,          \* what the stream does next
    idx,            \* the expert of each assignment
    counts, off, cursor,    \* the counting sort
    slot,           \* the row each thread of k_moe_scatter has claimed
    grp,            \* alltok, allslot, allwt: the assignment of each row
    tiles,          \* tile_e, tile_row0, ntiles
    expert, added,  \* the expert a loop has come to, the rows added for it
    oeb, ts,        \* OEb by row, OEbts by assignment
    out,            \* contributions added to each token
    layout,         \* each expert's weights: "raw", "packed" or "garbled"
    ppdone, copy    \* g_pp_done, g_tc_cache

weights == <<layout, ppdone, copy>>
sorting == <<counts, off, cursor, slot, grp>>
results == <<tiles, expert, added, oeb, ts>>
vars == <<calls, mode, stage, idx, sorting, results, out, weights>>

\* What dmalloc returns is not initialised: Junk.
Zeros == [e \in Experts |-> 0]
NoOff == [e \in 0..NExperts |-> 0]
Unset == [i \in Rows |-> Junk]
NoOut == [t \in Toks |-> << >>]

Init ==
    /\ calls = 0 /\ stage = "idle" /\ mode \in Modes
    /\ idx = [i \in Rows |-> 0] /\ out = NoOut
    /\ counts = Zeros /\ off = NoOff /\ cursor = Zeros
    /\ slot = Unset /\ grp = Unset /\ oeb = Unset /\ ts = Unset
    /\ tiles = << >> /\ expert = 0 /\ added = {}
    /\ layout = [e \in Experts |-> "raw"]
    /\ ppdone = {} /\ copy = [e \in Experts |-> "none"]

-----------------------------------------------------------------------------
\* The modes used on the same weights as mode m: nobody mixes modes that repack in
\* place with modes that read the original layout.
Compatible(m) == {n \in Modes : n.gemm \in InPlace <=> m.gemm \in InPlace}

\* What the router may pick: distinct experts for a token, or, by the hash table,
\* one expert twice.
Routings == [Rows -> Experts]

\* Zero the output and route.
Call ==
    /\ stage = "idle" /\ calls < MaxCalls
    /\ calls' = calls + 1
    /\ mode' \in Compatible(mode)
    /\ idx' \in Routings
    /\ stage' = IF mode'.group \in {"token", "host"} THEN mode'.group ELSE "count"
    /\ UNCHANGED <<sorting, results, out, weights>>

\* A loop over the experts goes on at stage again, and after the last one at stage next.
Loop(again, next) ==
    /\ expert' = IF expert + 1 < NExperts THEN expert + 1 ELSE 0
    /\ stage' = IF expert + 1 < NExperts THEN again ELSE next

\* k_moe_count, k_moe_prefix.
Assigned(e) == {i \in Rows : idx[i] = e}
Count ==
    /\ stage = "count" /\ stage' = "prefix"
    /\ counts' = [e \in Experts |-> Cardinality(Assigned(e))]
    /\ UNCHANGED <<calls, mode, idx, off, cursor, slot, grp, results, out, weights>>

ScanAlone(e) == counts[e]
Scan(e) == off[e] + counts[e]
PrefixSum ==
    /\ stage = "prefix" /\ Loop("prefix", "scatter")
    /\ off' = [off EXCEPT ![expert + 1] = Scan(expert)]
    /\ UNCHANGED <<calls, mode, idx, counts, cursor, slot, grp, tiles, added, oeb, ts, out, weights>>

\* k_moe_scatter: a thread takes a row with an atomicAdd, then fills it.
Claim(i) ==
    /\ stage = "scatter" /\ slot[i] = Junk
    /\ slot' = [slot EXCEPT ![i] = off[idx[i]] + cursor[idx[i]]]
    /\ cursor' = [cursor EXCEPT ![idx[i]] = @ + 1]
    /\ UNCHANGED <<calls, mode, stage, idx, counts, off, grp, results, out, weights>>
Fill(i) ==
    /\ stage = "scatter" /\ slot[i] \in Rows /\ grp[slot[i]] # i
    /\ grp' = [grp EXCEPT ![slot[i]] = i]
    /\ UNCHANGED <<calls, mode, stage, idx, counts, off, cursor, slot, results, out, weights>>
Scattered ==
    /\ stage = "scatter"
    /\ \A i \in Rows : slot[i] # Junk /\ (slot[i] \in Rows => grp[slot[i]] # Junk)
    /\ stage' = IF mode.group = "grouped" THEN "tiles" ELSE "experts"
    /\ UNCHANGED <<calls, mode, idx, sorting, results, out, weights>>

\* The host's grouping: the same groups, each in the order of its assignments.
HostRow(i) == off[idx[i]] + Cardinality({j \in Assigned(idx[i]) : j < i})
HostGroup ==
    /\ stage = "host" /\ Loop("host", "experts")
    /\ counts' = [counts EXCEPT ![expert] = Cardinality(Assigned(expert))]
    /\ off' = [off EXCEPT ![expert + 1] = off[expert] + Cardinality(Assigned(expert))]
    /\ grp' = [r \in Rows |-> IF \E i \in Assigned(expert) : HostRow(i) = r
                              THEN CHOOSE i \in Assigned(expert) : HostRow(i) = r ELSE grp[r]]
    /\ UNCHANGED <<calls, mode, idx, cursor, slot, tiles, added, oeb, ts, out, weights>>

-----------------------------------------------------------------------------
\* Repacking permutes the bytes: done twice it leaves neither layout.
Repack(l) == IF l = "raw" THEN "packed" ELSE "garbled"

\* Before its GEMM a weight is repacked in place, or copied repacked, once.
DueAlways(S) == S
Due(S) == S \ ppdone
Prepare(S) ==
    /\ layout' = [e \in Experts |->
                    IF mode.gemm \in InPlace /\ e \in Due(S) THEN Repack(layout[e]) ELSE layout[e]]
    /\ ppdone' = IF mode.gemm \in InPlace THEN ppdone \cup S ELSE ppdone
    /\ copy' = [e \in Experts |->
                  IF mode.gemm = "tc" /\ e \in S /\ copy[e] = "none" THEN Repack(layout[e]) ELSE copy[e]]

\* The layout the GEMM reads is the one it expects.
Readable(e) ==
    CASE mode.gemm \in {"fp4", "gemv"} -> layout'[e] = "raw"
      [] mode.gemm = "tc" -> copy'[e] = "packed"
      [] OTHER -> layout'[e] = "packed"

\* Expert e applied to assignment i.
Contribution(e, i) == IF i \in Rows /\ idx[i] = e /\ Readable(e) THEN i ELSE Junk

\* Not batched: one token after the other, one slot after the other.
TokenLoop ==
    /\ stage = "token" /\ stage' = "shared"
    /\ Prepare({idx[i] : i \in Rows})
    /\ out' = [t \in Toks |-> [s \in 1..NAct |->
                 Contribution(idx[t * NAct + s - 1], t * NAct + s - 1)]]
    /\ UNCHANGED <<calls, mode, idx, sorting, results>>

\* The group of an expert as its rows. A tc or pp GEMM fills the rows of one tile.
GroupRows(e) == off[e]..(off[e + 1] - 1)
GemmRows == IF mode.gemm \in {"tc", "pp"} THEN TileRows ELSE NRows
ExpertGemm ==
    /\ stage = "experts"
    /\ Prepare(IF GroupRows(expert) = {} THEN {} ELSE {expert})
    /\ oeb' = [r \in Rows |-> IF r \in GroupRows(expert) /\ r - off[expert] < GemmRows
                              THEN Contribution(expert, grp[r]) ELSE Junk]
    /\ stage' = "add" /\ added' = {}
    /\ UNCHANGED <<calls, mode, idx, sorting, tiles, expert, ts, out>>

\* k_scatter_add: the rows of a group are added by atomicAdd, in any order.
AddRow(r) ==
    /\ stage = "add" /\ r \in GroupRows(expert) \ added
    /\ added' = added \cup {r}
    /\ out' = [out EXCEPT ![grp[r] \div NAct] = Append(@, oeb[r])]
    /\ UNCHANGED <<calls, mode, stage, idx, sorting, tiles, expert, oeb, ts, weights>>
NextExpert ==
    /\ stage = "add" /\ added = GroupRows(expert)
    /\ Loop("experts", "shared")
    /\ UNCHANGED <<calls, mode, idx, sorting, tiles, added, oeb, ts, out, weights>>

-----------------------------------------------------------------------------
\* k_build_tiles: up to TileRows rows of one expert each, expert after expert.
TileCountDown(n) == n \div TileRows
TileCount(n) == (n + TileRows - 1) \div TileRows
BuildTiles ==
    /\ stage = "tiles" /\ Loop("tiles", "gemm")
    /\ tiles' = tiles \o [k \in 1..TileCount(off[expert + 1] - off[expert]) |->
                            [e |-> expert, row0 |-> off[expert] + (k - 1) * TileRows]]
    /\ UNCHANGED <<calls, mode, idx, sorting, added, oeb, ts, out, weights>>

\* The rows tile n owns: its expert's from row0 on, at most TileRows.
TileOwns(n) == {r \in tiles[n].row0..(tiles[n].row0 + TileRows - 1) : r < off[tiles[n].e + 1]}

\* All weights are prepared, then one launch computes every tile.
GroupedGemm ==
    /\ stage = "gemm" /\ stage' = "combine"
    /\ Prepare(Experts)
    /\ oeb' = [r \in Rows |->
                 IF \E n \in DOMAIN tiles : r \in TileOwns(n)
                 THEN LET n == CHOOSE n \in DOMAIN tiles : r \in TileOwns(n)
                      IN  Contribution(tiles[n].e, grp[r])
                 ELSE Junk]
    /\ UNCHANGED <<calls, mode, idx, sorting, tiles, expert, added, ts, out>>

\* k_scatter_ts: each row to its assignment's place; k_reduce_ts: slots in order.
Combine ==
    /\ stage = "combine" /\ stage' = "reduce"
    /\ ts' = [i \in Rows |-> IF \E r \in Rows : grp[r] = i
                             THEN oeb[CHOOSE r \in Rows : grp[r] = i] ELSE Junk]
    /\ UNCHANGED <<calls, mode, idx, sorting, tiles, expert, added, oeb, out, weights>>
ReducedByRow(t) == SelectSeq([r \in 1..NRows |-> oeb[r - 1]], LAMBDA i : i \div NAct = t)
Reduced(t) == [s \in 1..NAct |-> ts[t * NAct + s - 1]]
Reduce ==
    /\ stage = "reduce" /\ stage' = "shared"
    /\ out' = [t \in Toks |-> Reduced(t)]
    /\ UNCHANGED <<calls, mode, idx, sorting, results, weights>>

-----------------------------------------------------------------------------
SharedExpert ==
    /\ stage = "shared" /\ stage' = "done"
    /\ out' = [t \in Toks |-> Append(out[t], Shared)]
    /\ UNCHANGED <<calls, mode, idx, sorting, results, weights>>

Return ==
    /\ stage = "done" /\ stage' = "idle"
    /\ counts' = Zeros /\ off' = NoOff /\ cursor' = Zeros
    /\ slot' = Unset /\ grp' = Unset /\ oeb' = Unset /\ ts' = Unset
    /\ tiles' = << >> /\ expert' = 0 /\ added' = {}
    /\ out' = NoOut
    /\ UNCHANGED <<calls, mode, idx, weights>>

\* tc_moe_clear_cache, between layers.
ClearCache ==
    /\ stage = "idle" /\ copy # [e \in Experts |-> "none"]
    /\ copy' = [e \in Experts |-> "none"]
    /\ UNCHANGED <<calls, mode, stage, idx, sorting, results, out, layout, ppdone>>

Next ==
    \/ Call \/ Count \/ PrefixSum \/ (\E i \in Rows : Claim(i) \/ Fill(i)) \/ Scattered
    \/ HostGroup \/ TokenLoop \/ ExpertGemm \/ (\E r \in Rows : AddRow(r)) \/ NextExpert
    \/ BuildTiles \/ GroupedGemm \/ Combine \/ Reduce
    \/ SharedExpert \/ Return \/ ClearCache

Spec == Init /\ [][Next]_vars

-----------------------------------------------------------------------------
\* Types.
TypeOK ==
    /\ calls \in 0..MaxCalls /\ mode \in Modes
    /\ stage \in {"idle", "count", "prefix", "scatter", "host", "token", "tiles", "experts",
                  "add", "gemm", "combine", "reduce", "shared", "done"}
    /\ idx \in [Rows -> Experts]
    /\ counts \in [Experts -> 0..NRows] /\ cursor \in [Experts -> 0..NRows]
    /\ off \in [0..NExperts -> 0..NRows]
    /\ {slot, grp, oeb, ts} \subseteq [Rows -> Rows \cup {Junk}]
    /\ expert \in Experts /\ added \subseteq Rows
    /\ out \in [Toks -> Seq(Rows \cup {Junk, Shared})]
    /\ layout \in [Experts -> {"raw", "packed", "garbled"}] /\ ppdone \subseteq Experts
    /\ copy \in [Experts -> {"none", "packed", "garbled"}]

\* However the scatter's threads interleave, every assignment ends up in one row
\* of its expert's range (moe.cu:164-174).
GroupsRight ==
    stage \in {"tiles", "experts", "add", "gemm", "combine", "reduce"} =>
        \A e \in Experts :
            /\ {grp[r] : r \in GroupRows(e)} = {i \in Rows : idx[i] = e}
            /\ Cardinality(GroupRows(e)) = counts[e]

\* Every row belongs to exactly one tile, and there are no more tiles than the
\* launch has room for (tc_moe_gemm.cu:212-227).
TilesCover ==
    stage = "gemm" =>
        /\ \A r \in Rows : Cardinality({n \in DOMAIN tiles : r \in TileOwns(n)}) = 1
        /\ Len(tiles) <= NRows

\* The grouped and the per-token path add a token's contributions in the order
\* of its slots whatever the interleaving: the same floating-point sum in every
\* run and in both paths (moe.cu:175-183).
FixedOrder ==
    stage = "done" /\ mode.group \in {"grouped", "token"} =>
        \A t \in Toks : out[t] = [s \in 1..NAct |-> t * NAct + s - 1] \o <<Shared>>

\* In every mode each assignment contributes to its token exactly once, computed by its
\* own expert from weights in the layout the GEMM reads; not so for a token routed to an
\* expert whose group a one-tile GEMM cannot hold (moe.cu:336-347, tc_moe_gemm.cu:125-174).
FitsTile(e) ==
    mode.group \in {"host", "device"} /\ mode.gemm \in {"tc", "pp"} =>
        Cardinality(Assigned(e)) <= TileRows
Whole(t) == \A i \in Rows : i \div NAct = t => FitsTile(idx[i])
SlotsOnce(t) ==
    /\ Len(out[t]) = NAct + 1
    /\ {out[t][k] : k \in 1..(NAct + 1)} = {t * NAct + s : s \in 0..(NAct - 1)} \cup {Shared}
EverySlotOnce == stage = "done" => \A t \in Toks : Whole(t) => SlotsOnce(t)

\* What "Drop-in for fp4_gemm" says of the one-tile GEMM (tc_moe_gemm.cu:166): it does not
\* hold, the rows of a larger group that are beyond its first tile are never computed.
DropIn == stage = "done" => \A t \in Toks : SlotsOnce(t)

-----------------------------------------------------------------------------
\* The loops over the experts, each in the modes that have it.
StageOK ==
    /\ stage \in {"prefix", "host", "tiles", "experts", "add"} \/ expert = 0
    /\ stage \in {"tiles", "gemm", "combine", "reduce"} => mode.group = "grouped"
    /\ stage \in {"host", "token"} => mode.group = stage
    /\ stage \in {"count", "prefix", "scatter"} => mode.group \in {"device", "grouped"}
    /\ stage \in {"experts", "add"} => mode.group \in {"device", "host"}

\* The counting sort: a group begins behind the assignments of smaller experts.
Grouped == stage \in {"tiles", "experts", "add", "gemm", "combine", "reduce"}
Smaller(e) == {i \in Rows : idx[i] < e}
OffsRight ==
    /\ off[0] = 0
    /\ stage \in {"prefix", "host"} => \A e \in 0..expert : off[e] = Cardinality(Smaller(e))
    /\ stage = "scatter" \/ Grouped => \A e \in 0..NExperts : off[e] = Cardinality(Smaller(e))
    /\ \A e \in Experts : stage \in {"prefix", "scatter"} \/ Grouped \/ (stage = "host" /\ e < expert) =>
         counts[e] = Cardinality(Assigned(e))

\* Rows are claimed from the front of a group, by one thread each, which fills them.
ClaimsOK ==
    /\ stage \in {"idle", "count", "prefix"} => slot = Unset /\ cursor = Zeros /\ grp = Unset
    /\ stage = "scatter" =>
         /\ \A e \in Experts : cursor[e] = Cardinality({i \in Assigned(e) : slot[i] # Junk})
         /\ \A i \in Rows : slot[i] # Junk =>
              /\ slot[i] \in off[idx[i]]..(off[idx[i]] + cursor[idx[i]] - 1)
              /\ \A j \in Rows : slot[j] = slot[i] => j = i
         /\ \A r \in Rows : grp[r] # Junk => slot[grp[r]] = r
    /\ \A e \in Experts : Grouped \/ (stage = "host" /\ e < expert) =>
         \A i \in Assigned(e) : \E r \in GroupRows(e) : grp[r] = i

\* Tiles are distinct and own the rows of the experts they were made for.
TilesOK ==
    LET covered == off[IF stage = "tiles" THEN expert ELSE NExperts]
    IN  IF stage \in {"tiles", "gemm"}
        THEN /\ tiles \in Seq([e : Experts, row0 : Rows]) /\ Len(tiles) <= covered
             /\ \A n \in DOMAIN tiles :
                  /\ off[tiles[n].e] <= tiles[n].row0 /\ off[tiles[n].e + 1] <= covered
                  /\ \A r \in TileOwns(n) : \A m \in DOMAIN tiles : r \in TileOwns(m) => m = n
             /\ \A r \in Rows : r < covered => \E n \in DOMAIN tiles : r \in TileOwns(n)
        ELSE stage \in {"idle", "count", "prefix", "scatter"} => tiles = << >>

\* What is done in place is on record, and what is not leaves the weights alone.
WeightsOK ==
    /\ \A e \in Experts : layout[e] = IF e \in ppdone THEN "packed" ELSE "raw"
    /\ IF mode.gemm \in InPlace THEN \A e \in Experts : copy[e] = "none"
       ELSE ppdone = {} /\ \A e \in Experts : copy[e] \in {"none", "packed"}

\* Between the kernels every result is its assignment's own. The per-expert loop has
\* added the groups it is past, and of the one it is at the rows it has added, once each.
Summed ==
    IF stage \in {"shared", "done"} THEN Rows
    ELSE {i \in Rows : idx[i] < expert} \cup (IF stage = "add" THEN {grp[r] : r \in added} ELSE {})
ResultsOK ==
    /\ stage = "combine" => oeb = grp
    /\ stage = "reduce" => \A i \in Rows : ts[i] = i
    /\ stage \notin {"experts", "add", "shared", "done"} => out = NoOut
    /\ stage = "shared" /\ mode.group \in {"grouped", "token"} =>
         \A t \in Toks : out[t] = [s \in 1..NAct |-> t * NAct + s - 1]
    /\ stage = "add" =>
         /\ added \subseteq GroupRows(expert)
         /\ FitsTile(expert) => \A r \in GroupRows(expert) : oeb[r] = grp[r]
    /\ mode.group \in {"host", "device"} /\ stage \in {"experts", "add", "shared"} =>
         \A t \in Toks : Whole(t) =>
             LET due == {i \in Summed : i \div NAct = t}
             IN  /\ Len(out[t]) = Cardinality(due)
                 /\ {out[t][k] : k \in 1..Len(out[t])} = due

\* The grouping is sound however its threads interleave: each assignment in one row of
\* its expert, each row in one tile (moe.cu:164-174, tc_moe_gemm.cu:212-227); weights are
\* in the layout recorded for them, and no result is lost between the kernels.
MoeInv ==
    /\ TypeOK /\ GroupsRight /\ TilesCover
    /\ StageOK /\ OffsRight /\ ClaimsOK /\ TilesOK /\ WeightsOK
    /\ ResultsOK

=============================================================================
