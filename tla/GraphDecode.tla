---------------------------- MODULE GraphDecode ----------------------------
(***************************************************************************)
(* The GRAPH block of src/src/decode.cu: greedy decode by replaying one    *)
(* captured CUDA graph of the whole layer stack. Nothing the host knows    *)
(* may be baked into the graph, so the position, the row counts and the    *)
(* token are device cells, and window and compressed rows share one buffer *)
(* per layer (kvc: winmax window rows, then Tmax compressed rows).         *)
(*                                                                         *)
(* The block runs after the M=1 decode: it prefills again, copies the      *)
(* caches into kvc, runs the step once to warm up, prefills and copies     *)
(* again, captures, and replays the graph once per token.                  *)
(***************************************************************************)
EXTENDS CacheRows, Sequences

CONSTANTS
    Target(_), NLayers, Ratio, PS, NDEC, Block, Slack   \* as in DecodeDriver

Layers == 0..(NLayers - 1)
SeqMax == PS + 1 + NDEC + Block + Slack     \* seqmax, winmax (NDEC >= NGEN0)
Positions == 0..(SeqMax - 1)
TmaxOfPrompt == PS \div OverlapRatio + 2
Tmax == SeqMax \div OverlapRatio + 2
CompRows(L) == IF Ratio[L] = 0 THEN {} ELSE 0..(Tmax - 1)
Histories == UNION {[0..n -> Token] : n \in Positions}

ASSUME GraphAssumption ==
    /\ NLayers \in Nat \ {0} /\ Ratio \in [Layers -> Nat]
    /\ OverlapRatio \in Nat \ {0}
    /\ \A L \in Layers : Ratio[L] # 0 => Ratio[L] >= OverlapRatio
    /\ PS \in Nat \ {0} /\ NDEC \in Nat /\ Block \in Nat \ {0} /\ Slack \in Nat
    /\ Junk \notin Token \cup Histories
    /\ \A h \in Histories : Target(h) \in Token

VARIABLES
    phase,          \* "prefill", "copy", "warm", "capture", "replay", "done"
    warmed,         \* the warm-up step has run
    busy,           \* a prefill or a step is part way through its layers
    lay,            \* its next layer
    prompt,         \* ids
    x,              \* hidden states of the pass, by provenance: [0..n-1 -> ...]
    win, xin, comp, T,      \* KV[L].win_kv, xin, comp_kv, T, as in DecodeDriver
    kvw, kvc, dT,   \* KV[L].kvc below and above winmax, KV[L].d_T
    dpos, dcurid, dg,       \* the other device cells
    cur,            \* the host's current token
    ggen            \* tokens of the replays

host == <<prompt, cur, ggen, warmed>>
hostCaches == <<win, xin, comp, T>>
device == <<kvw, kvc, dT>>
cells == <<dpos, dcurid, dg>>
vars == <<phase, warmed, busy, lay, prompt, x, win, xin, comp, T, kvw, kvc, dT,
          dpos, dcurid, dg, cur, ggen>>

\* The rows the M=1 decode left behind count as Junk: nothing may depend on them.
Init ==
    /\ phase = "prefill" /\ warmed = FALSE /\ busy = FALSE /\ lay = 0
    /\ prompt \in [0..PS -> Token]
    /\ x = << >>
    /\ win = [L \in Layers |-> [p \in Positions |-> Junk]]
    /\ xin = win /\ kvw = win
    /\ comp = [L \in Layers |-> [t \in CompRows(L) |-> Junk]]
    /\ kvc = comp
    /\ T = [L \in Layers |-> IF Ratio[L] = 0 THEN 0 ELSE (PS + NDEC) \div Ratio[L]]
    /\ dT = [L \in Layers |-> 0]
    /\ dpos = 0 /\ dcurid = Junk /\ dg = 0
    /\ cur = prompt[PS]
    /\ ggen = << >>

\* The token at position p of the prompt followed by the replays' output.
TextAt(p) == IF p <= PS THEN prompt[p] ELSE ggen[p - PS]
Text == [p \in 0..(PS + Len(ggen)) |-> TextAt(p)]

-----------------------------------------------------------------------------
\* Prefill of 0..PS-1 with the host's row counts reset, layer by layer.
StartPrefill ==
    /\ phase = "prefill" /\ ~busy
    /\ busy' = TRUE /\ lay' = 0
    /\ T' = [L \in Layers |-> 0]
    /\ x' = [p \in 0..(PS - 1) |-> Prefix(prompt, p)]
    /\ UNCHANGED <<phase, host, win, xin, comp, device, cells>>

PrefillLayer ==
    LET R == Ratio[lay]
        groups == {g \in 0..(PS - 1) : g * R + R <= PS}
        Filled(rows) == [p \in Positions |-> IF p < PS THEN x[p] ELSE rows[p]]
    IN  /\ phase = "prefill" /\ busy /\ lay < NLayers
        /\ win' = [win EXCEPT ![lay] = Filled(@)]
        /\ \/ R = 0 /\ UNCHANGED <<xin, comp, T>>
           \/ /\ R # 0
              /\ xin' = [xin EXCEPT ![lay] = Filled(@)]
              /\ comp' = [comp EXCEPT ![lay] = [t \in CompRows(lay) |->
                            IF t \in groups THEN GroupRow(xin'[lay], R, t) ELSE @[t]]]
              /\ T' = [T EXCEPT ![lay] = Cardinality(groups)]
        /\ lay' = lay + 1
        /\ UNCHANGED <<phase, busy, host, x, device, cells>>

EndPrefill ==
    /\ phase = "prefill" /\ busy /\ lay = NLayers
    /\ phase' = "copy" /\ busy' = FALSE /\ lay' = 0 /\ x' = << >>
    /\ UNCHANGED <<host, hostCaches, device, cells>>

\* Copy one compressed layer's prefilled rows and count into the graph's buffer.
CopiedCountOnce(L) == IF warmed THEN dT[L] ELSE T[L]
CopiedCount(L) == T[L]
CopyLayer ==
    /\ phase = "copy" /\ lay < NLayers
    /\ \/ Ratio[lay] = 0 /\ UNCHANGED device
       \/ /\ Ratio[lay] # 0
          /\ kvw' = [kvw EXCEPT ![lay] =
                       [p \in Positions |-> IF p < PS THEN win[lay][p] ELSE @[p]]]
          /\ kvc' = [kvc EXCEPT ![lay] =
                       [t \in CompRows(lay) |-> IF t < T[lay] THEN comp[lay][t] ELSE @[t]]]
          /\ dT' = [dT EXCEPT ![lay] = CopiedCount(lay)]
    /\ lay' = lay + 1
    /\ UNCHANGED <<phase, busy, host, x, hostCaches, cells>>

\* The first copy leads to the warm-up step, the second to the capture, which
\* records the step without running it.
EndCopy ==
    /\ phase = "copy" /\ lay = NLayers
    /\ phase' = IF warmed THEN "capture" ELSE "warm"
    /\ lay' = 0
    /\ UNCHANGED <<busy, host, x, hostCaches, device, cells>>

Capture ==
    /\ phase = "capture"
    /\ phase' = "replay" /\ cur' = prompt[PS]
    /\ UNCHANGED <<prompt, ggen, warmed, busy, lay, x, hostCaches, device, cells>>

-----------------------------------------------------------------------------
\* Set the device cells and embed the token: a step begins.
StepPositionLate == PS + Len(ggen) + 1
StepPosition == PS + Len(ggen)
StartStep ==
    /\ \/ phase = "warm" /\ ~warmed
       \/ phase = "replay" /\ Len(ggen) < NDEC
    /\ ~busy
    /\ busy' = TRUE /\ lay' = 0
    /\ dpos' = StepPosition /\ dcurid' = cur
    /\ x' = [i \in {0} |-> [r \in 0..dpos' |-> IF r = dpos' THEN cur ELSE TextAt(r)]]
    /\ UNCHANGED <<phase, host, hostCaches, device, dg>>

\* The rows the device emit pools for the group that ends at p: the last 2*ratio
\* (overlap) or ratio positions, those before the text clamped to position 0.
DeviceGroupRow(src, R, p) ==
    LET ntok == IF R = OverlapRatio THEN 2 * R ELSE R
    IN  [q \in (p - ntok + 1)..p |-> src[IF q < 0 THEN 0 ELSE q]]

\* A group is committed, and the count advanced, when its last token is dpos.
CommitsAlways(R) == TRUE
Commits(R) == (dpos + 1) % R = 0

\* The rows the step reads at dpos: the last of the window, and the committed ones
\* of a compressed layer.
DeviceReads(h) ==
    LET R == Ratio[lay] IN
    ReadsAgree(h, dpos, IF R = 0 THEN win'[lay] ELSE kvw'[lay],
               kvc'[lay], IF R = 0 THEN {} ELSE 0..(dT'[lay] - 1), R)

\* One layer of the step: it writes its row at dpos, commits a group into row
\* dT, attends to its window and to the committed rows. A sliding layer works
\* on win_kv, a compressed one on kvc.
StepLayer ==
    LET R == Ratio[lay]
        WithRow(rows) == [rows EXCEPT ![dpos] = x[0]]
    IN  /\ phase \in {"warm", "replay"} /\ busy /\ lay < NLayers
        /\ \/ /\ R = 0
              /\ win' = [win EXCEPT ![lay] = WithRow(@)]
              /\ UNCHANGED <<xin, device, dg>>
           \/ /\ R # 0
              /\ xin' = [xin EXCEPT ![lay] = WithRow(@)]
              /\ kvw' = [kvw EXCEPT ![lay] = WithRow(@)]
              /\ kvc' = [kvc EXCEPT ![lay] = [t \in CompRows(lay) |->
                           IF Commits(R) /\ t = dT[lay]
                           THEN DeviceGroupRow(xin'[lay], R, dpos) ELSE @[t]]]
              /\ dT' = [dT EXCEPT ![lay] = IF Commits(R) THEN @ + 1 ELSE @]
              /\ dg' = dpos \div R
              /\ UNCHANGED win
        /\ x' = [i \in {0} |-> IF x[0] # Junk /\ DeviceReads(x[0]) THEN x[0] ELSE Junk]
        /\ lay' = lay + 1
        /\ UNCHANGED <<phase, busy, host, comp, T, dpos, dcurid>>

\* The warm-up's result is dropped; the caches it advanced are prefilled again.
AfterWarmNoReset == "capture"
AfterWarm == "prefill"
EndWarm ==
    /\ phase = "warm" /\ busy /\ lay = NLayers
    /\ phase' = AfterWarm /\ warmed' = TRUE
    /\ busy' = FALSE /\ lay' = 0 /\ x' = << >>
    /\ UNCHANGED <<prompt, cur, ggen, hostCaches, device, cells>>

\* The token fed next is the replay's argmax.
EndReplay ==
    /\ phase = "replay" /\ busy /\ lay = NLayers
    /\ \E am \in IF x[0] \in Histories THEN {Target(x[0])} ELSE Token :
         ggen' = Append(ggen, am) /\ cur' = am
    /\ busy' = FALSE /\ lay' = 0 /\ x' = << >>
    /\ UNCHANGED <<phase, warmed, prompt, hostCaches, device, cells>>

Done ==
    /\ phase = "replay" /\ ~busy /\ Len(ggen) >= NDEC
    /\ phase' = "done"
    /\ UNCHANGED <<busy, lay, x, host, hostCaches, device, cells>>

-----------------------------------------------------------------------------
Next ==
    \/ StartPrefill \/ PrefillLayer \/ EndPrefill
    \/ CopyLayer \/ EndCopy \/ Capture
    \/ StartStep \/ StepLayer \/ EndWarm \/ EndReplay \/ Done

Spec == Init /\ [][Next]_vars

-----------------------------------------------------------------------------
Rows == Histories \cup {Junk}

\* Types.
TypeOK ==
    /\ phase \in {"prefill", "copy", "warm", "capture", "replay", "done"}
    /\ warmed \in BOOLEAN /\ busy \in BOOLEAN /\ lay \in 0..NLayers
    /\ prompt \in [0..PS -> Token]
    /\ \A i \in DOMAIN x : x[i] \in Rows
    /\ win \in [Layers -> [Positions -> Rows]] /\ xin \in [Layers -> [Positions -> Rows]]
    /\ kvw \in [Layers -> [Positions -> Rows]]
    /\ DOMAIN comp = Layers /\ DOMAIN kvc = Layers
    /\ \A L \in Layers : DOMAIN comp[L] = CompRows(L) /\ DOMAIN kvc[L] = CompRows(L)
    /\ T \in [Layers -> 0..Tmax] /\ dT \in [Layers -> 0..Tmax]
    /\ dpos \in Positions /\ dcurid \in Token \cup {Junk} /\ dg \in Nat
    /\ cur \in Token /\ ggen \in Seq(Token)

\* A replayed step gives every layer the hidden state the eager step would give
\* it, bit for bit (START_HERE.md:41).
BitExact == phase = "replay" => \A i \in DOMAIN x : x[i] # Junk

\* Every row a step writes is inside its layer's kvc, the Tmax region included
\* (decode.cu:240-243).
WritesFit ==
    busy /\ phase # "prefill" =>
        /\ dpos < SeqMax
        /\ \A L \in Layers : Ratio[L] # 0 /\ Commits(Ratio[L]) /\ L >= lay => dT[L] < Tmax

\* The emit of every step, committed or not, reads a row of the compressed rope
\* table, which has max(1, seqmax/ratio) rows (decode.cu:71).
RopeRows(R) == IF SeqMax \div R < 1 THEN 1 ELSE SeqMax \div R
RopeInTable ==
    busy /\ lay > 0 /\ phase # "prefill" /\ Ratio[lay - 1] # 0 =>
        dg < RopeRows(Ratio[lay - 1])

\* The replays implement greedy decoding one token at a time.
Greedy == INSTANCE GreedyDecode
            WITH out <- ggen, stopped <- (phase = "done"), NGen <- NDEC, Block <- 1
RefinesGreedy == Greedy!GreedySpec

-----------------------------------------------------------------------------
\* The first group of an overlap layer is complete in the prefill: what the device emit
\* needs, which does not mask the group before the text.
LongPrompt == \A L \in Layers : Ratio[L] = OverlapRatio => PS >= OverlapRatio

\* rows holds the first m rows of the text, and crows its first n groups.
Held(rows, m) == \A p \in 0..(m - 1) : rows[p] = Prefix(Text, p)
GroupsHeld(crows, n, R) == \A t \in 0..(n - 1) : crows[t] = DueRow(Text, R, t)

\* Layer L after the prefill, and the graph's buffers after the first m positions.
Prefilled(L) ==
    /\ Held(win[L], PS)
    /\ Ratio[L] # 0 =>
        /\ Held(xin[L], PS)
        /\ T[L] = PS \div Ratio[L] /\ GroupsHeld(comp[L], T[L], Ratio[L])
CachedTo(L, m) ==
    /\ Ratio[L] = 0 => Held(win[L], m)
    /\ Ratio[L] # 0 =>
        /\ Held(xin[L], m) /\ Held(kvw[L], m)
        /\ dT[L] = m \div Ratio[L] /\ GroupsHeld(kvc[L], dT[L], Ratio[L])

\* Which pass runs, over which position, with which token.
ControlOK ==
    /\ phase \in {"prefill", "copy", "warm", "capture"} => ggen = << >>
    /\ Len(ggen) <= NDEC /\ cur = Text[PS + Len(ggen)]
    /\ busy => phase \in {"prefill", "warm", "replay"}
    /\ busy /\ phase = "prefill" => x = [p \in 0..(PS - 1) |-> Prefix(prompt, p)]
    /\ busy /\ phase # "prefill" =>
        dpos = PS + Len(ggen) /\ x = [i \in {0} |-> Prefix(Text, dpos)]
    /\ busy /\ phase = "replay" => Len(ggen) < NDEC
    /\ ~busy => x = << >> /\ (phase # "copy" => lay = 0)

\* Layers the pass has been through hold the rows it gives them; between passes the rows,
\* the groups and the device counts are those of the text so far, and nothing of the
\* warm-up step is left.
CacheOK ==
    /\ phase = "prefill" /\ busy => \A L \in Layers : L < lay => Prefilled(L)
    /\ phase = "copy" => \A L \in Layers : Prefilled(L) /\ (L < lay => CachedTo(L, PS))
    /\ phase \in {"warm", "capture", "replay"} =>
        \A L \in Layers : CachedTo(L, PS + Len(ggen) + (IF busy /\ L < lay THEN 1 ELSE 0))

\* What holds in every stage of the block after a prompt of at least a group: its types,
\* every write inside kvc, the counts, committed rows and tokens of the text so far
\* (decode.cu:240-286).
GraphInv ==
    /\ TypeOK /\ WritesFit /\ ControlOK /\ CacheOK
    /\ Greedy!IsGreedy(prompt, ggen)

=============================================================================
