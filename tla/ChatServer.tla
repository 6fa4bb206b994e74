----------------------------- MODULE ChatServer -----------------------------
(***************************************************************************)
(* The serving engine of reference/gemma_forward.cu.ref with the draft     *)
(* model of src/src/draft.cu: concurrent chat requests, one at a time on   *)
(* the GPU, over one KV cache that keeps the last request's prompt for     *)
(* prefix reuse and one draft KV cache that is extended incrementally.     *)
(*                                                                         *)
(* A cache row is represented by the token history it was computed from    *)
(* (see CacheRows), Junk when it was never written or depends on rows of   *)
(* another history. All layers of a pass are one step here.                *)
(***************************************************************************)
EXTENDS Integers, FiniteSets, Sequences

CONSTANTS
    Token, Junk,
    Target(_),      \* argmax of the logits of a history [0..n -> Token]
    StopTokens,     \* tokens that end a reply (1, 106)
    Clients,        \* handler threads of the HTTP server
    NoClient,
    Prompts,        \* what clients ask: histories [0..n -> Token]
    MaxTokens,      \* max_tokens of a request
    K,              \* tokens drafted per round; the draft block has K+1 slots
    CAP,            \* positions of the KV cache
    MaxRequests     \* bound on the requests

Positions == 0..(CAP - 1)
Slots == 0..(CAP + K)
Histories == UNION {[0..n -> Token] : n \in Positions}
Size(h) == Cardinality(DOMAIN h)
Prefix(h, q) == [r \in 0..q |-> h[r]]
Extend(h, t) == [r \in 0..Size(h) |-> IF r < Size(h) THEN h[r] ELSE t]

\* The server checks no length: what it is asked must fit the cache.
ASSUME ServerAssumption ==
    /\ Token # {} /\ CAP \in Nat /\ Junk \notin Histories
    /\ StopTokens \subseteq Token
    /\ NoClient \notin Clients
    /\ MaxTokens \in Nat \ {0} /\ K \in Nat \ {0} /\ MaxRequests \in Nat
    /\ Prompts \subseteq Histories
    /\ \A h \in Prompts : Size(h) + MaxTokens + K <= CAP
    /\ \A h \in Histories : Target(h) \in Token

VARIABLES
    asked,          \* requests sent
    st,             \* each handler: "idle", "waiting" for the mutex, "serving"
    req, resp,      \* its prompt and the tokens streamed back
    mtx,            \* g_serve_mtx: its holder or NoClient
    phase,          \* the holder's next step: "prefill", "propose", "verify", "accept"
    kv, taps,       \* target KV rows and taps_ctx by position
    vlen,           \* S.valid_len
    cached,         \* g_cached_ids, << >> before the first request
    tok, ngen, stop,        \* engine_generate_dflash: bonus token, count, stop flag
    draft, blk,     \* drafts, and the verified block's rows (and taps_blk)
    dkv, ctxdone    \* the draft model's context rows by slot, and how many are done

handlers == <<asked, st, req, mtx>>
target == <<kv, taps, vlen, cached>>
loop == <<tok, ngen, stop>>
drafter == <<dkv, ctxdone>>
vars == <<asked, st, req, resp, mtx, phase, kv, taps, vlen, cached, tok, ngen, stop,
          draft, blk, dkv, ctxdone>>

Init ==
    /\ asked = 0
    /\ st = [c \in Clients |-> "idle"]
    /\ req = [c \in Clients |-> << >>] /\ resp = [c \in Clients |-> << >>]
    /\ mtx = NoClient /\ phase = "prefill"
    /\ kv = [p \in Positions |-> Junk] /\ taps = kv
    /\ vlen = 0 /\ cached = << >>
    /\ tok \in {CHOOSE t \in Token : TRUE} /\ ngen = 0 /\ stop = FALSE
    /\ draft = << >> /\ blk = << >>
    /\ dkv = [s \in Slots |-> Junk] /\ ctxdone = 0

-----------------------------------------------------------------------------
\* A request arrives; its handler will lock the mutex.
Ask(c) ==
    /\ st[c] = "idle" /\ asked < MaxRequests
    /\ \E h \in Prompts : req' = [req EXCEPT ![c] = h]
    /\ asked' = asked + 1
    /\ st' = [st EXCEPT ![c] = "waiting"]
    /\ resp' = [resp EXCEPT ![c] = << >>]
    /\ UNCHANGED <<mtx, phase, target, loop, draft, blk, drafter>>

LockOpen(c) == TRUE
LockFree(c) == mtx = NoClient
Lock(c) ==
    /\ st[c] = "waiting"
    /\ LockFree(c)
    /\ mtx' = c /\ phase' = "prefill"
    /\ st' = [st EXCEPT ![c] = "serving"]
    /\ UNCHANGED <<asked, req, resp, target, loop, draft, blk, drafter>>

-----------------------------------------------------------------------------
\* A pass over the tokens toks[0..n-1] at base: row i is right if every row
\* below it belongs to the same history.
RowsOf(base, toks) ==
    LET h == IF base = 0 THEN << >> ELSE kv[base - 1]
        sound == base = 0 \/ (h # Junk /\ \A p \in 0..(base - 1) : kv[p] = Prefix(h, p))
    IN  [i \in DOMAIN toks |->
            IF sound
            THEN [r \in 0..(base + i) |-> IF r < base THEN h[r] ELSE toks[r - base]]
            ELSE Junk]

Argmax(row) == IF row \in Histories THEN {Target(row)} ELSE Token
Store(cache, base, rows) ==
    [p \in Positions |-> IF p - base \in DOMAIN rows THEN rows[p - base] ELSE cache[p]]

\* The longest common prefix of the prompt and the cached ids, less than all of
\* the prompt: its last token must be processed for its logits.
ReusedByLength(h) ==
    LET n == IF Size(h) < Size(cached) THEN Size(h) ELSE Size(cached)
    IN  IF n >= Size(h) THEN Size(h) - 1 ELSE n
Reused(h) ==
    LET lcp == Cardinality({n \in DOMAIN h : n \in DOMAIN cached
                              /\ \A r \in 0..n : h[r] = cached[r]})
    IN  IF lcp >= Size(h) THEN Size(h) - 1 ELSE lcp

CachedAfter(h) == h

\* engine_prefill_cached: only the new suffix is processed; the first token of
\* the reply is its argmax.
Prefill(c) ==
    /\ mtx = c /\ phase = "prefill"
    /\ LET h == req[c]
           p == Reused(h)
           rows == RowsOf(p, [i \in 0..(Size(h) - p - 1) |-> h[p + i]])
       IN  /\ kv' = Store(kv, p, rows) /\ taps' = Store(taps, p, rows)
           /\ vlen' = Size(h)
           /\ cached' = CachedAfter(h)
           /\ tok' \in Argmax(rows[Size(h) - p - 1])
    /\ ngen' = 0 /\ stop' = FALSE
    /\ phase' = "propose"
    /\ UNCHANGED <<handlers, resp, draft, blk, drafter>>

-----------------------------------------------------------------------------
\* draft_propose: project the context positions not done yet from the taps,
\* write the block's own rows behind them, draft any K tokens.
Propose(c) ==
    LET c0 == IF ctxdone > vlen THEN 0 ELSE ctxdone
    IN  /\ mtx = c /\ phase = "propose"
        /\ ngen < MaxTokens /\ ~stop
        /\ dkv' = [s \in Slots |-> IF s \in c0..(vlen - 1) THEN taps[s]
                                   ELSE IF s \in vlen..(vlen + K) THEN Junk ELSE dkv[s]]
        /\ ctxdone' = vlen
        /\ draft' \in [0..(K - 1) -> Token]
        /\ phase' = "verify"
        /\ UNCHANGED <<handlers, resp, target, loop, blk>>

\* One pass over the bonus token and all the drafts.
Verify(c) ==
    /\ mtx = c /\ phase = "verify"
    /\ blk' = RowsOf(vlen, [i \in 0..K |-> IF i = 0 THEN tok ELSE draft[i - 1]])
    /\ kv' = Store(kv, vlen, blk')
    /\ phase' = "accept"
    /\ UNCHANGED <<handlers, resp, taps, vlen, cached, loop, draft, drafter>>

\* Drafts accepted: the longest prefix the argmaxes confirm.
AcceptedAll(am) == K
Accepted(am) == Cardinality({n \in 1..K : \A i \in 0..(n - 1) : draft[i] = am[i]})

\* How many of the tokens ts a round may emit reach the client, and whether
\* generation stops: all of them if neither a stop token nor a failed write to
\* the client comes first; what stops it is not delivered.
DeliveriesBonusOnly(ts) == {[n |-> 1, stop |-> FALSE]}
DeliveriesUnlimited(ts) == {[n |-> Len(ts), stop |-> FALSE]}
Deliveries(ts) ==
    LET room == IF Len(ts) < MaxTokens - ngen THEN Len(ts) ELSE MaxTokens - ngen
        clear == {n \in 0..room : \A i \in 1..n : ts[i] \notin StopTokens}
    IN  {[n |-> n, stop |-> TRUE] : n \in {m \in clear : m < room}}
          \cup (IF room \in clear THEN {[n |-> room, stop |-> FALSE]} ELSE {})

\* Emit, keep the taps of the accepted positions, commit them. The bonus token
\* counts even when it was not delivered.
Accept(c) ==
    /\ mtx = c /\ phase = "accept"
    /\ \E am \in [0..K -> Token] :
         LET na == Accepted(am)
             ts == [i \in 1..(na + 1) |-> IF i = 1 THEN tok ELSE draft[i - 2]]
         IN  /\ \A i \in 0..K : am[i] \in Argmax(blk[i])
             /\ \E d \in Deliveries(ts) :
                  /\ resp' = [resp EXCEPT ![c] = @ \o SubSeq(ts, 1, d.n)]
                  /\ ngen' = ngen + (IF d.n = 0 THEN 1 ELSE d.n)
                  /\ stop' = d.stop
             /\ taps' = Store(taps, vlen, [i \in 0..na |-> blk[i]])
             /\ vlen' = vlen + na + 1
             /\ tok' = am[na]
    /\ phase' = "propose"
    /\ draft' = << >> /\ blk' = << >>
    /\ UNCHANGED <<handlers, kv, cached, drafter>>

\* The reply ends; the lock guard releases the mutex.
Held(c) == c
Released(c) == NoClient
Reply(c) ==
    /\ mtx = c /\ phase = "propose"
    /\ ngen >= MaxTokens \/ stop
    /\ mtx' = Released(c)
    /\ st' = [st EXCEPT ![c] = "idle"]
    /\ UNCHANGED <<asked, req, resp, phase, target, loop, draft, blk, drafter>>

-----------------------------------------------------------------------------
Serve(c) == Lock(c) \/ Prefill(c) \/ Propose(c) \/ Verify(c) \/ Accept(c) \/ Reply(c)
Next == \E c \in Clients : Ask(c) \/ Serve(c)

Spec == Init /\ [][Next]_vars

\* Handler threads run. Which of several waiting threads gets the mutex is open:
\* std::mutex promises no order.
FairSpec == Spec /\ \A c \in Clients : WF_vars(Serve(c))

-----------------------------------------------------------------------------
\* Types, and one handler at most inside the mutex.
TypeOK ==
    /\ asked \in 0..MaxRequests
    /\ req \in [Clients -> Prompts \cup {<< >>}] /\ resp \in [Clients -> Seq(Token)]
    /\ st \in [Clients -> {"idle", "waiting", "serving"}] /\ mtx \in Clients \cup {NoClient}
    /\ \A c \in Clients : st[c] = "serving" <=> mtx = c
    /\ phase \in {"prefill", "propose", "verify", "accept"}
    /\ \A p \in Positions : {kv[p], taps[p]} \subseteq Histories \cup {Junk}
    /\ vlen \in 0..CAP /\ ctxdone \in 0..CAP
    /\ cached \in Prompts \cup {<< >>}
    /\ tok \in Token /\ ngen \in 0..MaxTokens /\ stop \in BOOLEAN

\* The first n tokens of a request's prompt and reply.
Text(c, n) ==
    [q \in 0..(n - 1) |->
        IF q < Size(req[c]) THEN req[c][q] ELSE resp[c][q - Size(req[c]) + 1]]

\* Every reply is the greedy continuation of its own prompt, as far as it got:
\* neither another client's request, nor a reused prefix, nor a generation cut
\* short by a client that went away, nor any draft shows in it (gemma ref
\* 740-809).
RepliesGreedy ==
    \A c \in Clients : \A n \in 1..Len(resp[c]) :
        resp[c][n] = Target(Text(c, Size(req[c]) + n - 1))

\* Outside a prefill the KV rows and taps of the cached prompt are its own: what
\* the next request's prefix reuse relies on (gemma ref 796-806).
PrefixSound ==
    \A p \in DOMAIN cached : kv[p] = Prefix(cached, p) /\ taps[p] = Prefix(cached, p)

\* A reply never exceeds max_tokens.
ReplyBounded == \A c \in Clients : Len(resp[c]) <= MaxTokens

\* Every pass fits the KV cache, the rejected drafts' rows included.
WritesFit == phase = "verify" => vlen + K + 1 <= CAP

\* The draft model attends to the context rows of the text being continued: the
\* c0 > C test is to guard a fresh sequence (draft.cu:197).
DraftContextFresh == phase = "verify" => \A p \in 0..(vlen - 1) : dkv[p] = kv[p]

\* Every request is answered.
Answered == \A c \in Clients : st[c] = "waiting" ~> st[c] = "idle"

-----------------------------------------------------------------------------
\* A handler waits and begins with a prompt and an empty reply.
AskedOK ==
    \A c \in Clients :
        /\ st[c] # "idle" => req[c] \in Prompts
        /\ st[c] = "waiting" \/ (mtx = c /\ phase = "prefill") => resp[c] = << >>

\* A reply that goes on: rows, taps, the tokens counted and those delivered are of one
\* text, that of the request being served, and the bonus token continues it. At the
\* end they part: the last round commits what it does not deliver.
Going(c) == mtx = c /\ phase # "prefill" /\ ngen < MaxTokens /\ ~stop
ContinuesOK ==
    /\ phase \in {"verify", "accept"} => \E c \in Clients : Going(c)
    /\ \A c \in Clients : Going(c) =>
        /\ req[c] = cached /\ Len(resp[c]) = ngen
        /\ vlen = Size(cached) + ngen
        /\ tok = Target(Text(c, vlen))
        /\ \A p \in 0..(vlen - 1) : kv[p] = Text(c, p + 1) /\ taps[p] = Text(c, p + 1)

\* The text a round verifies, up to the i-th draft: the bonus token and the drafts follow
\* what is committed.
Verified(c, i) ==
    [q \in 0..(vlen + i) |-> IF q < vlen THEN Text(c, vlen)[q]
                             ELSE IF q = vlen THEN tok ELSE draft[q - vlen - 1]]
RoundOK ==
    /\ phase \in {"verify", "accept"} => draft \in [0..(K - 1) -> Token]
    /\ phase = "accept" =>
        \A c \in Clients : mtx = c =>
            \A i \in 0..K : blk[i] = Verified(c, i) /\ kv[vlen + i] = blk[i]

\* One handler at most is inside the mutex, its passes fit the KV cache, no reply exceeds
\* its limit, and what the caches hold, what is counted and what was delivered agree
\* (gemma ref 740-792, 918).
ChatInv ==
    /\ TypeOK /\ WritesFit /\ ReplyBounded
    /\ AskedOK /\ ContinuesOK /\ RoundOK

=============================================================================
