-------------------------- MODULE ChatServer_proofs --------------------------
(***************************************************************************)
(* ChatInv, RepliesGreedy and PrefixSound of ChatServer are invariant      *)
(* together, for any clients, prompts, target, limits and drafts.          *)
(***************************************************************************)
EXTENDS ChatServer, FiniteSetTheorems, SequenceTheorems, TLAPS

Inductive == ChatInv /\ RepliesGreedy /\ PrefixSound

-----------------------------------------------------------------------------
(* Histories and the operators on them. *)

LEMMA Constants ==
    /\ MaxTokens \in Nat /\ MaxTokens >= 1 /\ K \in Nat /\ K >= 1 /\ CAP \in Nat
    /\ MaxRequests \in Nat /\ Positions = 0..(CAP - 1) /\ Token # {}
    /\ NoClient \notin Clients /\ Junk \notin Histories
BY ServerAssumption DEF Positions

LEMMA SizeIs ==
    ASSUME NEW n \in Nat, NEW h, DOMAIN h = 0..(n - 1)
    PROVE  Size(h) = n
<1>1. 0 \in Int /\ n - 1 \in Int /\ (n - 1) - 0 + 1 = n
  OBVIOUS
<1>2. Cardinality(0..(n - 1)) = n
  BY <1>1, FS_Interval
<1> QED
  BY <1>2 DEF Size

LEMMA HistorySize ==
    ASSUME NEW h \in Histories
    PROVE  Size(h) \in 1..CAP /\ DOMAIN h = 0..(Size(h) - 1) /\ h \in [0..(Size(h) - 1) -> Token]
<1>1. PICK n \in Positions : h \in [0..n -> Token]
  BY DEF Histories
<1>2. n \in Nat /\ n + 1 \in 1..CAP /\ (n + 1) - 1 = n
  BY <1>1, Constants
<1>3. DOMAIN h = 0..((n + 1) - 1)
  BY <1>1, <1>2
<1>4. Size(h) = n + 1
  BY <1>2, <1>3, SizeIs
<1> QED
  BY <1>1, <1>2, <1>4

LEMMA IsHistory ==
    ASSUME NEW n \in 1..CAP, NEW h \in [0..(n - 1) -> Token]
    PROVE  h \in Histories /\ Target(h) \in Token /\ Argmax(h) = {Target(h)} /\ h # Junk
<1>1. n - 1 \in Positions
  BY Constants
<1>2. h \in Histories
  BY <1>1 DEF Histories
<1> QED
  BY <1>2, ServerAssumption DEF Argmax

LEMMA PromptFits ==
    ASSUME NEW h \in Prompts
    PROVE  /\ h \in Histories /\ Size(h) \in Nat /\ Size(h) >= 1
           /\ DOMAIN h = 0..(Size(h) - 1) /\ h \in [0..(Size(h) - 1) -> Token]
           /\ Size(h) + MaxTokens + K <= CAP
<1>1. h \in Histories
  BY ServerAssumption
<1>2. Size(h) \in 1..CAP /\ DOMAIN h = 0..(Size(h) - 1) /\ h \in [0..(Size(h) - 1) -> Token]
  BY <1>1, HistorySize
<1>3. Size(h) + MaxTokens + K <= CAP
  BY ServerAssumption
<1> QED
  BY <1>1, <1>2, <1>3, Constants

LEMMA PrefixPrefix ==
    ASSUME NEW h, NEW p \in Nat, NEW q \in 0..p
    PROVE  Prefix(Prefix(h, p), q) = Prefix(h, q)
BY DEF Prefix

\* A set of numbers from a on that holds everything below its members is an initial segment.
LEMMA DownClosed ==
    ASSUME NEW a \in Int, NEW n \in Nat, NEW S \in SUBSET (a..(a + n - 1)),
           \A k \in S : \A j \in a..k : j \in S
    PROVE  Cardinality(S) \in 0..n /\ S = a..(a + Cardinality(S) - 1)
<1> DEFINE c == Cardinality(S)
<1>1. \A m \in Nat : IsFiniteSet(a..(a + m - 1)) /\ Cardinality(a..(a + m - 1)) = m
  <2> TAKE m \in Nat
  <2>1. a + m - 1 \in Int /\ (a + m - 1) - a + 1 = m /\ (a > a + m - 1 <=> m = 0)
    OBVIOUS
  <2> QED
    BY <2>1, FS_Interval
<1>2. IsFiniteSet(S) /\ c \in 0..n
  <2>1. IsFiniteSet(a..(a + n - 1)) /\ Cardinality(a..(a + n - 1)) = n
    BY <1>1
  <2>2. IsFiniteSet(S) /\ c <= n
    BY <2>1, FS_Subset
  <2>3. c \in Nat
    BY <2>2, FS_CardinalityType
  <2> QED
    BY <2>2, <2>3
<1> HIDE DEF c
<1>3. \A k \in S : k - a < c
  <2> TAKE k \in S
  <2>1. k - a + 1 \in Nat /\ a + (k - a + 1) - 1 = k /\ a..k \subseteq S
    OBVIOUS
  <2>2. Cardinality(a..k) = k - a + 1
    BY <1>1, <2>1
  <2>3. Cardinality(a..k) <= c
    BY <2>1, <1>2, FS_Subset DEF c
  <2> QED
    BY <2>2, <2>3, <1>2
<1>4. S \subseteq a..(a + c - 1)
  BY <1>2, <1>3
<1>5. IsFiniteSet(a..(a + c - 1)) /\ Cardinality(a..(a + c - 1)) = c
  BY <1>1, <1>2
<1>6. S = a..(a + c - 1)
  BY <1>4, <1>5, FS_Subset DEF c
<1> QED
  BY <1>2, <1>6 DEF c

\* The drafts accepted are confirmed by the argmaxes.
LEMMA AcceptedMatches ==
    ASSUME NEW am
    PROVE  Accepted(am) \in 0..K /\ \A i \in 0..(Accepted(am) - 1) : draft[i] = am[i]
<1> DEFINE S == {n \in 1..K : \A i \in 0..(n - 1) : draft[i] = am[i]}
           c == Cardinality(S)
<1>1. K \in Nat /\ S \in SUBSET (1..(1 + K - 1))
  BY Constants
<1>2. \A k \in S : \A j \in 1..k : j \in S
  BY <1>1
<1>3. c = Accepted(am)
  BY DEF Accepted
<1>4. \A n \in S : \A i \in 0..(n - 1) : draft[i] = am[i]
  OBVIOUS
<1> HIDE DEF S
<1>5. c \in 0..K /\ S = 1..(1 + c - 1)
  <2>1. 1 \in Int
    OBVIOUS
  <2> QED
    BY <1>1, <1>2, <2>1, DownClosed
<1> HIDE DEF c
<1>6. \A i \in 0..(c - 1) : draft[i] = am[i]
  <2> TAKE i \in 0..(c - 1)
  <2>1. c \in S
    BY <1>1, <1>5
  <2> QED
    BY <2>1, <1>4
<1> QED
  BY <1>3, <1>5, <1>6

\* What is reused of the cached ids agrees with the prompt, and is less than all of it.
LEMMA ReusedAgrees ==
    ASSUME NEW h \in Prompts, cached \in Prompts \cup {<< >>}
    PROVE  /\ Reused(h) \in 0..(Size(h) - 1)
           /\ \A r \in 0..(Reused(h) - 1) : r \in DOMAIN cached /\ h[r] = cached[r]
<1> DEFINE S == {n \in DOMAIN h : n \in DOMAIN cached /\ \A r \in 0..n : h[r] = cached[r]}
           c == Cardinality(S)
<1>1. Size(h) \in Nat /\ Size(h) >= 1 /\ DOMAIN h = 0..(Size(h) - 1)
  BY PromptFits
<1>2. S \in SUBSET (0..(0 + Size(h) - 1))
  BY <1>1
<1>3. \A k \in S : \A j \in 0..k : j \in S
  <2>1. CASE cached = << >>
    BY <2>1
  <2>2. CASE cached \in Prompts
    <3>1. Size(cached) \in Nat /\ DOMAIN cached = 0..(Size(cached) - 1)
      BY <2>2, PromptFits
    <3> QED
      BY <3>1, <1>1
  <2> QED
    BY <2>1, <2>2
<1>4. Reused(h) = IF c >= Size(h) THEN Size(h) - 1 ELSE c
  BY DEF Reused
<1>5. \A r \in S : r \in DOMAIN cached /\ h[r] = cached[r]
  BY <1>1
<1> HIDE DEF S
<1>6. c \in 0..Size(h) /\ S = 0..(0 + c - 1)
  <2>1. 0 \in Int
    OBVIOUS
  <2> QED
    BY <1>1, <1>2, <1>3, <2>1, DownClosed
<1> HIDE DEF c
<1>7. \A r \in 0..(c - 1) : r \in S
  BY <1>6
<1> QED
  BY <1>1, <1>4, <1>5, <1>6, <1>7

\* A pass over the rows of a history continues it.
LEMMA RowsContinue ==
    ASSUME NEW base \in 0..CAP, NEW h, NEW toks, DOMAIN toks \subseteq Nat,
           \A r \in 0..(base - 1) : h[r] \in Token,
           \A p \in 0..(base - 1) : kv[p] = Prefix(h, p)
    PROVE  RowsOf(base, toks) =
             [i \in DOMAIN toks |->
                [r \in 0..(base + i) |-> IF r < base THEN h[r] ELSE toks[r - base]]]
<1>1. CASE base = 0
  BY <1>1 DEF RowsOf
<1>2. CASE base # 0
  <2>1. base - 1 \in 0..(base - 1) /\ base \in 1..CAP /\ CAP \in Nat
    BY <1>2, Constants
  <2>2. kv[base - 1] = Prefix(h, base - 1)
    BY <2>1
  <2>3. Prefix(h, base - 1) \in [0..(base - 1) -> Token]
    BY DEF Prefix
  <2>4. Prefix(h, base - 1) # Junk
    BY <2>1, <2>3, IsHistory
  <2>5. \A p \in 0..(base - 1) : kv[p] = Prefix(kv[base - 1], p)
    BY <2>1, <2>2, PrefixPrefix
  <2>6. \A r \in 0..(base - 1) : kv[base - 1][r] = h[r]
    BY <2>2 DEF Prefix
  <2> DEFINE g == kv[base - 1]
  <2>7. RowsOf(base, toks) =
          [i \in DOMAIN toks |->
             [r \in 0..(base + i) |-> IF r < base THEN g[r] ELSE toks[r - base]]]
    BY <1>2, <2>2, <2>4, <2>5 DEF RowsOf
  <2> HIDE DEF g
  <2>8. \A i \in DOMAIN toks : \A r \in 0..(base + i) : r < base => g[r] = h[r]
    BY <2>1, <2>6 DEF g
  <2> QED
    BY <2>7, <2>8
<1> QED
  BY <1>1, <1>2

\* The text of a request: its tokens, and what it depends on.
LEMMA TextTokens ==
    ASSUME TypeOK, NEW c \in Clients, req[c] \in Prompts,
           NEW n \in 0..(Size(req[c]) + Len(resp[c]))
    PROVE  /\ Text(c, n) \in [0..(n - 1) -> Token]
           /\ \A p \in 0..(n - 1) : Text(c, p + 1) = Prefix(Text(c, n), p)
<1>1. /\ Size(req[c]) \in Nat /\ req[c] \in [0..(Size(req[c]) - 1) -> Token]
      /\ resp[c] \in Seq(Token) /\ Len(resp[c]) \in Nat
      /\ \A i \in 1..Len(resp[c]) : resp[c][i] \in Token
  BY PromptFits, ElementOfSeq, LenProperties DEF TypeOK
<1>2. \A q \in 0..(n - 1) :
        (IF q < Size(req[c]) THEN req[c][q] ELSE resp[c][q - Size(req[c]) + 1]) \in Token
  <2> TAKE q \in 0..(n - 1)
  <2>1. CASE q < Size(req[c])
    BY <1>1, <2>1
  <2>2. CASE ~(q < Size(req[c]))
    <3>1. q - Size(req[c]) + 1 \in 1..Len(resp[c])
      BY <1>1, <2>2
    <3> QED
      BY <1>1, <2>2, <3>1
  <2> QED
    BY <2>1, <2>2
<1> QED
  BY <1>2 DEF Text, Prefix

-----------------------------------------------------------------------------
(* The initial state and the steps of the handlers. *)

LEMMA InductiveInit == Init => Inductive
<1> SUFFICES ASSUME Init
             PROVE  Inductive
  OBVIOUS
<1>1. TypeOK
  <2>1. \A p \in Positions : {kv[p], taps[p]} \subseteq Histories \cup {Junk}
    BY DEF Init
  <2>2. << >> \in Seq(Token)
    BY EmptySeq
  <2>3. \A c \in Clients : st[c] # "serving" /\ mtx # c
    BY Constants DEF Init
  <2>4. tok \in Token
    BY Constants DEF Init
  <2>5. /\ req \in [Clients -> Prompts \cup {<< >>}] /\ resp \in [Clients -> Seq(Token)]
        /\ st \in [Clients -> {"idle", "waiting", "serving"}] /\ mtx \in Clients \cup {NoClient}
    BY <2>2 DEF Init
  <2>6. /\ asked \in 0..MaxRequests /\ vlen \in 0..CAP /\ ctxdone \in 0..CAP
        /\ ngen \in 0..MaxTokens
    BY Constants DEF Init
  <2>7. /\ phase \in {"prefill", "propose", "verify", "accept"}
        /\ cached \in Prompts \cup {<< >>} /\ stop \in BOOLEAN
    BY DEF Init
  <2> QED
    BY <2>1, <2>3, <2>4, <2>5, <2>6, <2>7 DEF TypeOK
<1>2. WritesFit /\ ContinuesOK /\ RoundOK
  BY DEF Init, WritesFit, ContinuesOK, RoundOK, Going
<1>3. AskedOK
  BY DEF Init, AskedOK
<1>4. \A c \in Clients : resp[c] = << >> /\ Len(resp[c]) = 0
  BY EmptySeq DEF Init
<1>5. ReplyBounded /\ RepliesGreedy
  BY <1>4, Constants DEF ReplyBounded, RepliesGreedy
<1>6. PrefixSound
  BY DEF Init, PrefixSound
<1> QED
  BY <1>1, <1>2, <1>3, <1>5, <1>6 DEF Inductive, ChatInv

\* A request clears its own handler's last reply and nothing else.
LEMMA AskStep ==
    ASSUME Inductive, NEW c \in Clients, Ask(c)
    PROVE  Inductive'
<1>1. /\ TypeOK /\ WritesFit /\ ReplyBounded /\ AskedOK /\ ContinuesOK /\ RoundOK
      /\ RepliesGreedy /\ PrefixSound /\ st[c] = "idle" /\ asked < MaxRequests
      /\ asked' = asked + 1 /\ st' = [st EXCEPT ![c] = "waiting"]
      /\ resp' = [resp EXCEPT ![c] = << >>]
      /\ UNCHANGED <<mtx, phase, kv, taps, vlen, cached, tok, ngen, stop, draft, blk, dkv, ctxdone>>
  BY DEF Inductive, ChatInv, Ask, target, loop, drafter
<1>2. PICK h \in Prompts : req' = [req EXCEPT ![c] = h]
  BY DEF Ask
<1>3. mtx # c
  BY <1>1 DEF TypeOK
<1>4. /\ req'[c] = h /\ resp'[c] = << >> /\ st'[c] = "waiting" /\ Len(resp'[c]) = 0
      /\ \A d \in Clients \ {c} : req'[d] = req[d] /\ resp'[d] = resp[d] /\ st'[d] = st[d]
  BY <1>1, <1>2, EmptySeq DEF TypeOK
<1>5. TypeOK'
  <2>1. asked' \in 0..MaxRequests
    BY <1>1, Constants DEF TypeOK
  <2>2. << >> \in Seq(Token)
    BY EmptySeq
  <2>3. /\ req' \in [Clients -> Prompts \cup {<< >>}] /\ resp' \in [Clients -> Seq(Token)]
        /\ st' \in [Clients -> {"idle", "waiting", "serving"}]
    BY <1>1, <1>2, <2>2 DEF TypeOK
  <2> QED
    BY <1>1, <1>3, <1>4, <2>1, <2>3 DEF TypeOK
<1>6. AskedOK'
  BY <1>1, <1>2, <1>3, <1>4 DEF AskedOK
<1>7. \A d \in Clients \ {c} : \A n : Text(d, n)' = Text(d, n)
  BY <1>4 DEF Text, Size
<1>8. ContinuesOK'
  BY <1>1, <1>3, <1>4 DEF ContinuesOK, Going, Text, Size
<1>9. RoundOK'
  <2>1. \A d \in Clients \ {c} : \A i : Verified(d, i)' = Verified(d, i)
    <3> TAKE d \in Clients \ {c}
    <3> TAKE i
    <3>1. Text(d, vlen)' = Text(d, vlen)
      BY <1>1, <1>4 DEF Text, Size
    <3> QED
      BY <1>1, <3>1 DEF Verified
  <2> QED
    BY <1>1, <1>3, <2>1 DEF RoundOK
<1>10. RepliesGreedy'
  BY <1>1, <1>4, <1>7 DEF RepliesGreedy, Size
<1>11. ReplyBounded' /\ WritesFit'
  BY <1>1, <1>4, Constants DEF ReplyBounded, WritesFit
<1>12. PrefixSound'
  BY <1>1 DEF PrefixSound
<1> QED
  BY <1>5, <1>6, <1>8, <1>9, <1>10, <1>11, <1>12 DEF Inductive, ChatInv

\* Taking the mutex: it was free, so no reply was going on.
LEMMA LockStep ==
    ASSUME Inductive, NEW c \in Clients, Lock(c)
    PROVE  Inductive'
<1>1. /\ TypeOK /\ ReplyBounded /\ AskedOK /\ RepliesGreedy /\ PrefixSound
      /\ st[c] = "waiting" /\ mtx = NoClient /\ mtx' = c /\ phase' = "prefill"
      /\ st' = [st EXCEPT ![c] = "serving"]
      /\ UNCHANGED <<asked, req, resp, kv, taps, vlen, cached, tok, ngen, stop, draft, blk, dkv, ctxdone>>
  BY DEF Inductive, ChatInv, Lock, LockFree, target, loop, drafter
<1>2. /\ st'[c] = "serving" /\ \A d \in Clients \ {c} : st'[d] = st[d] /\ st[d] # "serving"
  BY <1>1, Constants DEF TypeOK
<1>3. TypeOK'
  BY <1>1, <1>2 DEF TypeOK
<1>4. AskedOK'
  BY <1>1, <1>2 DEF AskedOK
<1>5. ContinuesOK' /\ RoundOK' /\ WritesFit'
  BY <1>1 DEF ContinuesOK, RoundOK, WritesFit, Going
<1>6. RepliesGreedy' /\ ReplyBounded'
  BY <1>1 DEF RepliesGreedy, ReplyBounded, Text, Size
<1>7. PrefixSound'
  BY <1>1 DEF PrefixSound
<1> QED
  BY <1>3, <1>4, <1>5, <1>6, <1>7 DEF Inductive, ChatInv

\* Drafting touches the draft model's cache only; any drafts will do.
LEMMA ProposeStep ==
    ASSUME Inductive, NEW c \in Clients, Propose(c)
    PROVE  Inductive'
<1>1. /\ TypeOK /\ ReplyBounded /\ AskedOK /\ ContinuesOK /\ RepliesGreedy /\ PrefixSound
      /\ mtx = c /\ phase = "propose" /\ ngen < MaxTokens /\ ~stop
      /\ ctxdone' = vlen /\ draft' \in [0..(K - 1) -> Token] /\ phase' = "verify"
      /\ UNCHANGED <<asked, st, req, mtx, resp, kv, taps, vlen, cached, tok, ngen, stop, blk>>
  BY DEF Inductive, ChatInv, Propose, handlers, target, loop
<1>2. TypeOK'
  BY <1>1 DEF TypeOK
<1>3. Going(c) /\ st[c] = "serving" /\ req[c] = cached /\ req[c] \in Prompts
      /\ vlen = Size(cached) + ngen
  BY <1>1 DEF Going, ContinuesOK, TypeOK, AskedOK
<1>4. WritesFit'
  <2>1. ngen \in Nat /\ ngen < MaxTokens /\ Size(cached) \in Nat /\ Size(cached) + MaxTokens + K <= CAP
    BY <1>1, <1>3, PromptFits DEF TypeOK
  <2> QED
    BY <1>1, <1>3, <2>1, Constants DEF WritesFit
<1>5. AskedOK'
  BY <1>1 DEF AskedOK
<1>6. ContinuesOK'
  <2>1. Going(c)'
    BY <1>1 DEF Going
  <2>2. \A d \in Clients : Going(d)' => d = c
    BY <1>1 DEF Going
  <2>3. /\ Len(resp[c]) = ngen /\ tok = Target(Text(c, vlen))
        /\ \A p \in 0..(vlen - 1) : kv[p] = Text(c, p + 1) /\ taps[p] = Text(c, p + 1)
    BY <1>3 DEF ContinuesOK, Inductive, ChatInv
  <2> QED
    BY <1>1, <1>3, <2>1, <2>2, <2>3 DEF ContinuesOK, Text, Size
<1>7. RoundOK'
  BY <1>1 DEF RoundOK
<1>8. RepliesGreedy' /\ ReplyBounded'
  BY <1>1 DEF RepliesGreedy, ReplyBounded, Text, Size
<1>9. PrefixSound'
  BY <1>1 DEF PrefixSound
<1> QED
  BY <1>2, <1>4, <1>5, <1>6, <1>7, <1>8, <1>9 DEF Inductive, ChatInv

\* The reply ends and the mutex is released.
LEMMA ReplyStep ==
    ASSUME Inductive, NEW c \in Clients, Reply(c)
    PROVE  Inductive'
<1>1. /\ TypeOK /\ ReplyBounded /\ AskedOK /\ RepliesGreedy /\ PrefixSound
      /\ mtx = c /\ phase = "propose" /\ mtx' = NoClient /\ st' = [st EXCEPT ![c] = "idle"]
      /\ UNCHANGED <<asked, req, resp, phase, kv, taps, vlen, cached, tok, ngen, stop, draft, blk, dkv, ctxdone>>
  BY DEF Inductive, ChatInv, Reply, Released, target, loop, drafter
<1>2. /\ st'[c] = "idle" /\ \A d \in Clients \ {c} : st'[d] = st[d] /\ st[d] # "serving"
  BY <1>1 DEF TypeOK
<1>3. TypeOK'
  BY <1>1, <1>2, Constants DEF TypeOK
<1>4. AskedOK'
  BY <1>1, <1>2, Constants DEF AskedOK
<1>5. ContinuesOK' /\ RoundOK' /\ WritesFit'
  BY <1>1, Constants DEF ContinuesOK, RoundOK, WritesFit, Going
<1>6. RepliesGreedy' /\ ReplyBounded'
  BY <1>1 DEF RepliesGreedy, ReplyBounded, Text, Size
<1>7. PrefixSound'
  BY <1>1 DEF PrefixSound
<1> QED
  BY <1>3, <1>4, <1>5, <1>6, <1>7 DEF Inductive, ChatInv

\* The prefill leaves rows of the prompt, whatever part of them was there before.
LEMMA PrefillStep ==
    ASSUME Inductive, NEW c \in Clients, Prefill(c)
    PROVE  Inductive'
<1> DEFINE h == req[c]
           n == Size(h)
           p == Reused(h)
           toks == [i \in 0..(n - p - 1) |-> h[p + i]]
           rows == RowsOf(p, toks)
<1>1. /\ TypeOK /\ ReplyBounded /\ AskedOK /\ RepliesGreedy /\ PrefixSound
      /\ mtx = c /\ phase = "prefill" /\ phase' = "propose"
      /\ kv' = Store(kv, p, rows) /\ taps' = Store(taps, p, rows)
      /\ vlen' = n /\ cached' = h /\ tok' \in Argmax(rows[n - p - 1])
      /\ ngen' = 0 /\ stop' = FALSE
      /\ UNCHANGED <<asked, st, req, mtx, resp, draft, blk, dkv, ctxdone>>
  BY DEF Inductive, ChatInv, Prefill, CachedAfter, handlers, drafter
<1>2. h \in Prompts /\ resp[c] = << >> /\ Len(resp[c]) = 0
  BY <1>1, EmptySeq DEF AskedOK, TypeOK
<1>3. /\ h \in Histories /\ n \in Nat /\ n >= 1 /\ DOMAIN h = 0..(n - 1)
      /\ h \in [0..(n - 1) -> Token] /\ n + MaxTokens + K <= CAP
  BY <1>2, PromptFits
<1>4. p \in 0..(n - 1) /\ \A r \in 0..(p - 1) : r \in DOMAIN cached /\ h[r] = cached[r]
  BY <1>1, <1>2, ReusedAgrees DEF TypeOK
<1>5. \A q \in 0..(p - 1) : kv[q] = Prefix(h, q) /\ taps[q] = Prefix(h, q)
  <2> TAKE q \in 0..(p - 1)
  <2>1. kv[q] = Prefix(cached, q) /\ taps[q] = Prefix(cached, q)
    BY <1>1, <1>4 DEF PrefixSound
  <2>2. \A r \in 0..q : r \in 0..(p - 1)
    BY <1>3, <1>4
  <2>3. Prefix(cached, q) = Prefix(h, q)
    BY <1>4, <2>2 DEF Prefix
  <2> QED
    BY <2>1, <2>3
<1> HIDE DEF h, n, p
<1>6. DOMAIN rows = 0..(n - p - 1) /\ \A i \in 0..(n - p - 1) : rows[i] = Prefix(h, p + i)
  <2>1. DOMAIN toks = 0..(n - p - 1)
    OBVIOUS
  <2>2. p \in 0..CAP /\ DOMAIN toks \subseteq Nat /\ \A r \in 0..(p - 1) : h[r] \in Token
    BY <1>3, <1>4, <2>1, Constants
  <2> HIDE DEF toks
  <2>3. rows = [i \in DOMAIN toks |->
                  [r \in 0..(p + i) |-> IF r < p THEN h[r] ELSE toks[r - p]]]
    BY <1>5, <2>2, RowsContinue
  <2>4. \A i \in 0..(n - p - 1) : \A r \in 0..(p + i) :
          (IF r < p THEN h[r] ELSE toks[r - p]) = h[r]
    BY <1>3, <1>4 DEF toks
  <2> QED
    BY <2>1, <2>3, <2>4 DEF Prefix
<1> HIDE DEF rows, toks
<1>7. \A q \in Positions :
        /\ q < n => kv'[q] = Prefix(h, q) /\ taps'[q] = Prefix(h, q)
        /\ ~(q < n) => kv'[q] = kv[q] /\ taps'[q] = taps[q]
  <2> TAKE q \in Positions
  <2>1. q \in Nat
    BY Constants
  <2>2. q - p \in DOMAIN rows <=> p <= q /\ q < n
    BY <1>3, <1>4, <1>6, <2>1
  <2>3. /\ kv'[q] = IF q - p \in DOMAIN rows THEN rows[q - p] ELSE kv[q]
        /\ taps'[q] = IF q - p \in DOMAIN rows THEN rows[q - p] ELSE taps[q]
    BY <1>1 DEF Store
  <2>4. CASE q < p
    BY <1>3, <1>4, <1>5, <2>1, <2>2, <2>3, <2>4
  <2>5. CASE p <= q /\ q < n
    <3>1. q - p \in 0..(n - p - 1) /\ p + (q - p) = q
      BY <1>3, <1>4, <2>1, <2>5
    <3>2. rows[q - p] = Prefix(h, q)
      BY <1>6, <3>1
    <3> QED
      BY <2>2, <2>3, <2>5, <3>2
  <2>6. CASE ~(q < n)
    BY <2>2, <2>3, <2>6
  <2> QED
    BY <1>3, <1>4, <2>1, <2>4, <2>5, <2>6
<1>8. 0..(n - 1) \subseteq Positions
  BY <1>3, Constants
<1>9. tok' = Target(h) /\ tok' \in Token
  <2>1. rows[n - p - 1] = Prefix(h, n - 1)
    <3>1. n - p - 1 \in 0..(n - p - 1) /\ p + (n - p - 1) = n - 1
      BY <1>3, <1>4
    <3> QED
      BY <1>6, <3>1
  <2>2. Prefix(h, n - 1) = h
    BY <1>3 DEF Prefix
  <2>3. n \in 1..CAP
    BY <1>3, Constants
  <2> QED
    BY <1>1, <1>3, <2>1, <2>2, <2>3, IsHistory
<1>10. \A q \in 0..(n - 1) : Prefix(h, q) \in Histories
  <2> TAKE q \in 0..(n - 1)
  <2>1. q + 1 \in 1..CAP /\ (q + 1) - 1 = q
    BY <1>3, Constants
  <2>2. Prefix(h, q) \in [0..((q + 1) - 1) -> Token]
    BY <1>3, <2>1 DEF Prefix
  <2> QED
    BY <2>1, <2>2, IsHistory
<1>11. TypeOK'
  <2>1. \A q \in Positions : {kv'[q], taps'[q]} \subseteq Histories \cup {Junk}
    <3> TAKE q \in Positions
    <3>1. q \in Nat /\ {kv[q], taps[q]} \subseteq Histories \cup {Junk}
      BY <1>1, Constants DEF TypeOK
    <3> QED
      BY <1>3, <1>7, <1>10, <3>1
  <2>2. vlen' \in 0..CAP /\ ngen' \in 0..MaxTokens
    BY <1>1, <1>3, Constants
  <2> QED
    BY <1>1, <1>2, <1>9, <2>1, <2>2 DEF TypeOK, h
<1>12. ReplyBounded' /\ WritesFit' /\ RoundOK' /\ AskedOK'
  BY <1>1 DEF ReplyBounded, WritesFit, RoundOK, AskedOK
<1>13. RepliesGreedy'
  BY <1>1 DEF RepliesGreedy, Text, Size
<1>14. PrefixSound'
  BY <1>1, <1>3, <1>7, <1>8 DEF PrefixSound
<1>15. ContinuesOK'
  <2>1. \A d \in Clients : Going(d)' => d = c
    BY <1>1 DEF Going
  <2>2. req[c] = h /\ Size(req[c]) = n
    BY DEF h, n
  <2>3. \A m \in 1..n : Text(c, m)' = Prefix(h, m - 1)
    <3> TAKE m \in 1..n
    <3>1. Text(c, m)' = [q \in 0..(m - 1) |-> IF q < n THEN h[q] ELSE resp[c][q - n + 1]]
      BY <1>1, <2>2 DEF Text, Size
    <3> QED
      BY <1>3, <3>1 DEF Prefix
  <2>4. Text(c, vlen)' = h
    <3>1. ASSUME NEW m, m = n
          PROVE  Text(c, m)' = h /\ Text(c, vlen)' = Text(c, m)'
      <4>1. m \in 1..n /\ vlen' = m
        BY <1>1, <1>3, <3>1
      <4>2. Text(c, vlen)' = Text(c, m)'
        BY <4>1 DEF Text
      <4>3. Text(c, m)' = Prefix(h, m - 1)
        BY <2>3, <4>1
      <4> QED
        BY <1>3, <3>1, <4>2, <4>3 DEF Prefix
    <3> QED
      BY <3>1
  <2>5. \A q \in 0..(vlen' - 1) : kv'[q] = Text(c, q + 1)' /\ taps'[q] = Text(c, q + 1)'
    <3> TAKE q \in 0..(vlen' - 1)
    <3>1. q + 1 \in 1..n /\ (q + 1) - 1 = q /\ q \in Positions /\ q < n
      BY <1>1, <1>3, <1>8
    <3> QED
      BY <1>7, <2>3, <3>1
  <2>6. req'[c] = cached' /\ Len(resp'[c]) = ngen' /\ vlen' = Size(cached)' + ngen'
    BY <1>1, <1>2, <1>3, <2>2 DEF Size
  <2>7. tok' = Target(Text(c, vlen)')
    BY <1>9, <2>4
  <2> QED
    BY <1>1, <2>1, <2>5, <2>6, <2>7 DEF ContinuesOK
<1> QED
  BY <1>11, <1>12, <1>13, <1>14, <1>15 DEF Inductive, ChatInv

\* What a reply that goes on has, for the steps of a round.
LEMMA GoesOn ==
    ASSUME Inductive, NEW c \in Clients, Going(c)
    PROVE  /\ req[c] = cached /\ req[c] \in Prompts /\ st[c] = "serving"
           /\ Size(cached) \in Nat /\ Size(cached) >= 1 /\ DOMAIN cached = 0..(Size(cached) - 1)
           /\ ngen \in Nat /\ ngen < MaxTokens
           /\ resp[c] \in Seq(Token) /\ Len(resp[c]) = ngen
           /\ vlen \in Nat /\ vlen = Size(cached) + ngen /\ vlen + K + 1 <= CAP
           /\ tok = Target(Text(c, vlen)) /\ tok \in Token
           /\ Text(c, vlen) \in [0..(vlen - 1) -> Token]
           /\ \A p \in 0..(vlen - 1) : /\ Text(c, p + 1) = Prefix(Text(c, vlen), p)
                                       /\ kv[p] = Prefix(Text(c, vlen), p)
                                       /\ taps[p] = Prefix(Text(c, vlen), p)
<1>1. TypeOK /\ AskedOK /\ ContinuesOK
  BY DEF Inductive, ChatInv
<1>2. /\ req[c] = cached /\ Len(resp[c]) = ngen /\ vlen = Size(cached) + ngen
      /\ tok = Target(Text(c, vlen)) /\ mtx = c /\ ngen < MaxTokens
      /\ \A p \in 0..(vlen - 1) : kv[p] = Text(c, p + 1) /\ taps[p] = Text(c, p + 1)
  BY <1>1 DEF ContinuesOK, Going
<1>3. /\ req[c] \in Prompts /\ st[c] = "serving" /\ ngen \in Nat /\ resp[c] \in Seq(Token)
      /\ tok \in Token
  BY <1>1, <1>2 DEF TypeOK, AskedOK
<1>4. /\ Size(cached) \in Nat /\ Size(cached) >= 1 /\ DOMAIN cached = 0..(Size(cached) - 1)
      /\ Size(cached) + MaxTokens + K <= CAP
  BY <1>2, <1>3, PromptFits
<1>5. vlen \in Nat /\ vlen + K + 1 <= CAP
  BY <1>2, <1>3, <1>4, Constants
<1>6. vlen \in 0..(Size(req[c]) + Len(resp[c]))
  BY <1>2, <1>5
<1>7. /\ Text(c, vlen) \in [0..(vlen - 1) -> Token]
      /\ \A p \in 0..(vlen - 1) : Text(c, p + 1) = Prefix(Text(c, vlen), p)
  BY <1>1, <1>3, <1>6, TextTokens
<1> QED
  BY <1>2, <1>3, <1>4, <1>5, <1>7

\* Every row of a verified block is a history of the text and the drafts.
LEMMA VerifiedRow ==
    ASSUME Inductive, NEW c \in Clients, Going(c), draft \in [0..(K - 1) -> Token], NEW i \in 0..K
    PROVE  Verified(c, i) \in Histories /\ Argmax(Verified(c, i)) = {Target(Verified(c, i))}
<1>1. /\ vlen \in Nat /\ vlen + K + 1 <= CAP /\ tok \in Token
      /\ Text(c, vlen) \in [0..(vlen - 1) -> Token]
  BY GoesOn
<1>2. Verified(c, i) \in [0..((vlen + i + 1) - 1) -> Token]
  <2>1. ASSUME NEW q \in 0..(vlen + i)
        PROVE  (IF q < vlen THEN Text(c, vlen)[q]
                ELSE IF q = vlen THEN tok ELSE draft[q - vlen - 1]) \in Token
    <3>1. CASE q < vlen
      BY <1>1, <3>1
    <3>2. CASE q = vlen
      BY <1>1, <3>2
    <3>3. CASE q > vlen
      <4>1. q - vlen - 1 \in 0..(K - 1)
        BY <1>1, <3>3, Constants
      <4> QED
        BY <1>1, <3>3, <4>1
    <3> QED
      BY <1>1, <3>1, <3>2, <3>3
  <2>2. (vlen + i + 1) - 1 = vlen + i
    BY <1>1, Constants
  <2> QED
    BY <2>1, <2>2 DEF Verified
<1>3. vlen + i + 1 \in 1..CAP
  BY <1>1, Constants
<1> QED
  BY <1>2, <1>3, IsHistory

\* The verify pass writes behind the text and changes nothing before it.
LEMMA VerifyStep ==
    ASSUME Inductive, NEW c \in Clients, Verify(c)
    PROVE  Inductive'
<1> DEFINE toks == [i \in 0..K |-> IF i = 0 THEN tok ELSE draft[i - 1]]
           h == Text(c, vlen)
<1>1. /\ TypeOK /\ ReplyBounded /\ AskedOK /\ ContinuesOK /\ RoundOK /\ RepliesGreedy /\ PrefixSound
      /\ mtx = c /\ phase = "verify" /\ phase' = "accept"
      /\ blk' = RowsOf(vlen, toks) /\ kv' = Store(kv, vlen, blk')
      /\ UNCHANGED <<asked, st, req, mtx, resp, taps, vlen, cached, tok, ngen, stop, draft, dkv, ctxdone>>
  BY DEF Inductive, ChatInv, Verify, handlers, loop, drafter
<1>2. Going(c) /\ draft \in [0..(K - 1) -> Token]
  BY <1>1 DEF ContinuesOK, RoundOK, Going
<1>3. /\ Size(cached) \in Nat /\ DOMAIN cached = 0..(Size(cached) - 1)
      /\ ngen \in Nat /\ vlen \in Nat /\ vlen = Size(cached) + ngen /\ vlen + K + 1 <= CAP
      /\ h \in [0..(vlen - 1) -> Token] /\ \A p \in 0..(vlen - 1) : kv[p] = Prefix(h, p)
  BY <1>2, GoesOn
<1>4. vlen \in Nat /\ vlen + K + 1 <= CAP /\ \A i \in 0..K : vlen + i \in Positions
  BY <1>3, Constants
<1>5. DOMAIN blk' = 0..K /\ \A i \in 0..K : blk'[i] = Verified(c, i)
  <2>1. DOMAIN toks = 0..K
    OBVIOUS
  <2>2. vlen \in 0..CAP /\ DOMAIN toks \subseteq Nat /\ \A r \in 0..(vlen - 1) : h[r] \in Token
    BY <1>3, <2>1, Constants
  <2> HIDE DEF h, toks
  <2>3. blk' = [i \in DOMAIN toks |->
                  [r \in 0..(vlen + i) |-> IF r < vlen THEN h[r] ELSE toks[r - vlen]]]
    <3>1. blk' = RowsOf(vlen, toks) /\ \A q \in 0..(vlen - 1) : kv[q] = Prefix(h, q)
      BY <1>1, <1>3
    <3>2. RowsOf(vlen, toks) =
            [i \in DOMAIN toks |->
               [r \in 0..(vlen + i) |-> IF r < vlen THEN h[r] ELSE toks[r - vlen]]]
      BY <2>2, <3>1, RowsContinue
    <3> QED
      BY <3>1, <3>2
  <2>4. \A i \in 0..K : \A r \in 0..(vlen + i) :
          ~(r < vlen) => toks[r - vlen] = IF r = vlen THEN tok ELSE draft[r - vlen - 1]
    <3> TAKE i \in 0..K
    <3> TAKE r \in 0..(vlen + i)
    <3> HAVE ~(r < vlen)
    <3>1. r - vlen \in 0..K /\ (r - vlen = 0 <=> r = vlen)
      BY <1>4, Constants
    <3> QED
      BY <3>1 DEF toks
  <2>5. \A i \in 0..K : \A r \in 0..(vlen + i) :
          (IF r < vlen THEN h[r] ELSE toks[r - vlen])
            = IF r < vlen THEN h[r] ELSE IF r = vlen THEN tok ELSE draft[r - vlen - 1]
    BY <2>4
  <2> QED
    BY <2>1, <2>3, <2>5 DEF Verified, h
<1> HIDE DEF toks, h
<1>6. \A q \in Positions :
        /\ ~(q - vlen \in 0..K) => kv'[q] = kv[q]
        /\ q - vlen \in 0..K => kv'[q] = blk'[q - vlen]
  BY <1>1, <1>5 DEF Store
<1>7. \A q \in 0..(vlen - 1) : q \in Positions /\ kv'[q] = kv[q]
  <2> TAKE q \in 0..(vlen - 1)
  <2>1. q \in Positions /\ ~(q - vlen \in 0..K)
    BY <1>3, Constants
  <2> QED
    BY <1>6, <2>1
<1>8. \A i \in 0..K : blk'[i] \in Histories
  BY <1>2, <1>5, VerifiedRow
<1>9. TypeOK'
  <2>1. \A q \in Positions : {kv'[q], taps'[q]} \subseteq Histories \cup {Junk}
    <3> TAKE q \in Positions
    <3>1. {kv[q], taps[q]} \subseteq Histories \cup {Junk}
      BY <1>1 DEF TypeOK
    <3> QED
      BY <1>1, <1>6, <1>8, <3>1
  <2> QED
    BY <1>1, <2>1 DEF TypeOK
<1>10. ReplyBounded' /\ WritesFit' /\ AskedOK'
  BY <1>1 DEF ReplyBounded, WritesFit, AskedOK
<1>11. RepliesGreedy'
  BY <1>1 DEF RepliesGreedy, Text, Size
<1>12. PrefixSound'
  <2>1. \A q \in DOMAIN cached : q \in 0..(vlen - 1)
    BY <1>3
  <2> QED
    BY <1>1, <1>7, <2>1 DEF PrefixSound
<1>13. \A m : Text(c, m)' = Text(c, m)
  BY <1>1 DEF Text, Size
<1>14. Text(c, vlen)' = Text(c, vlen)
  BY <1>1 DEF Text, Size
<1>15. \A d \in Clients : (Going(d)' => d = c) /\ (mtx' = d => d = c)
  BY <1>1 DEF Going
<1>16. ContinuesOK'
  <2>1. Going(c)'
    BY <1>1, <1>2 DEF Going
  <2>2. /\ req[c] = cached /\ Len(resp[c]) = ngen /\ vlen = Size(cached) + ngen
        /\ tok = Target(Text(c, vlen))
        /\ \A p \in 0..(vlen - 1) : kv[p] = Text(c, p + 1) /\ taps[p] = Text(c, p + 1)
    BY <1>1, <1>2 DEF ContinuesOK
  <2>3. Size(cached)' = Size(cached)
    BY <1>1 DEF Size
  <2> QED
    BY <1>1, <1>7, <1>13, <1>14, <1>15, <2>1, <2>2, <2>3 DEF ContinuesOK
<1>17. RoundOK'
  <2>1. \A i \in 0..K : Verified(c, i)' = Verified(c, i)
    BY <1>1, <1>14 DEF Verified
  <2>2. \A i \in 0..K : kv'[vlen + i] = blk'[i]
    <3> TAKE i \in 0..K
    <3>1. vlen + i \in Positions /\ (vlen + i) - vlen = i
      BY <1>4, Constants
    <3> QED
      BY <1>6, <3>1
  <2> QED
    BY <1>1, <1>2, <1>5, <1>15, <2>1, <2>2 DEF RoundOK
<1> QED
  BY <1>9, <1>10, <1>11, <1>12, <1>16, <1>17 DEF Inductive, ChatInv

\* What a round may emit, of n tokens: the bonus token, then accepted drafts.
LEMMA Delivered ==
    ASSUME NEW ts, NEW n \in Nat, Len(ts) = n, n >= 1, ngen \in Nat, ngen < MaxTokens,
           NEW d \in Deliveries(ts)
    PROVE  /\ d.n \in 0..n /\ ngen + d.n <= MaxTokens
           /\ d.stop \in BOOLEAN
           /\ ~d.stop => d.n >= 1 /\ (d.n = n \/ ngen + d.n = MaxTokens)
<1> DEFINE room == IF Len(ts) < MaxTokens - ngen THEN Len(ts) ELSE MaxTokens - ngen
           clear == {m \in 0..room : \A i \in 1..m : ts[i] \notin StopTokens}
<1>1. /\ room \in 1..n /\ ngen + room <= MaxTokens /\ (room = n \/ ngen + room = MaxTokens)
  BY Constants
<1>2. clear \subseteq 0..room
  OBVIOUS
<1>3. d \in {[n |-> m, stop |-> TRUE] : m \in {k \in clear : k < room}}
           \cup (IF room \in clear THEN {[n |-> room, stop |-> FALSE]} ELSE {})
  BY DEF Deliveries
<1> HIDE DEF room, clear
<1>4. CASE \E m \in clear : d = [n |-> m, stop |-> TRUE]
  BY <1>1, <1>2, <1>4, Constants
<1>5. CASE d = [n |-> room, stop |-> FALSE]
  BY <1>1, <1>5
<1> QED
  BY <1>3, <1>4, <1>5

\* Positions behind the first v of a text.
LEMMA Behind ==
    ASSUME NEW v \in Nat, NEW m \in Nat, NEW p \in Nat, p >= v, p <= v + m
    PROVE  p - v \in 0..m /\ p = v + (p - v) /\ p + 1 = v + (p - v) + 1
OBVIOUS

\* A token behind the bonus token is a draft.
LEMMA Drafted ==
    ASSUME NEW v \in Nat, NEW m \in Nat, NEW q \in Nat, q > v, q <= v + m
    PROVE  q - v + 1 \in 2..(m + 1) /\ (q - v + 1) - 2 = q - v - 1
OBVIOUS

\* The round is accepted: what it delivers and what it commits continue the text greedily.
LEMMA AcceptStep ==
    ASSUME Inductive, NEW c \in Clients, Accept(c)
    PROVE  Inductive'
<1>1. /\ TypeOK /\ ReplyBounded /\ AskedOK /\ ContinuesOK /\ RoundOK /\ RepliesGreedy /\ PrefixSound
      /\ mtx = c /\ phase = "accept" /\ phase' = "propose"
      /\ UNCHANGED <<asked, st, req, mtx, kv, cached, dkv, ctxdone>>
  BY DEF Inductive, ChatInv, Accept, handlers, drafter
<1>2. PICK am \in [0..K -> Token] :
        LET na == Accepted(am)
            ts == [i \in 1..(na + 1) |-> IF i = 1 THEN tok ELSE draft[i - 2]]
        IN  /\ \A i \in 0..K : am[i] \in Argmax(blk[i])
            /\ \E d \in Deliveries(ts) :
                 /\ resp' = [resp EXCEPT ![c] = @ \o SubSeq(ts, 1, d.n)]
                 /\ ngen' = ngen + (IF d.n = 0 THEN 1 ELSE d.n)
                 /\ stop' = d.stop
            /\ taps' = Store(taps, vlen, [i \in 0..na |-> blk[i]])
            /\ vlen' = vlen + na + 1
            /\ tok' = am[na]
  BY DEF Accept
<1> DEFINE na == Accepted(am)
           ts == [i \in 1..(na + 1) |-> IF i = 1 THEN tok ELSE draft[i - 2]]
<1>3. PICK d \in Deliveries(ts) :
        /\ resp' = [resp EXCEPT ![c] = @ \o SubSeq(ts, 1, d.n)]
        /\ ngen' = ngen + (IF d.n = 0 THEN 1 ELSE d.n)
        /\ stop' = d.stop
  BY <1>2
<1>4. PICK dn, ds : dn = d.n /\ ds = d.stop
  OBVIOUS
<1>5. /\ resp' = [resp EXCEPT ![c] = @ \o SubSeq(ts, 1, dn)]
      /\ ngen' = ngen + (IF dn = 0 THEN 1 ELSE dn)
      /\ stop' = ds
  BY <1>3, <1>4
<1>6. /\ \A i \in 0..K : am[i] \in Argmax(blk[i])
      /\ taps' = Store(taps, vlen, [i \in 0..na |-> blk[i]])
      /\ vlen' = vlen + na + 1 /\ tok' = am[na]
  BY <1>2
<1>7. Going(c) /\ draft \in [0..(K - 1) -> Token]
      /\ \A i \in 0..K : blk[i] = Verified(c, i) /\ kv[vlen + i] = blk[i]
  BY <1>1 DEF ContinuesOK, RoundOK, Going
<1>8. /\ req[c] = cached /\ req[c] \in Prompts
      /\ Size(cached) \in Nat /\ Size(cached) >= 1 /\ DOMAIN cached = 0..(Size(cached) - 1)
      /\ ngen \in Nat /\ ngen < MaxTokens /\ resp[c] \in Seq(Token) /\ Len(resp[c]) = ngen
      /\ vlen \in Nat /\ vlen = Size(cached) + ngen /\ vlen + K + 1 <= CAP
      /\ tok = Target(Text(c, vlen)) /\ tok \in Token
  BY <1>7, GoesOn
<1>9. na \in 0..K /\ \A i \in 0..(na - 1) : draft[i] = am[i]
  BY AcceptedMatches
<1>10. \A i \in 0..K : /\ Verified(c, i) \in Histories /\ blk[i] \in Histories
                      /\ am[i] = Target(Verified(c, i)) /\ am[i] \in Token
  BY <1>6, <1>7, VerifiedRow
<1> HIDE DEF na
<1>11. /\ ts \in Seq(Token) /\ Len(ts) = na + 1 /\ ts[1] = tok
      /\ \A i \in 2..(na + 1) : ts[i] = draft[i - 2] /\ ts[i] = am[i - 2]
  <2>1. \A i \in 2..(na + 1) : i - 2 \in 0..(na - 1) /\ i - 2 \in 0..(K - 1)
    BY <1>9, Constants
  <2>2. \A i \in 1..(na + 1) : i # 1 => i \in 2..(na + 1)
    BY <1>9, Constants
  <2>3. ts \in [1..(na + 1) -> Token]
    BY <1>7, <1>8, <2>1, <2>2
  <2>4. na + 1 \in Nat
    BY <1>9, Constants
  <2>5. ts \in Seq(Token) /\ Len(ts) = na + 1
    BY <2>3, <2>4
  <2>6. 1 \in 1..(na + 1)
    BY <1>9, Constants
  <2>7. \A i \in 2..(na + 1) : ts[i] = draft[i - 2]
    BY <1>9, Constants
  <2> QED
    BY <1>9, <2>1, <2>5, <2>6, <2>7
<1> HIDE DEF ts
<1>12. /\ dn \in 0..(na + 1) /\ ngen + dn <= MaxTokens /\ ds \in BOOLEAN
       /\ ~ds => dn >= 1 /\ (dn = na + 1 \/ ngen + dn = MaxTokens)
  <2>1. na + 1 \in Nat /\ na + 1 >= 1
    BY <1>9, Constants
  <2> QED
    BY <1>8, <1>11, <1>4, <2>1, Delivered
<1>13. /\ na \in Nat /\ na <= K /\ K \in Nat /\ dn \in Nat /\ dn <= na + 1
      /\ ngen \in Nat /\ ngen < MaxTokens /\ ngen + dn <= MaxTokens /\ MaxTokens \in Nat
      /\ Size(cached) \in Nat /\ vlen \in Nat /\ vlen = Size(cached) + ngen
      /\ vlen + K + 1 <= CAP /\ CAP \in Nat
  <2>1. na \in 0..K /\ dn \in 0..(na + 1)
    BY <1>9, <1>12
  <2> QED
    BY <1>8, <1>12, <2>1, Constants
<1>14. /\ resp'[c] \in Seq(Token) /\ Len(resp'[c]) = ngen + dn
       /\ \A k \in 1..ngen : resp'[c][k] = resp[c][k]
       /\ \A k \in 1..dn : resp'[c][ngen + k] = ts[k]
       /\ \A e \in Clients \ {c} : resp'[e] = resp[e]
  <2> DEFINE t == SubSeq(ts, 1, dn)
  <2>1. dn \in 0..Len(ts) /\ dn \in Nat /\ dn <= Len(ts)
    BY <1>9, <1>11, <1>12, Constants
  <2>2. t \in Seq(Token) /\ Len(t) = dn /\ \A k \in 1..dn : t[k] = ts[k]
    <3>1. 1 \in 1..(Len(ts) + 1) /\ dn \in (1 - 1)..Len(ts) /\ dn - 1 + 1 = dn
      BY <2>1
    <3>2. \A k \in 1..dn : 1 + k - 1 = k
      BY <2>1
    <3> QED
      BY <1>11, <3>1, <3>2, SubSeqProperties
  <2> HIDE DEF t
  <2>3. resp'[c] = resp[c] \o t /\ \A e \in Clients \ {c} : resp'[e] = resp[e]
    BY <1>1, <1>5 DEF TypeOK, t
  <2>4. /\ resp[c] \o t \in Seq(Token) /\ Len(resp[c] \o t) = ngen + dn
        /\ \A k \in 1..(ngen + dn) :
             (resp[c] \o t)[k] = IF k <= ngen THEN resp[c][k] ELSE t[k - ngen]
    <3>1. resp[c] \in Seq(Token) /\ Len(resp[c]) = ngen /\ t \in Seq(Token) /\ Len(t) = dn
      BY <1>8, <2>2
    <3>2. /\ resp[c] \o t \in Seq(Token) /\ Len(resp[c] \o t) = Len(resp[c]) + Len(t)
          /\ \A k \in 1..(Len(resp[c]) + Len(t)) :
               (resp[c] \o t)[k] = IF k <= Len(resp[c]) THEN resp[c][k] ELSE t[k - Len(resp[c])]
      BY <3>1, ConcatProperties
    <3> QED
      BY <3>1, <3>2
  <2>5. \A k \in 1..ngen : k \in 1..(ngen + dn) /\ k <= ngen
    BY <1>8, <2>1
  <2>6. \A k \in 1..dn : ngen + k \in 1..(ngen + dn) /\ ~(ngen + k <= ngen) /\ ngen + k - ngen = k
    BY <1>8, <2>1
  <2>7. \A k \in 1..ngen : resp'[c][k] = resp[c][k]
    BY <2>3, <2>4, <2>5
  <2>8. \A k \in 1..dn : resp'[c][ngen + k] = ts[k]
    <3> TAKE k \in 1..dn
    <3> DEFINE j == ngen + k
    <3>1. k \in Nat /\ k >= 1 /\ k <= dn /\ dn \in Nat /\ ngen \in Nat
      BY <1>13
    <3>2. j \in 1..(ngen + dn) /\ ~(j <= ngen) /\ j - ngen = k
      BY <3>1
    <3> HIDE DEF j
    <3>3. (resp[c] \o t)[j] = t[k]
      BY <2>4, <3>2
    <3>4. (resp[c] \o t)[ngen + k] = t[k]
      BY <3>3 DEF j
    <3> QED
      BY <2>2, <2>3, <3>4
  <2> QED
    BY <2>3, <2>4, <2>7, <2>8
<1>15. \A m \in 0..vlen : Text(c, m)' = Text(c, m)
  <2> TAKE m \in 0..vlen
  <2>1. Size(req[c])' = Size(cached) /\ Size(req[c]) = Size(cached) /\ req'[c] = req[c]
    BY <1>1, <1>8 DEF Size
  <2>2. \A q \in 0..(m - 1) : ~(q < Size(cached)) => q - Size(cached) + 1 \in 1..ngen
    BY <1>8
  <2> QED
    BY <1>14, <2>1, <2>2 DEF Text
<1>16. \A m \in 0..na : m < dn => \A n : n = vlen + m + 1 => Text(c, n)' = Verified(c, m)
  <2> SUFFICES ASSUME NEW m \in 0..na, m < dn, NEW n, n = vlen + m + 1
               PROVE  Text(c, n)' = Verified(c, m)
    OBVIOUS
  <2>1. n - 1 = vlen + m /\ m \in Nat /\ m + 1 <= dn /\ dn \in Nat /\ dn <= na + 1 /\ na \in Nat
    BY <1>13
  <2>2. Text(c, n)' = [q \in 0..(vlen + m) |-> IF q < Size(cached) THEN cached[q]
                                               ELSE resp'[c][q - Size(cached) + 1]]
    <3>1. Size(req[c])' = Size(cached) /\ req'[c] = cached
      BY <1>1, <1>8 DEF Size
    <3> QED
      BY <2>1, <3>1 DEF Text
  <2>3. Text(c, vlen) = [q \in 0..(vlen - 1) |-> IF q < Size(cached) THEN cached[q]
                                                 ELSE resp[c][q - Size(cached) + 1]]
    BY <1>8 DEF Text
  <2>4. ASSUME NEW q \in 0..(vlen + m)
        PROVE  (IF q < Size(cached) THEN cached[q] ELSE resp'[c][q - Size(cached) + 1])
                 = IF q < vlen THEN Text(c, vlen)[q]
                   ELSE IF q = vlen THEN tok ELSE draft[q - vlen - 1]
    <3>1. CASE q < vlen
      <4>1. q \in 0..(vlen - 1) /\ (~(q < Size(cached)) => q - Size(cached) + 1 \in 1..ngen)
        BY <1>8, <3>1
      <4> QED
        BY <1>14, <2>3, <3>1, <4>1
    <3>2. CASE q = vlen
      <4>1. ~(q < Size(cached)) /\ ~(q < vlen) /\ q - Size(cached) + 1 = ngen + 1 /\ 1 \in 1..dn
        BY <1>8, <2>1, <3>2
      <4> QED
        BY <1>11, <1>14, <3>2, <4>1
    <3>3. CASE q > vlen
      <4> DEFINE k == q - vlen + 1
      <4>1. /\ ~(q < Size(cached)) /\ ~(q < vlen) /\ q # vlen /\ q - Size(cached) + 1 = ngen + k
            /\ k \in 1..dn /\ k \in 2..(na + 1) /\ k - 2 = q - vlen - 1
        <5>1. q \in Nat /\ q <= vlen + m /\ q > vlen
          BY <1>13, <2>1, <3>3
        <5>2. /\ vlen \in Nat /\ Size(cached) \in Nat /\ ngen \in Nat /\ vlen = Size(cached) + ngen
              /\ m \in Nat /\ m + 1 <= dn /\ m <= na /\ dn \in Nat /\ na \in Nat
          BY <1>13, <2>1
        <5>3. /\ k \in 2..(m + 1) /\ k - 2 = q - vlen - 1 /\ ~(q < Size(cached))
              /\ q - Size(cached) + 1 = ngen + k
          <6>1. k \in 2..(m + 1) /\ k - 2 = q - vlen - 1
            BY <5>1, <5>2, Drafted
          <6>2. ~(q < Size(cached)) /\ q - Size(cached) + 1 = ngen + k
            BY <5>1, <5>2
          <6> QED
            BY <6>1, <6>2
        <5> HIDE DEF k
        <5>4. k \in 1..dn /\ k \in 2..(na + 1)
          BY <5>2, <5>3
        <5> QED
          BY <5>1, <5>2, <5>3, <5>4
      <4> HIDE DEF k
      <4>2. resp'[c][ngen + k] = ts[k] /\ ts[k] = draft[k - 2]
        BY <1>11, <1>14, <4>1
      <4> QED
        BY <4>1, <4>2
    <3> QED
      BY <1>8, <2>1, <3>1, <3>2, <3>3
  <2> QED
    BY <2>2, <2>4 DEF Verified
<1>17. /\ RepliesGreedy'
  <2>1. ASSUME NEW e \in Clients \ {c}, NEW n \in 1..Len(resp'[e])
        PROVE  resp'[e][n] = Target(Text(e, Size(req[e]) + n - 1)')
    <3>1. resp'[e] = resp[e] /\ req'[e] = req[e]
      BY <1>1, <1>14
    <3>2. Text(e, Size(req[e]) + n - 1)' = Text(e, Size(req[e]) + n - 1)
      BY <3>1 DEF Text, Size
    <3> QED
      BY <1>1, <3>1, <3>2 DEF RepliesGreedy
  <2>2. ASSUME NEW n \in 1..Len(resp'[c])
        PROVE  resp'[c][n] = Target(Text(c, Size(req[c]) + n - 1)')
    <3> DEFINE m == Size(cached) + n - 1
    <3>1. n \in 1..(ngen + dn) /\ dn \in Nat /\ dn <= na + 1 /\ na \in Nat
      BY <1>9, <1>12, <1>14, Constants
    <3>2. Text(c, Size(req[c]) + n - 1)' = Text(c, m)'
      BY <1>1, <1>8 DEF Text, Size
    <3>3. CASE n <= ngen
      <4>1. m \in 0..vlen /\ n \in 1..ngen
        BY <1>8, <3>1, <3>3
      <4>2. resp[c][n] = Target(Text(c, m))
        BY <1>1, <1>8, <4>1 DEF RepliesGreedy
      <4>3. \A k : k = m => Text(c, k)' = Text(c, k)
        BY <1>15, <4>1
      <4>4. Text(c, m)' = Text(c, m)
        BY <1>1, <4>3 DEF Size
      <4> QED
        BY <1>14, <3>2, <4>1, <4>2, <4>4
    <3>4. CASE n = ngen + 1
      <4>1. m = vlen /\ 1 \in 1..dn /\ m \in 0..vlen
        BY <1>8, <3>1, <3>4
      <4>2. \A k : k = m => Text(c, k)' = Text(c, k)
        BY <1>15, <4>1
      <4>3. Text(c, m)' = Text(c, m)
        BY <1>1, <4>2 DEF Size
      <4> QED
        BY <1>8, <1>11, <1>14, <3>2, <3>4, <4>1, <4>3
    <3>5. CASE n > ngen + 1
      <4> DEFINE k == n - ngen
      <4>1. /\ n = ngen + k /\ k \in 1..dn /\ k \in 2..(na + 1) /\ k - 2 \in 0..na /\ k - 2 < dn
            /\ m = vlen + (k - 2) + 1 /\ k - 2 \in 0..K
        BY <1>13, <3>1, <3>5
      <4>2. resp'[c][n] = Target(Verified(c, k - 2))
        BY <1>10, <1>11, <1>14, <4>1
      <4>3. \A j : j = m => Text(c, j)' = Verified(c, k - 2)
        BY <1>16, <4>1
      <4>4. Text(c, m)' = Verified(c, k - 2)
        BY <1>1, <4>3 DEF Size
      <4> QED
        BY <3>2, <4>2, <4>4
    <3> QED
      BY <1>8, <3>1, <3>3, <3>4, <3>5
  <2> QED
    BY <2>1, <2>2 DEF RepliesGreedy
<1>18. \A q \in Positions : taps'[q] = IF q - vlen \in 0..na THEN blk[q - vlen] ELSE taps[q]
  <2>1. DOMAIN [i \in 0..na |-> blk[i]] = 0..na
    OBVIOUS
  <2> QED
    BY <1>6, <2>1 DEF Store
<1>19. /\ ngen' \in 0..MaxTokens /\ stop' \in BOOLEAN /\ vlen' \in 0..CAP /\ tok' \in Token
       /\ Len(resp'[c]) <= MaxTokens
  <2>1. na \in 0..K /\ dn \in 0..(na + 1) /\ ngen + dn <= MaxTokens /\ ds \in BOOLEAN
    BY <1>9, <1>12
  <2>2. am[na] \in Token
    BY <1>10, <2>1
  <2> QED
    <3>1. ngen' \in 0..MaxTokens
      BY <1>5, <1>13
    <3>2. vlen' \in 0..CAP
      BY <1>6, <1>13
    <3>3. Len(resp'[c]) <= MaxTokens
      BY <1>14, <1>13
    <3> QED
      BY <1>5, <1>6, <2>1, <2>2, <3>1, <3>2, <3>3
<1>20. TypeOK'
  <2>1. \A q \in Positions : {kv'[q], taps'[q]} \subseteq Histories \cup {Junk}
    <3> TAKE q \in Positions
    <3>1. {kv[q], taps[q]} \subseteq Histories \cup {Junk} /\ \A i \in 0..na : i \in 0..K
      BY <1>1, <1>9, Constants DEF TypeOK
    <3> QED
      BY <1>1, <1>10, <1>18, <3>1
  <2>2. resp' \in [Clients -> Seq(Token)]
    <3>1. DOMAIN resp' = Clients /\ resp' = [e \in Clients |-> resp'[e]]
      BY <1>1, <1>5 DEF TypeOK
    <3>2. \A e \in Clients : resp'[e] \in Seq(Token)
      BY <1>1, <1>14 DEF TypeOK
    <3> QED
      BY <3>1, <3>2
  <2> QED
    BY <1>1, <1>19, <2>1, <2>2 DEF TypeOK
<1>21. ReplyBounded' /\ WritesFit' /\ AskedOK' /\ RoundOK'
  <2>1. st[c] = "serving"
    BY <1>1 DEF TypeOK
  <2>2. ReplyBounded'
    BY <1>1, <1>14, <1>19 DEF ReplyBounded
  <2>3. AskedOK'
    BY <1>1, <1>14, <2>1 DEF AskedOK
  <2> QED
    BY <1>1, <2>2, <2>3 DEF WritesFit, RoundOK
<1>22. PrefixSound'
  <2>1. \A q \in DOMAIN cached : q \in Positions /\ ~(q - vlen \in 0..na)
    BY <1>8, <1>9, Constants
  <2> QED
    BY <1>1, <1>18, <2>1 DEF PrefixSound
<1>23. ContinuesOK'
  <2> SUFFICES ASSUME NEW e \in Clients, Going(e)'
               PROVE  /\ req'[e] = cached' /\ Len(resp'[e]) = ngen'
                      /\ vlen' = Size(cached)' + ngen'
                      /\ tok' = Target(Text(e, vlen)')
                      /\ \A p \in 0..(vlen' - 1) : kv'[p] = Text(e, p + 1)' /\ taps'[p] = Text(e, p + 1)'
    BY <1>1 DEF ContinuesOK
  <2>1. e = c /\ ngen' < MaxTokens /\ ~stop'
    BY <1>1 DEF Going
  <2>2. dn = na + 1 /\ ngen' = ngen + na + 1
    <3>1. ~ds /\ ngen' = ngen + (IF dn = 0 THEN 1 ELSE dn)
      BY <1>5, <2>1
    <3>2. dn >= 1 /\ (dn = na + 1 \/ ngen + dn = MaxTokens)
      BY <1>12, <3>1
    <3> QED
      BY <1>13, <2>1, <3>1, <3>2
  <2>3. na \in Nat /\ na < dn /\ na \in 0..na
    BY <1>9, <2>2, Constants
  <2>4. \A m : m = vlen' => Text(c, vlen)' = Text(c, m)'
    BY DEF Text
  <2>5. Text(c, vlen)' = Verified(c, na)
    <3>1. \A m : m = vlen + na + 1 => Text(c, m)' = Verified(c, na)
      BY <1>16, <2>3
    <3> QED
      BY <1>6, <2>4, <3>1
  <2>6. tok' = Target(Text(c, vlen)')
    BY <1>6, <1>9, <1>10, <2>5
  <2>7. ASSUME NEW p \in 0..(vlen' - 1)
        PROVE  kv'[p] = Text(c, p + 1)' /\ taps'[p] = Text(c, p + 1)'
    <3>1. p \in Positions /\ p \in Nat
      BY <1>6, <1>8, <1>9, Constants
    <3>2. CASE p < vlen
      <4>1. p \in 0..(vlen - 1) /\ p + 1 \in 0..vlen /\ ~(p - vlen \in 0..na)
        BY <1>8, <1>9, <3>1, <3>2, Constants
      <4>2. kv[p] = Text(c, p + 1) /\ taps[p] = Text(c, p + 1)
        BY <1>1, <1>7, <4>1 DEF ContinuesOK
      <4> QED
        BY <1>1, <1>15, <1>18, <3>1, <4>1, <4>2
    <3>3. CASE ~(p < vlen)
      <4> DEFINE i == p - vlen
      <4>1. i \in 0..na /\ i \in 0..K /\ i < dn /\ p + 1 = vlen + i + 1 /\ p = vlen + i
        <5>1. vlen' = vlen + na + 1 /\ p \in Nat /\ p <= vlen' - 1 /\ dn = na + 1 /\ p >= vlen
          BY <1>6, <1>13, <2>2, <3>1, <3>3
        <5>2. vlen \in Nat /\ na \in Nat /\ na <= K /\ K \in Nat /\ p <= vlen + na
          BY <1>13, <5>1
        <5>3. i \in 0..na /\ p = vlen + i /\ p + 1 = vlen + i + 1
          BY <5>1, <5>2, Behind
        <5> HIDE DEF i
        <5>4. i \in 0..K /\ i < dn
          BY <5>1, <5>2, <5>3
        <5> QED
          BY <5>3, <5>4
      <4>2. kv[p] = Verified(c, i) /\ taps'[p] = Verified(c, i)
        BY <1>7, <1>18, <3>1, <4>1
      <4>3. Text(c, p + 1)' = Verified(c, i)
        BY <1>16, <4>1
      <4> QED
        BY <1>1, <4>2, <4>3
    <3> QED
      BY <3>2, <3>3
  <2>8. req'[c] = cached' /\ Len(resp'[c]) = ngen' /\ vlen' = Size(cached)' + ngen'
    <3>1. Size(cached)' = Size(cached)
      BY <1>1 DEF Size
    <3> QED
      BY <1>1, <1>6, <1>8, <1>14, <1>13, <2>2, <3>1
  <2> QED
    BY <2>1, <2>6, <2>7, <2>8
<1> QED
  BY <1>17, <1>20, <1>21, <1>22, <1>23 DEF Inductive, ChatInv

-----------------------------------------------------------------------------
LEMMA InductiveNext == Inductive /\ [Next]_vars => Inductive'
<1> SUFFICES ASSUME Inductive, [Next]_vars
             PROVE  Inductive'
  OBVIOUS
<1>1. ASSUME NEW c \in Clients, Ask(c) \/ Serve(c)
      PROVE  Inductive'
  BY <1>1, AskStep, LockStep, PrefillStep, ProposeStep, VerifyStep, AcceptStep, ReplyStep DEF Serve
<1>2. CASE UNCHANGED vars
  <2>1. TypeOK' /\ WritesFit' /\ ReplyBounded' /\ AskedOK'
    BY <1>2 DEF vars, Inductive, ChatInv, TypeOK, WritesFit, ReplyBounded, AskedOK
  <2>2. ContinuesOK' /\ RoundOK'
    <3>1. \A c \in Clients : /\ Text(c, vlen)' = Text(c, vlen) /\ Going(c)' = Going(c)
                             /\ \A p : Text(c, p)' = Text(c, p)
      BY <1>2 DEF vars, Going, Text, Size
    <3>2. \A c \in Clients : \A i \in 0..K : Verified(c, i)' = Verified(c, i)
      BY <1>2, <3>1 DEF vars, Verified
    <3>3. Size(cached)' = Size(cached)
      BY <1>2 DEF vars, Size
    <3>4. ContinuesOK'
      BY <1>2, <3>1, <3>3 DEF vars, Inductive, ChatInv, ContinuesOK
    <3> QED
      BY <1>2, <3>2, <3>4 DEF vars, Inductive, ChatInv, RoundOK
  <2>3. RepliesGreedy' /\ PrefixSound'
    BY <1>2 DEF vars, Inductive, RepliesGreedy, PrefixSound, Text, Size
  <2> QED
    BY <2>1, <2>2, <2>3 DEF Inductive, ChatInv
<1> QED
  BY <1>1, <1>2 DEF Next

LEMMA InductiveHolds == Spec => []Inductive
<1> QED
  BY InductiveInit, InductiveNext, PTL DEF Spec

\* One handler at most is inside the mutex, every pass fits the KV cache, no reply exceeds
\* max_tokens, and what the caches hold, what is counted and what was delivered agree
\* (gemma ref 740-792, 918).
THEOREM ChatInvHolds == Spec => []ChatInv
<1>1. Inductive => ChatInv
  BY DEF Inductive
<1> QED
  BY <1>1, InductiveHolds, PTL

\* Every reply is the greedy continuation of its own prompt, whatever was drafted, reused or
\* asked by others, for any number of clients and requests (gemma ref 740-809).
THEOREM RepliesGreedyHolds == Spec => []RepliesGreedy
<1>1. Inductive => RepliesGreedy
  BY DEF Inductive
<1> QED
  BY <1>1, InductiveHolds, PTL

\* The rows a later request may reuse are those of the cached prompt (gemma ref 796-806).
THEOREM PrefixSoundHolds == Spec => []PrefixSound
<1>1. Inductive => PrefixSound
  BY DEF Inductive
<1> QED
  BY <1>1, InductiveHolds, PTL

=============================================================================
