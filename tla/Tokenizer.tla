----------------------------- MODULE Tokenizer -----------------------------
(***************************************************************************)
(* include/tokenizer.h: byte-pair encoding by ranked merges with byte      *)
(* fallback, and decoding.                                                 *)
(*                                                                         *)
(* A text is a sequence of bytes; the space mark U+2581 is one symbol,     *)
(* Mark, here. The other symbols may be lead or trailing bytes.            *)
(***************************************************************************)
EXTENDS Integers, SequencesExt

CONSTANTS
    Byte, Space, Mark,
    Lead(_),    \* u8len: length of the character a byte begins
    Str,        \* vocabulary: token -> its bytes
    ByteOf,     \* the <0xXX> tokens: token -> its byte
    Control,    \* <|x> and <x|> tokens, which decode skips
    Merges      \* merges by rank: sequence of [a, b, ab], tokens

Token == DOMAIN Str \cup DOMAIN ByteOf \cup Control
Vocab(s) == {t \in DOMAIN Str : Str[t] = s}

\* A merge joins what its parts spell, and parts come from single characters or
\* from merges of lower rank, as training produces them.
ASSUME TokenizerAssumption ==
    /\ {Space, Mark} \subseteq Byte
    /\ \A b \in Byte : Lead(b) \in Nat \ {0}
    /\ \A s, t \in DOMAIN Str : Str[s] = Str[t] => s = t
    /\ \A i \in DOMAIN Merges :
         /\ Str[Merges[i].ab] = Str[Merges[i].a] \o Str[Merges[i].b]
         /\ \A p \in {Merges[i].a, Merges[i].b} :
              Len(Str[p]) > 1 => \E j \in 1..(i - 1) : Merges[j].ab = p
         /\ \A j \in DOMAIN Merges : Merges[j].a = Merges[i].a /\ Merges[j].b = Merges[i].b => j = i

-----------------------------------------------------------------------------
\* Bytes that make whole characters, as in any JSON string.
RECURSIVE Whole(_)
Whole(t) ==
    t = << >> \/ /\ Lead(t[1]) <= Len(t)
                 /\ \A i \in 2..Lead(t[1]) : Lead(t[i]) = 1
                 /\ Whole(SubSeq(t, Lead(t[1]) + 1, Len(t)))

\* encode_text: a space becomes the mark.
Normal(t) == [i \in DOMAIN t |-> IF t[i] = Space THEN Mark ELSE t[i]]

\* The tokens of one character: its own, or one per byte.
SymbolsFirstByte(ch) ==
    IF Vocab(ch) # {} THEN <<CHOOSE t \in Vocab(ch) : TRUE>>
    ELSE <<CHOOSE t \in DOMAIN ByteOf : ByteOf[t] = ch[1]>>
Symbols(ch) ==
    IF Vocab(ch) # {} THEN <<CHOOSE t \in Vocab(ch) : TRUE>>
    ELSE [i \in DOMAIN ch |-> CHOOSE t \in DOMAIN ByteOf : ByteOf[t] = ch[i]]

RECURSIVE Split(_)
Split(t) ==
    IF t = << >> THEN << >>
    ELSE LET n == Lead(t[1])
         IN  Symbols(SubSeq(t, 1, n)) \o Split(SubSeq(t, n + 1, Len(t)))

\* bpe: the adjacent pairs that merge, the leftmost of lowest rank, and a merge.
RankOf(s, k) == CHOOSE i \in DOMAIN Merges : Merges[i].a = s[k] /\ Merges[i].b = s[k + 1]
Pairs(s) == {k \in 1..(Len(s) - 1) : \E i \in DOMAIN Merges : Merges[i].a = s[k] /\ Merges[i].b = s[k + 1]}
BestRightmost(s) ==
    CHOOSE k \in Pairs(s) : \A j \in Pairs(s) \ {k} :
        RankOf(s, k) < RankOf(s, j) \/ (RankOf(s, k) = RankOf(s, j) /\ j < k)
Best(s) ==
    CHOOSE k \in Pairs(s) : \A j \in Pairs(s) \ {k} :
        RankOf(s, k) < RankOf(s, j) \/ (RankOf(s, k) = RankOf(s, j) /\ k < j)
MergeAt(s, k) == SubSeq(s, 1, k - 1) \o <<Merges[RankOf(s, k)].ab>> \o SubSeq(s, k + 2, Len(s))

\* decode: control tokens are skipped, the mark is a space again.
Spelled(t) ==
    IF t \in DOMAIN ByteOf THEN <<ByteOf[t]>>
    ELSE IF t \in Control THEN << >>
    ELSE [i \in DOMAIN Str[t] |-> IF Str[t][i] = Mark THEN Space ELSE Str[t][i]]
Decode(ids) == FlattenSeq([i \in DOMAIN ids |-> Spelled(ids[i])])

-----------------------------------------------------------------------------
\* The textbook reading of a merge list: one rank after the other, each applied
\* to the whole sequence from left to right.
MergeAll(s, m) ==
    FoldLeft(LAMBDA acc, t : IF acc # << >> /\ Last(acc) = m.a /\ t = m.b
                             THEN Append(Front(acc), m.ab) ELSE Append(acc, t), << >>, s)
ByRank(s) == FoldLeft(MergeAll, s, Merges)

=============================================================================
