------------------------ MODULE ForwardDriver_proofs ------------------------
(***************************************************************************)
(* ForwardInv of ForwardDriver is inductive, for every checkpoint, set of  *)
(* files on disk, mapping, split of the reads, number of layers and amount *)
(* of memory; ServesOwnBytes and ForwardRight follow.                      *)
(***************************************************************************)
EXTENDS ForwardDriver, FiniteSetTheorems, SequenceTheorems, TLAPS

-----------------------------------------------------------------------------
(* The weight store. *)

LEMMA StoreConstants ==
    /\ Shard \in [Name -> File] /\ Kept \subseteq Name /\ DOMAIN Span \subseteq Name
    /\ Bytes \in [File -> Nat] /\ HeaderLen \in Nat /\ HeaderLen >= 1 /\ MaxAddr \in Nat
    /\ \A n \in Name : Shard[n] \in File
    /\ \A n \in DOMAIN Span :
         Span[n].off \in Nat /\ Span[n].n \in Nat /\ Span[n].n >= 1
         /\ Span[n].off + Span[n].n <= Bytes[Shard[n]]
BY StoreAssumption

LEMMA StoreInit == InitStore => StoreOK
<1> SUFFICES ASSUME InitStore
             PROVE  StoreOK
  OBVIOUS
<1>1. /\ present \subseteq File /\ load = "open" /\ todo = Kept
      /\ base = << >> /\ tensors = << >> /\ dev = << >>
      /\ buf = [f \in File |-> [i \in 0..(Bytes[f] - 1) |-> Stale]]
      /\ got = [f \in File |-> 0]
  BY DEF InitStore
<1>2. DOMAIN base = {} /\ DOMAIN tensors = {} /\ DOMAIN dev = {}
  BY <1>1
<1>3. MapsOK
  BY <1>1, <1>2 DEF MapsOK
<1>4. TensorsOK
  BY <1>1, <1>2 DEF TensorsOK
<1>5. BuffersOK
  BY <1>1, StoreConstants DEF BuffersOK
<1> QED
  BY <1>1, <1>3, <1>4, <1>5 DEF StoreOK

\* Mapping a shard apart from the others.
LEMMA OpenShardStep ==
    ASSUME StoreOK, NEW n \in Name, OpenShard(n)
    PROVE  StoreOK'
<1>1. /\ present \subseteq File /\ MapsOK /\ TensorsOK /\ BuffersOK
      /\ load = "open" /\ n \in todo /\ todo' = todo \ {n} /\ tensors = << >>
      /\ UNCHANGED <<present, load, tensors, buf, got, dev>>
  BY DEF StoreOK, OpenShard, TensorsOK
<1>2. \/ /\ Shard[n] \in DOMAIN base \/ Shard[n] \notin present
         /\ base' = base
      \/ /\ Shard[n] \notin DOMAIN base /\ Shard[n] \in present
         /\ \E b \in HeaderLen..(MaxAddr - Bytes[Shard[n]]) :
              /\ \A g \in DOMAIN base : Mapped(Shard[n], b) \cap Mapped(g, base[g]) = {}
              /\ base' = Emplace(base, Shard[n], b)
  BY DEF OpenShard
<1>3. /\ MapsOK' /\ DOMAIN base \subseteq DOMAIN base'
      /\ \A f \in DOMAIN base : base'[f] = base[f]
  <2>1. CASE base' = base
    <3>1. CASE Shard[n] \in DOMAIN base \/ Shard[n] \notin present
      BY <1>1, <2>1, <3>1 DEF MapsOK, Mapped
    <3>2. CASE \E b : base' = Emplace(base, Shard[n], b)
      <4>1. Shard[n] \in DOMAIN base
        BY <2>1, <3>2 DEF Emplace
      <4> QED
        BY <3>1, <4>1
    <3> QED
      BY <1>2, <3>1, <3>2
  <2>2. CASE Shard[n] \notin DOMAIN base /\ Shard[n] \in present /\ base' # base
    <3>1. PICK b \in HeaderLen..(MaxAddr - Bytes[Shard[n]]) :
              /\ \A g \in DOMAIN base : Mapped(Shard[n], b) \cap Mapped(g, base[g]) = {}
              /\ base' = Emplace(base, Shard[n], b)
      BY <1>2, <2>2
    <3>2. /\ DOMAIN base' = DOMAIN base \cup {Shard[n]} /\ base'[Shard[n]] = b
          /\ \A f \in DOMAIN base : base'[f] = base[f]
      BY <2>2, <3>1 DEF Emplace
    <3>3. b \in Nat
      <4>1. Shard[n] \in File
        BY StoreConstants
      <4>2. HeaderLen \in Nat /\ MaxAddr \in Nat /\ Bytes[Shard[n]] \in Nat
        BY <4>1, StoreConstants
      <4> QED
        BY <3>1, <4>2
    <3>4. \A f \in DOMAIN base' : base'[f] \in Nat
      BY <1>1, <3>2, <3>3 DEF MapsOK
    <3>5. ASSUME NEW f \in DOMAIN base', NEW g \in DOMAIN base', f # g
          PROVE  Mapped(f, base'[f]) \cap Mapped(g, base'[g]) = {}
      <4>1. CASE f \in DOMAIN base /\ g \in DOMAIN base
        BY <1>1, <3>2, <3>5, <4>1 DEF MapsOK
      <4>2. CASE f = Shard[n] /\ g \in DOMAIN base
        BY <3>1, <3>2, <4>2
      <4>3. CASE f \in DOMAIN base /\ g = Shard[n]
        BY <3>1, <3>2, <4>3
      <4> QED
        BY <3>2, <3>5, <4>1, <4>2, <4>3
    <3> QED
      BY <1>1, <2>2, <3>2, <3>4, <3>5 DEF MapsOK, Mapped
  <2> QED
    BY <1>2, <2>1, <2>2
<1>4. TensorsOK'
  <2>1. \A k : \A m : Names(m, k) => Names(m, k)'
    BY <1>3 DEF Names
  <2> QED
    BY <1>1, <2>1 DEF TensorsOK
<1>5. BuffersOK'
  BY <1>1 DEF BuffersOK
<1> QED
  BY <1>1, <1>3, <1>4, <1>5 DEF StoreOK

\* Resolving a name keeps the first tensor of each internal name.
LEMMA ResolveStep ==
    ASSUME StoreOK, NEW n \in Name, Resolve(n)
    PROVE  StoreOK'
<1>1. /\ present \subseteq File /\ MapsOK /\ TensorsOK /\ BuffersOK
      /\ load = "resolve" /\ n \in todo /\ todo' = todo \ {n} /\ n \in Kept
      /\ UNCHANGED <<present, base, buf, got, dev>>
  BY DEF StoreOK, Resolve, MapsOK
<1>2. \/ Shard[n] \notin DOMAIN base /\ UNCHANGED <<load, tensors>>
      \/ /\ Shard[n] \in DOMAIN base /\ n \in DOMAIN Span
         /\ tensors' = Emplace(tensors, Key(n), Tensor(n)) /\ UNCHANGED load
      \/ Shard[n] \in DOMAIN base /\ load' = "failed" /\ UNCHANGED tensors
  BY DEF Resolve
<1>3. MapsOK' /\ BuffersOK' /\ load' \in {"resolve", "failed"}
  BY <1>1, <1>2 DEF MapsOK, BuffersOK, Mapped
<1>4. \A k, m : /\ Names(m, k) => Names(m, k)'
                /\ (Tensor(m))' = Tensor(m)
  BY <1>1 DEF Names, Tensor
<1>5. TensorsOK'
  <2>1. CASE UNCHANGED tensors /\ Shard[n] \notin DOMAIN base /\ UNCHANGED load
    <3>1. \A i \in Kept : Shard[i] \in DOMAIN base /\ i \notin todo' => Key(i) \in DOMAIN tensors
      BY <1>1, <2>1 DEF TensorsOK
    <3> QED
      BY <1>1, <1>4, <2>1, <3>1 DEF TensorsOK
  <2>2. CASE UNCHANGED tensors /\ load' = "failed"
    BY <1>1, <1>4, <2>2 DEF TensorsOK
  <2>3. CASE /\ Shard[n] \in DOMAIN base /\ n \in DOMAIN Span
             /\ tensors' = Emplace(tensors, Key(n), Tensor(n)) /\ UNCHANGED load
    <3>1. /\ DOMAIN tensors' = DOMAIN tensors \cup {Key(n)}
          /\ \A k \in DOMAIN tensors : tensors'[k] = tensors[k]
          /\ Key(n) \notin DOMAIN tensors => tensors'[Key(n)] = Tensor(n)
      BY <2>3 DEF Emplace
    <3>2. ASSUME NEW k \in DOMAIN tensors'
          PROVE  \E m \in Kept : Names(m, k)' /\ tensors'[k] = (Tensor(m))'
      <4>1. CASE k \in DOMAIN tensors
        BY <1>1, <1>4, <3>1, <4>1 DEF TensorsOK
      <4>2. CASE k \notin DOMAIN tensors
        <5>1. k = Key(n) /\ tensors'[k] = Tensor(n) /\ Names(n, k)
          BY <1>1, <2>3, <3>1, <4>2 DEF Names
        <5> QED
          BY <1>1, <1>4, <5>1
      <4> QED
        BY <4>1, <4>2
    <3>3. \A k \in DOMAIN dev : \E m \in Kept :
            Names(m, k)' /\ dev'[k] = [file |-> Shard[m], off |-> Span[m].off, n |-> Span[m].n]
      BY <1>1, <1>4 DEF TensorsOK
    <3>4. \A i \in Kept : Shard[i] \in DOMAIN base /\ i \notin todo' => Key(i) \in DOMAIN tensors'
      <4>1. \A i \in Kept : Shard[i] \in DOMAIN base /\ i \notin todo => Key(i) \in DOMAIN tensors
        BY <1>1 DEF TensorsOK
      <4> QED
        BY <1>1, <3>1, <4>1
    <3> QED
      BY <1>1, <2>3, <3>2, <3>3, <3>4 DEF TensorsOK
  <2> QED
    BY <1>2, <2>1, <2>3, <2>2
<1> QED
  BY <1>1, <1>3, <1>5 DEF StoreOK

\* A read goes on where the last one ended.
LEMMA PreadStep ==
    ASSUME StoreOK, NEW f \in File, Pread(f)
    PROVE  StoreOK'
<1>1. /\ present \subseteq File /\ MapsOK /\ TensorsOK /\ BuffersOK /\ load = "read"
      /\ f \in DOMAIN base /\ got[f] < Bytes[f]
      /\ UNCHANGED <<present, todo, base, tensors, dev>>
  BY DEF StoreOK, Pread
<1>2. \/ \E r \in 1..(Bytes[f] - got[f]) :
           /\ buf' = [buf EXCEPT ![f] = Read(f, r)]
           /\ got' = [got EXCEPT ![f] = @ + r] /\ UNCHANGED load
      \/ load' = "failed" /\ UNCHANGED <<buf, got>>
  BY DEF Pread
<1>3. MapsOK' /\ TensorsOK' /\ load' \in {"read", "failed"}
  BY <1>1, <1>2 DEF MapsOK, TensorsOK, Mapped, Names, Tensor
<1>4. BuffersOK'
  <2>1. CASE load' = "failed" /\ UNCHANGED <<buf, got>>
    BY <1>1, <2>1 DEF BuffersOK
  <2>2. CASE /\ \E r \in 1..(Bytes[f] - got[f]) :
                  /\ buf' = [buf EXCEPT ![f] = Read(f, r)]
                  /\ got' = [got EXCEPT ![f] = @ + r]
             /\ UNCHANGED load
    <3>1. PICK r \in 1..(Bytes[f] - got[f]) :
            buf' = [buf EXCEPT ![f] = Read(f, r)] /\ got' = [got EXCEPT ![f] = @ + r]
      BY <2>2
    <3>2. /\ DOMAIN buf = File /\ got \in [File -> Nat] /\ Bytes[f] \in Nat /\ got[f] \in Nat
          /\ DOMAIN buf[f] = 0..(Bytes[f] - 1) /\ \A i \in 0..(got[f] - 1) : buf[f][i] = i
      BY <1>1, StoreConstants DEF BuffersOK
    <3>3. r \in Nat /\ got[f] + r <= Bytes[f] /\ got[f] + r \in Nat
      BY <3>1, <3>2
    <3>4. /\ DOMAIN buf' = File /\ got' \in [File -> Nat] /\ got'[f] = got[f] + r
          /\ buf'[f] = Read(f, r)
          /\ \A g \in File \ {f} : buf'[g] = buf[g] /\ got'[g] = got[g]
      BY <3>1, <3>2, <3>3
    <3>5. DOMAIN Read(f, r) = 0..(Bytes[f] - 1)
      BY <3>2 DEF Read
    <3>6. \A i \in 0..(got[f] + r - 1) : Read(f, r)[i] = i
      <4> SUFFICES ASSUME NEW i \in 0..(got[f] + r - 1)
                   PROVE  Read(f, r)[i] = i
        OBVIOUS
      <4>1. i \in DOMAIN buf[f] /\ (i \in 0..(got[f] - 1) \/ i \in got[f]..(got[f] + r - 1))
        BY <3>2, <3>3
      <4> QED
        BY <3>2, <4>1 DEF Read
    <3>7. ASSUME NEW g \in File
          PROVE  /\ got'[g] <= Bytes[g] /\ DOMAIN buf'[g] = 0..(Bytes[g] - 1)
                 /\ \A i \in 0..(got'[g] - 1) : buf'[g][i] = i
      <4>1. CASE g = f
        <5>1. got'[f] <= Bytes[f]
          BY <3>3, <3>4
        <5>2. DOMAIN buf'[f] = 0..(Bytes[f] - 1)
          BY <3>4, <3>5
        <5>3. \A i \in 0..(got'[f] - 1) : buf'[f][i] = i
          <6>1. PICK e : e = got'[f]
            OBVIOUS
          <6>2. PICK w : w = buf'[f]
            OBVIOUS
          <6>3. e = got[f] + r /\ w = Read(f, r)
            BY <3>4, <6>1, <6>2
          <6>4. ASSUME NEW i \in 0..(e - 1)
                PROVE  w[i] = i
            <7>1. i \in 0..(got[f] + r - 1)
              BY <3>2, <3>3, <6>3, <6>4
            <7> QED
              BY <3>6, <6>3, <7>1
          <6> QED
            BY <6>1, <6>2, <6>4
        <5> QED
          BY <4>1, <5>1, <5>2, <5>3
      <4>2. CASE g # f
        BY <1>1, <3>4, <4>2 DEF BuffersOK
      <4> QED
        BY <4>1, <4>2
    <3> QED
      BY <1>1, <2>2, <3>4, <3>7 DEF BuffersOK
  <2> QED
    BY <1>2, <2>1, <2>2
<1> QED
  BY <1>1, <1>3, <1>4 DEF StoreOK

\* An address of a tensor lies in the data of its own shard only.
LEMMA OwnerIs ==
    ASSUME StoreOK, NEW m \in DOMAIN Span, Shard[m] \in DOMAIN base
    PROVE  Owners(Tensor(m).addr) = {Shard[m]}
<1> DEFINE s == Shard[m]
           a == base[s] + Span[m].off
<1>1. /\ s \in DOMAIN base /\ s \in File /\ m \in Name /\ base[s] \in Nat
      /\ Span[m].off \in Nat /\ Span[m].n \in Nat /\ Span[m].n >= 1
      /\ Span[m].off + Span[m].n <= Bytes[s] /\ Bytes[s] \in Nat
  BY StoreConstants DEF StoreOK, MapsOK
<1>2. base[s] <= a /\ a < base[s] + Bytes[s] /\ a \in Nat
  BY <1>1
<1>3. a \in Mapped(s, base[s])
  BY <1>1, <1>2, StoreConstants DEF Mapped
<1>4. ASSUME NEW f \in Owners(a)
      PROVE  f = s
  <2>1. f \in DOMAIN base /\ base[f] <= a /\ a < base[f] + Bytes[f] /\ f \in File
    BY DEF Owners, StoreOK, MapsOK
  <2>2. base[f] \in Nat /\ Bytes[f] \in Nat
    BY <2>1, StoreConstants DEF StoreOK, MapsOK
  <2>3. a \in Mapped(f, base[f])
    BY <1>2, <2>1, <2>2, StoreConstants DEF Mapped
  <2> QED
    BY <1>1, <1>3, <2>1, <2>3 DEF StoreOK, MapsOK
<1>5. s \in Owners(a)
  BY <1>1, <1>2 DEF Owners
<1>6. Tensor(m).addr = a
  BY DEF Tensor
<1> HIDE DEF a, s
<1>7. Owners(a) = {s}
  BY <1>4, <1>5
<1> QED
  BY <1>6, <1>7 DEF s

\* A placed tensor is found back by its address, in its own file.
LEMMA PlaceStep ==
    ASSUME StoreOK, NEW k \in DOMAIN tensors, Place(k)
    PROVE  StoreOK'
<1>1. /\ present \subseteq File /\ MapsOK /\ TensorsOK /\ BuffersOK
      /\ load = "place" /\ k \in todo /\ todo' = todo \ {k}
      /\ UNCHANGED <<present, base, tensors, buf, got>>
  BY DEF StoreOK, Place
<1>2. \/ \E f \in Owners(tensors[k].addr) :
           /\ dev' = Emplace(dev, k, [file |-> f, off |-> tensors[k].addr - base[f], n |-> tensors[k].n])
           /\ UNCHANGED load
      \/ load' = "failed" /\ UNCHANGED dev
  BY DEF Place
<1>3. MapsOK' /\ BuffersOK' /\ load' \in {"place", "failed"}
  BY <1>1, <1>2 DEF MapsOK, BuffersOK, Mapped
<1>4. \A i, m : Names(m, i) => Names(m, i)'
  BY <1>1 DEF Names
<1>5. TensorsOK'
  <2>1. CASE load' = "failed" /\ UNCHANGED dev
    BY <1>1, <1>4, <2>1 DEF TensorsOK, Tensor
  <2>2. CASE UNCHANGED load
    <3>1. PICK m \in Kept : Names(m, k) /\ tensors[k] = Tensor(m)
      BY <1>1 DEF TensorsOK
    <3>2. PICK f \in Owners(tensors[k].addr) :
            dev' = Emplace(dev, k, [file |-> f, off |-> tensors[k].addr - base[f], n |-> tensors[k].n])
      BY <1>1, <1>2, <2>2
    <3>3. f = Shard[m] /\ m \in DOMAIN Span /\ Shard[m] \in DOMAIN base
      BY <3>1, <3>2, OwnerIs DEF Names
    <3>4. base[f] \in Nat /\ Span[m].off \in Nat
      BY <1>1, <3>3, StoreConstants DEF MapsOK
    <3>5. tensors[k].addr - base[f] = Span[m].off /\ tensors[k].n = Span[m].n
      BY <3>1, <3>3, <3>4 DEF Tensor
    <3>6. /\ DOMAIN dev' = DOMAIN dev \cup {k}
          /\ \A i \in DOMAIN dev : dev'[i] = dev[i]
          /\ k \notin DOMAIN dev => dev'[k] = [file |-> Shard[m], off |-> Span[m].off, n |-> Span[m].n]
      BY <3>2, <3>3, <3>5 DEF Emplace
    <3>7. ASSUME NEW i \in DOMAIN dev'
          PROVE  \E j \in Kept :
                   Names(j, i)' /\ dev'[i] = [file |-> Shard[j], off |-> Span[j].off, n |-> Span[j].n]
      <4>1. CASE i \in DOMAIN dev
        BY <1>1, <1>4, <3>6, <4>1 DEF TensorsOK
      <4>2. CASE i \notin DOMAIN dev
        BY <1>4, <3>1, <3>6, <4>2
      <4> QED
        BY <4>1, <4>2
    <3>8. \A i \in DOMAIN tensors : i \notin todo' => i \in DOMAIN dev'
      <4>1. \A i \in DOMAIN tensors : i \notin todo => i \in DOMAIN dev
        BY <1>1 DEF TensorsOK
      <4> QED
        BY <1>1, <3>6, <4>1
    <3>9. \A i \in DOMAIN tensors : \E j \in Kept : Names(j, i)' /\ tensors'[i] = (Tensor(j))'
      BY <1>1, <1>4 DEF TensorsOK, Tensor
    <3> QED
      BY <1>1, <2>2, <3>7, <3>8, <3>9 DEF TensorsOK
  <2> QED
    BY <1>2, <2>1, <2>2
<1> QED
  BY <1>1, <1>3, <1>5 DEF StoreOK

LEMMA NextLoopStep ==
    ASSUME StoreOK, NextLoop
    PROVE  StoreOK'
<1>1. /\ present \subseteq File /\ MapsOK /\ TensorsOK /\ BuffersOK
      /\ UNCHANGED <<present, base, tensors, buf, got, dev>>
  BY DEF StoreOK, NextLoop
<1>2. \/ load = "open" /\ todo = {} /\ load' = "resolve" /\ todo' = Kept
      \/ load = "resolve" /\ todo = {} /\ load' = "read"
      \/ /\ load = "read" /\ \A f \in DOMAIN base : got[f] = Bytes[f]
         /\ load' = "place" /\ todo' = DOMAIN tensors
      \/ load = "place" /\ todo = {} /\ load' = "ready"
  BY DEF NextLoop
<1>3. MapsOK' /\ BuffersOK'
  BY <1>1, <1>2 DEF MapsOK, BuffersOK, Mapped
<1>4. \A i, m : (Names(m, i) => Names(m, i)') /\ (Tensor(m))' = Tensor(m)
  BY <1>1 DEF Names, Tensor
<1>5. TensorsOK'
  BY <1>1, <1>2, <1>4 DEF TensorsOK
<1> QED
  BY <1>1, <1>2, <1>3, <1>5 DEF StoreOK

\* The load keeps StoreOK; one that is ready or has failed takes no step.
LEMMA StoreStep ==
    ASSUME StoreOK, NextStore
    PROVE  StoreOK' /\ load \notin {"ready", "failed"}
<1>1. CASE \E n \in Name : OpenShard(n)
  BY <1>1, OpenShardStep DEF OpenShard
<1>2. CASE \E n \in Name : Resolve(n)
  BY <1>2, ResolveStep DEF Resolve
<1>3. CASE \E f \in File : Pread(f)
  BY <1>3, PreadStep DEF Pread
<1>4. CASE \E k \in DOMAIN tensors : Place(k)
  BY <1>4, PlaceStep DEF Place
<1>5. CASE NextLoop
  BY <1>5, NextLoopStep DEF NextLoop
<1> QED
  BY <1>1, <1>2, <1>3, <1>4, <1>5 DEF NextStore

LEMMA StoreSame ==
    ASSUME StoreOK, UNCHANGED store
    PROVE  StoreOK'
<1>1. UNCHANGED <<present, load, todo, base, tensors, buf, got, dev>>
  BY DEF store
<1>2. MapsOK' <=> MapsOK
  BY <1>1 DEF MapsOK, Mapped
<1>3. TensorsOK' <=> TensorsOK
  BY <1>1 DEF TensorsOK, Names, Tensor
<1>4. BuffersOK' <=> BuffersOK
  BY <1>1 DEF BuffersOK
<1> QED
  BY <1>1, <1>2, <1>3, <1>4 DEF StoreOK

-----------------------------------------------------------------------------
(* The Loader's buffers. *)

LEMMA ForwardConstants ==
    /\ NLayers \in Nat /\ NLayers >= 1 /\ Junk \notin 0..NLayers /\ TapLayers \subseteq Layers
    /\ IsFiniteSet(Addr) /\ IsFiniteSet(HeadDeq) /\ IsFiniteSet(DraftDeq)
    /\ Cardinality(Addr) \in Nat /\ Bottom \in Nat /\ Cardinality(DraftDeq) \in Nat
    /\ Cardinality(DraftDeq) + Bottom <= Cardinality(Addr)
    /\ Bottom <= Cardinality(Addr)
    /\ Mems \subseteq Nat /\ Leaks \in Nat
    /\ Scratch["block"] \in Nat /\ Scratch["head"] \in Nat /\ Scratch["draft"] \in Nat
    /\ \A l \in Layers : /\ IsFiniteSet(Deq[l]) /\ Deq[l] \cap HeadDeq = {}
                         /\ Cardinality(Deq[l]) \in Nat
                         /\ Cardinality(Deq[l]) + Bottom <= Cardinality(Addr)
<1>1. /\ NLayers \in Nat /\ NLayers >= 1 /\ Junk \notin 0..NLayers /\ TapLayers \subseteq Layers
      /\ IsFiniteSet(Addr) /\ IsFiniteSet(HeadDeq) /\ IsFiniteSet(DraftDeq)
      /\ Cardinality(DraftDeq) + Bottom <= Cardinality(Addr)
      /\ \A l \in Layers : /\ IsFiniteSet(Deq[l]) /\ Deq[l] \cap HeadDeq = {}
                           /\ Cardinality(Deq[l]) + Bottom <= Cardinality(Addr)
  BY ForwardAssumption DEF Bottom
<1>2. Cardinality(Addr) \in Nat /\ Bottom \in Nat /\ Cardinality(DraftDeq) \in Nat
  BY <1>1, FS_CardinalityType DEF Bottom
<1>3. \A l \in Layers : Cardinality(Deq[l]) \in Nat
  BY <1>1, FS_CardinalityType
<1>4. Bottom <= Cardinality(Addr)
  BY <1>1, <1>2
<1>5. /\ Mems \subseteq Nat /\ Leaks \in Nat
      /\ Scratch["block"] \in Nat /\ Scratch["head"] \in Nat /\ Scratch["draft"] \in Nat
  BY ForwardAssumption
<1> QED
  BY <1>1, <1>2, <1>3, <1>4, <1>5

\* SetToSeq lists a finite set, each element once.
LEMMA SetListed ==
    ASSUME NEW S, IsFiniteSet(S), NEW q, q = SetToSeq(S)
    PROVE  /\ q \in Seq(S) /\ Len(q) = Cardinality(S) /\ Cardinality(S) \in Nat
           /\ \A i, j \in 1..Len(q) : q[i] = q[j] => i = j
           /\ \A x \in S : \E i \in 1..Len(q) : q[i] = x
<1> DEFINE n == Cardinality(S)
<1>1. n \in Nat /\ ExistsBijection(1..n, S)
  BY FS_CardinalityType
<1>2. \E f \in [1..n -> S] : IsInjective(f)
  BY <1>1 DEF ExistsBijection, Bijection, Injection
<1>3. q \in [1..n -> S] /\ IsInjective(q)
  BY <1>2 DEF SetToSeq
<1> HIDE DEF n
<1>4. q \in Injection(1..n, S)
  BY <1>3 DEF Injection
<1>5. IsFiniteSet(1..n) /\ Cardinality(1..n) = n
  <2>1. 0 \in Int /\ 1 \in Int /\ n \in Int
    BY <1>1
  <2> QED
    BY <1>1, <2>1, FS_Interval
<1>6. q \in Surjection(1..n, S)
  BY <1>4, <1>5, FS_Injection DEF n
<1>7. \A x \in S : \E i \in 1..n : q[i] = x
  BY <1>6 DEF Surjection
<1>8. q \in Seq(S) /\ Len(q) = n
  BY <1>1, <1>3
<1>9. \A i, j \in 1..n : q[i] = q[j] => i = j
  BY <1>3 DEF IsInjective
<1> QED
  BY <1>1, <1>7, <1>8, <1>9 DEF n

\* The facts of TypeOK about the Loader's stack.
Stack(hp, st) ==
    /\ st \in Seq(Addr) /\ DOMAIN hp = {st[i] : i \in 1..Len(st)}
    /\ \A i, j \in 1..Len(st) : st[i] = st[j] => i = j

\* As many live buffers as the stack is long.
LEMMA StackSize ==
    ASSUME NEW hp, NEW st, Stack(hp, st)
    PROVE  /\ DOMAIN hp \subseteq Addr /\ Cardinality(DOMAIN hp) = Len(st)
           /\ Len(st) \in Nat /\ Len(st) <= Cardinality(Addr)
<1> DEFINE n == Len(st)
           D == DOMAIN hp
<1>1. n \in Nat /\ st \in [1..n -> Addr]
  BY LenProperties DEF Stack
<1>2. D = {st[i] : i \in 1..n} /\ D \subseteq Addr
  BY <1>1 DEF Stack
<1>3. st \in [1..n -> D] /\ \A x \in D : \E i \in 1..n : st[i] = x
  BY <1>1, <1>2
<1>4. st \in Surjection(1..n, D) /\ st \in Injection(1..n, D)
  BY <1>1, <1>3 DEF Surjection, Injection, IsInjective, Stack
<1> HIDE DEF n, D
<1>5. IsFiniteSet(1..n) /\ Cardinality(1..n) = n
  <2>1. 0 \in Int /\ 1 \in Int /\ n \in Int
    BY <1>1
  <2> QED
    BY <1>1, <2>1, FS_Interval
<1>6. Cardinality(D) = n
  BY <1>4, <1>5, FS_Surjection
<1>7. Cardinality(D) <= Cardinality(Addr)
  BY <1>2, FS_Subset, ForwardConstants
<1> QED
  BY <1>1, <1>2, <1>6, <1>7 DEF n, D

\* New buffers go on top of the stack, and hold what was asked for.
LEMMA Allocated ==
    ASSUME NEW names, IsFiniteSet(names), NEW f, Stack(heap, allocs), Allocate(names, f)
    PROVE  /\ Stack(heap, allocs)' /\ Len(allocs') = Len(allocs) + Cardinality(names)
           /\ \A i \in 1..Len(allocs) : allocs'[i] = allocs[i] /\ heap'[allocs[i]] = heap[allocs[i]]
           /\ \A k \in names : f[k] \in DOMAIN heap' /\ heap'[f[k]] = k
           /\ \A k \in names : \E i \in 1..Cardinality(names) : allocs'[Len(allocs) + i] = f[k]
<1> DEFINE T == {f[k] : k \in names}
           n == Len(allocs)
           c == Cardinality(names)
<1>1. /\ f \in [names -> Free] /\ \A a, b \in names : f[a] = f[b] => a = b
      /\ heap' = Overwrite(heap, [a \in T |-> CHOOSE k \in names : f[k] = a])
      /\ allocs' = allocs \o SetToSeq(T)
  BY DEF Allocate
<1>2. IsFiniteSet(T) /\ Cardinality(T) = c
  <2>1. f \in [names -> T] /\ \A x \in T : \E k \in names : f[k] = x
    BY <1>1
  <2> HIDE DEF T
  <2>2. f \in Surjection(names, T) /\ f \in Injection(names, T)
    BY <1>1, <2>1 DEF Surjection, Injection, IsInjective
  <2> QED
    BY <2>2, FS_Surjection
<1>3. T \subseteq Addr /\ T \cap DOMAIN heap = {}
  BY <1>1 DEF Free
<1>4. \A k \in names : f[k] \in T /\ (CHOOSE j \in names : f[j] = f[k]) = k
  BY <1>1
<1>5. /\ DOMAIN heap' = T \cup DOMAIN heap
      /\ \A a \in DOMAIN heap : heap'[a] = heap[a]
      /\ \A a \in T : heap'[a] = CHOOSE k \in names : f[k] = a
  BY <1>1, <1>3 DEF Overwrite
<1>6. \A k \in names : f[k] \in DOMAIN heap' /\ heap'[f[k]] = k
  BY <1>4, <1>5
<1>7. PICK q : q = SetToSeq(T)
  OBVIOUS
<1>8. \A k \in names : f[k] \in T
  OBVIOUS
<1> HIDE DEF T
<1>9. /\ q \in Seq(T) /\ Len(q) = c /\ c \in Nat
      /\ \A i, j \in 1..Len(q) : q[i] = q[j] => i = j
      /\ \A x \in T : \E i \in 1..Len(q) : q[i] = x
  BY <1>2, <1>7, SetListed
<1> HIDE DEF c
<1>10. n \in Nat /\ allocs \in Seq(Addr) /\ q \in Seq(Addr)
  <2>1. allocs \in Seq(Addr)
    BY DEF Stack
  <2>2. q \in [1..Len(q) -> T] /\ Len(q) \in Nat
    BY <1>9, LenProperties
  <2>3. q \in [1..Len(q) -> Addr]
    BY <1>3, <2>2
  <2> QED
    BY <2>1, <2>2, <2>3, <1>9, <1>3, LenProperties
<1>11. PICK al : al = allocs'
  OBVIOUS
<1>12. /\ al \in Seq(Addr) /\ Len(al) = n + c
       /\ \A i \in 1..(n + c) : al[i] = IF i <= n THEN allocs[i] ELSE q[i - n]
  <2>1. al = allocs \o q
    BY <1>1, <1>7, <1>11
  <2>2. /\ allocs \o q \in Seq(Addr) /\ Len(allocs \o q) = Len(allocs) + Len(q)
        /\ \A i \in 1..Len(allocs) + Len(q) :
             (allocs \o q)[i] = IF i <= Len(allocs) THEN allocs[i] ELSE q[i - Len(allocs)]
    BY <1>10, ConcatProperties
  <2>3. Len(q) = c
    BY <1>9
  <2> QED
    BY <2>1, <2>2, <2>3
<1> HIDE DEF n
<1>13. \A i \in 1..n : al[i] = allocs[i] /\ allocs[i] \in DOMAIN heap
  <2>1. \A i \in 1..n : allocs[i] \in DOMAIN heap
    BY DEF Stack, n
  <2> QED
    BY <1>9, <1>10, <1>12, <2>1
<1>14. \A i \in 1..c : al[n + i] = q[i] /\ q[i] \in T
  <2> SUFFICES ASSUME NEW i \in 1..c
               PROVE  al[n + i] = q[i] /\ q[i] \in T
    OBVIOUS
  <2>1. n + i \in 1..(n + c) /\ ~(n + i <= n) /\ (n + i) - n = i
    BY <1>9, <1>10
  <2>2. q[i] \in T
    BY <1>9, ElementOfSeq
  <2> QED
    BY <1>12, <2>1, <2>2
<1>15. \A i \in 1..(n + c) : i \in 1..n \/ \E j \in 1..c : i = n + j
  <2> SUFFICES ASSUME NEW i \in 1..(n + c), i \notin 1..n
               PROVE  \E j \in 1..c : i = n + j
    OBVIOUS
  <2>1. i - n \in 1..c /\ i = n + (i - n)
    BY <1>9, <1>10
  <2> QED
    BY <2>1
<1>16. \A i, j \in 1..(n + c) : al[i] = al[j] => i = j
  <2> SUFFICES ASSUME NEW i \in 1..(n + c), NEW j \in 1..(n + c), al[i] = al[j]
               PROVE  i = j
    OBVIOUS
  <2>1. CASE i \in 1..n /\ j \in 1..n
    BY <1>13, <2>1 DEF Stack, n
  <2>2. CASE i \in 1..n /\ j \notin 1..n
    BY <1>3, <1>13, <1>14, <1>15, <2>2
  <2>3. CASE i \notin 1..n /\ j \in 1..n
    BY <1>3, <1>13, <1>14, <1>15, <2>3
  <2>4. CASE i \notin 1..n /\ j \notin 1..n
    <3>1. PICK a \in 1..c : i = n + a
      BY <1>15, <2>4
    <3>2. PICK b \in 1..c : j = n + b
      BY <1>15, <2>4
    <3>3. q[a] = q[b]
      BY <1>14, <3>1, <3>2
    <3> QED
      BY <1>9, <3>1, <3>2, <3>3
  <2> QED
    BY <2>1, <2>2, <2>3, <2>4
<1>17. DOMAIN heap' = {al[i] : i \in 1..(n + c)}
  <2>1. \A i \in 1..(n + c) : al[i] \in DOMAIN heap'
    BY <1>5, <1>13, <1>14, <1>15
  <2>2. ASSUME NEW x \in DOMAIN heap
        PROVE  \E i \in 1..(n + c) : al[i] = x
    <3>1. PICK i \in 1..n : allocs[i] = x
      BY <2>2 DEF Stack, n
    <3>2. i \in 1..(n + c)
      BY <1>9, <1>10
    <3> QED
      BY <1>13, <3>1, <3>2
  <2>3. ASSUME NEW x \in T
        PROVE  \E i \in 1..(n + c) : al[i] = x
    <3>1. PICK i \in 1..c : q[i] = x
      BY <1>9, <2>3
    <3>2. n + i \in 1..(n + c)
      BY <1>9, <1>10
    <3> QED
      BY <1>14, <3>1, <3>2
  <2> QED
    BY <1>5, <2>1, <2>2, <2>3
<1>18. Stack(heap', al)
  BY <1>12, <1>16, <1>17 DEF Stack
<1>19. \A k \in names : \E i \in 1..c : al[n + i] = f[k]
  BY <1>8, <1>9, <1>14
<1>20. \A i \in 1..n : al[i] = allocs[i] /\ heap'[allocs[i]] = heap[allocs[i]]
  BY <1>5, <1>13
<1> QED
  BY <1>6, <1>11, <1>12, <1>18, <1>19, <1>20 DEF n, c, Stack

\* What lies under the mark stays.
LEMMA Released ==
    ASSUME NEW b \in Nat, b <= Len(allocs), Stack(heap, allocs), Release(b)
    PROVE  /\ Stack(heap, allocs)' /\ Len(allocs') = b
           /\ \A i \in 1..b : /\ allocs'[i] = allocs[i] /\ allocs[i] \in DOMAIN heap'
                              /\ heap'[allocs[i]] = heap[allocs[i]]
<1> DEFINE n == Len(allocs)
<1>1. /\ allocs \in Seq(Addr) /\ n \in Nat /\ DOMAIN heap = {allocs[i] : i \in 1..n}
      /\ \A i, j \in 1..n : allocs[i] = allocs[j] => i = j
      /\ \A i \in 1..n : allocs[i] \in Addr
  BY LenProperties DEF Stack
<1>2. /\ heap' = [a \in DOMAIN heap \ {allocs[i] : i \in (b + 1)..n} |-> heap[a]]
      /\ allocs' = SubSeq(allocs, 1, b)
  BY DEF Release
<1> HIDE DEF n
<1>3. b <= n
  BY DEF n
<1>4. PICK al : al = allocs'
  OBVIOUS
<1>5. al \in Seq(Addr) /\ Len(al) = b /\ \A i \in 1..b : al[i] = allocs[i]
  <2>1. \A i \in 1..b : allocs[i] \in Addr
    BY <1>1, <1>3
  <2>2. 1 \in Int /\ b \in Int /\ (IF 1 <= b THEN b - 1 + 1 ELSE 0) = b /\ b - 1 + 1 = b
    OBVIOUS
  <2>3. /\ SubSeq(allocs, 1, b) \in Seq(Addr) /\ Len(SubSeq(allocs, 1, b)) = b
        /\ \A i \in 1..b : SubSeq(allocs, 1, b)[i] = allocs[1 + i - 1]
    BY <2>1, <2>2, SubSeqProperties
  <2>4. \A i \in 1..b : 1 + i - 1 = i
    OBVIOUS
  <2> QED
    BY <1>2, <1>4, <2>3, <2>4
<1>6. \A i \in 1..n : i \in 1..b \/ i \in (b + 1)..n
  BY <1>1, <1>3
<1>7. \A i \in 1..b : i \in 1..n /\ \A j \in (b + 1)..n : j \in 1..n /\ i # j
  BY <1>1, <1>3
<1>8. \A i \in 1..b : allocs[i] \in DOMAIN heap \ {allocs[j] : j \in (b + 1)..n}
  BY <1>1, <1>7
<1>9. DOMAIN heap' = {al[i] : i \in 1..b}
  <2>1. ASSUME NEW a \in DOMAIN heap'
        PROVE  \E i \in 1..b : al[i] = a
    <3>1. a \in DOMAIN heap /\ a \notin {allocs[i] : i \in (b + 1)..n}
      BY <1>2, <2>1
    <3>2. PICK i \in 1..n : a = allocs[i]
      BY <1>1, <3>1
    <3>3. i \in 1..b
      BY <1>6, <3>1, <3>2
    <3> QED
      BY <1>5, <3>2, <3>3
  <2>2. ASSUME NEW i \in 1..b
        PROVE  al[i] \in DOMAIN heap'
    <3>1. DOMAIN heap' = DOMAIN heap \ {allocs[j] : j \in (b + 1)..n}
      BY <1>2
    <3> QED
      BY <1>5, <1>8, <3>1
  <2> QED
    BY <2>1, <2>2
<1>10. \A i, j \in 1..b : al[i] = al[j] => i = j
  BY <1>1, <1>5, <1>7
<1>11. Stack(heap', al)
  BY <1>5, <1>9, <1>10 DEF Stack
<1>12. \A i \in 1..b : allocs[i] \in DOMAIN heap' /\ heap'[allocs[i]] = heap[allocs[i]]
  BY <1>2, <1>8
<1> QED
  BY <1>4, <1>5, <1>11, <1>12 DEF Stack

-----------------------------------------------------------------------------
(* The memory that is left. *)

\* More of the same factor.
LEMMA ProductLe ==
    ASSUME NEW a \in Nat, NEW b \in Nat, NEW c \in Nat, a <= b
    PROVE  c * a <= c * b
<1>1. PICK d \in Nat : b = a + d
  <2>1. b - a \in Nat /\ b = a + (b - a)
    OBVIOUS
  <2> QED
    BY <2>1
<1>2. c * b = c * a + c * d /\ c * d \in Nat /\ c * a \in Nat
  BY <1>1
<1> QED
  BY <1>2

\* Live buffers are as many as the Loader's stack is long.
LEMMA RoomLeft ==
    ASSUME Stack(heap, allocs)
    PROVE  Room = mem - Len(allocs) - leaked /\ Len(allocs) \in Nat
BY StackSize DEF Room

\* What Enough means for each call.
LEMMA EnoughFor ==
    ASSUME Enough, mem \in Nat
    PROVE  /\ \A l \in Layers : Bottom + Cardinality(Deq[l]) + Scratch["block"] + 2 * NLayers * Leaks <= mem
           /\ Bottom + Scratch["head"] + 2 * NLayers * Leaks <= mem
           /\ Bottom + Cardinality(DraftDeq) + Scratch["draft"] + 2 * NLayers * Leaks <= mem
<1> DEFINE lost == 2 * NLayers * Leaks
<1>1. lost \in Nat
  BY ForwardConstants
<1>2. /\ \A l \in Layers : Bottom + (Cardinality(Deq[l]) + Scratch["block"]) + lost <= mem
      /\ Bottom + Scratch["head"] + lost <= mem
      /\ Bottom + (Cardinality(DraftDeq) + Scratch["draft"]) + lost <= mem
  BY DEF Enough
<1> HIDE DEF lost
<1>3. /\ \A l \in Layers : Bottom + Cardinality(Deq[l]) + Scratch["block"] + lost <= mem
      /\ Bottom + Scratch["head"] + lost <= mem
      /\ Bottom + Cardinality(DraftDeq) + Scratch["draft"] + lost <= mem
  BY <1>1, <1>2, ForwardConstants
<1> QED
  BY <1>3 DEF lost

LEMMA MemoryTyped == TypeOK => mem \in Nat /\ leaked \in Nat /\ 2 * NLayers * Leaks \in Nat
<1>1. 2 * NLayers * Leaks \in Nat
  BY ForwardConstants
<1>2. TypeOK => mem \in Nat /\ leaked \in Nat
  BY DEF TypeOK
<1> QED
  BY <1>1, <1>2

LEMMA RunsType == TypeOK => BlocksRun \in Nat /\ pass * NLayers \in Nat
<1> SUFFICES ASSUME TypeOK
             PROVE  BlocksRun \in Nat /\ pass * NLayers \in Nat
  OBVIOUS
<1>1. pass \in Nat /\ lyr \in Nat /\ NLayers \in Nat
  BY ForwardConstants DEF TypeOK
<1>2. pass * NLayers \in Nat
  BY <1>1
<1> QED
  BY <1>1, <1>2 DEF BlocksRun

\* Before the draft model's, at most the blocks of two passes have run.
LEMMA LeaksBound ==
    ASSUME TypeOK, HiddenOK, LeaksOK,
           step \in {"load", "reset", "build", "block", "after", "head", "fill", "draft"},
           step = "after" => lyr < NLayers
    PROVE  leaked <= 2 * NLayers * Leaks
<1>1. /\ pass \in 0..2 /\ lyr \in 0..NLayers /\ NLayers \in Nat /\ Leaks \in Nat /\ leaked \in Nat
      /\ BlocksRun \in Nat
  BY ForwardConstants, RunsType DEF TypeOK
<1>2. BlocksRun <= 2 * NLayers
  <2>1. CASE step \in {"build", "block", "head", "after", "load", "reset"}
    <3>1. pass = 0 \/ pass = 1
      BY <1>1, <2>1 DEF HiddenOK
    <3>2. pass * NLayers <= NLayers
      BY <1>1, <3>1
    <3>3. BlocksRun <= NLayers + NLayers
      <4>1. /\ step = "after" => BlocksRun = pass * NLayers + (lyr + 1) /\ lyr + 1 <= NLayers
            /\ step \in {"build", "block", "head"} => BlocksRun = pass * NLayers + lyr /\ lyr <= NLayers
            /\ step \in {"load", "reset"} => BlocksRun = pass * NLayers + 0
        BY <1>1 DEF BlocksRun
      <4>2. pass * NLayers \in Nat
        BY RunsType
      <4> QED
        BY <1>1, <2>1, <3>2, <4>1, <4>2
    <3> QED
      BY <1>1, <3>3
  <2>2. CASE step \in {"fill", "draft"}
    <3>1. pass = 2 /\ BlocksRun = pass * NLayers + 0
      BY <2>2 DEF HiddenOK, BlocksRun
    <3> QED
      BY <1>1, <3>1
  <2> QED
    BY <2>1, <2>2
<1>3. leaked <= Leaks * BlocksRun
  BY DEF LeaksOK
<1>4. 2 * NLayers \in Nat /\ Leaks * BlocksRun <= Leaks * (2 * NLayers)
  BY <1>1, <1>2, ProductLe
<1>5. Leaks * (2 * NLayers) = 2 * NLayers * Leaks /\ Leaks * BlocksRun \in Nat /\ 2 * NLayers * Leaks \in Nat
  BY <1>1
<1> QED
  BY <1>1, <1>3, <1>4, <1>5

\* A call loses at most what moe_forward leaks, and where there is room for it no
\* pointer is wild.
LEMMA CallStep ==
    ASSUME TypeOK, NEW kind, NEW lost \in Nat, Call(kind, lost)
    PROVE  /\ mem' = mem /\ leaked' \in Nat /\ leaked' <= leaked + lost
           /\ wild' \in BOOLEAN /\ (~wild' => ~wild)
           /\ ~(Room < Scratch[kind]) => wild' = wild
<1>1. leaked \in Nat /\ wild \in BOOLEAN
  BY DEF TypeOK
<1>2. mem' = mem
  BY DEF Call
<1>3. CASE leaked' = leaked + lost /\ wild' = wild
  BY <1>1, <1>2, <1>3
<1>4. CASE Room < Scratch[kind] /\ wild' = TRUE /\ \E n \in 0..lost : leaked' = leaked + n
  <2>1. leaked' \in Nat /\ leaked' <= leaked + lost
    BY <1>1, <1>4
  <2> QED
    BY <1>2, <1>4, <2>1
<1> QED
  BY <1>3, <1>4 DEF Call

\* A block more, and what it leaks.
LEMMA OneMore ==
    ASSUME NEW a \in Nat, NEW b \in Nat, NEW n \in Nat, NEW k \in Nat, a <= k * n, b <= a + k
    PROVE  b <= k * (n + 1)
<1>1. k * (n + 1) = k * n + k /\ k * n \in Nat
  OBVIOUS
<1> QED
  BY <1>1

-----------------------------------------------------------------------------
(* The passes. *)

\* Names the driver asks the store for.
Asked == HeadDeq \cup DraftDeq \cup DraftExperts \cup UNION {Deq[l] \cup Experts[l] : l \in Layers}

LEMMA ForwardInit == Init => ForwardInv
<1> SUFFICES ASSUME Init
             PROVE  ForwardInv
  OBVIOUS
<1>1. /\ InitStore /\ step = "load" /\ pass = 0 /\ lyr = 0
      /\ heap = << >> /\ allocs = << >> /\ mk = 0 /\ built = << >>
      /\ mem \in Mems /\ leaked = 0 /\ wild = FALSE
      /\ done = {} /\ packs = << >> /\ buf2 = <<Junk, Junk>> /\ h = 1
      /\ taps = [l \in TapLayers |-> Junk] /\ logits = << >> /\ drafted = "none"
  BY DEF Init
<1>2. DOMAIN heap = {} /\ DOMAIN packs = {} /\ Len(allocs) = 0 /\ Len(logits) = 0
  BY <1>1
<1>3. TypeOK
  <2>1. allocs \in Seq(Addr) /\ logits \in Seq(0..NLayers \cup {Junk})
    BY <1>1
  <2>2. 0 \in 0..2 /\ 0 \in 0..NLayers /\ 0 \in 0..Cardinality(Addr) /\ mem \in Nat
    BY <1>1, ForwardConstants
  <2>3. DOMAIN heap = {allocs[i] : i \in 1..Len(allocs)}
    BY <1>2
  <2>4. \A i, j \in 1..Len(allocs) : allocs[i] = allocs[j] => i = j
    BY <1>2
  <2>5. mem \in Nat /\ leaked \in Nat /\ wild \in BOOLEAN
    BY <1>1, <2>2
  <2> QED
    BY <1>1, <2>1, <2>2, <2>3, <2>4, <2>5 DEF TypeOK
<1>4. StoreOK
  BY <1>1, StoreInit
<1>5. HeapOK /\ PacksOK /\ MemoryEnough
  BY <1>1, <1>2 DEF HeapOK, PacksOK, MemoryEnough
<1>7. LeaksOK
  <2>1. BlocksRun = 0 * NLayers + 0
    BY <1>1 DEF BlocksRun
  <2>2. Leaks * BlocksRun = 0
    BY <2>1, ForwardConstants
  <2> QED
    BY <1>1, <2>2 DEF LeaksOK
<1>6. HiddenOK
  <2>1. \A l \in TapLayers : ~(l < lyr)
    BY <1>1, ForwardConstants DEF Layers
  <2> QED
    BY <1>1, <1>2, <2>1 DEF HiddenOK
<1> QED
  BY <1>3, <1>4, <1>5, <1>6, <1>7 DEF ForwardInv

\* With enough memory main() gives up only for a weight that is not served.
LEMMA StopStep ==
    ASSUME ForwardInv, Stop, load \in {"ready", "failed"},
           Enough => load = "failed" \/ \E needed : needed \subseteq Asked /\ ~Served(needed)
    PROVE  ForwardInv'
<1>1. /\ TypeOK /\ StoreOK /\ HeapOK /\ PacksOK /\ HiddenOK /\ LeaksOK /\ MemoryEnough /\ step' = "failed"
      /\ UNCHANGED <<store, pass, lyr, memory, room, experts, hidden>>
  BY DEF ForwardInv, Stop
<1>2. UNCHANGED <<load, dev, pass, lyr, heap, allocs, mk, built, mem, leaked, wild, done, packs, buf2, h, taps, logits, drafted>>
  BY <1>1 DEF store, memory, room, experts, hidden
<1>3. StoreOK'
  BY <1>1, StoreSame
<1>4. TypeOK'
  BY <1>1, <1>2 DEF TypeOK
<1>5. HeapOK' /\ PacksOK'
  BY <1>1, <1>2 DEF HeapOK, PacksOK
<1>6. HiddenOK'
  BY <1>1, <1>2 DEF HiddenOK
<1>7. MemoryEnough'
  <2>1. Enough' <=> Enough
    BY <1>2 DEF Enough
  <2>2. Enough => load = "failed" \/ ~Served(Asked)
    BY DEF Served
  <2>3. Enough => ~wild
    BY <1>1 DEF MemoryEnough
  <2> QED
    BY <1>2, <2>1, <2>2, <2>3 DEF MemoryEnough, Served, Asked
<1>8. LeaksOK'
  BY <1>1 DEF LeaksOK
<1> QED
  BY <1>3, <1>4, <1>5, <1>6, <1>7, <1>8 DEF ForwardInv

\* A step that goes on in the memory it had.
LEMMA SameMemory ==
    ASSUME MemoryEnough, LeaksOK, step # "failed", step' # "failed", UNCHANGED <<mem, leaked, wild>>,
           BlocksRun' = BlocksRun
    PROVE  MemoryEnough' /\ LeaksOK'
<1>1. Enough' <=> Enough
  BY DEF Enough
<1>2. MemoryEnough'
  BY <1>1 DEF MemoryEnough
<1>3. LeaksOK'
  BY DEF LeaksOK
<1> QED
  BY <1>2, <1>3

\* A call that a block, the head or the draft makes: it goes on, leaks at most Leaks and
\* finds its room when there is enough memory.
LEMMA CallKeeps ==
    ASSUME MemoryEnough, LeaksOK, TypeOK, step # "failed", step' # "failed",
           NEW kind, NEW lost \in Nat, Call(kind, lost), Enough => ~(Room < Scratch[kind]),
           (lost = 0 /\ BlocksRun' = BlocksRun) \/ (lost = Leaks /\ BlocksRun' = BlocksRun + 1)
    PROVE  MemoryEnough' /\ LeaksOK'
<1>1. /\ mem' = mem /\ leaked' \in Nat /\ leaked' <= leaked + lost
      /\ (~(Room < Scratch[kind]) => wild' = wild)
  BY CallStep
<1>2. Enough' <=> Enough
  BY <1>1 DEF Enough
<1>3. MemoryEnough'
  BY <1>1, <1>2 DEF MemoryEnough
<1>4. leaked \in Nat /\ BlocksRun \in Nat /\ Leaks \in Nat /\ leaked <= Leaks * BlocksRun
  BY RunsType, ForwardConstants DEF TypeOK, LeaksOK
<1>5. CASE lost = 0 /\ BlocksRun' = BlocksRun
  <2>1. PICK b : b = BlocksRun
    OBVIOUS
  <2>2. Leaks * b \in Nat /\ leaked' <= leaked /\ leaked <= Leaks * b
    BY <1>1, <1>4, <1>5, <2>1
  <2>3. leaked' <= Leaks * b
    BY <1>1, <1>4, <2>2
  <2> QED
    BY <1>3, <1>5, <2>1, <2>3 DEF LeaksOK
<1>6. CASE lost = Leaks /\ BlocksRun' = BlocksRun + 1
  <2>1. leaked' <= Leaks * (BlocksRun + 1)
    BY <1>1, <1>4, <1>6, OneMore
  <2>2. PICK b : b = BlocksRun + 1
    OBVIOUS
  <2>3. BlocksRun' = b /\ leaked' <= Leaks * b
    BY <1>6, <2>1, <2>2
  <2> QED
    BY <1>3, <2>3 DEF LeaksOK
<1> QED
  BY <1>3, <1>5, <1>6

\* The facts of the stack in TypeOK.
LEMMA StackTyped == TypeOK => Stack(heap, allocs) /\ Len(allocs) \in Nat
BY LenProperties DEF TypeOK, Stack

LEMMA LoadHeadStep == ForwardInv /\ LoadHead => ForwardInv'
<1> SUFFICES ASSUME ForwardInv, LoadHead
             PROVE  ForwardInv'
  OBVIOUS
<1>1. /\ TypeOK /\ StoreOK /\ HeapOK /\ PacksOK /\ HiddenOK /\ LeaksOK /\ MemoryEnough
      /\ step = "load" /\ load \in {"ready", "failed"} /\ allocs = << >> /\ Stack(heap, allocs)
      /\ Len(allocs) = 0
  BY StackTyped DEF ForwardInv, LoadHead, HeapOK
<1>2. \/ (load = "failed" \/ Fails(HeadDeq, Cardinality(HeadDeq))) /\ Stop
      \/ /\ load = "ready" /\ \E f \in [HeadDeq -> Free] : Allocate(HeadDeq, f) /\ built' = f
         /\ step' = "reset" /\ UNCHANGED <<store, pass, lyr, mk, room, experts, hidden>>
  BY DEF LoadHead
<1>3. CASE (load = "failed" \/ Fails(HeadDeq, Cardinality(HeadDeq))) /\ Stop
  <2>1. Enough => ~(Room < Bottom)
    <3>1. mem \in Nat /\ leaked \in Nat /\ 2 * NLayers * Leaks \in Nat
      BY <1>1, MemoryTyped
    <3>2. Enough => Bottom + Scratch["head"] + 2 * NLayers * Leaks <= mem
      BY <3>1, EnoughFor
    <3>3. leaked <= 2 * NLayers * Leaks /\ Room = mem - 0 - leaked
      BY <1>1, LeaksBound, RoomLeft
    <3> QED
      BY <3>1, <3>2, <3>3, ForwardConstants
  <2>2. Enough => load = "failed" \/ ~Served(HeadDeq)
    BY <1>3, <2>1 DEF Fails, Bottom
  <2>3. HeadDeq \subseteq Asked
    BY DEF Asked
  <2> QED
    BY <1>1, <1>3, <2>2, <2>3, StopStep
<1>4. CASE /\ load = "ready" /\ \E f \in [HeadDeq -> Free] : Allocate(HeadDeq, f) /\ built' = f
           /\ step' = "reset" /\ UNCHANGED <<store, pass, lyr, mk, room, experts, hidden>>
  <2>1. PICK f \in [HeadDeq -> Free] : Allocate(HeadDeq, f) /\ built' = f
    BY <1>4
  <2>2. /\ UNCHANGED <<load, dev, pass, lyr, mk, mem, leaked, wild, done, packs, buf2, h, taps, logits, drafted>>
        /\ step' = "reset"
    BY <1>4 DEF store, room, experts, hidden
  <2>3. /\ Stack(heap, allocs)' /\ Len(allocs') = Bottom
        /\ \A k \in HeadDeq : heap'[f[k]] = k
        /\ \A k \in HeadDeq : \E i \in 1..Bottom : allocs'[i] = f[k]
    <3>1. IsFiniteSet(HeadDeq) /\ Bottom \in Nat
      BY ForwardConstants
    <3>2. /\ Stack(heap, allocs)' /\ Len(allocs') = Len(allocs) + Bottom
          /\ \A k \in HeadDeq : f[k] \in DOMAIN heap' /\ heap'[f[k]] = k
          /\ \A k \in HeadDeq : \E i \in 1..Bottom : allocs'[Len(allocs) + i] = f[k]
      BY <1>1, <2>1, <3>1, Allocated DEF Bottom
    <3>3. Len(allocs) + Bottom = Bottom /\ \A i \in 1..Bottom : Len(allocs) + i = i
      BY <1>1, <3>1
    <3> QED
      BY <3>2, <3>3
  <2>4. TypeOK'
    BY <1>1, <2>2, <2>3 DEF TypeOK, Stack
  <2>5. StoreOK'
    BY <1>1, <1>4, StoreSame
  <2>6. HeapOK'
    <3>1. built' = f /\ DOMAIN f = HeadDeq
      BY <2>1
    <3>2. load' = "ready" /\ Len(allocs') >= Bottom
      BY <1>4, <2>2, <2>3, ForwardConstants
    <3>3. \A k \in HeadDeq : \E i \in 1..Bottom : built'[k] = allocs'[i] /\ heap'[allocs'[i]] = k
      BY <2>3, <3>1
    <3> QED
      BY <2>2, <2>3, <3>1, <3>2, <3>3 DEF HeapOK, Bottom
  <2>7. PacksOK' /\ MemoryEnough' /\ LeaksOK'
    <3>1. BlocksRun' = BlocksRun
      BY <1>1, <2>2 DEF BlocksRun
    <3> QED
      BY <1>1, <2>2, <3>1, SameMemory DEF PacksOK
  <2>8. HiddenOK'
    BY <1>1, <2>2 DEF HiddenOK
  <2> QED
    BY <2>4, <2>5, <2>6, <2>7, <2>8 DEF ForwardInv
<1> QED
  BY <1>2, <1>3, <1>4

LEMMA ResetStep == ForwardInv /\ Reset => ForwardInv'
<1> SUFFICES ASSUME ForwardInv, Reset
             PROVE  ForwardInv'
  OBVIOUS
<1>1. /\ TypeOK /\ StoreOK /\ HeapOK /\ PacksOK /\ HiddenOK /\ LeaksOK /\ MemoryEnough /\ step = "reset"
      /\ buf2' = [buf2 EXCEPT ![h] = 0] /\ lyr' = 0 /\ step' = "build"
      /\ UNCHANGED <<store, pass, memory, room, experts, h, taps, logits, drafted>>
  BY DEF ForwardInv, Reset
<1>2. UNCHANGED <<load, dev, pass, heap, allocs, mk, built, mem, leaked, wild, done, packs, h, taps, logits, drafted>>
  BY <1>1 DEF store, memory, room, experts
<1>3. 0 \in 0..NLayers /\ 0 < NLayers
  BY ForwardConstants
<1>4. buf2'[h] = 0 /\ DOMAIN buf2' = {1, 2} /\ \A i \in {1, 2} : buf2'[i] \in 0..NLayers \cup {Junk}
  BY <1>1, <1>3 DEF TypeOK
<1>5. TypeOK'
  BY <1>1, <1>2, <1>3, <1>4 DEF TypeOK
<1>6. StoreOK'
  BY <1>1, StoreSame
<1>7. HeapOK' /\ PacksOK' /\ MemoryEnough' /\ LeaksOK'
  <2>1. BlocksRun' = BlocksRun
    BY <1>1, <1>2 DEF BlocksRun
  <2> QED
    BY <1>1, <1>2, <2>1, SameMemory DEF HeapOK, PacksOK, Bottom
<1>8. HiddenOK'
  <2>1. \A l \in TapLayers : ~(l < lyr')
    BY <1>1, ForwardConstants DEF Layers
  <2> QED
    BY <1>1, <1>2, <1>3, <1>4, <2>1 DEF HiddenOK
<1> QED
  BY <1>5, <1>6, <1>7, <1>8 DEF ForwardInv

\* A layer's buffers on top of the head's.
LEMMA BuildLayerStep == ForwardInv /\ BuildLayer => ForwardInv'
<1> SUFFICES ASSUME ForwardInv, BuildLayer
             PROVE  ForwardInv'
  OBVIOUS
<1> DEFINE D == Deq[lyr]
           c == Cardinality(D)
<1>1. /\ TypeOK /\ StoreOK /\ HeapOK /\ PacksOK /\ HiddenOK /\ LeaksOK /\ MemoryEnough /\ Stack(heap, allocs)
      /\ step = "build" /\ lyr < NLayers /\ lyr \in 0..NLayers
  BY StackTyped DEF ForwardInv, BuildLayer, TypeOK
<1>2. lyr \in Layers
  BY <1>1, ForwardConstants DEF Layers
<1>3. /\ IsFiniteSet(D) /\ D \cap HeadDeq = {} /\ c \in Nat /\ c + Bottom <= Cardinality(Addr)
      /\ Bottom \in Nat /\ Cardinality(Addr) \in Nat
  BY <1>2, ForwardConstants
<1>4. /\ Len(allocs) = Bottom /\ load = "ready" /\ HeadDeq \subseteq DOMAIN built
      /\ \A k \in HeadDeq : \E i \in 1..Bottom : built[k] = allocs[i] /\ heap[allocs[i]] = k
  BY <1>1 DEF HeapOK
<1>5. \/ Fails(D \cup Experts[lyr], c) /\ Stop
      \/ /\ mk' = Len(allocs) /\ \E f \in [D -> Free] : Allocate(D, f) /\ built' = Overwrite(built, f)
         /\ step' = "block" /\ UNCHANGED <<store, pass, lyr, room, experts, hidden>>
  BY DEF BuildLayer
<1> HIDE DEF D, c
<1>6. CASE Fails(D \cup Experts[lyr], c) /\ Stop
  <2>1. Enough => ~(Room < c)
    <3>1. mem \in Nat /\ leaked \in Nat /\ 2 * NLayers * Leaks \in Nat
      BY <1>1, MemoryTyped
    <3>2. Enough => Bottom + c + Scratch["block"] + 2 * NLayers * Leaks <= mem
      BY <1>2, <3>1, EnoughFor DEF c, D
    <3>3. leaked <= 2 * NLayers * Leaks /\ Room = mem - Bottom - leaked
      BY <1>1, <1>4, LeaksBound, RoomLeft
    <3> QED
      BY <1>3, <3>1, <3>2, <3>3, ForwardConstants
  <2>2. Enough => ~Served(D \cup Experts[lyr])
    BY <1>6, <2>1 DEF Fails
  <2>3. D \cup Experts[lyr] \subseteq Asked
    BY <1>2 DEF Asked, D
  <2> QED
    BY <1>4, <1>6, <2>2, <2>3, StopStep
<1>7. CASE /\ mk' = Len(allocs) /\ \E f \in [D -> Free] : Allocate(D, f) /\ built' = Overwrite(built, f)
           /\ step' = "block" /\ UNCHANGED <<store, pass, lyr, room, experts, hidden>>
  <2>1. PICK f \in [D -> Free] : Allocate(D, f) /\ built' = Overwrite(built, f)
    BY <1>7
  <2>2. /\ UNCHANGED <<load, dev, pass, lyr, mem, leaked, wild, done, packs, buf2, h, taps, logits, drafted>>
        /\ step' = "block" /\ mk' = Bottom
    BY <1>4, <1>7 DEF store, room, experts, hidden
  <2>3. /\ Stack(heap, allocs)' /\ Len(allocs') = Bottom + c
        /\ \A i \in 1..Bottom : allocs'[i] = allocs[i] /\ heap'[allocs[i]] = heap[allocs[i]]
        /\ \A k \in D : f[k] \in DOMAIN heap' /\ heap'[f[k]] = k
    BY <1>1, <1>3, <1>4, <2>1, Allocated DEF c
  <2>4. /\ DOMAIN built' = D \cup DOMAIN built /\ \A k \in D : built'[k] = f[k]
        /\ \A k \in HeadDeq : built'[k] = built[k]
    BY <1>3, <1>4, <2>1 DEF Overwrite
  <2>5. Bottom \in 0..Cardinality(Addr)
    BY <1>3
  <2>6. TypeOK'
    BY <1>1, <2>2, <2>3, <2>5 DEF TypeOK, Stack
  <2>7. StoreOK'
    BY <1>1, <1>7, StoreSame
  <2>8. HeapOK'
    <3>1. Bottom + c >= Bottom
      BY <1>3
    <3>2. \A k \in HeadDeq : \E i \in 1..Bottom : built'[k] = allocs'[i] /\ heap'[allocs'[i]] = k
      BY <1>4, <2>3, <2>4
    <3>3. Live(Deq[lyr])'
      BY <2>2, <2>3, <2>4 DEF Live, D
    <3>4. HeadDeq \subseteq DOMAIN built' /\ load' = "ready" /\ lyr' < NLayers
      BY <1>1, <1>4, <2>2, <2>4
    <3>5. Len(allocs') = Bottom + Cardinality(Deq[lyr'])
      BY <2>2, <2>3 DEF c, D
    <3> QED
      BY <2>2, <2>3, <3>1, <3>2, <3>3, <3>4, <3>5 DEF HeapOK, Bottom
  <2>9. PacksOK' /\ MemoryEnough' /\ LeaksOK'
    <3>1. BlocksRun' = BlocksRun
      BY <1>1, <2>2 DEF BlocksRun
    <3> QED
      BY <1>1, <2>2, <3>1, SameMemory DEF PacksOK
  <2>10. HiddenOK'
    BY <1>1, <2>2 DEF HiddenOK
  <2> QED
    BY <2>6, <2>7, <2>8, <2>9, <2>10 DEF ForwardInv
<1> QED
  BY <1>5, <1>6, <1>7

\* Experts repacked before are left, those not yet are repacked once.
LEMMA Repacked ==
    ASSUME PacksOK, NEW names, Repack(names), UNCHANGED dev
    PROVE  PacksOK' /\ Packed(names)
<1> DEFINE due == {Loc(k) : k \in RepackDue(names)}
           count(a) == IF a \in DOMAIN packs THEN packs[a] ELSE 0
<1>1. /\ done' = done \cup due
      /\ packs' = Overwrite(packs, [a \in due |-> IF count(a) = 0 THEN 1 ELSE 2])
  BY DEF Repack
<1>2. \A a \in due : a \notin done
  BY DEF RepackDue
<1>3. \A a \in due : count(a) = 0
  BY <1>2 DEF PacksOK
<1>4. \A k \in names : Loc(k) \in done \/ Loc(k) \in due
  BY DEF RepackDue
<1> HIDE DEF due, count
<1>5. DOMAIN packs' = done' /\ \A a \in done' : packs'[a] = 1
  BY <1>1, <1>3 DEF Overwrite, PacksOK
<1>6. \A k \in names : packs'[Loc(k)] = 1
  BY <1>1, <1>4, <1>5
<1> QED
  BY <1>5, <1>6 DEF PacksOK, Packed

LEMMA RunBlockStep == ForwardInv /\ RunBlock => ForwardInv'
<1> SUFFICES ASSUME ForwardInv, RunBlock
             PROVE  ForwardInv'
  OBVIOUS
<1>1. /\ TypeOK /\ StoreOK /\ HeapOK /\ PacksOK /\ HiddenOK /\ LeaksOK /\ MemoryEnough /\ Stack(heap, allocs)
      /\ step = "block" /\ load = "ready" /\ lyr < NLayers
      /\ Len(allocs) = Bottom + Cardinality(Deq[lyr]) /\ Live(Deq[lyr])
  BY StackTyped DEF ForwardInv, RunBlock, HeapOK
<1>2. lyr \in Nat /\ lyr \in Layers /\ lyr + 1 \in 0..NLayers
  <2>1. lyr \in 0..NLayers
    BY <1>1 DEF TypeOK
  <2>2. NLayers \in Nat
    BY ForwardConstants
  <2> QED
    BY <1>1, <2>1, <2>2 DEF Layers
<1>3. Enough => ~(Room < Scratch["block"])
  <2>1. mem \in Nat /\ leaked \in Nat /\ 2 * NLayers * Leaks \in Nat /\ Cardinality(Deq[lyr]) \in Nat
    BY <1>1, <1>2, ForwardConstants DEF TypeOK
  <2>2. Enough => Bottom + Cardinality(Deq[lyr]) + Scratch["block"] + 2 * NLayers * Leaks <= mem
    BY <1>2, <2>1, EnoughFor
  <2>3. leaked <= 2 * NLayers * Leaks /\ Room = mem - (Bottom + Cardinality(Deq[lyr])) - leaked
    BY <1>1, LeaksBound, RoomLeft
  <2> QED
    BY <2>1, <2>2, <2>3, ForwardConstants
<1>4. CASE Short("block")
  BY <1>1, <1>3, <1>4, StopStep DEF Short
<1>5. CASE /\ Call("block", Leaks) /\ Repack(Experts[lyr])
           /\ \E out \in Result(BlockOut, Junk) : buf2' = [buf2 EXCEPT ![3 - h] = out]
           /\ h' = 3 - h /\ step' = "after"
           /\ UNCHANGED <<store, pass, lyr, memory, taps, logits, drafted>>
  <2>1. UNCHANGED <<load, dev, pass, lyr, heap, allocs, mk, built, taps, logits, drafted>>
    BY <1>5 DEF store, memory
  <2>2. PacksOK' /\ Packed(Experts[lyr])
    BY <1>1, <1>5, <2>1, Repacked
  <2>3. mem' = mem /\ leaked' \in Nat /\ wild' \in BOOLEAN /\ (~wild' => ~wild)
    BY <1>1, <1>5, CallStep, ForwardConstants
  <2>4. ~wild => BlockOut = lyr + 1
    BY <1>1, <2>2 DEF BlockOut, HiddenOK
  <2>5. h \in {1, 2} /\ 3 - h \in {1, 2} /\ DOMAIN buf2 = {1, 2}
    BY <1>1 DEF TypeOK
  <2>6. PICK out \in Result(BlockOut, Junk) : buf2' = [buf2 EXCEPT ![3 - h] = out]
    BY <1>5
  <2>7. (~wild' => out = lyr + 1) /\ out \in 0..NLayers \cup {Junk}
    BY <1>2, <2>3, <2>4, <2>6 DEF Result, BlockOut
  <2>8. /\ (~wild' => buf2'[h'] = lyr + 1) /\ DOMAIN buf2' = {1, 2} /\ h' \in {1, 2}
        /\ \A i \in {1, 2} : buf2'[i] \in 0..NLayers \cup {Junk}
    BY <1>1, <1>5, <2>5, <2>6, <2>7 DEF TypeOK
  <2>9. TypeOK'
    BY <1>1, <1>5, <2>1, <2>3, <2>8 DEF TypeOK
  <2>10. StoreOK'
    BY <1>1, <1>5, StoreSame
  <2>11. HeapOK'
    BY <1>1, <1>5, <2>1 DEF HeapOK, Bottom
  <2>12. HiddenOK'
    BY <1>1, <1>5, <2>1, <2>3, <2>8 DEF HiddenOK
  <2>13. LeaksOK' /\ MemoryEnough'
    <3>1. BlocksRun' = BlocksRun + 1
      <4>1. BlocksRun = pass * NLayers + lyr /\ BlocksRun' = pass * NLayers + (lyr + 1)
        BY <1>1, <1>5, <2>1 DEF BlocksRun
      <4>2. pass * NLayers \in Nat
        BY <1>1, RunsType
      <4> QED
        BY <1>2, <4>1, <4>2
    <3>2. Leaks \in Nat /\ step # "failed" /\ step' # "failed"
      BY <1>1, <1>5, ForwardConstants
    <3> QED
      BY <1>1, <1>3, <1>5, <3>1, <3>2, CallKeeps
  <2> QED
    BY <2>2, <2>9, <2>10, <2>11, <2>12, <2>13 DEF ForwardInv
<1> QED
  BY <1>4, <1>5 DEF RunBlock

LEMMA LayerEndStep == ForwardInv /\ LayerEnd => ForwardInv'
<1> SUFFICES ASSUME ForwardInv, LayerEnd
             PROVE  ForwardInv'
  OBVIOUS
<1>1. /\ TypeOK /\ StoreOK /\ HeapOK /\ PacksOK /\ HiddenOK /\ LeaksOK /\ MemoryEnough /\ Stack(heap, allocs)
      /\ step = "after" /\ Release(mk) /\ lyr' = lyr + 1
      /\ taps' = IF lyr \in TapLayers THEN [taps EXCEPT ![lyr] = buf2[h]] ELSE taps
      /\ step' = IF lyr + 1 < NLayers THEN "build" ELSE "head"
      /\ UNCHANGED <<store, pass, mk, built, room, experts, buf2, h, logits, drafted>>
  BY StackTyped DEF ForwardInv, LayerEnd
<1>2. UNCHANGED <<load, dev, pass, mk, built, mem, leaked, wild, done, packs, buf2, h, logits, drafted>>
  BY <1>1 DEF store, room, experts
<1>3. /\ mk = Bottom /\ lyr < NLayers /\ Bottom <= Len(allocs) /\ load = "ready" /\ HeadDeq \subseteq DOMAIN built
      /\ \A k \in HeadDeq : \E i \in 1..Bottom : built[k] = allocs[i] /\ heap[allocs[i]] = k
  <2>1. Len(allocs) >= Bottom
    BY <1>1 DEF HeapOK
  <2>2. Bottom <= Len(allocs)
    BY <1>1, <2>1, StackTyped, ForwardConstants
  <2> QED
    BY <1>1, <2>2 DEF HeapOK
<1>4. /\ Stack(heap, allocs)' /\ Len(allocs') = Bottom
      /\ \A i \in 1..Bottom : allocs'[i] = allocs[i] /\ heap'[allocs[i]] = heap[allocs[i]]
  BY <1>1, <1>3, Released, ForwardConstants
<1>5. /\ lyr \in Nat /\ lyr + 1 \in 0..NLayers /\ (~(lyr + 1 < NLayers) => lyr + 1 = NLayers)
      /\ NLayers \in Nat
  BY <1>1, <1>3, ForwardConstants DEF TypeOK
<1>6. ~wild => buf2[h] = lyr + 1
  BY <1>1 DEF HiddenOK
<1>7. DOMAIN taps' = TapLayers /\ (~wild => \A l \in TapLayers : l < lyr' => taps'[l] = l + 1)
  <2>1. DOMAIN taps = TapLayers /\ (~wild => \A l \in TapLayers : l < lyr => taps[l] = l + 1)
    BY <1>1 DEF TypeOK, HiddenOK
  <2>2. \A l \in TapLayers : l < lyr + 1 => l < lyr \/ l = lyr
    BY <1>5, ForwardConstants DEF Layers
  <2> QED
    BY <1>1, <1>6, <2>1, <2>2
<1>8. TypeOK'
  BY <1>1, <1>2, <1>4, <1>5, <1>7 DEF TypeOK, Stack
<1>9. StoreOK'
  BY <1>1, StoreSame
<1>10. HeapOK'
  <2>1. \A k \in HeadDeq : \E i \in 1..Bottom : built'[k] = allocs'[i] /\ heap'[allocs'[i]] = k
    BY <1>2, <1>3, <1>4
  <2>2. Len(allocs') >= Bottom
    BY <1>4, ForwardConstants
  <2> QED
    BY <1>1, <1>2, <1>3, <1>4, <2>1, <2>2 DEF HeapOK, Bottom
<1>11. PacksOK' /\ MemoryEnough' /\ LeaksOK'
  <2>1. BlocksRun' = BlocksRun
    BY <1>1, <1>2 DEF BlocksRun
  <2>2. step' # "failed" /\ step # "failed"
    BY <1>1
  <2> QED
    BY <1>1, <1>2, <2>1, <2>2, SameMemory DEF PacksOK
<1>12. HiddenOK'
  <2>1. step' \in {"build", "block"} => lyr' < NLayers /\ (~wild => buf2'[h'] = lyr')
    BY <1>1, <1>2, <1>6
  <2>2. step' = "head" => lyr' = NLayers /\ (~wild => buf2'[h'] = NLayers)
    BY <1>1, <1>2, <1>5, <1>6
  <2>3. step' \in {"build", "head"} /\ pass' <= 1
    BY <1>1, <1>2 DEF HiddenOK
  <2>4. ~wild => (\A i \in 1..Len(logits) : logits[i] = NLayers)' /\ drafted' \in {"none", "right"}
    BY <1>1, <1>2 DEF HiddenOK
  <2> QED
    BY <1>2, <1>7, <2>1, <2>2, <2>3, <2>4 DEF HiddenOK
<1> QED
  BY <1>8, <1>9, <1>10, <1>11, <1>12 DEF ForwardInv

LEMMA PassHeadStep == ForwardInv /\ PassHead => ForwardInv'
<1> SUFFICES ASSUME ForwardInv, PassHead
             PROVE  ForwardInv'
  OBVIOUS
<1>1. /\ TypeOK /\ StoreOK /\ HeapOK /\ PacksOK /\ HiddenOK /\ LeaksOK /\ MemoryEnough /\ Stack(heap, allocs)
      /\ step = "head" /\ load = "ready" /\ Len(allocs) = Bottom
      /\ lyr = NLayers /\ pass <= 1 /\ pass \in 0..2
  BY StackTyped DEF ForwardInv, PassHead, HeapOK, HiddenOK, TypeOK
<1>2. Enough => ~(Room < Scratch["head"])
  <2>1. mem \in Nat /\ leaked \in Nat /\ 2 * NLayers * Leaks \in Nat
    BY <1>1, ForwardConstants DEF TypeOK
  <2>2. Enough => Bottom + Scratch["head"] + 2 * NLayers * Leaks <= mem
    BY <2>1, EnoughFor
  <2>3. leaked <= 2 * NLayers * Leaks /\ Room = mem - Bottom - leaked
    BY <1>1, LeaksBound, RoomLeft
  <2> QED
    BY <2>1, <2>2, <2>3, ForwardConstants
<1>3. CASE Short("head")
  BY <1>1, <1>2, <1>3, StopStep DEF Short
<1>4. CASE /\ Call("head", 0)
           /\ \E out \in Result(IF Live(HeadDeq) THEN buf2[h] ELSE Junk, Junk) : logits' = Append(logits, out)
           /\ pass' = pass + 1 /\ step' = IF pass = 0 THEN "reset" ELSE "fill"
           /\ UNCHANGED <<store, lyr, memory, experts, buf2, h, taps, drafted>>
  <2>1. UNCHANGED <<load, dev, lyr, heap, allocs, mk, built, done, packs, buf2, h, taps, drafted>>
    BY <1>4 DEF store, memory, experts
  <2>2. mem' = mem /\ leaked' \in Nat /\ wild' \in BOOLEAN /\ (~wild' => ~wild)
    BY <1>1, <1>4, CallStep
  <2>3. Live(HeadDeq)
    <3>1. \A k \in HeadDeq : \E i \in 1..Bottom : built[k] = allocs[i] /\ heap[allocs[i]] = k
      BY <1>1 DEF HeapOK
    <3>2. \A i \in 1..Bottom : allocs[i] \in DOMAIN heap
      BY <1>1 DEF Stack
    <3> QED
      BY <3>1, <3>2 DEF Live
  <2>4. PICK S, out : /\ S = 0..NLayers \cup {Junk} /\ out \in Result(buf2[h], Junk)
                      /\ logits' = Append(logits, out)
    BY <1>4, <2>3
  <2>5. out \in S /\ logits \in Seq(S) /\ (~wild' => out = NLayers)
    BY <1>1, <2>2, <2>4 DEF Result, TypeOK, HiddenOK
  <2>6. PICK lg : lg = logits'
    OBVIOUS
  <2>7. /\ lg \in Seq(S) /\ Len(lg) = Len(logits) + 1 /\ Len(logits) \in Nat
        /\ \A i \in 1..Len(logits) : lg[i] = logits[i]
        /\ lg[Len(logits) + 1] = out
    BY <2>4, <2>5, <2>6, AppendProperties, LenProperties
  <2>8. ~wild' => \A i \in 1..Len(lg) : lg[i] = NLayers
    <3>1. ~wild' => \A i \in 1..Len(logits) : logits[i] = NLayers
      BY <1>1, <2>2 DEF HiddenOK
    <3>2. \A i \in 1..(Len(logits) + 1) : i \in 1..Len(logits) \/ i = Len(logits) + 1
      BY <2>7
    <3> QED
      BY <2>5, <2>7, <3>1, <3>2
  <2>9. pass' \in 0..2 /\ (pass = 0 => pass' <= 1) /\ (pass # 0 => pass' = 2)
    BY <1>1, <1>4
  <2>10. TypeOK'
    <3>1. step' \in {"reset", "fill"}
      BY <1>4
    <3> QED
      BY <1>1, <2>1, <2>2, <2>4, <2>6, <2>7, <2>9, <3>1 DEF TypeOK
  <2>11. StoreOK'
    BY <1>1, <1>4, StoreSame
  <2>12. HeapOK' /\ PacksOK'
    BY <1>1, <1>4, <2>1 DEF HeapOK, PacksOK, Bottom
  <2>13. HiddenOK'
    BY <1>1, <1>4, <2>1, <2>2, <2>6, <2>8, <2>9 DEF HiddenOK
  <2>14. LeaksOK' /\ MemoryEnough'
    <3>1. BlocksRun = pass * NLayers + lyr /\ BlocksRun' = (pass + 1) * NLayers + 0
      BY <1>1, <1>4 DEF BlocksRun
    <3>2. pass * NLayers + NLayers = (pass + 1) * NLayers + 0
      <4>1. pass = 0 \/ pass = 1
        BY <1>1
      <4> QED
        BY <4>1, ForwardConstants
    <3>3. step # "failed" /\ step' # "failed" /\ BlocksRun' = BlocksRun
      BY <1>1, <1>4, <3>1, <3>2
    <3>4. PICK lost \in Nat : lost = 0
      OBVIOUS
    <3>5. Call("head", lost)
      BY <1>4, <3>4
    <3> QED
      BY <1>1, <1>2, <3>3, <3>4, <3>5, CallKeeps
  <2> QED
    BY <2>10, <2>11, <2>12, <2>13, <2>14 DEF ForwardInv
<1> QED
  BY <1>3, <1>4 DEF PassHead

LEMMA FillDraftStep == ForwardInv /\ FillDraft => ForwardInv'
<1> SUFFICES ASSUME ForwardInv, FillDraft
             PROVE  ForwardInv'
  OBVIOUS
<1>1. /\ TypeOK /\ StoreOK /\ HeapOK /\ PacksOK /\ HiddenOK /\ LeaksOK /\ MemoryEnough /\ Stack(heap, allocs) /\ step = "fill"
  BY StackTyped DEF ForwardInv, FillDraft
<1>2. Len(allocs) = Bottom /\ load = "ready"
  BY <1>1 DEF HeapOK
<1>3. \/ Fails(DraftDeq \cup DraftExperts, Cardinality(DraftDeq)) /\ Stop
      \/ /\ \E f \in [DraftDeq -> Free] : Allocate(DraftDeq, f) /\ built' = Overwrite(built, f)
         /\ step' = "draft" /\ UNCHANGED <<store, pass, lyr, mk, room, experts, hidden>>
  BY DEF FillDraft
<1>4. CASE Fails(DraftDeq \cup DraftExperts, Cardinality(DraftDeq)) /\ Stop
  <2>1. Enough => ~(Room < Cardinality(DraftDeq))
    <3>1. mem \in Nat /\ leaked \in Nat /\ 2 * NLayers * Leaks \in Nat
      BY <1>1, MemoryTyped
    <3>2. Enough => Bottom + Cardinality(DraftDeq) + Scratch["draft"] + 2 * NLayers * Leaks <= mem
      BY <3>1, EnoughFor
    <3>3. leaked <= 2 * NLayers * Leaks /\ Room = mem - Bottom - leaked
      BY <1>1, <1>2, LeaksBound, RoomLeft
    <3> QED
      BY <3>1, <3>2, <3>3, ForwardConstants
  <2>2. Enough => ~Served(DraftDeq \cup DraftExperts)
    BY <1>4, <2>1 DEF Fails
  <2>3. DraftDeq \cup DraftExperts \subseteq Asked
    BY DEF Asked
  <2> QED
    BY <1>2, <1>4, <2>2, <2>3, StopStep
<1>5. CASE /\ \E f \in [DraftDeq -> Free] : Allocate(DraftDeq, f) /\ built' = Overwrite(built, f)
           /\ step' = "draft" /\ UNCHANGED <<store, pass, lyr, mk, room, experts, hidden>>
  <2>1. PICK f \in [DraftDeq -> Free] : Allocate(DraftDeq, f) /\ built' = Overwrite(built, f)
    BY <1>5
  <2>2. /\ UNCHANGED <<load, dev, pass, lyr, mk, mem, leaked, wild, done, packs, buf2, h, taps, logits, drafted>>
        /\ step' = "draft"
    BY <1>5 DEF store, room, experts, hidden
  <2>3. Stack(heap, allocs)' /\ Len(allocs') = Bottom + Cardinality(DraftDeq) /\ \A k \in DraftDeq : f[k] \in DOMAIN heap' /\ heap'[f[k]] = k
    BY <1>1, <1>2, <2>1, Allocated, ForwardConstants
  <2>4. \A k \in DraftDeq : built'[k] = f[k]
    BY <2>1 DEF Overwrite
  <2>5. TypeOK'
    BY <1>1, <2>2, <2>3 DEF TypeOK, Stack
  <2>6. StoreOK'
    BY <1>1, <1>5, StoreSame
  <2>7. HeapOK'
    <3>1. Live(DraftDeq)'
      BY <2>3, <2>4 DEF Live
    <3> QED
      BY <1>2, <2>2, <2>3, <3>1 DEF HeapOK, Bottom
  <2>8. PacksOK' /\ MemoryEnough' /\ LeaksOK'
    <3>1. BlocksRun' = BlocksRun
      BY <1>1, <2>2 DEF BlocksRun
    <3> QED
      BY <1>1, <2>2, <3>1, SameMemory DEF PacksOK
  <2>9. HiddenOK'
    BY <1>1, <2>2 DEF HiddenOK
  <2> QED
    BY <2>5, <2>6, <2>7, <2>8, <2>9 DEF ForwardInv
<1> QED
  BY <1>3, <1>4, <1>5

LEMMA DraftForwardStep == ForwardInv /\ DraftForward => ForwardInv'
<1> SUFFICES ASSUME ForwardInv, DraftForward
             PROVE  ForwardInv'
  OBVIOUS
<1>1. /\ TypeOK /\ StoreOK /\ HeapOK /\ PacksOK /\ HiddenOK /\ LeaksOK /\ MemoryEnough
      /\ Stack(heap, allocs) /\ Len(allocs) \in Nat
      /\ step = "draft" /\ load = "ready"
      /\ Len(allocs) = Bottom + Cardinality(DraftDeq) /\ Live(DraftDeq)
  BY StackTyped DEF ForwardInv, DraftForward, HeapOK
<1>2. Enough => ~(Room < Scratch["draft"])
  <2>1. mem \in Nat /\ leaked \in Nat /\ 2 * NLayers * Leaks \in Nat
    BY <1>1, ForwardConstants DEF TypeOK
  <2>2. Enough => Bottom + Cardinality(DraftDeq) + Scratch["draft"] + 2 * NLayers * Leaks <= mem
    BY <2>1, EnoughFor
  <2>3. leaked <= 2 * NLayers * Leaks /\ Room = mem - (Bottom + Cardinality(DraftDeq)) - leaked
    BY <1>1, LeaksBound, RoomLeft
  <2> QED
    BY <2>1, <2>2, <2>3, ForwardConstants
<1>3. CASE Short("draft")
  BY <1>1, <1>2, <1>3, StopStep DEF Short
<1>4. CASE /\ Call("draft", Leaks) /\ Repack(DraftExperts) /\ drafted' \in Result(DraftOut, "wrong")
           /\ Release(0) /\ step' = "done"
           /\ UNCHANGED <<store, pass, lyr, mk, built, buf2, h, taps, logits>>
  <2>1. UNCHANGED <<load, dev, pass, lyr, mk, built, buf2, h, taps, logits>>
    BY <1>4 DEF store
  <2>2. PacksOK' /\ Packed(DraftExperts)
    BY <1>1, <1>4, <2>1, Repacked
  <2>3. mem' = mem /\ leaked' \in Nat /\ wild' \in BOOLEAN /\ (~wild' => ~wild)
    BY <1>1, <1>4, CallStep, ForwardConstants
  <2>4. ~wild' => drafted' = "right"
    BY <1>1, <1>4, <2>2, <2>3 DEF Result, DraftOut, HiddenOK
  <2>5. Stack(heap, allocs)'
    <3>1. 0 \in Nat /\ 0 <= Len(allocs)
      BY <1>1
    <3> QED
      BY <1>1, <1>4, <3>1, Released
  <2>6. TypeOK'
    BY <1>1, <1>4, <2>1, <2>3, <2>5 DEF TypeOK, Stack
  <2>7. StoreOK'
    BY <1>1, <1>4, StoreSame
  <2>8. HeapOK'
    BY <1>1, <1>4, <2>1 DEF HeapOK
  <2>9. HiddenOK'
    BY <1>1, <1>4, <2>1, <2>3, <2>4 DEF HiddenOK
  <2>10. LeaksOK' /\ MemoryEnough'
    <3>1. BlocksRun' = BlocksRun + 1
      <4>1. BlocksRun = pass * NLayers + 0 /\ BlocksRun' = pass * NLayers + 1
        BY <1>1, <1>4, <2>1 DEF BlocksRun
      <4>2. pass * NLayers \in Nat
        BY <1>1, RunsType
      <4> QED
        BY <4>1, <4>2
    <3>2. Leaks \in Nat /\ step # "failed" /\ step' # "failed"
      BY <1>1, <1>4, ForwardConstants
    <3> QED
      BY <1>1, <1>2, <1>4, <3>1, <3>2, CallKeeps
  <2> QED
    BY <2>2, <2>6, <2>7, <2>8, <2>9, <2>10 DEF ForwardInv
<1> QED
  BY <1>3, <1>4 DEF DraftForward

\* While the store loads main() waits.
LEMMA LoadingStep == ForwardInv /\ Loading => ForwardInv'
<1> SUFFICES ASSUME ForwardInv, Loading
             PROVE  ForwardInv'
  OBVIOUS
<1>1. /\ TypeOK /\ StoreOK /\ HeapOK /\ PacksOK /\ HiddenOK /\ LeaksOK /\ MemoryEnough
      /\ NextStore /\ UNCHANGED <<step, pass, lyr, memory, room, experts, hidden>>
  BY DEF ForwardInv, Loading
<1>2. UNCHANGED <<step, pass, lyr, heap, allocs, mk, built, mem, leaked, wild, done, packs, buf2, h, taps, logits, drafted>>
  BY <1>1 DEF memory, room, experts, hidden
<1>3. StoreOK' /\ load \notin {"ready", "failed"}
  BY <1>1, StoreStep
<1>4. step = "load" /\ allocs = << >>
  BY <1>1, <1>3 DEF HeapOK
<1>5. TypeOK'
  BY <1>1, <1>2 DEF TypeOK
<1>6. HeapOK' /\ PacksOK' /\ MemoryEnough' /\ LeaksOK'
  <2>1. BlocksRun' = BlocksRun
    BY <1>2 DEF BlocksRun
  <2> QED
    BY <1>1, <1>2, <1>4, <2>1, SameMemory DEF HeapOK, PacksOK
<1>7. HiddenOK'
  BY <1>1, <1>2 DEF HiddenOK
<1> QED
  BY <1>3, <1>5, <1>6, <1>7 DEF ForwardInv

LEMMA ForwardStutter == ForwardInv /\ UNCHANGED vars => ForwardInv'
<1> SUFFICES ASSUME ForwardInv, UNCHANGED vars
             PROVE  ForwardInv'
  OBVIOUS
<1>1. /\ TypeOK /\ StoreOK /\ HeapOK /\ PacksOK /\ HiddenOK /\ LeaksOK /\ MemoryEnough /\ UNCHANGED store
      /\ UNCHANGED <<load, dev, step, pass, lyr, heap, allocs, mk, built, mem, leaked, wild, done, packs, buf2, h, taps, logits, drafted>>
  BY DEF ForwardInv, vars, store, memory, room, experts, hidden
<1>2. StoreOK'
  BY <1>1, StoreSame
<1>3. TypeOK' /\ PacksOK'
  BY <1>1 DEF TypeOK, PacksOK
<1>4. HeapOK'
  BY <1>1 DEF HeapOK, Live, Bottom
<1>5. HiddenOK'
  BY <1>1 DEF HiddenOK
<1>6. MemoryEnough' /\ LeaksOK'
  BY <1>1 DEF MemoryEnough, Enough, Served, LeaksOK, BlocksRun
<1> QED
  BY <1>6, <1>2, <1>3, <1>4, <1>5 DEF ForwardInv

-----------------------------------------------------------------------------
\* A loaded store holds its tensors, the Loader's stack is the live buffers, memory for
\* one layer or the draft model and for the leaks is enough, and what runs next finds
\* its weights and its input (weight_store.h:22-53, forward.cu:58-70, 139-188).
THEOREM ForwardInvHolds == Spec => []ForwardInv
<1>1. Init => ForwardInv
  BY ForwardInit
<1>2. ForwardInv /\ [Next]_vars => ForwardInv'
  BY LoadingStep, LoadHeadStep, ResetStep, BuildLayerStep, RunBlockStep, LayerEndStep, PassHeadStep,
     FillDraftStep, DraftForwardStep, ForwardStutter DEF Next, Driver
<1> QED
  BY <1>1, <1>2, PTL DEF Spec

\* A store that loads serves every kept tensor of the shards on disk, and its device
\* bytes are that tensor's in its file, wherever the shards were mapped and however
\* the reads were split (weight_store.h:28-54).
THEOREM ServesOwnBytesHolds == Spec => []ServesOwnBytes
<1>1. ForwardInv => ServesOwnBytes
  <2> SUFFICES ASSUME ForwardInv, load = "ready", NEW n \in Kept, Shard[n] \in present
               PROVE  /\ Key(n) \in DOMAIN dev
                      /\ \E m \in {m \in Kept : Key(m) = Key(n)} :
                           LET d == dev[Key(n)] IN
                           /\ d.n = Span[m].n /\ d.file = Shard[m]
                           /\ \A i \in 0..(d.n - 1) : buf[d.file][d.off + i] = Span[m].off + i
    BY DEF ServesOwnBytes
  <2>1. MapsOK /\ TensorsOK /\ BuffersOK
    BY DEF ForwardInv, StoreOK
  <2>2. Key(n) \in DOMAIN dev
    BY <2>1 DEF MapsOK, TensorsOK
  <2>3. PICK m \in Kept :
          /\ Names(m, Key(n))
          /\ dev[Key(n)] = [file |-> Shard[m], off |-> Span[m].off, n |-> Span[m].n]
    BY <2>1, <2>2 DEF TensorsOK
  <2>4. PICK s, o, c : s = Shard[m] /\ o = Span[m].off /\ c = Span[m].n
    OBVIOUS
  <2>5. Key(m) = Key(n) /\ s \in DOMAIN base /\ s \in File /\ m \in DOMAIN Span
    BY <2>3, <2>4, StoreConstants DEF Names
  <2>6. o \in Nat /\ c \in Nat /\ o + c <= Bytes[s] /\ Bytes[s] \in Nat
    BY <2>4, <2>5, StoreConstants
  <2>7. got[s] = Bytes[s] /\ \A i \in 0..(got[s] - 1) : buf[s][i] = i
    BY <2>1, <2>5 DEF BuffersOK
  <2>8. \A i \in 0..(c - 1) : buf[s][o + i] = o + i
    <3> SUFFICES ASSUME NEW i \in 0..(c - 1)
                 PROVE  buf[s][o + i] = o + i
      OBVIOUS
    <3>1. o + i \in 0..(Bytes[s] - 1)
      BY <2>6
    <3> QED
      BY <2>7, <3>1
  <2>9. dev[Key(n)].n = c /\ dev[Key(n)].file = s /\ dev[Key(n)].off = o
    BY <2>3, <2>4
  <2> QED
    BY <2>2, <2>4, <2>5, <2>8, <2>9
<1> QED
  BY <1>1, ForwardInvHolds, PTL

\* Unless memory ran out under a kernel both passes compute the same: every block finds
\* its own weights live and its experts repacked exactly once, the taps are those of
\* their layers, and so is what the draft head starts from (forward.cu:144-188,
\* tc_moe_gemm.cu:191-192).
THEOREM ForwardRightHolds == Spec => []ForwardRight
<1>1. ForwardInv => ForwardRight
  <2> SUFFICES ASSUME ForwardInv
               PROVE  ForwardRight
    OBVIOUS
  <2>1. HiddenOK
    BY DEF ForwardInv
  <2>2. \A l \in TapLayers : l < NLayers
    BY ForwardConstants DEF Layers
  <2>3. ~wild /\ step \in {"fill", "draft", "done"} => \A l \in TapLayers : taps[l] = l + 1
    BY <2>1, <2>2 DEF HiddenOK
  <2> QED
    BY <2>1, <2>3 DEF HiddenOK, ForwardRight
<1> QED
  BY <1>1, ForwardInvHolds, PTL

=============================================================================
