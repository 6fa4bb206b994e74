---------------------------- MODULE WeightStore ----------------------------
(***************************************************************************)
(* include/safetensors.h and include/weight_store.h: a sharded checkpoint  *)
(* read into device-accessible memory. The index names the shard of every  *)
(* tensor; shards are mapped to read their headers, each data blob is      *)
(* copied by pread into a buffer of its own, and a tensor's device address *)
(* is its buffer's plus its offset, recovered from the mapped address.     *)
(***************************************************************************)
EXTENDS Integers, FiniteSets, Sequences, TLC

CONSTANTS
    Name,       \* tensors named by model.safetensors.index.json
    File,       \* shard files
    Shard,      \* weight_map, [Name -> File]
    Span,       \* the headers: name -> [off, n], for the names they list
    Bytes,      \* length of each file's data blob
    Key(_),     \* key_map: checkpoint name to internal name
    Kept,       \* the names that contain only_prefix
    HeaderLen,  \* bytes of a file before its data
    MaxAddr     \* bound on the addresses mmap returns

Stale == -1     \* a byte of a buffer not read yet

ASSUME StoreAssumption ==
    /\ Shard \in [Name -> File] /\ Kept \subseteq Name
    /\ DOMAIN Span \subseteq Name
    /\ Bytes \in [File -> Nat] /\ HeaderLen \in Nat \ {0} /\ MaxAddr \in Nat
    /\ \A n \in DOMAIN Span :
         Span[n].off \in Nat /\ Span[n].n \in Nat \ {0} /\ Span[n].off + Span[n].n <= Bytes[Shard[n]]

VARIABLES
    present,    \* files on disk (a download may be partial)
    load,       \* "open", "resolve", "read", "place", then "ready" or "failed"
    todo,       \* names or keys the current loop has left
    base,       \* dataStart() of the mapped shards, by file
    tensors,    \* internal name -> [addr, n], addresses in the mappings
    buf, got,   \* the pinned buffer of each shard and the bytes read into it
    dev         \* t_: internal name -> [file, off, n], an address in that buffer

store == <<present, load, todo, base, tensors, buf, got, dev>>

InitStore ==
    /\ present \in SUBSET File
    /\ load = "open" /\ todo = Kept
    /\ base = << >> /\ tensors = << >> /\ dev = << >>
    /\ buf = [f \in File |-> [i \in 0..(Bytes[f] - 1) |-> Stale]]
    /\ got = [f \in File |-> 0]

-----------------------------------------------------------------------------
Mapped(f, b) == (b - HeaderLen)..(b + Bytes[f] - 1)

\* unordered_map::emplace: a key that is there keeps its value.
Emplace(m, k, v) == [i \in DOMAIN m \cup {k} |-> IF i \in DOMAIN m THEN m[i] ELSE v]

\* Map the shard of the next kept name unless it is mapped; a shard that is not
\* there is skipped.
OpenShard(n) ==
    LET f == Shard[n] IN
    /\ load = "open" /\ n \in todo
    /\ \/ /\ f \in DOMAIN base \/ f \notin present
          /\ UNCHANGED base
       \/ /\ f \notin DOMAIN base /\ f \in present
          /\ \E b \in HeaderLen..(MaxAddr - Bytes[f]) :
               /\ \A g \in DOMAIN base : Mapped(f, b) \cap Mapped(g, base[g]) = {}
               /\ base' = Emplace(base, f, b)
    /\ todo' = todo \ {n}
    /\ UNCHANGED <<present, load, tensors, buf, got, dev>>

\* A tensor as its header places it.
Tensor(n) == [addr |-> base[Shard[n]] + Span[n].off, n |-> Span[n].n]

\* Resolve the next kept name; of two with one internal name the first stays.
Resolve(n) ==
    /\ load = "resolve" /\ n \in todo
    /\ \/ /\ Shard[n] \notin DOMAIN base
          /\ UNCHANGED <<load, tensors>>
       \/ /\ Shard[n] \in DOMAIN base /\ n \in DOMAIN Span
          /\ tensors' = Emplace(tensors, Key(n), Tensor(n))
          /\ UNCHANGED load
       \/ /\ Shard[n] \in DOMAIN base /\ n \notin DOMAIN Span
          /\ load' = "failed"
          /\ UNCHANGED tensors
    /\ todo' = todo \ {n}
    /\ UNCHANGED <<present, base, buf, got, dev>>

\* What a pread of r bytes leaves in the buffer of f.
ReadRestarted(f, r) == [i \in DOMAIN buf[f] |-> IF i \in got[f]..(got[f] + r - 1) THEN i - got[f] ELSE buf[f][i]]
Read(f, r) == [i \in DOMAIN buf[f] |-> IF i \in got[f]..(got[f] + r - 1) THEN i ELSE buf[f][i]]

\* One turn of the pread loop: any number of the bytes left, or an error.
Pread(f) ==
    /\ load = "read" /\ f \in DOMAIN base /\ got[f] < Bytes[f]
    /\ \/ \E r \in 1..(Bytes[f] - got[f]) :
            /\ buf' = [buf EXCEPT ![f] = Read(f, r)]
            /\ got' = [got EXCEPT ![f] = @ + r]
            /\ UNCHANGED load
       \/ /\ load' = "failed"
          /\ UNCHANGED <<buf, got>>
    /\ UNCHANGED <<present, todo, base, tensors, dev>>

\* The shard in whose data a mapped address lies.
Owners(a) == {f \in DOMAIN base : base[f] <= a /\ a < base[f] + Bytes[f]}

Place(k) ==
    /\ load = "place" /\ k \in todo
    /\ LET a == tensors[k].addr IN
       \/ \E f \in Owners(a) :
            /\ dev' = Emplace(dev, k, [file |-> f, off |-> a - base[f], n |-> tensors[k].n])
            /\ UNCHANGED load
       \/ /\ Owners(a) = {}
          /\ load' = "failed"
          /\ UNCHANGED dev
    /\ todo' = todo \ {k}
    /\ UNCHANGED <<present, base, tensors, buf, got>>

\* A loop is over: the next one.
NextLoop ==
    /\ \/ load = "open" /\ todo = {} /\ load' = "resolve" /\ todo' = Kept
       \/ load = "resolve" /\ todo = {} /\ load' = "read" /\ UNCHANGED todo
       \/ /\ load = "read" /\ \A f \in DOMAIN base : got[f] = Bytes[f]
          /\ load' = "place" /\ todo' = DOMAIN tensors
       \/ load = "place" /\ todo = {} /\ load' = "ready" /\ UNCHANGED todo
    /\ UNCHANGED <<present, base, tensors, buf, got, dev>>

NextStore ==
    \/ \E n \in Name : OpenShard(n) \/ Resolve(n)
    \/ \E f \in File : Pread(f)
    \/ \E k \in DOMAIN tensors : Place(k)
    \/ NextLoop

-----------------------------------------------------------------------------
\* A store that loads serves every kept tensor of the shards on disk, and its
\* device bytes are the bytes of that tensor in its file, wherever the shards
\* were mapped and however the reads were split (weight_store.h:28-54).
ServesOwnBytes ==
    load = "ready" =>
        \A n \in Kept : Shard[n] \in present =>
            /\ Key(n) \in DOMAIN dev
            /\ \E m \in {m \in Kept : Key(m) = Key(n)} :
                 LET d == dev[Key(n)] IN
                 /\ d.n = Span[m].n /\ d.file = Shard[m]
                 /\ \A i \in 0..(d.n - 1) : buf[d.file][d.off + i] = Span[m].off + i

-----------------------------------------------------------------------------
\* The mapped shards lie apart; those of the kept names the first loop has been through
\* are mapped.
MapsOK ==
    /\ DOMAIN base \subseteq present
    /\ \A f \in DOMAIN base : base[f] \in Nat
    /\ \A f, g \in DOMAIN base : f # g => Mapped(f, base[f]) \cap Mapped(g, base[g]) = {}
    /\ \A n \in Kept : Shard[n] \in present /\ ~(load = "open" /\ n \in todo) => Shard[n] \in DOMAIN base
    /\ load \in {"open", "resolve"} => todo \subseteq Kept

\* m is a kept tensor of a mapped shard with internal name k.
Names(m, k) == m \in Kept /\ Key(m) = k /\ m \in DOMAIN Span /\ Shard[m] \in DOMAIN base

\* Every resolved tensor is one of those with its name; a kept name whose turn has come
\* is resolved, a resolved one placed.
TensorsOK ==
    /\ load = "open" => tensors = << >>
    /\ \A k \in DOMAIN tensors : \E m \in Kept : Names(m, k) /\ tensors[k] = Tensor(m)
    /\ load \in {"resolve", "read", "place", "ready"} =>
        \A n \in Kept : Shard[n] \in DOMAIN base /\ ~(load = "resolve" /\ n \in todo) => Key(n) \in DOMAIN tensors
    /\ \A k \in DOMAIN dev : \E m \in Kept :
          Names(m, k) /\ dev[k] = [file |-> Shard[m], off |-> Span[m].off, n |-> Span[m].n]
    /\ load \in {"place", "ready"} =>
        \A k \in DOMAIN tensors : ~(load = "place" /\ k \in todo) => k \in DOMAIN dev

\* The bytes read so far stand at their own place of the buffer.
BuffersOK ==
    /\ DOMAIN buf = File /\ got \in [File -> Nat]
    /\ \A f \in File :
        /\ got[f] <= Bytes[f] /\ DOMAIN buf[f] = 0..(Bytes[f] - 1)
        /\ \A i \in 0..(got[f] - 1) : buf[f][i] = i
    /\ load \in {"place", "ready"} => \A f \in DOMAIN base : got[f] = Bytes[f]

\* What every loop of the load keeps.
StoreOK ==
    /\ present \subseteq File /\ load \in {"open", "resolve", "read", "place", "ready", "failed"}
    /\ MapsOK /\ TensorsOK /\ BuffersOK

=============================================================================
