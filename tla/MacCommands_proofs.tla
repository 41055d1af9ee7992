-------------------------- MODULE MacCommands_proofs --------------------------
(***************************************************************************)
(* Proofs about downlinks and MAC commands, for every value of the           *)
(* constants: what is answered is announced and repeated, what is copied     *)
(* into one buffer fits there, and the counters of device and network agree. *)
(*                                                                           *)
(* Three invariants, one for each question, rest on the same lemmas: what a  *)
(* command adds (CommandAdded), what the commands of a frame add             *)
(* (CommandsProcessed), what a frame leaves (FrameHandled) and what goes     *)
(* into an uplink (FramePrepared).                                           *)
(***************************************************************************)
EXTENDS MacCommands, FiniteSetTheorems, TLAPS

\* Within a finite set of numbers, the k-th one exists and is unique.
LEMMA Ranked ==
  ASSUME NEW kept \in SUBSET Nat, IsFiniteSet(kept)
  PROVE  LET rank(i) == Cardinality({j \in kept : j <= i})
         IN  /\ \A i \in kept : rank(i) \in 1 .. Cardinality(kept)
             /\ \A i, j \in kept : rank(i) = rank(j) => i = j
             /\ \A k \in 1 .. Cardinality(kept) : \E i \in kept : rank(i) = k
<1> DEFINE below(i) == {j \in kept : j <= i}
           n == Cardinality(kept)
           rank == [i \in kept |-> Cardinality(below(i))]
<1>1. n \in Nat
  BY FS_CardinalityType
<1>2. ASSUME NEW i \in kept PROVE IsFiniteSet(below(i)) /\ Cardinality(below(i)) \in 1 .. n
  <2>1. below(i) \in SUBSET kept /\ i \in below(i)
    OBVIOUS
  <2>2. IsFiniteSet(below(i)) /\ Cardinality(below(i)) <= n
    BY <2>1, FS_Subset
  <2>3. Cardinality(below(i)) \in Nat /\ Cardinality(below(i)) # 0
    BY <2>1, <2>2, FS_CardinalityType, FS_EmptySet
  <2> QED BY <1>1, <2>2, <2>3
<1>3. ASSUME NEW i \in kept, NEW j \in kept, i < j
      PROVE  Cardinality(below(i)) # Cardinality(below(j))
  <2>1. /\ i \in Nat /\ j \in Nat
        /\ \A k \in kept : k \in Nat /\ (k <= i => k <= j)
    BY <1>3
  <2>2. below(i) \in SUBSET below(j) /\ j \in below(j) /\ j \notin below(i)
    <3>1. \A k \in below(i) : k \in kept /\ k <= j
      BY <2>1
    <3>2. j <= j /\ ~(j <= i)
      BY <1>3, <2>1
    <3> QED BY <3>1, <3>2
  <2> QED BY <1>2, <2>2, FS_Subset
<1>4. \A i, j \in kept : Cardinality(below(i)) = Cardinality(below(j)) => i = j
  <2>1. \A i, j \in kept : i < j \/ j < i \/ i = j
    OBVIOUS
  <2> QED BY <1>3, <2>1
<1> HIDE DEF below, n
<1>5. rank \in Injection(kept, 1 .. n)
  BY <1>2, <1>4 DEF Injection, IsInjective
<1>6. IsFiniteSet(1 .. n) /\ Cardinality(1 .. n) = n
  BY <1>1, FS_Interval
<1>7. rank \in Surjection(kept, 1 .. n)
  BY <1>5, <1>6, FS_Injection DEF n
<1>8. \A k \in 1 .. n : \E i \in kept : Cardinality(below(i)) = k
  BY <1>7 DEF Surjection
<1> QED BY <1>2, <1>4, <1>8 DEF below, n

\* The elements of a subsequence, one by one.
LEMMA ThoseAt ==
  ASSUME NEW s, NEW kept, kept \subseteq Nat, IsFiniteSet(kept)
  PROVE  \E at \in [1 .. Cardinality(kept) -> kept] :
           /\ \A k, l \in 1 .. Cardinality(kept) : at[k] = at[l] => k = l
           /\ \A i \in kept : \E k \in 1 .. Cardinality(kept) : at[k] = i
           /\ Those(s, kept) = [k \in 1 .. Cardinality(kept) |-> s[at[k]]]
<1> DEFINE n == Cardinality(kept)
           rank(i) == Cardinality({j \in kept : j <= i})
           kth(k) == CHOOSE i \in kept : rank(i) = k
           at == [k \in 1 .. n |-> kth(k)]
<1>1. /\ \A i \in kept : rank(i) \in 1 .. n
      /\ \A i, j \in kept : rank(i) = rank(j) => i = j
      /\ \A k \in 1 .. n : \E i \in kept : rank(i) = k
  BY Ranked
<1>2. Those(s, kept) = [k \in 1 .. n |-> s[kth(k)]]
  BY DEF Those
<1> HIDE DEF rank, n
<1>3. \A k \in 1 .. n : kth(k) \in kept /\ rank(kth(k)) = k
  BY <1>1
<1> HIDE DEF kth
<1>4. at \in [1 .. n -> kept] /\ \A k, l \in 1 .. n : at[k] = at[l] => k = l
  BY <1>3
<1>5. \A i \in kept : \E k \in 1 .. n : at[k] = i
  <2>1. ASSUME NEW i \in kept PROVE rank(i) \in 1 .. n /\ at[rank(i)] = i
    BY <1>1, <1>3
  <2> QED BY <2>1
<1>6. Those(s, kept) = [k \in 1 .. n |-> s[at[k]]]
  BY <1>2
<1> HIDE DEF at
<1> QED BY <1>4, <1>5, <1>6 DEF n

\* A subsequence is one, and has the elements asked for.
LEMMA ThoseElements ==
  ASSUME NEW S, NEW s \in Seq(S), NEW kept \in SUBSET (DOMAIN s)
  PROVE  Those(s, kept) \in Seq(S) /\ ToSet(Those(s, kept)) = {s[i] : i \in kept}
<1>1. kept \subseteq Nat /\ IsFiniteSet(kept) /\ Cardinality(kept) \in Nat
  <2>1. DOMAIN s = 1 .. Len(s) /\ Len(s) \in Nat
    OBVIOUS
  <2>2. IsFiniteSet(1 .. Len(s))
    BY <2>1, FS_Interval
  <2> QED BY <2>1, <2>2, FS_Subset, FS_CardinalityType
<1>2. PICK at \in [1 .. Cardinality(kept) -> kept] :
           /\ \A k, l \in 1 .. Cardinality(kept) : at[k] = at[l] => k = l
           /\ \A i \in kept : \E k \in 1 .. Cardinality(kept) : at[k] = i
           /\ Those(s, kept) = [k \in 1 .. Cardinality(kept) |-> s[at[k]]]
  BY <1>1, ThoseAt
<1>3. \A k \in 1 .. Cardinality(kept) : s[at[k]] \in S
  OBVIOUS
<1>4. Those(s, kept) \in Seq(S)
  BY <1>1, <1>2, <1>3
<1>5. ToSet(Those(s, kept)) = {Those(s, kept)[k] : k \in 1 .. Cardinality(kept)}
  BY <1>2 DEF ToSet
<1>6. ToSet(Those(s, kept)) = {s[at[k]] : k \in 1 .. Cardinality(kept)}
  BY <1>2, <1>5
<1>7. {s[at[k]] : k \in 1 .. Cardinality(kept)} = {s[i] : i \in kept}
  BY <1>2
<1> QED BY <1>4, <1>6, <1>7

-----------------------------------------------------------------------------
(* The bytes of commands.                                                    *)

\* The commands for which AddMacCommand asks for the room they take.
Counted == DOMAIN Sizes \ Careless

Held == [cmd : DOMAIN Sizes, request : (Nat \X Nat) \cup ({"own"} \X Nat)]

\* The bytes of the commands in C, whose names Held gives.
Spots(s, C) == {b \in (DOMAIN s) \X (1 .. 3) : s[b[1]].cmd \in C /\ b[2] <= Sizes[s[b[1]].cmd]}
BytesIn(s, C) == Cardinality(Spots(s, C))

\* No command is longer than three bytes.
LEMMA SizesBounded == \A cmd \in DOMAIN Sizes : Sizes[cmd] \in 1 .. 3
  BY DEF Sizes

\* Bytes are numbers.
LEMMA BytesCounted ==
  ASSUME NEW s \in Seq(Held), NEW C
  PROVE  /\ IsFiniteSet(Spots(s, C)) /\ BytesIn(s, C) = Cardinality(Spots(s, C))
         /\ BytesIn(s, C) \in Nat /\ Bytes(s) \in Nat /\ BytesIn(s, C) <= Bytes(s)
         /\ (\A c \in ToSet(s) : c.cmd \in C) => BytesIn(s, C) = Bytes(s)
<1> DEFINE all == {b \in (DOMAIN s) \X (1 .. 3) : b[2] <= Sizes[s[b[1]].cmd]}
<1>1. IsFiniteSet(DOMAIN s) /\ IsFiniteSet(1 .. 3)
  <2>1. DOMAIN s = 1 .. Len(s) /\ Len(s) \in Nat
    OBVIOUS
  <2>2. IsFiniteSet(1 .. Len(s))
    BY <2>1, FS_Interval
  <2>3. IsFiniteSet(1 .. 3)
    <3>1. 1 \in Int /\ 3 \in Int
      OBVIOUS
    <3> QED BY <3>1, FS_Interval
  <2> QED BY <2>1, <2>2, <2>3
<1>2. IsFiniteSet((DOMAIN s) \X (1 .. 3))
  BY <1>1, FS_Product
<1>3. IsFiniteSet(all) /\ Bytes(s) = Cardinality(all)
  BY <1>2, FS_Subset DEF Bytes
<1>4. Spots(s, C) \subseteq all
  BY DEF Spots
<1>5. ASSUME \A c \in ToSet(s) : c.cmd \in C PROVE Spots(s, C) = all
  <2>1. \A i \in DOMAIN s : s[i] \in ToSet(s)
    BY DEF ToSet
  <2> QED BY <1>5, <2>1 DEF Spots
<1> HIDE DEF all
<1>6. IsFiniteSet(Spots(s, C)) /\ Cardinality(Spots(s, C)) <= Cardinality(all)
  BY <1>3, <1>4, FS_Subset
<1> QED BY <1>3, <1>5, <1>6, FS_CardinalityType DEF BytesIn

\* No command, no byte.
LEMMA BytesOfNone == Bytes(<<>>) = 0 /\ \A C : BytesIn(<<>>, C) = 0
<1>1. {b \in (DOMAIN <<>>) \X (1 .. 3) : b[2] <= Sizes[<<>>[b[1]].cmd]} = {}
  OBVIOUS
<1>2. \A C : Spots(<<>>, C) = {}
  BY DEF Spots
<1> QED BY <1>1, <1>2, FS_EmptySet DEF Bytes, BytesIn

\* A command more has its own bytes more.
LEMMA BytesAppended ==
  ASSUME NEW s \in Seq(Held), NEW c \in Held, NEW C
  PROVE  BytesIn(Append(s, c), C) = BytesIn(s, C) + (IF c.cmd \in C THEN Sizes[c.cmd] ELSE 0)
<1> DEFINE t == Append(s, c)
           size == IF c.cmd \in C THEN Sizes[c.cmd] ELSE 0
           new == {Len(s) + 1} \X (1 .. size)
<1>1. /\ t \in Seq(Held) /\ Len(t) = Len(s) + 1 /\ DOMAIN t = 1 .. Len(s) + 1 /\ Len(s) \in Nat
      /\ DOMAIN s = 1 .. Len(s) /\ t[Len(s) + 1] = c /\ \A i \in 1 .. Len(s) : t[i] = s[i]
  OBVIOUS
<1>2. c.cmd \in DOMAIN Sizes /\ Sizes[c.cmd] \in 1 .. 3 /\ size \in 0 .. 3
  BY SizesBounded DEF Held
<1> HIDE DEF t
<1>3. Spots(t, C) = Spots(s, C) \cup new
  <2>1. ASSUME NEW b \in Spots(t, C) PROVE b \in Spots(s, C) \cup new
    BY <1>1, <1>2, <2>1 DEF Spots
  <2>2. ASSUME NEW b \in Spots(s, C) PROVE b \in Spots(t, C)
    BY <1>1, <2>2 DEF Spots
  <2>3. ASSUME NEW b \in new PROVE b \in Spots(t, C)
    BY <1>1, <1>2, <2>3 DEF Spots
  <2> QED BY <2>1, <2>2, <2>3
<1>4. Spots(s, C) \cap new = {}
  BY <1>1 DEF Spots
<1> HIDE DEF size
<1>5. IsFiniteSet(new) /\ Cardinality(new) = size
  <2>1. IsFiniteSet({Len(s) + 1}) /\ Cardinality({Len(s) + 1}) = 1
    BY FS_Singleton
  <2>2. IsFiniteSet(1 .. size) /\ Cardinality(1 .. size) = size
    <3>1. 1 \in Int /\ size \in Int /\ size = IF 1 > size THEN 0 ELSE size - 1 + 1
      BY <1>2
    <3> HIDE DEF new
    <3> QED BY <3>1, FS_Interval
  <2>3. /\ IsFiniteSet(new)
        /\ Cardinality(new) = Cardinality({Len(s) + 1}) * Cardinality(1 .. size)
    BY <2>1, <2>2, FS_Product
  <2> HIDE DEF new
  <2>4. Cardinality(new) = 1 * size
    BY <2>1, <2>2, <2>3, Zenon
  <2> QED BY <1>2, <2>3, <2>4
<1>6. IsFiniteSet(Spots(s, C)) /\ Cardinality(Spots(s, C)) \in Nat
  BY BytesCounted
<1>7. Cardinality(Spots(s, C) \cap new) = 0
  BY <1>4, FS_EmptySet
<1>8. Cardinality(Spots(t, C)) = Cardinality(Spots(s, C)) + size
  <2>1. Cardinality(Spots(t, C)) = Cardinality(Spots(s, C)) + Cardinality(new) - Cardinality(Spots(s, C) \cap new)
    BY <1>3, <1>5, <1>6, FS_Union
  <2> QED BY <1>2, <1>5, <1>6, <1>7, <2>1
<1> QED BY <1>1, <1>8, BytesCounted DEF t, size

\* The bytes of two sequences of commands, one behind the other.
LEMMA BytesJoined ==
  ASSUME NEW s \in Seq(Held), NEW t \in Seq(Held), NEW C
  PROVE  BytesIn(s \o t, C) = BytesIn(s, C) + BytesIn(t, C)
<1> DEFINE u == s \o t
           n == Len(s)
           moved == {b \in Spots(u, C) : b[1] > n}
           shift == [b \in Spots(t, C) |-> <<b[1] + n, b[2]>>]
<1>1. /\ u \in Seq(Held) /\ n \in Nat /\ Len(t) \in Nat /\ DOMAIN u = 1 .. n + Len(t)
      /\ DOMAIN s = 1 .. n /\ DOMAIN t = 1 .. Len(t)
      /\ \A i \in 1 .. n : u[i] = s[i]
      /\ \A i \in 1 .. Len(t) : u[i + n] = t[i]
  OBVIOUS
<1> HIDE DEF u, n
<1>2. Spots(u, C) = Spots(s, C) \cup moved /\ Spots(s, C) \cap moved = {}
  <2>1. ASSUME NEW b \in Spots(s, C) PROVE b \in Spots(u, C) /\ b \notin moved
    BY <1>1, <2>1 DEF Spots
  <2>2. ASSUME NEW b \in Spots(u, C), b \notin moved PROVE b \in Spots(s, C)
    BY <1>1, <2>2 DEF Spots
  <2> QED BY <2>1, <2>2
<1>3. shift \in Bijection(Spots(t, C), moved)
  <2>1. ASSUME NEW b \in Spots(t, C) PROVE shift[b] \in moved
    <3>1. /\ b \in (1 .. Len(t)) \X (1 .. 3) /\ t[b[1]].cmd \in C /\ b[2] <= Sizes[t[b[1]].cmd]
          /\ shift[b] = <<b[1] + n, b[2]>>
      BY <1>1 DEF Spots
    <3>2. b[1] + n \in DOMAIN u /\ u[b[1] + n] = t[b[1]] /\ b[1] + n > n
      BY <1>1, <3>1
    <3> QED BY <3>1, <3>2 DEF Spots
  <2>2. ASSUME NEW b \in Spots(t, C), NEW d \in Spots(t, C), shift[b] = shift[d] PROVE b = d
    <3>1. b \in Nat \X Nat /\ d \in Nat \X Nat
      BY <1>1 DEF Spots
    <3>2. b[1] + n = d[1] + n /\ b[2] = d[2]
      BY <2>2
    <3> QED BY <1>1, <3>1, <3>2
  <2>3. ASSUME NEW d \in moved PROVE \E b \in Spots(t, C) : shift[b] = d
    <3> DEFINE b == <<d[1] - n, d[2]>>
    <3>1. /\ d \in (1 .. n + Len(t)) \X (1 .. 3) /\ u[d[1]].cmd \in C
          /\ d[2] <= Sizes[u[d[1]].cmd] /\ d[1] > n
      BY <1>1 DEF Spots
    <3>2. d[1] - n \in 1 .. Len(t) /\ u[d[1]] = t[d[1] - n]
      <4>1. d[1] - n \in 1 .. Len(t)
        BY <1>1, <3>1
      <4>2. (d[1] - n) + n = d[1]
        BY <1>1, <3>1
      <4> QED BY <1>1, <4>1, <4>2
    <3>3. b \in Spots(t, C)
      BY <1>1, <3>1, <3>2 DEF Spots
    <3>4. shift[b] = <<(d[1] - n) + n, d[2]>>
      BY <3>3
    <3>5. (d[1] - n) + n = d[1] /\ d = <<d[1], d[2]>>
      BY <1>1, <3>1
    <3> QED BY <3>3, <3>4, <3>5
  <2> HIDE DEF moved
  <2>4. shift \in [Spots(t, C) -> moved]
    BY <2>1
  <2> HIDE DEF shift
  <2> QED BY <2>2, <2>3, <2>4 DEF Bijection, Injection, Surjection, IsInjective
<1>4. IsFiniteSet(moved) /\ Cardinality(moved) = Cardinality(Spots(t, C))
  BY <1>3, BytesCounted, FS_Bijection DEF ExistsBijection
<1>5. /\ IsFiniteSet(Spots(s, C)) /\ Cardinality(Spots(s, C) \cap moved) = 0
      /\ Cardinality(Spots(s, C)) \in Nat /\ Cardinality(Spots(t, C)) \in Nat
  BY <1>2, FS_EmptySet, BytesCounted
<1> HIDE DEF moved
<1>6. Cardinality(Spots(u, C)) = Cardinality(Spots(s, C)) + Cardinality(Spots(t, C))
  <2>1. Cardinality(Spots(u, C))
          = Cardinality(Spots(s, C)) + Cardinality(moved) - Cardinality(Spots(s, C) \cap moved)
    BY <1>2, <1>4, <1>5, FS_Union
  <2> QED BY <1>4, <1>5, <2>1
<1> QED BY <1>1, <1>6, BytesCounted DEF u

\* Some of the commands in C have no more bytes than all of them.
LEMMA BytesOfThose ==
  ASSUME NEW s \in Seq(Held), NEW kept \in SUBSET (DOMAIN s), NEW C,
         \A i \in kept : s[i].cmd \in C
  PROVE  Bytes(Those(s, kept)) <= BytesIn(s, C)
<1> DEFINE t == Those(s, kept)
           n == Cardinality(kept)
<1>1. kept \subseteq Nat /\ IsFiniteSet(kept) /\ n \in Nat
  <2>1. DOMAIN s = 1 .. Len(s) /\ Len(s) \in Nat
    OBVIOUS
  <2>2. IsFiniteSet(1 .. Len(s))
    BY <2>1, FS_Interval
  <2> QED BY <2>1, <2>2, FS_Subset, FS_CardinalityType
<1>2. PICK at \in [1 .. n -> kept] :
           /\ \A k, l \in 1 .. n : at[k] = at[l] => k = l
           /\ \A i \in kept : \E k \in 1 .. n : at[k] = i
           /\ t = [k \in 1 .. n |-> s[at[k]]]
  BY <1>1, ThoseAt
<1> DEFINE f == [b \in Spots(t, C) |-> <<at[b[1]], b[2]>>]
<1>3. t \in Seq(Held)
  BY ThoseElements
<1> HIDE DEF t, n
<1>4. ASSUME NEW b \in Spots(t, C)
      PROVE  b \in (1 .. n) \X (1 .. 3) /\ f[b] = <<at[b[1]], b[2]>> /\ f[b] \in Spots(s, C)
  <2>1. b \in (1 .. n) \X (1 .. 3) /\ t[b[1]].cmd \in C /\ b[2] <= Sizes[t[b[1]].cmd]
    BY <1>2 DEF Spots
  <2>2. at[b[1]] \in DOMAIN s /\ t[b[1]] = s[at[b[1]]]
    BY <1>2, <2>1
  <2>3. f[b] = <<at[b[1]], b[2]>>
    OBVIOUS
  <2>4. <<at[b[1]], b[2]>> \in Spots(s, C)
    BY <2>1, <2>2 DEF Spots
  <2> QED BY <2>1, <2>3, <2>4
<1>5. ASSUME NEW b \in Spots(t, C), NEW d \in Spots(t, C), f[b] = f[d] PROVE b = d
  <2>1. at[b[1]] = at[d[1]] /\ b[2] = d[2]
    BY <1>4, <1>5
  <2>2. b[1] = d[1]
    BY <1>2, <1>4, <2>1
  <2>3. b \in (1 .. n) \X (1 .. 3) /\ d \in (1 .. n) \X (1 .. 3)
    BY <1>4
  <2>4. b = <<b[1], b[2]>> /\ d = <<d[1], d[2]>>
    BY <2>3
  <2> QED BY <2>1, <2>2, <2>4
<1>6. f \in [Spots(t, C) -> Spots(s, C)]
  BY <1>4
<1> HIDE DEF f
<1>7. f \in Injection(Spots(t, C), Spots(s, C))
  BY <1>5, <1>6 DEF Injection, IsInjective
<1>8. Cardinality(Spots(t, C)) <= Cardinality(Spots(s, C))
  BY <1>7, FS_Injection, BytesCounted
<1>9. \A c \in ToSet(t) : c.cmd \in C
  <2>1. \A k \in 1 .. n : at[k] \in kept /\ t[k] = s[at[k]] /\ DOMAIN t = 1 .. n
    BY <1>2
  <2> QED BY <1>2, <2>1 DEF ToSet
<1> QED BY <1>3, <1>8, <1>9, BytesCounted DEF t

-----------------------------------------------------------------------------
(* The set of commands in a buffer.                                          *)

\* The set of what two sequences hold, and of what one holds and a command more.
LEMMA SetsOfCommands ==
  ASSUME NEW s \in Seq(Held), NEW t \in Seq(Held)
  PROVE  /\ s \o t \in Seq(Held) /\ ToSet(s \o t) = ToSet(s) \cup ToSet(t)
         /\ \A c \in Held : Append(s, c) \in Seq(Held) /\ ToSet(Append(s, c)) = ToSet(s) \cup {c}
         /\ ToSet(s) \subseteq Held /\ (ToSet(s) = {} <=> s = <<>>)
<1>1. ToSet(s \o t) = ToSet(s) \cup ToSet(t)
  <2> DEFINE u == s \o t
             n == Len(s)
  <2>1. /\ u \in Seq(Held) /\ n \in Nat /\ Len(t) \in Nat /\ DOMAIN u = 1 .. n + Len(t)
        /\ DOMAIN s = 1 .. n /\ DOMAIN t = 1 .. Len(t)
        /\ \A i \in 1 .. n : u[i] = s[i]
        /\ \A i \in 1 .. Len(t) : u[i + n] = t[i]
    OBVIOUS
  <2> HIDE DEF u, n
  <2>2. ASSUME NEW i \in DOMAIN u PROVE u[i] \in ToSet(s) \cup ToSet(t)
    <3>1. CASE i \in 1 .. n
      BY <2>1, <3>1 DEF ToSet
    <3>2. CASE i \notin 1 .. n
      <4>1. i - n \in 1 .. Len(t) /\ (i - n) + n = i
        BY <2>1, <3>2
      <4> QED BY <2>1, <4>1 DEF ToSet
    <3> QED BY <3>1, <3>2
  <2>3. ASSUME NEW i \in 1 .. n PROVE s[i] \in ToSet(u)
    BY <2>1 DEF ToSet
  <2>4. ASSUME NEW i \in 1 .. Len(t) PROVE t[i] \in ToSet(u)
    <3>1. i + n \in DOMAIN u
      BY <2>1
    <3> QED BY <2>1, <3>1 DEF ToSet
  <2> QED BY <2>1, <2>2, <2>3, <2>4 DEF ToSet, u
<1>2. ASSUME NEW c \in Held
      PROVE  Append(s, c) \in Seq(Held) /\ ToSet(Append(s, c)) = ToSet(s) \cup {c}
  <2> DEFINE u == Append(s, c)
  <2>1. /\ u \in Seq(Held) /\ Len(s) \in Nat /\ DOMAIN u = 1 .. Len(s) + 1 /\ DOMAIN s = 1 .. Len(s)
        /\ u[Len(s) + 1] = c /\ \A i \in 1 .. Len(s) : u[i] = s[i]
    OBVIOUS
  <2> HIDE DEF u
  <2>2. 1 .. Len(s) + 1 = (1 .. Len(s)) \cup {Len(s) + 1}
    BY <2>1
  <2> QED BY <2>1, <2>2 DEF ToSet, u
<1>3. ToSet(s) \subseteq Held
  BY DEF ToSet
<1>4. ToSet(s) = {} <=> s = <<>>
  <2>1. CASE s = <<>>
    BY <2>1 DEF ToSet
  <2>2. CASE s # <<>>
    <3>1. 1 \in DOMAIN s
      BY <2>2
    <3> QED BY <2>2, <3>1 DEF ToSet
  <2> QED BY <2>1, <2>2
<1> QED BY <1>1, <1>2, <1>3, <1>4

\* What is kept to be repeated.
LEMMA RepeatKept ==
  ASSUME NEW s \in Seq(Held)
  PROVE  LET t == ParseMacCommandsToRepeat(s) IN
         /\ t \in Seq(Held) /\ ToSet(t) = StickyIn(s) /\ StickyIn(t) = StickyIn(s)
         /\ (t = <<>> <=> StickyIn(s) = {}) /\ Bytes(t) <= Bytes(s)
         /\ (\A c \in ToSet(s) : c.cmd # "DL_CHANNEL_ANS") => Bytes(t) <= BytesIn(s, Counted)
<1> DEFINE kept == {i \in DOMAIN s : s[i].cmd \in Sticky}
           t == Those(s, kept)
<1>1. ParseMacCommandsToRepeat(s) = t
  BY DEF ParseMacCommandsToRepeat
<1>2. kept \in SUBSET (DOMAIN s) /\ {s[i] : i \in kept} = StickyIn(s)
  BY DEF StickyIn, ToSet
<1>3. \A i \in kept : s[i].cmd \in Sticky /\ s[i] \in ToSet(s) /\ s[i].cmd \in DOMAIN Sizes
  <2>1. ASSUME NEW i \in kept PROVE s[i].cmd \in Sticky /\ s[i] \in ToSet(s) /\ s[i] \in Held
    BY DEF ToSet
  <2> QED BY <2>1 DEF Held
<1> HIDE DEF kept
<1>4. t \in Seq(Held) /\ ToSet(t) = StickyIn(s)
  BY <1>2, ThoseElements
<1>5. Bytes(t) <= Bytes(s)
  <2>1. Bytes(t) <= BytesIn(s, DOMAIN Sizes)
    BY <1>2, <1>3, BytesOfThose
  <2>2. BytesIn(s, DOMAIN Sizes) <= Bytes(s) /\ BytesIn(s, DOMAIN Sizes) \in Nat /\ Bytes(s) \in Nat
    BY BytesCounted
  <2>3. Bytes(t) \in Nat
    BY <1>4, BytesCounted
  <2> QED BY <2>1, <2>2, <2>3
<1>6. ASSUME \A c \in ToSet(s) : c.cmd # "DL_CHANNEL_ANS"
      PROVE  Bytes(t) <= BytesIn(s, Counted)
  <2>1. \A i \in kept : s[i].cmd \in Counted
    BY <1>3, <1>6 DEF Counted, Sticky, Careless
  <2> QED BY <1>2, <2>1, BytesOfThose
<1> HIDE DEF t
<1>7. StickyIn(t) = StickyIn(s)
  BY <1>4 DEF StickyIn
<1> QED BY <1>1, <1>4, <1>5, <1>6, <1>7, SetsOfCommands

-----------------------------------------------------------------------------
(* Processing the commands of a frame.                                       *)

\* A set of numbers that has an element has a least one.
LEMMA Least ==
  ASSUME NEW T, T \subseteq Nat, T # {}
  PROVE  \E k \in T : \A y \in T : k <= y
<1> DEFINE upTo == {1 .. i : i \in T}
           less == StrictSubsetOrdering(Nat)
<1>1. \A i \in T : 1 .. i \in FiniteSubsetsOf(Nat)
  <2>1. ASSUME NEW i \in T PROVE 1 .. i \subseteq Nat /\ IsFiniteSet(1 .. i)
    BY FS_Interval
  <2> QED BY <2>1 DEF FiniteSubsetsOf
<1>2. upTo \subseteq FiniteSubsetsOf(Nat) /\ upTo # {}
  BY <1>1
<1>3. IsWellFoundedOn(less, FiniteSubsetsOf(Nat))
  BY FS_StrictSubsetOrderingWellFounded
<1> HIDE DEF upTo, less
<1>4. PICK least \in upTo : \A x \in upTo : <<x, least>> \notin less
  BY <1>2, <1>3, WFMin
<1>5. PICK k \in T : least = 1 .. k
  BY DEF upTo
<1>6. ASSUME NEW y \in T, y < k PROVE FALSE
  <2>1. k \in Nat /\ y \in Nat
    OBVIOUS
  <2>2. 1 .. y \subseteq 1 .. k /\ k \in 1 .. k /\ k \notin 1 .. y /\ 1 .. k \subseteq Nat
    BY <1>6, <2>1
  <2>3. <<1 .. y, 1 .. k>> \in less
    BY <2>2 DEF less, StrictSubsetOrdering
  <2> QED BY <1>4, <1>5, <2>3 DEF upTo
<1>7. \A y \in T : k <= y
  <2>1. ASSUME NEW y \in T PROVE k <= y
    <3>1. k \in Nat /\ y \in Nat
      OBVIOUS
    <3> QED BY <1>6, <3>1
  <2> QED BY <2>1
<1> QED BY <1>7

\* What each command keeps, all commands of a frame keep.
LEMMA Processed ==
  ASSUME NEW m, NEW commands \in Seq(STRING), NEW fcnt, NEW S, m \in S,
         \A x \in S, i \in 1 .. Len(commands) : ProcessOne(x, commands[i], <<fcnt, i>>) \in S
  PROVE  ProcessMacCommands(m, commands, fcnt) \in S
<1> DEFINE known == {i \in 1 .. Len(commands) : \A j \in 1 .. i : ~Stops(commands[j])}
           n == Cardinality(known)
           one(x, i) == ProcessOne(x, commands[i], <<fcnt, i>>)
           Run(g, k) == g = [i \in 0 .. k |-> IF i = 0 THEN m ELSE one(g[i - 1], i)]
           after == CHOOSE g : Run(g, n)
<1>1. ProcessMacCommands(m, commands, fcnt) = after[n]
  BY SMTT(30) DEF ProcessMacCommands
<1>2. n \in 0 .. Len(commands)
  <2>1. Len(commands) \in Nat /\ known \in SUBSET (1 .. Len(commands))
    OBVIOUS
  <2> HIDE DEF known
  <2>2. IsFiniteSet(1 .. Len(commands)) /\ Cardinality(1 .. Len(commands)) = Len(commands)
    <3> DEFINE len == Len(commands)
    <3>1. 1 \in Int /\ len \in Int /\ len = IF 1 > len THEN 0 ELSE len - 1 + 1
      BY <2>1
    <3> HIDE DEF len
    <3>2. IsFiniteSet(1 .. len) /\ Cardinality(1 .. len) = len
      BY <3>1, FS_Interval
    <3> QED BY <3>2 DEF len
  <2>3. IsFiniteSet(known) /\ Cardinality(known) <= Len(commands)
    BY <2>1, <2>2, FS_Subset
  <2> QED BY <2>1, <2>3, FS_CardinalityType
<1> HIDE DEF known, n
<1>3. \A x \in S, i \in 1 .. n : one(x, i) \in S
  BY <1>2
<1> HIDE DEF one
<1>4. \A k \in 0 .. n : \E g : Run(g, k)
  <2> DEFINE T == {k \in 0 .. n : ~\E g : Run(g, k)}
  <2>1. SUFFICES ASSUME T # {} PROVE FALSE
    OBVIOUS
  <2>2. T \subseteq Nat
    BY <1>2
  <2>3. PICK k \in T : \A y \in T : k <= y
    <3> HIDE DEF T
    <3> QED BY <2>1, <2>2, Least
  <2>4. k \in 0 .. n /\ n \in Nat /\ ~\E g : Run(g, k)
    BY <1>2
  <2>5. CASE k = 0
    <3> DEFINE h == [i \in 0 .. 0 |-> m]
    <3>1. h = [i \in 0 .. 0 |-> IF i = 0 THEN m ELSE one(h[i - 1], i)]
      OBVIOUS
    <3> QED BY <2>4, <2>5, <3>1
  <2>6. CASE k # 0
    <3>1. k - 1 \in 0 .. n /\ ~(k <= k - 1)
      BY <2>4, <2>6
    <3>2. PICK g : Run(g, k - 1)
      BY <2>3, <3>1
    <3> DEFINE h == [i \in 0 .. k |-> IF i = k THEN one(g[k - 1], k) ELSE g[i]]
    <3>3. ASSUME NEW i \in 0 .. k PROVE h[i] = IF i = 0 THEN m ELSE one(h[i - 1], i)
      <4>1. CASE i = 0
        BY <2>4, <2>6, <3>2, <4>1
      <4>2. CASE i # 0 /\ i # k
        <5>1. i \in 0 .. k - 1 /\ i - 1 \in 0 .. k /\ i - 1 # k
          BY <2>4, <4>2
        <5>2. g[i] = one(g[i - 1], i)
          BY <3>2, <4>2, <5>1
        <5> QED BY <4>2, <5>1, <5>2
      <4>3. CASE i = k
        <5>1. k - 1 \in 0 .. k /\ k - 1 # k
          BY <2>4, <2>6
        <5> QED BY <2>6, <4>3, <5>1
      <4> QED BY <4>1, <4>2, <4>3
    <3>4. h = [i \in 0 .. k |-> IF i = 0 THEN m ELSE one(h[i - 1], i)]
      BY <3>3
    <3> HIDE DEF h
    <3> QED BY <2>4, <3>4
  <2> QED BY <2>5, <2>6
<1>5. Run(after, n)
  <2>1. \E g : Run(g, n)
    BY <1>2, <1>4
  <2> HIDE DEF Run
  <2> QED BY <2>1
<1> HIDE DEF after
<1>6. \A i \in 0 .. n : after[i] = IF i = 0 THEN m ELSE one(after[i - 1], i)
  BY <1>5
<1>7. \A i \in 0 .. n : after[i] \in S
  <2> DEFINE T == {k \in 0 .. n : after[k] \notin S}
  <2>1. SUFFICES ASSUME T # {} PROVE FALSE
    OBVIOUS
  <2>2. T \subseteq Nat
    BY <1>2
  <2>3. PICK k \in T : \A y \in T : k <= y
    <3> HIDE DEF T
    <3> QED BY <2>1, <2>2, Least
  <2>4. k \in 0 .. n /\ n \in Nat /\ after[k] \notin S
    BY <1>2
  <2>5. k # 0
    BY <1>6, <2>4
  <2>6. k - 1 \in 0 .. n /\ ~(k <= k - 1) /\ k \in 1 .. n
    BY <2>4, <2>5
  <2>7. after[k - 1] \in S
    BY <2>3, <2>6
  <2> QED BY <1>3, <1>6, <2>4, <2>5, <2>6, <2>7
<1> QED BY <1>1, <1>2, <1>7

-----------------------------------------------------------------------------
(* The state.                                                                *)

Counters == 0 .. FCNT_MOD * FCNT_MOD - 1
To == {"unicast", "multicast"}

Macs ==
  [class : Classes, down : Counters, mdown : Counters, srvAck : BOOLEAN, inNextTx : BOOLEAN,
   buffer : Seq(Held), repeat : Seq(Held), type : {"CONFIRMED", "UNCONFIRMED"}, nodeAck : BOOLEAN,
   tries : 1 .. NbTrials, reps : 0 .. NbRep, done : BOOLEAN, retry : BOOLEAN, ind : BOOLEAN,
   skip : BOOLEAN, ok : BOOLEAN, data : BOOLEAN, from : To, fcnt : Nat, ackReceived : BOOLEAN,
   mlmeInd : BOOLEAN, told : BOOLEAN]

Frames ==
  [to : To, fcnt : Nat, type : {"CONFIRMED", "UNCONFIRMED"}, ack : BOOLEAN,
   fopts : Seq(STRING), port : {"zero", "app", "none"}, payload : Seq(STRING)]

\* One buffer has room for all that is kept and was counted; what is repeated
\* was.
Room(m) ==
  /\ \A c \in ToSet(m.repeat) : c.cmd \in Counted
  /\ \A c \in ToSet(m.buffer) : c.cmd # "DL_CHANNEL_ANS"
  /\ BytesIn(m.buffer, Counted) + Bytes(m.repeat) <= LORA_MAC_COMMAND_MAX_LENGTH

\* Nothing sticky is kept unless the next uplink is to carry it.
Kept(m) ==
  /\ \A c \in ToSet(m.repeat) : c.cmd \in Sticky
  /\ ~m.inNextTx => StickyIn(m.buffer) = {} /\ StickyIn(m.repeat) = {}

-----------------------------------------------------------------------------
(* What adding commands to the buffer does.                                  *)

\* x is m after commands were added to its buffer.
Adds(x, m) ==
  /\ x = [m EXCEPT !.buffer = x.buffer, !.inNextTx = x.inNextTx, !.mlmeInd = x.mlmeInd]
  /\ m.inNextTx => x.inNextTx
  /\ m.mlmeInd => x.mlmeInd
  /\ StickyIn(m.buffer) \subseteq StickyIn(x.buffer)
  /\ StickyIn(x.buffer) # StickyIn(m.buffer) => x.inNextTx /\ x.mlmeInd

\* A number below the modulus is its own remainder.
LEMMA SmallRemainder ==
  ASSUME NEW n \in Nat \ {0}, NEW x \in 0 .. n - 1
  PROVE  x % n = x
  OBVIOUS

\* AddMacCommand adds the command or nothing; a sticky one is announced; one
\* that is counted leaves room for what is repeated.
LEMMA CommandAdded ==
  ASSUME NEW m \in Macs, NEW cmd \in DOMAIN Sizes,
         NEW request \in (Nat \X Nat) \cup ({"own"} \X Nat)
  PROVE  LET x == AddMacCommand(m, cmd, request) IN
         /\ x \in Macs /\ Adds(x, m)
         /\ cmd \notin Sticky => StickyIn(x.buffer) = StickyIn(m.buffer)
         /\ cmd # "DL_CHANNEL_ANS" /\ Room(m) => Room(x)
<1> DEFINE c == [cmd |-> cmd, request |-> request]
           x == AddMacCommand(m, cmd, request)
           urgent == \/ cmd \in Sticky \cup {"DEV_STATUS_ANS", "PING_SLOT_FREQ_ANS", "BEACON_FREQ_ANS"}
                     \/ m.srvAck
<1>1. CASE ~Fits(m, cmd)
  <2>1. x = m
    BY <1>1 DEF AddMacCommand
  <2>2. m = [m EXCEPT !.buffer = m.buffer, !.inNextTx = m.inNextTx, !.mlmeInd = m.mlmeInd]
    BY DEF Macs
  <2> QED BY <2>1, <2>2 DEF Adds
<1>2. CASE Fits(m, cmd)
  <2>1. x = [m EXCEPT !.buffer = Append(m.buffer, c), !.inNextTx = TRUE, !.mlmeInd = m.mlmeInd \/ urgent]
    BY <1>2 DEF AddMacCommand
  <2>2. m.buffer \in Seq(Held) /\ m.repeat \in Seq(Held) /\ m.mlmeInd \in BOOLEAN /\ m.srvAck \in BOOLEAN
    BY DEF Macs
  <2>3. c \in Held /\ c.cmd = cmd
    BY DEF Held
  <2> HIDE DEF c
  <2>4. Append(m.buffer, c) \in Seq(Held) /\ ToSet(Append(m.buffer, c)) = ToSet(m.buffer) \cup {c}
    BY <2>2, <2>3, SetsOfCommands
  <2>5. StickyIn(Append(m.buffer, c)) = StickyIn(m.buffer) \cup (IF cmd \in Sticky THEN {c} ELSE {})
    BY <2>3, <2>4 DEF StickyIn
  <2> HIDE DEF urgent, x
  <2>6. /\ x.buffer = Append(m.buffer, c) /\ x.inNextTx = TRUE /\ x.mlmeInd = (m.mlmeInd \/ urgent)
        /\ x.repeat = m.repeat
        /\ x = [m EXCEPT !.buffer = x.buffer, !.inNextTx = x.inNextTx, !.mlmeInd = x.mlmeInd]
    BY <2>1 DEF Macs
  <2>7. x \in Macs
    <3>1. (m.mlmeInd \/ urgent) \in BOOLEAN
      OBVIOUS
    <3> QED BY <2>1, <2>4, <3>1 DEF Macs
  <2>8. cmd \in Sticky => urgent
    BY DEF urgent
  <2>9. Adds(x, m)
    BY <2>5, <2>6, <2>8 DEF Adds
  <2>10. cmd \notin Sticky => StickyIn(x.buffer) = StickyIn(m.buffer)
    BY <2>5, <2>6
  <2>11. ASSUME cmd # "DL_CHANNEL_ANS", Room(m) PROVE Room(x)
    <3>1. /\ Bytes(m.buffer) \in Nat /\ Bytes(m.repeat) \in Nat /\ Sizes[cmd] \in 1 .. 3
          /\ BytesIn(m.buffer, Counted) \in Nat /\ BytesIn(m.buffer, Counted) <= Bytes(m.buffer)
      BY <2>2, BytesCounted, SizesBounded
    <3>2. BytesIn(m.buffer, Counted) + Bytes(m.repeat) <= LORA_MAC_COMMAND_MAX_LENGTH
      BY <2>11 DEF Room
    <3>3. (LORA_MAC_COMMAND_MAX_LENGTH - Bytes(m.repeat)) % (2 * LORA_MAC_COMMAND_MAX_LENGTH)
            = LORA_MAC_COMMAND_MAX_LENGTH - Bytes(m.repeat)
      <4>1. /\ 2 * LORA_MAC_COMMAND_MAX_LENGTH \in Nat \ {0}
            /\ LORA_MAC_COMMAND_MAX_LENGTH - Bytes(m.repeat) \in 0 .. (2 * LORA_MAC_COMMAND_MAX_LENGTH) - 1
        BY <3>1, <3>2, LengthAssumption
      <4> QED BY <4>1, SmallRemainder
    <3>4. BytesIn(Append(m.buffer, c), Counted)
            = BytesIn(m.buffer, Counted) + (IF cmd \in Counted THEN Sizes[cmd] ELSE 0)
      BY <2>2, <2>3, BytesAppended
    <3>5. BytesIn(x.buffer, Counted) + Bytes(x.repeat) <= LORA_MAC_COMMAND_MAX_LENGTH
      <4>1. CASE cmd \in Counted
        <5>1. Bytes(m.buffer) < (LORA_MAC_COMMAND_MAX_LENGTH - Bytes(m.repeat)) - (Sizes[cmd] - 1)
          BY <1>2, <3>3, <4>1 DEF Fits, BufLen, Counted
        <5> QED BY <2>6, <3>1, <3>4, <4>1, <5>1, LengthAssumption
      <4>2. CASE cmd \notin Counted
        BY <2>6, <3>1, <3>2, <3>4, <4>2
      <4> QED BY <4>1, <4>2
    <3> QED BY <2>3, <2>4, <2>6, <2>11, <3>5 DEF Room
  <2> QED BY <2>7, <2>9, <2>10, <2>11 DEF x
<1> QED BY <1>1, <1>2

\* Adding nothing is adding, and what is added twice is added.
LEMMA AddsTransitive ==
  ASSUME NEW m \in Macs
  PROVE  /\ Adds(m, m)
         /\ \A x, y \in Macs : Adds(x, m) /\ Adds(y, x) => Adds(y, m)
<1>1. Adds(m, m)
  BY DEF Adds, Macs
<1>2. ASSUME NEW x \in Macs, NEW y \in Macs, Adds(x, m), Adds(y, x) PROVE Adds(y, m)
  <2>1. /\ x = [m EXCEPT !.buffer = x.buffer, !.inNextTx = x.inNextTx, !.mlmeInd = x.mlmeInd]
        /\ y = [x EXCEPT !.buffer = y.buffer, !.inNextTx = y.inNextTx, !.mlmeInd = y.mlmeInd]
    BY <1>2 DEF Adds
  <2>2. y = [m EXCEPT !.buffer = y.buffer, !.inNextTx = y.inNextTx, !.mlmeInd = y.mlmeInd]
    BY <2>1 DEF Macs
  <2> QED BY <1>2, <2>2 DEF Adds
<1> QED BY <1>1, <1>2

\* The network does not set the channels of the windows.
Gentle(commands) == \A i \in 1 .. Len(commands) : commands[i] # "DL_CHANNEL_REQ"

\* ProcessMacCommands adds commands, and leaves room if they are gentle.
LEMMA CommandsProcessed ==
  ASSUME NEW m \in Macs, NEW commands \in Seq(STRING), NEW fcnt \in Nat
  PROVE  LET x == ProcessMacCommands(m, commands, fcnt) IN
         /\ x \in Macs /\ Adds(x, m)
         /\ Gentle(commands) /\ Room(m) => Room(x)
<1> DEFINE S == {x \in Macs : Adds(x, m)}
           R == {x \in S : Room(x)}
           one(x, i) == ProcessOne(x, commands[i], <<fcnt, i>>)
<1>1. ASSUME NEW x \in Macs, NEW i \in 1 .. Len(commands)
      PROVE  /\ one(x, i) \in Macs /\ Adds(one(x, i), x)
             /\ Gentle(commands) /\ Room(x) => Room(one(x, i))
  <2>1. <<fcnt, i>> \in (Nat \X Nat) \cup ({"own"} \X Nat)
    OBVIOUS
  <2>2. CASE commands[i] \in DOMAIN Answers
    <3>1. one(x, i) = AddMacCommand(x, Answers[commands[i]], <<fcnt, i>>)
      BY <2>2 DEF ProcessOne, Answers
    <3>2. Answers[commands[i]] \in DOMAIN Sizes
      BY <2>2 DEF Answers, Sizes
    <3>3. Gentle(commands) => Answers[commands[i]] # "DL_CHANNEL_ANS"
      BY <2>2 DEF Gentle, Answers
    <3> QED BY <2>1, <3>1, <3>2, <3>3, CommandAdded
  <2>3. CASE commands[i] = "TX_PARAM_SETUP_REQ" /\ TxParamSupported
    <3>1. one(x, i) = AddMacCommand(x, "TX_PARAM_SETUP_ANS", <<fcnt, i>>)
      BY <2>3 DEF ProcessOne, Answers
    <3>2. "TX_PARAM_SETUP_ANS" \in DOMAIN Sizes
      BY DEF Sizes
    <3> QED BY <2>1, <3>1, <3>2, CommandAdded
  <2>4. CASE commands[i] \notin DOMAIN Answers /\ ~(commands[i] = "TX_PARAM_SETUP_REQ" /\ TxParamSupported)
    <3>1. one(x, i) = x
      BY <2>4 DEF ProcessOne
    <3> QED BY <3>1, AddsTransitive
  <2> QED BY <2>2, <2>3, <2>4
<1>2. ProcessMacCommands(m, commands, fcnt) \in S
  <2>1. m \in S
    BY AddsTransitive
  <2>2. \A x \in S, i \in 1 .. Len(commands) : one(x, i) \in S
    BY <1>1, AddsTransitive
  <2> HIDE DEF S
  <2> QED BY <2>1, <2>2, Processed
<1>3. ASSUME Gentle(commands), Room(m) PROVE ProcessMacCommands(m, commands, fcnt) \in R
  <2>1. m \in R
    BY <1>3, AddsTransitive
  <2>2. \A x \in R, i \in 1 .. Len(commands) : one(x, i) \in R
    BY <1>1, <1>3, AddsTransitive
  <2> HIDE DEF R
  <2> QED BY <2>1, <2>2, Processed
<1> QED BY <1>2, <1>3

-----------------------------------------------------------------------------
(* What a frame leaves.                                                      *)

\* The modulus of the counters.
LEMMA RoundsCounted ==
  /\ FCNT_MOD \in Nat /\ FCNT_MOD >= 2 /\ MAX_FCNT_GAP \in 1 .. FCNT_MOD \div 2
  /\ FCNT_MOD * FCNT_MOD \in Nat /\ FCNT_MOD * FCNT_MOD >= 2 * FCNT_MOD
<1>1. FCNT_MOD \in Nat /\ MAX_FCNT_GAP \in 1 .. FCNT_MOD \div 2 /\ FCNT_MOD >= 2
  BY FcntAssumption
<1>2. FCNT_MOD * FCNT_MOD \in Nat /\ FCNT_MOD * FCNT_MOD >= 2 * FCNT_MOD
  BY <1>1
<1> QED BY <1>1, <1>2

\* The counter of an authentic frame has 32 bits.
LEMMA AuthenticCounter ==
  ASSUME NEW counter \in Counters, NEW fcnt \in Nat, Authentic(counter, fcnt)
  PROVE  fcnt \in Counters
<1> DEFINE W == FCNT_MOD * FCNT_MOD
<1>1. \A x \in Int : x % W \in 0 .. W - 1
  <2>1. W \in Nat \ {0}
    BY RoundsCounted
  <2> HIDE DEF W
  <2> QED BY <2>1
<1>2. Difference(counter, fcnt) \in Int
  <2>1. fcnt - counter \in Int /\ FCNT_MOD \in Nat \ {0}
    BY RoundsCounted DEF Counters
  <2> QED BY <2>1 DEF Difference
<1>3. PICK x \in Int : Rebuilt(counter, fcnt) = x % W
  <2>1. counter \in Int /\ FCNT_MOD \in Int
    BY RoundsCounted DEF Counters
  <2>2. counter + Difference(counter, fcnt) \in Int
        /\ counter + FCNT_MOD + (Difference(counter, fcnt) - FCNT_MOD) \in Int
    BY <1>2, <2>1
  <2> QED BY <2>2 DEF Rebuilt, Unsigned
<1> HIDE DEF W
<1>4. fcnt = Rebuilt(counter, fcnt)
  BY DEF Authentic
<1> QED BY <1>1, <1>3, <1>4 DEF Counters, W

\* x is m after a frame was handled: the uplink goes on as it was, but ends if
\* it waits for no acknowledgement; new sticky answers are announced.
After(x, m) ==
  /\ x \in Macs
  /\ x.class = m.class /\ x.type = m.type /\ x.nodeAck = m.nodeAck
  /\ x.tries = m.tries /\ x.reps = m.reps /\ x.told = m.told
  /\ ~m.nodeAck => x.done
  /\ m.mlmeInd => x.mlmeInd
  /\ Kept(m) => Kept(x)
  /\ StickyIn(x.buffer) \subseteq StickyIn(m.buffer) \/ x.mlmeInd

\* An accepted frame may add the answers to its commands, after the old ones
\* were dropped.
LEMMA FrameAccepted ==
  ASSUME NEW m \in Macs, NEW f \in Frames
  PROVE  LET x == Accept(m, f) IN
         /\ After(x, m)
         /\ x.repeat = m.repeat /\ x.down = m.down /\ x.mdown = m.mdown
         /\ x.from = m.from /\ x.fcnt = m.fcnt /\ x.ok = m.ok
         /\ m.skip => x.skip
         /\ Room(m) /\ Gentle(f.fopts) /\ Gentle(f.payload) => Room(x)
<1> DEFINE buffer == IF m.type = "CONFIRMED" /\ ~f.ack THEN m.buffer ELSE <<>>
           m1 == [m EXCEPT !.buffer = buffer, !.ackReceived = (m.type = "CONFIRMED" /\ f.ack)]
           m2 == CASE f.port = "zero" /\ f.fopts = <<>> /\ f.to = "unicast" ->
                        ProcessMacCommands(m1, f.payload, f.fcnt)
                   [] f.port = "zero" /\ ~(f.fopts = <<>> /\ f.to = "unicast") ->
                        [m1 EXCEPT !.skip = TRUE, !.ackReceived = FALSE]
                   [] f.port = "app" /\ f.to = "unicast" ->
                        [ProcessMacCommands(m1, f.fopts, f.fcnt) EXCEPT !.data = TRUE]
                   [] f.port = "app" /\ f.to # "unicast" -> [m1 EXCEPT !.data = TRUE]
                   [] f.port = "none" -> ProcessMacCommands(m1, f.fopts, f.fcnt)
           m3 == [m2 EXCEPT !.ind = TRUE]
           x == Accept(m, f)
           \* What m2 has of m1.
           Same(y) == /\ y.class = m1.class /\ y.type = m1.type /\ y.nodeAck = m1.nodeAck
                      /\ y.tries = m1.tries /\ y.reps = m1.reps /\ y.told = m1.told
                      /\ y.repeat = m1.repeat /\ y.down = m1.down /\ y.mdown = m1.mdown
                      /\ y.from = m1.from /\ y.fcnt = m1.fcnt /\ y.ok = m1.ok
                      /\ m1.skip => y.skip
                      /\ m1.mlmeInd => y.mlmeInd
                      /\ m1.inNextTx => y.inNextTx
                      /\ StickyIn(m1.buffer) \subseteq StickyIn(y.buffer)
                      /\ StickyIn(y.buffer) # StickyIn(m1.buffer) => y.inNextTx /\ y.mlmeInd
           Good(y) == y \in Macs /\ Same(y)
                      /\ (Room(m1) /\ Gentle(f.fopts) /\ Gentle(f.payload) => Room(y))
<1>1. x = FinishRxDone(m3)
  BY DEF Accept
<1>2. /\ f.to \in To /\ f.fcnt \in Nat /\ f.ack \in BOOLEAN /\ f.fopts \in Seq(STRING)
      /\ f.payload \in Seq(STRING) /\ f.port \in {"zero", "app", "none"}
  BY DEF Frames
<1>3. /\ buffer \in Seq(Held) /\ ToSet(buffer) \subseteq ToSet(m.buffer)
      /\ BytesIn(buffer, Counted) <= BytesIn(m.buffer, Counted)
  <2>1. m.buffer \in Seq(Held) /\ BytesIn(m.buffer, Counted) \in Nat
    BY BytesCounted DEF Macs
  <2>2. BytesIn(<<>>, Counted) = 0 /\ ToSet(<<>>) = {} /\ <<>> \in Seq(Held)
    BY BytesOfNone DEF ToSet
  <2> QED BY <2>1, <2>2
<1>4. m1 \in Macs
  <2>1. (m.type = "CONFIRMED" /\ f.ack) \in BOOLEAN
    OBVIOUS
  <2> HIDE DEF buffer
  <2> QED BY <1>3, <2>1 DEF Macs
<1>5. /\ m1.class = m.class /\ m1.type = m.type /\ m1.nodeAck = m.nodeAck
      /\ m1.tries = m.tries /\ m1.reps = m.reps /\ m1.told = m.told
      /\ m1.repeat = m.repeat /\ m1.down = m.down /\ m1.mdown = m.mdown
      /\ m1.from = m.from /\ m1.fcnt = m.fcnt /\ m1.ok = m.ok
      /\ m1.skip = m.skip /\ m1.mlmeInd = m.mlmeInd /\ m1.inNextTx = m.inNextTx
      /\ m1.buffer = buffer
  <2> HIDE DEF buffer
  <2> QED BY DEF Macs
<1>6. StickyIn(m1.buffer) \subseteq StickyIn(m.buffer)
  BY <1>3, <1>5 DEF StickyIn
<1>7. Room(m) => Room(m1)
  <2>1. /\ BytesIn(m.buffer, Counted) \in Nat /\ Bytes(m.repeat) \in Nat
        /\ BytesIn(buffer, Counted) \in Nat
    <3> HIDE DEF buffer
    <3> QED BY <1>3, BytesCounted DEF Macs
  <2> HIDE DEF buffer, m1
  <2>2. ASSUME Room(m) PROVE Room(m1)
    <3>1. /\ \A c \in ToSet(m1.repeat) : c.cmd \in Counted
          /\ \A c \in ToSet(m1.buffer) : c.cmd # "DL_CHANNEL_ANS"
      BY <1>3, <1>5, <2>2 DEF Room
    <3>2. BytesIn(m1.buffer, Counted) + Bytes(m1.repeat) <= LORA_MAC_COMMAND_MAX_LENGTH
      BY <1>3, <1>5, <2>1, <2>2, LengthAssumption DEF Room
    <3> QED BY <3>1, <3>2 DEF Room
  <2> QED BY <2>2
<1> HIDE DEF buffer, m1
<1>8. ASSUME NEW y \in Macs, Adds(y, m1) PROVE Same(y)
  <2>1. y = [m1 EXCEPT !.buffer = y.buffer, !.inNextTx = y.inNextTx, !.mlmeInd = y.mlmeInd]
    BY <1>8 DEF Adds
  <2>2. /\ y.class = m1.class /\ y.type = m1.type /\ y.nodeAck = m1.nodeAck
        /\ y.tries = m1.tries /\ y.reps = m1.reps /\ y.told = m1.told
        /\ y.repeat = m1.repeat /\ y.down = m1.down /\ y.mdown = m1.mdown
        /\ y.from = m1.from /\ y.fcnt = m1.fcnt /\ y.ok = m1.ok /\ y.skip = m1.skip
    BY <1>4, <2>1 DEF Macs
  <2> QED BY <1>8, <2>2 DEF Adds
<1>9. ASSUME NEW commands \in Seq(STRING), commands = f.fopts \/ commands = f.payload
      PROVE  Good(ProcessMacCommands(m1, commands, f.fcnt))
  <2> DEFINE y == ProcessMacCommands(m1, commands, f.fcnt)
  <2>1. /\ y \in Macs /\ Adds(y, m1) /\ (Gentle(commands) /\ Room(m1) => Room(y))
    BY <1>2, <1>4, CommandsProcessed
  <2> HIDE DEF y, Same
  <2>2. Same(y)
    BY <1>8, <2>1
  <2>3. Good(y)
    BY <1>9, <2>1, <2>2
  <2> QED BY <2>3 DEF y
<1>10. Good(m1)
  <2>1. Same(m1)
    OBVIOUS
  <2> HIDE DEF Same
  <2> QED BY <1>4, <2>1
<1>11. ASSUME NEW y \in Macs, Good(y) PROVE Good([y EXCEPT !.data = TRUE])
  <2> DEFINE z == [y EXCEPT !.data = TRUE]
  <2>1. /\ z \in Macs /\ z.class = y.class /\ z.type = y.type /\ z.nodeAck = y.nodeAck
        /\ z.tries = y.tries /\ z.reps = y.reps /\ z.told = y.told
        /\ z.repeat = y.repeat /\ z.down = y.down /\ z.mdown = y.mdown
        /\ z.from = y.from /\ z.fcnt = y.fcnt /\ z.ok = y.ok /\ z.skip = y.skip
        /\ z.mlmeInd = y.mlmeInd /\ z.inNextTx = y.inNextTx /\ z.buffer = y.buffer
    BY DEF Macs
  <2> HIDE DEF z
  <2>2. Same(z)
    BY <1>11, <2>1
  <2>3. Room(y) => Room(z)
    BY <2>1 DEF Room
  <2>4. Good(z)
    <3> HIDE DEF Same
    <3> QED BY <1>11, <2>1, <2>2, <2>3
  <2> QED BY <2>4 DEF z
<1>12. ASSUME NEW y \in Macs, Good(y) PROVE Good([y EXCEPT !.skip = TRUE, !.ackReceived = FALSE])
  <2> DEFINE z == [y EXCEPT !.skip = TRUE, !.ackReceived = FALSE]
  <2>1. /\ z \in Macs /\ z.class = y.class /\ z.type = y.type /\ z.nodeAck = y.nodeAck
        /\ z.tries = y.tries /\ z.reps = y.reps /\ z.told = y.told
        /\ z.repeat = y.repeat /\ z.down = y.down /\ z.mdown = y.mdown
        /\ z.from = y.from /\ z.fcnt = y.fcnt /\ z.ok = y.ok /\ z.skip = TRUE
        /\ z.mlmeInd = y.mlmeInd /\ z.inNextTx = y.inNextTx /\ z.buffer = y.buffer
    BY DEF Macs
  <2> HIDE DEF z
  <2>2. Same(z)
    BY <1>12, <2>1
  <2>3. Room(y) => Room(z)
    BY <2>1 DEF Room
  <2>4. Good(z)
    <3> HIDE DEF Same
    <3> QED BY <1>12, <2>1, <2>2, <2>3
  <2> QED BY <2>4 DEF z
<1>13. Good(m2)
  <2> HIDE DEF Good
  <2>1. CASE f.port = "zero" /\ f.fopts = <<>> /\ f.to = "unicast"
    BY <1>2, <1>9, <2>1
  <2>2. CASE f.port = "zero" /\ ~(f.fopts = <<>> /\ f.to = "unicast")
    <3>1. m2 = [m1 EXCEPT !.skip = TRUE, !.ackReceived = FALSE]
      BY <2>2
    <3> QED BY <1>4, <1>10, <1>12, <3>1
  <2>3. CASE f.port = "app" /\ f.to = "unicast"
    <3> DEFINE y == ProcessMacCommands(m1, f.fopts, f.fcnt)
    <3>1. m2 = [y EXCEPT !.data = TRUE]
      BY <2>3
    <3>2. Good(y)
      BY <1>2, <1>9
    <3>3. y \in Macs
      BY <1>2, <1>4, CommandsProcessed
    <3> QED BY <1>11, <3>1, <3>2, <3>3
  <2>4. CASE f.port = "app" /\ f.to # "unicast"
    <3>1. m2 = [m1 EXCEPT !.data = TRUE]
      BY <2>4
    <3> QED BY <1>4, <1>10, <1>11, <3>1
  <2>5. CASE f.port = "none"
    <3>1. m2 = ProcessMacCommands(m1, f.fopts, f.fcnt)
      BY <2>5
    <3> QED BY <1>2, <1>9, <3>1
  <2> QED BY <1>2, <2>1, <2>2, <2>3, <2>4, <2>5
<1> HIDE DEF m2
<1>14. /\ x \in Macs /\ x.class = m2.class /\ x.type = m2.type /\ x.nodeAck = m2.nodeAck
       /\ x.tries = m2.tries /\ x.reps = m2.reps /\ x.told = m2.told
       /\ x.repeat = m2.repeat /\ x.down = m2.down /\ x.mdown = m2.mdown
       /\ x.from = m2.from /\ x.fcnt = m2.fcnt /\ x.ok = m2.ok /\ x.skip = m2.skip
       /\ x.mlmeInd = m2.mlmeInd /\ x.inNextTx = m2.inNextTx /\ x.buffer = m2.buffer
       /\ ~m2.nodeAck => x.done
  <2>1. /\ m3 \in Macs /\ m3.class = m2.class /\ m3.type = m2.type /\ m3.nodeAck = m2.nodeAck
        /\ m3.tries = m2.tries /\ m3.reps = m2.reps /\ m3.told = m2.told
        /\ m3.repeat = m2.repeat /\ m3.down = m2.down /\ m3.mdown = m2.mdown
        /\ m3.from = m2.from /\ m3.fcnt = m2.fcnt /\ m3.ok = m2.ok /\ m3.skip = m2.skip
        /\ m3.mlmeInd = m2.mlmeInd /\ m3.inNextTx = m2.inNextTx /\ m3.buffer = m2.buffer
    BY <1>13 DEF Macs
  <2> HIDE DEF m3, x
  <2>2. CASE m3.nodeAck /\ ~m3.ackReceived
    BY <1>1, <2>1, <2>2 DEF FinishRxDone
  <2>3. CASE ~(m3.nodeAck /\ ~m3.ackReceived)
    <3>1. x = [m3 EXCEPT !.done = TRUE]
      BY <1>1, <2>3 DEF FinishRxDone
    <3> QED BY <2>1, <3>1 DEF Macs
  <2> QED BY <2>2, <2>3
<1> HIDE DEF x
<1>15. Kept(m) => Kept(x)
  BY <1>5, <1>6, <1>13, <1>14 DEF Kept
<1>16. StickyIn(x.buffer) \subseteq StickyIn(m.buffer) \/ x.mlmeInd
  BY <1>6, <1>13, <1>14
<1>17. After(x, m)
  BY <1>5, <1>13, <1>14, <1>15, <1>16 DEF After
<1>18. Room(m) /\ Gentle(f.fopts) /\ Gentle(f.payload) => Room(x)
  BY <1>7, <1>13, <1>14 DEF Room
<1>19. /\ x.repeat = m.repeat /\ x.down = m.down /\ x.mdown = m.mdown
       /\ x.from = m.from /\ x.fcnt = m.fcnt /\ x.ok = m.ok
       /\ m.skip => x.skip
  BY <1>5, <1>13, <1>14
<1> QED BY <1>17, <1>18, <1>19 DEF x

\* A frame that is not this device's, or not new, is reported as an error.
LEMMA FrameAborted ==
  ASSUME NEW m \in Macs, NEW n \in Macs,
         n.class = m.class, n.type = m.type, n.nodeAck = m.nodeAck, n.tries = m.tries,
         n.reps = m.reps, n.told = m.told, m.mlmeInd => n.mlmeInd, Kept(m) => Kept(n),
         n.buffer = m.buffer
  PROVE  LET x == PrepareRxDoneAbort(n) IN
         /\ After(x, m) /\ x.ok = FALSE
         /\ x.buffer = n.buffer /\ x.repeat = n.repeat /\ x.down = n.down /\ x.mdown = n.mdown
         /\ x.from = n.from /\ x.fcnt = n.fcnt /\ x.inNextTx = n.inNextTx
<1> DEFINE x == PrepareRxDoneAbort(n)
<1> DEFINE retry == n.retry \/ n.nodeAck
<1>1. x = [n EXCEPT !.ind = TRUE, !.done = TRUE, !.ok = FALSE, !.retry = retry]
  BY DEF PrepareRxDoneAbort
<1>2. retry \in BOOLEAN
  OBVIOUS
<1> HIDE DEF x, retry
<1>3. x \in Macs
  BY <1>1, <1>2 DEF Macs
<1>4. /\ x.class = n.class /\ x.type = n.type /\ x.nodeAck = n.nodeAck
      /\ x.tries = n.tries /\ x.reps = n.reps /\ x.told = n.told
      /\ x.repeat = n.repeat /\ x.down = n.down /\ x.mdown = n.mdown
      /\ x.from = n.from /\ x.fcnt = n.fcnt /\ x.ok = FALSE /\ x.done = TRUE
      /\ x.mlmeInd = n.mlmeInd /\ x.inNextTx = n.inNextTx /\ x.buffer = n.buffer
  BY <1>1, <1>2 DEF Macs
<1>5. Kept(m) => Kept(x)
  BY <1>4 DEF Kept
<1>6. After(x, m)
  BY <1>3, <1>4, <1>5 DEF After
<1> QED BY <1>4, <1>6 DEF x

\* What OnRadioRxDone makes of a frame: an authentic one ends the repetition
\* of commands and sets the counter, any other changes neither; an indication
\* with data is left only by an authentic frame that is not a repeated one.
LEMMA FrameHandled ==
  ASSUME NEW m \in Macs, NEW f \in Frames
  PROVE  LET x    == RxDone(m, f)
             real == Authentic(Counter(m, f), f.fcnt)
         IN  /\ After(x, m)
             /\ IF real THEN x.repeat = <<>> ELSE x.repeat = m.repeat
             /\ x.down = IF real /\ f.to = "unicast" THEN f.fcnt ELSE m.down
             /\ x.mdown = IF real /\ f.to # "unicast" THEN f.fcnt ELSE m.mdown
             /\ x.from = f.to /\ x.fcnt = f.fcnt
             /\ x.ok /\ ~x.skip => real /\ ~Repeated(Counter(m, f), f.fcnt)
             /\ Room(m) /\ Gentle(f.fopts) /\ Gentle(f.payload) => Room(x)
<1> DEFINE x == RxDone(m, f)
           real == Authentic(Counter(m, f), f.fcnt)
           again == Repeated(Counter(m, f), f.fcnt)
           n == Fresh(m, f)
           Same(y) == /\ y.class = m.class /\ y.type = m.type /\ y.nodeAck = m.nodeAck
                      /\ y.tries = m.tries /\ y.reps = m.reps /\ y.told = m.told
                      /\ y.mlmeInd = m.mlmeInd /\ y.inNextTx = m.inNextTx /\ y.buffer = m.buffer
                      /\ y.from = f.to /\ y.fcnt = f.fcnt
<1>1. /\ f.to \in To /\ f.fcnt \in Nat /\ f.type \in {"CONFIRMED", "UNCONFIRMED"}
  BY DEF Frames
<1>2. Counter(m, f) \in Counters
  BY DEF Counter, Macs
<1>3. real => f.fcnt \in Counters
  BY <1>1, <1>2, AuthenticCounter
<1>4. /\ n \in Macs /\ Same(n) /\ n.repeat = m.repeat /\ n.down = m.down /\ n.mdown = m.mdown
      /\ n.skip = m.skip
  <2>1. n = [m EXCEPT !.ackReceived = FALSE, !.ok = TRUE, !.data = FALSE, !.from = f.to, !.fcnt = f.fcnt]
    BY DEF Fresh, Reset, Macs
  <2> HIDE DEF n
  <2> QED BY <1>1, <2>1 DEF Macs
<1>5. ASSUME NEW y \in Macs, Same(y), y.repeat = m.repeat \/ y.repeat = <<>>
      PROVE  /\ Kept(m) => Kept(y)
             /\ Room(m) => Room(y)
  <2>1. ToSet(y.repeat) \subseteq ToSet(m.repeat)
    BY <1>5 DEF ToSet
  <2>2. Kept(m) => Kept(y)
    BY <1>5, <2>1 DEF Kept, StickyIn
  <2>3. Bytes(m.repeat) \in Nat /\ BytesIn(m.buffer, Counted) \in Nat /\ Bytes(<<>>) = 0
    BY BytesCounted, BytesOfNone DEF Macs
  <2>4. Room(m) => Room(y)
    BY <1>5, <2>1, <2>3, LengthAssumption DEF Room
  <2> QED BY <2>2, <2>4
<1>6. ASSUME NEW y \in Macs, Same(y), y.repeat = m.repeat \/ y.repeat = <<>>
      PROVE  LET z == PrepareRxDoneAbort(y) IN
             /\ After(z, m) /\ z.ok = FALSE /\ (Room(m) => Room(z))
             /\ z.repeat = y.repeat /\ z.down = y.down /\ z.mdown = y.mdown
             /\ z.from = y.from /\ z.fcnt = y.fcnt
  <2> DEFINE z == PrepareRxDoneAbort(y)
  <2>1. /\ After(z, m) /\ z.ok = FALSE
        /\ z.buffer = y.buffer /\ z.repeat = y.repeat /\ z.down = y.down /\ z.mdown = y.mdown
        /\ z.from = y.from /\ z.fcnt = y.fcnt /\ z.inNextTx = y.inNextTx
    BY <1>5, <1>6, FrameAborted
  <2> HIDE DEF z
  <2>2. Room(m) => Room(z)
    BY <1>5, <1>6, <2>1 DEF Room
  <2> QED BY <2>1, <2>2 DEF z
<1>7. ASSUME NEW y \in Macs, Same(y), y.repeat = <<>>
      PROVE  LET z == Accept(y, f) IN
             /\ After(z, m) /\ (y.skip => z.skip)
             /\ (Room(m) /\ Gentle(f.fopts) /\ Gentle(f.payload) => Room(z))
             /\ z.repeat = y.repeat /\ z.down = y.down /\ z.mdown = y.mdown
             /\ z.from = y.from /\ z.fcnt = y.fcnt
  <2> DEFINE z == Accept(y, f)
  <2>1. /\ After(z, y)
        /\ z.repeat = y.repeat /\ z.down = y.down /\ z.mdown = y.mdown
        /\ z.from = y.from /\ z.fcnt = y.fcnt
        /\ y.skip => z.skip
        /\ Room(y) /\ Gentle(f.fopts) /\ Gentle(f.payload) => Room(z)
    BY FrameAccepted
  <2> HIDE DEF z
  <2>2. (Kept(m) => Kept(y)) /\ (Room(m) => Room(y))
    BY <1>5, <1>7
  <2>3. After(z, m)
    BY <1>7, <2>1, <2>2 DEF After
  <2> QED BY <2>1, <2>2, <2>3 DEF z
<1> DEFINE Result(z) ==
             /\ After(z, m)
             /\ IF real THEN z.repeat = <<>> ELSE z.repeat = m.repeat
             /\ z.down = IF real /\ f.to = "unicast" THEN f.fcnt ELSE m.down
             /\ z.mdown = IF real /\ f.to # "unicast" THEN f.fcnt ELSE m.mdown
             /\ z.from = f.to /\ z.fcnt = f.fcnt
             /\ z.ok /\ ~z.skip => real /\ ~again
             /\ Room(m) /\ Gentle(f.fopts) /\ Gentle(f.payload) => Room(z)
<1> SUFFICES Result(x)
  OBVIOUS
<1>8. CASE ~real
  <2>1. x = PrepareRxDoneAbort(n)
    BY <1>8 DEF RxDone, RxUnicast, RxMulticast, Counter
  <2> HIDE DEF x, real, n
  <2> QED BY <1>4, <1>6, <1>8, <2>1
<1>9. CASE real /\ f.to # "unicast"
  <2> DEFINE m1 == [n EXCEPT !.repeat = <<>>]
             m2 == [m1 EXCEPT !.mdown = f.fcnt]
  <2>1. x = IF again THEN PrepareRxDoneAbort(m1) ELSE Accept(m2, f)
    BY <1>9 DEF RxDone, RxMulticast, Counter
  <2>2. /\ m1 \in Macs /\ Same(m1) /\ m1.repeat = <<>> /\ m1.down = m.down /\ m1.mdown = m.mdown
    <3>1. <<>> \in Seq(Held)
      OBVIOUS
    <3> HIDE DEF n
    <3> QED BY <1>4, <3>1 DEF Macs
  <2>3. /\ m2 \in Macs /\ Same(m2) /\ m2.repeat = <<>> /\ m2.down = m.down /\ m2.mdown = f.fcnt
    <3> HIDE DEF m1
    <3> QED BY <1>3, <1>9, <2>2 DEF Macs
  <2>4. again => m.mdown = f.fcnt
    BY <1>9 DEF Repeated, Counter
  <2> HIDE DEF x, real, again, m1, m2
  <2>5. CASE again
    <3>1. x = PrepareRxDoneAbort(m1)
      BY <2>1, <2>5
    <3> QED BY <1>6, <1>9, <2>2, <2>4, <2>5, <3>1
  <2>6. CASE ~again
    <3>1. x = Accept(m2, f)
      BY <2>1, <2>6
    <3> QED BY <1>7, <1>9, <2>3, <2>6, <3>1
  <2> QED BY <2>5, <2>6
<1>10. CASE real /\ f.to = "unicast"
  <2> DEFINE m1 == [n EXCEPT !.repeat = <<>>, !.srvAck = f.type = "CONFIRMED"]
             m2 == [m1 EXCEPT !.skip = m1.skip \/ again, !.down = f.fcnt]
             m3 == [m1 EXCEPT !.down = f.fcnt]
  <2>1. x = IF f.type = "CONFIRMED" THEN Accept(m2, f)
            ELSE IF again THEN PrepareRxDoneAbort(m1) ELSE Accept(m3, f)
    <3>1. Counter(m, f) = m.down
      BY <1>10 DEF Counter
    <3>2. x = RxUnicast(m, f)
      BY <1>10 DEF RxDone
    <3>3. Authentic(m.down, f.fcnt)
      BY <1>10, <3>1
    <3>4. CASE f.type = "CONFIRMED"
      BY <3>1, <3>2, <3>3, <3>4 DEF RxUnicast
    <3>5. CASE f.type # "CONFIRMED"
      BY <3>1, <3>2, <3>3, <3>5 DEF RxUnicast
    <3> QED BY <3>4, <3>5
  <2>2. /\ m1 \in Macs /\ Same(m1) /\ m1.repeat = <<>> /\ m1.down = m.down /\ m1.mdown = m.mdown
    <3> DEFINE confirmed == f.type = "CONFIRMED"
    <3>1. confirmed \in BOOLEAN /\ <<>> \in Seq(Held)
      OBVIOUS
    <3> HIDE DEF n, confirmed
    <3> QED BY <1>4, <3>1, ZenonT(30) DEF Macs
  <2>3. /\ m2 \in Macs /\ Same(m2) /\ m2.repeat = <<>> /\ m2.down = f.fcnt /\ m2.mdown = m.mdown
        /\ again => m2.skip
    <3>1. (m1.skip \/ again) \in BOOLEAN
      OBVIOUS
    <3> HIDE DEF m1
    <3> QED BY <1>3, <1>10, <2>2, <3>1 DEF Macs
  <2>4. /\ m3 \in Macs /\ Same(m3) /\ m3.repeat = <<>> /\ m3.down = f.fcnt /\ m3.mdown = m.mdown
    <3> HIDE DEF m1
    <3> QED BY <1>3, <1>10, <2>2 DEF Macs
  <2>5. again => m.down = f.fcnt
    BY <1>10 DEF Repeated, Counter
  <2> HIDE DEF x, real, again, m1, m2, m3
  <2>6. CASE f.type = "CONFIRMED"
    <3>1. x = Accept(m2, f)
      BY <2>1, <2>6
    <3> QED BY <1>7, <1>10, <2>3, <3>1
  <2>7. CASE f.type # "CONFIRMED" /\ again
    <3>1. x = PrepareRxDoneAbort(m1)
      BY <2>1, <2>7
    <3> QED BY <1>6, <1>10, <2>2, <2>5, <2>7, <3>1
  <2>8. CASE f.type # "CONFIRMED" /\ ~again
    <3>1. x = Accept(m3, f)
      BY <2>1, <2>8
    <3> QED BY <1>7, <1>10, <2>4, <2>8, <3>1
  <2> QED BY <2>6, <2>7, <2>8
<1> QED BY <1>8, <1>9, <1>10

-----------------------------------------------------------------------------
(* What goes into an uplink.                                                 *)

Uplinks == [ack : BOOLEAN, in : {"none", "fopts", "zero"}, commands : Seq(Held)]

\* What is kept, and what is kept to be repeated.
Pending(m) == StickyIn(m.buffer) \cup StickyIn(m.repeat)

\* PrepareFrame sends all sticky answers, of both buffers, and keeps them to be
\* repeated; what it leaves in the buffers still fits into one.
LEMMA FramePrepared ==
  ASSUME NEW m \in Macs, NEW payload \in BOOLEAN
  PROVE  LET p == PrepareFrame(m, payload)
             x == p.mac
         IN  /\ x = [m EXCEPT !.buffer = x.buffer, !.repeat = x.repeat, !.inNextTx = x.inNextTx,
                              !.srvAck = FALSE]
             /\ x \in Macs /\ p.frame \in Uplinks
             /\ StickyIn(x.repeat) = Pending(m)
             /\ Kept(m) => /\ Kept(x) /\ StickyIn(p.frame.commands) = Pending(m)
                           /\ StickyIn(x.buffer) \subseteq Pending(m)
             /\ Kept(m) /\ Room(m) => Room(x)
<1> DEFINE all == m.buffer \o m.repeat
           again == ParseMacCommandsToRepeat(all)
           in == CASE ~m.inNextTx \/ all = <<>> -> "none"
                   [] m.inNextTx /\ all # <<>> ->
                        IF payload /\ Bytes(all) <= LORA_MAC_COMMAND_MAX_FOPTS_LENGTH
                        THEN "fopts" ELSE "zero"
           buffer == IF in = "zero" THEN <<>> ELSE all
           more == again # <<>>
           frame == [ack |-> m.srvAck, in |-> in, commands |-> IF in = "none" THEN <<>> ELSE all]
           p == PrepareFrame(m, payload)
           x == p.mac
<1>1. /\ x = [m EXCEPT !.buffer = buffer, !.repeat = again, !.inNextTx = more, !.srvAck = FALSE]
      /\ p.frame = frame
  BY DEF PrepareFrame
<1>2. m.buffer \in Seq(Held) /\ m.repeat \in Seq(Held) /\ m.inNextTx \in BOOLEAN /\ m.srvAck \in BOOLEAN
  BY DEF Macs
<1>3. /\ all \in Seq(Held) /\ ToSet(all) = ToSet(m.buffer) \cup ToSet(m.repeat)
      /\ BytesIn(all, Counted) = BytesIn(m.buffer, Counted) + BytesIn(m.repeat, Counted)
      /\ Bytes(all) \in Nat /\ BytesIn(all, Counted) \in Nat /\ BytesIn(all, Counted) <= Bytes(all)
      /\ BytesIn(m.buffer, Counted) \in Nat /\ Bytes(m.repeat) \in Nat
      /\ BytesIn(m.repeat, Counted) \in Nat /\ BytesIn(m.repeat, Counted) <= Bytes(m.repeat)
  <2>1. all \in Seq(Held) /\ ToSet(all) = ToSet(m.buffer) \cup ToSet(m.repeat)
    BY <1>2, SetsOfCommands
  <2>2. BytesIn(all, Counted) = BytesIn(m.buffer, Counted) + BytesIn(m.repeat, Counted)
    BY <1>2, BytesJoined
  <2> HIDE DEF all
  <2>3. Bytes(all) \in Nat /\ BytesIn(all, Counted) \in Nat /\ BytesIn(all, Counted) <= Bytes(all)
    BY <2>1, BytesCounted
  <2>4. BytesIn(m.buffer, Counted) \in Nat
    BY <1>2, BytesCounted
  <2>5. /\ BytesIn(m.repeat, Counted) \in Nat /\ Bytes(m.repeat) \in Nat
        /\ BytesIn(m.repeat, Counted) <= Bytes(m.repeat)
    BY <1>2, BytesCounted
  <2> QED BY <2>1, <2>2, <2>3, <2>4, <2>5
<1>4. StickyIn(all) = Pending(m)
  BY <1>3 DEF StickyIn, Pending
<1> HIDE DEF all
<1>5. /\ again \in Seq(Held) /\ ToSet(again) = StickyIn(all) /\ StickyIn(again) = StickyIn(all)
      /\ (again = <<>> <=> StickyIn(all) = {}) /\ Bytes(again) <= Bytes(all) /\ Bytes(again) \in Nat
      /\ (\A c \in ToSet(all) : c.cmd # "DL_CHANNEL_ANS") => Bytes(again) <= BytesIn(all, Counted)
  BY <1>3, RepeatKept, BytesCounted
<1>6. /\ in \in {"none", "fopts", "zero"}
      /\ in = "none" <=> ~m.inNextTx \/ all = <<>>
      /\ in = "fopts" => Bytes(all) <= LORA_MAC_COMMAND_MAX_FOPTS_LENGTH
  <2>1. CASE ~m.inNextTx \/ all = <<>>
    <3>1. in = "none"
      BY <2>1
    <3> HIDE DEF in
    <3> QED BY <2>1, <3>1
  <2>2. CASE m.inNextTx /\ all # <<>>
    <3>1. in = IF payload /\ Bytes(all) <= LORA_MAC_COMMAND_MAX_FOPTS_LENGTH THEN "fopts" ELSE "zero"
      BY <2>2
    <3> HIDE DEF in
    <3> QED BY <2>2, <3>1
  <2> QED BY <2>1, <2>2
<1>7. /\ <<>> \in Seq(Held) /\ ToSet(<<>>) = {} /\ StickyIn(<<>>) = {} /\ Bytes(<<>>) = 0
      /\ BytesIn(<<>>, Counted) = 0 /\ more \in BOOLEAN
  BY BytesOfNone DEF ToSet, StickyIn
<1>8. buffer \in Seq(Held) /\ buffer = IF in = "zero" THEN <<>> ELSE all
  BY <1>3
<1>9. frame \in Uplinks /\ frame.commands = IF in = "none" THEN <<>> ELSE all
  <2> HIDE DEF in
  <2> QED BY <1>2, <1>3, <1>6, <1>7 DEF Uplinks
<1>10. more <=> again # <<>>
  OBVIOUS
<1> HIDE DEF again, in, buffer, more, frame, p
<1>11. /\ x \in Macs /\ x.buffer = buffer /\ x.repeat = again /\ x.inNextTx = more
       /\ x = [m EXCEPT !.buffer = x.buffer, !.repeat = x.repeat, !.inNextTx = x.inNextTx,
                        !.srvAck = FALSE]
  <2> HIDE DEF x
  <2>1. x \in Macs
    <3>1. buffer \in Seq(Held) /\ again \in Seq(Held) /\ more \in BOOLEAN
      BY <1>5, <1>7, <1>8
    <3>2. x = [m EXCEPT !.buffer = buffer, !.repeat = again, !.inNextTx = more, !.srvAck = FALSE]
      BY <1>1
    <3> QED BY <3>1, <3>2, ZenonT(40) DEF Macs
  <2>2. x.buffer = buffer /\ x.repeat = again /\ x.inNextTx = more
    BY <1>1, <1>5, <1>7, <1>8 DEF Macs
  <2> QED BY <1>1, <2>1, <2>2
<1>12. ASSUME Kept(m)
       PROVE  /\ Kept(x) /\ StickyIn(p.frame.commands) = Pending(m)
              /\ StickyIn(x.buffer) \subseteq Pending(m)
  <2>1. in = "none" => Pending(m) = {}
    BY <1>4, <1>6, <1>7, <1>12 DEF Kept, Pending
  <2>2. StickyIn(p.frame.commands) = Pending(m)
    BY <1>1, <1>4, <1>7, <1>9, <2>1
  <2>3. StickyIn(x.buffer) \subseteq Pending(m)
    BY <1>4, <1>7, <1>8, <1>11
  <2>4. \A c \in ToSet(x.repeat) : c.cmd \in Sticky
    BY <1>5, <1>11 DEF StickyIn
  <2>5. ~x.inNextTx => StickyIn(x.buffer) = {} /\ StickyIn(x.repeat) = {}
    BY <1>4, <1>5, <1>10, <1>11, <2>3
  <2> QED BY <2>2, <2>3, <2>4, <2>5 DEF Kept
<1>13. ASSUME Kept(m), Room(m) PROVE Room(x)
  <2>1. \A c \in ToSet(all) : c \in Held /\ c.cmd \in DOMAIN Sizes /\ c.cmd # "DL_CHANNEL_ANS"
    <3>0. ToSet(all) \subseteq Held
      BY <1>3, SetsOfCommands
    <3>1. \A c \in ToSet(all) : c \in Held /\ c.cmd \in DOMAIN Sizes
      BY <3>0 DEF Held
    <3>2. \A c \in ToSet(m.repeat) : c.cmd # "DL_CHANNEL_ANS"
      BY <1>13 DEF Room, Counted, Careless
    <3> QED BY <1>3, <1>13, <3>1, <3>2 DEF Room
  <2>2. \A c \in ToSet(again) : c.cmd \in Counted
    <3>1. \A c \in ToSet(again) : c \in ToSet(all) /\ c.cmd \in Sticky
      BY <1>5 DEF StickyIn
    <3> QED BY <2>1, <3>1 DEF Counted, Sticky, Careless
  <2>3. \A c \in ToSet(buffer) : c.cmd # "DL_CHANNEL_ANS"
    BY <1>7, <1>8, <2>1
  <2>4. BytesIn(buffer, Counted) + Bytes(again) <= LORA_MAC_COMMAND_MAX_LENGTH
    <3>1. BytesIn(all, Counted) <= LORA_MAC_COMMAND_MAX_LENGTH
      BY <1>3, <1>13, LengthAssumption DEF Room
    <3>2. Bytes(again) <= BytesIn(all, Counted)
      BY <1>5, <2>1
    <3>3. CASE in = "zero"
      BY <1>3, <1>5, <1>7, <1>8, <3>1, <3>2, <3>3, LengthAssumption
    <3>4. CASE in = "fopts"
      BY <1>3, <1>5, <1>6, <1>8, <3>2, <3>4, LengthAssumption
    <3>5. CASE in = "none"
      <4>1. again = <<>>
        BY <1>4, <1>5, <1>6, <1>7, <1>13, <3>5 DEF Kept, Pending
      <4> QED BY <1>3, <1>7, <1>8, <3>1, <3>5, <4>1
    <3> QED BY <1>6, <3>3, <3>4, <3>5
  <2> QED BY <1>11, <2>2, <2>3, <2>4 DEF Room
<1>14. StickyIn(x.repeat) = Pending(m)
  BY <1>4, <1>5, <1>11
<1>15. p.frame \in Uplinks
  BY <1>1, <1>9
<1> QED BY <1>11, <1>12, <1>13, <1>14, <1>15 DEF p

-----------------------------------------------------------------------------
(* The inductive invariant: types, what is repeated and what is announced.   *)

Types ==
  /\ mac \in Macs
  /\ phase \in {"idle", "window", "closed"}
  /\ sent \in Uplinks
  /\ net \in [To -> Nat] /\ air \subseteq Frames
  /\ given \in [To -> Int]
  /\ count \in [uplinks : Nat, requests : Nat, downlinks : Nat, foreign : Nat]

\* Sticky answers that no uplink has carried.
Unsent == StickyIn(mac.buffer) \ StickyIn(sent.commands)

\* While a procedure goes on, the announcement may wait for its end.
Announced ==
  IF phase = "idle" /\ ~mac.done
  THEN StickyIn(mac.repeat) \cup Unsent # {} => mac.told
  ELSE Unsent # {} => mac.told \/ mac.mlmeInd

IInv ==
  /\ Types
  /\ Kept(mac)
  /\ owed \subseteq StickyIn(mac.repeat)
  /\ phase = "idle" => ~mac.nodeAck
  /\ Announced

-----------------------------------------------------------------------------
(* What the actions do to the variables of LoRaMac.c.                        *)

\* x is m but for the flags of a procedure and of an indication.
Flags(x, m) ==
  /\ x \in Macs
  /\ x.class = m.class /\ x.down = m.down /\ x.mdown = m.mdown
  /\ x.buffer = m.buffer /\ x.repeat = m.repeat /\ x.inNextTx = m.inNextTx

\* The indication was given, whatever else.
LEMMA IndicationGiven ==
  ASSUME NEW m \in Macs
  PROVE  LET x == Indicate(m) IN
         /\ Flags(x, m) /\ ~x.ind
         /\ x.done = m.done /\ x.nodeAck = m.nodeAck /\ x.told = m.told /\ x.mlmeInd = m.mlmeInd
<1> DEFINE x == Indicate(m)
<1>1. x = [m EXCEPT !.ind = FALSE, !.skip = FALSE, !.ok = FALSE, !.data = FALSE,
                    !.from = "unicast", !.fcnt = 0]
  BY DEF Indicate
<1> HIDE DEF x
<1>2. x \in Macs
  BY <1>1 DEF Macs, To
<1>3. /\ x.class = m.class /\ x.down = m.down /\ x.mdown = m.mdown
      /\ x.buffer = m.buffer /\ x.repeat = m.repeat /\ x.inNextTx = m.inNextTx /\ ~x.ind
      /\ x.done = m.done /\ x.nodeAck = m.nodeAck /\ x.told = m.told /\ x.mlmeInd = m.mlmeInd
  BY <1>1 DEF Macs
<1> QED BY <1>2, <1>3 DEF x, Flags

\* The procedure was ended, and what is kept announced.
LEMMA ProcedureEnded ==
  ASSUME NEW m \in Macs
  PROVE  LET x == Indicate(Idle(m)) IN
         /\ Flags(x, m) /\ ~x.ind /\ ~x.done /\ ~x.nodeAck
         /\ x.told = (m.told \/ m.mlmeInd \/ m.repeat # <<>>)
<1> DEFINE told == m.told \/ m.mlmeInd \/ m.repeat # <<>>
           y == Idle(m)
<1>1. y = [m EXCEPT !.done = FALSE, !.retry = FALSE, !.nodeAck = FALSE, !.reps = 0,
                    !.tries = 1, !.told = told, !.mlmeInd = FALSE]
  <2>1. (m.told \/ Told(m)) = told
    BY DEF Told
  <2> HIDE DEF told
  <2> QED BY <2>1 DEF Idle
<1>2. told \in BOOLEAN /\ 1 \in 1 .. NbTrials /\ 0 \in 0 .. NbRep
  BY TrialsAssumption
<1> HIDE DEF y, told
<1>3. y \in Macs
  BY <1>1, <1>2, ZenonT(30) DEF Macs
<1>4. /\ y.class = m.class /\ y.down = m.down /\ y.mdown = m.mdown
      /\ y.buffer = m.buffer /\ y.repeat = m.repeat /\ y.inNextTx = m.inNextTx
      /\ y.done = FALSE /\ y.nodeAck = FALSE /\ y.told = told
  <2>1. /\ y.class = m.class /\ y.down = m.down /\ y.mdown = m.mdown
        /\ y.buffer = m.buffer /\ y.repeat = m.repeat /\ y.inNextTx = m.inNextTx
    BY <1>1, <1>2 DEF Macs
  <2>2. y.done = FALSE /\ y.nodeAck = FALSE
    BY <1>1, <1>2 DEF Macs
  <2>3. y.told = told
    BY <1>1, <1>2 DEF Macs
  <2> QED BY <2>1, <2>2, <2>3
<1>5. LET x == Indicate(y) IN
      /\ Flags(x, y) /\ ~x.ind
      /\ x.done = y.done /\ x.nodeAck = y.nodeAck /\ x.told = y.told /\ x.mlmeInd = y.mlmeInd
  BY <1>3, IndicationGiven
<1> DEFINE x == Indicate(y)
<1> HIDE DEF x
<1>6. /\ Flags(x, m) /\ ~x.ind /\ ~x.done /\ ~x.nodeAck /\ x.told = told
  BY <1>4, <1>5 DEF Flags, x
<1> QED BY <1>6 DEF x, y, told

\* The state check gives a pending indication.  It ends the procedure, after
\* which the commands may be dropped, or lets it go on.
Checked ==
  /\ mac' \in Macs /\ mac'.class = mac.class /\ mac'.down = mac.down /\ mac'.mdown = mac.mdown
  /\ mac'.buffer \in {mac.buffer, <<>>} /\ mac'.repeat = mac.repeat
  /\ mac'.inNextTx = mac.inNextTx /\ ~mac'.ind
  /\ \/ /\ phase' = "idle" /\ ~mac'.done /\ ~mac'.nodeAck
        /\ mac'.told = (mac.told \/ mac.mlmeInd \/ mac.repeat # <<>>)
     \/ /\ phase' \in {"window", "closed"}
        /\ mac'.buffer = mac.buffer /\ mac'.told = mac.told /\ mac'.mlmeInd = mac.mlmeInd
  /\ Indicated
  /\ UNCHANGED <<sent, net, air, owed, count>>

\* OnMacStateCheckTimerEvent does no more.
LEMMA CheckEffect ==
  ASSUME Types,
         \/ EndUnconfirmed \/ (\E refused \in Refusals : EndConfirmed(refused))
         \/ EndIdle \/ PeriodicCheck
  PROVE  Checked
<1> DEFINE dropped == [mac EXCEPT !.buffer = <<>>]
<1>1. mac \in Macs /\ phase \in {"idle", "window", "closed"}
  BY DEF Types
<1>2. /\ dropped \in Macs /\ dropped.class = mac.class /\ dropped.down = mac.down
      /\ dropped.mdown = mac.mdown /\ dropped.buffer = <<>> /\ dropped.repeat = mac.repeat
      /\ dropped.inNextTx = mac.inNextTx /\ dropped.told = mac.told
      /\ dropped.mlmeInd = mac.mlmeInd
  <2>1. <<>> \in Seq(Held)
    OBVIOUS
  <2> QED BY <1>1, <2>1 DEF Macs
<1>3. ASSUME NEW n \in {mac, dropped}, EndsWith(n), Indicated,
             UNCHANGED <<sent, net, air, owed, count>>
      PROVE  Checked
  <2> DEFINE x == Indicate(Idle(n))
  <2>1. n \in Macs
    BY <1>1, <1>2
  <2>2. /\ Flags(x, n) /\ ~x.ind /\ ~x.done /\ ~x.nodeAck
        /\ x.told = (n.told \/ n.mlmeInd \/ n.repeat # <<>>)
    BY <2>1, ProcedureEnded
  <2>3. mac' = x /\ phase' = "idle"
    BY <1>3 DEF EndsWith
  <2> HIDE DEF x, dropped
  <2>4. /\ n.class = mac.class /\ n.down = mac.down
        /\ n.mdown = mac.mdown /\ n.buffer \in {mac.buffer, <<>>} /\ n.repeat = mac.repeat
        /\ n.inNextTx = mac.inNextTx /\ n.told = mac.told /\ n.mlmeInd = mac.mlmeInd
    BY <1>2, <1>3
  <2> QED BY <1>3, <2>2, <2>3, <2>4 DEF Checked, Flags
<1>4. ASSUME NEW n \in Macs, GoesOn(n), Indicated, UNCHANGED <<sent, net, air, owed, count>>,
             Flags(n, mac), n.told = mac.told, n.mlmeInd = mac.mlmeInd
      PROVE  Checked
  <2> DEFINE y == [n EXCEPT !.done = FALSE]
             x == Indicate(y)
  <2>1. y \in Macs /\ Flags(y, n) /\ y.told = n.told /\ y.mlmeInd = n.mlmeInd
    BY <1>4 DEF Macs, Flags
  <2> HIDE DEF y
  <2>2. Flags(x, y) /\ ~x.ind /\ x.told = y.told /\ x.mlmeInd = y.mlmeInd
    BY <2>1, IndicationGiven
  <2>3. mac' = x /\ phase' = "window"
    BY <1>4 DEF GoesOn, y
  <2> HIDE DEF x
  <2> QED BY <1>4, <2>1, <2>2, <2>3 DEF Checked, Flags
<1>5. CASE EndUnconfirmed
  <2>1. CASE EndsWith([mac EXCEPT !.buffer = IF mac.ind THEN @ ELSE <<>>])
    <3>1. [mac EXCEPT !.buffer = IF mac.ind THEN @ ELSE <<>>] \in {mac, dropped}
      BY <1>1 DEF Macs
    <3> HIDE DEF dropped
    <3> QED BY <1>3, <1>5, <2>1, <3>1 DEF EndUnconfirmed
  <2>2. CASE mac.reps < NbRep /\ GoesOn([mac EXCEPT !.reps = @ + 1])
    <3> DEFINE n == [mac EXCEPT !.reps = @ + 1]
    <3>1. mac.reps + 1 \in 0 .. NbRep
      BY <1>1, <2>2, TrialsAssumption DEF Macs
    <3>2. n \in Macs /\ Flags(n, mac) /\ n.told = mac.told /\ n.mlmeInd = mac.mlmeInd
      BY <1>1, <3>1 DEF Macs, Flags
    <3> HIDE DEF n
    <3>3. GoesOn(n) /\ Indicated /\ UNCHANGED <<sent, net, air, owed, count>>
      BY <1>5, <2>2 DEF EndUnconfirmed, n
    <3> QED BY <1>4, <3>2, <3>3
  <2> QED BY <1>5, <2>1, <2>2 DEF EndUnconfirmed
<1>6. CASE \E refused \in Refusals : EndConfirmed(refused)
  <2>1. PICK refused \in Refusals : EndConfirmed(refused)
    BY <1>6
  <2>2. Indicated /\ UNCHANGED <<sent, net, air, owed, count>>
    BY <2>1 DEF EndConfirmed
  <2>3. CASE EndsWith(mac) \/ EndsWith(dropped)
    <3> HIDE DEF dropped
    <3> QED BY <1>3, <2>2, <2>3
  <2>4. CASE mac.tries < NbTrials /\ GoesOn([mac EXCEPT !.tries = @ + 1, !.retry = FALSE])
    <3> DEFINE n == [mac EXCEPT !.tries = @ + 1, !.retry = FALSE]
    <3>1. mac.tries + 1 \in 1 .. NbTrials
      BY <1>1, <2>4, TrialsAssumption DEF Macs
    <3>2. n \in Macs /\ Flags(n, mac) /\ n.told = mac.told /\ n.mlmeInd = mac.mlmeInd
      BY <1>1, <3>1 DEF Macs, Flags
    <3> HIDE DEF n
    <3>3. GoesOn(n)
      BY <2>4 DEF n
    <3> QED BY <1>4, <2>2, <3>2, <3>3
  <2> QED BY <2>1, <2>3, <2>4 DEF EndConfirmed
<1>7. CASE EndIdle
  <2> HIDE DEF dropped
  <2> QED BY <1>3, <1>7 DEF EndIdle
<1>8. CASE PeriodicCheck
  <2> DEFINE x == Indicate(mac)
  <2>1. Flags(x, mac) /\ ~x.ind /\ x.told = mac.told /\ x.mlmeInd = mac.mlmeInd
    BY <1>1, IndicationGiven
  <2> HIDE DEF x
  <2>2. mac' = x /\ phase' = phase /\ phase # "idle" /\ Indicated
        /\ UNCHANGED <<sent, net, air, owed, count>>
    BY <1>8 DEF PeriodicCheck, x
  <2> QED BY <1>1, <2>1, <2>2 DEF Checked, Flags
<1> QED BY <1>5, <1>6, <1>7, <1>8

\* A frame that is foreign or damaged changes no more than the flags.
LEMMA ForeignEffect ==
  ASSUME Types, Foreign
  PROVE  /\ After(mac', mac) /\ Flags(mac', mac) /\ ~mac'.ok
         /\ phase' \in {"idle", "window", "closed"} /\ (phase' = "idle" <=> phase = "idle")
         /\ count' \in [uplinks : Nat, requests : Nat, downlinks : Nat, foreign : Nat]
         /\ count'.downlinks = count.downlinks
         /\ UNCHANGED <<sent, net, air, owed, given>>
<1> DEFINE n == Reset(mac)
<1>1. mac \in Macs /\ phase \in {"idle", "window", "closed"}
      /\ count \in [uplinks : Nat, requests : Nat, downlinks : Nat, foreign : Nat]
  BY DEF Types
<1>2. n = [mac EXCEPT !.ackReceived = FALSE, !.ok = TRUE, !.data = FALSE]
  BY DEF Reset
<1>3. mac' = PrepareRxDoneAbort(n)
  BY DEF Foreign
<1> HIDE DEF n
<1>4. n \in Macs
  BY <1>1, <1>2 DEF Macs
<1>5. /\ n.class = mac.class /\ n.type = mac.type /\ n.nodeAck = mac.nodeAck /\ n.tries = mac.tries
      /\ n.reps = mac.reps /\ n.told = mac.told /\ n.mlmeInd = mac.mlmeInd /\ n.buffer = mac.buffer
      /\ n.repeat = mac.repeat /\ n.inNextTx = mac.inNextTx /\ n.down = mac.down /\ n.mdown = mac.mdown
  BY <1>1, <1>2 DEF Macs
<1>6. Kept(mac) => Kept(n)
  BY <1>5 DEF Kept
<1>7. LET x == PrepareRxDoneAbort(n) IN
      /\ After(x, mac) /\ x.ok = FALSE
      /\ x.buffer = n.buffer /\ x.repeat = n.repeat /\ x.down = n.down /\ x.mdown = n.mdown
      /\ x.from = n.from /\ x.fcnt = n.fcnt /\ x.inNextTx = n.inNextTx
  BY <1>1, <1>4, <1>5, <1>6, FrameAborted
<1>8. After(mac', mac) /\ Flags(mac', mac) /\ mac'.ok = FALSE
  <2> DEFINE x == PrepareRxDoneAbort(n)
  <2> HIDE DEF x
  <2>1. After(x, mac) /\ Flags(x, mac) /\ x.ok = FALSE
    BY <1>5, <1>7 DEF x, After, Flags
  <2> QED BY <1>3, <2>1 DEF x
<1>9. phase' \in {"idle", "window", "closed"} /\ (phase' = "idle" <=> phase = "idle")
  BY <1>1 DEF Foreign, AfterFrame
<1>10. /\ count' \in [uplinks : Nat, requests : Nat, downlinks : Nat, foreign : Nat]
       /\ count'.downlinks = count.downlinks
  BY <1>1 DEF Foreign
<1> QED BY <1>8, <1>9, <1>10 DEF Foreign

\* The windows that pass change no more than the flags.
LEMMA NothingHeardEffect ==
  ASSUME Types, NothingHeard
  PROVE  /\ Flags(mac', mac) /\ mac'.told = mac.told /\ mac'.mlmeInd = mac.mlmeInd
         /\ mac'.ind = mac.ind /\ mac'.skip = mac.skip /\ mac'.ok = mac.ok /\ mac'.data = mac.data
         /\ mac'.from = mac.from /\ mac'.fcnt = mac.fcnt
         /\ phase \in {"window", "closed"}
         /\ UNCHANGED <<phase, sent, net, air, owed, given, count>>
<1>1. mac \in Macs
  BY DEF Types
<1> DEFINE done == phase = "window"
<1>2. done \in BOOLEAN /\ mac.nodeAck \in BOOLEAN
  BY <1>1 DEF Macs
<1>3. mac' = [mac EXCEPT !.retry = mac.nodeAck, !.done = done]
  BY DEF NothingHeard
<1> HIDE DEF done
<1>4. mac' \in Macs
  BY <1>1, <1>2, <1>3 DEF Macs
<1>5. /\ mac'.class = mac.class /\ mac'.down = mac.down /\ mac'.mdown = mac.mdown
      /\ mac'.buffer = mac.buffer /\ mac'.repeat = mac.repeat /\ mac'.inNextTx = mac.inNextTx
      /\ mac'.told = mac.told /\ mac'.mlmeInd = mac.mlmeInd
      /\ mac'.ind = mac.ind /\ mac'.skip = mac.skip /\ mac'.ok = mac.ok /\ mac'.data = mac.data
      /\ mac'.from = mac.from /\ mac'.fcnt = mac.fcnt
  BY <1>1, <1>3 DEF Macs
<1> QED BY <1>4, <1>5 DEF Flags, NothingHeard

\* x is m but for its buffers and for what an uplink sets.
Sends(x, m) ==
  /\ x \in Macs
  /\ x.class = m.class /\ x.down = m.down /\ x.mdown = m.mdown
  /\ x.ind = m.ind /\ x.skip = m.skip /\ x.ok = m.ok /\ x.data = m.data
  /\ x.from = m.from /\ x.fcnt = m.fcnt /\ x.done = m.done
  /\ StickyIn(x.repeat) = Pending(m)
  /\ Kept(m) => Kept(x) /\ StickyIn(x.buffer) \subseteq Pending(m)
  /\ Kept(m) /\ Room(m) => Room(x)

\* An uplink that is sent carries all sticky answers; one that is refused moves
\* them to the commands to repeat, and its error tells the application.
LEMMA McpsRequestEffect ==
  ASSUME Types, NEW type \in {"UNCONFIRMED", "CONFIRMED"}, NEW payload \in BOOLEAN,
         NEW refused \in BOOLEAN, McpsRequest(type, payload, refused)
  PROVE  /\ Sends(mac', mac)
         /\ phase = "idle" /\ ~mac.done
         /\ count' \in [uplinks : Nat, requests : Nat, downlinks : Nat, foreign : Nat]
         /\ count'.downlinks = count.downlinks
         /\ UNCHANGED <<net, air, given>>
         /\ IF refused
            THEN mac'.told /\ ~mac'.nodeAck /\ UNCHANGED <<phase, sent, owed>>
            ELSE /\ phase' = "window" /\ sent' \in Uplinks
                 /\ Kept(mac) => StickyIn(sent'.commands) = Pending(mac)
                 /\ owed' = owed \cup StickyIn(sent'.commands)
<1> DEFINE confirmed == type = "CONFIRMED"
           m == [mac EXCEPT !.type = "UNCONFIRMED", !.ackReceived = FALSE,
                            !.nodeAck = confirmed, !.tries = 1]
           p == PrepareFrame(m, payload)
           x == p.mac
<1>1. mac \in Macs /\ count \in [uplinks : Nat, requests : Nat, downlinks : Nat, foreign : Nat]
  BY DEF Types
<1>2. /\ phase = "idle" /\ ~mac.done /\ UNCHANGED <<net, air, given>>
      /\ count' = [count EXCEPT !.uplinks = @ + 1]
      /\ IF refused
         THEN /\ mac' = [x EXCEPT !.nodeAck = FALSE, !.told = TRUE]
              /\ UNCHANGED <<phase, sent, owed>>
         ELSE /\ mac' = [x EXCEPT !.type = type, !.reps = 1, !.told = FALSE]
              /\ phase' = "window"
              /\ OnAir(p.frame)
  BY DEF McpsRequest
<1>3. confirmed \in BOOLEAN /\ 1 \in 1 .. NbTrials /\ 1 \in 0 .. NbRep
  BY TrialsAssumption
<1> HIDE DEF confirmed
<1>4. m \in Macs
  BY <1>1, <1>3 DEF Macs
<1>5. /\ m.class = mac.class /\ m.down = mac.down /\ m.mdown = mac.mdown
      /\ m.ind = mac.ind /\ m.skip = mac.skip /\ m.ok = mac.ok /\ m.data = mac.data
      /\ m.from = mac.from /\ m.fcnt = mac.fcnt /\ m.done = mac.done
      /\ m.buffer = mac.buffer /\ m.repeat = mac.repeat /\ m.inNextTx = mac.inNextTx
  BY <1>1 DEF Macs
<1> HIDE DEF m
<1>6. Pending(m) = Pending(mac) /\ (Kept(mac) <=> Kept(m)) /\ (Room(mac) <=> Room(m))
  BY <1>5 DEF Pending, Kept, Room
<1>7. /\ x = [m EXCEPT !.buffer = x.buffer, !.repeat = x.repeat, !.inNextTx = x.inNextTx,
                       !.srvAck = FALSE]
      /\ x \in Macs /\ p.frame \in Uplinks
      /\ StickyIn(x.repeat) = Pending(m)
      /\ Kept(m) => /\ Kept(x) /\ StickyIn(p.frame.commands) = Pending(m)
                    /\ StickyIn(x.buffer) \subseteq Pending(m)
      /\ Kept(m) /\ Room(m) => Room(x)
  BY <1>4, FramePrepared
<1> HIDE DEF p, x
<1>8. /\ x.class = m.class /\ x.down = m.down /\ x.mdown = m.mdown
      /\ x.ind = m.ind /\ x.skip = m.skip /\ x.ok = m.ok /\ x.data = m.data
      /\ x.from = m.from /\ x.fcnt = m.fcnt /\ x.done = m.done
  BY <1>4, <1>7 DEF Macs
<1>9. /\ mac' \in Macs
      /\ mac'.class = x.class /\ mac'.down = x.down /\ mac'.mdown = x.mdown
      /\ mac'.ind = x.ind /\ mac'.skip = x.skip /\ mac'.ok = x.ok /\ mac'.data = x.data
      /\ mac'.from = x.from /\ mac'.fcnt = x.fcnt /\ mac'.done = x.done
      /\ mac'.buffer = x.buffer /\ mac'.repeat = x.repeat /\ mac'.inNextTx = x.inNextTx
      /\ refused => mac'.told /\ ~mac'.nodeAck
  <2>1. CASE refused
    <3>1. mac' = [x EXCEPT !.nodeAck = FALSE, !.told = TRUE]
      BY <1>2, <2>1
    <3> QED BY <1>7, <3>1 DEF Macs
  <2>2. CASE ~refused
    <3>1. mac' = [x EXCEPT !.type = type, !.reps = 1, !.told = FALSE]
      BY <1>2, <2>2
    <3> QED BY <1>3, <1>7, <2>2, <3>1 DEF Macs
  <2> QED BY <2>1, <2>2
<1>10. (Kept(x) => Kept(mac')) /\ (Room(x) => Room(mac'))
  BY <1>9 DEF Kept, Room
<1>11. Sends(mac', mac)
  BY <1>5, <1>6, <1>7, <1>8, <1>9, <1>10 DEF Sends
<1>12. /\ count' \in [uplinks : Nat, requests : Nat, downlinks : Nat, foreign : Nat]
       /\ count'.downlinks = count.downlinks
  BY <1>1, <1>2
<1>13. ASSUME ~refused
       PROVE  /\ phase' = "window" /\ sent' \in Uplinks
              /\ Kept(mac) => StickyIn(sent'.commands) = Pending(mac)
              /\ owed' = owed \cup StickyIn(sent'.commands)
  <2>1. phase' = "window" /\ sent' = p.frame /\ owed' = owed \cup StickyIn(p.frame.commands)
    BY <1>2, <1>13 DEF OnAir
  <2> QED BY <1>6, <1>7, <2>1
<1>14. refused => mac'.told /\ ~mac'.nodeAck /\ UNCHANGED <<phase, sent, owed>>
  BY <1>2, <1>9
<1> QED BY <1>2, <1>11, <1>12, <1>13, <1>14

\* A request of the application that is a command is kept for the next uplink.
LEMMA MlmeRequestEffect ==
  ASSUME Types, NEW cmd \in Requests, MlmeRequest(cmd)
  PROVE  /\ mac' \in Macs /\ Adds(mac', mac) /\ StickyIn(mac'.buffer) = StickyIn(mac.buffer)
         /\ Room(mac) => Room(mac')
         /\ count' \in [uplinks : Nat, requests : Nat, downlinks : Nat, foreign : Nat]
         /\ count'.downlinks = count.downlinks
         /\ UNCHANGED <<phase, sent, net, air, owed, given>>
<1>1. mac \in Macs /\ count \in [uplinks : Nat, requests : Nat, downlinks : Nat, foreign : Nat]
  BY DEF Types
<1>2. <<"own", count.requests>> \in (Nat \X Nat) \cup ({"own"} \X Nat)
  BY <1>1
<1>3. cmd \in DOMAIN Sizes /\ cmd \notin Sticky /\ cmd # "DL_CHANNEL_ANS"
  BY RequestAssumption DEF Sizes, Sticky
<1>4. mac' = AddMacCommand(mac, cmd, <<"own", count.requests>>)
  BY DEF MlmeRequest
<1>5. LET x == AddMacCommand(mac, cmd, <<"own", count.requests>>) IN
      /\ x \in Macs /\ Adds(x, mac)
      /\ cmd \notin Sticky => StickyIn(x.buffer) = StickyIn(mac.buffer)
      /\ cmd # "DL_CHANNEL_ANS" /\ Room(mac) => Room(x)
  BY <1>1, <1>2, <1>3, CommandAdded
<1>6. /\ mac' \in Macs /\ Adds(mac', mac) /\ StickyIn(mac'.buffer) = StickyIn(mac.buffer)
      /\ Room(mac) => Room(mac')
  <2> DEFINE x == AddMacCommand(mac, cmd, <<"own", count.requests>>)
  <2> HIDE DEF x
  <2>1. /\ x \in Macs /\ Adds(x, mac) /\ StickyIn(x.buffer) = StickyIn(mac.buffer)
        /\ Room(mac) => Room(x)
    BY <1>3, <1>5 DEF x
  <2>2. mac' = x
    BY <1>4 DEF x
  <2> QED BY <2>1, <2>2
<1>7. /\ count' \in [uplinks : Nat, requests : Nat, downlinks : Nat, foreign : Nat]
      /\ count'.downlinks = count.downlinks /\ UNCHANGED <<phase, sent, net, air, owed, given>>
  BY <1>1 DEF MlmeRequest
<1> QED BY <1>6, <1>7

\* A frame that the device hears.
LEMMA ReceiveEffect ==
  ASSUME Types, NEW f \in air, Receive(f)
  PROVE  LET real == Authentic(Counter(mac, f), f.fcnt) IN
         /\ f \in Frames /\ After(mac', mac)
         /\ IF real THEN mac'.repeat = <<>> /\ owed' = {}
                    ELSE mac'.repeat = mac.repeat /\ owed' = owed
         /\ mac'.down = IF real /\ f.to = "unicast" THEN f.fcnt ELSE mac.down
         /\ mac'.mdown = IF real /\ f.to # "unicast" THEN f.fcnt ELSE mac.mdown
         /\ mac'.from = f.to /\ mac'.fcnt = f.fcnt
         /\ mac'.ok /\ ~mac'.skip => real /\ ~Repeated(Counter(mac, f), f.fcnt)
         /\ Room(mac) /\ Gentle(f.fopts) /\ Gentle(f.payload) => Room(mac')
         /\ phase' \in {"idle", "window", "closed"} /\ (phase' = "idle" <=> phase = "idle")
         /\ UNCHANGED <<sent, net, air, given, count>>
<1>1. mac \in Macs /\ f \in Frames /\ phase \in {"idle", "window", "closed"}
  BY DEF Types
<1>2. /\ mac' = RxDone(mac, f)
      /\ owed' = IF Authentic(Counter(mac, f), f.fcnt) THEN {} ELSE owed
      /\ UNCHANGED <<sent, net, air, given, count>>
  BY DEF Receive
<1>3. phase' \in {"idle", "window", "closed"} /\ (phase' = "idle" <=> phase = "idle")
  BY <1>1 DEF Receive, AfterFrame
<1> DEFINE x == RxDone(mac, f)
           real == Authentic(Counter(mac, f), f.fcnt)
           again == Repeated(Counter(mac, f), f.fcnt)
<1>4. /\ After(x, mac)
      /\ IF real THEN x.repeat = <<>> ELSE x.repeat = mac.repeat
      /\ x.down = IF real /\ f.to = "unicast" THEN f.fcnt ELSE mac.down
      /\ x.mdown = IF real /\ f.to # "unicast" THEN f.fcnt ELSE mac.mdown
      /\ x.from = f.to /\ x.fcnt = f.fcnt
      /\ x.ok /\ ~x.skip => real /\ ~again
      /\ Room(mac) /\ Gentle(f.fopts) /\ Gentle(f.payload) => Room(x)
  BY <1>1, FrameHandled
<1> HIDE DEF x, again
<1>5. mac' = x
  BY <1>2 DEF x
<1>6. owed' = IF real THEN {} ELSE owed
  BY <1>2
<1> HIDE DEF real
<1>7. IF real THEN mac'.repeat = <<>> /\ owed' = {} ELSE mac'.repeat = mac.repeat /\ owed' = owed
  BY <1>4, <1>5, <1>6
<1> QED BY <1>1, <1>2, <1>3, <1>4, <1>5, <1>7 DEF real, again

\* A frame that the network sends.
LEMMA DownlinkEffect ==
  ASSUME Types, mac.class \in Classes, NEW c \in Contents(mac.class), Downlink(c)
  PROVE  /\ c.to \in To /\ count.downlinks < MAX_DOWNLINKS(mac.class)
         /\ \E f \in Frames : /\ air' = air \cup {f} /\ f.to = c.to /\ f.fcnt = net[c.to]
                              /\ f.fopts = c.fopts /\ f.payload = c.payload
         /\ net' \in [To -> Nat] /\ net' = [net EXCEPT ![c.to] = net[c.to] + 1]
         /\ count' \in [uplinks : Nat, requests : Nat, downlinks : Nat, foreign : Nat]
         /\ count'.downlinks = count.downlinks + 1
         /\ UNCHANGED <<mac, phase, sent, owed, given>>
<1>1. /\ net \in [To -> Nat]
      /\ count \in [uplinks : Nat, requests : Nat, downlinks : Nat, foreign : Nat]
  BY DEF Types
<1>2. c \in [to : {"unicast", "multicast"}, type : {"CONFIRMED", "UNCONFIRMED"}, ack : BOOLEAN,
             fopts : Seq(STRING), port : {"zero", "app", "none"}, payload : Seq(STRING)]
  BY NetworkAssumption
<1> DEFINE f == [to |-> c.to, fcnt |-> net[c.to], type |-> c.type, ack |-> c.ack,
                 fopts |-> c.fopts, port |-> c.port, payload |-> c.payload]
<1>3. f \in Frames /\ c.to \in To
  BY <1>1, <1>2 DEF Frames, To
<1>4. air' = air \cup {f} /\ f.to = c.to /\ f.fcnt = net[c.to] /\ f.fopts = c.fopts
      /\ f.payload = c.payload
  BY DEF Downlink
<1> HIDE DEF f
<1>5. net' \in [To -> Nat] /\ net' = [net EXCEPT ![c.to] = net[c.to] + 1]
  BY <1>1, <1>3 DEF Downlink
<1>6. /\ count' \in [uplinks : Nat, requests : Nat, downlinks : Nat, foreign : Nat]
      /\ count'.downlinks = count.downlinks + 1
  BY <1>1 DEF Downlink
<1> QED BY <1>3, <1>4, <1>5, <1>6 DEF Downlink

-----------------------------------------------------------------------------
(* The invariant is one.                                                     *)

\* A session begins with it.
LEMMA InitEstablishes == Init => IInv
<1> SUFFICES ASSUME Init PROVE IInv
  OBVIOUS
<1>0. PICK class \in Classes : \E start \in Starts(class) :
        /\ mac = ResetMacParameters(class, start)
        /\ phase = "idle"
        /\ sent = [ack |-> FALSE, in |-> "none", commands |-> <<>>]
        /\ net = [unicast |-> start, multicast |-> 0]
        /\ air = {}
        /\ owed = {}
        /\ given = [unicast |-> start - 1, multicast |-> -1]
        /\ count = [uplinks |-> 0, requests |-> 0, downlinks |-> 0, foreign |-> 0]
  BY DEF Init
<1>1. PICK start \in Starts(class) :
        /\ mac = ResetMacParameters(class, start)
        /\ phase = "idle"
        /\ sent = [ack |-> FALSE, in |-> "none", commands |-> <<>>]
        /\ net = [unicast |-> start, multicast |-> 0]
        /\ air = {}
        /\ owed = {}
        /\ given = [unicast |-> start - 1, multicast |-> -1]
        /\ count = [uplinks |-> 0, requests |-> 0, downlinks |-> 0, foreign |-> 0]
  BY <1>0
<1>2. start \in Nat
  BY NetworkAssumption
<1>3. Unsigned(start - 1) \in Counters /\ 0 \in Counters
  <2> DEFINE W == FCNT_MOD * FCNT_MOD
  <2>1. W \in Nat \ {0} /\ start - 1 \in Int
    BY <1>2, RoundsCounted
  <2> HIDE DEF W
  <2>2. (start - 1) % W \in 0 .. W - 1 /\ 0 \in 0 .. W - 1
    BY <2>1
  <2> QED BY <2>2 DEF Unsigned, Counters, W
<1>4. mac \in Macs
  <2>1. 1 \in 1 .. NbTrials /\ 0 \in 0 .. NbRep /\ <<>> \in Seq(Held)
    BY TrialsAssumption
  <2> DEFINE down == Unsigned(start - 1)
  <2>2. mac = [class |-> class, down |-> down, mdown |-> 0, srvAck |-> FALSE, inNextTx |-> FALSE,
               buffer |-> <<>>, repeat |-> <<>>, type |-> "UNCONFIRMED", nodeAck |-> FALSE,
               tries |-> 1, reps |-> 0, done |-> FALSE, retry |-> FALSE, ind |-> FALSE, skip |-> FALSE,
               ok |-> FALSE, data |-> FALSE, from |-> "unicast", fcnt |-> 0, ackReceived |-> FALSE,
               mlmeInd |-> FALSE, told |-> FALSE]
    BY <1>1 DEF ResetMacParameters
  <2> HIDE DEF down
  <2> QED BY <1>3, <2>1, <2>2 DEF Macs, To, down
<1>5. mac.buffer = <<>> /\ mac.repeat = <<>> /\ ~mac.nodeAck
  BY <1>1 DEF ResetMacParameters
<1>6. ToSet(<<>>) = {} /\ StickyIn(<<>>) = {}
  BY DEF ToSet, StickyIn
<1>7. Types
  <2>1. sent \in Uplinks
    BY <1>1 DEF Uplinks
  <2>2. net \in [To -> Nat] /\ given \in [To -> Int]
    BY <1>1, <1>2 DEF To
  <2>3. count \in [uplinks : Nat, requests : Nat, downlinks : Nat, foreign : Nat]
    BY <1>1
  <2> QED BY <1>1, <1>4, <2>1, <2>2, <2>3 DEF Types
<1>8. Kept(mac)
  BY <1>5, <1>6 DEF Kept
<1>9. Announced
  BY <1>1, <1>5, <1>6 DEF Announced, Unsent
<1> QED BY <1>1, <1>5, <1>6, <1>7, <1>8, <1>9 DEF IInv

\* Every step keeps it.
LEMMA StepKeeps == IInv /\ [Next]_vars => IInv'
<1> SUFFICES ASSUME IInv, [Next]_vars PROVE IInv'
  OBVIOUS
<1>1. Types /\ Kept(mac) /\ owed \subseteq StickyIn(mac.repeat) /\ Announced
      /\ (phase = "idle" => ~mac.nodeAck)
  BY DEF IInv
<1>2. /\ mac \in Macs /\ mac.class \in Classes /\ phase \in {"idle", "window", "closed"}
      /\ given \in [To -> Int]
      /\ net \in [To -> Nat]
      /\ count \in [uplinks : Nat, requests : Nat, downlinks : Nat, foreign : Nat]
  BY <1>1 DEF Types, Macs
<1>3. ASSUME NEW type \in {"UNCONFIRMED", "CONFIRMED"}, NEW payload \in BOOLEAN,
             NEW refused \in Refusals, McpsRequest(type, payload, refused)
      PROVE  IInv'
  <2>0. refused \in BOOLEAN
    BY RequestAssumption
  <2>1. /\ Sends(mac', mac)
        /\ phase = "idle" /\ ~mac.done
        /\ count' \in [uplinks : Nat, requests : Nat, downlinks : Nat, foreign : Nat]
        /\ UNCHANGED <<net, air, given>>
        /\ IF refused
           THEN mac'.told /\ ~mac'.nodeAck /\ UNCHANGED <<phase, sent, owed>>
           ELSE /\ phase' = "window" /\ sent' \in Uplinks
                /\ StickyIn(sent'.commands) = Pending(mac)
                /\ owed' = owed \cup StickyIn(sent'.commands)
    BY <1>1, <1>3, <2>0, McpsRequestEffect
  <2>2. /\ mac' \in Macs /\ Kept(mac') /\ StickyIn(mac'.buffer) \subseteq Pending(mac)
        /\ StickyIn(mac'.repeat) = Pending(mac) /\ mac'.done = mac.done
    BY <1>1, <2>1 DEF Sends
  <2>3. owed \subseteq Pending(mac)
    BY <1>1 DEF Pending
  <2>4. CASE refused
    <3>1. mac'.told /\ ~mac'.nodeAck /\ UNCHANGED <<phase, sent, owed>>
      BY <2>1, <2>4
    <3>2. Types'
      BY <1>1, <2>1, <2>2, <3>1 DEF Types
    <3>3. Announced'
      BY <3>1 DEF Announced
    <3> QED BY <2>2, <2>3, <3>1, <3>2, <3>3 DEF IInv, Kept, StickyIn
  <2>5. CASE ~refused
    <3>1. /\ phase' = "window" /\ sent' \in Uplinks
          /\ StickyIn(sent'.commands) = Pending(mac)
          /\ owed' = owed \cup StickyIn(sent'.commands)
      BY <2>1, <2>5
    <3>2. Types'
      BY <1>1, <2>1, <2>2, <3>1 DEF Types
    <3>3. Unsent' = {}
      BY <2>2, <3>1 DEF Unsent
    <3>4. Announced'
      BY <3>1, <3>3 DEF Announced
    <3>5. owed' \subseteq StickyIn(mac'.repeat) /\ phase' # "idle" /\ Kept(mac')
      BY <2>2, <2>3, <3>1
    <3> QED BY <3>2, <3>4, <3>5 DEF IInv
  <2> QED BY <2>4, <2>5
<1>4. ASSUME NEW cmd \in Requests, MlmeRequest(cmd) PROVE IInv'
  <2>1. /\ mac' \in Macs /\ Adds(mac', mac) /\ StickyIn(mac'.buffer) = StickyIn(mac.buffer)
        /\ count' \in [uplinks : Nat, requests : Nat, downlinks : Nat, foreign : Nat]
        /\ UNCHANGED <<phase, sent, net, air, owed, given>>
    BY <1>1, <1>4, MlmeRequestEffect
  <2>2. mac' = [mac EXCEPT !.buffer = mac'.buffer, !.inNextTx = mac'.inNextTx, !.mlmeInd = mac'.mlmeInd]
    BY <2>1 DEF Adds
  <2>3. /\ mac'.repeat = mac.repeat /\ mac'.told = mac.told /\ mac'.nodeAck = mac.nodeAck
        /\ mac'.done = mac.done
    BY <1>2, <2>2 DEF Macs
  <2>4. (mac.inNextTx => mac'.inNextTx) /\ (mac.mlmeInd => mac'.mlmeInd)
    BY <2>1 DEF Adds
  <2>5. Types' /\ Kept(mac') /\ Announced'
    <3>1. Types'
      BY <1>1, <2>1 DEF Types
    <3>2. Kept(mac')
      BY <1>1, <2>1, <2>3, <2>4 DEF Kept
    <3>3. Announced'
      BY <1>1, <2>1, <2>3, <2>4 DEF Announced, Unsent
    <3> QED BY <3>1, <3>2, <3>3
  <2> QED BY <1>1, <2>1, <2>3, <2>5 DEF IInv
<1>5. ASSUME NEW f \in air, Receive(f) PROVE IInv'
  <2> DEFINE real == Authentic(Counter(mac, f), f.fcnt)
  <2>1. /\ After(mac', mac)
        /\ IF real THEN mac'.repeat = <<>> /\ owed' = {}
                   ELSE mac'.repeat = mac.repeat /\ owed' = owed
        /\ phase' \in {"idle", "window", "closed"} /\ (phase' = "idle" <=> phase = "idle")
        /\ UNCHANGED <<sent, net, air, given, count>>
    BY <1>1, <1>5, ReceiveEffect
  <2> HIDE DEF real
  <2>2. /\ mac' \in Macs /\ mac'.nodeAck = mac.nodeAck /\ mac'.told = mac.told
        /\ ~mac.nodeAck => mac'.done
        /\ mac.mlmeInd => mac'.mlmeInd
        /\ Kept(mac')
        /\ StickyIn(mac'.buffer) \subseteq StickyIn(mac.buffer) \/ mac'.mlmeInd
    BY <1>1, <2>1 DEF After
  <2>3. Types'
    BY <1>1, <2>1, <2>2 DEF Types
  <2>4. Announced'
    <3>1. phase' = "idle" => mac'.done
      BY <1>1, <2>1, <2>2
    <3>2. Unsent' # {} => mac'.told \/ mac'.mlmeInd
      BY <1>1, <2>1, <2>2 DEF Announced, Unsent
    <3> QED BY <3>1, <3>2 DEF Announced
  <2>5. owed' \subseteq StickyIn(mac'.repeat)
    BY <1>1, <2>1
  <2>6. phase' = "idle" => ~mac'.nodeAck
    BY <1>1, <2>1, <2>2
  <2> QED BY <2>2, <2>3, <2>4, <2>5, <2>6 DEF IInv
<1>6. ASSUME Foreign PROVE IInv'
  <2>1. /\ After(mac', mac) /\ Flags(mac', mac)
        /\ phase' \in {"idle", "window", "closed"} /\ (phase' = "idle" <=> phase = "idle")
        /\ count' \in [uplinks : Nat, requests : Nat, downlinks : Nat, foreign : Nat]
        /\ UNCHANGED <<sent, net, air, owed, given>>
    BY <1>1, <1>6, ForeignEffect
  <2>2. /\ mac' \in Macs /\ mac'.nodeAck = mac.nodeAck /\ mac'.told = mac.told
        /\ ~mac.nodeAck => mac'.done
        /\ mac.mlmeInd => mac'.mlmeInd
        /\ Kept(mac') /\ mac'.buffer = mac.buffer /\ mac'.repeat = mac.repeat
    BY <1>1, <2>1 DEF After, Flags
  <2>3. Types'
    BY <1>1, <2>1, <2>2 DEF Types
  <2>4. Announced'
    <3>1. phase' = "idle" => mac'.done
      BY <1>1, <2>1, <2>2
    <3>2. Unsent' # {} => mac'.told \/ mac'.mlmeInd
      BY <1>1, <2>1, <2>2 DEF Announced, Unsent
    <3> QED BY <3>1, <3>2 DEF Announced
  <2> QED BY <1>1, <2>1, <2>2, <2>3, <2>4 DEF IInv
<1>7. ASSUME NothingHeard PROVE IInv'
  <2>1. /\ Flags(mac', mac) /\ mac'.told = mac.told /\ mac'.mlmeInd = mac.mlmeInd
        /\ phase \in {"window", "closed"}
        /\ UNCHANGED <<phase, sent, net, air, owed, given, count>>
    BY <1>1, <1>7, NothingHeardEffect
  <2>2. mac' \in Macs /\ mac'.buffer = mac.buffer /\ mac'.repeat = mac.repeat
        /\ mac'.inNextTx = mac.inNextTx
    BY <2>1 DEF Flags
  <2>3. Types'
    BY <1>1, <2>1, <2>2 DEF Types
  <2>4. Announced' /\ Kept(mac')
    BY <1>1, <2>1, <2>2 DEF Announced, Unsent, Kept
  <2> QED BY <1>1, <2>1, <2>2, <2>3, <2>4 DEF IInv
<1>8. ASSUME \/ EndUnconfirmed \/ (\E refused \in Refusals : EndConfirmed(refused))
             \/ EndIdle \/ PeriodicCheck
      PROVE  IInv'
  <2>1. Checked
    BY <1>1, <1>8, CheckEffect
  <2>2. /\ mac' \in Macs /\ mac'.buffer \in {mac.buffer, <<>>} /\ mac'.repeat = mac.repeat
        /\ mac'.inNextTx = mac.inNextTx
        /\ \/ /\ phase' = "idle" /\ ~mac'.done /\ ~mac'.nodeAck
              /\ mac'.told = (mac.told \/ mac.mlmeInd \/ mac.repeat # <<>>)
           \/ /\ phase' \in {"window", "closed"}
              /\ mac'.buffer = mac.buffer /\ mac'.told = mac.told /\ mac'.mlmeInd = mac.mlmeInd
        /\ Indicated /\ UNCHANGED <<sent, net, air, owed, count>>
    BY <2>1 DEF Checked
  <2>3. given' \in [To -> Int]
    <3>1. mac.from \in To /\ mac.fcnt \in Int
      BY <1>2 DEF Macs
    <3> QED BY <1>2, <2>2, <3>1 DEF Indicated
  <2>4. Types'
    BY <1>1, <2>2, <2>3 DEF Types
  <2>5. StickyIn(<<>>) = {}
    BY DEF StickyIn, ToSet
  <2>6. Kept(mac')
    BY <1>1, <2>2, <2>5 DEF Kept
  <2>7. Announced'
    <3>1. Unsent' \subseteq Unsent
      BY <2>2, <2>5 DEF Unsent
    <3>2. Unsent # {} => mac.told \/ mac.mlmeInd
      BY <1>1 DEF Announced
    <3>3. StickyIn(mac.repeat) # {} => mac.repeat # <<>>
      BY <2>5
    <3> QED BY <2>2, <3>1, <3>2, <3>3 DEF Announced
  <2> QED BY <1>1, <2>2, <2>4, <2>6, <2>7 DEF IInv
<1>9. ASSUME NEW c \in Contents(mac.class), Downlink(c) PROVE IInv'
  <2>1. /\ \E f \in Frames : air' = air \cup {f}
        /\ net' \in [To -> Nat]
        /\ count' \in [uplinks : Nat, requests : Nat, downlinks : Nat, foreign : Nat]
        /\ UNCHANGED <<mac, phase, sent, owed, given>>
    BY <1>1, <1>2, <1>9, DownlinkEffect
  <2>2. Types'
    BY <1>1, <2>1 DEF Types
  <2>3. Announced' /\ Kept(mac')
    BY <1>1, <2>1 DEF Announced, Unsent, Kept
  <2> QED BY <1>1, <2>1, <2>2, <2>3 DEF IInv
<1>10. CASE UNCHANGED vars
  BY <1>1, <1>10 DEF vars, IInv, Types, Kept, Announced, Unsent
<1> QED BY <1>3, <1>4, <1>5, <1>6, <1>7, <1>8, <1>9, <1>10 DEF Next

\* It holds in every session.
LEMMA Invariance == Spec => []IInv
  BY InitEstablishes, StepKeeps, PTL DEF Spec

\* The counters keep their 32 bits, the buffers hold answers and requests, the
\* commands to repeat are sticky answers (AddMacCommand, PrepareFrame).
THEOREM TypesKept == Spec => []TypeOK
<1>1. IInv => TypeOK
  <2> SUFFICES ASSUME IInv PROVE TypeOK
    OBVIOUS
  <2>1. mac \in Macs /\ phase \in {"idle", "window", "closed"} /\ sent \in Uplinks
        /\ given \in [To -> Int] /\ Kept(mac)
    BY DEF IInv, Types
  <2>2. mac.buffer \in Seq(Held) /\ mac.repeat \in Seq(Held)
    BY <2>1 DEF Macs
  <2>3. ToSet(mac.buffer \o mac.repeat) \subseteq Held
    BY <2>2, SetsOfCommands
  <2>4. \A c \in ToSet(mac.buffer \o mac.repeat) : c.cmd \in DOMAIN Sizes
    BY <2>3 DEF Held
  <2>5. \A c \in ToSet(mac.repeat) : c.cmd \in Sticky
    BY <2>1 DEF Kept
  <2>6. /\ mac.down \in 0 .. FCNT_MOD * FCNT_MOD - 1 /\ mac.mdown \in 0 .. FCNT_MOD * FCNT_MOD - 1
        /\ mac.tries \in 1 .. NbTrials /\ mac.reps \in 0 .. NbRep
    BY <2>1 DEF Macs, Counters
  <2>7. sent.in \in {"none", "fopts", "zero"} /\ DOMAIN given = {"unicast", "multicast"}
    BY <2>1 DEF Uplinks, To
  <2> QED BY <2>1, <2>4, <2>5, <2>6, <2>7 DEF TypeOK
<1> QED BY <1>1, Invariance, PTL

\* Sticky answers that wait when a procedure is over have been announced
\* (SetMlmeScheduleUplinkIndication), or the application knows from the error
\* of its request that it has to send again.
THEOREM AnswersAlwaysAnnounced == Spec => []AnswersAnnounced
<1>1. IInv => AnswersAnnounced
  BY DEF IInv, Announced, Unsent, AnswersAnnounced
<1> QED BY <1>1, Invariance, PTL

\* What was sent and must be repeated is in every later uplink until a
\* downlink comes (PrepareFrame).
THEOREM StickyAlwaysRepeated == Spec => StickyRepeated
<1> DEFINE A == \A type \in {"UNCONFIRMED", "CONFIRMED"}, payload \in BOOLEAN :
                  McpsRequest(type, payload, FALSE) => owed \subseteq StickyIn(sent'.commands)
<1>1. IInv /\ [Next]_vars => [A]_vars
  <2> SUFFICES ASSUME IInv, NEW type \in {"UNCONFIRMED", "CONFIRMED"}, NEW payload \in BOOLEAN,
                      McpsRequest(type, payload, FALSE)
               PROVE  owed \subseteq StickyIn(sent'.commands)
    OBVIOUS
  <2>1. Types /\ Kept(mac) /\ owed \subseteq StickyIn(mac.repeat)
    BY DEF IInv
  <2>2. StickyIn(sent'.commands) = Pending(mac)
    BY <2>1, McpsRequestEffect
  <2> QED BY <2>1, <2>2 DEF Pending
<1>2. Spec => [][A]_vars
  <2> HIDE DEF A
  <2> QED BY <1>1, Invariance, PTL DEF Spec
<1> QED BY <1>2 DEF StickyRepeated

-----------------------------------------------------------------------------
(* The buffers hold what is copied into them.                                *)

\* The network does not send DlChannelReq: AddMacCommand asks for a byte less
\* than its answer takes, and keeps the answer to be repeated.
NoDlChannel ==
  \A class \in Classes : \A c \in Contents(class) : Gentle(c.fopts) /\ Gentle(c.payload)

\* There is room, and all that is in the air leaves it.
RInv ==
  /\ IInv
  /\ Room(mac)
  /\ \A f \in air : Gentle(f.fopts) /\ Gentle(f.payload)

\* Empty buffers have room.
LEMMA RoomAtFirst == Init => RInv
<1> SUFFICES ASSUME Init PROVE RInv
  OBVIOUS
<1>1. mac.buffer = <<>> /\ mac.repeat = <<>> /\ air = {}
  BY DEF Init, ResetMacParameters
<1>2. Room(mac)
  BY <1>1, BytesOfNone, LengthAssumption DEF Room, ToSet
<1> QED BY <1>1, <1>2, InitEstablishes DEF RInv

\* Every step leaves room.
LEMMA RoomKept ==
  ASSUME NoDlChannel
  PROVE  RInv /\ [Next]_vars => RInv'
<1> SUFFICES ASSUME RInv, [Next]_vars PROVE RInv'
  OBVIOUS
<1> DEFINE Light(frames) == \A f \in frames : Gentle(f.fopts) /\ Gentle(f.payload)
<1>1. IInv' /\ Types /\ Kept(mac) /\ Room(mac) /\ Light(air) /\ mac \in Macs /\ mac.class \in Classes
  BY StepKeeps DEF RInv, IInv, Types, Macs
<1> SUFFICES Room(mac') /\ Light(air')
  BY <1>1 DEF RInv, Room
<1> HIDE DEF Light
<1>2. ASSUME NEW type \in {"UNCONFIRMED", "CONFIRMED"}, NEW payload \in BOOLEAN,
             NEW refused \in Refusals, McpsRequest(type, payload, refused)
      PROVE  Room(mac') /\ Light(air')
  <2>1. refused \in BOOLEAN
    BY RequestAssumption
  <2> QED BY <1>1, <1>2, <2>1, McpsRequestEffect DEF Sends
<1>3. ASSUME NEW cmd \in Requests, MlmeRequest(cmd) PROVE Room(mac') /\ Light(air')
  <2>1. air' = air
    BY <1>3 DEF MlmeRequest
  <2> QED BY <1>1, <1>3, <2>1, MlmeRequestEffect
<1>4. ASSUME NEW f \in air, Receive(f) PROVE Room(mac') /\ Light(air')
  <2>1. Gentle(f.fopts) /\ Gentle(f.payload)
    BY <1>1 DEF Light
  <2> QED BY <1>1, <1>4, <2>1, ReceiveEffect
<1>5. ASSUME mac'.buffer = mac.buffer \/ mac'.buffer = <<>>, mac'.repeat = mac.repeat
      PROVE  Room(mac')
  <2>1. /\ BytesIn(mac.buffer, Counted) \in Nat /\ Bytes(mac.repeat) \in Nat
        /\ BytesIn(<<>>, Counted) = 0 /\ ToSet(<<>>) = {}
    BY <1>1, BytesCounted, BytesOfNone DEF Macs, ToSet
  <2> QED BY <1>1, <1>5, <2>1, LengthAssumption DEF Room
<1>6. ASSUME Foreign PROVE Room(mac') /\ Light(air')
  BY <1>1, <1>5, <1>6, ForeignEffect DEF Flags
<1>7. ASSUME NothingHeard PROVE Room(mac') /\ Light(air')
  BY <1>1, <1>5, <1>7, NothingHeardEffect DEF Flags
<1>8. ASSUME \/ EndUnconfirmed \/ (\E refused \in Refusals : EndConfirmed(refused))
             \/ EndIdle \/ PeriodicCheck
      PROVE  Room(mac') /\ Light(air')
  BY <1>1, <1>5, <1>8, CheckEffect DEF Checked
<1>9. ASSUME NEW c \in Contents(mac.class), Downlink(c) PROVE Room(mac') /\ Light(air')
  <2>1. Gentle(c.fopts) /\ Gentle(c.payload)
    BY <1>1 DEF NoDlChannel
  <2>2. PICK f \in Frames : air' = air \cup {f} /\ f.fopts = c.fopts /\ f.payload = c.payload
    BY <1>1, <1>9, DownlinkEffect
  <2>3. mac' = mac
    BY <1>9 DEF Downlink
  <2> QED BY <1>1, <2>1, <2>2, <2>3 DEF Light
<1>10. CASE UNCHANGED vars
  BY <1>1, <1>10 DEF vars
<1> QED BY <1>2, <1>3, <1>4, <1>6, <1>7, <1>8, <1>9, <1>10 DEF Next

\* PrepareFrame copies the commands to repeat behind those in the buffer: they
\* never exceed it together while nothing careless is among them, whatever was
\* before, whatever the network asks and however often an uplink is refused,
\* provided that the network never asks for the answer that is kept but not
\* counted in full.
THEOREM BuffersHold == ASSUME NoDlChannel PROVE Spec => []BufferHolds
<1>1. RInv => BufferHolds
  <2> SUFFICES ASSUME RInv, \A c \in ToSet(mac.buffer \o mac.repeat) : c.cmd \notin Careless
               PROVE  Bytes(mac.buffer) + Bytes(mac.repeat) <= LORA_MAC_COMMAND_MAX_LENGTH
    BY DEF BufferHolds
  <2>1. mac.buffer \in Seq(Held) /\ mac.repeat \in Seq(Held)
    BY DEF RInv, IInv, Types, Macs
  <2>2. \A c \in ToSet(mac.buffer) : c.cmd \in Counted
    <3>1. ToSet(mac.buffer) \subseteq ToSet(mac.buffer \o mac.repeat) /\ ToSet(mac.buffer) \subseteq Held
      BY <2>1, SetsOfCommands
    <3> QED BY <3>1 DEF Counted, Held
  <2>3. BytesIn(mac.buffer, Counted) = Bytes(mac.buffer)
    BY <2>1, <2>2, BytesCounted
  <2> QED BY <2>3 DEF RInv, Room
<1>2. RInv /\ [Next]_vars => RInv'
  BY RoomKept
<1> QED BY <1>1, <1>2, RoomAtFirst, PTL DEF Spec

-----------------------------------------------------------------------------
(* The counters.                                                             *)

\* Quotient and remainder are unique.
LEMMA RemainderUnique ==
  ASSUME NEW n \in Nat \ {0}, NEW x \in Int, NEW q \in Int, NEW r \in 0 .. n - 1, x = n * q + r
  PROVE  x % n = r
<1> DEFINE k == x \div n
           t == x % n
<1>1. k \in Int /\ t \in 0 .. n - 1 /\ x = n * k + t
  OBVIOUS
<1> HIDE DEF k, t
<1>2. n * (k - q) = r - t
  BY <1>1
<1>3. k - q < 1
  <2>1. ASSUME k - q >= 1 PROVE FALSE
    <3>1. n * (k - q) >= n
      BY <1>1, <2>1
    <3> QED BY <1>1, <1>2, <3>1
  <2> QED BY <1>1, <2>1
<1>4. k - q > -1
  <2>1. ASSUME k - q <= -1 PROVE FALSE
    <3>1. n * (k - q) <= -n
      BY <1>1, <2>1
    <3> QED BY <1>1, <1>2, <3>1
  <2> QED BY <1>1, <2>1
<1>5. k = q
  BY <1>1, <1>3, <1>4
<1>6. t = r
  BY <1>1, <1>5
<1> QED BY <1>6 DEF t

\* Whole rounds leave no remainder.
LEMMA RoundsDropped ==
  ASSUME NEW n \in Nat \ {0}, NEW x \in Int, NEW y \in Int
  PROVE  (x - n * y) % n = x % n
<1> DEFINE k == x \div n
           t == x % n
<1>1. k \in Int /\ t \in 0 .. n - 1 /\ x = n * k + t
  OBVIOUS
<1> HIDE DEF k, t
<1>2. x - n * y = n * (k - y) + t /\ x - n * y \in Int /\ k - y \in Int
  BY <1>1
<1>3. (x - n * y) % n = t
  BY <1>1, <1>2, RemainderUnique
<1> QED BY <1>3 DEF t

Rounds == FCNT_MOD * FCNT_MOD

\* The last counter the device has accepted: before the first frame of a
\* session that starts from 0 there is none.
LastOf(counter) == IF counter = Rounds - 1 THEN -1 ELSE counter

\* Counters far enough from the end of the session.
Early == 0 .. Rounds - MAX_FCNT_GAP - 1

\* The numbers of RoundsCounted, with a name for the square.
LEMMA RoundsNamed ==
  /\ FCNT_MOD \in Nat \ {0} /\ Rounds \in Nat \ {0} /\ MAX_FCNT_GAP \in Nat \ {0}
  /\ MAX_FCNT_GAP <= FCNT_MOD \div 2 /\ MAX_FCNT_GAP < FCNT_MOD /\ 2 * FCNT_MOD <= Rounds
<1>1. MAX_FCNT_GAP < FCNT_MOD
  BY RoundsCounted
<1> QED BY <1>1, RoundsCounted DEF Rounds

\* A frame is authentic when its whole counter is less than the gap ahead of the
\* last one, although the device sees the lower half of it only.
LEMMA CountersAgree ==
  ASSUME NEW counter \in Early \cup {Rounds - 1}, NEW fcnt \in Early
  PROVE  Authentic(counter, fcnt) <=> fcnt - LastOf(counter) \in 0 .. MAX_FCNT_GAP - 1
<1> DEFINE last == LastOf(counter)
           d == fcnt - last
           r == Difference(counter, fcnt)
<1>1. /\ FCNT_MOD \in Nat \ {0} /\ Rounds \in Nat \ {0} /\ MAX_FCNT_GAP \in Nat \ {0}
      /\ MAX_FCNT_GAP <= FCNT_MOD \div 2 /\ MAX_FCNT_GAP < FCNT_MOD /\ 2 * FCNT_MOD <= Rounds
  BY RoundsNamed
<1>2. /\ counter \in 0 .. Rounds - 1 /\ fcnt \in 0 .. Rounds - MAX_FCNT_GAP - 1
      /\ last \in -1 .. Rounds - MAX_FCNT_GAP - 1
      /\ counter = IF last = -1 THEN Rounds - 1 ELSE last
      /\ fcnt \in Int /\ last \in Int /\ d \in Int
  <2>1. counter \in 0 .. Rounds - 1
    BY <1>1 DEF Early
  <2>2. fcnt \in 0 .. Rounds - MAX_FCNT_GAP - 1
    BY DEF Early
  <2>3. CASE counter = Rounds - 1
    <3>1. last = -1
      BY <2>3 DEF LastOf
    <3> HIDE DEF last
    <3> QED BY <1>1, <2>1, <2>2, <2>3, <3>1
  <2>4. CASE counter # Rounds - 1
    <3>1. last = counter /\ counter \in 0 .. Rounds - MAX_FCNT_GAP - 1
      BY <2>4 DEF LastOf, Early
    <3> HIDE DEF last
    <3> QED BY <1>1, <2>1, <2>2, <2>4, <3>1
  <2> QED BY <2>3, <2>4
<1> HIDE DEF last
<1>3. r = d % FCNT_MOD
  <2>1. CASE last # -1
    BY <1>2, <2>1 DEF Difference
  <2>2. CASE last = -1
    <3>1. fcnt - counter = d - FCNT_MOD * FCNT_MOD
      BY <1>1, <1>2, <2>2 DEF Rounds
    <3>2. (d - FCNT_MOD * FCNT_MOD) % FCNT_MOD = d % FCNT_MOD
      <4>1. FCNT_MOD \in Int /\ d \in Int
        BY <1>1, <1>2
      <4> HIDE DEF d
      <4> QED BY <1>1, <4>1, RoundsDropped
    <3> QED BY <3>1, <3>2 DEF Difference
  <2> QED BY <2>1, <2>2
<1>4. r \in 0 .. FCNT_MOD - 1
  BY <1>1, <1>2, <1>3
<1>5. d \in 0 .. MAX_FCNT_GAP - 1 => r = d
  <2>1. ASSUME d \in 0 .. MAX_FCNT_GAP - 1 PROVE d \in 0 .. FCNT_MOD - 1
    BY <1>1, <2>1
  <2> HIDE DEF d, r
  <2> QED BY <1>1, <1>3, <2>1, SmallRemainder
<1> HIDE DEF d, r
<1>6. ASSUME r < MAX_FCNT_GAP
      PROVE  Rebuilt(counter, fcnt) = IF last + r = -1 THEN Rounds - 1 ELSE last + r
  <2>1. Rebuilt(counter, fcnt) = (counter + r) % Rounds
    <3>1. r < FCNT_MOD \div 2
      BY <1>1, <1>4, <1>6
    <3> QED BY <3>1 DEF Rebuilt, Unsigned, Rounds, r
  <2>2. CASE last # -1
    <3>1. counter + r = last + r /\ last + r \in 0 .. Rounds - 1 /\ last + r # -1
      BY <1>1, <1>2, <1>4, <1>6, <2>2
    <3> QED BY <1>1, <2>1, <3>1, SmallRemainder
  <2>3. CASE last = -1 /\ r = 0
    <3>1. counter + r = Rounds - 1 /\ Rounds - 1 \in 0 .. Rounds - 1
      BY <1>1, <1>2, <2>3
    <3> QED BY <1>1, <2>1, <2>3, <3>1, SmallRemainder
  <2>4. CASE last = -1 /\ r # 0
    <3>1. /\ counter + r = Rounds * 1 + (last + r) /\ last + r \in 0 .. Rounds - 1
          /\ counter + r \in Int /\ last + r # -1
      BY <1>1, <1>2, <1>4, <1>6, <2>4
    <3> QED BY <1>1, <2>1, <3>1, RemainderUnique
  <2> QED BY <2>2, <2>3, <2>4
<1>7. ASSUME Authentic(counter, fcnt) PROVE d \in 0 .. MAX_FCNT_GAP - 1
  <2>1. r < MAX_FCNT_GAP /\ Rebuilt(counter, fcnt) = fcnt
    BY <1>7 DEF Authentic, r
  <2>2. last + r # -1 /\ fcnt = last + r
    BY <1>1, <1>2, <1>4, <1>6, <2>1
  <2> QED BY <1>1, <1>2, <1>4, <2>1, <2>2 DEF d
<1>8. ASSUME d \in 0 .. MAX_FCNT_GAP - 1 PROVE Authentic(counter, fcnt)
  <2>1. r < MAX_FCNT_GAP /\ last + r = fcnt
    BY <1>1, <1>2, <1>5, <1>8 DEF d
  <2>2. Rebuilt(counter, fcnt) = fcnt
    BY <1>2, <1>6, <2>1
  <2> QED BY <2>1, <2>2 DEF Authentic, r
<1> QED BY <1>7, <1>8 DEF d, last

-----------------------------------------------------------------------------
(* The counters of device and network.                                       *)

\* No session is so long that a counter of 32 bits runs out.
ShortSessions ==
  \A class \in Classes : \A start \in Starts(class) :
    start + MAX_DOWNLINKS(class) <= Rounds - MAX_FCNT_GAP

\* The counters of the network stay ahead of its frames and below the end of
\* the session; those of the device follow frames, and the application has been
\* given nothing newer.
Ahead ==
  /\ \A f \in air : f.fcnt < net[f.to]
  /\ count.downlinks <= MAX_DOWNLINKS(mac.class)
  /\ \A to \in To : net[to] + (MAX_DOWNLINKS(mac.class) - count.downlinks) <= Rounds - MAX_FCNT_GAP

Followed ==
  /\ mac.down \in Early \cup {Rounds - 1} /\ mac.mdown \in Early
  /\ given["unicast"] <= LastOf(mac.down) /\ given["multicast"] <= mac.mdown

\* A pending indication is newer, and no newer than the counter.
Pended ==
  Indication => /\ mac.fcnt > given[mac.from] \/ mac.fcnt = 0
                /\ mac.fcnt <= IF mac.from = "unicast" THEN LastOf(mac.down) ELSE mac.mdown

\* The order of the counters, with the types it speaks of.
NInv == IInv /\ Ahead /\ Followed /\ Pended

\* A session begins with the counters of the device one behind the network's.
LEMMA NumbersAtFirst ==
  ASSUME ShortSessions
  PROVE  Init => NInv
<1> SUFFICES ASSUME Init PROVE NInv
  OBVIOUS
<1>0. PICK class \in Classes : \E start \in Starts(class) :
        /\ mac = ResetMacParameters(class, start)
        /\ net = [unicast |-> start, multicast |-> 0]
        /\ air = {}
        /\ given = [unicast |-> start - 1, multicast |-> -1]
        /\ count = [uplinks |-> 0, requests |-> 0, downlinks |-> 0, foreign |-> 0]
  BY DEF Init
<1>1. PICK start \in Starts(class) :
        /\ mac = ResetMacParameters(class, start)
        /\ net = [unicast |-> start, multicast |-> 0]
        /\ air = {}
        /\ given = [unicast |-> start - 1, multicast |-> -1]
        /\ count = [uplinks |-> 0, requests |-> 0, downlinks |-> 0, foreign |-> 0]
  BY <1>0
<1>2. /\ start \in Nat /\ MAX_DOWNLINKS(class) \in Nat
      /\ start + MAX_DOWNLINKS(class) <= Rounds - MAX_FCNT_GAP
  BY NetworkAssumption DEF ShortSessions
<1>3. /\ Rounds \in Nat \ {0} /\ MAX_FCNT_GAP \in Nat \ {0} /\ MAX_FCNT_GAP < Rounds
  BY RoundsNamed
<1>4. mac.class = class /\ mac.down = Unsigned(start - 1) /\ mac.mdown = 0 /\ ~mac.ind
  BY <1>1 DEF ResetMacParameters
<1>5. Ahead
  <2>1. \A to \in To : net[to] \in Nat /\ net[to] <= start
    BY <1>1, <1>2 DEF To
  <2> QED BY <1>1, <1>2, <1>3, <1>4, <2>1 DEF Ahead
<1>6. Unsigned(start - 1) = IF start = 0 THEN Rounds - 1 ELSE start - 1
  <2>1. CASE start = 0
    <3>1. -1 = Rounds * (-1) + (Rounds - 1) /\ Rounds - 1 \in 0 .. Rounds - 1
      BY <1>3
    <3>2. (-1) % Rounds = Rounds - 1
      BY <1>3, <3>1, RemainderUnique
    <3> QED BY <2>1, <3>2 DEF Unsigned, Rounds
  <2>2. CASE start # 0
    <3>1. start - 1 \in 0 .. Rounds - 1
      BY <1>2, <1>3, <2>2
    <3>2. (start - 1) % Rounds = start - 1
      BY <1>3, <3>1, SmallRemainder
    <3> QED BY <2>2, <3>2 DEF Unsigned, Rounds
  <2> QED BY <2>1, <2>2
<1>7. Followed
  <2>1. mac.down \in Early \cup {Rounds - 1} /\ mac.mdown \in Early
    BY <1>2, <1>3, <1>4, <1>6 DEF Early
  <2>2. LastOf(mac.down) = start - 1
    BY <1>2, <1>3, <1>4, <1>6 DEF LastOf
  <2> QED BY <1>1, <1>2, <1>4, <2>1, <2>2 DEF Followed
<1>8. Pended
  BY <1>4 DEF Pended, Indication
<1> QED BY <1>5, <1>7, <1>8, InitEstablishes DEF NInv

\* A frame whose counter is in the air meets a device whose counter is behind
\* that of the network.
LEMMA FrameMeetsCounter ==
  ASSUME NInv, NEW f \in air, NEW last,
         last = IF f.to = "unicast" THEN LastOf(mac.down) ELSE mac.mdown
  PROVE  /\ f.fcnt \in Early /\ last \in Int /\ f.fcnt \in Int
         /\ Authentic(Counter(mac, f), f.fcnt) <=> f.fcnt - last \in 0 .. MAX_FCNT_GAP - 1
         /\ Counter(mac, f) = f.fcnt <=> last = f.fcnt
<1>1. /\ f \in Frames /\ mac \in Macs /\ net \in [To -> Nat] /\ mac.class \in Classes
      /\ count.downlinks \in Nat
  BY DEF NInv, IInv, Types, Macs
<1>2. /\ Rounds \in Nat \ {0} /\ MAX_FCNT_GAP \in Nat \ {0} /\ 2 * MAX_FCNT_GAP <= Rounds
  BY RoundsNamed
<1>3. f.to \in To /\ f.fcnt \in Nat /\ net[f.to] \in Nat /\ MAX_DOWNLINKS(mac.class) \in Nat
  BY <1>1, NetworkAssumption DEF Frames
<1>4. /\ f.fcnt < net[f.to] /\ count.downlinks <= MAX_DOWNLINKS(mac.class)
      /\ net[f.to] + (MAX_DOWNLINKS(mac.class) - count.downlinks) <= Rounds - MAX_FCNT_GAP
  BY <1>3 DEF NInv, Ahead
<1>5. f.fcnt \in Early
  BY <1>1, <1>2, <1>3, <1>4 DEF Early
<1>6. Counter(mac, f) \in Early \cup {Rounds - 1} /\ last = LastOf(Counter(mac, f))
  <2>1. CASE f.to = "unicast"
    BY <2>1 DEF Counter, NInv, Followed
  <2>2. CASE f.to # "unicast"
    <3>1. Counter(mac, f) = mac.mdown /\ mac.mdown \in Early /\ last = mac.mdown
      BY <2>2 DEF Counter, NInv, Followed
    <3>2. mac.mdown # Rounds - 1
      BY <1>2, <3>1 DEF Early
    <3> QED BY <3>1, <3>2 DEF LastOf
  <2> QED BY <2>1, <2>2
<1>7. Authentic(Counter(mac, f), f.fcnt) <=> f.fcnt - last \in 0 .. MAX_FCNT_GAP - 1
  BY <1>5, <1>6, CountersAgree
<1>8. Counter(mac, f) = f.fcnt <=> last = f.fcnt
  BY <1>2, <1>5, <1>6 DEF LastOf, Early
<1>9. last \in Int
  BY <1>2, <1>6 DEF LastOf, Early
<1> QED BY <1>3, <1>5, <1>7, <1>8, <1>9

\* Early counters are not the one before the first.
LEMMA EarlyIsLast ==
  ASSUME NEW c \in Early
  PROVE  LastOf(c) = c
  BY RoundsNamed DEF Early, LastOf

\* Every step keeps the counters in their order.
LEMMA NumbersKept == NInv /\ [Next]_vars => NInv'
<1> SUFFICES ASSUME NInv, [Next]_vars PROVE NInv'
  OBVIOUS
<1>1. /\ IInv' /\ Types /\ Kept(mac) /\ mac \in Macs /\ mac.class \in Classes /\ air \subseteq Frames
      /\ net \in [To -> Nat] /\ given \in [To -> Int] /\ count.downlinks \in Nat
      /\ Ahead /\ Followed /\ Pended
  BY StepKeeps DEF NInv, IInv, Types, Macs
<1> SUFFICES Ahead' /\ Followed' /\ Pended'
  BY <1>1 DEF NInv
<1>2. /\ Rounds \in Nat \ {0} /\ MAX_FCNT_GAP \in Nat \ {0} /\ 2 * MAX_FCNT_GAP <= Rounds
      /\ MAX_DOWNLINKS(mac.class) \in Nat
  <2>1. MAX_DOWNLINKS(mac.class) \in Nat
    BY <1>1, NetworkAssumption
  <2>2. 2 * MAX_FCNT_GAP <= Rounds
    BY RoundsNamed
  <2> QED BY <2>1, <2>2, RoundsNamed
<1>3. ASSUME mac'.class = mac.class, UNCHANGED <<net, air>>, count'.downlinks = count.downlinks
      PROVE  Ahead'
  BY <1>1, <1>3 DEF Ahead
<1>4. ASSUME mac'.down = mac.down, mac'.mdown = mac.mdown, given' = given
      PROVE  Followed'
  BY <1>1, <1>4 DEF Followed, Early, Rounds, LastOf
<1>5. ASSUME mac'.down = mac.down, mac'.mdown = mac.mdown, given' = given,
             mac'.ind = mac.ind, mac'.skip = mac.skip, mac'.ok = mac.ok, mac'.data = mac.data,
             mac'.from = mac.from, mac'.fcnt = mac.fcnt
      PROVE  Pended'
  BY <1>1, <1>5 DEF Pended, Indication, LastOf, Rounds
<1>6. ASSUME NEW type \in {"UNCONFIRMED", "CONFIRMED"}, NEW payload \in BOOLEAN,
             NEW refused \in Refusals, McpsRequest(type, payload, refused)
      PROVE  Ahead' /\ Followed' /\ Pended'
  <2>1. refused \in BOOLEAN
    BY RequestAssumption
  <2>2. Sends(mac', mac) /\ count'.downlinks = count.downlinks /\ UNCHANGED <<net, air, given>>
    BY <1>1, <1>6, <2>1, McpsRequestEffect
  <2> QED BY <1>3, <1>4, <1>5, <2>2 DEF Sends
<1>7. ASSUME NEW cmd \in Requests, MlmeRequest(cmd) PROVE Ahead' /\ Followed' /\ Pended'
  <2>1. Adds(mac', mac) /\ count'.downlinks = count.downlinks /\ UNCHANGED <<net, air, given>>
    BY <1>1, <1>7, MlmeRequestEffect
  <2>2. mac' = [mac EXCEPT !.buffer = mac'.buffer, !.inNextTx = mac'.inNextTx, !.mlmeInd = mac'.mlmeInd]
    BY <2>1 DEF Adds
  <2>3. /\ mac'.class = mac.class /\ mac'.down = mac.down /\ mac'.mdown = mac.mdown
        /\ mac'.ind = mac.ind /\ mac'.skip = mac.skip /\ mac'.ok = mac.ok /\ mac'.data = mac.data
        /\ mac'.from = mac.from /\ mac'.fcnt = mac.fcnt
    BY <1>1, <2>2 DEF Macs
  <2> QED BY <1>3, <1>4, <1>5, <2>1, <2>3
<1>8. ASSUME NEW f \in air, Receive(f) PROVE Ahead' /\ Followed' /\ Pended'
  <2> DEFINE real == Authentic(Counter(mac, f), f.fcnt)
             again == Repeated(Counter(mac, f), f.fcnt)
             last == IF f.to = "unicast" THEN LastOf(mac.down) ELSE mac.mdown
  <2>1. /\ After(mac', mac)
        /\ mac'.down = IF real /\ f.to = "unicast" THEN f.fcnt ELSE mac.down
        /\ mac'.mdown = IF real /\ f.to # "unicast" THEN f.fcnt ELSE mac.mdown
        /\ mac'.from = f.to /\ mac'.fcnt = f.fcnt
        /\ mac'.ok /\ ~mac'.skip => real /\ ~again
        /\ UNCHANGED <<sent, net, air, given, count>>
    BY <1>1, <1>8, ReceiveEffect
  <2>2. /\ f.fcnt \in Early /\ last \in Int /\ f.fcnt \in Int
        /\ real <=> f.fcnt - last \in 0 .. MAX_FCNT_GAP - 1
        /\ Counter(mac, f) = f.fcnt <=> last = f.fcnt
    BY FrameMeetsCounter
  <2>3. LastOf(f.fcnt) = f.fcnt
    BY <2>2, EarlyIsLast
  <2>4. again <=> last = f.fcnt /\ f.fcnt # 0
    BY <2>2 DEF Repeated
  <2>5. /\ f.to \in To
        /\ f.to = "unicast" => last = LastOf(mac.down) /\ given["unicast"] <= last
        /\ f.to = "multicast" => last = mac.mdown /\ given["multicast"] <= last
    BY <1>1 DEF Frames, To, Followed
  <2> HIDE DEF real, again, last
  <2>6. Ahead'
    BY <1>3, <2>1 DEF After
  <2>7. real => last <= f.fcnt
    BY <1>2, <2>2
  <2>8. given["unicast"] \in Int /\ given["multicast"] \in Int
    BY <1>1 DEF To
  <2>9. Followed'
    <3>1. mac'.down \in Early \cup {Rounds - 1} /\ mac'.mdown \in Early
      BY <1>1, <2>1, <2>2 DEF Followed
    <3>2. given["unicast"] <= LastOf(mac'.down)
      <4>1. CASE real /\ f.to = "unicast"
        BY <2>1, <2>2, <2>3, <2>5, <2>7, <2>8, <4>1
      <4>2. CASE ~(real /\ f.to = "unicast")
        BY <1>1, <2>1, <4>2 DEF Followed
      <4> QED BY <4>1, <4>2
    <3>3. given["multicast"] <= mac'.mdown
      <4>1. CASE real /\ f.to # "unicast"
        BY <2>1, <2>2, <2>5, <2>7, <2>8, <4>1 DEF To
      <4>2. CASE ~(real /\ f.to # "unicast")
        BY <1>1, <2>1, <4>2 DEF Followed
      <4> QED BY <4>1, <4>2
    <3> QED BY <2>1, <3>1, <3>2, <3>3 DEF Followed, Early, Rounds, LastOf
  <2>10. ASSUME Indication'
         PROVE  /\ mac'.fcnt > given[mac'.from] \/ mac'.fcnt = 0
                /\ mac'.fcnt <= IF mac'.from = "unicast" THEN LastOf(mac'.down) ELSE mac'.mdown
    <3>1. real /\ ~again
      BY <2>1, <2>10 DEF Indication
    <3>2. f.fcnt > last \/ f.fcnt = 0
      BY <2>2, <2>4, <2>7, <3>1
    <3>3. given[f.to] <= last /\ given[f.to] \in Int
      BY <2>5, <2>8 DEF To
    <3>4. f.fcnt > given[f.to] \/ f.fcnt = 0
      BY <2>2, <3>2, <3>3
    <3>5. f.fcnt <= IF f.to = "unicast" THEN LastOf(mac'.down) ELSE mac'.mdown
      BY <2>1, <2>2, <2>3, <3>1
    <3> QED BY <2>1, <3>4, <3>5
  <2>11. Pended'
    BY <2>1, <2>10 DEF Pended, Indication, LastOf, Rounds
  <2> QED BY <2>6, <2>9, <2>11
<1>9. ASSUME Foreign PROVE Ahead' /\ Followed' /\ Pended'
  <2>1. Flags(mac', mac) /\ ~mac'.ok /\ count'.downlinks = count.downlinks
        /\ UNCHANGED <<sent, net, air, owed, given>>
    BY <1>1, <1>9, ForeignEffect
  <2>2. Pended'
    BY <2>1 DEF Pended, Indication
  <2> QED BY <1>3, <1>4, <2>1, <2>2 DEF Flags
<1>10. ASSUME NothingHeard PROVE Ahead' /\ Followed' /\ Pended'
  BY <1>1, <1>3, <1>4, <1>5, <1>10, NothingHeardEffect DEF Flags
<1>11. ASSUME \/ EndUnconfirmed \/ (\E refused \in Refusals : EndConfirmed(refused))
              \/ EndIdle \/ PeriodicCheck
       PROVE  Ahead' /\ Followed' /\ Pended'
  <2>1. /\ mac'.class = mac.class /\ mac'.down = mac.down /\ mac'.mdown = mac.mdown
        /\ ~mac'.ind /\ Indicated /\ UNCHANGED <<sent, net, air, owed, count>>
    BY <1>1, <1>11, CheckEffect DEF Checked
  <2>2. Pended'
    BY <2>1 DEF Pended, Indication
  <2>3. mac.from \in To /\ "unicast" \in To /\ "multicast" \in To
    BY <1>1 DEF Macs, To
  <2>4. Followed'
    <3>1. CASE ~Indication
      BY <1>4, <2>1, <3>1 DEF Indicated
    <3>2. CASE Indication
      <4>1. mac.fcnt <= IF mac.from = "unicast" THEN LastOf(mac.down) ELSE mac.mdown
        BY <1>1, <3>2 DEF Pended
      <4>2. given' = [given EXCEPT ![mac.from] = mac.fcnt]
        BY <2>1, <3>2 DEF Indicated
      <4>3. given'["unicast"] <= LastOf(mac.down) /\ given'["multicast"] <= mac.mdown
        BY <1>1, <2>3, <4>1, <4>2 DEF Followed, To
      <4> QED BY <1>1, <2>1, <4>3 DEF Followed, Early, Rounds, LastOf
    <3> QED BY <3>1, <3>2
  <2> QED BY <1>3, <2>1, <2>2, <2>4
<1>12. ASSUME NEW c \in Contents(mac.class), Downlink(c) PROVE Ahead' /\ Followed' /\ Pended'
  <2>1. /\ c.to \in To /\ count.downlinks < MAX_DOWNLINKS(mac.class)
        /\ \E f \in Frames : air' = air \cup {f} /\ f.to = c.to /\ f.fcnt = net[c.to]
        /\ net' \in [To -> Nat] /\ net' = [net EXCEPT ![c.to] = net[c.to] + 1]
        /\ count'.downlinks = count.downlinks + 1
        /\ UNCHANGED <<mac, phase, sent, owed, given>>
    BY <1>1, <1>12, DownlinkEffect
  <2>2. PICK f \in Frames : air' = air \cup {f} /\ f.to = c.to /\ f.fcnt = net[c.to]
    BY <2>1
  <2>3. \A to \in To : /\ net[to] \in Nat /\ net'[to] \in Nat
                       /\ net'[to] = IF to = c.to THEN net[to] + 1 ELSE net[to]
    BY <1>1, <2>1
  <2>4. \A g \in air' : g.fcnt < net'[g.to]
    <3>1. ASSUME NEW g \in air PROVE g.fcnt < net'[g.to]
      <4>1. g.to \in To /\ g.fcnt \in Nat /\ g.fcnt < net[g.to]
        BY <1>1 DEF Frames, Ahead
      <4> QED BY <2>3, <4>1
    <3>2. f.fcnt < net'[f.to]
      BY <2>1, <2>2, <2>3
    <3> QED BY <2>2, <3>1, <3>2
  <2>5. count'.downlinks <= MAX_DOWNLINKS(mac.class)
    BY <1>1, <1>2, <2>1
  <2>6. \A to \in To :
          net'[to] + (MAX_DOWNLINKS(mac.class) - count'.downlinks) <= Rounds - MAX_FCNT_GAP
    <3>1. ASSUME NEW to \in To
          PROVE  net'[to] + (MAX_DOWNLINKS(mac.class) - count'.downlinks) <= Rounds - MAX_FCNT_GAP
      <4>1. net[to] + (MAX_DOWNLINKS(mac.class) - count.downlinks) <= Rounds - MAX_FCNT_GAP
        BY <1>1 DEF Ahead
      <4>2. net[to] \in Nat /\ (net'[to] = net[to] + 1 \/ net'[to] = net[to])
        BY <2>3
      <4> QED BY <1>1, <1>2, <2>1, <4>1, <4>2
    <3> QED BY <3>1
  <2>7. Ahead'
    BY <2>1, <2>4, <2>5, <2>6 DEF Ahead, Rounds
  <2> QED BY <1>4, <1>5, <2>1, <2>7
<1>13. CASE UNCHANGED vars
  BY <1>3, <1>4, <1>5, <1>13 DEF vars
<1> QED BY <1>6, <1>7, <1>8, <1>9, <1>10, <1>11, <1>12, <1>13 DEF Next

\* The counters are in their order in every session.
LEMMA NumbersInvariant == ASSUME ShortSessions PROVE Spec => []NInv
<1>1. Init => NInv
  BY NumbersAtFirst
<1> QED BY <1>1, NumbersKept, PTL DEF Spec

\* The counter rebuilt from the 16 bits of a frame is that of the network: it
\* follows the frames at most the gap ahead, and no other (OnRadioRxDone).
THEOREM CountersFollow == ASSUME ShortSessions PROVE Spec => CounterFollowsNetwork
<1> DEFINE A == \A f \in air :
                  Receive(f) /\ f.to = "unicast" =>
                    LET last == IF mac.down = Unsigned(-1) THEN -1 ELSE mac.down
                    IN  mac'.down = IF f.fcnt - last \in 1 .. MAX_FCNT_GAP - 1 THEN f.fcnt ELSE mac.down
<1>1. NInv /\ [Next]_vars => [A]_vars
  <2> SUFFICES ASSUME NInv, NEW f \in air, Receive(f), f.to = "unicast"
               PROVE  LET last == IF mac.down = Unsigned(-1) THEN -1 ELSE mac.down
                      IN  mac'.down = IF f.fcnt - last \in 1 .. MAX_FCNT_GAP - 1
                                      THEN f.fcnt ELSE mac.down
    OBVIOUS
  <2> DEFINE last == LastOf(mac.down)
             real == Authentic(Counter(mac, f), f.fcnt)
  <2>1. Rounds \in Nat \ {0} /\ MAX_FCNT_GAP \in Nat \ {0}
    BY RoundsNamed
  <2>2. Unsigned(-1) = Rounds - 1
    <3>1. -1 = Rounds * (-1) + (Rounds - 1) /\ Rounds - 1 \in 0 .. Rounds - 1
      BY <2>1
    <3>2. (-1) % Rounds = Rounds - 1
      BY <2>1, <3>1, RemainderUnique
    <3> QED BY <3>2 DEF Unsigned, Rounds
  <2>3. last = IF mac.down = Unsigned(-1) THEN -1 ELSE mac.down
    BY <2>2 DEF LastOf
  <2>4. Types
    BY DEF NInv, IInv
  <2>5. mac'.down = IF real THEN f.fcnt ELSE mac.down
    BY <2>4, ReceiveEffect
  <2>6. /\ f.fcnt \in Int /\ last \in Int
        /\ real <=> f.fcnt - last \in 0 .. MAX_FCNT_GAP - 1
        /\ mac.down = f.fcnt <=> last = f.fcnt
    BY FrameMeetsCounter DEF Counter
  <2> HIDE DEF last, real
  <2>7. mac'.down = IF f.fcnt - last \in 1 .. MAX_FCNT_GAP - 1 THEN f.fcnt ELSE mac.down
    <3>1. CASE f.fcnt - last \in 1 .. MAX_FCNT_GAP - 1
      BY <2>1, <2>5, <2>6, <3>1
    <3>2. CASE f.fcnt = last
      BY <2>1, <2>5, <2>6, <3>2
    <3>3. CASE f.fcnt # last /\ f.fcnt - last \notin 1 .. MAX_FCNT_GAP - 1
      <4>1. ~real
        BY <2>1, <2>6, <3>3
      <4> QED BY <2>5, <3>3, <4>1
    <3> QED BY <3>1, <3>2, <3>3
  <2> QED BY <2>3, <2>7
<1>2. Spec => [][A]_vars
  <2> HIDE DEF A
  <2> QED BY <1>1, NumbersInvariant, PTL DEF Spec
<1> QED BY <1>2 DEF CounterFollowsNetwork

\* What is indicated to the application is newer than what was, although
\* frames come twice and out of order (the tests of OnRadioRxDone for repeated
\* frames).  Only the frame with counter 0 may come twice.
THEOREM DeliveredOnce == ASSUME ShortSessions PROVE Spec => DeliveredOnceInOrder
<1> DEFINE A == Indication /\ ~mac'.ind => mac.fcnt > given[mac.from] \/ mac.fcnt = 0
<1>1. NInv => [A]_vars
  BY DEF NInv, Pended
<1>2. Spec => [][A]_vars
  <2> HIDE DEF A
  <2> QED BY <1>1, NumbersInvariant, PTL
<1> QED BY <1>2 DEF DeliveredOnceInOrder
===============================================================================
