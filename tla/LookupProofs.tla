----------------------------- MODULE LookupProofs -----------------------------
(***************************************************************************)
(* Where the lookups of one file lead that go by the path of a request, by *)
(* its canonical path and by a handle; what the walks show of a directory, *)
(* and the pages of resources/list of the allowed directories.             *)
(***************************************************************************)
EXTENDS SandboxProofs

-----------------------------------------------------------------------------
(***************************************************************************)
(* A lookup hop by hop.                                                    *)
(***************************************************************************)

LEMMA HopIs ==
  ASSUME NEW t, WellFormed(t), NEW base \in Seq(Names), Is(t, base, "dir"),
         NEW beneath \in BOOLEAN, NEW names \in Seq(Parts)
  PROVE  LET hops == Hops(t, base, beneath, names)
         IN /\ hops[0] = [at |-> base, todo |-> names, ok |-> TRUE]
            /\ \A i \in 0..MaxHops : hops[i] \in Looked(t)
            /\ \A i \in 0..MaxHops : i < MaxHops =>
                 hops[i + 1] = Advance(t, base, beneath, hops[i])
<1> DEFINE hops == Hops(t, base, beneath, names)
<1>1. /\ hops \in [0..MaxHops -> Looked(t)]
      /\ hops[0] = [at |-> base, todo |-> names, ok |-> TRUE]
      /\ \A i \in 1..MaxHops : hops[i] = Advance(t, base, beneath, hops[i - 1])
  BY HopsAre
<1> HIDE DEF hops
<1>2. ASSUME NEW i \in 0..MaxHops, i < MaxHops
      PROVE  hops[i + 1] = Advance(t, base, beneath, hops[i])
  <2>1. i + 1 \in 1..MaxHops /\ (i + 1) - 1 = i
    BY <1>2, BoundsAssumption
  <2>2. hops[i + 1] = Advance(t, base, beneath, hops[(i + 1) - 1])
    BY <1>1, <2>1
  <2> QED BY <2>1, <2>2
<1>3. \A i \in 0..MaxHops : hops[i] \in Looked(t)
  BY <1>1
<1> QED BY <1>1, <1>2, <1>3 DEF hops

(* A lookup that is at its end, or has failed, stays where it is. *)
LEMMA HopsEnd ==
  ASSUME NEW t, WellFormed(t), NEW base \in Seq(Names), Is(t, base, "dir"),
         NEW beneath \in BOOLEAN, NEW names \in Seq(Parts), NEW i \in 0..MaxHops,
         LET s == Hops(t, base, beneath, names)[i] IN ~s.ok \/ s.todo = <<>>
  PROVE  Hops(t, base, beneath, names)[MaxHops] = Hops(t, base, beneath, names)[i]
<1> DEFINE hops == Hops(t, base, beneath, names)
           n == MaxHops - i
           T == {k \in 0..n : hops[i + k] = hops[i]}
<1>1. MaxHops \in Nat /\ n \in Nat /\ i + n = MaxHops /\ i + 0 = i
  BY BoundsAssumption
<1>2. \A j \in 0..MaxHops : j < MaxHops => hops[j + 1] = Advance(t, base, beneath, hops[j])
  BY HopIs, ZenonT(60)
<1>3. ~hops[i].ok \/ hops[i].todo = <<>>
  OBVIOUS
<1> HIDE DEF hops, n
<1>4. 0 \in T /\ T \in SUBSET (0..n)
  BY <1>1
<1>5. ASSUME NEW k \in 0..n, k \in T, k < n PROVE k + 1 \in T
  <2>1. i + k \in 0..MaxHops /\ i + k < MaxHops /\ (i + k) + 1 = i + (k + 1) /\ k + 1 \in 0..n
    BY <1>1, <1>5
  <2>2. hops[(i + k) + 1] = Advance(t, base, beneath, hops[i + k])
    BY <1>2, <2>1
  <2>3. Advance(t, base, beneath, hops[i]) = hops[i]
    BY <1>3 DEF Advance
  <2> QED BY <1>5, <2>1, <2>2, <2>3
<1>6. T = 0..n
  <2>1. \A k \in 0..n : (k \in T /\ k < n) => k + 1 \in T
    BY <1>5
  <2> HIDE DEF T
  <2> QED BY <1>1, <1>4, <2>1, HandedOn, Zenon
<1>7. n \in T
  <2> HIDE DEF T
  <2> QED BY <1>1, <1>6
<1> QED BY <1>1, <1>7 DEF hops

(* What begins an existing path exists, and is a directory. *)
LEMMA Directories ==
  ASSUME NEW t, WellFormed(t), NEW path \in DOMAIN t, NEW k \in 0..Len(path)
  PROVE  /\ path \in Seq(Names)
         /\ UpTo(path, k) \in Seq(Names) /\ Len(UpTo(path, k)) = k
         /\ UpTo(path, k) \in DOMAIN t
         /\ k < Len(path) => Is(t, UpTo(path, k), "dir")
<1> DEFINE n == Len(path)
           T == {j \in 0..n : UpTo(path, n - j) \in DOMAIN t}
<1>1. path \in Seq(Names)
  BY DEF WellFormed
<1>2. n \in Nat /\ UpTo(path, n) = path
  BY <1>1 DEF UpTo
<1>3. \A j \in 0..n : UpTo(path, j) \in Seq(Names) /\ Len(UpTo(path, j)) = j
  BY <1>1, UpToUpTo
<1> HIDE DEF n
<1>4. ASSUME NEW j \in 1..n, UpTo(path, j) \in DOMAIN t
      PROVE  Is(t, UpTo(path, j - 1), "dir")
  <2>1. j \in 0..n /\ j - 1 \in 0..j /\ UpTo(path, j) # <<>>
    <3>1. j \in 0..n /\ j - 1 \in 0..j /\ j # 0
      BY <1>2
    <3>2. Len(UpTo(path, j)) = j
      BY <1>3, <3>1
    <3> QED BY <3>1, <3>2
  <2>2. Front(UpTo(path, j)) = UpTo(path, j - 1)
    <3>1. Len(UpTo(path, j)) = j
      BY <1>3, <2>1
    <3>2. UpTo(UpTo(path, j), j - 1) = UpTo(path, j - 1)
      BY <1>1, <2>1, UpToUpTo DEF n
    <3> QED BY <3>1, <3>2 DEF Front, UpTo
  <2> QED BY <1>4, <2>1, <2>2 DEF WellFormed
<1>5. T = 0..n
  <2>1. 0 \in T /\ T \in SUBSET (0..n)
    BY <1>2
  <2>2. ASSUME NEW j \in 0..n, j \in T, j < n PROVE j + 1 \in T
    <3>1. n - j \in 1..n /\ (n - j) - 1 = n - (j + 1) /\ j + 1 \in 0..n
      BY <1>2, <2>2
    <3>2. Is(t, UpTo(path, (n - j) - 1), "dir")
      BY <1>4, <2>2, <3>1
    <3> QED BY <3>1, <3>2 DEF Is
  <2>3. \A j \in 0..n : (j \in T /\ j < n) => j + 1 \in T
    BY <2>2
  <2> HIDE DEF T
  <2> QED BY <1>2, <2>1, <2>3, HandedOn, Zenon
<1>6. \A j \in 0..n : UpTo(path, j) \in DOMAIN t
  <2> SUFFICES ASSUME NEW j \in 0..n PROVE UpTo(path, j) \in DOMAIN t
    OBVIOUS
  <2>1. n - j \in 0..n /\ n - (n - j) = j
    BY <1>2
  <2> QED BY <1>5, <2>1
<1>7. ASSUME k < n
      PROVE  Is(t, UpTo(path, k), "dir")
  <2>1. k + 1 \in 1..n /\ k + 1 \in 0..n /\ (k + 1) - 1 = k
    BY <1>2, <1>7 DEF n
  <2>2. UpTo(path, k + 1) \in DOMAIN t
    BY <1>6, <2>1
  <2> QED BY <1>4, <2>1, <2>2
<1> QED BY <1>1, <1>3, <1>6, <1>7 DEF n

(* A lookup of a path has gone through its first k names. *)
Split(path, k) == [at |-> UpTo(path, k), todo |-> SubSeq(path, k + 1, Len(path)), ok |-> TRUE]

LEMMA NextName ==
  ASSUME NEW path \in Seq(Names), NEW k \in 0..Len(path), k < Len(path)
  PROVE  LET todo == SubSeq(path, k + 1, Len(path))
         IN /\ todo # <<>> /\ Head(todo) = path[k + 1] /\ path[k + 1] \in Names
            /\ Tail(todo) = SubSeq(path, k + 2, Len(path))
            /\ Append(UpTo(path, k), path[k + 1]) = UpTo(path, k + 1)
            /\ Tail(todo) = <<>> <=> k + 1 = Len(path)
<1> DEFINE todo == SubSeq(path, k + 1, Len(path))
<1>1. Len(path) \in Nat /\ k \in Nat /\ k + 1 <= Len(path) /\ k + 1 \in 1..Len(path)
  OBVIOUS
<1>2. todo \in Seq(Names) /\ Len(todo) = Len(path) - k /\ todo[1] = path[k + 1]
  BY <1>1
<1>3. todo # <<>> /\ Head(todo) = path[k + 1] /\ path[k + 1] \in Names
  <2> HIDE DEF todo
  <2> QED BY <1>1, <1>2
<1>4. Tail(todo) = SubSeq(path, k + 2, Len(path))
  BY <1>1
<1>5. Append(UpTo(path, k), path[k + 1]) = UpTo(path, k + 1)
  BY <1>1 DEF UpTo
<1>6. Tail(todo) = <<>> <=> k + 1 = Len(path)
  <2> HIDE DEF todo
  <2>1. Len(Tail(todo)) = Len(path) - (k + 1) /\ Tail(todo) \in Seq(Names)
    BY <1>1, <1>2, <1>3, HeadAndTail
  <2>2. Tail(todo) = <<>> <=> Len(Tail(todo)) = 0
    BY <2>1, LenIs
  <2>3. Len(path) - (k + 1) = 0 <=> k + 1 = Len(path)
    BY <1>1
  <2> QED BY <2>1, <2>2, <2>3, Zenon
<1> QED BY <1>3, <1>4, <1>5, <1>6

(* The next name is entered if it is no link. *)
LEMMA StraightStep ==
  ASSUME NEW t, NEW base, NEW beneath, NEW path \in Seq(Names), NEW k \in 0..Len(path),
         k < Len(path), ~Is(t, UpTo(path, k + 1), "link")
  PROVE  Advance(t, base, beneath, Split(path, k))
           = [at |-> UpTo(path, k + 1), todo |-> SubSeq(path, k + 2, Len(path)),
              ok |-> Is(t, UpTo(path, k + 1), "dir") \/ k + 1 = Len(path)]
<1> DEFINE todo == SubSeq(path, k + 1, Len(path))
           next == Append(UpTo(path, k), Head(todo))
<1>1. /\ todo # <<>> /\ Head(todo) = path[k + 1] /\ path[k + 1] \in Names
      /\ Tail(todo) = SubSeq(path, k + 2, Len(path))
      /\ Append(UpTo(path, k), path[k + 1]) = UpTo(path, k + 1)
      /\ Tail(todo) = <<>> <=> k + 1 = Len(path)
  BY NextName
<1>2. Split(path, k).at = UpTo(path, k) /\ Split(path, k).todo = todo /\ Split(path, k).ok
  BY DEF Split
<1> HIDE DEF todo
<1>3. Head(todo) # "." /\ Head(todo) # ".."
  BY <1>1, NamesAssumption
<1>4. Advance(t, base, beneath, Split(path, k))
        = Enter(t, base, beneath, UpTo(path, k), Head(todo), Tail(todo))
  BY <1>1, <1>2, <1>3 DEF Advance
<1>5. next = UpTo(path, k + 1) /\ ~Is(t, next, "link")
  BY <1>1
<1>6. Enter(t, base, beneath, UpTo(path, k), Head(todo), Tail(todo))
        = [at |-> next, todo |-> Tail(todo), ok |-> Is(t, next, "dir") \/ Tail(todo) = <<>>]
  BY <1>5 DEF Enter
<1>7. (Is(t, next, "dir") \/ Tail(todo) = <<>>)
        = (Is(t, UpTo(path, k + 1), "dir") \/ k + 1 = Len(path))
  BY <1>1, <1>5
<1> QED BY <1>1, <1>4, <1>5, <1>6, <1>7

(* A lookup goes through directories one by one. *)
LEMMA StraightWay ==
  ASSUME NEW t, WellFormed(t), NEW base \in Seq(Names), NEW path \in Seq(Names),
         IsPrefix(base, path), NEW beneath \in BOOLEAN,
         NEW n \in 0..MaxHops, Len(base) + n <= Len(path),
         \A k \in Len(base)..Len(base) + n : Is(t, UpTo(path, k), "dir")
  PROVE  Hops(t, base, beneath, Suffix(path, base))[n] = Split(path, Len(base) + n)
<1> DEFINE hops == Hops(t, base, beneath, Suffix(path, base))
           b == Len(base)
           T == {i \in 0..n : hops[i] = Split(path, b + i)}
<1>1. b \in Nat /\ n \in Nat /\ MaxHops \in Nat /\ n <= MaxHops /\ Len(path) \in Nat
  BY BoundsAssumption
<1>2. UpTo(path, b) = base /\ Suffix(path, base) \in Seq(Parts)
  <2>1. UpTo(path, b) = base /\ Suffix(path, base) \in Seq(Names)
    BY PrefixIs
  <2> QED BY <2>1 DEF Parts
<1>3. Is(t, base, "dir")
  BY <1>1, <1>2
<1>4. /\ hops[0] = [at |-> base, todo |-> Suffix(path, base), ok |-> TRUE]
      /\ \A i \in 0..MaxHops : i < MaxHops => hops[i + 1] = Advance(t, base, beneath, hops[i])
  BY <1>2, <1>3, HopIs
<1> HIDE DEF hops
<1>5. 0 \in T /\ T \in SUBSET (0..n)
  <2>1. hops[0] = Split(path, b + 0)
    BY <1>1, <1>2, <1>4 DEF Split, Suffix
  <2> QED BY <1>1, <2>1
<1>6. ASSUME NEW i \in 0..n, i \in T, i < n PROVE i + 1 \in T
  <2>1. /\ i \in 0..MaxHops /\ i < MaxHops /\ i + 1 \in 0..n /\ b + i \in 0..Len(path)
        /\ b + i < Len(path) /\ (b + i) + 1 = b + (i + 1) /\ (b + i) + 2 = (b + (i + 1)) + 1
        /\ b + (i + 1) \in b..b + n
    BY <1>1, <1>6
  <2>2. Is(t, UpTo(path, (b + i) + 1), "dir") /\ ~Is(t, UpTo(path, (b + i) + 1), "link")
    BY <2>1 DEF Is
  <2>3. Advance(t, base, beneath, Split(path, b + i))
          = [at |-> UpTo(path, (b + i) + 1), todo |-> SubSeq(path, (b + i) + 2, Len(path)),
             ok |-> Is(t, UpTo(path, (b + i) + 1), "dir") \/ (b + i) + 1 = Len(path)]
    BY <2>1, <2>2, StraightStep, ZenonT(60)
  <2>4. Advance(t, base, beneath, Split(path, b + i)) = Split(path, b + (i + 1))
    BY <2>1, <2>2, <2>3 DEF Split
  <2>5. hops[i + 1] = Advance(t, base, beneath, hops[i])
    BY <1>4, <2>1
  <2> QED BY <1>6, <2>1, <2>4, <2>5
<1>7. T = 0..n
  <2>1. \A i \in 0..n : (i \in T /\ i < n) => i + 1 \in T
    BY <1>6
  <2> HIDE DEF T
  <2> QED BY <1>1, <1>5, <2>1, HandedOn, Zenon
<1>8. n \in T
  <2> HIDE DEF T
  <2> QED BY <1>1, <1>7
<1> QED BY <1>8 DEF hops

(* ... and enters an entry of the last one that is no link. *)
LEMMA StraightEnd ==
  ASSUME NEW t, WellFormed(t), NEW base \in Seq(Names), NEW path \in Seq(Names),
         IsPrefix(base, path), NEW beneath \in BOOLEAN,
         NEW n \in 1..MaxHops, Len(base) + n <= Len(path),
         UpTo(path, Len(base) + n) \in DOMAIN t, ~Is(t, UpTo(path, Len(base) + n), "link")
  PROVE  Hops(t, base, beneath, Suffix(path, base))[n]
           = [at |-> UpTo(path, Len(base) + n), todo |-> SubSeq(path, Len(base) + n + 1, Len(path)),
              ok |-> Is(t, UpTo(path, Len(base) + n), "dir") \/ Len(base) + n = Len(path)]
<1> DEFINE b == Len(base)
           hops == Hops(t, base, beneath, Suffix(path, base))
           end == UpTo(path, b + n)
<1>1. /\ b \in Nat /\ MaxHops \in Nat /\ n - 1 \in 0..MaxHops /\ n - 1 < MaxHops /\ n - 1 + 1 = n
      /\ b + (n - 1) \in 0..Len(path) /\ b + (n - 1) < Len(path)
      /\ (b + (n - 1)) + 1 = b + n /\ (b + (n - 1)) + 2 = b + n + 1 /\ b + n \in 0..Len(path)
      /\ b + (n - 1) <= Len(path)
  BY BoundsAssumption
<1>2. Len(end) = b + n
  BY <1>1, UpToUpTo
<1>3. ASSUME NEW k \in b..b + (n - 1) PROVE Is(t, UpTo(path, k), "dir")
  <2>1. k \in 0..b + n /\ k < b + n
    BY <1>1
  <2>2. Is(t, UpTo(end, k), "dir")
    BY <1>2, <2>1, Directories
  <2>3. UpTo(end, k) = UpTo(path, k)
    BY <1>1, <2>1, UpToUpTo
  <2> QED BY <2>2, <2>3
<1>4. hops[n - 1] = Split(path, b + (n - 1))
  BY <1>1, <1>3, StraightWay
<1>5. Is(t, base, "dir")
  <2>1. b \in b..b + (n - 1) /\ UpTo(path, b) = base
    BY <1>1, PrefixIs
  <2> QED BY <1>3, <2>1
<1>6. Suffix(path, base) \in Seq(Parts)
  <2>1. Suffix(path, base) \in Seq(Names)
    BY PrefixIs
  <2> QED BY <2>1 DEF Parts
<1>7. hops[n - 1 + 1] = Advance(t, base, beneath, hops[n - 1])
  <2>1. \A i \in 0..MaxHops : i < MaxHops => hops[i + 1] = Advance(t, base, beneath, hops[i])
    BY <1>5, <1>6, HopIs, ZenonT(60)
  <2> HIDE DEF hops
  <2> QED BY <1>1, <2>1
<1>8. Advance(t, base, beneath, Split(path, b + (n - 1)))
        = [at |-> UpTo(path, (b + (n - 1)) + 1), todo |-> SubSeq(path, (b + (n - 1)) + 2, Len(path)),
           ok |-> Is(t, UpTo(path, (b + (n - 1)) + 1), "dir") \/ (b + (n - 1)) + 1 = Len(path)]
  <2> DEFINE m == b + (n - 1)
  <2>1. ~Is(t, UpTo(path, m + 1), "link") /\ m \in 0..Len(path) /\ m < Len(path)
    BY <1>1
  <2> HIDE DEF m
  <2>2. Advance(t, base, beneath, Split(path, m))
          = [at |-> UpTo(path, m + 1), todo |-> SubSeq(path, m + 2, Len(path)),
             ok |-> Is(t, UpTo(path, m + 1), "dir") \/ m + 1 = Len(path)]
    BY <2>1, StraightStep, ZenonT(60)
  <2> QED BY <2>2, Zenon DEF m
<1> HIDE DEF hops
<1>9. hops[n] = Advance(t, base, beneath, Split(path, b + (n - 1)))
  BY <1>1, <1>4, <1>7
<1> QED BY <1>1, <1>8, <1>9 DEF hops

(* A lookup of a path with no link on it leads to it. *)
LEMMA StraightLookup ==
  ASSUME NEW t, WellFormed(t), NEW base \in Seq(Names), Is(t, base, "dir"),
         NEW path \in DOMAIN t, IsPrefix(base, path), ~Is(t, path, "link"),
         NEW beneath \in BOOLEAN, Len(path) <= Len(base) + MaxHops
  PROVE  PlaceOf(t, base, beneath, Suffix(path, base)) = path
<1> DEFINE hops == Hops(t, base, beneath, Suffix(path, base))
           b == Len(base)
           n == Len(path) - b
<1>1. path \in Seq(Names) /\ MaxHops \in Nat
  BY BoundsAssumption DEF WellFormed
<1>2. /\ Suffix(path, base) \in Seq(Names) /\ path = base \o Suffix(path, base)
      /\ Len(base) <= Len(path) /\ UpTo(path, Len(base)) = base
  BY <1>1, PrefixIs
<1>3. b \in Nat /\ n \in 0..MaxHops /\ b + n = Len(path) /\ Len(path) \in Nat
  BY <1>1, <1>2
<1>4. hops[n] = [at |-> path, todo |-> <<>>, ok |-> TRUE]
  <2>1. CASE n = 0
    <3>1. hops[0] = [at |-> base, todo |-> Suffix(path, base), ok |-> TRUE]
      <4>1. Suffix(path, base) \in Seq(Parts)
        BY <1>2 DEF Parts
      <4> QED BY <4>1, HopIs
    <3>2. path = base
      <4>1. Len(path) = Len(base)
        BY <1>3, <2>1
      <4> QED BY <1>1, <1>2, <4>1 DEF UpTo
    <3>3. Suffix(path, base) = <<>>
      <4>1. Len(path) + 1 > Len(path)
        BY <1>3
      <4> QED BY <1>1, <3>2, <4>1 DEF Suffix
    <3> QED BY <2>1, <3>1, <3>2, <3>3
  <2>2. CASE n # 0
    <3>1. n \in 1..MaxHops /\ b + n <= Len(path)
      BY <1>3, <2>2
    <3>2. UpTo(path, b + n) = path /\ SubSeq(path, b + n + 1, Len(path)) = <<>>
      <4>1. UpTo(path, Len(path)) = path /\ SubSeq(path, Len(path) + 1, Len(path)) = <<>>
        BY <1>1 DEF UpTo
      <4> QED BY <1>3, <4>1
    <3> HIDE DEF n
    <3>3. hops[n] = [at |-> UpTo(path, b + n), todo |-> SubSeq(path, b + n + 1, Len(path)),
                     ok |-> Is(t, UpTo(path, b + n), "dir") \/ b + n = Len(path)]
      BY <1>1, <3>1, <3>2, StraightEnd
    <3> QED BY <1>3, <3>2, <3>3
  <2> QED BY <2>1, <2>2
<1>5. hops[MaxHops] = hops[n]
  <2>1. hops[n].todo = <<>>
    BY <1>4
  <2>2. Suffix(path, base) \in Seq(Parts)
    BY <1>2 DEF Parts
  <2> HIDE DEF n
  <2> QED BY <1>3, <2>1, <2>2, HopsEnd
<1> QED BY <1>4, <1>5 DEF PlaceOf

(* A lookup gets at most one name deeper with each hop, and never stands   *)
(* on a link.                                                              *)
Near(t, base, s, i) == Len(s.at) <= Len(base) + i /\ (s.ok => ~Is(t, s.at, "link"))

LEMMA NearNext ==
  ASSUME NEW t, WellFormed(t), NEW base \in Seq(Names), Is(t, base, "dir"),
         NEW beneath \in BOOLEAN, NEW i \in Nat, NEW s \in Looked(t), Near(t, base, s, i)
  PROVE  Near(t, base, Advance(t, base, beneath, s), i + 1)
<1> DEFINE name == Head(s.todo)
           next == Append(s.at, name)
<1>0. SUFFICES ASSUME NEW after, after = Advance(t, base, beneath, s)
               PROVE  Near(t, base, after, i + 1)
  OBVIOUS
<1>1. /\ s.at \in Seq(Names) /\ s.todo \in Seq(Parts) /\ s.ok \in BOOLEAN
      /\ s = [at |-> s.at, todo |-> s.todo, ok |-> s.ok]
      /\ s.ok => Is(t, s.at, "dir") \/ (s.todo = <<>> /\ Is(t, Front(s.at), "dir"))
  BY LookedHas DEF Stands
<1>2. Len(s.at) \in Nat /\ Len(base) \in Nat /\ Len(s.at) <= Len(base) + i
  BY <1>1 DEF Near
<1>3. CASE ~s.ok \/ s.todo = <<>>
  <2>1. after = s
    BY <1>0, <1>3 DEF Advance
  <2> QED BY <1>2, <2>1 DEF Near
<1>4. CASE s.ok /\ s.todo # <<>>
  <2>1. Is(t, s.at, "dir") /\ name \in Parts
    BY <1>1, <1>4, HeadAndTail
  <2>2. CASE name = "."
    <3>1. after.at = s.at
      BY <1>0, <1>1, <1>4, <2>2 DEF Advance
    <3> QED BY <1>2, <2>1, <3>1 DEF Near, Is
  <2>3. CASE name = ".."
    <3>1. after = Up(base, beneath, s.at, Tail(s.todo))
      BY <1>0, <1>4, <2>3 DEF Advance
    <3>2. CASE s.at = base
      <4>1. after.at = base
        BY <3>1, <3>2 DEF Up
      <4> QED BY <1>2, <4>1 DEF Near, Is
    <3>3. CASE s.at # base
      <4>1. after.at = Front(s.at)
        BY <3>1, <3>3 DEF Up
      <4>2. Len(Front(s.at)) <= Len(s.at) /\ Is(t, Front(s.at), "dir")
        <5>1. CASE s.at = <<>>
          <6>1. Front(s.at) = s.at
            BY <1>1, <5>1, FrontIs
          <6> QED BY <1>2, <2>1, <6>1
        <5>2. CASE s.at # <<>>
          <6>1. Len(Front(s.at)) = Len(s.at) - 1
            BY <1>1, <5>2, FrontIs
          <6>2. Is(t, Front(s.at), "dir")
            BY <2>1, <5>2 DEF WellFormed, Is
          <6> QED BY <1>2, <6>1, <6>2
        <5> QED BY <5>1, <5>2
      <4>3. Len(Front(s.at)) \in Nat
        BY <1>1, FrontIs
      <4> QED BY <1>2, <4>1, <4>2, <4>3 DEF Near, Is
    <3> QED BY <3>2, <3>3
  <2>4. CASE name # "." /\ name # ".."
    <3>1. after = Enter(t, base, beneath, s.at, name, Tail(s.todo))
      BY <1>0, <1>4, <2>4 DEF Advance
    <3>2. name \in Names
      BY <2>1, <2>4 DEF Parts
    <3>3. Len(next) = Len(s.at) + 1
      BY <1>1, <3>2
    <3>4. CASE Is(t, next, "link")
      <4>1. after.at = IF t[next].to.abs THEN base ELSE s.at
        BY <3>1, <3>4 DEF Enter
      <4>2. after.at = base \/ after.at = s.at
        BY <4>1
      <4> QED BY <1>2, <2>1, <4>2 DEF Near, Is
    <3>5. CASE ~Is(t, next, "link")
      <4>1. after.at = next
        BY <3>1, <3>5 DEF Enter
      <4> HIDE DEF next
      <4> QED BY <1>2, <3>3, <3>5, <4>1 DEF Near
    <3> QED BY <3>4, <3>5
  <2> QED BY <2>2, <2>3, <2>4
<1> QED BY <1>3, <1>4

LEMMA HopsNear ==
  ASSUME NEW t, WellFormed(t), NEW base \in Seq(Names), Is(t, base, "dir"),
         NEW beneath \in BOOLEAN, NEW names \in Seq(Parts), NEW i \in 0..MaxHops
  PROVE  Near(t, base, Hops(t, base, beneath, names)[i], i)
<1> DEFINE hops == Hops(t, base, beneath, names)
           T == {k \in 0..MaxHops : Near(t, base, hops[k], k)}
<1>1. MaxHops \in Nat
  BY BoundsAssumption
<1>2. /\ hops[0] = [at |-> base, todo |-> names, ok |-> TRUE]
      /\ \A k \in 0..MaxHops : hops[k] \in Looked(t)
      /\ \A k \in 0..MaxHops : k < MaxHops => hops[k + 1] = Advance(t, base, beneath, hops[k])
  BY HopIs
<1> HIDE DEF hops
<1>3. 0 \in T /\ T \in SUBSET (0..MaxHops)
  <2>1. Near(t, base, hops[0], 0)
    BY <1>2 DEF Near, Is
  <2> QED BY <1>1, <2>1
<1>4. ASSUME NEW k \in 0..MaxHops, k \in T, k < MaxHops PROVE k + 1 \in T
  <2>1. k + 1 \in 0..MaxHops /\ k \in Nat
    BY <1>1, <1>4
  <2>2. hops[k] \in Looked(t) /\ Near(t, base, hops[k], k)
    BY <1>2, <1>4
  <2>3. Near(t, base, Advance(t, base, beneath, hops[k]), k + 1)
    BY <2>1, <2>2, NearNext
  <2> QED BY <1>2, <1>4, <2>1, <2>3
<1>5. T = 0..MaxHops
  <2>1. \A k \in 0..MaxHops : (k \in T /\ k < MaxHops) => k + 1 \in T
    BY <1>4
  <2> HIDE DEF T
  <2> QED BY <1>1, <1>3, <2>1, HandedOn, Zenon
<1>6. i \in T
  <2> HIDE DEF T
  <2> QED BY <1>5
<1> QED BY <1>6 DEF hops

(* A canonical path is no link, and near enough to be looked up itself. *)
LEMMA RealPathStraight ==
  ASSUME NEW t, WellFormed(t), NEW names \in Seq(Names), RealPath(t, names) # NoPath
  PROVE  LET place == RealPath(t, names)
         IN /\ place = Place(t, names) /\ place \in DOMAIN t /\ place \in Seq(Names)
            /\ ~Is(t, place, "link") /\ Len(place) <= MaxHops
            /\ Is(t, <<>>, "dir")
<1> DEFINE end == Hops(t, <<>>, FALSE, names)[MaxHops]
           place == RealPath(t, names)
<1>1. place = Place(t, names) /\ place \in DOMAIN t /\ place \in Seq(Names)
  BY RealPathIs DEF RealPath
<1>2. Is(t, <<>>, "dir") /\ end.ok /\ end.at = place
  <2>1. PlaceOf(t, <<>>, FALSE, names) # NoPath /\ PlaceOf(t, <<>>, FALSE, names) = place
    BY <1>1 DEF Place
  <2> HIDE DEF place
  <2> QED BY <2>1 DEF PlaceOf
<1>3. Near(t, <<>>, end, MaxHops)
  <2>1. <<>> \in Seq(Names) /\ names \in Seq(Parts) /\ MaxHops \in 0..MaxHops /\ FALSE \in BOOLEAN
    BY BoundsAssumption DEF Parts
  <2> HIDE DEF end
  <2> QED BY <1>2, <2>1, HopsNear DEF end
<1>4. Len(<<>>) + MaxHops = MaxHops
  BY BoundsAssumption
<1> QED BY <1>1, <1>2, <1>3, <1>4 DEF Near

-----------------------------------------------------------------------------
(***************************************************************************)
(* Two lookups that come by the same place.                                *)
(***************************************************************************)

(* A lookup beneath a directory goes on as one from the top, or fails.     *)
Agrees(beneath, s, r) == s = r \/ (beneath /\ ~s.ok)

LEMMA SameHop ==
  ASSUME NEW t, NEW base \in Seq(Names), NEW beneath \in BOOLEAN, beneath \/ base = <<>>,
         NEW s \in Looked(t)
  PROVE  Agrees(beneath, Advance(t, base, beneath, s), Advance(t, <<>>, FALSE, s))
<1> DEFINE name == Head(s.todo)
           next == Append(s.at, name)
<1>0. SUFFICES ASSUME beneath PROVE Agrees(TRUE, Advance(t, base, TRUE, s), Advance(t, <<>>, FALSE, s))
  <2>1. CASE beneath
    BY <2>1
  <2>2. CASE ~beneath
    <3>1. beneath = FALSE /\ base = <<>>
      BY <2>2
    <3> QED BY <3>1 DEF Agrees
  <2> QED BY <2>1, <2>2
<1>1. s.at \in Seq(Names)
  BY LookedHas
<1>2. CASE ~s.ok \/ s.todo = <<>>
  BY <1>2 DEF Advance, Agrees
<1>3. CASE s.ok /\ s.todo # <<>> /\ name = "."
  BY <1>3 DEF Advance, Agrees
<1>4. CASE s.ok /\ s.todo # <<>> /\ name = ".."
  <2>1. /\ Advance(t, base, TRUE, s) = Up(base, TRUE, s.at, Tail(s.todo))
        /\ Advance(t, <<>>, FALSE, s) = Up(<<>>, FALSE, s.at, Tail(s.todo))
    BY <1>4 DEF Advance
  <2>2. CASE s.at = base
    <3>1. ~Up(base, TRUE, s.at, Tail(s.todo)).ok
      BY <2>2 DEF Up
    <3> QED BY <2>1, <3>1 DEF Agrees
  <2>3. CASE s.at # base
    <3>1. Up(base, TRUE, s.at, Tail(s.todo))
            = [at |-> Front(s.at), todo |-> Tail(s.todo), ok |-> TRUE]
      BY <2>3 DEF Up
    <3>2. Up(<<>>, FALSE, s.at, Tail(s.todo))
            = [at |-> Front(s.at), todo |-> Tail(s.todo), ok |-> TRUE]
      <4>1. s.at = <<>> => Front(s.at) = s.at
        BY <1>1, FrontIs
      <4> QED BY <4>1 DEF Up
    <3> QED BY <2>1, <3>1, <3>2 DEF Agrees
  <2> QED BY <2>2, <2>3
<1>5. CASE s.ok /\ s.todo # <<>> /\ name # "." /\ name # ".."
  <2>1. /\ Advance(t, base, TRUE, s) = Enter(t, base, TRUE, s.at, name, Tail(s.todo))
        /\ Advance(t, <<>>, FALSE, s) = Enter(t, <<>>, FALSE, s.at, name, Tail(s.todo))
    BY <1>5 DEF Advance
  <2>2. CASE Is(t, next, "link") /\ t[next].to.abs
    <3>1. ~Enter(t, base, TRUE, s.at, name, Tail(s.todo)).ok
      BY <2>2 DEF Enter
    <3> QED BY <2>1, <3>1 DEF Agrees
  <2>3. CASE Is(t, next, "link") /\ ~t[next].to.abs
    <3>1. Enter(t, base, TRUE, s.at, name, Tail(s.todo))
            = Enter(t, <<>>, FALSE, s.at, name, Tail(s.todo))
      BY <2>3 DEF Enter
    <3> QED BY <2>1, <3>1 DEF Agrees
  <2>4. CASE ~Is(t, next, "link")
    <3>1. Enter(t, base, TRUE, s.at, name, Tail(s.todo))
            = Enter(t, <<>>, FALSE, s.at, name, Tail(s.todo))
      BY <2>4 DEF Enter
    <3> QED BY <2>1, <3>1 DEF Agrees
  <2> QED BY <2>2, <2>3, <2>4
<1> QED BY <1>2, <1>3, <1>4, <1>5

LEMMA TopHopIs ==
  ASSUME NEW t, WellFormed(t), Is(t, <<>>, "dir"), NEW names \in Seq(Parts)
  PROVE  LET hops == Hops(t, <<>>, FALSE, names)
         IN /\ hops[0] = [at |-> <<>>, todo |-> names, ok |-> TRUE]
            /\ \A i \in 0..MaxHops : hops[i] \in Looked(t)
            /\ \A i \in 0..MaxHops : i < MaxHops =>
                 hops[i + 1] = Advance(t, <<>>, FALSE, hops[i])
<1> DEFINE base == <<>>
<1>1. base \in Seq(Names) /\ Is(t, base, "dir") /\ FALSE \in BOOLEAN
  OBVIOUS
<1> HIDE DEF base
<1>2. LET hops == Hops(t, base, FALSE, names)
      IN /\ hops[0] = [at |-> base, todo |-> names, ok |-> TRUE]
         /\ \A i \in 0..MaxHops : hops[i] \in Looked(t)
         /\ \A i \in 0..MaxHops : i < MaxHops =>
              hops[i + 1] = Advance(t, base, FALSE, hops[i])
  BY <1>1, HopIs, Zenon
<1> QED BY <1>2, Zenon DEF base

(* Of two lookups that come by the same place, the one that comes there    *)
(* first ends where the other one does.                                    *)
LEMMA Follows ==
  ASSUME NEW t, WellFormed(t), Is(t, <<>>, "dir"),
         NEW base \in Seq(Names), Is(t, base, "dir"),
         NEW beneath \in BOOLEAN, beneath \/ base = <<>>,
         NEW names \in Seq(Parts), NEW rel \in Seq(Parts),
         NEW i \in 0..MaxHops, NEW j \in 0..i,
         Hops(t, base, beneath, rel)[j] = Hops(t, <<>>, FALSE, names)[i],
         LET end == Hops(t, <<>>, FALSE, names)[MaxHops] IN ~end.ok \/ end.todo = <<>>
  PROVE  Agrees(beneath, Hops(t, base, beneath, rel)[MaxHops],
                Hops(t, <<>>, FALSE, names)[MaxHops])
<1> DEFINE N == Hops(t, <<>>, FALSE, names)
           L == Hops(t, base, beneath, rel)
           n == MaxHops - i
           T == {k \in 0..n : Agrees(beneath, L[j + k], N[i + k])}
<1>1. MaxHops \in Nat /\ n \in Nat /\ i + n = MaxHops /\ i \in Nat /\ j \in Nat /\ j <= i
  BY BoundsAssumption
<1>2. /\ \A k \in 0..MaxHops : N[k] \in Looked(t)
      /\ \A k \in 0..MaxHops : k < MaxHops => N[k + 1] = Advance(t, <<>>, FALSE, N[k])
  BY TopHopIs, Zenon
<1>3. /\ \A k \in 0..MaxHops : L[k] \in Looked(t)
      /\ \A k \in 0..MaxHops : k < MaxHops => L[k + 1] = Advance(t, base, beneath, L[k])
  <2>1. LET hops == Hops(t, base, beneath, rel)
        IN /\ hops[0] = [at |-> base, todo |-> rel, ok |-> TRUE]
           /\ \A k \in 0..MaxHops : hops[k] \in Looked(t)
           /\ \A k \in 0..MaxHops : k < MaxHops =>
                hops[k + 1] = Advance(t, base, beneath, hops[k])
    BY HopIs
  <2> QED BY <2>1
<1>4. L[j] = N[i] /\ (~N[MaxHops].ok \/ N[MaxHops].todo = <<>>)
  OBVIOUS
<1> HIDE DEF N, L, n
<1>5. 0 \in T /\ T \in SUBSET (0..n)
  <2>1. Agrees(beneath, L[j + 0], N[i + 0])
    BY <1>1, <1>4 DEF Agrees
  <2> QED BY <1>1, <2>1
<1>6. ASSUME NEW k \in 0..n, k \in T, k < n PROVE k + 1 \in T
  <2>1. /\ j + k \in 0..MaxHops /\ j + k < MaxHops /\ i + k \in 0..MaxHops /\ i + k < MaxHops
        /\ (j + k) + 1 = j + (k + 1) /\ (i + k) + 1 = i + (k + 1) /\ k + 1 \in 0..n
    <3>1. k \in Nat /\ k < n /\ i + k < i + n
      BY <1>1, <1>6
    <3>2. i + k < MaxHops /\ j + k <= i + k
      BY <1>1, <3>1
    <3>3. j + k < MaxHops
      BY <1>1, <3>1, <3>2
    <3> QED BY <1>1, <3>1, <3>2, <3>3
  <2>2. L[j + (k + 1)] = Advance(t, base, beneath, L[j + k])
    BY <1>3, <2>1
  <2>3. N[i + (k + 1)] = Advance(t, <<>>, FALSE, N[i + k])
    BY <1>2, <2>1
  <2>4. CASE L[j + k] = N[i + k]
    <3>1. L[j + k] \in Looked(t)
      BY <1>3, <2>1
    <3>2. Agrees(beneath, Advance(t, base, beneath, L[j + k]), Advance(t, <<>>, FALSE, L[j + k]))
      BY <3>1, SameHop
    <3> QED BY <2>1, <2>2, <2>3, <2>4, <3>2
  <2>5. CASE beneath /\ ~L[j + k].ok
    <3>1. L[j + (k + 1)] = L[j + k]
      BY <2>2, <2>5 DEF Advance
    <3> QED BY <2>1, <2>5, <3>1 DEF Agrees
  <2> QED BY <1>6, <2>4, <2>5 DEF Agrees
<1>7. T = 0..n
  <2>1. \A k \in 0..n : (k \in T /\ k < n) => k + 1 \in T
    BY <1>6
  <2> HIDE DEF T
  <2> QED BY <1>1, <1>5, <2>1, HandedOn, Zenon
<1>8. Agrees(beneath, L[j + n], N[MaxHops])
  <2>1. n \in T
    <3> HIDE DEF T
    <3> QED BY <1>1, <1>7
  <2> QED BY <1>1, <2>1
<1>9. L[MaxHops] = L[j + n]
  <2>1. j + n \in 0..MaxHops
    BY <1>1
  <2>2. ~L[j + n].ok \/ L[j + n].todo = <<>>
    BY <1>4, <1>8 DEF Agrees
  <2> QED BY <2>1, <2>2, HopsEnd DEF L
<1> QED BY <1>8, <1>9 DEF L, N

LEMMA JoinAppend ==
  ASSUME NEW S, NEW a \in Seq(S), NEW b \in Seq(S), NEW x \in S
  PROVE  a \o Append(b, x) = Append(a \o b, x)
OBVIOUS

LEMMA AppendIs ==
  ASSUME NEW S, NEW a \in Seq(S), a # <<>>, NEW x \in S
  PROVE  /\ Append(a, x) # <<>> /\ Head(Append(a, x)) = Head(a)
         /\ Tail(Append(a, x)) = Append(Tail(a), x) /\ Append(Tail(a), x) # <<>>
OBVIOUS

LEMMA StateHas ==
  ASSUME NEW at, NEW todo, NEW ok, NEW s, s = [at |-> at, todo |-> todo, ok |-> ok]
  PROVE  s.at = at /\ s.todo = todo /\ s.ok = ok
OBVIOUS

(* One more name behind those a lookup goes through. *)
LEMMA OneMoreName ==
  ASSUME NEW t, WellFormed(t), Is(t, <<>>, "dir"), NEW x \in Names,
         NEW s \in Looked(t), s.ok, s.todo # <<>>, Advance(t, <<>>, FALSE, s).ok
  PROVE  LET after == Advance(t, <<>>, FALSE, s)
         IN Advance(t, <<>>, FALSE, [at |-> s.at, todo |-> Append(s.todo, x), ok |-> TRUE])
              = [at |-> after.at, todo |-> Append(after.todo, x),
                 ok |-> after.todo # <<>> \/ Is(t, after.at, "dir")]
<1> DEFINE name == Head(s.todo)
           rest == Tail(s.todo)
           next == Append(s.at, name)
           after == Advance(t, <<>>, FALSE, s)
           Goes(ok, r) == r = [at |-> after.at, todo |-> Append(after.todo, x), ok |-> ok]
<1>0. SUFFICES ASSUME NEW longer,
                      longer = [at |-> s.at, todo |-> Append(s.todo, x), ok |-> TRUE]
               PROVE  Goes(after.todo # <<>> \/ Is(t, after.at, "dir"), Advance(t, <<>>, FALSE, longer))
  OBVIOUS
<1>1. s.at \in Seq(Names) /\ s.todo \in Seq(Parts) /\ Is(t, s.at, "dir")
  BY LookedHas DEF Stands
<1>2. rest \in Seq(Parts) /\ name \in Parts /\ x \in Parts
  BY <1>1, HeadAndTail DEF Parts
<1>3. /\ longer.at = s.at /\ longer.todo = Append(s.todo, x) /\ longer.ok
      /\ longer.todo # <<>> /\ Head(longer.todo) = name
      /\ Tail(longer.todo) = Append(rest, x) /\ Append(rest, x) # <<>>
  <2>1. /\ Append(s.todo, x) # <<>> /\ Head(Append(s.todo, x)) = name
        /\ Tail(Append(s.todo, x)) = Append(rest, x) /\ Append(rest, x) # <<>>
    BY <1>1, <1>2, AppendIs, Zenon
  <2>2. longer.at = s.at /\ longer.todo = Append(s.todo, x) /\ longer.ok = TRUE
    BY <1>0, StateHas
  <2> QED BY <2>1, <2>2, Zenon
<1>a. after = Advance(t, <<>>, FALSE, s) /\ after.ok
  OBVIOUS
<1> HIDE DEF rest, after
<1>4. ASSUME Goes(TRUE, Advance(t, <<>>, FALSE, longer)), Is(t, after.at, "dir")
      PROVE  Goes(after.todo # <<>> \/ Is(t, after.at, "dir"), Advance(t, <<>>, FALSE, longer))
  <2>1. (after.todo # <<>> \/ Is(t, after.at, "dir")) = TRUE
    BY <1>4
  <2> HIDE DEF Goes
  <2> QED BY <1>4, <2>1
<1>5. CASE name = "."
  <2>1. after = [at |-> s.at, todo |-> rest, ok |-> TRUE]
    <3>1. after = [s EXCEPT !.todo = rest]
      BY <1>a, <1>5 DEF Advance, rest
    <3>2. s = [at |-> s.at, todo |-> s.todo, ok |-> TRUE]
      BY LookedHas
    <3> QED BY <3>1, <3>2
  <2>2. Advance(t, <<>>, FALSE, longer) = [at |-> s.at, todo |-> Append(rest, x), ok |-> TRUE]
    BY <1>0, <1>3, <1>5 DEF Advance
  <2>3. Goes(TRUE, Advance(t, <<>>, FALSE, longer)) /\ after.at = s.at
    <3>1. after.at = s.at /\ after.todo = rest
      BY <2>1, StateHas
    <3> QED BY <2>2, <3>1, Zenon
  <2> QED BY <1>1, <1>4, <2>3
<1>6. CASE name = ".."
  <2>1. /\ after = Up(<<>>, FALSE, s.at, rest)
        /\ Advance(t, <<>>, FALSE, longer) = Up(<<>>, FALSE, s.at, Append(rest, x))
    BY <1>a, <1>3, <1>6 DEF Advance, rest
  <2> DEFINE up == IF s.at = <<>> THEN s.at ELSE Front(s.at)
  <2>2. Is(t, up, "dir")
    BY <1>1 DEF WellFormed, Is
  <2>3. /\ after = [at |-> up, todo |-> rest, ok |-> TRUE]
        /\ Up(<<>>, FALSE, s.at, Append(rest, x)) = [at |-> up, todo |-> Append(rest, x), ok |-> TRUE]
    BY <2>1 DEF Up
  <2> HIDE DEF up
  <2>4. Goes(TRUE, Advance(t, <<>>, FALSE, longer)) /\ after.at = up
    <3>1. after.at = up /\ after.todo = rest
      BY <2>3, StateHas
    <3> QED BY <2>1, <2>3, <3>1, Zenon
  <2> QED BY <1>4, <2>2, <2>4
<1>7. CASE name # "." /\ name # ".."
  <2>1. /\ after = Enter(t, <<>>, FALSE, s.at, name, rest)
        /\ Advance(t, <<>>, FALSE, longer) = Enter(t, <<>>, FALSE, s.at, name, Append(rest, x))
    BY <1>a, <1>3, <1>7 DEF Advance, rest
  <2>2. CASE Is(t, next, "link")
    <3> DEFINE to == t[next].to
               at == IF to.abs THEN <<>> ELSE s.at
    <3>1. to.names \in Seq(Parts)
      <4>1. to \in Named
        BY <2>2 DEF WellFormed, IsNode, Is
      <4> QED BY <4>1, PathsHaveNames
    <3>2. Is(t, at, "dir")
      BY <1>1
    <3>3. /\ after = [at |-> at, todo |-> to.names \o rest, ok |-> TRUE]
          /\ Enter(t, <<>>, FALSE, s.at, name, Append(rest, x))
               = [at |-> at, todo |-> to.names \o Append(rest, x), ok |-> TRUE]
      BY <2>1, <2>2 DEF Enter
    <3> HIDE DEF to, at
    <3>4. to.names \o Append(rest, x) = Append(to.names \o rest, x)
      <4> DEFINE there == to.names
      <4>1. there \in Seq(Parts)
        BY <3>1
      <4> HIDE DEF there
      <4>2. there \o Append(rest, x) = Append(there \o rest, x)
        BY <1>2, <4>1, JoinAppend
      <4> QED BY <4>2 DEF there
    <3>5. Goes(TRUE, Advance(t, <<>>, FALSE, longer)) /\ after.at = at
      <4>1. after.at = at /\ after.todo = to.names \o rest
        BY <3>3, StateHas
      <4> QED BY <2>1, <3>3, <3>4, <4>1, Zenon
    <3> QED BY <1>4, <3>2, <3>5
  <2>3. CASE ~Is(t, next, "link")
    <3> DEFINE isDir == Is(t, next, "dir")
    <3>1. /\ after = [at |-> next, todo |-> rest, ok |-> isDir \/ rest = <<>>]
          /\ Enter(t, <<>>, FALSE, s.at, name, Append(rest, x))
               = [at |-> next, todo |-> Append(rest, x), ok |-> isDir \/ Append(rest, x) = <<>>]
      BY <2>1, <2>3 DEF Enter
    <3>0. isDir \in BOOLEAN
      BY DEF Is
    <3> HIDE DEF next, isDir
    <3>2. isDir \/ rest = <<>>
      <4>1. after.ok = (isDir \/ rest = <<>>)
        BY <3>1, StateHas
      <4> QED BY <1>a, <4>1
    <3>3. (isDir \/ Append(rest, x) = <<>>) = (rest # <<>> \/ isDir)
      BY <1>3, <3>2
    <3>4. after.at = next /\ after.todo = rest
      BY <3>1, StateHas
    <3>5. Advance(t, <<>>, FALSE, longer)
            = [at |-> after.at, todo |-> Append(after.todo, x), ok |-> rest # <<>> \/ isDir]
      BY <2>1, <3>1, <3>3, <3>4
    <3>6. Goes(rest # <<>> \/ isDir, Advance(t, <<>>, FALSE, longer))
      BY <3>5
    <3> HIDE DEF Goes
    <3> QED BY <3>4, <3>6 DEF isDir
  <2> QED BY <2>2, <2>3
<1> QED BY <1>5, <1>6, <1>7

(* A lookup that has come to a parent and has one name to go. *)
BeforeLast(t, parent, x) == [at |-> parent, todo |-> <<x>>, ok |-> Is(t, parent, "dir")]

LEMMA ThroughParent ==
  ASSUME NEW t, WellFormed(t), NEW names \in Seq(Names), names # <<>>,
         RealPath(t, Front(names)) # NoPath
  PROVE  \E i \in 0..MaxHops :
           /\ Len(RealPath(t, Front(names))) <= i
           /\ Hops(t, <<>>, FALSE, names)[i]
                = BeforeLast(t, RealPath(t, Front(names)), Last(names))
<1> DEFINE x == Last(names)
           P == RealPath(t, Front(names))
           F == Hops(t, <<>>, FALSE, Front(names))
           N == Hops(t, <<>>, FALSE, names)
           There(k) == IF F[k].todo = <<>> THEN \E i \in 0..k : N[i] = BeforeLast(t, P, x)
                       ELSE N[k] = [at |-> F[k].at, todo |-> Append(F[k].todo, x), ok |-> TRUE]
           T == {k \in 0..MaxHops : There(k)}
<1>1. /\ Front(names) \in Seq(Names) /\ x \in Names /\ names = Append(Front(names), x)
      /\ MaxHops \in Nat
  BY FrontIs, BoundsAssumption
<1>2. Front(names) \in Seq(Parts) /\ names \in Seq(Parts)
  BY <1>1 DEF Parts
<1>3. Is(t, <<>>, "dir") /\ P = Place(t, Front(names))
  BY <1>1, RealPathStraight
<1>4. /\ F[0] = [at |-> <<>>, todo |-> Front(names), ok |-> TRUE]
      /\ \A i \in 0..MaxHops : F[i] \in Looked(t)
      /\ \A i \in 0..MaxHops : i < MaxHops => F[i + 1] = Advance(t, <<>>, FALSE, F[i])
  BY <1>2, <1>3, TopHopIs, Zenon
<1>5. /\ N[0] = [at |-> <<>>, todo |-> names, ok |-> TRUE]
      /\ \A i \in 0..MaxHops : i < MaxHops => N[i + 1] = Advance(t, <<>>, FALSE, N[i])
  BY <1>2, <1>3, TopHopIs, Zenon
<1>6. F[MaxHops].ok /\ F[MaxHops].todo = <<>> /\ F[MaxHops].at = P
  <2>1. PlaceOf(t, <<>>, FALSE, Front(names)) # NoPath /\ PlaceOf(t, <<>>, FALSE, Front(names)) = P
    BY <1>3 DEF Place
  <2> HIDE DEF P
  <2> QED BY <2>1 DEF PlaceOf
<1>7. ASSUME NEW k \in 0..MaxHops, ~F[k].ok \/ F[k].todo = <<>>
      PROVE  F[MaxHops] = F[k]
  <2> DEFINE base == <<>>
  <2>1. base \in Seq(Names) /\ Is(t, base, "dir") /\ FALSE \in BOOLEAN
    BY <1>3
  <2>2. ~Hops(t, base, FALSE, Front(names))[k].ok \/ Hops(t, base, FALSE, Front(names))[k].todo = <<>>
    BY <1>7
  <2> HIDE DEF base
  <2>3. Hops(t, base, FALSE, Front(names))[MaxHops] = Hops(t, base, FALSE, Front(names))[k]
    BY <1>2, <2>1, <2>2, HopsEnd, Zenon
  <2> QED BY <2>3 DEF base
<1> HIDE DEF F, N, P, x
<1>8. 0 \in T /\ T \in SUBSET (0..MaxHops)
  <2>1. CASE Front(names) = <<>>
    <3>1. F[MaxHops] = F[0] /\ F[0].todo = <<>>
      BY <1>1, <1>4, <1>7, <2>1
    <3>2. P = <<>> /\ names = <<x>>
      BY <1>1, <1>4, <1>6, <2>1, <3>1
    <3>3. N[0] = BeforeLast(t, P, x)
      BY <1>3, <1>5, <3>2 DEF BeforeLast
    <3> QED BY <1>1, <3>1, <3>3
  <2>2. CASE Front(names) # <<>>
    <3>1. F[0].todo # <<>> /\ F[0].at = <<>> /\ Append(F[0].todo, x) = names
      BY <1>1, <1>4, <2>2
    <3>2. N[0] = [at |-> F[0].at, todo |-> Append(F[0].todo, x), ok |-> TRUE]
      BY <1>5, <3>1
    <3>3. There(0)
      BY <3>1, <3>2
    <3> HIDE DEF There
    <3> QED BY <1>1, <3>3
  <2> QED BY <2>1, <2>2
<1>9. ASSUME NEW k \in 0..MaxHops, k \in T, k < MaxHops PROVE k + 1 \in T
  <2>1. k + 1 \in 0..MaxHops /\ k \in Nat
    BY <1>1, <1>9
  <2>2. F[k + 1] = Advance(t, <<>>, FALSE, F[k]) /\ N[k + 1] = Advance(t, <<>>, FALSE, N[k])
    BY <1>4, <1>5, <1>9
  <2>3. CASE F[k].todo = <<>>
    <3>1. F[k + 1] = F[k]
      BY <2>2, <2>3 DEF Advance
    <3>2. PICK i \in 0..k : N[i] = BeforeLast(t, P, x)
      BY <1>9, <2>3
    <3>3. i \in 0..k + 1
      BY <2>1
    <3> QED BY <2>1, <2>3, <3>1, <3>2, <3>3
  <2>4. CASE F[k].todo # <<>>
    <3>1. F[k] \in Looked(t) /\ F[k].ok /\ F[k + 1].ok
      <4>1. F[k] \in Looked(t)
        BY <1>4
      <4>2. F[k].ok
        BY <1>6, <1>7
      <4>3. F[k + 1].ok
        BY <1>6, <1>7, <2>1
      <4> QED BY <4>1, <4>2, <4>3
    <3>2. N[k] = [at |-> F[k].at, todo |-> Append(F[k].todo, x), ok |-> TRUE]
      BY <1>9, <2>4
    <3>3. N[k + 1] = [at |-> F[k + 1].at, todo |-> Append(F[k + 1].todo, x),
                      ok |-> F[k + 1].todo # <<>> \/ Is(t, F[k + 1].at, "dir")]
      <4>1. x \in Names
        BY <1>1
      <4>2. Advance(t, <<>>, FALSE, [at |-> F[k].at, todo |-> Append(F[k].todo, x), ok |-> TRUE])
              = [at |-> F[k + 1].at, todo |-> Append(F[k + 1].todo, x),
                 ok |-> F[k + 1].todo # <<>> \/ Is(t, F[k + 1].at, "dir")]
        <5> DEFINE s == F[k]
        <5>1. s \in Looked(t) /\ s.ok /\ s.todo # <<>>
          BY <2>4, <3>1
        <5>2. F[k + 1] = Advance(t, <<>>, FALSE, s)
          BY <2>2
        <5> HIDE DEF s
        <5>3. Advance(t, <<>>, FALSE, s).ok
          BY <3>1, <5>2
        <5>4. LET after == Advance(t, <<>>, FALSE, s)
              IN Advance(t, <<>>, FALSE, [at |-> s.at, todo |-> Append(s.todo, x), ok |-> TRUE])
                   = [at |-> after.at, todo |-> Append(after.todo, x),
                      ok |-> after.todo # <<>> \/ Is(t, after.at, "dir")]
          BY <1>3, <4>1, <5>1, <5>3, OneMoreName, Zenon
        <5> QED BY <5>2, <5>4, Zenon DEF s
      <4> QED BY <2>2, <3>2, <4>2, Zenon
    <3>4. CASE F[k + 1].todo # <<>>
      <4>1. N[k + 1] = [at |-> F[k + 1].at, todo |-> Append(F[k + 1].todo, x), ok |-> TRUE]
        BY <3>3, <3>4
      <4> QED BY <2>1, <3>4, <4>1
    <3>5. CASE F[k + 1].todo = <<>>
      <4>1. F[k + 1].at = P
        BY <1>6, <1>7, <2>1, <3>5
      <4>2. N[k + 1] = BeforeLast(t, P, x)
        <5>1. (F[k + 1].todo # <<>> \/ Is(t, F[k + 1].at, "dir")) = Is(t, P, "dir")
          BY <3>5, <4>1 DEF Is
        <5>2. Append(F[k + 1].todo, x) = <<x>>
          BY <1>1, <3>5
        <5> QED BY <3>3, <4>1, <5>1, <5>2 DEF BeforeLast
      <4>3. k + 1 \in 0..k + 1
        BY <2>1
      <4> QED BY <2>1, <3>5, <4>2, <4>3
    <3> QED BY <3>4, <3>5
  <2> QED BY <2>3, <2>4
<1>10. T = 0..MaxHops
  <2>1. \A k \in 0..MaxHops : (k \in T /\ k < MaxHops) => k + 1 \in T
    BY <1>9
  <2> HIDE DEF T
  <2> QED BY <1>1, <1>8, <2>1, HandedOn, Zenon
<1>11. PICK i \in 0..MaxHops : N[i] = BeforeLast(t, P, x)
  <2>1. MaxHops \in T
    <3> HIDE DEF T
    <3> QED BY <1>1, <1>10
  <2> QED BY <1>6, <2>1
<1>12. Len(P) <= i
  <2> DEFINE base == <<>>
  <2>1. base \in Seq(Names) /\ Is(t, base, "dir") /\ FALSE \in BOOLEAN /\ Len(base) + i = i
    BY <1>3
  <2> HIDE DEF base
  <2>2. Near(t, base, Hops(t, base, FALSE, names)[i], i)
    BY <1>2, <2>1, HopsNear
  <2>3. Near(t, base, N[i], i)
    BY <2>2 DEF base, N
  <2> QED BY <1>11, <2>1, <2>3 DEF Near, BeforeLast
<1> QED BY <1>11, <1>12 DEF N, P, x

(* The lookup is not cut by MaxHops. *)
Complete(t, names) ==
  LET end == Hops(t, <<>>, FALSE, names)[MaxHops] IN end.ok => end.todo = <<>>

(* A lookup that comes by a place of another one leads where that one      *)
(* does, or, beneath a directory, nowhere.                                 *)
LEMMA SamePlace ==
  ASSUME NEW t, WellFormed(t), Is(t, <<>>, "dir"),
         NEW base \in Seq(Names), Is(t, base, "dir"),
         NEW beneath \in BOOLEAN, beneath \/ base = <<>>,
         NEW names \in Seq(Parts), NEW rel \in Seq(Parts),
         NEW i \in 0..MaxHops, NEW j \in 0..i,
         Hops(t, base, beneath, rel)[j] = Hops(t, <<>>, FALSE, names)[i],
         Complete(t, names)
  PROVE  /\ PlaceOf(t, base, beneath, rel) \in {Place(t, names), NoPath}
         /\ ~beneath => PlaceOf(t, base, beneath, rel) = Place(t, names)
<1> DEFINE end == Hops(t, base, beneath, rel)[MaxHops]
           there == Hops(t, <<>>, FALSE, names)[MaxHops]
<1>1. ~there.ok \/ there.todo = <<>>
  <2>1. there.ok => there.todo = <<>>
    BY DEF Complete
  <2> QED BY <2>1, Zenon
<1>2. Agrees(beneath, end, there)
  BY <1>1, Follows
<1>3. /\ PlaceOf(t, base, beneath, rel) = IF end.ok /\ end.todo = <<>> THEN end.at ELSE NoPath
      /\ Place(t, names) = IF there.ok /\ there.todo = <<>> THEN there.at ELSE NoPath
  BY DEF PlaceOf, Place
<1> HIDE DEF end, there
<1> QED BY <1>2, <1>3 DEF Agrees

LEMMA LastIs ==
  ASSUME NEW S, NEW a \in Seq(S), NEW x \in S
  PROVE  Suffix(Append(a, x), a) = <<x>>
<1> DEFINE path == Append(a, x)
           s == SubSeq(path, Len(a) + 1, Len(path))
<1>1. Len(a) \in Nat /\ path \in Seq(S) /\ Len(path) = Len(a) + 1 /\ path[Len(a) + 1] = x
  OBVIOUS
<1>2. s \in Seq(S) /\ Len(s) = 1 /\ s[1] = x
  <2> HIDE DEF path
  <2> QED BY <1>1
<1>3. <<x>> \in Seq(S) /\ Len(<<x>>) = 1 /\ <<x>>[1] = x
  OBVIOUS
<1>4. s = <<x>>
  <2> HIDE DEF s
  <2>1. \A i \in 1..Len(s) : s[i] = <<x>>[i]
    BY <1>2
  <2> QED BY <1>2, <1>3, <2>1, SameSeq
<1> QED BY <1>4 DEF Suffix

(* The lookup of a name below a canonical path comes by that path.         *)
LEMMA ToLast ==
  ASSUME NEW t, WellFormed(t), NEW base \in Seq(Names), Is(t, base, "dir"),
         NEW beneath \in BOOLEAN, NEW x \in Names,
         NEW parent \in DOMAIN t, ~Is(t, parent, "link"), Len(parent) <= MaxHops,
         IsPrefix(base, parent)
  PROVE  /\ Len(parent) - Len(base) \in 0..Len(parent)
         /\ Hops(t, base, beneath, Suffix(Append(parent, x), base))[Len(parent) - Len(base)]
              = BeforeLast(t, parent, x)
<1> DEFINE path == Append(parent, x)
           rel == Suffix(path, base)
           n == Len(parent) - Len(base)
<1>1. parent \in Seq(Names) /\ path \in Seq(Names) /\ Len(path) = Len(parent) + 1
  BY DEF WellFormed
<1>2. IsPrefix(parent, path) /\ IsPrefix(base, path)
  <2>1. Front(path) = parent
    BY <1>1, FrontOfAppend
  <2>2. IsPrefix(parent, path)
    BY <1>1, <2>1, FrontIsPrefix
  <2> QED BY <1>1, <2>2, PrefixOfPrefix
<1>3. /\ rel \in Seq(Names) /\ path = base \o rel /\ UpTo(path, Len(parent)) = parent
      /\ Suffix(path, parent) = <<x>>
      /\ Len(base) <= Len(parent) /\ UpTo(parent, Len(base)) = base
  <2>1. rel \in Seq(Names) /\ path = base \o rel
    BY <1>1, <1>2, PrefixIs
  <2>2. UpTo(path, Len(parent)) = parent
    BY <1>1, <1>2, PrefixIs
  <2>3. Len(base) <= Len(parent) /\ UpTo(parent, Len(base)) = base
    BY <1>1, PrefixIs
  <2>4. Suffix(path, parent) = <<x>>
    BY <1>1, LastIs
  <2> QED BY <2>1, <2>2, <2>3, <2>4
<1>4. /\ Len(base) \in Nat /\ Len(parent) \in Nat /\ n \in 0..Len(parent) /\ n <= MaxHops
      /\ Len(base) + n = Len(parent) /\ MaxHops \in Nat
  BY <1>1, <1>3, BoundsAssumption
<1>5. SubSeq(path, Len(parent) + 1, Len(path)) = <<x>>
  BY <1>3 DEF Suffix
<1>6. CASE n = 0
  <2>1. parent = base
    <3>1. Len(base) = Len(parent)
      BY <1>4, <1>6
    <3> QED BY <1>1, <1>3, <3>1 DEF UpTo
  <2>2. rel \in Seq(Parts)
    BY <1>3 DEF Parts
  <2>3. Hops(t, base, beneath, rel)[0] = [at |-> base, todo |-> rel, ok |-> TRUE]
    BY <2>2, HopIs
  <2>4. BeforeLast(t, parent, x) = [at |-> base, todo |-> rel, ok |-> TRUE]
    <3>1. rel = <<x>>
      BY <1>3, <2>1
    <3>2. Is(t, parent, "dir") = TRUE
      BY <2>1 DEF Is
    <3> QED BY <2>1, <3>1, <3>2 DEF BeforeLast
  <2> HIDE DEF rel, n, path
  <2>5. Hops(t, base, beneath, rel)[n] = BeforeLast(t, parent, x)
    BY <1>6, <2>3, <2>4
  <2> QED BY <1>4, <2>5 DEF rel, n, path
<1>7. CASE n # 0
  <2> HIDE DEF n, path
  <2>1. n \in 1..MaxHops /\ Len(base) + n <= Len(path)
    BY <1>1, <1>4, <1>7
  <2>2. UpTo(path, Len(base) + n) \in DOMAIN t /\ ~Is(t, UpTo(path, Len(base) + n), "link")
    BY <1>3, <1>4
  <2>3. Hops(t, base, beneath, rel)[n]
          = [at |-> UpTo(path, Len(base) + n), todo |-> SubSeq(path, Len(base) + n + 1, Len(path)),
             ok |-> Is(t, UpTo(path, Len(base) + n), "dir") \/ Len(base) + n = Len(path)]
    BY <1>1, <1>2, <2>1, <2>2, StraightEnd, SMTT(60)
  <2>4. (Is(t, parent, "dir") \/ Len(parent) = Len(path)) = Is(t, parent, "dir")
    <3>1. Len(parent) # Len(path)
      BY <1>1, <1>4
    <3> QED BY <3>1 DEF Is
  <2>5. Hops(t, base, beneath, rel)[n] = BeforeLast(t, parent, x)
    BY <1>3, <1>4, <1>5, <2>3, <2>4 DEF BeforeLast
  <2> QED BY <1>4, <2>5 DEF n, path
<1> QED BY <1>6, <1>7

LEMMA WholeSuffix ==
  ASSUME NEW S, NEW path \in Seq(S)
  PROVE  Suffix(path, <<>>) = path /\ IsPrefix(<<>>, path)
<1> DEFINE none == <<>>
<1>1. none \in Seq(S) /\ none \o path = path
  OBVIOUS
<1> HIDE DEF none
<1>2. Suffix(none \o path, none) = path /\ IsPrefix(none, none \o path)
  BY <1>1, JoinedIs
<1> QED BY <1>1, <1>2 DEF none

(* A canonical path leads to itself, by the path and by a handle.          *)
LEMMA CanonicalIsReal ==
  ASSUME NEW t, WellFormed(t), NEW names \in Seq(Names), RealPath(t, names) # NoPath
  PROVE  LET real == RealPath(t, names)
         IN /\ Place(t, real) = real /\ RealPath(t, real) = real
            /\ \A root \in Seq(Names) : (Is(t, root, "dir") /\ IsPrefix(root, real)) =>
                 PlaceOf(t, root, TRUE, Suffix(real, root)) = real
<1>0. SUFFICES ASSUME NEW real, real = RealPath(t, names)
               PROVE  /\ Place(t, real) = real /\ RealPath(t, real) = real
                      /\ \A root \in Seq(Names) : (Is(t, root, "dir") /\ IsPrefix(root, real)) =>
                           PlaceOf(t, root, TRUE, Suffix(real, root)) = real
  OBVIOUS
<1>1. /\ real \in DOMAIN t /\ real \in Seq(Names) /\ ~Is(t, real, "link")
      /\ Len(real) <= MaxHops /\ Is(t, <<>>, "dir")
  BY <1>0, RealPathStraight
<1>2. ASSUME NEW root \in Seq(Names), Is(t, root, "dir"), IsPrefix(root, real),
             NEW beneath \in BOOLEAN
      PROVE  PlaceOf(t, root, beneath, Suffix(real, root)) = real
  <2>1. Len(real) <= Len(root) + MaxHops
    BY <1>1, BoundsAssumption
  <2> QED BY <1>1, <1>2, <2>1, StraightLookup
<1>3. Place(t, real) = real
  <2> DEFINE none == <<>>
  <2>1. none \in Seq(Names) /\ Is(t, none, "dir") /\ FALSE \in BOOLEAN
    BY <1>1
  <2>2. IsPrefix(none, real) /\ Suffix(real, none) = real
    BY <1>1, WholeSuffix
  <2> HIDE DEF none
  <2>3. PlaceOf(t, none, FALSE, Suffix(real, none)) = real
    BY <1>2, <2>1, <2>2, Zenon
  <2> QED BY <2>2, <2>3 DEF Place, none
<1>4. RealPath(t, real) = real
  BY <1>1, <1>3 DEF RealPath
<1> QED BY <1>2, <1>3, <1>4, Zenon

(* A path of the sandbox leads where the path of the request leads; by a   *)
(* handle it may lead nowhere, over a link out of the directory.           *)
LEMMA CanonicalIsPlace ==
  ASSUME NEW t, WellFormed(t), NEW names \in Seq(Names), Complete(t, names),
         CanonicalOrParent(t, names) # NoPath
  PROVE  LET path == CanonicalOrParent(t, names)
         IN /\ Place(t, path) = Place(t, names)
            /\ \A root \in Seq(Names) : (Is(t, root, "dir") /\ IsPrefix(root, path)) =>
                 PlaceOf(t, root, TRUE, Suffix(path, root)) \in {Place(t, names), NoPath}
<1>0. SUFFICES ASSUME NEW path, path = CanonicalOrParent(t, names)
               PROVE  /\ Place(t, path) = Place(t, names)
                      /\ \A root \in Seq(Names) : (Is(t, root, "dir") /\ IsPrefix(root, path)) =>
                           PlaceOf(t, root, TRUE, Suffix(path, root)) \in {Place(t, names), NoPath}
  OBVIOUS
<1>1. CASE RealPath(t, names) # NoPath
  <2>1. path = RealPath(t, names) /\ path = Place(t, names)
    BY <1>0, <1>1, RealPathStraight DEF CanonicalOrParent
  <2> QED BY <1>1, <2>1, CanonicalIsReal
<1>2. CASE RealPath(t, names) = NoPath
  <2> DEFINE parent == RealPath(t, Front(names))
             x == Last(names)
  <2>1. names # <<>> /\ parent # NoPath /\ path = Append(parent, x)
    BY <1>0, <1>2 DEF CanonicalOrParent
  <2>2. Front(names) \in Seq(Names) /\ x \in Names /\ names \in Seq(Parts)
    BY <2>1, FrontIs DEF Parts
  <2>3. /\ parent \in DOMAIN t /\ parent \in Seq(Names) /\ ~Is(t, parent, "link")
        /\ Len(parent) <= MaxHops /\ Is(t, <<>>, "dir")
    BY <2>1, <2>2, RealPathStraight
  <2>4. PICK i \in 0..MaxHops :
          /\ Len(parent) <= i
          /\ Hops(t, <<>>, FALSE, names)[i] = BeforeLast(t, parent, x)
    BY <2>1, ThroughParent
  <2> HIDE DEF parent, x
  <2>5. path \in Seq(Names) /\ path # <<>> /\ Front(path) = parent
    BY <2>1, <2>2, <2>3, FrontOfAppend
  <2>6. ASSUME NEW root \in Seq(Names), Is(t, root, "dir"), IsPrefix(root, parent),
               NEW beneath \in BOOLEAN, beneath \/ root = <<>>
        PROVE  /\ PlaceOf(t, root, beneath, Suffix(path, root)) \in {Place(t, names), NoPath}
               /\ ~beneath => PlaceOf(t, root, beneath, Suffix(path, root)) = Place(t, names)
    <3> DEFINE j == Len(parent) - Len(root)
               rel == Suffix(path, root)
    <3>1. j \in 0..Len(parent) /\ Hops(t, root, beneath, rel)[j] = BeforeLast(t, parent, x)
      BY <2>1, <2>2, <2>3, <2>6, ToLast
    <3>2. j \in 0..i
      BY <2>3, <2>4, <3>1
    <3>3. rel \in Seq(Parts)
      <4>1. IsPrefix(parent, path)
        BY <2>5, FrontIsPrefix
      <4>2. IsPrefix(root, path)
        BY <2>3, <2>5, <2>6, <4>1, PrefixOfPrefix
      <4>3. rel \in Seq(Names)
        BY <2>5, <4>2, PrefixIs
      <4> QED BY <4>3 DEF Parts
    <3> HIDE DEF j, rel
    <3>4. Hops(t, root, beneath, rel)[j] = Hops(t, <<>>, FALSE, names)[i]
      BY <2>4, <3>1
    <3>5. i \in 0..MaxHops /\ Is(t, <<>>, "dir") /\ names \in Seq(Parts)
      BY <2>2, <2>3, <2>4
    <3>6. /\ PlaceOf(t, root, beneath, rel) \in {Place(t, names), NoPath}
          /\ ~beneath => PlaceOf(t, root, beneath, rel) = Place(t, names)
      BY <2>6, <3>2, <3>3, <3>4, <3>5, SamePlace, ZenonT(60)
    <3> QED BY <3>6 DEF rel
  <2>7. Place(t, path) = Place(t, names)
    <3> DEFINE none == <<>>
    <3>1. none \in Seq(Names) /\ Is(t, none, "dir") /\ FALSE \in BOOLEAN /\ none = <<>>
      BY <2>3
    <3>2. IsPrefix(none, parent) /\ Suffix(path, none) = path
      BY <2>3, <2>5, WholeSuffix
    <3> HIDE DEF none
    <3>3. PlaceOf(t, none, FALSE, Suffix(path, none)) = Place(t, names)
      BY <2>6, <3>1, <3>2
    <3> QED BY <3>2, <3>3 DEF Place, none
  <2>8. ASSUME NEW root \in Seq(Names), Is(t, root, "dir"), IsPrefix(root, path)
        PROVE  PlaceOf(t, root, TRUE, Suffix(path, root)) \in {Place(t, names), NoPath}
    <3>1. CASE root # path
      <4>1. IsPrefix(root, parent)
        BY <2>5, <2>8, <3>1, StrictPrefix
      <4> QED BY <2>6, <2>8, <4>1
    <3>2. CASE root = path
      <4>1. path \in DOMAIN t /\ ~Is(t, path, "link") /\ Is(t, path, "dir")
        BY <2>8, <3>2 DEF Is
      <4>2. PlaceOf(t, root, TRUE, Suffix(path, root)) = path
        <5>1. Len(path) <= Len(root) + MaxHops
          BY <2>5, <3>2, BoundsAssumption
        <5> QED BY <2>8, <4>1, <5>1, StraightLookup
      <4>3. Place(t, path) = path \/ Place(t, path) = NoPath
        <5>1. \A k \in 1..Len(path) : ~Is(t, UpTo(path, k), "link")
          <6> SUFFICES ASSUME NEW k \in 1..Len(path) PROVE ~Is(t, UpTo(path, k), "link")
            OBVIOUS
          <6>1. k \in 0..Len(path) /\ (k < Len(path) \/ k = Len(path)) /\ UpTo(path, Len(path)) = path
            BY <2>5 DEF UpTo
          <6>2. k < Len(path) => Is(t, UpTo(path, k), "dir")
            BY <4>1, <6>1, Directories
          <6> QED BY <4>1, <6>1, <6>2 DEF Is
        <5>2. ~HasLink(t, path)
          BY <5>1 DEF HasLink
        <5> QED BY <2>5, <5>2, StraightPlace
      <4>4. Place(t, path) # NoPath
        <5>1. parent = Front(path) /\ Is(t, parent, "dir")
          BY <2>5, <4>1 DEF WellFormed
        <5> DEFINE N == Hops(t, <<>>, FALSE, names)
        <5>2. i < MaxHops
          <6>1. CASE i = MaxHops
            <7>0. N[MaxHops] = [at |-> parent, todo |-> <<x>>, ok |-> Is(t, parent, "dir")]
              BY <2>4, <6>1 DEF BeforeLast
            <7> HIDE DEF N
            <7>1. N[MaxHops].ok /\ N[MaxHops].todo = <<x>>
              BY <5>1, <7>0, StateHas
            <7>2. N[MaxHops].todo = <<>>
              BY <7>1 DEF Complete, N
            <7>3. <<x>> # <<>>
              OBVIOUS
            <7> QED BY <7>1, <7>2, <7>3
          <6> QED BY <6>1, BoundsAssumption
        <5>3. N[i + 1] = [at |-> path, todo |-> <<>>, ok |-> TRUE]
          <6>1. N[i + 1] = Advance(t, <<>>, FALSE, N[i])
            BY <2>2, <2>3, <5>2, TopHopIs, Zenon
          <6> HIDE DEF N
          <6>2. N[i] = [at |-> parent, todo |-> <<x>>, ok |-> TRUE]
            BY <2>4, <5>1 DEF BeforeLast, N, Is
          <6>3. x # "." /\ x # ".." /\ Head(<<x>>) = x /\ Tail(<<x>>) = <<>> /\ <<x>> # <<>>
            BY <2>2, NamesAssumption
          <6>4. Advance(t, <<>>, FALSE, [at |-> parent, todo |-> <<x>>, ok |-> TRUE])
                  = Enter(t, <<>>, FALSE, parent, x, <<>>)
            BY <6>3 DEF Advance
          <6>5. Enter(t, <<>>, FALSE, parent, x, <<>>) = [at |-> path, todo |-> <<>>, ok |-> TRUE]
            <7>1. ~Is(t, Append(parent, x), "link")
              BY <2>1, <4>1
            <7> QED BY <2>1, <7>1 DEF Enter
          <6> QED BY <6>1, <6>2, <6>4, <6>5
        <5>4. Hops(t, <<>>, FALSE, names)[MaxHops] = [at |-> path, todo |-> <<>>, ok |-> TRUE]
          <6> DEFINE none == <<>>
          <6>1. none \in Seq(Names) /\ Is(t, none, "dir") /\ FALSE \in BOOLEAN /\ i + 1 \in 0..MaxHops
            BY <2>3, <5>2, BoundsAssumption
          <6>5. Hops(t, none, FALSE, names)[i + 1] = [at |-> path, todo |-> <<>>, ok |-> TRUE]
            BY <5>3
          <6> HIDE DEF none, N
          <6> DEFINE hop == Hops(t, none, FALSE, names)[i + 1]
          <6>2. hop.todo = <<>>
            <7>1. hop = [at |-> path, todo |-> <<>>, ok |-> TRUE]
              BY <6>5
            <7> HIDE DEF hop
            <7> QED BY <7>1, StateHas
          <6>3. Hops(t, none, FALSE, names)[MaxHops] = Hops(t, none, FALSE, names)[i + 1]
            BY <2>2, <6>1, <6>2, HopsEnd, Zenon
          <6>4. Hops(t, none, FALSE, names)[MaxHops] = [at |-> path, todo |-> <<>>, ok |-> TRUE]
            BY <6>3, <6>5
          <6> QED BY <6>4 DEF none
        <5>5. Place(t, names) = path
          <6> DEFINE end == Hops(t, <<>>, FALSE, names)[MaxHops]
          <6>1. PlaceOf(t, <<>>, FALSE, names) = IF end.ok /\ end.todo = <<>> THEN end.at ELSE NoPath
            BY <2>3 DEF PlaceOf
          <6>2. end = [at |-> path, todo |-> <<>>, ok |-> TRUE]
            BY <5>4
          <6> HIDE DEF end
          <6>3. end.ok /\ end.todo = <<>> /\ end.at = path
            BY <6>2, StateHas
          <6> QED BY <6>1, <6>3 DEF Place
        <5>6. path # NoPath
          BY <2>5, NamesAssumption
        <5> QED BY <2>7, <5>5, <5>6
      <4> QED BY <2>7, <4>2, <4>3, <4>4
    <3> QED BY <3>1, <3>2
  <2> QED BY <2>7, <2>8, Zenon
<1> QED BY <1>1, <1>2

(* A lookup of the parent and the last name leads to the path itself.      *)
LEMMA EntryIs ==
  ASSUME NEW t, WellFormed(t), NEW path \in Seq(Names), path # <<>>,
         Front(path) \in DOMAIN t, ~Is(t, Front(path), "link"), Len(Front(path)) <= MaxHops,
         NEW root \in Seq(Names), Is(t, root, "dir"), IsPrefix(root, path), NEW beneath \in BOOLEAN
  PROVE  EntryPlace(t, root, beneath, Suffix(path, root)) \in {path, NoPath}
<1> DEFINE rel == Suffix(path, root)
           parent == Front(path)
<1>1. rel \in Seq(Names) /\ path = root \o rel
  BY PrefixIs
<1>2. CASE rel = <<>>
  BY <1>2 DEF EntryPlace
<1>3. CASE rel # <<>>
  <2>1. Front(path) = root \o Front(rel) /\ Front(rel) \in Seq(Names)
    <3> HIDE DEF rel
    <3> QED BY <1>1, <1>3, JoinedIs, FrontIs, ZenonT(60)
  <2>2. IsPrefix(root, parent) /\ Suffix(parent, root) = Front(rel)
    <3> HIDE DEF rel
    <3> QED BY <2>1, JoinedIs
  <2>3. Len(parent) <= Len(root) + MaxHops
    <3>1. Len(parent) \in Nat /\ Len(root) \in Nat
      BY FrontIs
    <3> QED BY <3>1, BoundsAssumption
  <2>4. PlaceOf(t, root, beneath, Front(rel)) = parent
    <3> HIDE DEF parent, rel
    <3>1. parent \in DOMAIN t /\ ~Is(t, parent, "link")
      BY DEF parent
    <3>2. PlaceOf(t, root, beneath, Suffix(parent, root)) = parent
      BY <2>2, <2>3, <3>1, StraightLookup
    <3> QED BY <2>2, <3>2
  <2>5. Last(rel) = Last(path)
    <3>1. Append(Front(path), Last(rel)) = path
      <4> DEFINE x == Last(rel)
                 front == Front(rel)
      <4>1. x \in Names /\ front \in Seq(Names) /\ rel = Append(front, x)
        BY <1>1, <1>3, FrontIs
      <4>2. root \o Append(front, x) = Append(root \o front, x)
        <5> HIDE DEF x, front
        <5> QED BY <4>1, JoinAppend
      <4> QED BY <1>1, <2>1, <4>1, <4>2
    <3>2. Last(rel) \in Names /\ Front(path) \in Seq(Names)
      BY <1>1, <1>3, FrontIs
    <3> DEFINE x == Last(rel)
               front == Front(path)
    <3> HIDE DEF x, front
    <3>3. Last(Append(front, x)) = x
      BY <3>2, FrontOfAppend DEF x, front
    <3> QED BY <3>1, <3>3 DEF x, front
  <2>6. path = Append(parent, Last(path))
    BY FrontIs
  <2> HIDE DEF rel, parent
  <2>7. EntryPlace(t, root, beneath, rel) \in {Append(parent, Last(rel)), NoPath}
    BY <1>3, <2>4 DEF EntryPlace
  <2> QED BY <2>5, <2>6, <2>7 DEF rel
<1> QED BY <1>2, <1>3

(* The parent of a path of the sandbox is a real directory.                *)
LEMMA CanonicalParent ==
  ASSUME NEW t, WellFormed(t), NEW names \in Seq(Names),
         CanonicalOrParent(t, names) # NoPath, CanonicalOrParent(t, names) # <<>>
  PROVE  LET path == CanonicalOrParent(t, names)
         IN /\ path \in Seq(Names) /\ Front(path) \in DOMAIN t /\ Front(path) \in Seq(Names)
            /\ ~Is(t, Front(path), "link") /\ Len(Front(path)) <= MaxHops
<1> DEFINE path == CanonicalOrParent(t, names)
<1>1. CASE RealPath(t, names) # NoPath
  <2>1. path = RealPath(t, names)
    BY <1>1 DEF CanonicalOrParent
  <2>2. path \in DOMAIN t /\ path \in Seq(Names) /\ Len(path) <= MaxHops
    BY <1>1, <2>1, RealPathStraight
  <2> HIDE DEF path
  <2>3. Is(t, Front(path), "dir") /\ Front(path) \in Seq(Names) /\ Len(Front(path)) = Len(path) - 1
    BY <2>2, FrontIs DEF WellFormed, path
  <2>4. Len(Front(path)) <= MaxHops
    BY <2>2, <2>3, BoundsAssumption
  <2> QED BY <2>2, <2>3, <2>4 DEF Is, path
<1>2. CASE RealPath(t, names) = NoPath
  <2> DEFINE parent == RealPath(t, Front(names))
             x == Last(names)
  <2>1. names # <<>> /\ parent # NoPath /\ path = Append(parent, x)
    BY <1>2 DEF CanonicalOrParent
  <2>2. Front(names) \in Seq(Names) /\ x \in Names
    BY <2>1, FrontIs
  <2>3. /\ parent \in DOMAIN t /\ parent \in Seq(Names) /\ ~Is(t, parent, "link")
        /\ Len(parent) <= MaxHops
    BY <2>1, <2>2, RealPathStraight
  <2> HIDE DEF parent, x, path
  <2>4. path \in Seq(Names) /\ Front(path) = parent
    BY <2>1, <2>2, <2>3, FrontOfAppend
  <2> QED BY <2>3, <2>4 DEF path
<1> QED BY <1>1, <1>2

(* The entry a handle or the path is used on is the path itself.           *)
LEMMA CanonicalEntry ==
  ASSUME NEW t, WellFormed(t), NEW names \in Seq(Names),
         CanonicalOrParent(t, names) # NoPath,
         NEW root \in Seq(Names), Is(t, root, "dir"),
         IsPrefix(root, CanonicalOrParent(t, names)), NEW beneath \in BOOLEAN
  PROVE  EntryPlace(t, root, beneath, Suffix(CanonicalOrParent(t, names), root))
           \in {CanonicalOrParent(t, names), NoPath}
<1> DEFINE path == CanonicalOrParent(t, names)
<1>1. path \in Seq(Names)
  BY CanonicalIs
<1>2. CASE path = <<>>
  <2>1. Suffix(path, root) = <<>>
    <3> HIDE DEF path
    <3>1. Suffix(path, root) \in Seq(Names) /\ Len(path) = Len(root) + Len(Suffix(path, root))
      <4>1. Suffix(path, root) \in Seq(Names) /\ path = root \o Suffix(path, root)
        BY <1>1, PrefixIs DEF path
      <4> QED BY <4>1, JoinAt
    <3>2. Len(path) = 0 /\ Len(root) \in Nat /\ Len(Suffix(path, root)) \in Nat
      BY <1>2, <3>1, LenIs
    <3> DEFINE a == Len(path)
               b == Len(root)
               d == Len(Suffix(path, root))
    <3>3. a = 0 /\ a = b + d /\ b \in Nat /\ d \in Nat
      BY <3>1, <3>2
    <3>4. d = 0
      <4> HIDE DEF a, b, d
      <4> QED BY <3>3
    <3> QED BY <3>1, <3>4, LenIs
  <2> QED BY <2>1 DEF EntryPlace
<1>3. CASE path # <<>>
  <2>1. Front(path) \in DOMAIN t /\ ~Is(t, Front(path), "link") /\ Len(Front(path)) <= MaxHops
    BY <1>3, CanonicalParent
  <2>2. IsPrefix(root, path)
    OBVIOUS
  <2> HIDE DEF path
  <2>3. EntryPlace(t, root, beneath, Suffix(path, root)) \in {path, NoPath}
    BY <1>1, <1>3, <2>1, <2>2, EntryIs
  <2> QED BY <2>3 DEF path
<1> QED BY <1>2, <1>3

(* A file that is written stands in nobody's way.                          *)
LEMMA SameHops ==
  ASSUME NEW t, WellFormed(t), NEW place \in Seq(Names), MayWrite(t, place),
         NEW node, node.kind = "file", WellFormed(Put(t, place, node)),
         NEW base \in Seq(Names), Is(t, base, "dir"), NEW beneath \in BOOLEAN,
         NEW names \in Seq(Parts)
  PROVE  Hops(Put(t, place, node), base, beneath, names)[MaxHops] = Hops(t, base, beneath, names)[MaxHops]
<1> DEFINE u == Put(t, place, node)
           H == Hops(t, base, beneath, names)
           G == Hops(u, base, beneath, names)
           T == {i \in 0..MaxHops : G[i] = H[i]}
<1>1. /\ \A p : Is(u, p, "dir") = Is(t, p, "dir")
      /\ \A p : Is(u, p, "link") = Is(t, p, "link")
      /\ \A p : Is(t, p, "link") => u[p] = t[p]
  <2>1. \A p : p \in DOMAIN u <=> p \in DOMAIN t \/ p = place
    BY DEF Put
  <2>2. \A p \in DOMAIN u : u[p] = IF p = place THEN node ELSE t[p]
    BY DEF Put
  <2>3. place \in DOMAIN t => t[place].kind = "file"
    BY DEF MayWrite
  <2> HIDE DEF u
  <2>4. ASSUME NEW p, NEW kind \in {"dir", "link"} PROVE Is(u, p, kind) = Is(t, p, kind)
    <3>1. kind # "file"
      OBVIOUS
    <3> QED BY <2>1, <2>2, <2>3, <3>1 DEF Is
  <2> QED BY <2>1, <2>2, <2>3, <2>4 DEF Is
<1>2. ASSUME NEW s PROVE Advance(u, base, beneath, s) = Advance(t, base, beneath, s)
  <2> HIDE DEF u
  <2>1. ASSUME NEW at, NEW name, NEW rest
        PROVE  Enter(u, base, beneath, at, name, rest) = Enter(t, base, beneath, at, name, rest)
    <3> DEFINE next == Append(at, name)
    <3>1. /\ Is(u, next, "dir") = Is(t, next, "dir")
          /\ Is(u, next, "link") = Is(t, next, "link")
          /\ Is(t, next, "link") => u[next] = t[next]
      BY <1>1
    <3> HIDE DEF next
    <3>2. CASE Is(t, next, "link")
      BY <3>1, <3>2 DEF Enter, next
    <3>3. CASE ~Is(t, next, "link")
      BY <3>1, <3>3 DEF Enter, next
    <3> QED BY <3>2, <3>3
  <2>2. Enter(u, base, beneath, s.at, Head(s.todo), Tail(s.todo))
          = Enter(t, base, beneath, s.at, Head(s.todo), Tail(s.todo))
    BY <2>1
  <2>3. CASE ~s.ok \/ s.todo = <<>>
    BY <2>3 DEF Advance
  <2>4. CASE s.ok /\ s.todo # <<>> /\ Head(s.todo) = "."
    BY <2>4 DEF Advance
  <2>5. CASE s.ok /\ s.todo # <<>> /\ Head(s.todo) = ".."
    BY <2>5 DEF Advance
  <2>6. CASE s.ok /\ s.todo # <<>> /\ Head(s.todo) # "." /\ Head(s.todo) # ".."
    <3>1. /\ Advance(u, base, beneath, s)
               = Enter(u, base, beneath, s.at, Head(s.todo), Tail(s.todo))
          /\ Advance(t, base, beneath, s)
               = Enter(t, base, beneath, s.at, Head(s.todo), Tail(s.todo))
      BY <2>6 DEF Advance
    <3> QED BY <2>2, <3>1
  <2> QED BY <2>3, <2>4, <2>5, <2>6
<1>3. MaxHops \in Nat
  BY BoundsAssumption
<1>4. /\ H[0] = [at |-> base, todo |-> names, ok |-> TRUE]
      /\ \A i \in 0..MaxHops : i < MaxHops => H[i + 1] = Advance(t, base, beneath, H[i])
  BY HopIs
<1>5. /\ G[0] = [at |-> base, todo |-> names, ok |-> TRUE]
      /\ \A i \in 0..MaxHops : i < MaxHops => G[i + 1] = Advance(u, base, beneath, G[i])
  <2>1. Is(u, base, "dir") /\ WellFormed(u)
    BY <1>1
  <2> HIDE DEF u
  <2> QED BY <2>1, HopIs
<1> HIDE DEF G, H, u
<1>6. 0 \in T /\ T \in SUBSET (0..MaxHops)
  BY <1>3, <1>4, <1>5
<1>7. ASSUME NEW i \in 0..MaxHops, i \in T, i < MaxHops PROVE i + 1 \in T
  <2>1. i + 1 \in 0..MaxHops
    BY <1>3, <1>7
  <2>2. H[i + 1] = Advance(t, base, beneath, H[i]) /\ G[i + 1] = Advance(u, base, beneath, G[i])
    BY <1>4, <1>5, <1>7
  <2> QED BY <1>2, <1>7, <2>1, <2>2
<1>8. T = 0..MaxHops
  <2>1. \A i \in 0..MaxHops : (i \in T /\ i < MaxHops) => i + 1 \in T
    BY <1>7
  <2> HIDE DEF T
  <2> QED BY <1>3, <1>6, <2>1, HandedOn, Zenon
<1>9. MaxHops \in T
  <2> HIDE DEF T
  <2> QED BY <1>3, <1>8
<1> QED BY <1>9 DEF G, H, u

LEMMA SameWay ==
  ASSUME NEW t, WellFormed(t), NEW place \in Seq(Names), MayWrite(t, place),
         NEW node, node.kind = "file", WellFormed(Put(t, place, node)),
         NEW names \in Seq(Parts), Place(t, names) # NoPath
  PROVE  Place(Put(t, place, node), names) = Place(t, names)
<1> DEFINE u == Put(t, place, node)
           base == <<>>
<1>1. Is(t, base, "dir")
  BY DEF Place, PlaceOf
<1>2. base \in Seq(Names) /\ FALSE \in BOOLEAN
  OBVIOUS
<1>3. Is(u, base, "dir")
  <2>1. base \in DOMAIN u /\ base # place
    BY <1>1 DEF Put, MayWrite, Is
  <2>2. u[base] = t[base]
    BY <2>1 DEF Put
  <2> HIDE DEF u
  <2> QED BY <1>1, <2>1, <2>2 DEF Is
<1> HIDE DEF base
<1>4. Hops(u, base, FALSE, names)[MaxHops] = Hops(t, base, FALSE, names)[MaxHops]
  <2>1. ASSUME NEW beneath \in BOOLEAN
        PROVE  Hops(Put(t, place, node), base, beneath, names)[MaxHops]
                 = Hops(t, base, beneath, names)[MaxHops]
    <3>1. base \in Seq(Names)
      BY <1>2
    <3> QED BY <1>1, <3>1, SameHops
  <2> QED BY <2>1
<1> HIDE DEF u
<1>5. PlaceOf(u, base, FALSE, names) = PlaceOf(t, base, FALSE, names)
  BY <1>1, <1>3, <1>4 DEF PlaceOf
<1> QED BY <1>5 DEF Place, base, u

-----------------------------------------------------------------------------
(***************************************************************************)
(* What a call that nobody disturbs still knows: the paths it has resolved *)
(* are what they would be resolved to now, and the file it has looked at   *)
(* is still there.                                                         *)
(***************************************************************************)

Final == {"run", "remove", "read", "apply"}

ResolvedAs(c, i) ==
  /\ call[c].got[i].canonical = PathAgain(c, i)
  /\ call[c].got[i].root = RootFor(PathAgain(c, i))

Looks(c) ==
  /\ Found(Path(c), "file")
  /\ call[c].req.tool = "hash_file" \/ Small(HandlePlace(Path(c)))

Known(c) ==
  Live(c) =>
    /\ call[c].pc \in Final => Len(call[c].got) = Len(call[c].req.paths)
    /\ alone[c] =>
         /\ \A i \in 1..Len(call[c].got) : ResolvedAs(c, i)
         /\ call[c].pc = "apply" =>
              call[c].src = PathAgain(c, 1) /\ call[c].dst = PathAgain(c, 2)
         /\ call[c].pc = "read" => Looks(c)

KInv == \A c \in Calls : Known(c)

LEMMA SameWhile ==
  ASSUME NEW c, call'[c].req = call[c].req, call'[c].got = call[c].got,
         tree' = tree, trie' = trie
  PROVE  /\ \A i : PathAgain(c, i)' = PathAgain(c, i)
         /\ \A i : ResolvedAs(c, i) => ResolvedAs(c, i)'
         /\ roots' = roots /\ Looks(c) => Looks(c)'
<1>1. ASSUME NEW i PROVE PathAgain(c, i)' = PathAgain(c, i)
  BY DEF PathAgain
<1>2. ASSUME NEW i, ResolvedAs(c, i) PROVE ResolvedAs(c, i)'
  <2>1. PathAgain(c, i)' = PathAgain(c, i)
    BY <1>1
  <2> QED BY <1>2, <2>1 DEF ResolvedAs, RootFor
<1>3. ASSUME roots' = roots, Looks(c) PROVE Looks(c)'
  BY <1>3 DEF Looks, Found, Small, HandlePlace, HandleOf, RelOf, Path, Text
<1> QED BY <1>1, <1>2, <1>3

(* A step of others. *)
LEMMA OthersKnow ==
  ASSUME NEW d \in Calls, Known(d), call'[d] = call[d], trie' = trie,
         (Live(d) /\ alone'[d]) =>
           alone[d] /\ tree' = tree /\ (call[d].pc = "read" => roots' = roots)
  PROVE  Known(d)'
<1>1. CASE Live(d) /\ alone'[d]
  <2>1. alone[d] /\ tree' = tree /\ (call[d].pc = "read" => roots' = roots)
    BY <1>1
  <2>2. /\ \A i : PathAgain(d, i)' = PathAgain(d, i)
        /\ \A i : ResolvedAs(d, i) => ResolvedAs(d, i)'
        /\ roots' = roots /\ Looks(d) => Looks(d)'
    BY <2>1, SameWhile
  <2>3. /\ call[d].pc \in Final => Len(call[d].got) = Len(call[d].req.paths)
        /\ \A i \in 1..Len(call[d].got) : ResolvedAs(d, i)
        /\ call[d].pc = "apply" =>
             call[d].src = PathAgain(d, 1) /\ call[d].dst = PathAgain(d, 2)
        /\ call[d].pc = "read" => Looks(d)
    BY <1>1, <2>1 DEF Known
  <2> QED BY <2>1, <2>2, <2>3 DEF Known
<1>2. CASE ~(Live(d) /\ alone'[d])
  <2>1. Live(d)' <=> Live(d)
    BY DEF Live
  <2> QED BY <1>2, <2>1 DEF Known, Final
<1> QED BY <1>1, <1>2

(* A step of the call itself, with the paths it has resolved.              *)
LEMMA StageKnows ==
  ASSUME NEW c \in Calls, DOMAIN call = Calls, {"req", "pc", "got"} \subseteq DOMAIN call[c],
         Known(c), Live(c), trie' = trie, tree' = tree, alone'[c] => alone[c],
         NEW fields, "req" \notin DOMAIN fields, "got" \notin DOMAIN fields, Steps(c, fields),
         call'[c].pc \in Final => call[c].pc \in Final,
         (alone[c] /\ call'[c].pc = "apply") =>
           call'[c].src = PathAgain(c, 1) /\ call'[c].dst = PathAgain(c, 2),
         (alone[c] /\ call'[c].pc = "read") => roots' = roots /\ Looks(c)
  PROVE  Known(c)'
<1>1. call'[c]["req"] = call[c]["req"] /\ call'[c]["got"] = call[c]["got"]
  BY StepsIs
<1>2. call'[c].req = call[c].req /\ call'[c].got = call[c].got
  BY <1>1
<1>3. /\ \A i : PathAgain(c, i)' = PathAgain(c, i)
      /\ \A i : ResolvedAs(c, i) => ResolvedAs(c, i)'
      /\ roots' = roots /\ Looks(c) => Looks(c)'
  BY <1>2, SameWhile
<1>4. /\ call[c].pc \in Final => Len(call[c].got) = Len(call[c].req.paths)
      /\ alone[c] => \A i \in 1..Len(call[c].got) : ResolvedAs(c, i)
  BY DEF Known
<1>5. call'[c].pc \in Final => Len(call'[c].got) = Len(call'[c].req.paths)
  BY <1>2, <1>4
<1>6. alone'[c] => \A i \in 1..Len(call'[c].got) : ResolvedAs(c, i)'
  BY <1>2, <1>3, <1>4
<1>7. (alone'[c] /\ call'[c].pc = "apply") =>
        call'[c].src = PathAgain(c, 1)' /\ call'[c].dst = PathAgain(c, 2)'
  BY <1>3
<1>8. (alone'[c] /\ call'[c].pc = "read") => Looks(c)'
  BY <1>3
<1> QED BY <1>5, <1>6, <1>7, <1>8 DEF Known, Final

(* A path that has just been resolved.                                     *)
LEMMA CanonicalizeKnows ==
  ASSUME IInv, NEW c, Running(c), Known(c), Canonicalize(c)
  PROVE  call'[c].pc = "done" \/ Known(c)'
<1>1. /\ c \in Calls /\ DOMAIN call = Calls /\ Shape(call[c], c)
      /\ {"req", "pc", "got"} \subseteq DOMAIN call[c]
      /\ call[c].got \in Seq(Resolved) /\ Len(call[c].got) \in Nat
      /\ call[c].req.paths \in Seq(Named)
      /\ WellFormed(tree)
  BY RunningHas
<1>2. Live(c) /\ call[c].pc = "canon" /\ tree' = tree
  BY DEF Canonicalize, Same
<1>3. trie' = trie /\ (alone'[c] => alone[c])
  BY DEF Running
<1> DEFINE path == CanonicalOrParent(tree, NextPath(c))
           r == [canonical |-> path, root |-> RootFor(path)]
           got == Append(call[c].got, r)
           pc == IF Len(got) < Len(call[c].req.paths) THEN "check" ELSE "run"
           fields == [got |-> got, pc |-> pc]
           n == Len(call[c].got)
           m == Len(call[c].req.paths)
<1>4. Fails(c) \/ Steps(c, fields)
  BY DEF Canonicalize
<1>5. CASE Fails(c)
  BY <1>1, <1>5, FailsIs DEF Ends
<1>6. CASE Steps(c, fields)
  <2>1. DOMAIN fields = {"pc", "got"} /\ fields["pc"] = pc /\ fields["got"] = got
    OBVIOUS
  <2> HIDE DEF fields
  <2>2. call'[c]["pc"] = pc /\ call'[c]["got"] = got /\ call'[c]["req"] = call[c]["req"]
    <3> HIDE DEF pc, got
    <3> QED BY <1>1, <1>6, <2>1, StepsIs
  <2>3. call'[c].pc = pc /\ call'[c].got = got /\ call'[c].req = call[c].req
    BY <2>2
  <2>4. r.canonical = path /\ r.root = RootFor(path)
    OBVIOUS
  <2>5. path = PathAgain(c, n + 1)
    BY DEF PathAgain, NextPath
  <2> HIDE DEF r, path
  <2>6. /\ Len(got) = n + 1 /\ got[n + 1] = r
        /\ \A i \in 1..n : got[i] = call[c].got[i]
    <3> DEFINE before == call[c].got
    <3>1. before \in Seq(Resolved)
      BY <1>1
    <3> HIDE DEF before
    <3>2. /\ Len(Append(before, r)) = Len(before) + 1 /\ Append(before, r)[Len(before) + 1] = r
          /\ \A i \in 1..Len(before) : Append(before, r)[i] = before[i]
      BY <3>1
    <3> QED BY <3>2 DEF before
  <2> HIDE DEF got
  <2>7. n \in Nat /\ m \in Nat /\ n < m
    <3>1. n < m
      BY <1>1, <1>2, Zenon DEF Shape
    <3> QED BY <1>1, <3>1, LenIs
  <2>8. pc \in Final => Len(got) = m
    <3> HIDE DEF n, m
    <3>1. pc = IF Len(got) < m THEN "check" ELSE "run"
      BY DEF m
    <3> HIDE DEF pc
    <3> QED BY <2>6, <2>7, <3>1 DEF Final
  <2>9. \A i : PathAgain(c, i)' = PathAgain(c, i)
    BY <1>2, <2>3 DEF PathAgain
  <2>10. ASSUME alone[c], NEW i \in 1..Len(got) PROVE ResolvedAs(c, i)'
    <3>1. CASE i = n + 1
      <4>1. call'[c].got[i] = r
        BY <2>3, <2>6, <3>1, Zenon
      <4>2. PathAgain(c, i)' = path
        BY <2>5, <2>9, <3>1
      <4> QED BY <1>3, <2>4, <4>1, <4>2 DEF ResolvedAs, RootFor
    <3>2. CASE i # n + 1
      <4>1. i \in 1..n
        <5> HIDE DEF n
        <5> QED BY <2>6, <2>7, <3>2
      <4>2. ResolvedAs(c, i)
        BY <1>2, <2>10, <4>1 DEF Known
      <4>3. call'[c].got[i] = call[c].got[i]
        BY <2>3, <2>6, <4>1, Zenon
      <4>4. PathAgain(c, i)' = PathAgain(c, i)
        BY <2>9
      <4> QED BY <1>3, <4>2, <4>3, <4>4 DEF ResolvedAs, RootFor
    <3> QED BY <3>1, <3>2
  <2>11. pc # "apply" /\ pc # "read"
    OBVIOUS
  <2> HIDE DEF pc
  <2> QED BY <1>3, <2>3, <2>8, <2>10, <2>11 DEF Known, Final
<1> QED BY <1>4, <1>5, <1>6

(* The steps that end a call. *)
LEMMA Finished ==
  ASSUME IInv, NEW c, Running(c),
         \/ Rename(c) \/ Copy(c) \/ CreateSymlink(c) \/ FindByHandle(c) \/ ListByHandle(c)
         \/ WriteByHandle(c) \/ CreateDirectory(c) \/ DeleteFile(c) \/ DeleteDirectory(c)
         \/ ReadByPath(c) \/ ReadAfterStat(c) \/ ReadResource(c) \/ WalkByPath(c)
  PROVE  call'[c].pc = "done"
<1>1. c \in Calls /\ DOMAIN call = Calls
  BY RunningHas
<1>2. ASSUME Fails(c) \/ Succeeds(c) PROVE call'[c].pc = "done"
  BY <1>1, <1>2, FailsIs DEF Ends
<1>3. ASSUME NEW place, WithText(c, place) PROVE call'[c].pc = "done"
  <2> DEFINE answer == [ok |-> TRUE, text |-> Text(place)]
  <2>1. "pc" \notin DOMAIN answer
    OBVIOUS
  <2>2. Fails(c) \/ Answers(c, answer)
    BY <1>3 DEF WithText
  <2> HIDE DEF answer
  <2> QED BY <1>1, <1>2, <2>1, <2>2, AnswersIs DEF Ends
<1>4. CASE \/ Rename(c) \/ Copy(c) \/ CreateSymlink(c) \/ FindByHandle(c) \/ ListByHandle(c)
           \/ WriteByHandle(c) \/ CreateDirectory(c) \/ DeleteFile(c) \/ DeleteDirectory(c)
  <2>1. Fails(c) \/ Succeeds(c)
    BY <1>4, Zenon DEF Rename, Copy, CreateSymlink, FindByHandle, ListByHandle, WriteByHandle,
                       CreateDirectory, DeleteFile, DeleteDirectory
  <2> QED BY <1>2, <2>1
<1>5. CASE ReadByPath(c) \/ ReadAfterStat(c) \/ ReadResource(c)
  <2>1. Fails(c) \/ \E place : WithText(c, place)
    BY <1>5, Zenon DEF ReadByPath, ReadAfterStat, ReadResource
  <2> QED BY <1>2, <1>3, <2>1
<1>6. CASE WalkByPath(c)
  <2> DEFINE answer == [ok |-> TRUE, found |-> WalkOf(c)]
  <2>1. "pc" \notin DOMAIN answer
    OBVIOUS
  <2>2. Fails(c) \/ Answers(c, answer)
    BY <1>6, Zenon DEF WalkByPath
  <2> HIDE DEF answer
  <2> QED BY <1>1, <1>2, <2>1, <2>2, AnswersIs DEF Ends
<1> QED BY <1>4, <1>5, <1>6

(* The steps of a call that goes on, but Canonicalize.                     *)
LEMMA GoOnKnows ==
  ASSUME IInv, NEW c, Running(c), Known(c),
         CheckLinks(c) \/ ResolveAgain(c) \/ DeleteFileFound(c) \/ StatByHandle(c) \/ ListResources(c)
  PROVE  call'[c].pc = "done" \/ Known(c)'
<1>1. /\ c \in Calls /\ DOMAIN call = Calls /\ {"req", "pc", "got"} \subseteq DOMAIN call[c]
      /\ Live(c) /\ trie' = trie /\ (alone'[c] => alone[c])
  BY RunningHas DEF Running
<1>2. tree' = tree /\ roots' = roots
  BY DEF CheckLinks, ResolveAgain, DeleteFileFound, StatByHandle, ListResources, Same
<1>3. ASSUME Fails(c) \/ Succeeds(c) PROVE call'[c].pc = "done"
  BY <1>1, <1>3, FailsIs DEF Ends
<1>4. ASSUME NEW pc, Steps(c, [pc |-> pc]), pc \in Final => call[c].pc \in Final,
             pc # "apply", (alone[c] /\ pc = "read") => Looks(c)
      PROVE  Known(c)'
  <2> DEFINE fields == [pc |-> pc]
  <2>1. DOMAIN fields = {"pc"} /\ fields["pc"] = pc /\ Steps(c, fields)
    BY <1>4
  <2> HIDE DEF fields
  <2>2. call'[c]["pc"] = pc
    BY <1>1, <2>1, StepsIs
  <2>3. call'[c].pc = pc
    BY <2>2
  <2>4. "req" \notin DOMAIN fields /\ "got" \notin DOMAIN fields
    BY <2>1
  <2> QED BY <1>1, <1>2, <1>4, <2>1, <2>3, <2>4, StageKnows
<1>5. CASE CheckLinks(c)
  <2>1. Fails(c) \/ Steps(c, [pc |-> "canon"])
    BY <1>5 DEF CheckLinks
  <2>2. "canon" \notin Final /\ "canon" # "apply" /\ "canon" # "read"
    BY DEF Final
  <2> QED BY <1>3, <1>4, <2>1, <2>2
<1>6. CASE DeleteFileFound(c)
  <2>1. call[c].pc \in Final /\ (Fails(c) \/ Steps(c, [pc |-> "remove"]))
    BY <1>6 DEF DeleteFileFound, At, Final
  <2>2. "remove" # "apply" /\ "remove" # "read"
    OBVIOUS
  <2> QED BY <1>3, <1>4, <2>1, <2>2
<1>7. CASE StatByHandle(c)
  <2>1. call[c].pc \in Final /\ (Fails(c) \/ (Steps(c, [pc |-> "read"]) /\ Looks(c)))
    BY <1>7 DEF StatByHandle, At, Final, Looks
  <2>2. "read" # "apply"
    OBVIOUS
  <2> QED BY <1>3, <1>4, <2>1, <2>2
<1>8. CASE ResolveAgain(c)
  <2> DEFINE src == PathAgain(c, 1)
             dst == PathAgain(c, 2)
             fields == [pc |-> "apply", src |-> src, dst |-> dst]
  <2>1. call[c].pc \in Final /\ (Fails(c) \/ Steps(c, fields))
    BY <1>8 DEF ResolveAgain, At, Final
  <2>2. CASE Steps(c, fields)
    <3> HIDE DEF src, dst
    <3>1. /\ DOMAIN fields = {"pc", "src", "dst"}
          /\ fields["pc"] = "apply" /\ fields["src"] = src /\ fields["dst"] = dst
      OBVIOUS
    <3> HIDE DEF fields
    <3>2. call'[c]["pc"] = "apply" /\ call'[c]["src"] = src /\ call'[c]["dst"] = dst
      BY <1>1, <2>2, <3>1, StepsIs
    <3>3. call'[c].pc = "apply" /\ call'[c].src = src /\ call'[c].dst = dst
      BY <3>2
    <3>4. "req" \notin DOMAIN fields /\ "got" \notin DOMAIN fields
      BY <3>1
    <3> QED BY <1>1, <1>2, <2>1, <2>2, <3>3, <3>4, StageKnows DEF src, dst
  <2> QED BY <1>3, <2>1, <2>2
<1>9. CASE ListResources(c)
  <2>1. call[c].pc = "scan"
    BY <1>9 DEF ListResources, At
  <2>2. \/ Fails(c)
        \/ \E seen : Answers(c, [ok |-> TRUE, seen |-> seen])
        \/ \E next, seen : Steps(c, [cursor |-> next, seen |-> seen])
    BY <1>9, Zenon DEF ListResources
  <2>3. ASSUME NEW seen, Answers(c, [ok |-> TRUE, seen |-> seen]) PROVE call'[c].pc = "done"
    <3> DEFINE answer == [ok |-> TRUE, seen |-> seen]
    <3>1. "pc" \notin DOMAIN answer /\ Answers(c, answer)
      BY <2>3
    <3> HIDE DEF answer
    <3> QED BY <1>1, <3>1, AnswersIs DEF Ends
  <2>4. ASSUME NEW next, NEW seen, Steps(c, [cursor |-> next, seen |-> seen]) PROVE Known(c)'
    <3> DEFINE fields == [cursor |-> next, seen |-> seen]
    <3>1. DOMAIN fields = {"cursor", "seen"} /\ Steps(c, fields)
      BY <2>4
    <3> HIDE DEF fields
    <3>2. call'[c]["pc"] = call[c]["pc"]
      BY <1>1, <3>1, StepsIs
    <3>3. call'[c].pc = "scan"
      BY <2>1, <3>2
    <3>4. "req" \notin DOMAIN fields /\ "got" \notin DOMAIN fields
      BY <3>1
    <3> QED BY <1>1, <1>2, <3>1, <3>3, <3>4, StageKnows DEF Final
  <2> QED BY <1>3, <2>2, <2>3, <2>4
<1> QED BY <1>5, <1>6, <1>7, <1>8, <1>9

LEMMA StepKnows ==
  ASSUME IInv, NEW c, Running(c), Known(c), Step(c)
  PROVE  call'[c].pc = "done" \/ Known(c)'
<1>1. CASE CheckLinks(c) \/ ResolveAgain(c) \/ DeleteFileFound(c) \/ StatByHandle(c) \/ ListResources(c)
  BY <1>1, GoOnKnows
<1>2. CASE Canonicalize(c)
  BY <1>2, CanonicalizeKnows
<1>3. CASE \/ Rename(c) \/ Copy(c) \/ CreateSymlink(c) \/ FindByHandle(c) \/ ListByHandle(c)
           \/ WriteByHandle(c) \/ CreateDirectory(c) \/ DeleteFile(c) \/ DeleteDirectory(c)
           \/ ReadByPath(c) \/ ReadAfterStat(c) \/ ReadResource(c) \/ WalkByPath(c)
  BY <1>3, Finished
<1> QED BY <1>1, <1>2, <1>3, Zenon DEF Step

LEMMA OpenKnows ==
  ASSUME IInv, NEW c, Running(c), Known(c), Open(c)
  PROVE  Known(c)'
<1>1. /\ c \in Calls /\ DOMAIN call = Calls /\ {"req", "pc", "got"} \subseteq DOMAIN call[c]
      /\ Live(c) /\ trie' = trie /\ (alone'[c] => alone[c])
  BY RunningHas DEF Running
<1> DEFINE fields == [pc |-> "check"]
<1>2. DOMAIN fields = {"pc"} /\ fields["pc"] = "check" /\ Steps(c, fields) /\ tree' = tree
  BY DEF Open
<1> HIDE DEF fields
<1>3. call'[c]["pc"] = "check"
  BY <1>1, <1>2, StepsIs
<1>4. call'[c].pc = "check"
  BY <1>3
<1>5. "req" \notin DOMAIN fields /\ "got" \notin DOMAIN fields
  BY <1>2
<1> QED BY <1>1, <1>2, <1>4, <1>5, StageKnows DEF Final

LEMMA StartKnows ==
  ASSUME IInv, NEW c \in Calls, NEW r \in Requests[c], Start(c, r)
  PROVE  Moves(c) /\ Known(c)'
<1> DEFINE pc == IF r.tool = "resources/list" THEN "scan" ELSE "open"
           e == [req |-> r, pc |-> pc, got |-> <<>>, cursor |-> 0, seen |-> <<>>]
<1>1. Moves(c) /\ call'[c] = e
  BY DEF Start, Moves, IInv
<1>2. e.pc \in {"open", "scan"} /\ e.got = <<>>
  OBVIOUS
<1> HIDE DEF e
<1>3. call'[c].pc \in {"open", "scan"} /\ call'[c].got = <<>>
  BY <1>1, <1>2
<1> QED BY <1>1, <1>3 DEF Known, Final

LEMMA KnownStarts == Init => KInv
<1> SUFFICES ASSUME Init, NEW c \in Calls PROVE Known(c)
  BY DEF KInv
<1>1. call[c].pc = "idle"
  BY DEF Init, Idle
<1> QED BY <1>1 DEF Known, Live

LEMMA CallKnows ==
  ASSUME Opaque, IInv, KInv, roots # Aborted, config' = config, trie' = trie,
         NEW c \in Calls,
         \/ Opens(c)
         \/ ((\E r \in Requests[c] : Start(c, r)) \/ Step(c)) /\ Disturbs({c})
  PROVE  KInv'
<1>1. ASSUME NEW d \in Calls, d # c, Live(d), alone'[d]
      PROVE  alone[d] /\ tree' = tree /\ (call[d].pc = "read" => roots' = roots)
  <2>1. CASE Opens(c)
    <3>1. CallOK(d)
      BY DEF IInv
    <3>2. call[d].pc = "read" => roots # Unopened
      BY <1>1, <3>1 DEF CallOK
    <3> QED BY <1>1, <2>1, <3>2 DEF Opens, Open
  <2>2. CASE Disturbs({c})
    BY <1>1, <2>2, AloneIs
  <2> QED BY <2>1, <2>2
<1>2. Moves(c) /\ (call'[c].pc = "done" \/ Known(c)')
  <2>1. CASE Opens(c)
    <3>1. Open(c) /\ alone' = alone
      BY <2>1 DEF Opens
    <3>2. Running(c)
      BY <3>1, StepIsLive DEF Running
    <3>3. Kept(c)
      BY <3>1, <3>2, OpenKeeps
    <3> QED BY <3>1, <3>2, <3>3, OpenKnows DEF KInv, Kept
  <2>2. CASE \E r \in Requests[c] : Start(c, r)
    BY <2>2, StartKnows
  <2>3. CASE Step(c) /\ Disturbs({c})
    <3>1. Running(c)
      BY <2>3, StepIsLive, AloneIs DEF Running
    <3>2. Kept(c)
      BY <2>3, <3>1, StepKeeps
    <3> QED BY <2>3, <3>1, <3>2, StepKnows DEF KInv, Kept
  <2> QED BY <2>1, <2>2, <2>3
<1>3. ASSUME NEW d \in Calls, d # c PROVE Known(d)'
  <2>1. call'[d] = call[d] /\ Known(d)
    BY <1>2, <1>3 DEF Moves, KInv
  <2> QED BY <1>1, <1>3, <2>1, OthersKnow
<1>4. Known(c)'
  BY <1>2 DEF Known, Live
<1> QED BY <1>3, <1>4 DEF KInv

LEMMA KnownStays == Opaque /\ IInv /\ KInv /\ [Next]_vars => KInv'
<1> SUFFICES ASSUME Opaque, IInv, KInv, [Next]_vars PROVE KInv'
  OBVIOUS
<1>1. CASE UNCHANGED vars
  <2> SUFFICES ASSUME NEW c \in Calls PROVE Known(c)'
    BY DEF KInv
  <2>1. call'[c] = call[c] /\ trie' = trie /\ alone' = alone /\ tree' = tree /\ roots' = roots
    BY <1>1 DEF vars
  <2> QED BY <2>1, OthersKnow DEF KInv
<1>2. ASSUME roots # Aborted, UNCHANGED <<config, trie>>, NEW c \in Calls,
             \/ Opens(c)
             \/ ((\E r \in Requests[c] : Start(c, r)) \/ Step(c)) /\ Disturbs({c})
      PROVE  KInv'
  BY <1>2, CallKnows
<1>3. CASE Change /\ Disturbs({}) /\ UNCHANGED <<config, trie>>
  <2> SUFFICES ASSUME NEW c \in Calls PROVE Known(c)'
    BY DEF KInv
  <2>1. call'[c] = call[c] /\ trie' = trie
    BY <1>3 DEF Change
  <2>2. (Live(c) /\ alone'[c]) => alone[c] /\ tree' = tree /\ roots' = roots
    BY <1>3, AloneIs
  <2> QED BY <2>1, <2>2, OthersKnow DEF KInv
<1> QED BY <1>1, <1>2, <1>3, Zenon DEF Next, Rest

-----------------------------------------------------------------------------
(***************************************************************************)
(* Where a call that nobody disturbs gets at.                              *)
(***************************************************************************)

(* The directory of a path's root is where its handle is.                  *)
LEMMA HandleIs ==
  ASSUME IInv, KInv, NEW c, Running(c), Undisturbed(c), call[c].pc \in Final,
         NEW i \in 1..Len(call[c].got)
  PROVE  LET r == call[c].got[i]
             names == Normal(ToAbs(call[c].req.paths[i]))
         IN /\ i \in 1..Len(call[c].req.paths) /\ names \in Seq(Names) /\ Complete(tree, names)
            /\ r.canonical = CanonicalOrParent(tree, names) /\ r.canonical \in Seq(Names)
            /\ r.canonical # NoPath
            /\ r.root = RootFor(r.canonical) /\ r.root \in trie.ends
            /\ r.root \in Seq(Names) /\ Is(tree, r.root, "dir") /\ IsPrefix(r.root, r.canonical)
            /\ HandleOf(r) = r.root
            /\ ~config.follow => r.canonical = names
<1> DEFINE r == call[c].got[i]
           names == Normal(ToAbs(call[c].req.paths[i]))
<1>1. /\ c \in Calls /\ CallOK(c) /\ Shape(call[c], c) /\ Live(c) /\ RootsOK
      /\ call[c].got \in Seq(Resolved)
  BY RunningHas DEF Running
<1>2. alone[c] /\ RootsInPlace /\ InReach(c)
  BY DEF Undisturbed
<1>3. Len(call[c].got) = Len(call[c].req.paths) /\ ResolvedAs(c, i)
  BY <1>1, <1>2 DEF KInv, Known
<1>4. i \in 1..Len(call[c].req.paths)
  BY <1>3
<1>5. names \in Seq(Names)
  BY <1>1, <1>4, PathsOf DEF Shape
<1>6. Complete(tree, names)
  <2>1. i \in DOMAIN call[c].req.paths
    <3>1. call[c].req.paths \in Seq(Named)
      BY RunningHas
    <3> QED BY <1>4, <3>1
  <2> QED BY <1>2, <2>1 DEF InReach, Complete
<1>7. r.canonical = CanonicalOrParent(tree, names) /\ r.root = RootFor(r.canonical)
  BY <1>3 DEF ResolvedAs, PathAgain
<1>8. r \in Resolved
  BY <1>1
<1>9. r.canonical \in Seq(Names) /\ r.root \in Seq(Names) /\ r.canonical # NoPath
  BY <1>8, NamesAssumption DEF Resolved
<1>10. /\ r.root \in trie.ends /\ r.root \in DOMAIN roots /\ IsPrefix(r.root, r.canonical)
       /\ ~config.follow => r.canonical = names
  BY <1>1, <1>2 DEF CallOK, Accepted, Straight
<1>11. roots # Unopened
  BY <1>1 DEF CallOK, Final
<1>12. roots = [d \in trie.ends |-> d] /\ roots # Aborted
  BY <1>2, <1>11 DEF RootsInPlace
<1>13. roots[r.root] = r.root
  BY <1>10, <1>12
<1>14. Is(tree, r.root, "dir")
  <2>1. roots[r.root] = NoPath \/ Is(tree, roots[r.root], "dir")
    BY <1>1, <1>10, <1>11, <1>12 DEF RootsOK
  <2>2. r.root # NoPath
    BY <1>9, NamesAssumption
  <2> QED BY <1>13, <2>1, <2>2
<1>15. HandleOf(r) = r.root
  BY <1>13 DEF HandleOf
<1> QED BY <1>4, <1>5, <1>6, <1>7, <1>9, <1>10, <1>14, <1>15

LEMMA FirstPath ==
  ASSUME IInv, NEW c, Running(c), call[c].pc \in Final
  PROVE  1 \in 1..Len(call[c].got)
<1>1. call[c].got \in Seq(Resolved) /\ call[c].got # <<>>
  BY RunningHas DEF Shape, Final
<1> DEFINE got == call[c].got
<1> HIDE DEF got
<1>2. Len(got) \in Nat /\ Len(got) # 0
  BY <1>1, LenIs DEF got
<1> DEFINE n == Len(got)
<1> HIDE DEF n
<1>3. n \in Nat /\ n # 0
  BY <1>2 DEF n
<1>4. 1 \in 1..n
  BY <1>3
<1> QED BY <1>4 DEF n, got

(* By the path and by the handle a call finds the same file.               *)
LEMMA FoundIs ==
  ASSUME IInv, KInv, NEW c, Running(c), Undisturbed(c), call[c].pc \in Final
  PROVE  LET names == Normal(ToAbs(call[c].req.paths[1]))
         IN /\ OpenPlace(c) = RealPath(tree, names)
            /\ Is(tree, OpenPlace(c), "file") <=> LeadsToFile(names)
            /\ Found(Path(c), "file") <=> LeadsToFile(names)
            /\ Found(Path(c), "file") => HandlePlace(Path(c)) = RealPath(tree, names)
<1> DEFINE r == Path(c)
           names == Normal(ToAbs(call[c].req.paths[1]))
<1>1. /\ names \in Seq(Names) /\ Complete(tree, names)
      /\ r.canonical = CanonicalOrParent(tree, names) /\ r.canonical \in Seq(Names)
      /\ r.canonical # NoPath
      /\ r.root = RootFor(r.canonical) /\ r.root \in trie.ends
      /\ r.root \in Seq(Names) /\ Is(tree, r.root, "dir") /\ IsPrefix(r.root, r.canonical)
      /\ HandleOf(r) = r.root
      /\ ~config.follow => r.canonical = names
  BY FirstPath, HandleIs DEF Path
<1>2. WellFormed(tree)
  BY DEF IInv
<1> DEFINE q == r.canonical
           here == RealPath(tree, names)
<1>3. HandlePlace(r) = PlaceOf(tree, r.root, TRUE, Suffix(q, r.root))
  BY <1>1 DEF HandlePlace, RelOf
<1>4. Place(tree, q) = Place(tree, names)
  BY <1>1, <1>2, CanonicalIsPlace
<1>5. HandlePlace(r) \in {Place(tree, names), NoPath}
  <2>1. PlaceOf(tree, r.root, TRUE, Suffix(CanonicalOrParent(tree, names), r.root))
          \in {Place(tree, names), NoPath}
    BY <1>1, <1>2, CanonicalIsPlace
  <2> QED BY <1>1, <1>3, <2>1
<1>6. here # NoPath => HandlePlace(r) = here /\ q = here
  <2> SUFFICES ASSUME here # NoPath PROVE HandlePlace(r) = here /\ q = here
    OBVIOUS
  <2>1. q = here
    BY <1>1 DEF CanonicalOrParent
  <2>2. PlaceOf(tree, r.root, TRUE, Suffix(here, r.root)) = here
    BY <1>1, <1>2, <2>1, CanonicalIsReal
  <2> QED BY <1>3, <2>1, <2>2
<1> HIDE DEF r, names
<1>7. OpenPlace(c) = here
  BY <1>4 DEF OpenPlace, RealPath, r
<1>8. NoPath \notin DOMAIN tree
  BY <1>2, NamesAssumption DEF WellFormed
<1>9. ASSUME Is(tree, here, "file") PROVE LeadsToFile(names)
  <2>1. here # NoPath
    BY <1>8, <1>9 DEF Is
  <2>2. q = here
    BY <1>6, <2>1
  <2>3. IsPrefix(r.root, here) /\ r.root \in trie.ends /\ (config.follow \/ here = names)
    BY <1>1, <2>2
  <2> QED BY <1>9, <2>3 DEF LeadsToFile
<1>10. LeadsToFile(names) => Is(tree, here, "file")
  BY DEF LeadsToFile
<1>11. Found(r, "file") => HandlePlace(r) = here /\ Is(tree, here, "file")
  <2> SUFFICES ASSUME Found(r, "file") PROVE HandlePlace(r) = here /\ Is(tree, here, "file")
    OBVIOUS
  <2>1. HandlePlace(r) \in DOMAIN tree /\ Is(tree, HandlePlace(r), "file")
    BY DEF Found, Is
  <2>2. HandlePlace(r) = Place(tree, names)
    BY <1>5, <1>8, <2>1
  <2>3. here = Place(tree, names)
    BY <2>1, <2>2 DEF RealPath
  <2> QED BY <2>1, <2>2, <2>3
<1>12. Is(tree, here, "file") => Found(r, "file")
  <2> SUFFICES ASSUME Is(tree, here, "file") PROVE Found(r, "file")
    OBVIOUS
  <2>1. here # NoPath
    BY <1>8 DEF Is
  <2> QED BY <1>6, <2>1 DEF Found
<1> HIDE DEF here
<1> QED BY <1>7, <1>9, <1>10, <1>11, <1>12, Zenon DEF r, names, here

-----------------------------------------------------------------------------
(***************************************************************************)
(* The tools that read.                                                    *)
(***************************************************************************)

LEMMA OutcomeIs ==
  ASSUME DOMAIN call = Calls, NEW c \in Calls
  PROVE  /\ Fails(c) => call'[c].ok = FALSE
         /\ Succeeds(c) => call'[c].ok = TRUE
         /\ \A x : Answers(c, [ok |-> TRUE, text |-> x]) =>
              call'[c].ok = TRUE /\ call'[c].text = x
<1> DEFINE rest == [req |-> call[c].req, pc |-> "done", got |-> call[c].got]
<1>1. ASSUME NEW answer, Answers(c, answer), NEW f \in DOMAIN answer
      PROVE  call'[c][f] = answer[f]
  <2>1. call'[c] = With(rest, answer)
    BY <1>1 DEF Answers
  <2> HIDE DEF rest
  <2>2. With(rest, answer)[f] = answer[f]
    BY <1>1 DEF With
  <2> QED BY <2>1, <2>2
<1>2. ASSUME NEW ok, Answers(c, [ok |-> ok]) PROVE call'[c].ok = ok
  <2> DEFINE answer == [ok |-> ok]
  <2>1. Answers(c, answer) /\ "ok" \in DOMAIN answer /\ answer["ok"] = ok
    BY <1>2
  <2> HIDE DEF answer
  <2>2. call'[c]["ok"] = ok
    BY <1>1, <2>1
  <2> QED BY <2>2
<1>3. ASSUME NEW x, Answers(c, [ok |-> TRUE, text |-> x])
      PROVE  call'[c].ok = TRUE /\ call'[c].text = x
  <2> DEFINE answer == [ok |-> TRUE, text |-> x]
  <2>1. /\ Answers(c, answer) /\ "ok" \in DOMAIN answer /\ "text" \in DOMAIN answer
        /\ answer["ok"] = TRUE /\ answer["text"] = x
    BY <1>3
  <2> HIDE DEF answer
  <2>2. call'[c]["ok"] = TRUE /\ call'[c]["text"] = x
    BY <1>1, <2>1
  <2> QED BY <2>2
<1> QED BY <1>2, <1>3 DEF Fails, Succeeds

(* The path of the request, for a tool that has one. *)
Asked(c) == Normal(ToAbs(call[c].req.paths[1]))

TextThere(c) == Text(RealPath(tree, Asked(c)))

Good(c) ==
  /\ LeadsToFile(Asked(c))
  /\ Len(TextThere(c)) <= MaxFileSize
  /\ call[c].req.tool = "read_file_range" => TextThere(c) # <<>>

ReadsIt(c) == (call'[c].ok <=> Good(c)) /\ (Good(c) => call'[c].text = TextThere(c))

LEMMA ReadersAre ==
  ASSUME NEW c, call[c].req.tool \in Readers
  PROVE  /\ call[c].req.tool \notin TwoPathTools \cup DirTools \cup FindOnly
         /\ call[c].req.tool \notin {"list_directory", "write_file", "create_directory",
                                     "delete_file", "delete_directory", "resources/list"}
BY DEF Readers, TwoPathTools, DirTools, FindOnly

(* A call that is refused before it has resolved its path. *)
LEMMA RefusedIs ==
  ASSUME IInv, NEW c, Running(c), Undisturbed(c), call[c].req.tool \in Readers,
         CheckLinks(c) \/ Canonicalize(c), call'[c].pc = "done"
  PROVE  Fails(c) /\ ~LeadsToFile(Asked(c))
<1>1. /\ c \in Calls /\ DOMAIN call = Calls /\ CallOK(c) /\ Shape(call[c], c) /\ WellFormed(tree)
      /\ Live(c) /\ call[c].got \in Seq(Resolved)
      /\ {"req", "pc", "got"} \subseteq DOMAIN call[c]
  BY RunningHas DEF Running
<1>2. call[c].pc \in {"check", "canon"}
  BY DEF CheckLinks, Canonicalize
<1>3. Len(call[c].got) = 0 /\ Len(call[c].req.paths) = 1
  <2>1. Len(call[c].req.paths) = 1
    <3>1. call[c].req.tool \notin TwoPathTools /\ call[c].req.tool # "resources/list"
      BY ReadersAre
    <3> QED BY <1>1, <3>1, PathsOf DEF Shape
  <2>2. Len(call[c].got) < Len(call[c].req.paths)
    BY <1>1, <1>2 DEF Shape
  <2> DEFINE n == Len(call[c].got)
  <2>3. n \in Nat
    BY <1>1, LenIs
  <2>4. n < 1
    BY <2>1, <2>2
  <2> HIDE DEF n
  <2>5. n = 0
    BY <2>3, <2>4
  <2> QED BY <2>1, <2>5 DEF n
<1>4. NextPath(c) = Asked(c)
  <2>1. Len(call[c].got) + 1 = 1
    BY <1>3
  <2> QED BY <2>1 DEF NextPath, Asked
<1>5. Asked(c) \in Seq(Names)
  <2>1. 1 \in 1..Len(call[c].req.paths)
    BY <1>3
  <2> QED BY <1>1, <2>1, PathsOf DEF Shape, Asked
<1> DEFINE names == Asked(c)
           here == RealPath(tree, names)
<1>6. NoPath \notin DOMAIN tree
  BY <1>1, NamesAssumption DEF WellFormed
<1>7. CASE CheckLinks(c)
  <2>1. Fails(c) /\ ~config.follow /\ HasLink(tree, names)
    <3>1. \/ Fails(c) /\ ~config.follow /\ HasLink(tree, names)
          \/ Steps(c, [pc |-> "canon"])
      BY <1>4, <1>7 DEF CheckLinks
    <3>2. ~Steps(c, [pc |-> "canon"])
      <4> SUFFICES ASSUME Steps(c, [pc |-> "canon"]) PROVE FALSE
        OBVIOUS
      <4> DEFINE fields == [pc |-> "canon"]
      <4>1. DOMAIN fields = {"pc"} /\ fields["pc"] = "canon" /\ Steps(c, fields)
        OBVIOUS
      <4> HIDE DEF fields
      <4>2. call'[c]["pc"] = "canon"
        BY <1>1, <4>1, StepsIs
      <4> QED BY <4>2
    <3> QED BY <3>1, <3>2
  <2>2. PICK k \in 1..Len(names) : Is(tree, UpTo(names, k), "link")
    BY <2>1 DEF HasLink
  <2>3. ASSUME LeadsToFile(names) PROVE FALSE
    <3>1. here = names /\ Is(tree, here, "file")
      BY <2>1, <2>3 DEF LeadsToFile
    <3>2. names \in DOMAIN tree /\ Is(tree, names, "file")
      BY <3>1 DEF Is
    <3> HIDE DEF names
    <3>3. k \in 0..Len(names) /\ (k < Len(names) \/ k = Len(names)) /\ Len(names) \in Nat
      BY <1>5, <2>2 DEF names
    <3>4. CASE k < Len(names)
      <4>1. Is(tree, UpTo(names, k), "dir")
        BY <1>1, <3>2, <3>3, <3>4, Directories
      <4> QED BY <2>2, <4>1 DEF Is
    <3>5. CASE k = Len(names)
      <4>1. UpTo(names, k) = names
        BY <1>5, <3>5 DEF UpTo, names
      <4> QED BY <2>2, <3>2, <4>1 DEF Is
    <3> QED BY <3>3, <3>4, <3>5
  <2> QED BY <2>1, <2>3
<1>8. CASE Canonicalize(c)
  <2> DEFINE path == CanonicalOrParent(tree, names)
  <2>1. Fails(c) /\ (path = NoPath \/ RootFor(path) \notin DOMAIN roots)
    <3> DEFINE r == [canonical |-> path, root |-> RootFor(path)]
               got == Append(call[c].got, r)
               pc == IF Len(got) < Len(call[c].req.paths) THEN "check" ELSE "run"
               fields == [got |-> got, pc |-> pc]
    <3>1. \/ Fails(c) /\ (path = NoPath \/ RootFor(path) \notin DOMAIN roots)
          \/ Steps(c, fields)
      BY <1>4, <1>8 DEF Canonicalize
    <3>2. ~Steps(c, fields)
      <4> SUFFICES ASSUME Steps(c, fields) PROVE FALSE
        OBVIOUS
      <4>1. DOMAIN fields = {"pc", "got"} /\ fields["pc"] = pc /\ pc # "done"
        OBVIOUS
      <4> HIDE DEF fields, pc
      <4>2. call'[c]["pc"] = pc
        BY <1>1, <4>1, StepsIs
      <4> QED BY <4>1, <4>2
    <3> QED BY <3>1, <3>2
  <2>2. ASSUME LeadsToFile(names) PROVE FALSE
    <3>1. PICK root \in trie.ends : Is(tree, here, "file") /\ IsPrefix(root, here)
      BY <2>2 DEF LeadsToFile
    <3>2. here # NoPath
      BY <1>6, <3>1 DEF Is
    <3>3. path = here /\ here \in Seq(Names)
      BY <1>1, <3>2, RealPathIs DEF CanonicalOrParent
    <3> HIDE DEF here, path, names
    <3>5. DOMAIN roots = trie.ends /\ trie.ends \subseteq Seq(Names)
      <4>1. roots # Unopened
        BY <1>1, <1>2 DEF CallOK
      <4>2. roots = [d \in trie.ends |-> d] /\ roots # Aborted
        BY <4>1 DEF Undisturbed, RootsInPlace
      <4>3. DOMAIN roots \subseteq Seq(Names)
        BY <4>1, <4>2 DEF IInv, RootsOK
      <4> QED BY <4>2, <4>3
    <3>4. RootFor(path) \in trie.ends
      <4>1. FindsRoot(TrieOf(trie.ends), trie.ends, path)
        BY <3>3, TrieFinds
      <4>2. FindsRoot(trie, trie.ends, path)
        BY <4>1 DEF IInv, TrieIsBuilt
      <4>3. root \in Above(trie.ends, path)
        <5>1. root \in Seq(Names) /\ IsPrefix(root, path) /\ path \in Seq(Names)
          BY <3>1, <3>3, <3>5
        <5>2. UpTo(path, Len(root)) = root /\ Len(root) <= Len(path)
          BY <5>1, PrefixIs
        <5>3. Len(root) \in 0..Len(path)
          BY <5>1, <5>2
        <5> QED BY <5>2, <5>3 DEF Above, Chain
      <4>4. LongestPrefix(trie, path) \in Above(trie.ends, path)
        BY <4>2, <4>3 DEF FindsRoot
      <4> QED BY <4>4 DEF Above, RootFor
    <3>6. path # NoPath
      BY <3>2, <3>3
    <3> QED BY <2>1, <3>4, <3>5, <3>6
  <2> QED BY <2>1, <2>2
<1> QED BY <1>7, <1>8

(* A call that reads, or that fails to. *)
LEMMA ReadEnds ==
  ASSUME IInv, KInv, NEW c, Running(c), Undisturbed(c), call[c].req.tool \in Readers,
         Step(c), call'[c].pc = "done"
  PROVE  ReadsIt(c)
<1>1. /\ c \in Calls /\ DOMAIN call = Calls /\ Live(c)
      /\ {"req", "pc", "got"} \subseteq DOMAIN call[c]
  BY RunningHas DEF Running
<1> DEFINE there == OpenPlace(c)
           at == HandlePlace(Path(c))
           text == TextThere(c)
<1>2. ASSUME Fails(c), ~Good(c) PROVE ReadsIt(c)
  <2>1. call'[c].ok = FALSE
    BY <1>1, <1>2, OutcomeIs
  <2> QED BY <1>2, <2>1 DEF ReadsIt
<1>3. ASSUME NEW place, WithText(c, place), Is(tree, place, "file"), Text(place) = text, Good(c)
      PROVE  ReadsIt(c)
  <2>1. Answers(c, [ok |-> TRUE, text |-> text])
    BY <1>3 DEF WithText
  <2> HIDE DEF text
  <2>2. call'[c].ok = TRUE /\ call'[c].text = text
    BY <1>1, <2>1, OutcomeIs
  <2> QED BY <1>3, <2>2 DEF ReadsIt, text
<1>4. CASE CheckLinks(c) \/ Canonicalize(c)
  BY <1>2, <1>4, RefusedIs DEF Good
<1>5. ASSUME call[c].pc \in Final
      PROVE  /\ there = RealPath(tree, Asked(c)) /\ Text(there) = text
             /\ Is(tree, there, "file") <=> LeadsToFile(Asked(c))
             /\ Found(Path(c), "file") <=> LeadsToFile(Asked(c))
             /\ Found(Path(c), "file") =>
                  Is(tree, at, "file") /\ Is(tree, there, "file") /\ Text(at) = text
  <2>1. /\ there = RealPath(tree, Asked(c))
        /\ Is(tree, there, "file") <=> LeadsToFile(Asked(c))
        /\ Found(Path(c), "file") <=> LeadsToFile(Asked(c))
        /\ Found(Path(c), "file") => at = RealPath(tree, Asked(c))
    BY <1>5, FoundIs DEF Asked
  <2> HIDE DEF there, at
  <2>2. Found(Path(c), "file") => Is(tree, at, "file")
    BY DEF Found, at
  <2> QED BY <2>1, <2>2 DEF TextThere
<1> HIDE DEF there, text, at
<1>6. CASE ReadByPath(c)
  <2>1. call[c].pc \in Final /\ call[c].req.tool = "read_file_range"
    BY <1>6 DEF ReadByPath, At, Final
  <2>2. IF Is(tree, there, "file") /\ text # <<>> /\ Len(text) <= MaxFileSize
          THEN WithText(c, there) ELSE Fails(c)
    BY <1>5, <1>6, <2>1 DEF ReadByPath, there
  <2>3. Good(c) <=> Is(tree, there, "file") /\ text # <<>> /\ Len(text) <= MaxFileSize
    BY <1>5, <2>1 DEF Good, text
  <2> QED BY <1>2, <1>3, <1>5, <2>1, <2>2, <2>3
<1>7. CASE StatByHandle(c)
  <2>1. call[c].pc \in Final /\ call[c].req.tool \in StatThenRead
    BY <1>7 DEF StatByHandle, At, Final
  <2>2. ~Steps(c, [pc |-> "read"])
    <3> SUFFICES ASSUME Steps(c, [pc |-> "read"]) PROVE FALSE
      OBVIOUS
    <3> DEFINE fields == [pc |-> "read"]
    <3>1. DOMAIN fields = {"pc"} /\ fields["pc"] = "read" /\ Steps(c, fields)
      OBVIOUS
    <3> HIDE DEF fields
    <3>2. call'[c]["pc"] = "read"
      BY <1>1, <3>1, StepsIs
    <3> QED BY <3>2
  <2>3. Fails(c) /\ ~(Found(Path(c), "file") /\ Len(Text(at)) <= MaxFileSize)
    BY <1>7, <2>2 DEF StatByHandle, Small, at
  <2>4. ~Good(c)
    BY <1>5, <2>1, <2>3 DEF Good, text
  <2> QED BY <1>2, <2>3, <2>4
<1>8. CASE ReadAfterStat(c) \/ ReadResource(c)
  <2>1. call[c].pc = "read" /\ call[c].pc \in Final /\ call[c].req.tool # "read_file_range"
    BY <1>8 DEF ReadAfterStat, ReadResource, At, Final, StatThenRead
  <2>2. Looks(c)
    BY <1>1, <2>1 DEF KInv, Known, Undisturbed
  <2>3. /\ LeadsToFile(Asked(c)) /\ Is(tree, at, "file") /\ Is(tree, there, "file")
        /\ Text(at) = text /\ Text(there) = text
        /\ call[c].req.tool = "hash_file" \/ Len(text) <= MaxFileSize
    BY <1>5, <2>1, <2>2 DEF Looks, Small, at
  <2>4. Good(c) <=> Len(text) <= MaxFileSize
    BY <2>1, <2>3 DEF Good, text
  <2>5. CASE ReadResource(c)
    <3>1. WithText(c, at) /\ call[c].req.tool # "hash_file"
      BY <2>5 DEF ReadResource, At, at
    <3> QED BY <1>3, <2>3, <2>4, <3>1
  <2>6. CASE ReadAfterStat(c)
    <3>1. IF call[c].req.tool = "hash_file" /\ ~(Len(text) <= MaxFileSize)
            THEN Fails(c) ELSE WithText(c, there)
      BY <2>3, <2>6 DEF ReadAfterStat, Small, there
    <3> QED BY <1>2, <1>3, <2>3, <2>4, <3>1
  <2> QED BY <1>8, <2>5, <2>6
<1>9. CASE \/ Rename(c) \/ Copy(c) \/ CreateSymlink(c) \/ FindByHandle(c) \/ ListByHandle(c)
           \/ WriteByHandle(c) \/ CreateDirectory(c) \/ DeleteFile(c) \/ DeleteDirectory(c)
           \/ WalkByPath(c) \/ ResolveAgain(c) \/ DeleteFileFound(c) \/ ListResources(c)
  <2>1. /\ call[c].req.tool \notin TwoPathTools \cup DirTools \cup FindOnly
        /\ call[c].req.tool \notin {"list_directory", "write_file", "create_directory",
                                    "delete_file", "delete_directory", "resources/list"}
    BY ReadersAre
  <2>2. {"move_file", "copy_file", "create_symlink"} \subseteq TwoPathTools
    BY DEF TwoPathTools
  <2> QED BY <1>9, <2>1, <2>2
         DEF Rename, Copy, CreateSymlink, FindByHandle, ListByHandle, WriteByHandle,
             CreateDirectory, DeleteFile, DeleteDirectory, WalkByPath, ResolveAgain,
             DeleteFileFound, ListResources, At
<1> QED BY <1>4, <1>6, <1>7, <1>8, <1>9, Zenon DEF Step

(* Who ends a call: it does so itself.                                     *)
LEMMA EndsItself ==
  ASSUME Opaque, IInv, [Next]_vars, NEW c \in Calls, Answered(c)
  PROVE  Running(c) /\ Step(c)
<1>1. Live(c) /\ call'[c].pc = "done" /\ call[c].pc # "done" /\ call' # call
  BY DEF Answered, Live
<1>2. /\ roots # Aborted /\ UNCHANGED <<config, trie>>
      /\ \/ \E d \in Calls :
              \/ Opens(d)
              \/ ((\E r \in Requests[d] : Start(d, r)) \/ Step(d)) /\ Disturbs({d})
         \/ Change
  BY <1>1 DEF Next, Rest, vars
<1>3. ~Change
  BY <1>1 DEF Change
<1>4. PICK d \in Calls :
        \/ Opens(d)
        \/ ((\E r \in Requests[d] : Start(d, r)) \/ Step(d)) /\ Disturbs({d})
  BY <1>2, <1>3
<1>5. ASSUME Moves(d) PROVE c = d
  BY <1>1, <1>5 DEF Moves
<1>6. CASE Opens(d)
  <2>1. Open(d) /\ Running(d)
    BY <1>2, <1>6, StepIsLive DEF Opens, Running
  <2>2. Kept(d)
    BY <2>1, OpenKeeps
  <2>3. c = d
    BY <1>5, <2>2 DEF Kept
  <2> DEFINE fields == [pc |-> "check"]
  <2>4. DOMAIN fields = {"pc"} /\ fields["pc"] = "check" /\ Steps(d, fields)
    BY <2>1 DEF Open
  <2> HIDE DEF fields
  <2>5. call'[d]["pc"] = "check"
    BY <2>1, <2>4, RunningHas, StepsIs
  <2> QED BY <1>1, <2>3, <2>5
<1>7. CASE \E r \in Requests[d] : Start(d, r)
  <2>1. Moves(d) /\ call[d] = Idle
    BY <1>7, StartKnows DEF Start
  <2>2. c = d
    BY <1>5, <2>1
  <2> QED BY <1>1, <2>1, <2>2 DEF Live, Idle
<1>8. CASE Step(d) /\ Disturbs({d})
  <2>1. Running(d)
    BY <1>2, <1>8, StepIsLive, AloneIs DEF Running
  <2>2. Kept(d)
    BY <1>2, <1>8, <2>1, StepKeeps
  <2> QED BY <1>5, <1>8, <2>1, <2>2 DEF Kept
<1> QED BY <1>4, <1>6, <1>7, <1>8

(* A tool that reads answers with the text of the file its path leads to,  *)
(* whichever way it goes, unless somebody has changed the tree meanwhile.  *)
THEOREM ReadsTheFile ==
  ASSUME Opaque
  PROVE  Spec => ReadsWhatIsThere
<1> DEFINE A == \A c \in Calls :
                  (Answered(c) /\ Undisturbed(c) /\ call[c].req.tool \in Readers) =>
                    LET names == Normal(ToAbs(call[c].req.paths[1]))
                        text == Text(RealPath(tree, names))
                        good == /\ LeadsToFile(names)
                                /\ Len(text) <= MaxFileSize
                                /\ call[c].req.tool = "read_file_range" => text # <<>>
                    IN /\ call'[c].ok <=> good
                       /\ good => call'[c].text = text
<1>1. IInv /\ KInv /\ [Next]_vars => IInv' /\ KInv'
  BY InvariantStays, KnownStays
<1>2. IInv /\ KInv /\ [Next]_vars => [A]_vars
  <2> SUFFICES ASSUME IInv, KInv, [Next]_vars,
                      NEW c \in Calls, Answered(c), Undisturbed(c), call[c].req.tool \in Readers
               PROVE  ReadsIt(c)
    BY Zenon DEF ReadsIt, Good, TextThere, Asked
  <2>1. Running(c) /\ Step(c) /\ call'[c].pc = "done"
    BY EndsItself DEF Answered
  <2> QED BY <2>1, ReadEnds
<1> HIDE DEF A
<1>3. Init => IInv /\ KInv
  BY InvariantStarts, KnownStarts
<1>4. Spec => [][A]_vars
  BY <1>1, <1>2, <1>3, PTL DEF Spec
<1> QED BY <1>4, Zenon DEF A, ReadsWhatIsThere

-----------------------------------------------------------------------------
(***************************************************************************)
(* The changes of a tree.                                                  *)
(***************************************************************************)

(* What differs between two trees. *)
Differs(t, u) ==
  {p \in DOMAIN t \cup DOMAIN u : (p \in DOMAIN t) # (p \in DOMAIN u) \/ t[p] # u[p]}

LEMMA PutIs ==
  ASSUME NEW t, NEW place, NEW node
  PROVE  LET u == Put(t, place, node)
         IN /\ place \in DOMAIN u /\ u[place] = node
            /\ Differs(t, u) \subseteq {place}
            /\ place \notin DOMAIN t => Differs(t, u) = {place}
<1> DEFINE u == Put(t, place, node)
<1>1. /\ DOMAIN u = DOMAIN t \cup {place}
      /\ u[place] = node
      /\ \A p \in DOMAIN t : p # place => u[p] = t[p]
  BY DEF Put
<1> HIDE DEF u
<1>2. place \in DOMAIN u
  BY <1>1
<1>3. ASSUME NEW p \in Differs(t, u) PROVE p = place
  <2>1. p \in DOMAIN u /\ (p \in DOMAIN t => t[p] # u[p])
    BY <1>1 DEF Differs
  <2> QED BY <1>1, <2>1
<1>4. ASSUME place \notin DOMAIN t PROVE place \in Differs(t, u)
  BY <1>2, <1>4 DEF Differs
<1> QED BY <1>1, <1>2, <1>3, <1>4 DEF u

LEMMA WithoutIs ==
  ASSUME NEW t, NEW gone \in SUBSET DOMAIN t
  PROVE  DOMAIN Without(t, gone) = DOMAIN t \ gone /\ Differs(t, Without(t, gone)) = gone
<1> DEFINE u == Without(t, gone)
<1>1. /\ DOMAIN u = DOMAIN t \ gone
      /\ \A p \in DOMAIN u : u[p] = t[p]
  BY DEF Without, Restrict
<1> HIDE DEF u
<1>2. ASSUME NEW p \in Differs(t, u) PROVE p \in gone
  BY <1>1 DEF Differs
<1>3. ASSUME NEW p \in gone PROVE p \in Differs(t, u)
  BY <1>1 DEF Differs
<1> QED BY <1>1, <1>2, <1>3 DEF u

(* What is below an entry is in it. *)
LEMMA BelowHas ==
  ASSUME NEW t, WellFormed(t), NEW place \in Seq(Names), NEW p \in Below(t, place), p # place
  PROVE  Is(t, place, "dir") /\ Children(t, place) # {}
<1>1. p \in DOMAIN t /\ p \in Seq(Names) /\ IsPrefix(place, p)
  BY DEF Below, WellFormed
<1>2. UpTo(p, Len(place)) = place /\ Len(place) <= Len(p) /\ UpTo(p, Len(p)) = p
  <2>1. UpTo(p, Len(place)) = place /\ Len(place) <= Len(p)
    BY <1>1, PrefixIs
  <2> QED BY <1>1, <2>1 DEF UpTo
<1>3. Len(place) \in Nat /\ Len(p) \in Nat /\ Len(place) # Len(p)
  <2>1. Len(place) # Len(p)
    BY <1>2
  <2> QED BY <1>1, <2>1
<1> DEFINE k == Len(place)
<1>4. k \in 0..Len(p) /\ k < Len(p) /\ k + 1 \in 0..Len(p) /\ k \in 0..k + 1
  BY <1>2, <1>3
<1> HIDE DEF k
<1>5. Is(t, place, "dir")
  <2>1. UpTo(p, k) = place
    BY <1>2 DEF k
  <2>2. Is(t, UpTo(p, k), "dir")
    BY <1>1, <1>4, Directories
  <2> QED BY <2>1, <2>2
<1> DEFINE child == UpTo(p, k + 1)
<1>6. child \in Seq(Names) /\ Len(child) = k + 1 /\ child \in DOMAIN t
  BY <1>1, <1>4, Directories
<1>7. UpTo(child, k) = place
  <2>1. UpTo(child, k) = UpTo(p, k)
    BY <1>1, <1>4, UpToUpTo
  <2> QED BY <1>2, <2>1 DEF k
<1> HIDE DEF child
<1>8. child # <<>> /\ Front(child) = place
  <2>1. k \in Nat /\ (k + 1) - 1 = k /\ k + 1 # 0
    BY <1>3 DEF k
  <2>2. child # <<>>
    BY <1>6, <2>1, LenIs
  <2>3. Front(child) = UpTo(child, k)
    BY <1>6, <2>1 DEF Front, UpTo
  <2> QED BY <1>7, <2>2, <2>3
<1> QED BY <1>5, <1>6, <1>8 DEF Children

(* An entry and all that is in it is where it was moved to, and nothing    *)
(* else has changed.                                                       *)
LEMMA RenamedIs ==
  ASSUME NEW t, WellFormed(t), NEW from \in Seq(Names), NEW to \in Seq(Names),
         MayRename(t, from, to), Differs(t, Renamed(t, from, to)) # {}
  PROVE  LET u == Renamed(t, from, to)
         IN /\ Differs(t, u) \subseteq Below(t, from) \cup Below(u, to)
            /\ from \notin DOMAIN u
            /\ Below(u, to) = {Moved(p, from, to) : p \in Below(t, from)}
            /\ \A p \in Below(t, from) : u[Moved(p, from, to)] = t[p]
<1> DEFINE u == Renamed(t, from, to)
           moved == {to \o Suffix(p, from) : p \in Below(t, from)}
           kept == DOMAIN t \ (Below(t, from) \cup Below(t, to))
<1>1. /\ DOMAIN u = moved \cup kept
      /\ \A p \in moved : u[p] = t[from \o Suffix(p, to)]
      /\ \A p \in kept : p \notin moved => u[p] = t[p]
  BY DEF Renamed
<1>2. ASSUME NEW q \in Below(t, from)
      PROVE  /\ q \in DOMAIN t /\ q \in Seq(Names) /\ q = from \o Suffix(q, from)
             /\ Moved(q, from, to) = to \o Suffix(q, from)
             /\ Moved(q, from, to) \in moved /\ Moved(q, from, to) \in Seq(Names)
             /\ IsPrefix(to, Moved(q, from, to)) /\ u[Moved(q, from, to)] = t[q]
  <2>1. q \in DOMAIN t /\ q \in Seq(Names) /\ IsPrefix(from, q)
    BY DEF Below, WellFormed
  <2>2. Suffix(q, from) \in Seq(Names) /\ q = from \o Suffix(q, from)
    BY <2>1, PrefixIs
  <2>0. Moved(q, from, to) = to \o Suffix(q, from)
    BY <2>1 DEF Moved
  <2> DEFINE s == Suffix(q, from)
  <2> HIDE DEF s
  <2>3. to \o s \in Seq(Names) /\ IsPrefix(to, to \o s) /\ Suffix(to \o s, to) = s
    BY <2>2, JoinedIs DEF s
  <2>4. to \o s \in moved
    BY DEF s
  <2>5. u[to \o s] = t[from \o s]
    <3> HIDE DEF u, moved
    <3> QED BY <1>1, <2>3, <2>4
  <2> HIDE DEF u, moved
  <2> QED BY <2>0, <2>1, <2>2, <2>3, <2>4, <2>5 DEF s
<1>3. ASSUME NEW p \in moved PROVE \E q \in Below(t, from) : p = Moved(q, from, to)
  <2>1. PICK q \in Below(t, from) : p = to \o Suffix(q, from)
    BY <1>3
  <2>2. Moved(q, from, to) = to \o Suffix(q, from)
    BY <1>2
  <2> QED BY <2>1, <2>2
<1>4. \A p \in kept : p \in DOMAIN t /\ p \in Seq(Names) /\ ~IsPrefix(from, p) /\ ~IsPrefix(to, p)
  BY DEF WellFormed, Below
<1>5. \A p \in moved : p \in Seq(Names) /\ IsPrefix(to, p)
  BY <1>2, <1>3, ZenonT(60)
<1>6. \A p \in kept : p \notin moved /\ u[p] = t[p]
  BY <1>1, <1>4, <1>5
<1>7. ASSUME NEW p \in DOMAIN t, ~IsPrefix(from, p), ~IsPrefix(to, p)
      PROVE  p \in kept
  BY <1>7 DEF Below
<1> HIDE DEF u, moved, kept
<1>8. from \in Below(t, from)
  <2>1. from \in DOMAIN t /\ IsPrefix(from, from)
    BY FrontIsPrefix DEF MayRename
  <2> QED BY <2>1 DEF Below
<1>9. from # to
  <2> SUFFICES ASSUME from = to PROVE FALSE
    OBVIOUS
  <2>1. ASSUME NEW q \in Below(t, from) PROVE Moved(q, from, to) = q /\ u[q] = t[q] /\ q \in moved
    BY <1>2, <2>1
  <2>2. ASSUME NEW p \in DOMAIN t \cup DOMAIN u
        PROVE  p \in DOMAIN t /\ p \in DOMAIN u /\ u[p] = t[p]
    <3>1. CASE p \in Below(t, from)
      BY <1>1, <1>2, <2>1, <3>1
    <3>2. CASE p \notin Below(t, from)
      <4>1. p \notin moved
        BY <1>3, <2>1, <3>2
      <4>2. p \in kept
        <5>1. CASE p \in DOMAIN t
          BY <1>7, <3>2, <5>1 DEF Below
        <5>2. CASE p \in DOMAIN u
          BY <1>1, <4>1, <5>2
        <5> QED BY <5>1, <5>2
      <4> QED BY <1>1, <1>4, <1>6, <4>2
    <3> QED BY <3>1, <3>2
  <2>3. Differs(t, u) = {}
    BY <2>2 DEF Differs
  <2> QED BY <2>3 DEF u
<1>10. ASSUME NEW p \in Below(t, to), p # to PROVE FALSE
  <2>1. Is(t, to, "dir") /\ Children(t, to) # {}
    BY <1>10, BelowHas
  <2> QED BY <1>9, <2>1 DEF MayRename, Is
<1>11. Below(u, to) = {Moved(p, from, to) : p \in Below(t, from)}
  <2>1. ASSUME NEW p \in Below(u, to) PROVE \E q \in Below(t, from) : p = Moved(q, from, to)
    <3>1. p \in DOMAIN u /\ IsPrefix(to, p)
      BY DEF Below
    <3>2. p \in moved
      BY <1>1, <1>4, <3>1
    <3> QED BY <1>3, <3>2
  <2>2. ASSUME NEW q \in Below(t, from) PROVE Moved(q, from, to) \in Below(u, to)
    BY <1>1, <1>2, <2>2 DEF Below
  <2> QED BY <2>1, <2>2
<1>12. from \notin DOMAIN u
  <2>1. from \notin kept
    BY <1>4, <1>8 DEF Below
  <2>2. from \notin moved
    <3> SUFFICES ASSUME from \in moved PROVE FALSE
      OBVIOUS
    <3>1. IsPrefix(to, from)
      BY <1>5
    <3>2. from \in Below(t, to)
      BY <1>2, <1>8, <3>1 DEF Below
    <3> QED BY <1>9, <1>10, <3>2
  <2> QED BY <1>1, <2>1, <2>2
<1>13. ASSUME NEW p \in Differs(t, u) PROVE p \in Below(t, from) \cup Below(u, to)
  <2> SUFFICES ASSUME p \notin Below(t, from), p \notin Below(u, to) PROVE FALSE
    OBVIOUS
  <2>1. p \in DOMAIN t \cup DOMAIN u
    BY DEF Differs
  <2>2. p \notin moved
    BY <1>2, <1>3, <1>11
  <2>3. CASE p \in kept
    <3>1. p \in DOMAIN t /\ p \in DOMAIN u /\ u[p] = t[p]
      BY <1>1, <1>4, <1>6, <2>3
    <3> QED BY <3>1 DEF Differs
  <2>4. CASE p \notin kept
    <3>1. p \in DOMAIN t /\ IsPrefix(to, p)
      BY <1>1, <1>7, <2>1, <2>2, <2>4 DEF Below
    <3>2. p = to
      BY <1>10, <3>1 DEF Below
    <3>3. Moved(from, from, to) = to
      <4>1. Suffix(from, from) \in Seq(Names) /\ from = from \o Suffix(from, from)
            /\ Moved(from, from, to) = to \o Suffix(from, from)
        <5>1. IsPrefix(from, from)
          BY FrontIsPrefix
        <5> QED BY <1>2, <1>8, <5>1, PrefixIs
      <4> DEFINE s == Suffix(from, from)
      <4> HIDE DEF s
      <4>2. s \in Seq(Names) /\ from = from \o s /\ Moved(from, from, to) = to \o s
        BY <4>1 DEF s
      <4>3. s = <<>>
        BY <4>2
      <4> QED BY <4>2, <4>3
    <3> QED BY <1>2, <1>8, <2>2, <3>2, <3>3
  <2> QED BY <2>3, <2>4
<1> QED BY <1>2, <1>11, <1>12, <1>13 DEF u

-----------------------------------------------------------------------------
(***************************************************************************)
(* The tools that change the tree.                                         *)
(***************************************************************************)

LEMMA ChangedIs == Changed = Differs(tree, tree')
BY DEF Changed, Differs

(* Where a reported path leads, by its handle and without.                 *)
LEMMA PathLeads ==
  ASSUME IInv, KInv, NEW c, Running(c), Undisturbed(c), call[c].pc \in Final,
         NEW i \in 1..Len(call[c].got)
  PROVE  LET r == call[c].got[i]
         IN /\ r.canonical \in Seq(Names) /\ r.canonical # NoPath
            /\ r.canonical = PathAgain(c, i)
            /\ r.root = RootFor(r.canonical) /\ r.root \in Seq(Names)
            /\ IsPrefix(r.root, r.canonical) /\ HandleOf(r) = r.root /\ Is(tree, r.root, "dir")
            /\ HandlePlace(r) \in {Place(tree, r.canonical), NoPath}
            /\ HandleEntry(r) \in {r.canonical, NoPath}
            /\ EntryPlace(tree, <<>>, FALSE, r.canonical) \in {r.canonical, NoPath}
<1> DEFINE r == call[c].got[i]
           names == Normal(ToAbs(call[c].req.paths[i]))
           q == CanonicalOrParent(tree, names)
<1>1. /\ names \in Seq(Names) /\ Complete(tree, names)
      /\ r.canonical = q /\ r.canonical \in Seq(Names) /\ r.canonical # NoPath
      /\ r.root = RootFor(r.canonical) /\ r.root \in trie.ends
      /\ r.root \in Seq(Names) /\ Is(tree, r.root, "dir") /\ IsPrefix(r.root, r.canonical)
      /\ HandleOf(r) = r.root
  BY HandleIs
<1>2. WellFormed(tree)
  BY DEF IInv
<1>3. q = PathAgain(c, i)
  BY DEF PathAgain
<1> HIDE DEF r, names
<1>4. /\ HandlePlace(r) = PlaceOf(tree, r.root, TRUE, Suffix(q, r.root))
      /\ HandleEntry(r) = EntryPlace(tree, r.root, TRUE, Suffix(q, r.root))
  BY <1>1 DEF HandlePlace, HandleEntry, RelOf
<1>5. Place(tree, q) = Place(tree, names)
  BY <1>1, <1>2, CanonicalIsPlace
<1>6. PlaceOf(tree, r.root, TRUE, Suffix(q, r.root)) \in {Place(tree, names), NoPath}
  BY <1>1, <1>2, CanonicalIsPlace
<1>7. EntryPlace(tree, r.root, TRUE, Suffix(q, r.root)) \in {q, NoPath}
  BY <1>1, <1>2, CanonicalEntry
<1>8. EntryPlace(tree, <<>>, FALSE, q) \in {q, NoPath}
  <2> DEFINE none == <<>>
  <2>1. none \in Seq(Names) /\ FALSE \in BOOLEAN /\ q \in Seq(Names)
    BY <1>1
  <2>2. Is(tree, none, "dir")
    <3> DEFINE root == r.root
    <3>1. root \in DOMAIN tree /\ root \in Seq(Names) /\ Is(tree, root, "dir")
      BY <1>1 DEF Is
    <3> HIDE DEF root
    <3>2. 0 \in 0..Len(root) /\ UpTo(root, 0) = <<>>
      BY <3>1 DEF UpTo
    <3>3. 0 < Len(root) => Is(tree, UpTo(root, 0), "dir")
      BY <1>2, <3>1, <3>2, Directories
    <3>4. 0 < Len(root) \/ root = <<>>
      BY <3>1
    <3> QED BY <3>1, <3>2, <3>3, <3>4
  <2>3. IsPrefix(none, q) /\ Suffix(q, none) = q
    BY <2>1, WholeSuffix
  <2> HIDE DEF none, q
  <2>4. ASSUME NEW beneath \in BOOLEAN
        PROVE  EntryPlace(tree, none, beneath, Suffix(q, none)) \in {q, NoPath}
    <3>1. q # NoPath
      BY <1>1
    <3> QED BY <1>1, <1>2, <2>1, <2>2, <2>3, <3>1, CanonicalEntry DEF q
  <2>5. EntryPlace(tree, none, FALSE, q) \in {q, NoPath}
    BY <2>3, <2>4
  <2> QED BY <2>5 DEF none
<1> HIDE DEF q
<1>9. /\ HandlePlace(r) \in {Place(tree, r.canonical), NoPath}
      /\ HandleEntry(r) \in {r.canonical, NoPath}
      /\ EntryPlace(tree, <<>>, FALSE, r.canonical) \in {r.canonical, NoPath}
  BY <1>1, <1>4, <1>5, <1>6, <1>7, <1>8
<1> QED BY <1>1, <1>3, <1>9, Zenon DEF r

(* The call has two paths, and works on what it has reported.              *)
LEMMA ApplyIs ==
  ASSUME IInv, KInv, NEW c, Running(c), Undisturbed(c), call[c].pc = "apply",
         call[c].req.tool \in TwoPathTools
  PROVE  /\ 1 \in 1..Len(call[c].got) /\ 2 \in 1..Len(call[c].got)
         /\ call[c].src = call[c].got[1].canonical
         /\ call[c].dst = call[c].got[2].canonical
<1>1. c \in Calls /\ Shape(call[c], c) /\ Live(c)
  BY RunningHas DEF Running
<1>2. Len(call[c].req.paths) = 2
  BY <1>1, PathsOf DEF Shape
<1>3. Known(c) /\ alone[c]
  BY <1>1 DEF KInv, Undisturbed
<1>4. Len(call[c].got) = 2
  BY <1>1, <1>2, <1>3 DEF Known, Final
<1>5. 1 \in 1..Len(call[c].got) /\ 2 \in 1..Len(call[c].got)
  BY <1>4
<1>6. call[c].src = PathAgain(c, 1) /\ call[c].dst = PathAgain(c, 2)
  BY <1>1, <1>3 DEF Known
<1>7. ResolvedAs(c, 1) /\ ResolvedAs(c, 2)
  BY <1>1, <1>3, <1>5 DEF Known
<1> QED BY <1>5, <1>6, <1>7 DEF ResolvedAs

(* A file that has been written is where the path leads.                   *)
LEMMA WrittenIs ==
  ASSUME NEW t, WellFormed(t), NEW path \in Seq(Names), MayWrite(t, Place(t, path)),
         NEW node, IsNode(node), node.kind = "file"
  PROVE  LET u == Put(t, Place(t, path), node)
         IN /\ RealPath(u, path) = Place(t, path)
            /\ Differs(t, u) \subseteq {RealPath(u, path)}
            /\ u[RealPath(u, path)] = node
<1> DEFINE at == Place(t, path)
           u == Put(t, at, node)
<1>1. path \in Seq(Parts)
  BY DEF Parts
<1>2. at # NoPath /\ at \in Seq(Names)
  <2>1. at # NoPath
    BY DEF MayWrite
  <2>2. ASSUME NEW beneath \in BOOLEAN
        PROVE  LET place == PlaceOf(t, <<>>, beneath, path)
               IN place # NoPath => place \in Seq(Names)
    BY <1>1, PlaceIs
  <2> QED BY <2>1, <2>2 DEF Place
<1>3. WellFormed(u)
  <2>1. ASSUME NEW beneath \in BOOLEAN, MayWrite(t, PlaceOf(t, <<>>, beneath, path))
        PROVE  WellFormed(Put(t, PlaceOf(t, <<>>, beneath, path), node))
    BY <1>1, <2>1, WriteIs
  <2> QED BY <2>1 DEF Place
<1>4. Place(u, path) = at
  BY <1>1, <1>2, <1>3, SameWay
<1>5. at \in DOMAIN u /\ u[at] = node /\ Differs(t, u) \subseteq {at}
  BY PutIs
<1> HIDE DEF at, u
<1>6. RealPath(u, path) = at
  BY <1>4, <1>5 DEF RealPath
<1> QED BY <1>5, <1>6 DEF at, u

LEMMA WriteReports ==
  ASSUME IInv, KInv, NEW c, Running(c), Undisturbed(c), WriteByHandle(c),
         Changed # {}, call'[c].ok
  PROVE  AsReported(c)
<1>1. call[c].pc \in Final /\ call[c].req.tool = "write_file"
  BY DEF WriteByHandle, At, Final
<1> DEFINE one == Path(c).canonical
           node == File(call[c].req.text)
           at == HandlePlace(Path(c))
<1>2. one \in Seq(Names) /\ at \in {Place(tree, one), NoPath}
  BY <1>1, FirstPath, PathLeads DEF Path
<1>3. DOMAIN call = Calls /\ c \in Calls /\ WellFormed(tree)
  BY RunningHas
<1>4. MayWrite(tree, at) /\ tree' = Put(tree, at, node)
  <2>1. Fails(c) => ~call'[c].ok
    BY <1>3, OutcomeIs
  <2> QED BY <2>1 DEF WriteByHandle, Becomes
<1>5. at = Place(tree, one)
  BY <1>2, <1>4 DEF MayWrite
<1>6. IsNode(node) /\ node.kind = "file"
  BY FileIs
<1> HIDE DEF one, node, at
<1>7. /\ Differs(tree, tree') \subseteq {RealPath(tree', one)}
      /\ tree'[RealPath(tree', one)] = node
  BY <1>2, <1>3, <1>4, <1>5, <1>6, WrittenIs
<1> QED BY <1>1, <1>7, ChangedIs DEF AsReported, one, node, Path

LEMMA CopyReports ==
  ASSUME IInv, KInv, NEW c, Running(c), Undisturbed(c), Copy(c), Changed # {}, call'[c].ok
  PROVE  AsReported(c)
<1>1. call[c].pc = "apply" /\ call[c].pc \in Final /\ call[c].req.tool = "copy_file"
  BY DEF Copy, At, Final
<1>2. DOMAIN call = Calls /\ c \in Calls /\ WellFormed(tree)
  BY RunningHas
<1> DEFINE one == call[c].got[1].canonical
           two == call[c].got[2].canonical
           from == RealPath(tree, one)
           to == Place(tree, two)
           node == IF from = to THEN File(<<>>) ELSE tree[from]
<1>3. /\ 1 \in 1..Len(call[c].got) /\ 2 \in 1..Len(call[c].got)
      /\ call[c].src = one /\ call[c].dst = two
  BY <1>1, ApplyIs DEF TwoPathTools
<1>4. two \in Seq(Names)
  BY <1>1, <1>3, PathLeads
<1>5. Is(tree, from, "file") /\ MayWrite(tree, to) /\ tree' = Put(tree, to, node)
  <2>1. Fails(c) => ~call'[c].ok
    BY <1>2, OutcomeIs
  <2> QED BY <1>3, <2>1 DEF Copy, Becomes
<1>6. IsNode(node) /\ node.kind = "file"
  <2>1. IsNode(tree[from]) /\ tree[from].kind = "file"
    BY <1>2, <1>5 DEF WellFormed, Is
  <2> QED BY <2>1, FileIs
<1> HIDE DEF one, two, node
<1>7. /\ Differs(tree, tree') \subseteq {RealPath(tree', two)}
      /\ tree'[RealPath(tree', two)] = node /\ RealPath(tree', two) = to
  BY <1>2, <1>4, <1>5, <1>6, WrittenIs
<1>8. RealPath(tree', two) # RealPath(tree, one) =>
        tree'[RealPath(tree', two)] = tree[RealPath(tree, one)]
  BY <1>7 DEF node
<1> QED BY <1>1, <1>7, <1>8, ChangedIs DEF AsReported, one, two

LEMMA SymlinkReports ==
  ASSUME IInv, KInv, NEW c, Running(c), Undisturbed(c), CreateSymlink(c),
         Changed # {}, call'[c].ok
  PROVE  AsReported(c)
<1>1. call[c].pc = "apply" /\ call[c].pc \in Final /\ call[c].req.tool = "create_symlink"
  BY DEF CreateSymlink, At, Final
<1>2. DOMAIN call = Calls /\ c \in Calls
  BY RunningHas
<1> DEFINE one == call[c].got[1].canonical
           two == call[c].got[2].canonical
           place == EntryPlace(tree, <<>>, FALSE, two)
           node == Link(From(one))
<1>3. /\ 1 \in 1..Len(call[c].got) /\ 2 \in 1..Len(call[c].got)
      /\ call[c].src = one /\ call[c].dst = two
  BY <1>1, ApplyIs DEF TwoPathTools
<1>4. place \in {two, NoPath}
  BY <1>1, <1>3, PathLeads
<1>5. place # NoPath /\ place \notin DOMAIN tree /\ tree' = Put(tree, place, node)
  <2>1. Fails(c) => ~call'[c].ok
    BY <1>2, OutcomeIs
  <2> QED BY <1>3, <2>1 DEF CreateSymlink, Becomes
<1> HIDE DEF one, two, place, node
<1>6. Differs(tree, tree') = {two} /\ tree'[two] = node
  BY <1>4, <1>5, PutIs
<1> QED BY <1>1, <1>6, ChangedIs DEF AsReported, one, two, node

LEMMA DeleteFileReports ==
  ASSUME IInv, KInv, NEW c, Running(c), Undisturbed(c), DeleteFile(c), Changed # {}, call'[c].ok
  PROVE  AsReported(c)
<1>1. call[c].pc \in Final /\ call[c].req.tool = "delete_file"
  BY DEF DeleteFile, At, Final
<1>2. DOMAIN call = Calls /\ c \in Calls /\ WellFormed(tree)
  BY RunningHas
<1> DEFINE one == Path(c).canonical
           entry == HandleEntry(Path(c))
<1>3. one \in Seq(Names) /\ one # NoPath /\ entry \in {one, NoPath}
  BY <1>1, FirstPath, PathLeads, ZenonT(60) DEF Path
<1>4. entry \in DOMAIN tree /\ tree[entry].kind # "dir" /\ tree' = Without(tree, {entry})
  <2>1. Fails(c) => ~call'[c].ok
    BY <1>2, OutcomeIs
  <2> QED BY <2>1 DEF DeleteFile, Becomes
<1> HIDE DEF one, entry
<1>5. entry = one
  <2>1. NoPath \notin DOMAIN tree
    BY <1>2, NamesAssumption DEF WellFormed
  <2> QED BY <1>3, <1>4, <2>1
<1>6. Below(tree, one) = {one}
  <2>1. ~Is(tree, one, "dir")
    BY <1>4, <1>5 DEF Is
  <2>2. \A p \in Below(tree, one) : p = one
    BY <1>2, <1>3, <2>1, BelowHas
  <2>3. one \in Below(tree, one)
    BY <1>3, <1>4, <1>5, FrontIsPrefix DEF Below
  <2> QED BY <2>2, <2>3
<1>7. DOMAIN tree' = DOMAIN tree \ {one} /\ Differs(tree, tree') = {one}
  BY <1>4, <1>5, WithoutIs
<1> QED BY <1>1, <1>6, <1>7, ChangedIs DEF AsReported, one, Path

LEMMA DeleteDirectoryReports ==
  ASSUME IInv, KInv, NEW c, Running(c), Undisturbed(c), DeleteDirectory(c),
         Changed # {}, call'[c].ok
  PROVE  AsReported(c)
<1>1. call[c].pc \in Final /\ call[c].req.tool = "delete_directory"
  BY DEF DeleteDirectory, At, Final
<1>2. DOMAIN call = Calls /\ c \in Calls /\ WellFormed(tree)
  BY RunningHas
<1> DEFINE one == Path(c).canonical
           place == IF RelOf(Path(c)) = <<>> THEN HandleOf(Path(c)) ELSE HandleEntry(Path(c))
           whole == Below(tree, place)
           gone == whole \ IF RelOf(Path(c)) = <<>> THEN {place} ELSE {}
<1>3. one \in Seq(Names) /\ one # NoPath /\ HandleEntry(Path(c)) \in {one, NoPath}
  BY <1>1, FirstPath, PathLeads, ZenonT(60) DEF Path
<1>4. place \in gone /\ tree' = Without(tree, gone)
  <2>1. Fails(c) => ~call'[c].ok
    BY <1>2, OutcomeIs
  <2> QED BY <2>1 DEF DeleteDirectory, Becomes
<1>5. RelOf(Path(c)) # <<>> /\ place = HandleEntry(Path(c)) /\ gone = whole /\ place \in DOMAIN tree
  BY <1>4 DEF Below
<1>6. place = one
  <2>1. NoPath \notin DOMAIN tree
    BY <1>2, NamesAssumption DEF WellFormed
  <2> HIDE DEF one, place
  <2> QED BY <1>3, <1>5, <2>1
<1>7. gone = Below(tree, one) /\ one \in gone
  <2>1. gone = Below(tree, place)
    BY <1>5
  <2> HIDE DEF gone, one, place
  <2> QED BY <1>4, <1>6, <2>1
<1>8. DOMAIN tree' = DOMAIN tree \ gone /\ Differs(tree, tree') = gone
  <2>1. gone \in SUBSET DOMAIN tree
    BY DEF Below
  <2> HIDE DEF gone
  <2> QED BY <1>4, <2>1, WithoutIs
<1> HIDE DEF one, gone
<1>9. Differs(tree, tree') = Below(tree, one) /\ one \notin DOMAIN tree'
  BY <1>7, <1>8
<1> QED BY <1>1, <1>9, ChangedIs DEF AsReported, one, Path

LEMMA MoveReports ==
  ASSUME IInv, KInv, NEW c, Running(c), Undisturbed(c), Rename(c), Changed # {}, call'[c].ok
  PROVE  AsReported(c)
<1>1. call[c].pc = "apply" /\ call[c].pc \in Final /\ call[c].req.tool = "move_file"
  BY DEF Rename, At, Final
<1>2. DOMAIN call = Calls /\ c \in Calls /\ WellFormed(tree)
  BY RunningHas
<1> DEFINE one == call[c].got[1].canonical
           two == call[c].got[2].canonical
           here == [canonical |-> one, root |-> RootFor(one)]
           there == [canonical |-> two, root |-> RootFor(two)]
           from == IF here.root = there.root THEN HandleEntry(here)
                   ELSE EntryPlace(tree, <<>>, FALSE, one)
           to == IF here.root = there.root THEN HandleEntry(there)
                 ELSE EntryPlace(tree, <<>>, FALSE, two)
<1>3. /\ 1 \in 1..Len(call[c].got) /\ 2 \in 1..Len(call[c].got)
      /\ call[c].src = one /\ call[c].dst = two
  BY <1>1, ApplyIs DEF TwoPathTools
<1>4. ASSUME NEW i \in 1..Len(call[c].got)
      PROVE  LET q == call[c].got[i].canonical
             IN /\ q \in Seq(Names) /\ q # NoPath
                /\ HandleEntry([canonical |-> q, root |-> RootFor(q)]) \in {q, NoPath}
                /\ EntryPlace(tree, <<>>, FALSE, q) \in {q, NoPath}
  <2> DEFINE r == call[c].got[i]
             q == r.canonical
             s == [canonical |-> q, root |-> RootFor(q)]
  <2>1. /\ q \in Seq(Names) /\ q # NoPath /\ r.root = RootFor(q)
        /\ HandleEntry(r) \in {q, NoPath} /\ EntryPlace(tree, <<>>, FALSE, q) \in {q, NoPath}
    BY <1>1, PathLeads
  <2>2. s.canonical = r.canonical /\ s.root = r.root
    BY <2>1
  <2> HIDE DEF s
  <2>3. HandleEntry(s) = HandleEntry(r)
    BY <2>2 DEF HandleEntry, HandleOf, RelOf
  <2> QED BY <2>1, <2>3 DEF s
<1>5. /\ one \in Seq(Names) /\ one # NoPath /\ from \in {one, NoPath}
      /\ two \in Seq(Names) /\ two # NoPath /\ to \in {two, NoPath}
  <2>1. /\ one \in Seq(Names) /\ one # NoPath
        /\ HandleEntry(here) \in {one, NoPath} /\ EntryPlace(tree, <<>>, FALSE, one) \in {one, NoPath}
    BY <1>3, <1>4
  <2>2. /\ two \in Seq(Names) /\ two # NoPath
        /\ HandleEntry(there) \in {two, NoPath} /\ EntryPlace(tree, <<>>, FALSE, two) \in {two, NoPath}
    BY <1>3, <1>4
  <2> HIDE DEF one, two, here, there
  <2> QED BY <2>1, <2>2
<1>6. MayRename(tree, from, to) /\ tree' = Renamed(tree, from, to)
  <2>1. Fails(c) => ~call'[c].ok
    BY <1>2, OutcomeIs
  <2>2. \/ MayRename(tree, from, to) /\ Renames(from, to)
        \/ Fails(c)
    BY <1>3, Zenon DEF Rename
  <2> QED BY <2>1, <2>2 DEF Renames
<1> HIDE DEF one, two, from, to
<1>7. from = one /\ to = two
  <2>1. NoPath \notin DOMAIN tree
    BY <1>2, NamesAssumption DEF WellFormed
  <2>2. from \in DOMAIN tree /\ to # NoPath
    BY <1>6 DEF MayRename
  <2> QED BY <1>5, <2>1, <2>2
<1>8. /\ Differs(tree, tree') \subseteq Below(tree, one) \cup Below(tree', two)
      /\ one \notin DOMAIN tree'
      /\ Below(tree', two) = {Moved(p, one, two) : p \in Below(tree, one)}
      /\ \A p \in Below(tree, one) : tree'[Moved(p, one, two)] = tree[p]
  <2>1. Differs(tree, tree') # {}
    BY ChangedIs
  <2> QED BY <1>2, <1>5, <1>6, <1>7, <2>1, RenamedIs
<1> QED BY <1>1, <1>8, ChangedIs, Zenon DEF AsReported, one, two

(* A path of the sandbox is the only one that create_dir_all makes.        *)
LEMMA MadeOne ==
  ASSUME NEW t, WellFormed(t), NEW root \in Seq(Names), Is(t, root, "dir"),
         NEW rel \in Seq(Names), rel # <<>>,
         Front(root \o rel) \in DOMAIN t, ~Is(t, Front(root \o rel), "link"),
         Len(Front(root \o rel)) <= MaxHops
  PROVE  \/ MkdirAll(t, root, rel) = t
         \/ /\ root \o rel \notin DOMAIN t
            /\ MkdirAll(t, root, rel) = Put(t, root \o rel, Dir)
<1> DEFINE n == Len(rel)
           path == root \o rel
<1>1. n \in Nat /\ n # 0
  BY LenIs
<1>2. path \in Seq(Names) /\ path # <<>>
  OBVIOUS
<1>3. PICK made : MadeBy(made, t, root, rel)
  BY MkdirAllIs
<1>4. /\ made[0] = t /\ MkdirAll(t, root, rel) = made[n]
      /\ \A k \in 1..n : made[k] = Mkdir(made[k - 1], EntryPlace(made[k - 1], root, TRUE, UpTo(rel, k)))
  BY <1>3 DEF MadeBy
<1>5. ASSUME NEW k \in 1..n, k < n
      PROVE  EntryPlace(t, root, TRUE, UpTo(rel, k)) \in DOMAIN t \cup {NoPath}
  <2> DEFINE a == UpTo(rel, k)
             b == Front(rel)
             q == root \o a
  <2>1. b \in Seq(Names) /\ Len(b) = n - 1 /\ path \in Seq(Names) /\ Front(path) = root \o b
    BY FrontIs, JoinedIs
  <2>2. a \in Seq(Names) /\ Len(a) = k /\ a = UpTo(b, k)
    <3>1. k \in 0..n /\ n - 1 \in 0..n /\ k \in 0..n - 1
      BY <1>1, <1>5
    <3>2. UpTo(UpTo(rel, n - 1), k) = UpTo(rel, k)
      BY <3>1, UpToUpTo
    <3>3. b = UpTo(rel, n - 1)
      BY DEF Front, UpTo
    <3> QED BY <3>1, <3>2, <3>3, UpToUpTo
  <2> DEFINE s == SubSeq(b, k + 1, Len(b))
  <2>3. s \in Seq(Names) /\ b = a \o s
    <3>1. k \in 0..Len(b)
      BY <1>1, <1>5, <2>1
    <3>2. s \in Seq(Names) /\ b = SubSeq(b, 1, k) \o s
      BY <2>1, <3>1, CutIs
    <3> QED BY <2>2, <3>2 DEF UpTo
  <2> HIDE DEF a, b, s
  <2>4. q \in Seq(Names) /\ Len(q) = Len(root) + k /\ q # <<>> /\ Front(path) = q \o s
    <3>1. q \in Seq(Names) /\ Len(q) = Len(root) + k
      BY <2>2
    <3>2. q # <<>>
      BY <3>1
    <3>3. root \o (a \o s) = (root \o a) \o s
      BY <2>2, <2>3, SMTT(60)
    <3> QED BY <2>1, <2>3, <3>1, <3>2, <3>3
  <2>5. Suffix(q, root) = a /\ IsPrefix(root, q)
    BY <2>2, JoinedIs
  <2> HIDE DEF q, path
  <2>6. Len(q) \in 0..Len(Front(path)) /\ UpTo(Front(path), Len(q)) = q
    <3>1. IsPrefix(q, Front(path)) /\ Front(path) \in Seq(Names)
      BY <2>3, <2>4, JoinedIs
    <3>2. Len(q) <= Len(Front(path)) /\ UpTo(Front(path), Len(q)) = q
      BY <2>4, <3>1, PrefixIs
    <3>3. Len(q) \in Nat /\ Len(Front(path)) \in Nat
      BY <2>4, <3>1, LenIs
    <3> QED BY <3>2, <3>3
  <2>7. q \in DOMAIN t
    <3>1. Front(path) \in DOMAIN t
      BY DEF path
    <3> QED BY <2>6, <3>1, Directories
  <2>8. Is(t, Front(q), "dir") /\ Len(Front(q)) = Len(q) - 1
    BY <2>4, <2>7, FrontIs DEF WellFormed
  <2>9. Len(Front(q)) <= MaxHops
    <3>1. Len(Front(path)) <= MaxHops
      BY DEF path
    <3> DEFINE m == Len(Front(path))
               j == Len(q)
    <3>2. m <= MaxHops /\ j \in 0..m /\ Len(Front(q)) = j - 1
      BY <2>6, <2>8, <3>1
    <3>3. m \in Nat
      BY <2>1 DEF path
    <3> HIDE DEF m, j
    <3> QED BY <3>2, <3>3, BoundsAssumption
  <2>10. EntryPlace(t, root, TRUE, Suffix(q, root)) \in {q, NoPath}
    <3>1. Front(q) \in DOMAIN t /\ ~Is(t, Front(q), "link") /\ TRUE \in BOOLEAN
      BY <2>8 DEF Is
    <3> QED BY <2>4, <2>5, <2>9, <3>1, EntryIs
  <2> QED BY <2>5, <2>7, <2>10 DEF a
<1>6. EntryPlace(t, root, TRUE, rel) \in {path, NoPath}
  <2>1. Suffix(path, root) = rel /\ IsPrefix(root, path)
    BY JoinedIs
  <2>2. ASSUME NEW beneath \in BOOLEAN
        PROVE  EntryPlace(t, root, beneath, Suffix(path, root)) \in {path, NoPath}
    <3> HIDE DEF path
    <3>1. /\ Front(path) \in DOMAIN t /\ ~Is(t, Front(path), "link")
          /\ Len(Front(path)) <= MaxHops
      BY DEF path
    <3> QED BY <1>2, <2>1, <3>1, EntryIs
  <2> QED BY <2>1, <2>2
<1> DEFINE T == {j \in 0..n - 1 : made[j] = t}
<1>7. T = 0..n - 1
  <2>1. 0 \in T /\ T \in SUBSET (0..n - 1) /\ n - 1 \in Nat
    BY <1>1, <1>4
  <2>2. ASSUME NEW j \in 0..n - 1, j \in T, j < n - 1 PROVE j + 1 \in T
    <3>1. j + 1 \in 1..n /\ j + 1 < n /\ (j + 1) - 1 = j /\ j + 1 \in 0..n - 1
      BY <1>1, <2>2
    <3>2. made[j + 1] = Mkdir(t, EntryPlace(t, root, TRUE, UpTo(rel, j + 1)))
      BY <1>4, <2>2, <3>1
    <3>3. EntryPlace(t, root, TRUE, UpTo(rel, j + 1)) \in DOMAIN t \cup {NoPath}
      BY <1>5, <3>1
    <3>4. made[j + 1] = t
      BY <3>2, <3>3 DEF Mkdir
    <3> QED BY <3>1, <3>4
  <2>3. \A j \in 0..n - 1 : (j \in T /\ j < n - 1) => j + 1 \in T
    BY <2>2
  <2> HIDE DEF T
  <2> QED BY <2>1, <2>3, HandedOn, Zenon
<1>8. made[n] = Mkdir(t, EntryPlace(t, root, TRUE, rel))
  <2>1. n \in 1..n /\ n - 1 \in 0..n - 1
    BY <1>1
  <2>2. made[n - 1] = t
    BY <1>7, <2>1
  <2>3. UpTo(rel, n) = rel
    BY DEF UpTo
  <2> QED BY <1>4, <2>1, <2>2, <2>3
<1> HIDE DEF path
<1>9. Mkdir(t, EntryPlace(t, root, TRUE, rel)) = t
      \/ (path \notin DOMAIN t /\ Mkdir(t, EntryPlace(t, root, TRUE, rel)) = Put(t, path, Dir))
  <2> DEFINE at == EntryPlace(t, root, TRUE, rel)
  <2>1. at \in {path, NoPath}
    BY <1>6
  <2> HIDE DEF at
  <2>2. Mkdir(t, at) = t \/ (path \notin DOMAIN t /\ Mkdir(t, at) = Put(t, path, Dir))
    BY <2>1 DEF Mkdir
  <2> QED BY <2>2 DEF at
<1> QED BY <1>4, <1>8, <1>9 DEF path

LEMMA MakeReports ==
  ASSUME IInv, KInv, NEW c, Running(c), Undisturbed(c), CreateDirectory(c),
         Changed # {}, call'[c].ok
  PROVE  AsReported(c)
<1>1. call[c].pc \in Final /\ call[c].req.tool = "create_directory"
  BY DEF CreateDirectory, At, Final
<1>2. DOMAIN call = Calls /\ c \in Calls /\ WellFormed(tree)
  BY RunningHas
<1> DEFINE r == Path(c)
           one == r.canonical
           rel == RelOf(r)
           names == Asked(c)
<1>3. /\ one \in Seq(Names) /\ one # NoPath
      /\ r.root \in Seq(Names) /\ IsPrefix(r.root, one)
      /\ HandleOf(r) = r.root /\ Is(tree, r.root, "dir")
  BY <1>1, FirstPath, PathLeads, ZenonT(60) DEF Path
<1>4. names \in Seq(Names) /\ one = CanonicalOrParent(tree, names)
  BY <1>1, FirstPath, HandleIs DEF Path, Asked
<1>5. tree' = MkdirAll(tree, r.root, rel)
  <2>1. r.root # NoPath
    BY <1>3, NamesAssumption
  <2> QED BY <1>3, <2>1 DEF CreateDirectory, Becomes
<1>6. rel \in Seq(Names) /\ one = r.root \o rel
  BY <1>3, PrefixIs DEF RelOf
<1> HIDE DEF r, one, rel, names
<1>7. rel # <<>>
  <2> SUFFICES ASSUME rel = <<>> PROVE FALSE
    OBVIOUS
  <2>1. PICK made : MadeBy(made, tree, r.root, rel)
    BY <1>2, <1>6, MkdirAllIs
  <2>2. Len(rel) = 0
    BY <1>6, LenIs
  <2>3. tree' = tree
    BY <1>5, <2>1, <2>2 DEF MadeBy
  <2> QED BY <2>3 DEF Changed
<1>8. one # <<>>
  BY <1>3, <1>6, <1>7
<1>9. Front(one) \in DOMAIN tree /\ ~Is(tree, Front(one), "link") /\ Len(Front(one)) <= MaxHops
  BY <1>2, <1>3, <1>4, <1>8, CanonicalParent
<1>10. tree' = tree \/ (one \notin DOMAIN tree /\ tree' = Put(tree, one, Dir))
  BY <1>2, <1>3, <1>5, <1>6, <1>7, <1>9, MadeOne
<1>11. tree' # tree
  BY DEF Changed
<1>12. Differs(tree, tree') = {one} /\ Is(tree', one, "dir")
  BY <1>10, <1>11, PutIs DEF Is, Dir
<1> QED BY <1>1, <1>12, ChangedIs DEF AsReported, one, r, Path

LEMMA ChangeReports ==
  ASSUME IInv, KInv, NEW c, Running(c), Undisturbed(c), Step(c), Changed # {}, call'[c].ok
  PROVE  AsReported(c)
<1>1. tree' # tree
  BY DEF Changed
<1>2. \/ Rename(c) \/ Copy(c) \/ CreateSymlink(c) \/ WriteByHandle(c)
      \/ CreateDirectory(c) \/ DeleteFile(c) \/ DeleteDirectory(c)
  BY <1>1, Zenon DEF Step, Same, CheckLinks, Canonicalize, ResolveAgain, FindByHandle, ListByHandle,
       DeleteFileFound, ReadByPath, StatByHandle, ReadAfterStat, ReadResource, WalkByPath, ListResources
<1> QED BY <1>2, MoveReports, CopyReports, SymlinkReports, WriteReports, MakeReports,
           DeleteFileReports, DeleteDirectoryReports

(* A tool that changes the tree and reports success has changed what is at *)
(* the paths it reports, and nothing else, if nobody else changes the tree *)
(* meanwhile (files.rs, dirs.rs, Sandbox::rename, copy and create_symlink).*)
THEOREM ReportsTheChange ==
  ASSUME Opaque
  PROVE  Spec => ReportsWhatItChanged
<1> DEFINE A == \A c \in Calls :
                  (Answered(c) /\ Undisturbed(c) /\ Changed # {} /\ call'[c].ok) => AsReported(c)
<1>1. IInv /\ KInv /\ [Next]_vars => IInv' /\ KInv'
  BY InvariantStays, KnownStays
<1>2. IInv /\ KInv /\ [Next]_vars => [A]_vars
  <2> SUFFICES ASSUME IInv, KInv, [Next]_vars, NEW c \in Calls,
                      Answered(c), Undisturbed(c), Changed # {}, call'[c].ok
               PROVE  AsReported(c)
    BY Zenon
  <2>1. Running(c) /\ Step(c)
    BY EndsItself
  <2> QED BY <2>1, ChangeReports
<1> HIDE DEF A
<1>3. Init => IInv /\ KInv
  BY InvariantStarts, KnownStarts
<1>4. Spec => [][A]_vars
  BY <1>1, <1>2, <1>3, PTL DEF Spec
<1> QED BY <1>4, Zenon DEF A, ReportsWhatItChanged

-----------------------------------------------------------------------------
(***************************************************************************)
(* The walks of a directory.                                               *)
(***************************************************************************)

(* A directory below which links lead to no directory, and every path is   *)
(* near enough to be looked up.                                            *)
Plain(t, root, follow) ==
  /\ WellFormed(t) /\ root \in Seq(Names) /\ Is(t, root, "dir")
  /\ \A p \in Below(t, root) :
       /\ Len(p) <= MaxHops
       /\ Is(t, p, "link") => follow /\ ~Is(t, RealPath(t, p), "dir")

LEMMA RealIsItself ==
  ASSUME NEW t, WellFormed(t), Is(t, <<>>, "dir"), NEW path \in DOMAIN t,
         ~Is(t, path, "link"), Len(path) <= MaxHops
  PROVE  RealPath(t, path) = path
<1> DEFINE none == <<>>
<1>1. none \in Seq(Names) /\ FALSE \in BOOLEAN /\ path \in Seq(Names) /\ Is(t, none, "dir")
  BY DEF WellFormed
<1>2. IsPrefix(none, path) /\ Suffix(path, none) = path
  BY <1>1, WholeSuffix
<1>3. Len(path) <= Len(none) + MaxHops
  BY BoundsAssumption
<1> HIDE DEF none
<1>4. ASSUME NEW beneath \in BOOLEAN
      PROVE  PlaceOf(t, none, beneath, Suffix(path, none)) = path
  BY <1>1, <1>2, <1>3, StraightLookup
<1>5. PlaceOf(t, none, FALSE, path) = path
  BY <1>2, <1>4
<1>6. Place(t, path) = path
  BY <1>5 DEF Place, none
<1> QED BY <1>6 DEF RealPath

(* What is between the directory and an entry below it. *)
LEMMA BelowUpTo ==
  ASSUME NEW t, WellFormed(t), NEW root \in Seq(Names), NEW p \in Below(t, root),
         NEW k \in Len(root)..Len(p)
  PROVE  /\ p \in Seq(Names) /\ Len(root) \in 0..Len(p) /\ k \in 0..Len(p)
         /\ UpTo(p, k) \in Below(t, root) /\ Len(UpTo(p, k)) = k
         /\ k < Len(p) => Is(t, UpTo(p, k), "dir")
         /\ UpTo(p, Len(root)) = root /\ UpTo(p, Len(p)) = p
<1>1. p \in DOMAIN t /\ p \in Seq(Names) /\ IsPrefix(root, p)
  BY DEF Below, WellFormed
<1>2. UpTo(p, Len(root)) = root /\ Len(root) <= Len(p)
  BY <1>1, PrefixIs
<1>3. Len(root) \in 0..Len(p) /\ k \in 0..Len(p) /\ Len(root) \in 0..k
  BY <1>1, <1>2
<1>4. /\ UpTo(p, k) \in Seq(Names) /\ Len(UpTo(p, k)) = k /\ UpTo(p, k) \in DOMAIN t
      /\ k < Len(p) => Is(t, UpTo(p, k), "dir")
  BY <1>1, <1>3, Directories
<1>5. IsPrefix(root, UpTo(p, k))
  <2>1. UpTo(UpTo(p, k), Len(root)) = root
    BY <1>1, <1>2, <1>3, UpToUpTo
  <2>2. SubSeq(root, 1, Len(root)) = root /\ Len(root) <= Len(UpTo(p, k))
    BY <1>3, <1>4
  <2> QED BY <2>1, <2>2 DEF IsPrefix, UpTo
<1>6. UpTo(p, Len(p)) = p
  BY <1>1 DEF UpTo
<1> QED BY <1>1, <1>2, <1>3, <1>4, <1>5, <1>6 DEF Below

LEMMA KindIs ==
  ASSUME NEW t, NEW root, NEW follow, Plain(t, root, follow), NEW p \in Below(t, root)
  PROVE  /\ ~Is(t, p, "link") => RealPath(t, p) = p
         /\ Is(t, RealPath(t, p), "dir") => RealPath(t, p) = p
         /\ EntryKind(t, p, follow) = "dir" <=> Is(t, p, "dir")
         /\ EntryKind(t, p, follow) = EntryKind(t, p, TRUE)
<1>1. /\ WellFormed(t) /\ root \in Seq(Names) /\ Is(t, root, "dir")
      /\ p \in DOMAIN t /\ p \in Seq(Names) /\ Len(p) <= MaxHops
      /\ Is(t, p, "link") => follow /\ ~Is(t, RealPath(t, p), "dir")
  BY DEF Plain, Below, WellFormed
<1>2. Is(t, <<>>, "dir")
  <2>1. root \in DOMAIN t /\ 0 \in 0..Len(root) /\ UpTo(root, 0) = <<>>
    BY <1>1 DEF UpTo, Is
  <2>2. 0 < Len(root) => Is(t, UpTo(root, 0), "dir")
    BY <1>1, <2>1, Directories
  <2>3. 0 < Len(root) \/ root = <<>>
    BY <1>1
  <2> QED BY <1>1, <2>1, <2>2, <2>3
<1>3. ~Is(t, p, "link") => RealPath(t, p) = p
  BY <1>1, <1>2, RealIsItself
<1>4. CASE Is(t, p, "link")
  <2>1. /\ EntryKind(t, p, follow)
             = IF RealPath(t, p) \in DOMAIN t THEN t[RealPath(t, p)].kind ELSE "none"
        /\ EntryKind(t, p, TRUE)
             = IF RealPath(t, p) \in DOMAIN t THEN t[RealPath(t, p)].kind ELSE "none"
    BY <1>1, <1>4 DEF EntryKind
  <2>2. ~Is(t, RealPath(t, p), "dir") /\ ~Is(t, p, "dir")
    BY <1>1, <1>4 DEF Is
  <2> QED BY <1>4, <2>1, <2>2 DEF Is
<1>5. CASE ~Is(t, p, "link")
  <2>1. EntryKind(t, p, follow) = t[p].kind /\ EntryKind(t, p, TRUE) = t[p].kind
    BY <1>1, <1>3, <1>5 DEF EntryKind
  <2> QED BY <1>1, <1>3, <1>5, <2>1 DEF Is
<1> QED BY <1>4, <1>5

LEMMA NoLoops ==
  ASSUME NEW t, NEW root, NEW follow, Plain(t, root, follow), NEW p \in Below(t, root)
  PROVE  ~Loops(t, root, p)
<1> SUFFICES ASSUME NEW k \in Len(root)..Len(p) - 1,
                    RealPath(t, UpTo(p, k)) = RealPath(t, p)
             PROVE  FALSE
  BY DEF Loops
<1>1. WellFormed(t) /\ root \in Seq(Names) /\ p \in Seq(Names)
  BY DEF Plain, Below, WellFormed
<1>2. k \in Len(root)..Len(p) /\ k < Len(p)
  BY <1>1
<1>3. /\ UpTo(p, k) \in Below(t, root) /\ Len(UpTo(p, k)) = k /\ Is(t, UpTo(p, k), "dir")
      /\ UpTo(p, Len(p)) = p
  BY <1>1, <1>2, BelowUpTo
<1>4. RealPath(t, UpTo(p, k)) = UpTo(p, k)
  BY <1>3, KindIs DEF Is
<1>5. RealPath(t, p) = p
  BY <1>3, <1>4, KindIs
<1>6. UpTo(p, k) = p
  BY <1>4, <1>5
<1> QED BY <1>1, <1>2, <1>3, <1>6

(* The entries of directories of the tree. *)
LEMMA InsideIs ==
  ASSUME NEW t, NEW root, NEW follow, Plain(t, root, follow), NEW S \in SUBSET Below(t, root)
  PROVE  /\ Inside(t, follow, S) = {p \in DOMAIN t : p # <<>> /\ Front(p) \in S}
         /\ Inside(t, follow, S) \in SUBSET Below(t, root)
<1>1. WellFormed(t) /\ root \in Seq(Names)
  BY DEF Plain
<1>2. ASSUME NEW x \in Inside(t, follow, S) PROVE x \in DOMAIN t /\ x # <<>> /\ Front(x) \in S
  <2>1. PICK dir \in S : /\ EntryKind(t, dir, follow) = "dir"
                         /\ \E p \in Children(t, RealPath(t, dir)) : x = Append(dir, Last(p))
    BY <1>2 DEF Inside
  <2>2. PICK p \in Children(t, RealPath(t, dir)) : x = Append(dir, Last(p))
    BY <2>1
  <2>3. RealPath(t, dir) = dir
    <3>1. dir \in Below(t, root)
      BY <2>1
    <3>2. Is(t, dir, "dir")
      BY <2>1, <3>1, KindIs
    <3>3. ~Is(t, dir, "link")
      BY <3>2 DEF Is
    <3> QED BY <3>1, <3>3, KindIs
  <2>4. p \in DOMAIN t /\ p # <<>> /\ Front(p) = dir /\ p \in Seq(Names)
    BY <1>1, <2>2, <2>3 DEF Children, WellFormed
  <2>5. x = p
    BY <2>2, <2>4, FrontIs
  <2> QED BY <2>1, <2>4, <2>5
<1>3. ASSUME NEW x \in DOMAIN t, x # <<>>, Front(x) \in S PROVE x \in Inside(t, follow, S)
  <2> DEFINE dir == Front(x)
  <2>1. dir \in Below(t, root) /\ Is(t, dir, "dir") /\ x = Append(dir, Last(x))
    BY <1>1, <1>3, FrontIs DEF WellFormed
  <2>2. EntryKind(t, dir, follow) = "dir" /\ RealPath(t, dir) = dir
    <3>1. ~Is(t, dir, "link")
      BY <2>1 DEF Is
    <3> HIDE DEF dir
    <3> QED BY <2>1, <3>1, KindIs
  <2>3. x \in Children(t, RealPath(t, dir))
    BY <1>3, <2>2 DEF Children
  <2> QED BY <1>3, <2>1, <2>2, <2>3 DEF Inside
<1>4. ASSUME NEW x \in Inside(t, follow, S) PROVE x \in Below(t, root)
  <2>1. x \in DOMAIN t /\ x # <<>> /\ Front(x) \in Below(t, root)
    BY <1>2
  <2> QED BY <1>1, <2>1, BelowIsClosed
<1> QED BY <1>2, <1>3, <1>4

(* What is at most i levels below the directory, without what is skipped   *)
(* and what is in it.                                                      *)
WithinDepth(t, root, skipped, i) ==
  {p \in Below(t, root) :
     /\ Len(p) <= Len(root) + i
     /\ \A k \in Len(root)..Len(p) : UpTo(p, k) \notin skipped}

LEMMA ReachedFirst ==
  ASSUME NEW t, WellFormed(t), NEW root \in Seq(Names), Is(t, root, "dir"), NEW skipped
  PROVE  WithinDepth(t, root, skipped, 0) = {root} \ skipped
<1>1. root \in Below(t, root) /\ Len(root) \in Nat /\ UpTo(root, Len(root)) = root
  BY FrontIsPrefix DEF Below, Is, UpTo
<1>2. ASSUME NEW p \in WithinDepth(t, root, skipped, 0) PROVE p = root /\ root \notin skipped
  <2>1. p \in Below(t, root) /\ Len(p) <= Len(root) + 0
        /\ \A k \in Len(root)..Len(p) : UpTo(p, k) \notin skipped
    BY <1>2 DEF WithinDepth
  <2>2. p \in Seq(Names) /\ Len(root) <= Len(p) /\ UpTo(p, Len(root)) = root
    <3>1. p \in Seq(Names) /\ IsPrefix(root, p)
      BY <2>1 DEF Below, WellFormed
    <3> QED BY <3>1, PrefixIs
  <2>3. Len(p) = Len(root) /\ Len(root) \in Len(root)..Len(p)
    BY <1>1, <2>1, <2>2, LenIs
  <2>4. UpTo(p, Len(p)) = p
    BY <2>2 DEF UpTo
  <2> QED BY <2>1, <2>2, <2>3, <2>4
<1>3. ASSUME root \notin skipped PROVE root \in WithinDepth(t, root, skipped, 0)
  <2>1. \A k \in Len(root)..Len(root) : UpTo(root, k) = root
    BY <1>1
  <2> QED BY <1>1, <1>3, <2>1 DEF WithinDepth
<1> QED BY <1>2, <1>3

LEMMA ReachedNext ==
  ASSUME NEW t, NEW root, NEW follow, Plain(t, root, follow), NEW skipped, NEW i \in Nat
  PROVE  WithinDepth(t, root, skipped, i + 1)
           = WithinDepth(t, root, skipped, i) \cup (Inside(t, follow, WithinDepth(t, root, skipped, i)) \ skipped)
<1> DEFINE S == WithinDepth(t, root, skipped, i)
           b == Len(root)
<1>1. WellFormed(t) /\ root \in Seq(Names) /\ b \in Nat
  BY DEF Plain
<1>2. S \in SUBSET Below(t, root)
  BY DEF WithinDepth
<1>3. Inside(t, follow, S) = {p \in DOMAIN t : p # <<>> /\ Front(p) \in S}
  BY <1>2, InsideIs
(* An entry and its directory. *)
<1>4. ASSUME NEW p \in Below(t, root), p # <<>>, b < Len(p)
      PROVE  /\ p \in Seq(Names) /\ Front(p) \in Below(t, root) /\ Len(p) \in Nat
             /\ Len(Front(p)) = Len(p) - 1 /\ UpTo(p, Len(p)) = p
             /\ \A k \in b..Len(p) - 1 : UpTo(Front(p), k) = UpTo(p, k)
  <2>1. p \in Seq(Names) /\ Len(p) \in Nat
    BY <1>1 DEF Below, WellFormed
  <2>2. Len(p) - 1 \in b..Len(p)
    BY <1>1, <1>4, <2>1
  <2>3. UpTo(p, Len(p) - 1) \in Below(t, root) /\ UpTo(p, Len(p)) = p
    BY <1>1, <2>2, BelowUpTo
  <2>4. Front(p) = UpTo(p, Len(p) - 1) /\ Len(Front(p)) = Len(p) - 1
    BY <1>4, <2>1, FrontIs DEF Front, UpTo
  <2>5. ASSUME NEW k \in b..Len(p) - 1 PROVE UpTo(Front(p), k) = UpTo(p, k)
    <3>1. Len(p) - 1 \in 0..Len(p) /\ k \in 0..Len(p) - 1
      BY <1>1, <2>1, <2>2
    <3> QED BY <2>1, <2>4, <3>1, UpToUpTo
  <2> QED BY <2>1, <2>3, <2>4, <2>5
<1>5. ASSUME NEW p \in WithinDepth(t, root, skipped, i + 1), p \notin S
      PROVE  p \in Inside(t, follow, S) \ skipped
  <2>1. p \in Below(t, root) /\ p \in DOMAIN t /\ p \in Seq(Names) /\ Len(p) \in Nat
        /\ Len(p) <= b + (i + 1) /\ \A k \in b..Len(p) : UpTo(p, k) \notin skipped
    BY <1>1 DEF WithinDepth, Below, WellFormed
  <2>2. ~(Len(p) <= b + i)
    BY <1>5, <2>1 DEF WithinDepth
  <2>3. b < Len(p) /\ Len(p) \in b..Len(p) /\ Len(p) - 1 <= b + i /\ Len(p) # 0
    BY <1>1, <2>1, <2>2
  <2>4. p # <<>>
    BY <2>1, <2>3, LenIs
  <2>5. /\ Front(p) \in Below(t, root) /\ Len(Front(p)) = Len(p) - 1 /\ UpTo(p, Len(p)) = p
        /\ \A k \in b..Len(p) - 1 : UpTo(Front(p), k) = UpTo(p, k)
    BY <1>4, <2>1, <2>3, <2>4
  <2>6. \A k \in b..Len(Front(p)) : UpTo(Front(p), k) \notin skipped
    <3> SUFFICES ASSUME NEW k \in b..Len(Front(p)) PROVE UpTo(Front(p), k) \notin skipped
      OBVIOUS
    <3>1. k \in b..Len(p) - 1 /\ k \in b..Len(p)
      BY <1>1, <2>1, <2>5
    <3> QED BY <2>1, <2>5, <3>1
  <2>7. Front(p) \in S
    BY <2>3, <2>5, <2>6 DEF WithinDepth
  <2>8. p \notin skipped
    BY <2>1, <2>3, <2>5
  <2> QED BY <1>3, <2>1, <2>4, <2>7, <2>8
<1>6. ASSUME NEW p \in S PROVE p \in WithinDepth(t, root, skipped, i + 1)
  <2>1. p \in Below(t, root) /\ Len(p) \in Nat /\ Len(p) <= b + i
        /\ \A k \in b..Len(p) : UpTo(p, k) \notin skipped
    BY <1>1 DEF WithinDepth, Below, WellFormed
  <2>2. Len(p) <= b + (i + 1)
    BY <1>1, <2>1
  <2> QED BY <2>1, <2>2 DEF WithinDepth
<1>7. ASSUME NEW p \in Inside(t, follow, S), p \notin skipped
      PROVE  p \in WithinDepth(t, root, skipped, i + 1)
  <2>1. p \in Below(t, root) /\ p # <<>> /\ Front(p) \in S
    BY <1>2, <1>3, InsideIs
  <2>2. /\ Front(p) \in Below(t, root) /\ Len(Front(p)) <= b + i
        /\ \A k \in b..Len(Front(p)) : UpTo(Front(p), k) \notin skipped
    BY <2>1 DEF WithinDepth
  <2>3. p \in Seq(Names) /\ Len(Front(p)) = Len(p) - 1 /\ Len(p) \in Nat
    BY <1>1, <2>1, FrontIs DEF Below, WellFormed
  <2>4. b <= Len(Front(p))
    <3>1. Front(p) \in Seq(Names) /\ IsPrefix(root, Front(p))
      BY <1>1, <2>2 DEF Below, WellFormed
    <3> QED BY <1>1, <3>1, PrefixIs
  <2>5. b < Len(p) /\ Len(p) <= b + (i + 1)
    BY <1>1, <2>2, <2>3, <2>4
  <2>6. /\ UpTo(p, Len(p)) = p
        /\ \A k \in b..Len(p) - 1 : UpTo(Front(p), k) = UpTo(p, k)
    BY <1>4, <2>1, <2>5
  <2>7. ASSUME NEW k \in b..Len(p) PROVE UpTo(p, k) \notin skipped
    <3>1. CASE k = Len(p)
      BY <1>7, <2>6, <3>1
    <3>2. CASE k # Len(p)
      <4>1. k \in b..Len(p) - 1 /\ k \in b..Len(Front(p))
        BY <1>1, <2>3, <3>2
      <4> QED BY <2>2, <2>6, <4>1
    <3> QED BY <3>1, <3>2
  <2> QED BY <2>1, <2>5, <2>7 DEF WithinDepth
<1> HIDE DEF S
<1> QED BY <1>5, <1>6, <1>7 DEF S

(* A walk, level by level, as far as it stays below the directory. *)
WalkedBy(seen, t, root, follow, depth, skipped) ==
  /\ seen[0] = {root} \ skipped
  /\ \A i \in 1..depth : seen[i - 1] \subseteq Below(t, root) =>
       seen[i] = seen[i - 1] \cup (Inside(t, follow, seen[i - 1]) \ skipped)

LEMMA WalkEnds ==
  ASSUME NEW t, NEW root, NEW follow, Plain(t, root, follow), NEW depth \in Nat, NEW skipped,
         NEW seen, WalkedBy(seen, t, root, follow, depth, skipped)
  PROVE  seen[depth] = WithinDepth(t, root, skipped, depth)
<1> DEFINE T == {i \in 0..depth : seen[i] = WithinDepth(t, root, skipped, i)}
<1>1. 0 \in T /\ T \in SUBSET (0..depth)
  <2>1. seen[0] = WithinDepth(t, root, skipped, 0)
    BY ReachedFirst DEF WalkedBy, Plain
  <2> QED BY <2>1
<1>2. ASSUME NEW i \in 0..depth, i \in T, i < depth PROVE i + 1 \in T
  <2>1. i \in Nat /\ i + 1 \in 1..depth /\ i + 1 \in 0..depth /\ (i + 1) - 1 = i
    BY <1>2
  <2>2. seen[i] = WithinDepth(t, root, skipped, i)
    BY <1>2
  <2>3. seen[i] \subseteq Below(t, root)
    BY <2>2 DEF WithinDepth
  <2>4. seen[i + 1] = seen[i] \cup (Inside(t, follow, seen[i]) \ skipped)
    BY <2>1, <2>3 DEF WalkedBy
  <2>5. seen[i + 1] = WithinDepth(t, root, skipped, i + 1)
    BY <2>1, <2>2, <2>4, ReachedNext
  <2> QED BY <2>1, <2>5
<1>3. T = 0..depth
  <2>1. \A i \in 0..depth : (i \in T /\ i < depth) => i + 1 \in T
    BY <1>2
  <2> HIDE DEF T
  <2> QED BY <1>1, <2>1, HandedOn, Zenon
<1>4. depth \in T
  <2> HIDE DEF T
  <2> QED BY <1>3
<1> QED BY <1>4

(* directory_tree *)
LEMMA TreeWalk ==
  ASSUME NEW t, NEW root, Plain(t, root, TRUE), NEW exclude
  PROVE  LET skipped == {p \in Below(t, root) : SkippedByTree(root, exclude, p)}
         IN TreeOf(t, root, exclude)
              = {p \in WithinDepth(t, root, skipped, MaxTreeDepth) : EntryKind(t, p, TRUE) # "none"}
<1> DEFINE skipped == {p \in Below(t, root) : SkippedByTree(root, exclude, p)}
           Skip(p) == SkippedByTree(root, exclude, p)
           depth == MaxTreeDepth
           Goes(f) == f = [i \in 0..depth |->
                             IF i = 0 THEN {p \in {root} : ~Skip(p)}
                             ELSE LET before == f[i - 1]
                                  IN before \cup {p \in Inside(t, TRUE, before) : ~Skip(p)}]
           F == [i \in 0..depth |-> WithinDepth(t, root, skipped, i)]
           seen == CHOOSE f : Goes(f)
<1>1. ASSUME NEW S \in SUBSET Below(t, root) PROVE {p \in S : ~Skip(p)} = S \ skipped
  OBVIOUS
<1>2. depth \in Nat /\ {root} \in SUBSET Below(t, root)
  BY BoundsAssumption, FrontIsPrefix DEF Plain, Below, Is
<1> HIDE DEF Skip, skipped, depth
<1>3. ASSUME NEW i \in 1..depth
      PROVE  F[i] = F[i - 1] \cup {p \in Inside(t, TRUE, F[i - 1]) : ~Skip(p)}
  <2>1. i - 1 \in Nat /\ i - 1 \in 0..depth /\ i \in 0..depth /\ (i - 1) + 1 = i
    BY <1>2
  <2>2. F[i] = WithinDepth(t, root, skipped, i) /\ F[i - 1] = WithinDepth(t, root, skipped, i - 1)
    BY <2>1
  <2>3. F[i] = F[i - 1] \cup (Inside(t, TRUE, F[i - 1]) \ skipped)
    <3> HIDE DEF F
    <3>1. WithinDepth(t, root, skipped, (i - 1) + 1)
            = WithinDepth(t, root, skipped, i - 1)
                \cup (Inside(t, TRUE, WithinDepth(t, root, skipped, i - 1)) \ skipped)
      <4> DEFINE j == i - 1
                 on == TRUE
      <4>1. j \in Nat /\ Plain(t, root, on)
        BY <2>1
      <4> HIDE DEF j, on
      <4>2. WithinDepth(t, root, skipped, j + 1)
              = WithinDepth(t, root, skipped, j)
                  \cup (Inside(t, on, WithinDepth(t, root, skipped, j)) \ skipped)
        BY <4>1, ReachedNext
      <4> QED BY <4>2 DEF j, on
    <3> QED BY <2>1, <2>2, <3>1
  <2>4. F[i - 1] \in SUBSET Below(t, root)
    BY <2>2 DEF WithinDepth
  <2> HIDE DEF F
  <2>5. {p \in Inside(t, TRUE, F[i - 1]) : ~Skip(p)} = Inside(t, TRUE, F[i - 1]) \ skipped
    BY <1>1, <2>4, InsideIs
  <2> QED BY <2>3, <2>5
<1>4. F[0] = {p \in {root} : ~Skip(p)}
  <2>1. F[0] = WithinDepth(t, root, skipped, 0)
    BY <1>2
  <2> HIDE DEF F
  <2> QED BY <1>1, <1>2, <2>1, ReachedFirst DEF Plain
<1>5. Goes(F)
  <2> DEFINE V(i) == IF i = 0 THEN {p \in {root} : ~Skip(p)}
                     ELSE LET before == F[i - 1]
                          IN before \cup {p \in Inside(t, TRUE, before) : ~Skip(p)}
  <2>1. ASSUME NEW i \in 0..depth PROVE F[i] = V(i)
    <3>1. CASE i = 0
      BY <1>4, <3>1
    <3>2. CASE i # 0
      <4>1. i \in 1..depth
        BY <1>2, <3>2
      <4> HIDE DEF F
      <4> QED BY <1>3, <3>2, <4>1
    <3> QED BY <3>1, <3>2
  <2>2. F = [i \in 0..depth |-> F[i]]
    OBVIOUS
  <2>3. F = [i \in 0..depth |-> V(i)]
    <3> HIDE DEF F, V
    <3> QED BY <2>1, <2>2
  <2> QED BY <2>3
<1>6. Goes(seen)
  <2> HIDE DEF Goes, F
  <2> QED BY <1>5
<1>7. WalkedBy(seen, t, root, TRUE, depth, skipped)
  <2> HIDE DEF seen
  <2>1. seen[0] = {root} \ skipped
    <3>1. seen[0] = {p \in {root} : ~Skip(p)}
      BY <1>2, <1>6
    <3> QED BY <1>1, <1>2, <3>1
  <2>2. ASSUME NEW i \in 1..depth, seen[i - 1] \subseteq Below(t, root)
        PROVE  seen[i] = seen[i - 1] \cup (Inside(t, TRUE, seen[i - 1]) \ skipped)
    <3>1. i \in 0..depth /\ i # 0
      BY <1>2
    <3>2. seen[i] = seen[i - 1] \cup {p \in Inside(t, TRUE, seen[i - 1]) : ~Skip(p)}
      BY <1>6, <3>1
    <3> HIDE DEF Goes
    <3>3. Inside(t, TRUE, seen[i - 1]) \in SUBSET Below(t, root)
      BY <2>2, InsideIs
    <3>4. {p \in Inside(t, TRUE, seen[i - 1]) : ~Skip(p)} = Inside(t, TRUE, seen[i - 1]) \ skipped
      BY <1>1, <3>3
    <3> QED BY <3>2, <3>4
  <2> HIDE DEF Goes
  <2> QED BY <2>1, <2>2 DEF WalkedBy
<1>8. seen[depth] = WithinDepth(t, root, skipped, depth)
  <2> HIDE DEF seen, Goes
  <2> QED BY <1>2, <1>7, WalkEnds
<1>9. TreeOf(t, root, exclude) = {p \in seen[depth] : EntryKind(t, p, TRUE) # "none"}
  BY DEF TreeOf, Walk, seen, Goes, Skip, depth
<1> HIDE DEF seen
<1> QED BY <1>8, <1>9 DEF skipped, depth

(* search_files and grep_files *)
LEMMA SearchWalk ==
  ASSUME NEW t, NEW root, NEW follow, Plain(t, root, follow)
  PROVE  LET skipped == {p \in Below(t, root) : Hidden(p)}
         IN WalkDir(t, root, follow, Hidden)
              = {p \in WithinDepth(t, root, skipped, WalkDepth) : EntryKind(t, p, follow) # "none"}
<1> DEFINE skipped == {p \in Below(t, root) : Hidden(p)}
           Skip(p) == Hidden(p) \/ (follow /\ Loops(t, root, p))
           depth == WalkDepth
           Goes(f) == f = [i \in 0..depth |->
                             IF i = 0 THEN {p \in {root} : ~Skip(p)}
                             ELSE LET before == f[i - 1]
                                  IN before \cup {p \in Inside(t, follow, before) : ~Skip(p)}]
           F == [i \in 0..depth |-> WithinDepth(t, root, skipped, i)]
           seen == CHOOSE f : Goes(f)
<1>1. ASSUME NEW S \in SUBSET Below(t, root) PROVE {p \in S : ~Skip(p)} = S \ skipped
  <2>1. \A p \in S : Skip(p) <=> Hidden(p)
    BY NoLoops
  <2> HIDE DEF Skip
  <2> QED BY <2>1
<1>2. depth \in Nat /\ {root} \in SUBSET Below(t, root)
  BY BoundsAssumption, FrontIsPrefix DEF Plain, Below, Is
<1> HIDE DEF Skip, skipped, depth
<1>3. ASSUME NEW i \in 1..depth
      PROVE  F[i] = F[i - 1] \cup {p \in Inside(t, follow, F[i - 1]) : ~Skip(p)}
  <2>1. i - 1 \in Nat /\ i - 1 \in 0..depth /\ i \in 0..depth /\ (i - 1) + 1 = i
    BY <1>2
  <2>2. F[i] = WithinDepth(t, root, skipped, i) /\ F[i - 1] = WithinDepth(t, root, skipped, i - 1)
    BY <2>1
  <2>3. F[i] = F[i - 1] \cup (Inside(t, follow, F[i - 1]) \ skipped)
    <3> HIDE DEF F
    <3>1. WithinDepth(t, root, skipped, (i - 1) + 1)
            = WithinDepth(t, root, skipped, i - 1)
                \cup (Inside(t, follow, WithinDepth(t, root, skipped, i - 1)) \ skipped)
      <4> DEFINE j == i - 1
      <4>1. j \in Nat
        BY <2>1
      <4> HIDE DEF j
      <4>2. WithinDepth(t, root, skipped, j + 1)
              = WithinDepth(t, root, skipped, j)
                  \cup (Inside(t, follow, WithinDepth(t, root, skipped, j)) \ skipped)
        BY <4>1, ReachedNext
      <4> QED BY <4>2 DEF j
    <3> QED BY <2>1, <2>2, <3>1
  <2>4. F[i - 1] \in SUBSET Below(t, root)
    BY <2>2 DEF WithinDepth
  <2> HIDE DEF F
  <2>5. {p \in Inside(t, follow, F[i - 1]) : ~Skip(p)} = Inside(t, follow, F[i - 1]) \ skipped
    BY <1>1, <2>4, InsideIs
  <2> QED BY <2>3, <2>5
<1>4. F[0] = {p \in {root} : ~Skip(p)}
  <2>1. F[0] = WithinDepth(t, root, skipped, 0)
    BY <1>2
  <2> HIDE DEF F
  <2> QED BY <1>1, <1>2, <2>1, ReachedFirst DEF Plain
<1>5. Goes(F)
  <2> DEFINE V(i) == IF i = 0 THEN {p \in {root} : ~Skip(p)}
                     ELSE LET before == F[i - 1]
                          IN before \cup {p \in Inside(t, follow, before) : ~Skip(p)}
  <2>1. ASSUME NEW i \in 0..depth PROVE F[i] = V(i)
    <3>1. CASE i = 0
      BY <1>4, <3>1
    <3>2. CASE i # 0
      <4>1. i \in 1..depth
        BY <1>2, <3>2
      <4> HIDE DEF F
      <4> QED BY <1>3, <3>2, <4>1
    <3> QED BY <3>1, <3>2
  <2>2. F = [i \in 0..depth |-> F[i]]
    OBVIOUS
  <2>3. F = [i \in 0..depth |-> V(i)]
    <3> HIDE DEF F, V
    <3> QED BY <2>1, <2>2
  <2> QED BY <2>3
<1>6. Goes(seen)
  <2> HIDE DEF Goes, F
  <2> QED BY <1>5
<1>7. WalkedBy(seen, t, root, follow, depth, skipped)
  <2> HIDE DEF seen
  <2>1. seen[0] = {root} \ skipped
    <3>1. seen[0] = {p \in {root} : ~Skip(p)}
      BY <1>2, <1>6
    <3> QED BY <1>1, <1>2, <3>1
  <2>2. ASSUME NEW i \in 1..depth, seen[i - 1] \subseteq Below(t, root)
        PROVE  seen[i] = seen[i - 1] \cup (Inside(t, follow, seen[i - 1]) \ skipped)
    <3>1. i \in 0..depth /\ i # 0
      BY <1>2
    <3>2. seen[i] = seen[i - 1] \cup {p \in Inside(t, follow, seen[i - 1]) : ~Skip(p)}
      BY <1>6, <3>1
    <3> HIDE DEF Goes
    <3>3. Inside(t, follow, seen[i - 1]) \in SUBSET Below(t, root)
      BY <2>2, InsideIs
    <3>4. {p \in Inside(t, follow, seen[i - 1]) : ~Skip(p)} = Inside(t, follow, seen[i - 1]) \ skipped
      BY <1>1, <3>3
    <3> QED BY <3>2, <3>4
  <2> HIDE DEF Goes
  <2> QED BY <2>1, <2>2 DEF WalkedBy
<1>8. seen[depth] = WithinDepth(t, root, skipped, depth)
  <2> HIDE DEF seen, Goes
  <2> QED BY <1>2, <1>7, WalkEnds
<1>9. WalkDir(t, root, follow, Hidden) = {p \in seen[depth] : EntryKind(t, p, follow) # "none"}
  BY DEF WalkDir, Walk, seen, Goes, Skip, depth
<1> HIDE DEF seen
<1> QED BY <1>8, <1>9 DEF skipped, depth

(* get_disk_usage *)
LEMMA UsedWalk ==
  ASSUME NEW t, NEW root, NEW follow, Plain(t, root, follow)
  PROVE  LET skipped == {p \in Below(t, root) : FALSE}
         IN Used(t, root, follow)
              = {p \in WithinDepth(t, root, skipped, WalkDepth) : EntryKind(t, p, follow) # "none"}
<1> DEFINE skipped == {p \in Below(t, root) : FALSE}
           Skip(p) == FALSE \/ (follow /\ Loops(t, root, p))
           depth == WalkDepth
           Goes(f) == f = [i \in 0..depth |->
                             IF i = 0 THEN {p \in {root} : ~Skip(p)}
                             ELSE LET before == f[i - 1]
                                  IN before \cup {p \in Inside(t, follow, before) : ~Skip(p)}]
           F == [i \in 0..depth |-> WithinDepth(t, root, skipped, i)]
           seen == CHOOSE f : Goes(f)
<1>1. ASSUME NEW S \in SUBSET Below(t, root) PROVE {p \in S : ~Skip(p)} = S \ skipped
  <2>1. \A p \in S : Skip(p) <=> FALSE
    BY NoLoops
  <2> HIDE DEF Skip
  <2> QED BY <2>1
<1>2. depth \in Nat /\ {root} \in SUBSET Below(t, root)
  BY BoundsAssumption, FrontIsPrefix DEF Plain, Below, Is
<1> HIDE DEF Skip, skipped, depth
<1>3. ASSUME NEW i \in 1..depth
      PROVE  F[i] = F[i - 1] \cup {p \in Inside(t, follow, F[i - 1]) : ~Skip(p)}
  <2>1. i - 1 \in Nat /\ i - 1 \in 0..depth /\ i \in 0..depth /\ (i - 1) + 1 = i
    BY <1>2
  <2>2. F[i] = WithinDepth(t, root, skipped, i) /\ F[i - 1] = WithinDepth(t, root, skipped, i - 1)
    BY <2>1
  <2>3. F[i] = F[i - 1] \cup (Inside(t, follow, F[i - 1]) \ skipped)
    <3> HIDE DEF F
    <3>1. WithinDepth(t, root, skipped, (i - 1) + 1)
            = WithinDepth(t, root, skipped, i - 1)
                \cup (Inside(t, follow, WithinDepth(t, root, skipped, i - 1)) \ skipped)
      <4> DEFINE j == i - 1
      <4>1. j \in Nat
        BY <2>1
      <4> HIDE DEF j
      <4>2. WithinDepth(t, root, skipped, j + 1)
              = WithinDepth(t, root, skipped, j)
                  \cup (Inside(t, follow, WithinDepth(t, root, skipped, j)) \ skipped)
        BY <4>1, ReachedNext
      <4> QED BY <4>2 DEF j
    <3> QED BY <2>1, <2>2, <3>1
  <2>4. F[i - 1] \in SUBSET Below(t, root)
    BY <2>2 DEF WithinDepth
  <2> HIDE DEF F
  <2>5. {p \in Inside(t, follow, F[i - 1]) : ~Skip(p)} = Inside(t, follow, F[i - 1]) \ skipped
    BY <1>1, <2>4, InsideIs
  <2> QED BY <2>3, <2>5
<1>4. F[0] = {p \in {root} : ~Skip(p)}
  <2>1. F[0] = WithinDepth(t, root, skipped, 0)
    BY <1>2
  <2> HIDE DEF F
  <2> QED BY <1>1, <1>2, <2>1, ReachedFirst DEF Plain
<1>5. Goes(F)
  <2> DEFINE V(i) == IF i = 0 THEN {p \in {root} : ~Skip(p)}
                     ELSE LET before == F[i - 1]
                          IN before \cup {p \in Inside(t, follow, before) : ~Skip(p)}
  <2>1. ASSUME NEW i \in 0..depth PROVE F[i] = V(i)
    <3>1. CASE i = 0
      BY <1>4, <3>1
    <3>2. CASE i # 0
      <4>1. i \in 1..depth
        BY <1>2, <3>2
      <4> HIDE DEF F
      <4> QED BY <1>3, <3>2, <4>1
    <3> QED BY <3>1, <3>2
  <2>2. F = [i \in 0..depth |-> F[i]]
    OBVIOUS
  <2>3. F = [i \in 0..depth |-> V(i)]
    <3> HIDE DEF F, V
    <3> QED BY <2>1, <2>2
  <2> QED BY <2>3
<1>6. Goes(seen)
  <2> HIDE DEF Goes, F
  <2> QED BY <1>5
<1>7. WalkedBy(seen, t, root, follow, depth, skipped)
  <2> HIDE DEF seen
  <2>1. seen[0] = {root} \ skipped
    <3>1. seen[0] = {p \in {root} : ~Skip(p)}
      BY <1>2, <1>6
    <3> QED BY <1>1, <1>2, <3>1
  <2>2. ASSUME NEW i \in 1..depth, seen[i - 1] \subseteq Below(t, root)
        PROVE  seen[i] = seen[i - 1] \cup (Inside(t, follow, seen[i - 1]) \ skipped)
    <3>1. i \in 0..depth /\ i # 0
      BY <1>2
    <3>2. seen[i] = seen[i - 1] \cup {p \in Inside(t, follow, seen[i - 1]) : ~Skip(p)}
      BY <1>6, <3>1
    <3> HIDE DEF Goes
    <3>3. Inside(t, follow, seen[i - 1]) \in SUBSET Below(t, root)
      BY <2>2, InsideIs
    <3>4. {p \in Inside(t, follow, seen[i - 1]) : ~Skip(p)} = Inside(t, follow, seen[i - 1]) \ skipped
      BY <1>1, <3>3
    <3> QED BY <3>2, <3>4
  <2> HIDE DEF Goes
  <2> QED BY <2>1, <2>2 DEF WalkedBy
<1>8. seen[depth] = WithinDepth(t, root, skipped, depth)
  <2> HIDE DEF seen, Goes
  <2> QED BY <1>2, <1>7, WalkEnds
<1>9. Used(t, root, follow) = {p \in seen[depth] : EntryKind(t, p, follow) # "none"}
  BY DEF Used, WalkDir, Walk, seen, Goes, Skip, depth
<1> HIDE DEF seen
<1> QED BY <1>8, <1>9 DEF skipped, depth

(* A path at any depth is reached where no depth is too little.            *)
(* The names below the directory are looked at one by one. *)
LEMMA HiddenIs ==
  ASSUME NEW t, WellFormed(t), NEW root \in Seq(Names), ~Hidden(root), NEW p \in Below(t, root)
  PROVE  HiddenBelow(root, p) <=> \E k \in Len(root)..Len(p) : Hidden(UpTo(p, k))
<1>1. p \in Seq(Names) /\ Len(p) \in Nat /\ Len(root) \in Nat
  BY DEF Below, WellFormed
<1>2. ASSUME NEW k \in Len(root) + 1..Len(p)
      PROVE  k \in Len(root)..Len(p) /\ (Hidden(UpTo(p, k)) <=> p[k] \in HiddenNames)
  <2>1. k \in Len(root)..Len(p) /\ k \in 1..Len(p) /\ k \in 0..Len(p) /\ k # 0
    BY <1>1, <1>2
  <2>2. UpTo(p, k) \in Seq(Names) /\ Len(UpTo(p, k)) = k /\ UpTo(p, k)[k] = p[k]
    BY <1>1, <2>1, UpToIs DEF UpTo
  <2>3. UpTo(p, k) # <<>> /\ Last(UpTo(p, k)) = p[k]
    BY <2>1, <2>2, LenIs DEF Last
  <2> QED BY <2>1, <2>3 DEF Hidden
<1>3. ASSUME NEW k \in Len(root)..Len(p), Hidden(UpTo(p, k)) PROVE k \in Len(root) + 1..Len(p)
  <2>1. UpTo(p, Len(root)) = root
    BY <1>1, <1>3, BelowUpTo
  <2>2. k # Len(root)
    BY <1>3, <2>1
  <2> QED BY <1>1, <1>3, <2>2
<1> QED BY <1>2, <1>3 DEF HiddenBelow

(* What the walks show: what is below the directory, without what each of  *)
(* them skips.                                                             *)
Show(t, root, follow, exclude) ==
  LET file(p) == EntryKind(t, p, follow) = "file"
      out(q) == Suffix(q, root) \in exclude
  IN /\ Files(t, TreeOf(t, root, exclude), TRUE)
          = {p \in Below(t, root) : file(p) /\ ~HiddenBelow(root, p)
               /\ \A k \in Len(root)..Len(p) : ~out(UpTo(p, k))}
     /\ Files(t, Search(t, root, follow, exclude), follow)
          = {p \in Below(t, root) : file(p) /\ ~HiddenBelow(root, p) /\ ~out(p)}
     /\ Files(t, Used(t, root, follow), follow) = {p \in Below(t, root) : file(p)}

LEMMA WalksShow ==
  ASSUME NEW t, NEW root, NEW follow, NEW exclude,
         Plain(t, root, follow), ~Hidden(root),
         \A p \in Below(t, root) :
           Len(p) <= Len(root) + MaxTreeDepth /\ Len(p) <= Len(root) + WalkDepth
  PROVE  Show(t, root, follow, exclude)
<1>1. WellFormed(t) /\ root \in Seq(Names)
  BY DEF Plain
<1>2. \A p \in Below(t, root) :
        /\ EntryKind(t, p, follow) = EntryKind(t, p, TRUE)
        /\ HiddenBelow(root, p) <=> \E k \in Len(root)..Len(p) : Hidden(UpTo(p, k))
        /\ \A k \in Len(root)..Len(p) : UpTo(p, k) \in Below(t, root)
  BY <1>1, KindIs, HiddenIs, BelowUpTo
<1> DEFINE treeSkips == {p \in Below(t, root) : SkippedByTree(root, exclude, p)}
           searchSkips == {p \in Below(t, root) : Hidden(p)}
           usedSkips == {p \in Below(t, root) : FALSE}
<1>3. Plain(t, root, TRUE)
  BY DEF Plain
<1>4. /\ TreeOf(t, root, exclude)
           = {p \in WithinDepth(t, root, treeSkips, MaxTreeDepth) : EntryKind(t, p, TRUE) # "none"}
      /\ WalkDir(t, root, follow, Hidden)
           = {p \in WithinDepth(t, root, searchSkips, WalkDepth) : EntryKind(t, p, follow) # "none"}
      /\ Used(t, root, follow)
           = {p \in WithinDepth(t, root, usedSkips, WalkDepth) : EntryKind(t, p, follow) # "none"}
  <2>1. TreeOf(t, root, exclude)
           = {p \in WithinDepth(t, root, treeSkips, MaxTreeDepth) : EntryKind(t, p, TRUE) # "none"}
    BY <1>3, TreeWalk
  <2>2. WalkDir(t, root, follow, Hidden)
           = {p \in WithinDepth(t, root, searchSkips, WalkDepth) : EntryKind(t, p, follow) # "none"}
    BY SearchWalk
  <2>3. Used(t, root, follow)
           = {p \in WithinDepth(t, root, usedSkips, WalkDepth) : EntryKind(t, p, follow) # "none"}
    BY UsedWalk
  <2> QED BY <2>1, <2>2, <2>3
<1>5. \A p : /\ p \in WithinDepth(t, root, treeSkips, MaxTreeDepth) <=>
                  p \in Below(t, root) /\ \A k \in Len(root)..Len(p) : UpTo(p, k) \notin treeSkips
             /\ p \in WithinDepth(t, root, searchSkips, WalkDepth) <=>
                  p \in Below(t, root) /\ \A k \in Len(root)..Len(p) : UpTo(p, k) \notin searchSkips
             /\ p \in WithinDepth(t, root, usedSkips, WalkDepth) <=> p \in Below(t, root)
  <2> HIDE DEF treeSkips, searchSkips
  <2>1. \A p : p \notin usedSkips
    OBVIOUS
  <2> HIDE DEF usedSkips
  <2> QED BY <2>1 DEF WithinDepth
<1>6. ASSUME NEW p \in Below(t, root)
      PROVE  /\ (\A k \in Len(root)..Len(p) : UpTo(p, k) \notin treeSkips) <=>
                  /\ ~HiddenBelow(root, p)
                  /\ \A k \in Len(root)..Len(p) : Suffix(UpTo(p, k), root) \notin exclude
             /\ (\A k \in Len(root)..Len(p) : UpTo(p, k) \notin searchSkips) <=> ~HiddenBelow(root, p)
  <2>1. ASSUME NEW k \in Len(root)..Len(p)
        PROVE  /\ UpTo(p, k) \in treeSkips <=>
                    Suffix(UpTo(p, k), root) \in exclude \/ Hidden(UpTo(p, k))
               /\ UpTo(p, k) \in searchSkips <=> Hidden(UpTo(p, k))
    BY <1>2 DEF SkippedByTree
  <2> HIDE DEF treeSkips, searchSkips
  <2> QED BY <1>2, <2>1
<1> HIDE DEF treeSkips, searchSkips, usedSkips
<1>7. ASSUME NEW p
      PROVE  p \in Files(t, TreeOf(t, root, exclude), TRUE) <=>
               /\ p \in Below(t, root) /\ EntryKind(t, p, follow) = "file" /\ ~HiddenBelow(root, p)
               /\ \A k \in Len(root)..Len(p) : Suffix(UpTo(p, k), root) \notin exclude
  BY <1>2, <1>4, <1>5, <1>6 DEF Files
<1>8. ASSUME NEW p
      PROVE  p \in Files(t, Search(t, root, follow, exclude), follow) <=>
               /\ p \in Below(t, root) /\ EntryKind(t, p, follow) = "file" /\ ~HiddenBelow(root, p)
               /\ Suffix(p, root) \notin exclude
  <2>1. Search(t, root, follow, exclude)
          = {path \in WalkDir(t, root, follow, Hidden) : Suffix(path, root) \notin exclude}
    BY DEF Search
  <2>2. p \in Search(t, root, follow, exclude) <=>
          /\ p \in Below(t, root) /\ ~HiddenBelow(root, p)
          /\ EntryKind(t, p, follow) # "none" /\ Suffix(p, root) \notin exclude
    BY <1>4, <1>5, <1>6, <2>1
  <2> QED BY <2>2 DEF Files
<1>9. ASSUME NEW p
      PROVE  p \in Files(t, Used(t, root, follow), follow) <=>
               p \in Below(t, root) /\ EntryKind(t, p, follow) = "file"
  BY <1>4, <1>5 DEF Files
<1>10. /\ Files(t, TreeOf(t, root, exclude), TRUE)
            = {p \in Below(t, root) :
                 /\ EntryKind(t, p, follow) = "file" /\ ~HiddenBelow(root, p)
                 /\ \A k \in Len(root)..Len(p) : Suffix(UpTo(p, k), root) \notin exclude}
       /\ Files(t, Search(t, root, follow, exclude), follow)
            = {p \in Below(t, root) :
                 /\ EntryKind(t, p, follow) = "file" /\ ~HiddenBelow(root, p)
                 /\ Suffix(p, root) \notin exclude}
       /\ Files(t, Used(t, root, follow), follow)
            = {p \in Below(t, root) : EntryKind(t, p, follow) = "file"}
  BY <1>7, <1>8, <1>9
<1> QED BY <1>10, Zenon DEF Show

(* The five tools agree on what is in a directory, whatever the tree and   *)
(* the exclusions (list_directory_with_sizes, search_files, grep_files,    *)
(* directory_tree and get_disk_usage in dirs.rs).                          *)
THEOREM WalksShowTheSame ==
  ASSUME Opaque
  PROVE  Spec => []WalksAgree
<1>1. IInv => WalksAgree
  <2> SUFFICES ASSUME IInv, NEW c \in Calls, At(c, DirTools, "run"),
                      ~Hidden(Path(c).canonical),
                      Is(tree, Path(c).canonical, "dir"), Comparable(Path(c).canonical)
               PROVE  LET root == Path(c).canonical
                          exclude == call[c].req.exclude
                          files(paths) == Files(tree, paths, config.follow)
                          search == files(Search(tree, root, config.follow, exclude))
                          used == files(Used(tree, root, config.follow))
                      IN /\ Files(tree, TreeOf(tree, root, exclude), TRUE)
                              = {p \in search : \A k \in Len(root)..Len(p) :
                                   Suffix(UpTo(p, k), root) \notin exclude}
                         /\ Grepped(tree, root, config.follow, exclude) \subseteq search
                         /\ {p \in used : ~HiddenBelow(root, p) /\ Suffix(p, root) \notin exclude}
                              = search
                         /\ \A p \in used : Len(p) = Len(root) + 1 => Listed(tree, root)[p] = "file"
    BY Zenon DEF WalksAgree
  <2> DEFINE root == Path(c).canonical
             exclude == call[c].req.exclude
             follow == config.follow
             search == Files(tree, Search(tree, root, follow, exclude), follow)
             used == Files(tree, Used(tree, root, follow), follow)
  <2>1. /\ WellFormed(tree) /\ root \in Seq(Names) /\ ~Hidden(root) /\ Is(tree, root, "dir")
    <3>1. CallOK(c) /\ Live(c) /\ call[c].pc = "run"
      BY DEF IInv, At
    <3>2. Path(c) \in Resolved
      <4>1. call[c].got \in Seq(Resolved) /\ call[c].got # <<>>
        BY <3>1 DEF CallOK, Shape
      <4> DEFINE got == call[c].got
      <4> HIDE DEF got
      <4>2. got[1] \in Resolved
        BY <4>1 DEF got
      <4> QED BY <4>2 DEF got, Path
    <3> QED BY <3>2 DEF IInv, Resolved
  <2>2. \A p \in Below(tree, root) :
          /\ Len(p) <= MaxHops
          /\ Len(p) <= Len(root) + MaxTreeDepth /\ Len(p) <= Len(root) + WalkDepth
          /\ Is(tree, p, "link") => follow /\ ~Is(tree, RealPath(tree, p), "dir")
    BY DEF Comparable, Is
  <2> HIDE DEF root, exclude, follow
  <2>3. Plain(tree, root, follow)
    BY <2>1, <2>2 DEF Plain
  <2> DEFINE file(p) == EntryKind(tree, p, follow) = "file"
             out(q) == Suffix(q, root) \in exclude
  <2>4. /\ Files(tree, TreeOf(tree, root, exclude), TRUE)
             = {p \in Below(tree, root) : file(p) /\ ~HiddenBelow(root, p)
                  /\ \A k \in Len(root)..Len(p) : ~out(UpTo(p, k))}
        /\ search = {p \in Below(tree, root) : file(p) /\ ~HiddenBelow(root, p) /\ ~out(p)}
        /\ used = {p \in Below(tree, root) : file(p)}
    <3>1. \A p \in Below(tree, root) :
            Len(p) <= Len(root) + MaxTreeDepth /\ Len(p) <= Len(root) + WalkDepth
      BY <2>2
    <3>2. ~Hidden(root)
      BY <2>1
    <3>3. Show(tree, root, follow, exclude)
      BY <2>3, <3>1, <3>2, WalksShow
    <3> QED BY <3>3, Zenon DEF Show, search, used, file, out
  <2>5. ASSUME NEW p \in Below(tree, root)
        PROVE  /\ (\A k \in Len(root)..Len(p) : ~out(UpTo(p, k))) => ~out(p)
               /\ (file(p) /\ Len(p) = Len(root) + 1) => Listed(tree, root)[p] = "file"
    <3>1. p \in DOMAIN tree /\ p \in Seq(Names) /\ Len(root) \in Nat /\ Len(p) \in Nat
      BY <2>1 DEF Below, WellFormed
    <3>2. Len(root) <= Len(p) /\ UpTo(p, Len(root)) = root /\ UpTo(p, Len(p)) = p
      <4>1. IsPrefix(root, p)
        BY DEF Below
      <4>2. Len(root) <= Len(p) /\ UpTo(p, Len(root)) = root
        BY <2>1, <3>1, <4>1, PrefixIs
      <4> QED BY <3>1, <4>2 DEF UpTo
    <3>3. Len(p) \in Len(root)..Len(p)
      BY <3>1, <3>2
    <3>4. ASSUME file(p), Len(p) = Len(root) + 1 PROVE Listed(tree, root)[p] = "file"
      <4>1. Front(p) = UpTo(p, Len(root))
        <5>1. Len(p) - 1 = Len(root)
          BY <3>1, <3>4
        <5> QED BY <5>1 DEF Front, UpTo
      <4>2. p # <<>>
        BY <3>1, <3>4, LenIs
      <4>3. p \in Children(tree, root)
        BY <3>1, <3>2, <4>1, <4>2 DEF Children
      <4>4. tree[p].kind # "dir"
        <5>1. ~Is(tree, p, "dir")
          BY <2>3, <3>4, KindIs
        <5> QED BY <3>1, <5>1 DEF Is
      <4> QED BY <4>3, <4>4 DEF Listed
    <3> QED BY <3>2, <3>3, <3>4
  <2>6. Grepped(tree, root, follow, exclude) \subseteq search
    BY DEF Grepped
  <2> HIDE DEF search, used, file, out
  <2>7. Files(tree, TreeOf(tree, root, exclude), TRUE)
          = {p \in search : \A k \in Len(root)..Len(p) : ~out(UpTo(p, k))}
    BY <2>4, <2>5
  <2>8. {p \in used : ~HiddenBelow(root, p) /\ ~out(p)} = search
    BY <2>4
  <2>9. \A p \in used : Len(p) = Len(root) + 1 => Listed(tree, root)[p] = "file"
    BY <2>4, <2>5
  <2> QED BY <2>6, <2>7, <2>8, <2>9 DEF root, exclude, follow, search, used, out
<1>2. IInv /\ [Next]_vars => IInv'
  BY InvariantStays
<1> QED BY <1>1, <1>2, InvariantStarts, PTL DEF Spec

-----------------------------------------------------------------------------
(***************************************************************************)
(* The order of a listing.                                                 *)
(***************************************************************************)

LEMMA Least ==
  ASSUME NEW T \in SUBSET Nat, T # {}
  PROVE  \E k \in T : \A j \in T : k <= j
<1> DEFINE R == {p \in Nat \X Nat : p[1] < p[2]}
<1>1. IsWellFoundedOn(R, Nat)
  BY NatLessThanWellFounded, Zenon DEF OpToRel
<1>2. \E m \in T : \A y \in T : <<y, m>> \notin R
  BY <1>1, WFMin, Zenon
<1>3. PICK m \in T : \A y \in T : <<y, m>> \notin R
  BY <1>2
<1>4. ASSUME NEW j \in T PROVE m <= j
  <2>1. m \in Nat /\ j \in Nat /\ ~(j < m)
    BY <1>3
  <2> QED BY <2>1
<1> QED BY <1>3, <1>4

(* The place of a name in the order, and 0 behind the end of a path, which *)
(* comes before all that goes on.                                          *)
Weight(path, k) == IF k <= Len(path) THEN Rank(path[k]) ELSE 0

LEMMA RankIs ==
  ASSUME NEW name \in Names
  PROVE  Rank(name) \in 1..Len(NameOrder) /\ NameOrder[Rank(name)] = name /\ Rank(name) \in Nat \ {0}
<1>1. \E i \in 1..Len(NameOrder) : NameOrder[i] = name
  BY NamesAssumption DEF Names, Range
<1>2. Rank(name) \in 1..Len(NameOrder) /\ NameOrder[Rank(name)] = name
  BY <1>1 DEF Rank
<1> QED BY <1>2, NamesAssumption

LEMMA WeightIs ==
  ASSUME NEW p \in Seq(Names), NEW k \in Nat \ {0}
  PROVE  Weight(p, k) \in Nat /\ (Weight(p, k) = 0 <=> Len(p) < k)
<1>1. CASE k <= Len(p)
  <2>1. p[k] \in Names
    BY <1>1
  <2> QED BY <1>1, <2>1, RankIs DEF Weight
<1>2. CASE ~(k <= Len(p))
  BY <1>2 DEF Weight
<1> QED BY <1>1, <1>2

(* Paths of the same weights are the same up to the end of the first. *)
LEMMA SameWeight ==
  ASSUME NEW p \in Seq(Names), NEW q \in Seq(Names), NEW k \in Nat \ {0},
         Weight(p, k) = Weight(q, k), k <= Len(p)
  PROVE  k <= Len(q) /\ p[k] = q[k]
<1>1. Len(p) \in Nat /\ Len(q) \in Nat
  OBVIOUS
<1>2. ~(Len(p) < k)
  BY <1>1
<1>3. k <= Len(q)
  BY <1>1, <1>2, WeightIs
<1>4. p[k] \in Names /\ q[k] \in Names
  BY <1>3
<1>5. Rank(p[k]) = Rank(q[k])
  BY <1>3 DEF Weight
<1> QED BY <1>3, <1>4, <1>5, RankIs

LessAt(p, q, k) ==
  (\A j \in 1..k - 1 : Weight(p, j) = Weight(q, j)) /\ Weight(p, k) < Weight(q, k)

LEMMA BeforeIs ==
  ASSUME NEW p \in Seq(Names), NEW q \in Seq(Names)
  PROVE  Before(p, q) <=> \E k \in Nat \ {0} : LessAt(p, q, k)
<1>1. Len(p) \in Nat /\ Len(q) \in Nat
  OBVIOUS
<1>2. ASSUME IsStrictPrefix(p, q) PROVE \E k \in Nat \ {0} : LessAt(p, q, k)
  <2>1. IsPrefix(p, q) /\ p # q
    BY <1>2 DEF IsStrictPrefix
  <2>2. Len(p) <= Len(q) /\ UpTo(q, Len(p)) = p
    BY <2>1, PrefixIs
  <2>3. \A j \in 1..Len(p) : q[j] = p[j]
    <3>1. \A j \in 1..Len(p) : UpTo(q, Len(p))[j] = q[j]
      BY <1>1, <2>2, UpToIs DEF UpTo
    <3> QED BY <2>2, <3>1
  <2>4. Len(p) # Len(q)
    BY <2>1, <2>3, SameSeq
  <2>5. Len(p) + 1 \in Nat \ {0} /\ Len(p) + 1 <= Len(q) /\ Len(p) < Len(p) + 1
    BY <1>1, <2>2, <2>4
  <2>6. ASSUME NEW j \in 1..(Len(p) + 1) - 1 PROVE Weight(p, j) = Weight(q, j)
    <3>1. j <= Len(p) /\ j <= Len(q) /\ q[j] = p[j]
      BY <1>1, <2>2, <2>3
    <3> QED BY <3>1 DEF Weight
  <2>7. Weight(p, Len(p) + 1) = 0 /\ Weight(q, Len(p) + 1) \in Nat /\ Weight(q, Len(p) + 1) # 0
    <3> DEFINE k == Len(p) + 1
    <3>1. k \in Nat \ {0} /\ Len(p) < k /\ ~(Len(q) < k)
      BY <1>1, <2>5
    <3> HIDE DEF k
    <3>2. Weight(p, k) = 0 /\ Weight(q, k) \in Nat /\ Weight(q, k) # 0
      BY <3>1, WeightIs
    <3> QED BY <3>2 DEF k
  <2>8. LessAt(p, q, Len(p) + 1)
    BY <2>6, <2>7 DEF LessAt
  <2> QED BY <2>5, <2>8
<1>3. ASSUME NEW k \in 1..Len(p), k <= Len(q), Rank(p[k]) < Rank(q[k]),
             UpTo(p, k - 1) = UpTo(q, k - 1)
      PROVE  LessAt(p, q, k)
  <2>1. ASSUME NEW j \in 1..k - 1 PROVE Weight(p, j) = Weight(q, j)
    <3>1. k - 1 \in 0..Len(p) /\ k - 1 \in 0..Len(q) /\ j <= Len(p) /\ j <= Len(q)
      BY <1>1, <1>3
    <3>2. UpTo(p, k - 1)[j] = p[j] /\ UpTo(q, k - 1)[j] = q[j]
      BY <3>1, UpToIs DEF UpTo
    <3> QED BY <1>3, <3>1, <3>2 DEF Weight
  <2>2. Weight(p, k) < Weight(q, k)
    BY <1>3 DEF Weight
  <2> QED BY <2>1, <2>2 DEF LessAt
<1>4. ASSUME NEW k \in Nat \ {0}, LessAt(p, q, k) PROVE Before(p, q)
  <2>1. Weight(p, k) < Weight(q, k) /\ \A j \in 1..k - 1 : Weight(p, j) = Weight(q, j)
    BY <1>4 DEF LessAt
  <2>2. Weight(p, k) \in Nat /\ Weight(q, k) \in Nat /\ k <= Len(q)
    BY <1>1, <2>1, WeightIs
  <2>3. ASSUME NEW j \in 1..k - 1 PROVE j <= Len(p) /\ p[j] = q[j]
    <3>1. j \in Nat \ {0} /\ j <= Len(q) /\ Weight(q, j) = Weight(p, j)
      BY <1>1, <2>1, <2>2
    <3> QED BY <3>1, SameWeight
  <2>4. k - 1 <= Len(p)
    <3>1. CASE k = 1
      BY <1>1, <3>1
    <3>2. CASE k # 1
      <4>1. k - 1 \in 1..k - 1
        BY <3>2
      <4> QED BY <2>3, <4>1
    <3> QED BY <3>1, <3>2
  <2>5. UpTo(p, k - 1) = UpTo(q, k - 1)
    <3>1. k - 1 \in 0..Len(p) /\ k - 1 \in 0..Len(q)
      BY <1>1, <2>2, <2>4
    <3>2. /\ UpTo(p, k - 1) \in Seq(Names) /\ Len(UpTo(p, k - 1)) = k - 1
          /\ \A j \in 1..k - 1 : UpTo(p, k - 1)[j] = p[j]
      BY <3>1, UpToIs DEF UpTo
    <3>3. /\ UpTo(q, k - 1) \in Seq(Names) /\ Len(UpTo(q, k - 1)) = k - 1
          /\ \A j \in 1..k - 1 : UpTo(q, k - 1)[j] = q[j]
      BY <3>1, UpToIs DEF UpTo
    <3>4. \A j \in 1..Len(UpTo(p, k - 1)) : UpTo(p, k - 1)[j] = UpTo(q, k - 1)[j]
      BY <2>3, <3>2, <3>3
    <3> QED BY <3>2, <3>3, <3>4, SameSeq
  <2>6. CASE k <= Len(p)
    <3>1. Rank(p[k]) < Rank(q[k]) /\ k \in 1..Len(p)
      BY <1>1, <2>1, <2>2, <2>6 DEF Weight
    <3> QED BY <2>2, <2>5, <3>1 DEF Before
  <2>7. CASE ~(k <= Len(p))
    <3>1. Len(p) = k - 1 /\ Len(p) <= Len(q) /\ Len(p) # Len(q)
      BY <1>1, <2>2, <2>4, <2>7
    <3>2. SubSeq(p, 1, Len(p)) = SubSeq(q, 1, Len(p))
      BY <2>5, <3>1 DEF UpTo
    <3>3. IsStrictPrefix(p, q)
      BY <3>1, <3>2 DEF IsStrictPrefix, IsPrefix
    <3> QED BY <3>3 DEF Before
  <2> QED BY <2>6, <2>7
<1>5. ASSUME Before(p, q) PROVE \E k \in Nat \ {0} : LessAt(p, q, k)
  <2>1. \/ IsStrictPrefix(p, q)
        \/ \E k \in 1..Len(p) : /\ k <= Len(q) /\ Rank(p[k]) < Rank(q[k])
                                /\ UpTo(p, k - 1) = UpTo(q, k - 1)
    BY <1>5 DEF Before
  <2>2. ASSUME NEW k \in 1..Len(p), k <= Len(q), Rank(p[k]) < Rank(q[k]),
               UpTo(p, k - 1) = UpTo(q, k - 1)
        PROVE  \E m \in Nat \ {0} : LessAt(p, q, m)
    <3>1. LessAt(p, q, k) /\ k \in Nat \ {0}
      BY <1>3, <2>2
    <3> QED BY <3>1
  <2> QED BY <1>2, <2>1, <2>2
<1> QED BY <1>4, <1>5

(* Paths are in one order. *)
LEMMA BeforeOrders ==
  /\ \A p \in Seq(Names) : ~Before(p, p)
  /\ \A p \in Seq(Names), q \in Seq(Names) : p # q => Before(p, q) \/ Before(q, p)
  /\ \A p \in Seq(Names), q \in Seq(Names), r \in Seq(Names) :
       Before(p, q) /\ Before(q, r) => Before(p, r)
<1>1. ASSUME NEW p \in Seq(Names) PROVE ~Before(p, p)
  <2> SUFFICES ASSUME NEW k \in Nat \ {0}, LessAt(p, p, k) PROVE FALSE
    BY BeforeIs
  <2>1. Weight(p, k) \in Nat /\ Weight(p, k) < Weight(p, k)
    BY WeightIs DEF LessAt
  <2> QED BY <2>1
<1>2. ASSUME NEW p \in Seq(Names), NEW q \in Seq(Names), p # q
      PROVE  Before(p, q) \/ Before(q, p)
  <2> DEFINE T == {k \in Nat \ {0} : Weight(p, k) # Weight(q, k)}
  <2>1. T # {}
    <3> SUFFICES ASSUME T = {} PROVE FALSE
      OBVIOUS
    <3>1. \A k \in Nat \ {0} : Weight(p, k) = Weight(q, k)
      OBVIOUS
    <3>2. ASSUME NEW k \in Nat \ {0} PROVE k <= Len(p) => k <= Len(q) /\ p[k] = q[k]
      BY <3>1, SameWeight
    <3>3. ASSUME NEW k \in Nat \ {0} PROVE k <= Len(q) => k <= Len(p)
      <4>1. Weight(q, k) = Weight(p, k)
        BY <3>1
      <4> QED BY <4>1, SameWeight
    <3>4. Len(p) = Len(q)
      <4>1. Len(p) \in Nat /\ Len(q) \in Nat
        OBVIOUS
      <4>2. Len(p) # 0 => Len(p) <= Len(q)
        BY <3>2, <4>1
      <4>3. Len(q) # 0 => Len(q) <= Len(p)
        BY <3>3, <4>1
      <4> QED BY <4>1, <4>2, <4>3
    <3>5. \A k \in 1..Len(p) : p[k] = q[k]
      BY <3>2
    <3> QED BY <1>2, <3>4, <3>5, SameSeq
  <2>2. T \in SUBSET Nat
    OBVIOUS
  <2>3. PICK k \in T : \A j \in T : k <= j
    <3> HIDE DEF T
    <3> QED BY <2>1, <2>2, Least
  <2>4. k \in Nat \ {0} /\ Weight(p, k) # Weight(q, k)
    OBVIOUS
  <2>5. ASSUME NEW j \in 1..k - 1 PROVE Weight(p, j) = Weight(q, j) /\ Weight(q, j) = Weight(p, j)
    <3>1. j \in Nat \ {0} /\ ~(k <= j)
      BY <2>4
    <3> QED BY <2>3, <3>1
  <2>6. Weight(p, k) \in Nat /\ Weight(q, k) \in Nat
    BY <2>4, WeightIs
  <2>7. LessAt(p, q, k) \/ LessAt(q, p, k)
    BY <2>4, <2>5, <2>6 DEF LessAt
  <2> QED BY <2>4, <2>7, BeforeIs
<1>3. ASSUME NEW p \in Seq(Names), NEW q \in Seq(Names), NEW r \in Seq(Names),
             Before(p, q), Before(q, r)
      PROVE  Before(p, r)
  <2>1. PICK k \in Nat \ {0} : LessAt(p, q, k)
    BY <1>3, BeforeIs
  <2>2. PICK m \in Nat \ {0} : LessAt(q, r, m)
    BY <1>3, BeforeIs
  <2>3. \A j \in Nat \ {0} : Weight(p, j) \in Nat /\ Weight(q, j) \in Nat /\ Weight(r, j) \in Nat
    BY WeightIs
  <2>4. /\ Weight(p, k) < Weight(q, k) /\ \A j \in 1..k - 1 : Weight(p, j) = Weight(q, j)
        /\ Weight(q, m) < Weight(r, m) /\ \A j \in 1..m - 1 : Weight(q, j) = Weight(r, j)
    BY <2>1, <2>2 DEF LessAt
  <2>5. CASE k <= m
    <3>1. \A j \in 1..k - 1 : j \in 1..m - 1
      BY <2>5
    <3>2. Weight(q, k) <= Weight(r, k)
      <4>1. CASE k = m
        BY <2>3, <2>4, <4>1
      <4>2. CASE k # m
        <5>1. k \in 1..m - 1
          BY <2>5, <4>2
        <5> QED BY <2>3, <2>4, <5>1
      <4> QED BY <4>1, <4>2
    <3>3. Weight(p, k) < Weight(r, k)
      BY <2>3, <2>4, <3>2
    <3>4. LessAt(p, r, k)
      BY <2>4, <3>1, <3>3 DEF LessAt
    <3> QED BY <3>4, BeforeIs
  <2>6. CASE ~(k <= m)
    <3>1. m \in 1..k - 1 /\ \A j \in 1..m - 1 : j \in 1..k - 1
      BY <2>6
    <3>2. Weight(p, m) < Weight(r, m)
      BY <2>4, <3>1
    <3>3. LessAt(p, r, m)
      BY <2>4, <3>1, <3>2 DEF LessAt
    <3> QED BY <3>3, BeforeIs
  <2> QED BY <2>5, <2>6
<1> QED BY <1>1, <1>2, <1>3

-----------------------------------------------------------------------------
(***************************************************************************)
(* The sorted paths of some entries.                                       *)
(***************************************************************************)

PathsOfEntries(E) == {e[3] : e \in E}

IsScan(E) == IsFiniteSet(E) /\ PathsOfEntries(E) \in SUBSET Seq(Names)

CountAt(E, path) == Cardinality({e \in E : e[3] = path})

LEMMA EntryPath ==
  ASSUME NEW E, IsScan(E), NEW e \in E
  PROVE  e[3] \in Seq(Names) /\ e[3] \in PathsOfEntries(E)
BY DEF IsScan, PathsOfEntries

LEMMA CountsAre ==
  ASSUME NEW E, IsScan(E), NEW p \in Seq(Names)
  PROVE  /\ CountBefore(E, p) \in Nat /\ CountUpTo(E, p) \in Nat /\ CountAt(E, p) \in Nat
         /\ CountUpTo(E, p) = CountBefore(E, p) + CountAt(E, p)
         /\ CountUpTo(E, p) <= Cardinality(E) /\ Cardinality(E) \in Nat
         /\ p \in PathsOfEntries(E) => CountBefore(E, p) < CountUpTo(E, p)
<1> DEFINE B == {e \in E : Before(e[3], p)}
           U == {e \in E : ~Before(p, e[3])}
           A == {e \in E : e[3] = p}
<1>1. IsFiniteSet(E) /\ B \in SUBSET E /\ U \in SUBSET E /\ A \in SUBSET E
  BY DEF IsScan
<1>2. U = B \cup A /\ B \cap A = {}
  <2>1. ASSUME NEW e \in E PROVE /\ ~Before(p, e[3]) <=> Before(e[3], p) \/ e[3] = p
                                 /\ ~(Before(e[3], p) /\ e[3] = p)
    <3>1. e[3] \in Seq(Names)
      BY EntryPath
    <3> DEFINE q == e[3]
    <3> HIDE DEF q
    <3>2. q \in Seq(Names)
      BY <3>1 DEF q
    <3>3. /\ ~Before(p, p) /\ (p # q => Before(p, q) \/ Before(q, p))
          /\ Before(p, q) /\ Before(q, p) => Before(p, p)
      BY <3>2, BeforeOrders
    <3>4. /\ ~Before(p, q) <=> Before(q, p) \/ q = p
          /\ ~(Before(q, p) /\ q = p)
      BY <3>3
    <3> QED BY <3>4 DEF q
  <2> QED BY <2>1
<1>3. A = {} => p \notin PathsOfEntries(E)
  BY DEF PathsOfEntries
<1> HIDE DEF A, B, U
<1>4. IsFiniteSet(B) /\ IsFiniteSet(U) /\ IsFiniteSet(A) /\ Cardinality(U) <= Cardinality(E)
  BY <1>1, FS_Subset
<1>5. Cardinality(B) \in Nat /\ Cardinality(U) \in Nat /\ Cardinality(A) \in Nat /\ Cardinality(E) \in Nat
  BY <1>1, <1>4, FS_CardinalityType
<1>6. Cardinality(U) = Cardinality(B) + Cardinality(A) - Cardinality(B \cap A)
  BY <1>2, <1>4, FS_Union
<1>7. Cardinality(B \cap A) = 0
  BY <1>2, FS_EmptySet
<1>8. Cardinality(A) = 0 => A = {}
  BY <1>4, FS_EmptySet
<1>9. CountBefore(E, p) = Cardinality(B) /\ CountUpTo(E, p) = Cardinality(U) /\ CountAt(E, p) = Cardinality(A)
  BY DEF CountBefore, CountUpTo, CountAt, A, B, U
<1>10. p \in PathsOfEntries(E) => Cardinality(A) # 0
  BY <1>3, <1>8
<1> QED BY <1>4, <1>5, <1>6, <1>7, <1>9, <1>10

(* What is not after a path is before all that is. *)
LEMMA CountsGrow ==
  ASSUME NEW E, IsScan(E), NEW p \in Seq(Names), NEW q \in Seq(Names), Before(p, q)
  PROVE  CountUpTo(E, p) <= CountBefore(E, q)
<1> DEFINE B == {e \in E : Before(e[3], q)}
           U == {e \in E : ~Before(p, e[3])}
<1>1. IsFiniteSet(B)
  <2>1. B \in SUBSET E /\ IsFiniteSet(E)
    BY DEF IsScan
  <2> HIDE DEF B
  <2> QED BY <2>1, FS_Subset
<1>2. U \in SUBSET B
  <2>1. ASSUME NEW e \in E, ~Before(p, e[3]) PROVE Before(e[3], q)
    <3> DEFINE r == e[3]
    <3>1. r \in Seq(Names) /\ ~Before(p, r)
      BY <2>1, EntryPath
    <3> HIDE DEF r
    <3>2. p # r => Before(r, p)
      BY <3>1, BeforeOrders
    <3>3. Before(r, p) => Before(r, q)
      BY <3>1, BeforeOrders
    <3>4. Before(r, q)
      BY <3>2, <3>3
    <3> QED BY <3>4 DEF r
  <2> QED BY <2>1
<1> HIDE DEF B, U
<1>3. Cardinality(U) <= Cardinality(B)
  BY <1>1, <1>2, FS_Subset
<1> QED BY <1>3 DEF CountUpTo, CountBefore, B, U

(* Among some entries there is one that none of them comes after. *)
LEMMA LastEntry ==
  ASSUME NEW E, IsScan(E), NEW D \in SUBSET E, D # {}
  PROVE  \E e \in D : \A f \in D : ~Before(e[3], f[3])
<1> DEFINE n == Cardinality(E)
           T == {k \in 0..n : \E e \in D : CountUpTo(E, e[3]) = k}
<1>1. n \in Nat /\ \A e \in D : /\ CountUpTo(E, e[3]) \in 0..n
                                /\ CountBefore(E, e[3]) \in Nat /\ e[3] \in Seq(Names)
                                /\ CountBefore(E, e[3]) < CountUpTo(E, e[3])
  <2>1. ASSUME NEW e \in D
        PROVE  /\ CountUpTo(E, e[3]) \in 0..n /\ n \in Nat
               /\ CountBefore(E, e[3]) \in Nat /\ e[3] \in Seq(Names)
               /\ CountBefore(E, e[3]) < CountUpTo(E, e[3])
    <3> DEFINE p == e[3]
    <3>1. p \in Seq(Names) /\ p \in PathsOfEntries(E)
      BY EntryPath
    <3> HIDE DEF p
    <3>2. CountUpTo(E, p) \in 0..n /\ n \in Nat /\ CountBefore(E, p) \in Nat
          /\ CountBefore(E, p) < CountUpTo(E, p)
      BY <3>1, CountsAre
    <3> QED BY <3>1, <3>2 DEF p
  <2> QED BY <2>1
<1> HIDE DEF n
<1>2. T # {} /\ T \in SUBSET (0..n)
  BY <1>1
<1>3. PICK k \in T : \A j \in T : j <= k
  <2> HIDE DEF T
  <2> QED BY <1>1, <1>2, Greatest
<1>4. PICK e \in D : CountUpTo(E, e[3]) = k
  OBVIOUS
<1>5. ASSUME NEW f \in D, Before(e[3], f[3]) PROVE FALSE
  <2>1. CountUpTo(E, e[3]) <= CountBefore(E, f[3])
    <3> DEFINE p == e[3]
               q == f[3]
    <3>1. p \in Seq(Names) /\ q \in Seq(Names) /\ Before(p, q)
      BY <1>1, <1>5
    <3> HIDE DEF p, q
    <3>2. CountUpTo(E, p) <= CountBefore(E, q)
      BY <3>1, CountsGrow
    <3> QED BY <3>2 DEF p, q
  <2>2. CountUpTo(E, f[3]) \in T
    BY <1>1
  <2>3. CountUpTo(E, f[3]) <= k
    BY <1>3, <2>2
  <2> QED BY <1>1, <1>4, <2>1, <2>3
<1> QED BY <1>5

(* There is an i-th path. *)
LEMMA IthPath ==
  ASSUME NEW E, IsScan(E), NEW i \in 1..Cardinality(E)
  PROVE  \E p \in PathsOfEntries(E) : CountBefore(E, p) < i /\ i <= CountUpTo(E, p)
<1> DEFINE T == {k \in Nat : \E p \in PathsOfEntries(E) : CountBefore(E, p) = k /\ i <= CountUpTo(E, p)}
<1>1. IsFiniteSet(E) /\ Cardinality(E) \in Nat /\ i \in Nat \ {0} /\ i <= Cardinality(E)
  BY FS_CardinalityType DEF IsScan
<1>2. \A p \in PathsOfEntries(E) : p \in Seq(Names) /\ CountBefore(E, p) \in Nat /\ CountUpTo(E, p) \in Nat
  BY CountsAre DEF IsScan
<1>3. T # {}
  <2>1. E # {}
    BY <1>1, FS_EmptySet
  <2>2. PICK e \in E : \A f \in E : ~Before(e[3], f[3])
    <3>1. E \in SUBSET E
      OBVIOUS
    <3> QED BY <2>1, <3>1, LastEntry
  <2>3. {f \in E : ~Before(e[3], f[3])} = E
    BY <2>2
  <2>4. CountUpTo(E, e[3]) = Cardinality(E)
    BY <2>3 DEF CountUpTo
  <2>5. e[3] \in PathsOfEntries(E)
    BY EntryPath
  <2> QED BY <1>1, <1>2, <2>4, <2>5
<1>4. PICK k \in T : \A j \in T : k <= j
  <2>1. T \in SUBSET Nat
    OBVIOUS
  <2> HIDE DEF T
  <2> QED BY <1>3, <2>1, Least
<1>5. PICK p \in PathsOfEntries(E) : CountBefore(E, p) = k /\ i <= CountUpTo(E, p)
  OBVIOUS
<1>6. ASSUME i <= CountBefore(E, p) PROVE FALSE
  <2> DEFINE D == {e \in E : Before(e[3], p)}
  <2>1. D \in SUBSET E /\ CountBefore(E, p) = Cardinality(D)
    BY DEF CountBefore
  <2>2. D # {}
    <3> SUFFICES ASSUME D = {} PROVE FALSE
      OBVIOUS
    <3>1. Cardinality(D) = 0
      BY FS_EmptySet
    <3> HIDE DEF D
    <3> QED BY <1>1, <1>6, <2>1, <3>1
  <2>3. PICK e \in D : \A f \in D : ~Before(e[3], f[3])
    <3> HIDE DEF D
    <3> QED BY <2>1, <2>2, LastEntry
  <2> DEFINE q == e[3]
  <2>4. q \in PathsOfEntries(E) /\ Before(q, p)
    BY EntryPath
  <2>5. Cardinality(D) <= CountUpTo(E, q)
    <3> DEFINE U == {f \in E : ~Before(q, f[3])}
    <3>1. D \in SUBSET U /\ U \in SUBSET E
      BY <2>3
    <3> HIDE DEF D, U
    <3>2. IsFiniteSet(U)
      BY <1>1, <3>1, FS_Subset
    <3>3. Cardinality(D) <= Cardinality(U)
      BY <3>1, <3>2, FS_Subset
    <3> QED BY <3>3 DEF CountUpTo, U
  <2> HIDE DEF q, D
  <2>6. CountBefore(E, q) < CountUpTo(E, q) /\ CountUpTo(E, q) <= CountBefore(E, p)
    <3>1. q \in Seq(Names) /\ p \in Seq(Names)
      BY <1>2, <2>4
    <3>2. CountBefore(E, q) < CountUpTo(E, q)
      BY <2>4, <3>1, CountsAre
    <3>3. CountUpTo(E, q) <= CountBefore(E, p)
      BY <2>4, <3>1, CountsGrow
    <3> QED BY <3>2, <3>3
  <2>7. i <= CountUpTo(E, q)
    BY <1>1, <1>2, <1>6, <2>1, <2>4, <2>5
  <2>8. CountBefore(E, q) \in T
    BY <1>2, <2>4, <2>7
  <2>9. k <= CountBefore(E, q)
    BY <1>4, <2>8
  <2> QED BY <1>2, <1>5, <2>4, <2>6, <2>9
<1>7. CountBefore(E, p) < i
  BY <1>1, <1>2, <1>6
<1> QED BY <1>5, <1>7

(* The sorted list: its length, what is where in it, in order, and each    *)
(* path as often as there are entries for it.                              *)
LEMMA SortedIs ==
  ASSUME NEW E, IsScan(E)
  PROVE  LET s == Sorted(E)
             n == Cardinality(E)
         IN /\ n \in Nat /\ s \in Seq(PathsOfEntries(E)) /\ Len(s) = n
            /\ \A i \in 1..n : \A j \in 1..n : i < j => ~Before(s[j], s[i])
            /\ \A p \in PathsOfEntries(E) :
                 /\ \E i \in 1..n : s[i] = p
                 /\ Cardinality({i \in 1..n : s[i] = p}) = CountAt(E, p)
<1> DEFINE s == Sorted(E)
           n == Cardinality(E)
           P == PathsOfEntries(E)
<1>1. n \in Nat /\ P \in SUBSET Seq(Names)
  BY FS_CardinalityType DEF IsScan
<1>2. ASSUME NEW i \in 1..n
      PROVE  s[i] \in P /\ CountBefore(E, s[i]) < i /\ i <= CountUpTo(E, s[i])
  <2>1. \E p \in P : CountBefore(E, p) < i /\ i <= CountUpTo(E, p)
    BY IthPath
  <2>2. s[i] = CHOOSE p \in P : CountBefore(E, p) < i /\ i <= CountUpTo(E, p)
    BY DEF Sorted, PathsOfEntries
  <2> HIDE DEF s, P
  <2> QED BY <2>1, <2>2
<1>3. s \in [1..n -> P]
  <2>1. s = [i \in 1..n |-> s[i]]
    BY DEF Sorted
  <2> HIDE DEF s, P, n
  <2> QED BY <1>2, <2>1
<1> HIDE DEF s, n, P
<1>4. s \in Seq(P) /\ Len(s) = n
  BY <1>1, <1>3
<1>5. \A p \in P : /\ p \in Seq(Names) /\ CountBefore(E, p) \in Nat /\ CountUpTo(E, p) \in Nat
                   /\ CountUpTo(E, p) <= n /\ CountBefore(E, p) < CountUpTo(E, p)
                   /\ CountAt(E, p) \in Nat /\ CountUpTo(E, p) = CountBefore(E, p) + CountAt(E, p)
  <2> SUFFICES ASSUME NEW p \in P
               PROVE  /\ p \in Seq(Names) /\ CountBefore(E, p) \in Nat /\ CountUpTo(E, p) \in Nat
                      /\ CountUpTo(E, p) <= n /\ CountBefore(E, p) < CountUpTo(E, p)
                      /\ CountAt(E, p) \in Nat /\ CountUpTo(E, p) = CountBefore(E, p) + CountAt(E, p)
    OBVIOUS
  <2>1. p \in Seq(Names) /\ p \in PathsOfEntries(E)
    BY <1>1 DEF P
  <2> QED BY <2>1, CountsAre DEF n
<1>6. ASSUME NEW i \in 1..n, NEW j \in 1..n, i < j, Before(s[j], s[i]) PROVE FALSE
  <2> DEFINE p == s[j]
             q == s[i]
  <2>1. p \in Seq(Names) /\ q \in Seq(Names) /\ Before(p, q) /\ p \in P /\ q \in P
    BY <1>2, <1>5, <1>6
  <2>2. CountBefore(E, q) < i /\ j <= CountUpTo(E, p)
    BY <1>2
  <2> HIDE DEF p, q
  <2>3. CountUpTo(E, p) <= CountBefore(E, q)
    BY <2>1, CountsGrow
  <2> QED BY <1>1, <1>5, <1>6, <2>1, <2>2, <2>3
<1>7. ASSUME NEW p \in P, NEW i \in 1..n
      PROVE  s[i] = p <=> i \in CountBefore(E, p) + 1..CountUpTo(E, p)
  <2>1. i \in Nat /\ CountBefore(E, p) \in Nat /\ CountUpTo(E, p) \in Nat
    BY <1>5
  <2>2. ASSUME s[i] = p PROVE i \in CountBefore(E, p) + 1..CountUpTo(E, p)
    <3>1. CountBefore(E, p) < i /\ i <= CountUpTo(E, p)
      BY <1>2, <2>2
    <3> QED BY <2>1, <3>1
  <2>3. ASSUME i \in CountBefore(E, p) + 1..CountUpTo(E, p), s[i] # p PROVE FALSE
    <3> DEFINE q == s[i]
    <3>1. q \in P /\ CountBefore(E, q) < i /\ i <= CountUpTo(E, q) /\ q # p
      BY <1>2, <2>3
    <3> HIDE DEF q
    <3>2. p \in Seq(Names) /\ q \in Seq(Names) /\ CountBefore(E, q) \in Nat /\ CountUpTo(E, q) \in Nat
      BY <1>5, <3>1
    <3>3. Before(p, q) \/ Before(q, p)
      BY <3>1, <3>2, BeforeOrders
    <3>4. CASE Before(p, q)
      <4>1. CountUpTo(E, p) <= CountBefore(E, q)
        BY <3>2, <3>4, CountsGrow
      <4> QED BY <2>1, <2>3, <3>1, <3>2, <4>1
    <3>5. CASE Before(q, p)
      <4>1. CountUpTo(E, q) <= CountBefore(E, p)
        BY <3>2, <3>5, CountsGrow
      <4> QED BY <2>1, <2>3, <3>1, <3>2, <4>1
    <3> QED BY <3>3, <3>4, <3>5
  <2> QED BY <2>2, <2>3
<1>8. ASSUME NEW p \in P
      PROVE  /\ \E i \in 1..n : s[i] = p
             /\ Cardinality({i \in 1..n : s[i] = p}) = CountAt(E, p)
  <2> DEFINE a == CountBefore(E, p)
             b == CountUpTo(E, p)
  <2>1. a \in Nat /\ b \in Nat /\ a < b /\ b <= n /\ CountAt(E, p) \in Nat /\ b = a + CountAt(E, p)
    BY <1>5
  <2>2. \A i \in 1..n : s[i] = p <=> i \in a + 1..b
    BY <1>7
  <2> HIDE DEF a, b
  <2>3. b \in 1..n /\ b \in a + 1..b
    BY <1>1, <2>1
  <2>4. {i \in 1..n : s[i] = p} = a + 1..b
    <3>1. \A i \in a + 1..b : i \in 1..n
      BY <1>1, <2>1
    <3> QED BY <2>2, <3>1
  <2>5. Cardinality(a + 1..b) = b - (a + 1) + 1
    <3>1. a + 1 \in Int /\ b \in Int /\ ~(a + 1 > b)
      BY <2>1
    <3> DEFINE l == a + 1
    <3> HIDE DEF l
    <3>2. l \in Int /\ ~(l > b)
      BY <3>1 DEF l
    <3>3. Cardinality(l..b) = b - l + 1
      BY <3>1, <3>2, FS_Interval
    <3> QED BY <3>3 DEF l
  <2>6. b - (a + 1) + 1 = CountAt(E, p)
    BY <2>1
  <2> QED BY <2>2, <2>3, <2>4, <2>5, <2>6
<1>9. \A i \in 1..n : \A j \in 1..n : i < j => ~Before(s[j], s[i])
  BY <1>6
<1> QED BY <1>1, <1>4, <1>8, <1>9 DEF s, n, P

-----------------------------------------------------------------------------
(***************************************************************************)
(* What a scan comes by.                                                   *)
(***************************************************************************)

Skips(t, root, follow, p) == HiddenBelow(root, p) \/ (follow /\ Loops(t, root, p))

Level(t, root, follow, before) ==
  before \cup {p \in Inside(t, follow, before) : ~Skips(t, root, follow, p)}

FinitePaths == {S \in SUBSET Seq(Names) : IsFiniteSet(S)}

(* The levels of the walk of a scan. *)
ScannedBy(seen, t, root, follow) ==
  /\ seen[0] = {p \in {root} : ~Skips(t, root, follow, p)}
  /\ \A i \in 1..WalkDepth : seen[i] = Level(t, root, follow, seen[i - 1])
  /\ \A i \in 0..WalkDepth : seen[i] \in FinitePaths
  /\ FilesBelow(t, root, follow) = {p \in seen[WalkDepth] : EntryKind(t, p, follow) = "file"}

LEMMA LevelIsFinite ==
  ASSUME NEW t, WellFormed(t), NEW root, NEW follow, NEW S \in FinitePaths
  PROVE  Level(t, root, follow, S) \in FinitePaths
<1> DEFINE f == [x \in S \X DOMAIN t |-> Append(x[1], Last(x[2]))]
           I == {f[x] : x \in S \X DOMAIN t}
           L == {p \in Inside(t, follow, S) : ~Skips(t, root, follow, p)}
<1>1. S \in SUBSET Seq(Names) /\ IsFiniteSet(S) /\ IsFiniteSet(DOMAIN t)
  BY DEF FinitePaths, WellFormed
<1>2. IsFiniteSet(I)
  <2>1. IsFiniteSet(S \X DOMAIN t)
    BY <1>1, FS_Product
  <2>2. f \in Surjection(S \X DOMAIN t, I)
    BY DEF Surjection
  <2> HIDE DEF f, I
  <2> QED BY <2>1, <2>2, FS_Surjection
<1>3. ASSUME NEW x \in Inside(t, follow, S) PROVE x \in I /\ x \in Seq(Names)
  <2>1. PICK dir \in S : \E p \in Children(t, RealPath(t, dir)) : x = Append(dir, Last(p))
    BY <1>3 DEF Inside
  <2>2. PICK p \in Children(t, RealPath(t, dir)) : x = Append(dir, Last(p))
    BY <2>1
  <2>3. p \in DOMAIN t /\ p \in Seq(Names) /\ p # <<>>
    BY DEF Children, WellFormed
  <2>4. Last(p) \in Names
    BY <2>3, FrontIs
  <2>5. x \in Seq(Names)
    BY <1>1, <2>2, <2>4
  <2>6. x \in I
    <3>1. <<dir, p>> \in S \X DOMAIN t /\ f[<<dir, p>>] = x
      BY <2>2, <2>3
    <3> HIDE DEF f
    <3> QED BY <3>1
  <2> QED BY <2>5, <2>6
<1> HIDE DEF f, I
<1>4. L \in SUBSET I /\ L \in SUBSET Seq(Names)
  BY <1>3
<1> HIDE DEF L
<1>5. IsFiniteSet(L)
  BY <1>2, <1>4, FS_Subset
<1>6. IsFiniteSet(S \cup L) /\ S \cup L \in SUBSET Seq(Names)
  BY <1>1, <1>4, <1>5, FS_Union
<1> QED BY <1>6 DEF Level, L, FinitePaths

LEMMA ScanIs ==
  ASSUME NEW t, WellFormed(t), NEW root \in Seq(Names), NEW follow
  PROVE  \E seen : ScannedBy(seen, t, root, follow)
<1> DEFINE n == WalkDepth
           X == FinitePaths
           Skip(p) == HiddenBelow(root, p) \/ (follow /\ Loops(t, root, p))
           Next1(S) == S \cup {p \in Inside(t, follow, S) : ~Skip(p)}
           s0 == {p \in {root} : ~Skip(p)}
           Goes(f) == f = [i \in 0..n |->
                             IF i = 0 THEN {p \in {root} : ~Skip(p)}
                             ELSE LET before == f[i - 1]
                                  IN before \cup {p \in Inside(t, follow, before) : ~Skip(p)}]
           step == [p \in (0..n) \X X |-> Next1(p[2])]
           seen == CHOOSE f : Goes(f)
<1>1. n \in Nat
  BY BoundsAssumption
<1>2. s0 \in X
  <2>1. IsFiniteSet({root}) /\ s0 \in SUBSET {root}
    BY FS_Singleton
  <2> HIDE DEF s0
  <2>2. IsFiniteSet(s0)
    BY <2>1, FS_Subset
  <2> QED BY <2>1, <2>2 DEF FinitePaths
<1>3. \A S \in X : Next1(S) \in X
  <2> SUFFICES ASSUME NEW S \in X PROVE Next1(S) \in X
    OBVIOUS
  <2>1. Level(t, root, follow, S) \in X
    BY LevelIsFinite
  <2> QED BY <2>1 DEF Level, Skips
<1>4. step \in [(0..n) \X X -> X]
  <2>1. ASSUME NEW p \in (0..n) \X X PROVE Next1(p[2]) \in X
    <3>1. p[2] \in X
      OBVIOUS
    <3> HIDE DEF X, Next1
    <3> QED BY <1>3, <3>1
  <2> HIDE DEF X, Next1, n
  <2> QED BY <2>1
<1> HIDE DEF n, X, Skip
<1>5. PICK f \in [0..n -> X] : Iterates(f, n, s0, step)
  <2> HIDE DEF step, s0
  <2> QED BY <1>1, <1>2, <1>4, StepsTaken
<1>6. Goes(f)
  <2>1. ASSUME NEW k \in 1..n PROVE f[k] = Next1(f[k - 1])
    <3>1. k \in 0..n /\ k - 1 \in 0..n
      BY <1>1
    <3>2. f[k - 1] \in X /\ f[k] = step[<<k, f[k - 1]>>]
      BY <1>5, <3>1 DEF Iterates
    <3>3. <<k, f[k - 1]>> \in (0..n) \X X
      BY <3>1, <3>2
    <3> HIDE DEF Next1
    <3> QED BY <3>2, <3>3
  <2>2. f[0] = s0
    BY <1>5 DEF Iterates
  <2>3. \A k \in 0..n : f[k] = IF k = 0 THEN s0 ELSE Next1(f[k - 1])
    <3> HIDE DEF Next1, s0
    <3> QED BY <1>1, <2>1, <2>2
  <2>4. f = [k \in 0..n |-> f[k]]
    OBVIOUS
  <2>5. f = [k \in 0..n |-> IF k = 0 THEN s0 ELSE Next1(f[k - 1])]
    <3> HIDE DEF Next1, s0
    <3> QED BY <2>3, <2>4
  <2> QED BY <2>5
<1>7. Goes(seen)
  <2> HIDE DEF Goes
  <2> QED BY <1>6
<1> HIDE DEF seen
<1>8. seen[0] = s0 /\ \A k \in 1..n : seen[k] = Next1(seen[k - 1])
  <2>1. seen = [i \in 0..n |-> IF i = 0 THEN s0 ELSE Next1(seen[i - 1])]
    BY <1>7
  <2> HIDE DEF Goes, Next1, s0
  <2> QED BY <1>1, <2>1
<1> DEFINE T == {k \in 0..n : seen[k] \in X}
<1>9. T = 0..n
  <2> HIDE DEF Goes, Next1, s0
  <2>1. 0 \in T /\ T \in SUBSET (0..n)
    BY <1>1, <1>2, <1>8
  <2>2. ASSUME NEW k \in 0..n, k \in T, k < n PROVE k + 1 \in T
    <3>1. k + 1 \in 1..n /\ (k + 1) - 1 = k /\ k + 1 \in 0..n
      BY <1>1, <2>2
    <3>2. seen[k + 1] = Next1(seen[k])
      BY <1>8, <3>1
    <3> QED BY <1>3, <2>2, <3>1, <3>2
  <2>3. \A k \in 0..n : (k \in T /\ k < n) => k + 1 \in T
    BY <2>2
  <2> HIDE DEF T
  <2> QED BY <1>1, <2>1, <2>3, HandedOn, Zenon
<1>10. \A i \in 0..n : seen[i] \in FinitePaths
  BY <1>9 DEF X
<1>11. FilesBelow(t, root, follow) = {p \in seen[n] : EntryKind(t, p, follow) = "file"}
  <2>1. WalkDir(t, root, follow, LAMBDA p : HiddenBelow(root, p))
          = {p \in seen[n] : EntryKind(t, p, follow) # "none"}
    BY DEF WalkDir, Walk, seen, Goes, Skip, n
  <2> HIDE DEF Goes
  <2> QED BY <2>1 DEF FilesBelow, Files
<1>12. seen[0] = {p \in {root} : ~Skips(t, root, follow, p)}
  BY <1>8 DEF Skips, Skip
<1>13. \A i \in 1..n : seen[i] = Level(t, root, follow, seen[i - 1])
  BY <1>8 DEF Level, Skips, Skip
<1>14. ScannedBy(seen, t, root, follow)
  <2> HIDE DEF Goes
  <2> QED BY <1>10, <1>11, <1>12, <1>13 DEF ScannedBy, n
<1> QED BY <1>14

LEMMA FilesAreFinite ==
  ASSUME NEW t, WellFormed(t), NEW root \in Seq(Names), NEW follow
  PROVE  IsFiniteSet(FilesBelow(t, root, follow)) /\ FilesBelow(t, root, follow) \in SUBSET Seq(Names)
<1>1. PICK seen : ScannedBy(seen, t, root, follow)
  BY ScanIs
<1>2. WalkDepth \in 0..WalkDepth
  BY BoundsAssumption
<1>3. seen[WalkDepth] \in SUBSET Seq(Names) /\ IsFiniteSet(seen[WalkDepth])
  BY <1>1, <1>2 DEF ScannedBy, FinitePaths
<1>4. FilesBelow(t, root, follow) \in SUBSET seen[WalkDepth]
  BY <1>1 DEF ScannedBy
<1>5. IsFiniteSet(FilesBelow(t, root, follow))
  BY <1>3, <1>4, FS_Subset
<1> QED BY <1>3, <1>4, <1>5

(* Nothing is nearer the top of a path of the tree than its prefixes, and  *)
(* every one of them leads to itself.                                      *)
Shallow(t) ==
  /\ WellFormed(t) /\ Is(t, <<>>, "dir")
  /\ \A p \in DOMAIN t : Len(p) <= MaxHops /\ Len(p) <= WalkDepth

LEMMA NoLinkOnTheWay ==
  ASSUME NEW t, Shallow(t), NEW root \in Seq(Names), NEW p \in Below(t, root),
         ~Is(t, p, "link"), NEW k \in Len(root)..Len(p)
  PROVE  /\ UpTo(p, k) \in Below(t, root) /\ RealPath(t, UpTo(p, k)) = UpTo(p, k)
         /\ ~Loops(t, root, UpTo(p, k))
<1>1. WellFormed(t) /\ p \in Seq(Names) /\ p \in DOMAIN t /\ Is(t, <<>>, "dir")
  BY DEF Shallow, Below, WellFormed
<1>2. ASSUME NEW j \in Len(root)..Len(p)
      PROVE  /\ UpTo(p, j) \in Below(t, root) /\ Len(UpTo(p, j)) = j
             /\ RealPath(t, UpTo(p, j)) = UpTo(p, j)
  <2>1. /\ UpTo(p, j) \in Below(t, root) /\ Len(UpTo(p, j)) = j /\ j \in 0..Len(p)
        /\ (j < Len(p) => Is(t, UpTo(p, j), "dir")) /\ UpTo(p, Len(p)) = p
    BY <1>1, BelowUpTo
  <2>2. ~Is(t, UpTo(p, j), "link")
    <3>1. CASE j < Len(p)
      BY <2>1, <3>1 DEF Is
    <3>2. CASE ~(j < Len(p))
      <4>1. j = Len(p)
        BY <1>1, <2>1, <3>2
      <4> QED BY <2>1, <4>1
    <3> QED BY <3>1, <3>2
  <2>3. UpTo(p, j) \in DOMAIN t /\ Len(UpTo(p, j)) <= MaxHops
    BY <2>1 DEF Below, Shallow
  <2> QED BY <1>1, <2>1, <2>2, <2>3, RealIsItself
<1>3. ASSUME Loops(t, root, UpTo(p, k)) PROVE FALSE
  <2> DEFINE q == UpTo(p, k)
  <2>1. Len(q) = k /\ RealPath(t, q) = q
    BY <1>2
  <2>2. PICK j \in Len(root)..Len(q) - 1 : RealPath(t, UpTo(q, j)) = RealPath(t, q)
    BY <1>3 DEF Loops
  <2>3. Len(root) \in Nat /\ Len(p) \in Nat
    BY <1>1
  <2>4. j \in Len(root)..Len(p) /\ j < k /\ j \in 0..k /\ k \in 0..Len(p)
    BY <2>1, <2>2, <2>3
  <2>5. UpTo(q, j) = UpTo(p, j)
    BY <1>1, <2>4, UpToUpTo
  <2>6. RealPath(t, UpTo(p, j)) = UpTo(p, j) /\ Len(UpTo(p, j)) = j
    BY <1>2, <2>4
  <2>7. UpTo(p, j) = q
    BY <2>1, <2>2, <2>5, <2>6
  <2> QED BY <2>1, <2>4, <2>6, <2>7
<1> QED BY <1>2, <1>3

LEMMA HiddenUpTo ==
  ASSUME NEW root \in Seq(Names), NEW p \in Seq(Names), NEW k \in 0..Len(p),
         HiddenBelow(root, UpTo(p, k))
  PROVE  HiddenBelow(root, p)
<1>1. /\ UpTo(p, k) \in Seq(Names) /\ Len(UpTo(p, k)) = k
      /\ \A i \in 1..k : UpTo(p, k)[i] = p[i]
  BY UpToIs DEF UpTo
<1>2. PICK j \in Len(root) + 1..Len(UpTo(p, k)) : UpTo(p, k)[j] \in HiddenNames
  BY DEF HiddenBelow
<1>3. Len(root) \in Nat /\ Len(p) \in Nat
  OBVIOUS
<1>4. j \in 1..k /\ j \in Len(root) + 1..Len(p)
  BY <1>1, <1>2, <1>3
<1> QED BY <1>1, <1>2, <1>4 DEF HiddenBelow

(* A walk comes by every file of the directory that is not hidden. *)
LEMMA VisibleIsScanned ==
  ASSUME NEW t, Shallow(t), NEW root \in Seq(Names), NEW follow, NEW p \in Below(t, root),
         Is(t, p, "file"), ~HiddenBelow(root, p)
  PROVE  p \in FilesBelow(t, root, follow)
<1>1. PICK seen : ScannedBy(seen, t, root, follow)
  BY ScanIs DEF Shallow
<1> DEFINE b == Len(root)
           n == Len(p) - b
           T == {i \in 0..WalkDepth : (i <= n => UpTo(p, b + i) \in seen[i]) /\ (n <= i => p \in seen[i])}
<1>2. /\ WellFormed(t) /\ WalkDepth \in Nat /\ b \in Nat /\ p \in Seq(Names) /\ p \in DOMAIN t
      /\ Len(p) <= WalkDepth /\ Len(p) \in Nat
  BY BoundsAssumption DEF Shallow, Below, WellFormed
<1>3. b <= Len(p) /\ UpTo(p, b) = root /\ UpTo(p, Len(p)) = p
  <2>1. IsPrefix(root, p)
    BY DEF Below
  <2>2. b <= Len(p) /\ UpTo(p, b) = root
    BY <1>2, <2>1, PrefixIs
  <2> QED BY <1>2, <2>2 DEF UpTo
<1>4. n \in Nat /\ n <= WalkDepth /\ b + n = Len(p) /\ b + 0 = b
  BY <1>2, <1>3
<1>5. ASSUME NEW k \in b..Len(p)
      PROVE  /\ ~Skips(t, root, follow, UpTo(p, k)) /\ UpTo(p, k) \in Below(t, root)
             /\ RealPath(t, UpTo(p, k)) = UpTo(p, k) /\ Len(UpTo(p, k)) = k
             /\ k < Len(p) => Is(t, UpTo(p, k), "dir")
  <2>1. ~Is(t, p, "link")
    BY DEF Is
  <2>2. /\ UpTo(p, k) \in Below(t, root) /\ RealPath(t, UpTo(p, k)) = UpTo(p, k)
        /\ ~Loops(t, root, UpTo(p, k))
    BY <2>1, NoLinkOnTheWay
  <2>3. ~HiddenBelow(root, UpTo(p, k))
    <3>1. k \in 0..Len(p)
      BY <1>2
    <3> QED BY <1>2, <3>1, HiddenUpTo
  <2>4. Len(UpTo(p, k)) = k /\ (k < Len(p) => Is(t, UpTo(p, k), "dir"))
    BY <1>2, BelowUpTo
  <2> QED BY <2>2, <2>3, <2>4 DEF Skips
<1> HIDE DEF b, n
<1>6. 0 \in T
  <2>1. root \in seen[0]
    <3>1. b \in b..Len(p)
      BY <1>2, <1>3
    <3>2. ~Skips(t, root, follow, root)
      BY <1>3, <1>5, <3>1
    <3> QED BY <1>1, <3>2 DEF ScannedBy
  <2>2. n <= 0 => p = root
    BY <1>2, <1>3, <1>4
  <2> QED BY <1>2, <1>3, <1>4, <2>1, <2>2
<1>7. ASSUME NEW i \in 0..WalkDepth, i \in T, i < WalkDepth PROVE i + 1 \in T
  <2>1. i \in Nat /\ i + 1 \in 1..WalkDepth /\ i + 1 \in 0..WalkDepth /\ (i + 1) - 1 = i
    BY <1>2, <1>7
  <2>2. seen[i + 1] = Level(t, root, follow, seen[i])
    BY <1>1, <2>1 DEF ScannedBy
  <2>3. (i <= n => UpTo(p, b + i) \in seen[i]) /\ (n <= i => p \in seen[i])
    BY <1>7
  <2>4. ASSUME i + 1 <= n PROVE UpTo(p, b + (i + 1)) \in seen[i + 1]
    <3> DEFINE k == b + i
               d == UpTo(p, k)
               q == UpTo(p, k + 1)
    <3>1. k \in b..Len(p) /\ k + 1 \in b..Len(p) /\ k < Len(p) /\ i <= n /\ k + 1 = b + (i + 1)
          /\ k \in 0..k + 1 /\ k + 1 \in 0..Len(p) /\ (k + 1) - 1 = k /\ k + 1 # 0
      BY <1>2, <1>4, <2>1, <2>4
    <3>2. d \in seen[i]
      BY <2>3, <3>1
    <3> HIDE DEF k
    <3>3. /\ d \in Below(t, root) /\ RealPath(t, d) = d /\ Is(t, d, "dir")
          /\ q \in Below(t, root) /\ ~Skips(t, root, follow, q) /\ Len(q) = k + 1
      BY <1>5, <3>1
    <3>4. UpTo(q, k) = d
      BY <1>2, <3>1, UpToUpTo
    <3> HIDE DEF d, q
    <3>5. q \in DOMAIN t /\ q \in Seq(Names)
      BY <1>2, <3>3 DEF Below, WellFormed
    <3>6. q # <<>> /\ Front(q) = d
      <4>1. Front(q) = UpTo(q, k)
        BY <3>1, <3>3 DEF Front, UpTo
      <4>2. q # <<>>
        BY <3>1, <3>3, <3>5, LenIs
      <4> QED BY <3>4, <4>1, <4>2
    <3>7. q = Append(d, Last(q))
      BY <3>5, <3>6, FrontIs
    <3>8. q \in Children(t, RealPath(t, d))
      BY <3>3, <3>5, <3>6 DEF Children
    <3>9. EntryKind(t, d, follow) = "dir"
      BY <3>3 DEF EntryKind, Is
    <3>10. q \in Inside(t, follow, seen[i])
      BY <3>2, <3>7, <3>8, <3>9 DEF Inside
    <3>11. q \in seen[i + 1]
      BY <2>2, <3>3, <3>10 DEF Level
    <3> QED BY <3>1, <3>11 DEF q
  <2>5. ASSUME n <= i + 1 PROVE p \in seen[i + 1]
    <3>1. CASE n <= i
      BY <2>2, <2>3, <3>1 DEF Level
    <3>2. CASE ~(n <= i)
      <4>1. i + 1 <= n /\ b + (i + 1) = Len(p)
        BY <1>4, <2>1, <2>5, <3>2, <1>2
      <4> QED BY <1>3, <2>4, <4>1
    <3> QED BY <3>1, <3>2
  <2> QED BY <2>1, <2>4, <2>5
<1>8. T = 0..WalkDepth
  <2>1. T \in SUBSET (0..WalkDepth) /\ \A i \in 0..WalkDepth : (i \in T /\ i < WalkDepth) => i + 1 \in T
    BY <1>7
  <2> HIDE DEF T
  <2> QED BY <1>2, <1>6, <2>1, HandedOn, Zenon
<1>9. p \in seen[WalkDepth]
  <2>1. WalkDepth \in 0..WalkDepth
    BY <1>2
  <2>2. WalkDepth \in T
    BY <1>8, <2>1
  <2> QED BY <1>4, <2>2
<1>10. EntryKind(t, p, follow) = "file"
  <2>1. Len(p) \in b..Len(p)
    BY <1>2, <1>3
  <2>2. RealPath(t, p) = p
    BY <1>3, <1>5, <2>1
  <2> QED BY <2>2 DEF EntryKind, Is
<1> QED BY <1>1, <1>9, <1>10 DEF ScannedBy

(* A walk that follows no links stays below its directory. *)
LEMMA ScannedIsVisible ==
  ASSUME NEW t, Shallow(t), NEW root \in Seq(Names), NEW p \in FilesBelow(t, root, FALSE)
  PROVE  p \in Seq(Names) /\ Is(t, p, "file") /\ IsPrefix(root, p) /\ ~HiddenBelow(root, p)
<1> DEFINE on == FALSE
<1>0. p \in FilesBelow(t, root, on) /\ on = FALSE
  OBVIOUS
<1> HIDE DEF on
<1>1. PICK seen : ScannedBy(seen, t, root, on)
  BY ScanIs DEF Shallow
<1> DEFINE T == {i \in 0..WalkDepth : \A q \in seen[i] : IsPrefix(root, q) /\ ~HiddenBelow(root, q)}
<1>2. WellFormed(t) /\ WalkDepth \in Nat /\ Is(t, <<>>, "dir")
  BY BoundsAssumption DEF Shallow
<1>3. ASSUME NEW q, ~Skips(t, root, on, q) PROVE ~HiddenBelow(root, q)
  BY <1>3 DEF Skips
<1>4. 0 \in T
  <2>1. \A q \in seen[0] : q = root /\ ~HiddenBelow(root, q)
    BY <1>1, <1>3 DEF ScannedBy
  <2>2. IsPrefix(root, root)
    BY FrontIsPrefix
  <2> QED BY <1>2, <2>1, <2>2
<1>5. ASSUME NEW i \in 0..WalkDepth, i \in T, i < WalkDepth PROVE i + 1 \in T
  <2>1. i \in Nat /\ i + 1 \in 1..WalkDepth /\ i + 1 \in 0..WalkDepth /\ (i + 1) - 1 = i
    BY <1>2, <1>5
  <2>2. seen[i + 1] = Level(t, root, on, seen[i])
    BY <1>1, <2>1 DEF ScannedBy
  <2>3. ASSUME NEW q \in Inside(t, on, seen[i]) PROVE IsPrefix(root, q)
    <3>1. PICK d \in seen[i] : /\ EntryKind(t, d, on) = "dir"
                               /\ \E x \in Children(t, RealPath(t, d)) : q = Append(d, Last(x))
      BY <2>3 DEF Inside
    <3>2. PICK x \in Children(t, RealPath(t, d)) : q = Append(d, Last(x))
      BY <3>1
    <3>3. Is(t, d, "dir") /\ d \in DOMAIN t
      BY <1>0, <3>1 DEF EntryKind, Is
    <3>4. RealPath(t, d) = d
      <4>1. ~Is(t, d, "link") /\ Len(d) <= MaxHops
        BY <3>3 DEF Is, Shallow
      <4> QED BY <1>2, <3>3, <4>1, RealIsItself
    <3>5. x \in Seq(Names) /\ x # <<>> /\ Front(x) = d /\ d \in Seq(Names)
      BY <1>2, <3>2, <3>3, <3>4 DEF Children, WellFormed
    <3>6. q = x
      BY <3>2, <3>5, FrontIs
    <3>7. IsPrefix(d, q) /\ IsPrefix(root, d)
      BY <1>5, <3>1, <3>5, <3>6, FrontIsPrefix
    <3> QED BY <3>5, <3>6, <3>7, PrefixOfPrefix
  <2>4. ASSUME NEW q \in seen[i + 1] PROVE IsPrefix(root, q) /\ ~HiddenBelow(root, q)
    <3>1. q \in seen[i] \/ (q \in Inside(t, on, seen[i]) /\ ~Skips(t, root, on, q))
      BY <2>2, <2>4 DEF Level
    <3>2. CASE q \in seen[i]
      BY <1>5, <3>2
    <3>3. CASE q \in Inside(t, on, seen[i]) /\ ~Skips(t, root, on, q)
      BY <1>3, <2>3, <3>3
    <3> QED BY <3>1, <3>2, <3>3
  <2> QED BY <2>1, <2>4
<1>6. T = 0..WalkDepth
  <2>1. T \in SUBSET (0..WalkDepth) /\ \A i \in 0..WalkDepth : (i \in T /\ i < WalkDepth) => i + 1 \in T
    BY <1>5
  <2> HIDE DEF T
  <2> QED BY <1>2, <1>4, <2>1, HandedOn, Zenon
<1>7. WalkDepth \in T
  <2>1. WalkDepth \in 0..WalkDepth
    BY <1>2
  <2> HIDE DEF T
  <2> QED BY <1>6, <2>1
<1>8. p \in seen[WalkDepth] /\ EntryKind(t, p, on) = "file"
  BY <1>0, <1>1 DEF ScannedBy
<1>9. Is(t, p, "file") /\ p \in Seq(Names)
  BY <1>0, <1>2, <1>8 DEF EntryKind, Is, WellFormed
<1> QED BY <1>7, <1>8, <1>9

-----------------------------------------------------------------------------
(***************************************************************************)
(* The entries of a scan.                                                  *)
(***************************************************************************)

EntriesOf(t, now, follow, i) ==
  {e \in {i} \X FilesBelow(t, now[i], follow) \X DOMAIN t :
     e[3] \in Shown(t, e[2], Range(now), follow)}

(* The roots as they are now, none of them missing. *)
LEMMA RootsAre ==
  ASSUME NEW t, WellFormed(t), NEW dirs \in Seq(Named), NoPath \notin Range(RootsNow(t, dirs))
  PROVE  LET now == RootsNow(t, dirs)
         IN /\ Len(dirs) \in Nat
            /\ \A i \in 1..Len(dirs) :
                 /\ now[i] = RealPath(t, ToAbs(dirs[i])) /\ now[i] \in Range(now)
                 /\ now[i] \in Seq(Names) /\ now[i] \in DOMAIN t
            /\ Range(now) = {now[i] : i \in 1..Len(dirs)}
<1> DEFINE now == RootsNow(t, dirs)
<1>1. Len(dirs) \in Nat
  OBVIOUS
<1>2. DOMAIN now = 1..Len(dirs) /\ \A i \in 1..Len(dirs) : now[i] = RealPath(t, ToAbs(dirs[i]))
  BY DEF RootsNow
<1> HIDE DEF now
<1>3. Range(now) = {now[i] : i \in 1..Len(dirs)}
  BY <1>2 DEF Range
<1>4. ASSUME NEW i \in 1..Len(dirs) PROVE now[i] \in Seq(Names) /\ now[i] \in DOMAIN t
  <2>1. now[i] # NoPath
    BY <1>3 DEF now
  <2> QED BY <1>2, <2>1, RealPathIs
<1> QED BY <1>1, <1>2, <1>3, <1>4 DEF now

LEMMA EntriesAre ==
  ASSUME NEW t, NEW dirs, NEW follow
  PROVE  Entries(t, dirs, follow)
           = UNION {EntriesOf(t, RootsNow(t, dirs), follow, i) : i \in 1..Len(dirs)}
BY DEF Entries, EntriesOf

LEMMA EntryIsTriple ==
  ASSUME NEW t, NEW now, NEW follow, NEW i, NEW e
  PROVE  e \in EntriesOf(t, now, follow, i) <=>
           \E p \in FilesBelow(t, now[i], follow) : \E q \in DOMAIN t :
             e = <<i, p, q>> /\ q \in Shown(t, p, Range(now), follow)
<1> DEFINE F == FilesBelow(t, now[i], follow)
           D == DOMAIN t
           R == Range(now)
<1> HIDE DEF F, D, R
<1>1. e \in {x \in {i} \X F \X D : x[3] \in Shown(t, x[2], R, follow)} <=>
        \E p \in F : \E q \in D : e = <<i, p, q>> /\ q \in Shown(t, p, R, follow)
  <2>1. ASSUME e \in {i} \X F \X D
        PROVE  e[2] \in F /\ e[3] \in D /\ e = <<i, e[2], e[3]>>
    BY <2>1
  <2>2. ASSUME NEW p \in F, NEW q \in D, e = <<i, p, q>>
        PROVE  e \in {i} \X F \X D /\ e[2] = p /\ e[3] = q
    BY <2>2
  <2> QED BY <2>1, <2>2
<1> QED BY <1>1 DEF EntriesOf, F, D, R

LEMMA EntriesScan ==
  ASSUME NEW t, WellFormed(t), NEW dirs \in Seq(Named), NEW follow,
         NoPath \notin Range(RootsNow(t, dirs))
  PROVE  IsScan(Entries(t, dirs, follow))
<1> DEFINE now == RootsNow(t, dirs)
           n == Len(dirs)
           all == {EntriesOf(t, now, follow, i) : i \in 1..n}
<1>1. n \in Nat /\ \A i \in 1..n : now[i] \in Seq(Names)
  BY RootsAre
<1> HIDE DEF now, n
<1>2. IsFiniteSet(all)
  <2> DEFINE f == [i \in 1..n |-> EntriesOf(t, now, follow, i)]
  <2>1. f \in Surjection(1..n, all)
    BY DEF Surjection
  <2>2. IsFiniteSet(1..n)
    <3>1. 1 \in Int /\ n \in Int
      BY <1>1
    <3> QED BY <3>1, FS_Interval, Zenon
  <2> HIDE DEF f, all
  <2> QED BY <2>1, <2>2, FS_Surjection
<1>3. ASSUME NEW i \in 1..n PROVE IsFiniteSet(EntriesOf(t, now, follow, i))
  <2> DEFINE F == FilesBelow(t, now[i], follow)
             D == DOMAIN t
             f == [x \in F \X D |-> <<i, x[1], x[2]>>]
             S == {f[x] : x \in F \X D}
  <2>1. IsFiniteSet(F) /\ IsFiniteSet(D)
    BY <1>1, FilesAreFinite DEF WellFormed
  <2>2. EntriesOf(t, now, follow, i) \in SUBSET S
    <3>1. ASSUME NEW e \in EntriesOf(t, now, follow, i) PROVE e \in S
      <4>1. PICK p \in F, q \in D : e = <<i, p, q>>
        BY <3>1, EntryIsTriple
      <4>2. <<p, q>> \in F \X D
        OBVIOUS
      <4> HIDE DEF F, D
      <4>3. f[<<p, q>>] = <<i, p, q>>
        BY <4>2
      <4> HIDE DEF f
      <4> QED BY <4>1, <4>2, <4>3
    <3> QED BY <3>1
  <2> HIDE DEF F, D
  <2>3. f \in Surjection(F \X D, S)
    BY DEF Surjection
  <2>4. IsFiniteSet(F \X D)
    BY <2>1, FS_Product
  <2> HIDE DEF f, S
  <2>5. IsFiniteSet(S)
    BY <2>3, <2>4, FS_Surjection
  <2> QED BY <2>2, <2>5, FS_Subset
<1>4. IsFiniteSet(UNION all)
  <2>1. \A T \in all : IsFiniteSet(T)
    BY <1>3
  <2> HIDE DEF all
  <2> QED BY <1>2, <2>1, FS_UNION
<1>5. Entries(t, dirs, follow) = UNION all
  BY EntriesAre DEF now, n
<1>6. ASSUME NEW e \in UNION all PROVE e[3] \in Seq(Names)
  <2>1. PICK i \in 1..n : e \in EntriesOf(t, now, follow, i)
    BY <1>6
  <2>2. PICK p \in FilesBelow(t, now[i], follow), q \in DOMAIN t : e = <<i, p, q>>
    BY <2>1, EntryIsTriple
  <2> QED BY <2>2 DEF WellFormed
<1> HIDE DEF all
<1> QED BY <1>4, <1>5, <1>6 DEF IsScan, PathsOfEntries

(* What is listed: the file an entry shows is there, in an allowed         *)
(* directory, and not a link unless links are followed.                    *)
LEMMA ListedIs ==
  ASSUME NEW t, Shallow(t), NEW dirs \in Seq(Named), NEW follow \in BOOLEAN,
         NoPath \notin Range(RootsNow(t, dirs)), NEW path \in PathsOfEntries(Entries(t, dirs, follow))
  PROVE  /\ path \in Seq(Names) /\ Is(t, path, "file") /\ RealPath(t, path) = path
         /\ \E root \in Range(RootsNow(t, dirs)) : IsPrefix(root, path)
<1> DEFINE now == RootsNow(t, dirs)
           n == Len(dirs)
<1>1. WellFormed(t) /\ Is(t, <<>>, "dir")
  BY DEF Shallow
<1>2. n \in Nat /\ \A i \in 1..n : now[i] \in Seq(Names) /\ now[i] \in Range(now)
  BY <1>1, RootsAre
<1>3. PICK e \in Entries(t, dirs, follow) : path = e[3]
  BY DEF PathsOfEntries
<1> HIDE DEF now, n
<1>4. PICK i \in 1..n : e \in EntriesOf(t, now, follow, i)
  BY EntriesAre DEF now, n
<1>5. PICK p \in FilesBelow(t, now[i], follow), q \in DOMAIN t :
        e = <<i, p, q>> /\ q \in Shown(t, p, Range(now), follow)
  BY <1>4, EntryIsTriple
<1>6. path = q /\ q \in Seq(Names) /\ now[i] \in Seq(Names)
  BY <1>1, <1>2, <1>3, <1>5 DEF WellFormed
<1>7. CASE follow
  <2>1. q = RealPath(t, p) /\ \E root \in Range(now) : IsPrefix(root, q)
    BY <1>5, <1>7 DEF Shown
  <2>2. p \in Seq(Names) /\ EntryKind(t, p, TRUE) = "file"
    <3>1. p \in Seq(Names)
      BY <1>1, <1>6, FilesAreFinite
    <3>2. EntryKind(t, p, follow) = "file"
      BY DEF FilesBelow, Files
    <3> QED BY <1>7, <3>1, <3>2 DEF EntryKind
  <2>3. Is(t, q, "file")
    BY <1>5, <2>1, <2>2 DEF EntryKind, Is
  <2>4. RealPath(t, q) = q
    <3>1. q # NoPath
      BY <1>6, NamesAssumption
    <3>2. RealPath(t, RealPath(t, p)) = RealPath(t, p)
      BY <1>1, <2>1, <2>2, <3>1, CanonicalIsReal
    <3> QED BY <2>1, <3>2
  <2> QED BY <1>6, <2>1, <2>3, <2>4 DEF now
<1>8. CASE ~follow
  <2>1. q = p /\ follow = FALSE
    BY <1>5, <1>8 DEF Shown
  <2>2. Is(t, q, "file") /\ IsPrefix(now[i], q)
    BY <1>5, <1>6, <2>1, ScannedIsVisible
  <2>3. RealPath(t, q) = q
    <3>1. ~Is(t, q, "link") /\ Len(q) <= MaxHops
      BY <2>2 DEF Is, Shallow
    <3> QED BY <1>1, <3>1, RealIsItself
  <2> QED BY <1>2, <1>6, <2>2, <2>3 DEF now
<1> QED BY <1>7, <1>8

(* The allowed directories a path is visible in. *)
ShownIn(t, now, n, path) == {i \in 1..n : IsPrefix(now[i], path) /\ ~HiddenBelow(now[i], path)}

LEMMA VisibleIsListed ==
  ASSUME NEW t, Shallow(t), NEW dirs \in Seq(Named), NEW follow \in BOOLEAN,
         NoPath \notin Range(RootsNow(t, dirs)), NEW path, Is(t, path, "file"),
         NEW i \in ShownIn(t, RootsNow(t, dirs), Len(dirs), path)
  PROVE  <<i, path, path>> \in EntriesOf(t, RootsNow(t, dirs), follow, i)
<1> DEFINE now == RootsNow(t, dirs)
           n == Len(dirs)
<1>1. WellFormed(t) /\ Is(t, <<>>, "dir")
  BY DEF Shallow
<1>2. \A j \in 1..n : now[j] \in Seq(Names) /\ now[j] \in Range(now)
  BY <1>1, RootsAre
<1>3. i \in 1..n /\ IsPrefix(now[i], path) /\ ~HiddenBelow(now[i], path) /\ path \in DOMAIN t
  BY DEF ShownIn, Is
<1> HIDE DEF now, n
<1>4. path \in Below(t, now[i]) /\ now[i] \in Seq(Names) /\ now[i] \in Range(now)
  BY <1>2, <1>3 DEF Below
<1>5. path \in FilesBelow(t, now[i], follow)
  <2> DEFINE root == now[i]
  <2>1. root \in Seq(Names) /\ path \in Below(t, root) /\ ~HiddenBelow(root, path)
    BY <1>3, <1>4
  <2> HIDE DEF root
  <2>2. path \in FilesBelow(t, root, follow)
    BY <2>1, VisibleIsScanned
  <2> QED BY <2>2 DEF root
<1>6. RealPath(t, path) = path
  <2>1. ~Is(t, path, "link") /\ Len(path) <= MaxHops
    BY <1>3 DEF Is, Shallow
  <2> QED BY <1>1, <1>3, <2>1, RealIsItself
<1>7. path \in Shown(t, path, Range(now), follow)
  BY <1>3, <1>4, <1>6 DEF Shown
<1>8. <<i, path, path>> \in EntriesOf(t, now, follow, i)
  <2> DEFINE e == <<i, path, path>>
  <2>1. \E p \in FilesBelow(t, now[i], follow) : \E q \in DOMAIN t :
          e = <<i, p, q>> /\ q \in Shown(t, p, Range(now), follow)
    BY <1>3, <1>5, <1>7
  <2> HIDE DEF e
  <2>2. e \in EntriesOf(t, now, follow, i)
    BY <2>1, EntryIsTriple, Zenon
  <2> QED BY <2>2 DEF e
<1> QED BY <1>8 DEF now

(* Without following links, a listed path has an entry for each directory  *)
(* it is visible in.                                                       *)
LEMMA EntriesCount ==
  ASSUME NEW t, Shallow(t), NEW dirs \in Seq(Named), NoPath \notin Range(RootsNow(t, dirs)),
         NEW path \in PathsOfEntries(Entries(t, dirs, FALSE))
  PROVE  CountAt(Entries(t, dirs, FALSE), path)
           = Cardinality(ShownIn(t, RootsNow(t, dirs), Len(dirs), path))
<1> DEFINE now == RootsNow(t, dirs)
           n == Len(dirs)
           off == FALSE
           E == Entries(t, dirs, off)
           A == {e \in E : e[3] = path}
           I == ShownIn(t, now, n, path)
           f == [i \in I |-> <<i, path, path>>]
<1>0. off = FALSE /\ off \in BOOLEAN
  OBVIOUS
<1>1. n \in Nat /\ \A i \in 1..n : now[i] \in Seq(Names) /\ now[i] \in Range(now)
  BY RootsAre DEF Shallow
<1>2. Is(t, path, "file")
  BY <1>0, ListedIs
<1> HIDE DEF off
<1>3. ASSUME NEW i \in I PROVE <<i, path, path>> \in A
  <2>1. i \in 1..n
    BY DEF ShownIn
  <2>2. <<i, path, path>> \in EntriesOf(t, now, off, i)
    BY <1>0, <1>2, VisibleIsListed
  <2>3. <<i, path, path>> \in E
    BY <2>1, <2>2, EntriesAre
  <2> HIDE DEF E, I
  <2> QED BY <2>3
<1>4. ASSUME NEW e \in A PROVE \E i \in I : e = <<i, path, path>>
  <2>1. e \in E /\ e[3] = path
    OBVIOUS
  <2>2. PICK i \in 1..n : e \in EntriesOf(t, now, off, i)
    BY <2>1, EntriesAre
  <2> HIDE DEF now, n, E
  <2>3. PICK p \in FilesBelow(t, now[i], off), q \in DOMAIN t :
          e = <<i, p, q>> /\ q \in Shown(t, p, Range(now), off)
    BY <2>2, EntryIsTriple
  <2>4. q = p /\ p = path
    BY <1>0, <2>1, <2>3 DEF Shown
  <2>5. IsPrefix(now[i], path) /\ ~HiddenBelow(now[i], path)
    <3> DEFINE root == now[i]
    <3>1. root \in Seq(Names) /\ p \in FilesBelow(t, root, FALSE)
      BY <1>0, <1>1, <2>3
    <3> HIDE DEF root
    <3>2. IsPrefix(root, p) /\ ~HiddenBelow(root, p)
      BY <3>1, ScannedIsVisible
    <3> QED BY <2>4, <3>2 DEF root
  <2>6. i \in I
    BY <2>5 DEF ShownIn
  <2> QED BY <2>3, <2>4, <2>6
<1>5. IsFiniteSet(I)
  <2>1. I \in SUBSET (1..n) /\ 1 \in Int /\ n \in Int
    BY <1>1 DEF ShownIn
  <2> HIDE DEF I, n
  <2>2. IsFiniteSet(1..n)
    BY <2>1, FS_Interval
  <2> QED BY <2>1, <2>2, FS_Subset
<1> HIDE DEF I, A
<1>6. f \in Bijection(I, A)
  <2>1. f \in [I -> A]
    BY <1>3
  <2>2. \A i \in I : \A j \in I : f[i] = f[j] => i = j
    OBVIOUS
  <2>3. \A e \in A : \E i \in I : f[i] = e
    BY <1>4
  <2> HIDE DEF f
  <2> QED BY <2>1, <2>2, <2>3 DEF Bijection, Injection, Surjection, IsInjective
<1>7. Cardinality(A) = Cardinality(I)
  <2>1. ExistsBijection(I, A)
    <3> HIDE DEF f
    <3> QED BY <1>6 DEF ExistsBijection
  <2> QED BY <1>5, <2>1, FS_Bijection
<1> QED BY <1>7 DEF CountAt, A, I, E, now, n, off

-----------------------------------------------------------------------------
(***************************************************************************)
(* The pages of a listing.                                                 *)
(***************************************************************************)

(* What the pages so far have shown, if all of them are cut from a scan    *)
(* that comes by E or by a part of it.                                     *)
Paged(E, cursor, seen) ==
  /\ cursor \in Nat /\ seen \in Seq({Ui} \cup PathsOfEntries(E))
  /\ Cardinality(E) <= MaxListedFiles =>
       Len(seen) = cursor /\ \A k \in 1..cursor : seen[k] = Listing(E)[k]

PageEnd(all, cursor) == Min({cursor + PageSize, Len(all)})

NextSeen(all, cursor, seen) == seen \o SubSeq(all, cursor + 1, PageEnd(all, cursor))

LEMMA PageEndIs ==
  ASSUME NEW S, NEW all \in Seq(S), NEW cursor \in Nat, cursor <= Len(all)
  PROVE  LET end == PageEnd(all, cursor)
             next == NextCursor(all, cursor)
         IN /\ end \in Nat /\ next \in Nat /\ cursor <= end /\ end <= Len(all)
            /\ next = 0 => end = Len(all)
            /\ next # 0 => end = next
<1> DEFINE a == cursor + PageSize
           n == Len(all)
           m == PageEnd(all, cursor)
<1>1. a \in Nat /\ n \in Nat /\ cursor < a /\ cursor <= n /\ a # 0
  BY BoundsAssumption
<1>2. m = CHOOSE x \in {a, n} : \A y \in {a, n} : x <= y
  BY DEF PageEnd, Min
<1>3. NextCursor(all, cursor) = IF a < n THEN a ELSE 0
  BY DEF NextCursor
<1> HIDE DEF a, n, m
<1>4. \E x \in {a, n} : \A y \in {a, n} : x <= y
  <2>1. CASE a <= n
    BY <1>1, <2>1
  <2>2. CASE ~(a <= n)
    BY <1>1, <2>2
  <2> QED BY <2>1, <2>2
<1>5. m \in {a, n} /\ m <= a /\ m <= n
  BY <1>2, <1>4
<1>6. /\ m \in Nat /\ cursor <= m /\ m <= n
      /\ ~(a < n) => m = n
      /\ a < n => m = a
  BY <1>1, <1>5
<1> QED BY <1>1, <1>3, <1>5, <1>6 DEF m, n

(* One page more. *)
LEMMA PageIs ==
  ASSUME NEW S, NEW all \in Seq(S), NEW seen \in Seq(S), NEW cursor \in Nat, cursor <= Len(all)
  PROVE  LET end == PageEnd(all, cursor)
             new == NextSeen(all, cursor, seen)
         IN /\ new \in Seq(S)
            /\ (Len(seen) = cursor /\ \A k \in 1..cursor : seen[k] = all[k]) =>
                 Len(new) = end /\ \A k \in 1..end : new[k] = all[k]
<1> DEFINE end == PageEnd(all, cursor)
           page == SubSeq(all, cursor + 1, end)
           new == seen \o page
<1>1. end \in Nat /\ cursor <= end /\ end <= Len(all) /\ Len(all) \in Nat
  BY PageEndIs
<1> HIDE DEF end
<1>2. /\ page \in Seq(S) /\ Len(page) = end - cursor
      /\ \A k \in 1..end - cursor : page[k] = all[cursor + k]
  <2> DEFINE l == cursor + 1
  <2>1. l \in 1..Len(all) + 1 /\ end \in l - 1..Len(all)
    BY <1>1
  <2> HIDE DEF l
  <2>2. /\ SubSeq(all, l, end) \in Seq(S)
        /\ Len(SubSeq(all, l, end)) = IF l <= end THEN end - l + 1 ELSE 0
        /\ \A i \in 1..end - l + 1 : SubSeq(all, l, end)[i] = all[l + i - 1]
    <3>1. \A i \in l..end : all[i] \in S
      BY <1>1, <2>1
    <3> QED BY <2>1, <3>1, SMTT(60)
  <2>3. Len(SubSeq(all, l, end)) = end - cursor
    BY <1>1, <2>2 DEF l
  <2>4. ASSUME NEW k \in 1..end - cursor PROVE SubSeq(all, l, end)[k] = all[cursor + k]
    <3>1. k \in 1..end - l + 1 /\ l + k - 1 = cursor + k
      BY <1>1 DEF l
    <3> QED BY <2>2, <3>1
  <2> QED BY <2>2, <2>3, <2>4 DEF l
<1> HIDE DEF page
<1>3. /\ new \in Seq(S) /\ Len(new) = Len(seen) + Len(page)
      /\ \A k \in 1..Len(seen) + Len(page) :
           new[k] = IF k <= Len(seen) THEN seen[k] ELSE page[k - Len(seen)]
  BY <1>2
<1> HIDE DEF new
<1>4. ASSUME Len(seen) = cursor, \A k \in 1..cursor : seen[k] = all[k]
      PROVE  Len(new) = end /\ \A k \in 1..end : new[k] = all[k]
  <2>1. Len(new) = end
    BY <1>1, <1>2, <1>3, <1>4
  <2>2. ASSUME NEW k \in 1..end PROVE new[k] = all[k]
    <3>1. k \in 1..Len(seen) + Len(page)
      BY <1>1, <1>2, <1>4
    <3>2. new[k] = IF k <= cursor THEN seen[k] ELSE page[k - cursor]
      BY <1>3, <1>4, <3>1
    <3>3. CASE k <= cursor
      BY <1>4, <3>2, <3>3
    <3>4. CASE ~(k <= cursor)
      <4>1. k - cursor \in 1..end - cursor /\ cursor + (k - cursor) = k
        BY <1>1, <3>4
      <4> QED BY <1>2, <3>2, <3>4, <4>1
    <3> QED BY <3>3, <3>4
  <2> QED BY <2>1, <2>2
<1> QED BY <1>3, <1>4 DEF new, page, end, NextSeen

(* A part of a scan. *)
LEMMA ListingIs ==
  ASSUME NEW E, IsScan(E), NEW kept \in SUBSET E
  PROVE  /\ IsScan(kept) /\ PathsOfEntries(kept) \in SUBSET PathsOfEntries(E)
         /\ Listing(kept) \in Seq({Ui} \cup PathsOfEntries(E))
<1>1. PathsOfEntries(kept) \in SUBSET PathsOfEntries(E)
  BY DEF PathsOfEntries
<1>2. IsFiniteSet(kept)
  BY FS_Subset DEF IsScan
<1>3. IsScan(kept)
  BY <1>1, <1>2 DEF IsScan
<1> DEFINE S == {Ui} \cup PathsOfEntries(E)
           s == Sorted(kept)
           P == PathsOfEntries(kept)
<1>4. s \in Seq(P)
  BY <1>3, SortedIs
<1>5. <<Ui>> \in Seq(S) /\ P \in SUBSET S
  BY <1>1
<1> HIDE DEF s, S, P
<1>6. s \in Seq(S)
  BY <1>4, <1>5
<1>7. <<Ui>> \o s \in Seq(S)
  BY <1>5, <1>6
<1> QED BY <1>1, <1>3, <1>7 DEF Listing, s, S

(* The page that a step shows: the last one completes the listing.         *)
Continues(E, all, cursor, seen) ==
  LET new == NextSeen(all, cursor, seen)
      next == NextCursor(all, cursor)
  IN /\ new \in Seq({Ui} \cup PathsOfEntries(E))
     /\ next # 0 => Paged(E, next, new)
     /\ (next = 0 /\ Cardinality(E) <= MaxListedFiles) => new = Listing(E)

LEMMA PagedOn ==
  ASSUME NEW t, WellFormed(t), NEW dirs \in Seq(Named), NEW follow,
         NoPath \notin Range(RootsNow(t, dirs)), NEW kept \in ScanResources(t, dirs, follow),
         NEW cursor, NEW seen, Paged(Entries(t, dirs, follow), cursor, seen),
         ~(cursor > Len(Listing(kept)))
  PROVE  Continues(Entries(t, dirs, follow), Listing(kept), cursor, seen)
<1> DEFINE E == Entries(t, dirs, follow)
           S == {Ui} \cup PathsOfEntries(E)
           all == Listing(kept)
           new == NextSeen(all, cursor, seen)
           next == NextCursor(all, cursor)
           end == PageEnd(all, cursor)
<1>1. IsScan(E)
  BY EntriesScan
<1>2. kept \in SUBSET E /\ (Cardinality(E) <= MaxListedFiles => kept = E)
  BY DEF ScanResources, kSubset
<1> HIDE DEF E
<1>3. all \in Seq(S) /\ Len(all) \in Nat
  BY <1>1, <1>2, ListingIs
<1>4. /\ cursor \in Nat /\ seen \in Seq(S)
      /\ Cardinality(E) <= MaxListedFiles =>
           Len(seen) = cursor /\ \A k \in 1..cursor : seen[k] = Listing(E)[k]
  BY DEF Paged, E
<1>5. cursor <= Len(all)
  BY <1>3, <1>4
<1>6. Cardinality(E) <= MaxListedFiles => all = Listing(E)
  BY <1>2
<1> HIDE DEF all, S
<1>7. /\ end \in Nat /\ next \in Nat
      /\ next = 0 => end = Len(all)
      /\ next # 0 => end = next
  BY <1>3, <1>4, <1>5, PageEndIs
<1>8. /\ new \in Seq(S)
      /\ (Len(seen) = cursor /\ \A k \in 1..cursor : seen[k] = all[k]) =>
           Len(new) = end /\ \A k \in 1..end : new[k] = all[k]
  BY <1>3, <1>4, <1>5, PageIs
<1> HIDE DEF end, new, next
<1>9. Cardinality(E) <= MaxListedFiles =>
        Len(new) = end /\ \A k \in 1..end : new[k] = all[k]
  BY <1>4, <1>6, <1>8
<1>10. next # 0 => Paged(E, next, new)
  BY <1>6, <1>7, <1>8, <1>9 DEF Paged, S
<1>11. (next = 0 /\ Cardinality(E) <= MaxListedFiles) => new = Listing(E)
  <2>1. ASSUME Len(new) = Len(all), \A k \in 1..Len(all) : new[k] = all[k] PROVE new = all
    BY <1>3, <1>8, <2>1
  <2> QED BY <1>6, <1>7, <1>9, <2>1
<1> QED BY <1>8, <1>10, <1>11 DEF Continues, E, S, all, new, next

(* What a listing call has shown, while nothing changes. *)
Scan == Entries(tree, config.dirs, config.follow)

Pages(c) ==
  (Live(c) /\ call[c].req.tool = "resources/list") =>
    /\ {"cursor", "seen"} \subseteq DOMAIN call[c] /\ call[c].pc = "scan"
    /\ alone[c] => Paged(Scan, call[c].cursor, call[c].seen)

LInv == config \in Configs /\ \A c \in Calls : Pages(c)

LEMMA OthersPage ==
  ASSUME NEW d, Pages(d), call'[d] = call[d], config' = config,
         (Live(d) /\ alone'[d]) => alone[d] /\ tree' = tree
  PROVE  Pages(d)'
<1>1. (Live(d) /\ alone'[d]) => Scan' = Scan
  BY DEF Scan
<1>2. Live(d)' <=> Live(d)
  BY DEF Live
<1> QED BY <1>1, <1>2 DEF Pages

LEMMA StartPages ==
  ASSUME NEW c \in Calls, NEW r \in Requests[c], DOMAIN call = Calls, Start(c, r)
  PROVE  Pages(c)'
<1> DEFINE pc == IF r.tool = "resources/list" THEN "scan" ELSE "open"
           e == [req |-> r, pc |-> pc, got |-> <<>>, cursor |-> 0, seen |-> <<>>]
<1>1. call'[c] = e
  BY DEF Start
<1>2. /\ e.req = r /\ {"cursor", "seen"} \subseteq DOMAIN e /\ e.cursor = 0 /\ e.seen = <<>>
      /\ r.tool = "resources/list" => e.pc = "scan"
  OBVIOUS
<1> HIDE DEF e
<1>3. ASSUME NEW E PROVE Paged(E, 0, <<>>)
  BY DEF Paged
<1>4. Paged(Scan', call'[c].cursor, call'[c].seen)
  BY <1>1, <1>2, <1>3
<1> QED BY <1>1, <1>2, <1>4 DEF Pages

(* The request of a call stays what it is. *)
LEMMA SameRequest ==
  ASSUME IInv, NEW c, Running(c), Step(c) \/ Open(c)
  PROVE  call'[c].pc = "done" \/ call'[c].req = call[c].req
<1>1. c \in Calls /\ DOMAIN call = Calls /\ {"req", "pc", "got"} \subseteq DOMAIN call[c]
  BY RunningHas
<1>2. ASSUME Fails(c) \/ Succeeds(c) PROVE call'[c].pc = "done"
  BY <1>1, <1>2, FailsIs DEF Ends
<1>3. ASSUME NEW fields, "req" \notin DOMAIN fields, Steps(c, fields)
      PROVE  call'[c].req = call[c].req
  <2>1. call'[c]["req"] = call[c]["req"]
    BY <1>1, <1>3, StepsIs
  <2> QED BY <2>1
<1>4. ASSUME NEW pc, Steps(c, [pc |-> pc]) PROVE call'[c].req = call[c].req
  <2>1. "req" \notin DOMAIN [pc |-> pc]
    OBVIOUS
  <2> QED BY <1>3, <1>4, <2>1
<1>5. CASE Open(c) \/ CheckLinks(c) \/ DeleteFileFound(c) \/ StatByHandle(c)
  <2>1. Fails(c) \/ \E pc : Steps(c, [pc |-> pc])
    BY <1>5, Zenon DEF Open, CheckLinks, DeleteFileFound, StatByHandle
  <2> QED BY <1>2, <1>4, <2>1
<1>6. CASE Canonicalize(c)
  <2> DEFINE path == CanonicalOrParent(tree, NextPath(c))
             got == Append(call[c].got, [canonical |-> path, root |-> RootFor(path)])
             pc == IF Len(got) < Len(call[c].req.paths) THEN "check" ELSE "run"
             fields == [got |-> got, pc |-> pc]
  <2>1. Fails(c) \/ Steps(c, fields)
    BY <1>6 DEF Canonicalize
  <2>2. "req" \notin DOMAIN fields
    OBVIOUS
  <2> HIDE DEF fields
  <2> QED BY <1>2, <1>3, <2>1, <2>2
<1>7. CASE ResolveAgain(c)
  <2> DEFINE fields == [pc |-> "apply", src |-> PathAgain(c, 1), dst |-> PathAgain(c, 2)]
  <2>1. Fails(c) \/ Steps(c, fields)
    BY <1>7 DEF ResolveAgain
  <2>2. "req" \notin DOMAIN fields
    OBVIOUS
  <2> HIDE DEF fields
  <2> QED BY <1>2, <1>3, <2>1, <2>2
<1>8. CASE ListResources(c)
  <2>1. \/ Fails(c)
        \/ \E seen : Answers(c, [ok |-> TRUE, seen |-> seen])
        \/ \E next, seen : Steps(c, [cursor |-> next, seen |-> seen])
    BY <1>8, Zenon DEF ListResources
  <2>2. ASSUME NEW seen, Answers(c, [ok |-> TRUE, seen |-> seen]) PROVE call'[c].pc = "done"
    <3> DEFINE answer == [ok |-> TRUE, seen |-> seen]
    <3>1. "pc" \notin DOMAIN answer /\ Answers(c, answer)
      BY <2>2
    <3> HIDE DEF answer
    <3> QED BY <1>1, <3>1, AnswersIs DEF Ends
  <2>3. ASSUME NEW next, NEW seen, Steps(c, [cursor |-> next, seen |-> seen])
        PROVE  call'[c].req = call[c].req
    <3> DEFINE fields == [cursor |-> next, seen |-> seen]
    <3>1. "req" \notin DOMAIN fields /\ Steps(c, fields)
      BY <2>3
    <3> HIDE DEF fields
    <3> QED BY <1>3, <3>1
  <2> QED BY <1>2, <2>1, <2>2, <2>3
<1>9. CASE \/ Rename(c) \/ Copy(c) \/ CreateSymlink(c) \/ FindByHandle(c) \/ ListByHandle(c)
           \/ WriteByHandle(c) \/ CreateDirectory(c) \/ DeleteFile(c) \/ DeleteDirectory(c)
           \/ ReadByPath(c) \/ ReadAfterStat(c) \/ ReadResource(c) \/ WalkByPath(c)
  BY <1>9, Finished
<1> QED BY <1>5, <1>6, <1>7, <1>8, <1>9, Zenon DEF Step

(* A call that pages only lists. *)
LEMMA ScansOnly ==
  ASSUME NEW c, call[c].pc = "scan", Step(c) \/ Open(c)
  PROVE  ListResources(c)
BY DEF Step, Open, CheckLinks, Canonicalize, ResolveAgain, Rename, Copy, CreateSymlink,
       FindByHandle, ListByHandle, WriteByHandle, CreateDirectory, DeleteFileFound,
       DeleteFile, DeleteDirectory, ReadByPath, StatByHandle, ReadAfterStat, ReadResource,
       WalkByPath, At

(* The two ways a listing goes: to the next page, or to the end.           *)
LEMMA ListsOn ==
  ASSUME IInv, LInv, NEW c, Running(c), alone[c], call[c].req.tool = "resources/list",
         ListResources(c)
  PROVE  \/ Fails(c)
         \/ /\ NoPath \notin Range(RootsNow(tree, config.dirs))
            /\ \E new \in Seq({Ui} \cup PathsOfEntries(Scan)) :
                 \/ \E next : Steps(c, [cursor |-> next, seen |-> new]) /\ Paged(Scan, next, new)
                 \/ /\ Answers(c, [ok |-> TRUE, seen |-> new])
                    /\ Cardinality(Scan) <= MaxListedFiles => new = Listing(Scan)
<1>1. c \in Calls /\ WellFormed(tree) /\ Live(c)
  BY RunningHas DEF Running
<1>2. Paged(Scan, call[c].cursor, call[c].seen)
  BY <1>1 DEF LInv, Pages
<1>3. config.dirs \in Seq(Named)
  BY ConfigsAssumption DEF LInv
<1>4. CASE NoPath \in Range(RootsNow(tree, config.dirs))
  BY <1>4 DEF ListResources
<1>5. CASE NoPath \notin Range(RootsNow(tree, config.dirs))
  <2> DEFINE cursor == call[c].cursor
             seen == call[c].seen
             dirs == config.dirs
             follow == config.follow
  <2>1. PICK kept \in ScanResources(tree, dirs, follow) :
          LET all == Listing(kept)
              new == NextSeen(all, cursor, seen)
              next == NextCursor(all, cursor)
          IN IF cursor > Len(all) THEN Fails(c)
             ELSE IF next = 0 THEN Answers(c, [ok |-> TRUE, seen |-> new])
             ELSE Steps(c, [cursor |-> next, seen |-> new])
    BY <1>5, Zenon DEF ListResources, NextSeen, PageEnd
  <2> DEFINE all == Listing(kept)
             new == NextSeen(all, cursor, seen)
             next == NextCursor(all, cursor)
             E == Entries(tree, dirs, follow)
  <2>2. CASE cursor > Len(all)
    BY <2>1, <2>2
  <2>3. CASE ~(cursor > Len(all))
    <3>1. /\ new \in Seq({Ui} \cup PathsOfEntries(E))
          /\ next # 0 => Paged(E, next, new)
          /\ (next = 0 /\ Cardinality(E) <= MaxListedFiles) => new = Listing(E)
      <4>1. /\ dirs \in Seq(Named) /\ NoPath \notin Range(RootsNow(tree, dirs))
            /\ Paged(Entries(tree, dirs, follow), cursor, seen)
            /\ ~(cursor > Len(Listing(kept)))
        BY <1>2, <1>3, <1>5, <2>3 DEF Scan
      <4>2. kept \in ScanResources(tree, dirs, follow)
        OBVIOUS
      <4> HIDE DEF cursor, seen, dirs, follow, new, next, E, all
      <4>3. Continues(E, all, cursor, seen)
        BY <1>1, <4>1, <4>2, PagedOn DEF E, all
      <4> QED BY <4>3 DEF Continues, new, next
    <3>2. IF next = 0 THEN Answers(c, [ok |-> TRUE, seen |-> new])
                      ELSE Steps(c, [cursor |-> next, seen |-> new])
      BY <2>1, <2>3
    <3>3. E = Scan
      BY DEF Scan
    <3> HIDE DEF new, next, E
    <3> QED BY <1>5, <3>1, <3>2, <3>3
  <2> QED BY <2>2, <2>3
<1> QED BY <1>4, <1>5

LEMMA ListPages ==
  ASSUME IInv, LInv, NEW c, Running(c), call[c].req.tool = "resources/list", ListResources(c)
  PROVE  call'[c].pc = "done" \/ Pages(c)'
<1>1. /\ c \in Calls /\ DOMAIN call = Calls /\ {"req", "pc", "got"} \subseteq DOMAIN call[c]
      /\ Live(c) /\ config' = config /\ (alone'[c] => alone[c])
  BY RunningHas DEF Running
<1>2. Scan' = Scan
  BY <1>1 DEF ListResources, Same, Scan
<1>3. ASSUME Fails(c) PROVE call'[c].pc = "done"
  BY <1>1, <1>3, FailsIs DEF Ends
<1>4. ASSUME NEW seen, Answers(c, [ok |-> TRUE, seen |-> seen]) PROVE call'[c].pc = "done"
  <2> DEFINE answer == [ok |-> TRUE, seen |-> seen]
  <2>1. "pc" \notin DOMAIN answer /\ Answers(c, answer)
    BY <1>4
  <2> HIDE DEF answer
  <2> QED BY <1>1, <2>1, AnswersIs DEF Ends
<1>5. ASSUME NEW next, NEW seen, Steps(c, [cursor |-> next, seen |-> seen]),
             alone[c] => Paged(Scan, next, seen)
      PROVE  Pages(c)'
  <2> DEFINE fields == [cursor |-> next, seen |-> seen]
  <2>1. /\ DOMAIN fields = {"cursor", "seen"} /\ fields["cursor"] = next /\ fields["seen"] = seen
        /\ Steps(c, fields)
    BY <1>5
  <2> HIDE DEF fields
  <2>2. /\ call'[c]["cursor"] = next /\ call'[c]["seen"] = seen
        /\ call'[c]["pc"] = call[c]["pc"] /\ call'[c]["req"] = call[c]["req"]
        /\ DOMAIN call'[c] = DOMAIN call[c] \cup DOMAIN fields
    BY <1>1, <2>1, StepsIs
  <2>3. /\ call'[c].cursor = next /\ call'[c].seen = seen /\ call'[c].pc = "scan"
        /\ {"cursor", "seen"} \subseteq DOMAIN call'[c]
    BY <2>1, <2>2 DEF ListResources, At
  <2>4. alone'[c] => Paged(Scan', call'[c].cursor, call'[c].seen)
    BY <1>1, <1>2, <1>5, <2>3
  <2> QED BY <2>3, <2>4 DEF Pages
<1>6. CASE alone[c]
  <2>1. \/ Fails(c)
        \/ \E seen : Answers(c, [ok |-> TRUE, seen |-> seen])
        \/ \E next, seen : Steps(c, [cursor |-> next, seen |-> seen]) /\ Paged(Scan, next, seen)
    BY <1>6, ListsOn, Zenon
  <2> QED BY <1>3, <1>4, <1>5, <2>1
<1>7. CASE ~alone[c]
  <2>1. \/ Fails(c)
        \/ \E seen : Answers(c, [ok |-> TRUE, seen |-> seen])
        \/ \E next, seen : Steps(c, [cursor |-> next, seen |-> seen])
    BY Zenon DEF ListResources
  <2> QED BY <1>3, <1>4, <1>5, <1>7, <2>1
<1> QED BY <1>6, <1>7

LEMMA PagesStart == Init => LInv
<1> SUFFICES ASSUME Init, NEW c \in Calls PROVE config \in Configs /\ Pages(c)
  BY DEF LInv, Init
<1>1. call[c].pc = "idle" /\ config \in Configs
  BY DEF Init, Idle
<1> QED BY <1>1 DEF Pages, Live

LEMMA CallPages ==
  ASSUME Opaque, IInv, LInv, roots # Aborted, config' = config, trie' = trie,
         NEW c \in Calls,
         \/ Opens(c)
         \/ ((\E r \in Requests[c] : Start(c, r)) \/ Step(c)) /\ Disturbs({c})
  PROVE  LInv'
<1>1. ASSUME NEW d \in Calls, d # c, Live(d), alone'[d] PROVE alone[d] /\ tree' = tree
  <2>1. CASE Opens(c)
    BY <1>1, <2>1 DEF Opens, Open
  <2>2. CASE Disturbs({c})
    BY <1>1, <2>2, AloneIs
  <2> QED BY <2>1, <2>2
<1>2. ASSUME Running(c), Kept(c), Step(c) \/ Open(c) PROVE call'[c].pc = "done" \/ Pages(c)'
  <2>1. CASE call[c].req.tool = "resources/list"
    <3>1. call[c].pc = "scan"
      BY <1>2, <2>1 DEF LInv, Pages, Running
    <3>2. ListResources(c)
      BY <1>2, <3>1, ScansOnly
    <3> QED BY <1>2, <2>1, <3>2, ListPages
  <2>2. CASE call[c].req.tool # "resources/list"
    <3>1. call'[c].pc = "done" \/ call'[c].req = call[c].req
      BY <1>2, SameRequest
    <3> QED BY <2>2, <3>1 DEF Pages
  <2> QED BY <2>1, <2>2
<1>3. Moves(c) /\ (call'[c].pc = "done" \/ Pages(c)')
  <2>1. CASE Opens(c)
    <3>1. Open(c) /\ alone' = alone
      BY <2>1 DEF Opens
    <3>2. Running(c)
      BY <3>1, StepIsLive DEF Running
    <3>3. Kept(c)
      BY <3>1, <3>2, OpenKeeps
    <3> QED BY <1>2, <3>1, <3>2, <3>3 DEF Kept
  <2>2. CASE \E r \in Requests[c] : Start(c, r)
    <3>1. DOMAIN call = Calls
      BY DEF IInv
    <3> QED BY <2>2, <3>1, StartKnows, StartPages
  <2>3. CASE Step(c) /\ Disturbs({c})
    <3>1. Running(c)
      BY <2>3, StepIsLive, AloneIs DEF Running
    <3>2. Kept(c)
      BY <2>3, <3>1, StepKeeps
    <3> QED BY <1>2, <2>3, <3>1, <3>2 DEF Kept
  <2> QED BY <2>1, <2>2, <2>3
<1>4. ASSUME NEW d \in Calls, d # c PROVE Pages(d)'
  <2>1. call'[d] = call[d] /\ Pages(d)
    BY <1>3, <1>4 DEF Moves, LInv
  <2> QED BY <1>1, <1>4, <2>1, OthersPage
<1>5. Pages(c)'
  BY <1>3 DEF Pages, Live
<1>6. config' \in Configs
  BY DEF LInv
<1> QED BY <1>4, <1>5, <1>6 DEF LInv

LEMMA PagesStay == Opaque /\ IInv /\ LInv /\ [Next]_vars => LInv'
<1> SUFFICES ASSUME Opaque, IInv, LInv, [Next]_vars PROVE LInv'
  OBVIOUS
<1>1. CASE UNCHANGED vars
  <2>1. /\ call' = call /\ config' = config /\ alone' = alone /\ tree' = tree
    BY <1>1 DEF vars
  <2>2. ASSUME NEW c \in Calls PROVE Pages(c)'
    BY <2>1, OthersPage DEF LInv
  <2> QED BY <2>1, <2>2 DEF LInv
<1>2. ASSUME roots # Aborted, UNCHANGED <<config, trie>>, NEW c \in Calls,
             \/ Opens(c)
             \/ ((\E r \in Requests[c] : Start(c, r)) \/ Step(c)) /\ Disturbs({c})
      PROVE  LInv'
  BY <1>2, CallPages
<1>3. CASE Change /\ Disturbs({}) /\ UNCHANGED <<config, trie>>
  <2>1. ASSUME NEW c \in Calls PROVE Pages(c)'
    <3>1. call'[c] = call[c] /\ config' = config
      BY <1>3 DEF Change
    <3>2. (Live(c) /\ alone'[c]) => alone[c] /\ tree' = tree
      BY <1>3, AloneIs
    <3> QED BY <3>1, <3>2, OthersPage DEF LInv
  <2> QED BY <1>3, <2>1 DEF LInv
<1> QED BY <1>1, <1>2, <1>3, Zenon DEF Next, Rest

(* The step with the last page. *)
LEMMA LastPage ==
  ASSUME Opaque, IInv, LInv, [Next]_vars, NEW c \in Calls, ListsAll(c)
  PROVE  /\ config.dirs \in Seq(Named) /\ config.follow \in BOOLEAN
         /\ WellFormed(tree) /\ NoPath \notin Range(RootsNow(tree, config.dirs))
         /\ call'[c].seen \in Seq({Ui} \cup PathsOfEntries(Scan))
         /\ Cardinality(Scan) <= MaxListedFiles => call'[c].seen = Listing(Scan)
<1>1. /\ Answered(c) /\ alone[c] /\ call[c].req.tool = "resources/list"
      /\ call'[c].ok /\ Live(c) /\ call'[c].pc = "done"
  BY DEF ListsAll, Undisturbed, Answered
<1>2. Running(c) /\ Step(c)
  BY <1>1, EndsItself
<1>3. /\ call[c].pc = "scan" /\ config.dirs \in Seq(Named) /\ config.follow \in BOOLEAN
      /\ DOMAIN call = Calls /\ {"req", "pc", "got"} \subseteq DOMAIN call[c] /\ WellFormed(tree)
  BY <1>1, <1>2, RunningHas, ConfigsAssumption DEF LInv, Pages
<1>4. ListResources(c)
  BY <1>2, <1>3, ScansOnly
<1>5. ~Fails(c)
  <2> SUFFICES ASSUME Fails(c) PROVE ~call'[c].ok
    BY <1>1
  <2> DEFINE answer == [ok |-> FALSE]
             rest == [req |-> call[c].req, pc |-> "done", got |-> call[c].got]
  <2>1. call'[c] = With(rest, answer)
    BY <1>3 DEF Fails, Answers
  <2>2. "ok" \in DOMAIN answer /\ answer["ok"] = FALSE
    OBVIOUS
  <2> HIDE DEF answer, rest
  <2>3. With(rest, answer)["ok"] = FALSE
    BY <2>2 DEF With
  <2> QED BY <2>1, <2>3
<1>6. ASSUME NEW next, NEW new, Steps(c, [cursor |-> next, seen |-> new]) PROVE FALSE
  <2> DEFINE fields == [cursor |-> next, seen |-> new]
  <2>1. DOMAIN fields = {"cursor", "seen"} /\ Steps(c, fields)
    BY <1>6
  <2> HIDE DEF fields
  <2>2. call'[c]["pc"] = call[c]["pc"]
    BY <1>3, <2>1, StepsIs
  <2> QED BY <1>1, <1>3, <2>2
<1>7. ASSUME NEW new, Answers(c, [ok |-> TRUE, seen |-> new]) PROVE call'[c].seen = new
  <2> DEFINE answer == [ok |-> TRUE, seen |-> new]
             rest == [req |-> call[c].req, pc |-> "done", got |-> call[c].got]
  <2>1. call'[c] = With(rest, answer)
    BY <1>3, <1>7 DEF Answers
  <2>2. "seen" \in DOMAIN answer /\ answer["seen"] = new
    OBVIOUS
  <2> HIDE DEF answer, rest
  <2>3. With(rest, answer)["seen"] = new
    BY <2>2 DEF With
  <2> QED BY <2>1, <2>3
<1>8. /\ NoPath \notin Range(RootsNow(tree, config.dirs))
      /\ \E new \in Seq({Ui} \cup PathsOfEntries(Scan)) :
           \/ \E next : Steps(c, [cursor |-> next, seen |-> new]) /\ Paged(Scan, next, new)
           \/ /\ Answers(c, [ok |-> TRUE, seen |-> new])
              /\ Cardinality(Scan) <= MaxListedFiles => new = Listing(Scan)
  BY <1>1, <1>2, <1>4, <1>5, ListsOn
<1>9. \E new \in Seq({Ui} \cup PathsOfEntries(Scan)) :
        /\ Answers(c, [ok |-> TRUE, seen |-> new])
        /\ Cardinality(Scan) <= MaxListedFiles => new = Listing(Scan)
  BY <1>6, <1>8
<1> QED BY <1>3, <1>7, <1>8, <1>9

(* If anything is listed, the tree has its root.                           *)
LEMMA ListsShallow ==
  ASSUME IInv, NEW c, ListsAll(c), NoPath \notin Range(RootsNow(tree, config.dirs)),
         config.dirs \in Seq(Named), Range(RootsNow(tree, config.dirs)) # {}
  PROVE  Shallow(tree)
<1> DEFINE now == RootsNow(tree, config.dirs)
<1>1. /\ WellFormed(tree) /\ RootsOK /\ RootsInPlace
      /\ \A p \in DOMAIN tree : Len(p) <= MaxHops /\ Len(p) <= WalkDepth
  BY DEF IInv, ListsAll, Undisturbed
<1>2. PICK root \in Range(now) : root \in Seq(Names) /\ root # NoPath
  <2> DEFINE n == Len(config.dirs)
  <2>1. /\ \A i \in 1..n : now[i] \in Seq(Names)
        /\ Range(now) = {now[i] : i \in 1..n}
    BY <1>1, RootsAre
  <2> HIDE DEF now, n
  <2>2. \A root \in Range(now) : root \in Seq(Names)
    BY <2>1
  <2>3. NoPath \notin Seq(Names)
    BY NamesAssumption
  <2>4. Range(now) # {}
    BY DEF now
  <2> QED BY <2>2, <2>3, <2>4
<1>3. root \in trie.ends
  BY <1>1, <1>2 DEF RootsInPlace
<1>4. Is(tree, root, "dir")
  <2>1. CASE roots = Unopened
    BY <1>1, <1>3, <2>1 DEF RootsInPlace
  <2>2. CASE roots # Unopened
    <3>1. roots # Aborted /\ roots = [r \in trie.ends |-> r]
      BY <1>1, <2>2 DEF RootsInPlace
    <3>2. root \in DOMAIN roots /\ roots[root] = root
      BY <1>3, <3>1
    <3>3. roots[root] = NoPath \/ Is(tree, roots[root], "dir")
      BY <1>1, <2>2, <3>1, <3>2 DEF RootsOK
    <3> QED BY <1>2, <3>2, <3>3
  <2> QED BY <2>1, <2>2
<1>5. Is(tree, <<>>, "dir")
  <2>1. CASE root = <<>>
    BY <1>4, <2>1
  <2>2. CASE root # <<>>
    <3> DEFINE k == 0
    <3>1. root \in DOMAIN tree /\ k \in 0..Len(root) /\ k < Len(root)
      BY <1>2, <1>4, <2>2, LenIs DEF Is
    <3> HIDE DEF k
    <3>2. UpTo(root, k) \in Seq(Names) /\ Len(UpTo(root, k)) = k /\ Is(tree, UpTo(root, k), "dir")
      BY <1>1, <3>1, Directories
    <3>3. UpTo(root, k) = <<>>
      BY <3>2, LenIs DEF k
    <3> QED BY <3>2, <3>3
  <2> QED BY <2>1, <2>2
<1> QED BY <1>1, <1>5 DEF Shallow

(* Every path that resources/list names, over all of its pages, is that of *)
(* a file in an allowed directory that resources/read finds there:         *)
(* scan_resources and the sandbox agree on what may be reached.            *)
THEOREM ListedCanBeRead ==
  ASSUME Opaque
  PROVE  Spec => ListedIsReadable
<1> DEFINE A == \A c \in Calls : ListsAll(c) =>
                  \A path \in Range(call'[c].seen) \ {Ui} : LeadsToFile(path)
<1>1. IInv /\ LInv /\ [Next]_vars => IInv' /\ LInv'
  BY InvariantStays, PagesStay
<1>2. IInv /\ LInv /\ [Next]_vars => [A]_vars
  <2> SUFFICES ASSUME IInv, LInv, [Next]_vars, NEW c \in Calls, ListsAll(c),
                      NEW path \in Range(call'[c].seen) \ {Ui}
               PROVE  LeadsToFile(path)
    OBVIOUS
  <2> DEFINE dirs == config.dirs
             follow == config.follow
             now == RootsNow(tree, dirs)
  <2>1. /\ dirs \in Seq(Named) /\ follow \in BOOLEAN
        /\ WellFormed(tree) /\ NoPath \notin Range(now)
        /\ call'[c].seen \in Seq({Ui} \cup PathsOfEntries(Scan))
    BY LastPage
  <2>2. path \in PathsOfEntries(Scan)
    <3> DEFINE S == {Ui} \cup PathsOfEntries(Scan)
               seen == call'[c].seen
    <3>1. seen \in Seq(S) /\ path \in Range(seen) /\ path # Ui
      BY <2>1
    <3> HIDE DEF S, seen
    <3>2. path \in S
      BY <3>1 DEF Range
    <3> QED BY <3>1, <3>2 DEF S
  <2>3. Scan = Entries(tree, dirs, follow)
    BY DEF Scan
  <2>4. Range(now) # {}
    <3> SUFFICES ASSUME Range(now) = {} PROVE FALSE
      OBVIOUS
    <3>1. 1..Len(dirs) = {}
      BY <2>1, RootsAre
    <3>2. Scan = {}
      BY <2>3, <3>1, EntriesAre
    <3> QED BY <2>2, <3>2 DEF PathsOfEntries
  <2>5. Shallow(tree)
    BY <2>1, <2>4, ListsShallow
  <2> HIDE DEF dirs, follow
  <2>6. /\ path \in Seq(Names) /\ Is(tree, path, "file") /\ RealPath(tree, path) = path
        /\ \E root \in Range(now) : IsPrefix(root, path)
    BY <2>1, <2>2, <2>3, <2>5, ListedIs
  <2>7. Range(now) = trie.ends
    BY DEF ListsAll, Undisturbed, RootsInPlace, dirs
  <2> QED BY <2>6, <2>7 DEF LeadsToFile
<1>3. Init => IInv /\ LInv
  BY InvariantStarts, PagesStart
<1> HIDE DEF A
<1>4. Spec => [][A]_vars
  BY <1>1, <1>2, <1>3, PTL DEF Spec
<1> QED BY <1>4, Zenon DEF A, ListedIsReadable

(* A complete listing, behind the browser's own entry. *)
LEMMA ListingShows ==
  ASSUME NEW E, IsScan(E), NEW seen, seen = Listing(E)
  PROVE  /\ seen[1] = Ui
         /\ Range(Tail(seen)) = PathsOfEntries(E)
         /\ \A i \in 2..Len(seen) - 1 : ~Before(seen[i + 1], seen[i])
         /\ \A path \in PathsOfEntries(E) :
              Cardinality({i \in 2..Len(seen) : seen[i] = path}) = CountAt(E, path)
<1> DEFINE s == Sorted(E)
           n == Cardinality(E)
           P == PathsOfEntries(E)
<1>1. /\ n \in Nat /\ s \in Seq(P) /\ Len(s) = n
      /\ \A i \in 1..n : \A j \in 1..n : i < j => ~Before(s[j], s[i])
      /\ \A p \in P : /\ \E i \in 1..n : s[i] = p
                      /\ Cardinality({i \in 1..n : s[i] = p}) = CountAt(E, p)
  BY SortedIs
<1>2. seen = <<Ui>> \o s
  BY DEF Listing
<1> HIDE DEF s, n, P
<1>3. /\ Len(seen) = n + 1 /\ seen[1] = Ui /\ \A i \in 2..n + 1 : seen[i] = s[i - 1]
      /\ \A i \in 1..n : seen[i + 1] = s[i]
  <2> DEFINE Q == {Ui} \cup P
  <2>1. s \in Seq(Q) /\ <<Ui>> \in Seq(Q) /\ Len(<<Ui>>) = 1 /\ <<Ui>>[1] = Ui
    BY <1>1
  <2> HIDE DEF Q
  <2> QED BY <1>1, <1>2, <2>1
<1>4. Range(Tail(seen)) = P
  <2>1. Tail(seen) = s
    <3>1. <<Ui>> \o s \in Seq({Ui} \cup P) /\ s \in Seq({Ui} \cup P)
      BY <1>1
    <3>2. /\ Tail(seen) \in Seq({Ui} \cup P) /\ Len(Tail(seen)) = n
          /\ \A i \in 1..n : Tail(seen)[i] = seen[i + 1]
      BY <1>1, <1>2, <1>3, <3>1
    <3> QED BY <1>1, <1>3, <3>1, <3>2
  <2>2. DOMAIN s = 1..n
    BY <1>1
  <2>3. /\ \A i \in 1..n : s[i] \in P
        /\ \A p \in P : \E i \in 1..n : s[i] = p
    <3>1. \A i \in 1..n : s[i] \in P
      BY <1>1
    <3>2. \A p \in P : \E i \in 1..n : s[i] = p
      BY <1>1, Zenon
    <3> QED BY <3>1, <3>2
  <2>4. Range(s) = {s[i] : i \in 1..n}
    BY <2>2 DEF Range
  <2>5. {s[i] : i \in 1..n} = P
    BY <2>3, Zenon
  <2> QED BY <2>1, <2>4, <2>5
<1>5. ASSUME NEW i \in 2..Len(seen) - 1 PROVE ~Before(seen[i + 1], seen[i])
  <2>1. i - 1 \in 1..n /\ i \in 1..n /\ i - 1 < i
    BY <1>1, <1>3
  <2>2. seen[i + 1] = s[i] /\ seen[i] = s[i - 1]
    BY <1>3, <2>1
  <2> QED BY <1>1, <2>1, <2>2
<1>6. ASSUME NEW p \in P
      PROVE  Cardinality({i \in 2..Len(seen) : seen[i] = p}) = CountAt(E, p)
  <2> DEFINE I == {i \in 1..n : s[i] = p}
             J == {i \in 2..Len(seen) : seen[i] = p}
             f == [i \in I |-> i + 1]
  <2>1. /\ I \in SUBSET (1..n) /\ \A i \in I : i + 1 \in J
        /\ \A j \in J : j - 1 \in I /\ (j - 1) + 1 = j
    BY <1>1, <1>3
  <2>2. IsFiniteSet(I)
    <3> DEFINE one == 1
    <3>1. I \in SUBSET (one..n) /\ one \in Int /\ n \in Int
      BY <1>1, <2>1
    <3> HIDE DEF I, one
    <3>2. IsFiniteSet(one..n)
      BY <3>1, FS_Interval
    <3> QED BY <3>1, <3>2, FS_Subset
  <2>3. Cardinality(I) = CountAt(E, p)
    BY <1>1
  <2> HIDE DEF I, J
  <2>4. f \in Bijection(I, J)
    <3>1. f \in [I -> J]
      BY <2>1
    <3>2. \A i \in I : \A j \in I : f[i] = f[j] => i = j
      BY <2>1
    <3>3. \A j \in J : \E i \in I : f[i] = j
      BY <2>1
    <3> HIDE DEF f
    <3> QED BY <3>1, <3>2, <3>3 DEF Bijection, Injection, Surjection, IsInjective
  <2>5. ExistsBijection(I, J)
    <3> HIDE DEF f
    <3> QED BY <2>4 DEF ExistsBijection
  <2>6. Cardinality(J) = Cardinality(I)
    BY <2>2, <2>5, FS_Bijection
  <2> QED BY <2>3, <2>6 DEF J
<1> QED BY <1>3, <1>4, <1>5, <1>6 DEF P

(* The pages together begin with the browser and name every file under an  *)
(* allowed directory that is not hidden, sorted, and once for each         *)
(* directory it is in if links are not followed: the cursor of list        *)
(* (resources/mod.rs) neither skips a file nor repeats one, whatever       *)
(* PAGE_SIZE is, although each page is cut from a new scan.                *)
THEOREM PagesAreComplete ==
  ASSUME Opaque
  PROVE  Spec => PagesCoverAll
<1> DEFINE A == \A c \in Calls :
                  (ListsAll(c) /\ Cardinality(Entries(tree, config.dirs, config.follow)) <= MaxListedFiles) =>
                    LET seen == call'[c].seen
                    IN /\ seen[1] = Ui
                       /\ Visible \subseteq Range(Tail(seen))
                       /\ \A i \in 2..Len(seen) - 1 : ~Before(seen[i + 1], seen[i])
                       /\ ~config.follow => \A path \in Range(Tail(seen)) :
                            Cardinality({i \in 2..Len(seen) : seen[i] = path})
                              = Cardinality(VisibleIn(path))
<1>1. IInv /\ LInv /\ [Next]_vars => IInv' /\ LInv'
  BY InvariantStays, PagesStay
<1>2. IInv /\ LInv /\ [Next]_vars => [A]_vars
  <2> SUFFICES ASSUME IInv, LInv, [Next]_vars, NEW c \in Calls, ListsAll(c),
                      Cardinality(Entries(tree, config.dirs, config.follow)) <= MaxListedFiles
               PROVE  LET seen == call'[c].seen
                      IN /\ seen[1] = Ui
                         /\ Visible \subseteq Range(Tail(seen))
                         /\ \A i \in 2..Len(seen) - 1 : ~Before(seen[i + 1], seen[i])
                         /\ ~config.follow => \A path \in Range(Tail(seen)) :
                              Cardinality({i \in 2..Len(seen) : seen[i] = path})
                                = Cardinality(VisibleIn(path))
    OBVIOUS
  <2> DEFINE dirs == config.dirs
             follow == config.follow
             now == RootsNow(tree, dirs)
             n == Len(dirs)
             E == Entries(tree, dirs, follow)
             seen == call'[c].seen
  <2>1. /\ dirs \in Seq(Named) /\ follow \in BOOLEAN
        /\ WellFormed(tree) /\ NoPath \notin Range(now) /\ seen = Listing(E)
    BY LastPage DEF Scan
  <2>2. IsScan(E)
    BY <2>1, EntriesScan
  <2>3. /\ seen[1] = Ui /\ Range(Tail(seen)) = PathsOfEntries(E)
        /\ \A i \in 2..Len(seen) - 1 : ~Before(seen[i + 1], seen[i])
        /\ \A path \in PathsOfEntries(E) :
             Cardinality({i \in 2..Len(seen) : seen[i] = path}) = CountAt(E, path)
    <3> HIDE DEF E, seen
    <3> QED BY <2>1, <2>2, ListingShows
  <2>4. ASSUME NEW path PROVE VisibleIn(path) = ShownIn(tree, now, n, path)
    <3>1. \A i \in 1..n : now[i] = RealPath(tree, ToAbs(dirs[i]))
      BY <2>1, RootsAre
    <3> QED BY <3>1 DEF VisibleIn, ShownIn
  <2>5. ASSUME NEW i \in 1..n PROVE Shallow(tree)
    <3>1. Range(now) # {}
      BY <2>1, RootsAre
    <3> QED BY <2>1, <3>1, ListsShallow
  <2>6. ASSUME NEW path \in Visible PROVE path \in PathsOfEntries(E)
    <3>1. path \in DOMAIN tree /\ Is(tree, path, "file")
      BY DEF Visible, Is
    <3>2. PICK i \in VisibleIn(path) : TRUE
      BY DEF Visible
    <3>3. i \in ShownIn(tree, now, n, path) /\ i \in 1..n
      BY <2>4, <3>2 DEF ShownIn
    <3>4. Shallow(tree)
      BY <2>5, <3>3
    <3> HIDE DEF dirs, follow
    <3>5. <<i, path, path>> \in EntriesOf(tree, now, follow, i)
      BY <2>1, <3>1, <3>3, <3>4, VisibleIsListed
    <3>6. <<i, path, path>> \in E
      BY <3>3, <3>5, EntriesAre
    <3> HIDE DEF E
    <3> QED BY <3>6 DEF PathsOfEntries
  <2>7. ASSUME ~config.follow, NEW path \in PathsOfEntries(E)
        PROVE  CountAt(E, path) = Cardinality(VisibleIn(path))
    <3>1. E = Entries(tree, dirs, FALSE)
      BY <2>1, <2>7
    <3>2. E # {}
      BY DEF PathsOfEntries
    <3>3. 1..n # {}
      <4> SUFFICES ASSUME 1..n = {} PROVE FALSE
        OBVIOUS
      <4>1. E = {}
        BY EntriesAre
      <4> QED BY <3>2, <4>1
    <3>4. Shallow(tree)
      BY <2>5, <3>3
    <3> HIDE DEF dirs, E
    <3>5. CountAt(E, path) = Cardinality(ShownIn(tree, now, n, path))
      BY <2>1, <3>1, <3>4, EntriesCount
    <3> QED BY <2>4, <3>5
  <2>8. Visible \subseteq Range(Tail(seen))
    BY <2>3, <2>6
  <2>9. ~config.follow => \A path \in Range(Tail(seen)) :
          Cardinality({i \in 2..Len(seen) : seen[i] = path}) = Cardinality(VisibleIn(path))
    <3> HIDE DEF E, seen
    <3> QED BY <2>3, <2>7
  <2> QED BY <2>3, <2>8, <2>9
<1>3. Init => IInv /\ LInv
  BY InvariantStarts, PagesStart
<1> HIDE DEF A
<1>4. Spec => [][A]_vars
  BY <1>1, <1>2, <1>3, PTL DEF Spec
<1> QED BY <1>4, PTL DEF A, PagesCoverAll
=============================================================================
