---------------------------- MODULE SandboxProofs ----------------------------
(***************************************************************************)
(* The trie finds the nearest allowed directory above a path, for any      *)
(* allowed directories and any path.  Every entry of the tree stays in a   *)
(* directory, and a path that the sandbox accepts is under the root whose  *)
(* handle goes with it, for any tree, requests and changes.                *)
(*                                                                         *)
(* The lookups, normalize_path and create_dir_all are recursive functions  *)
(* over an interval: StepsTaken shows that such a function exists, and     *)
(* HandedOn what holds at its end.                                         *)
(***************************************************************************)
EXTENDS SandboxPaths, FiniteSetTheorems, WellFoundedInduction, TLAPS

-----------------------------------------------------------------------------
(***************************************************************************)
(* The trie as a data structure.                                           *)
(***************************************************************************)

(* Inserting one more path gives the trie of one more path. *)
LEMMA InsertGrows ==
  ASSUME NEW S, NEW path \in Seq(S), NEW paths
  PROVE  Insert(TrieOf(paths), path) = TrieOf(paths \cup {path})
BY DEF Insert, TrieOf

(* The beginning of the beginning of a path. *)
LEMMA UpToUpTo ==
  ASSUME NEW S, NEW path \in Seq(S), NEW k \in 0..Len(path), NEW j \in 0..k
  PROVE  /\ UpTo(path, k) \in Seq(S) /\ Len(UpTo(path, k)) = k
         /\ UpTo(UpTo(path, k), j) = UpTo(path, j)
<1>1. UpTo(path, k) \in Seq(S) /\ Len(UpTo(path, k)) = k
  BY DEF UpTo
<1>2. UpTo(UpTo(path, k), j) = UpTo(path, j)
  BY DEF UpTo
<1>q. QED
  BY <1>1, <1>2

(* The walk stops at no node above an end. *)
LEMMA MatchesAreRoots ==
  ASSUME NEW S, NEW path \in Seq(S), NEW roots0
  PROVE  Matches(TrieOf(roots0), path) = {k \in 0..Len(path) : UpTo(path, k) \in roots0}
<1>1. SUFFICES ASSUME NEW k \in 0..Len(path), UpTo(path, k) \in roots0
               PROVE  k \in Matches(TrieOf(roots0), path)
  BY DEF Matches, Reached, TrieOf
<1>2. ASSUME NEW j \in 0..k
      PROVE  UpTo(path, j) \in TrieOf(roots0).nodes
  <2>1. Len(UpTo(path, k)) = k /\ UpTo(UpTo(path, k), j) = UpTo(path, j)
    BY UpToUpTo
  <2>2. UpTo(path, j) \in Chain(UpTo(path, k))
    BY <2>1 DEF Chain
  <2>q. QED
    BY <1>1, <2>2 DEF TrieOf
<1>3. k \in Reached(TrieOf(roots0), path)
  BY <1>2 DEF Reached
<1>q. QED
  BY <1>1, <1>3 DEF Matches, TrieOf

(* A set of numbers that does not go beyond n has a greatest element. *)
LEMMA Greatest ==
  ASSUME NEW n \in Nat, NEW T \in SUBSET (0..n), T # {}
  PROVE  \E k \in T : \A j \in T : j <= k
<1> DEFINE R == {p \in Nat \X Nat : p[1] < p[2]}
           U == {m \in 0..n : n - m \in T}
<1>1. IsWellFoundedOn(R, Nat)
  BY NatLessThanWellFounded, Zenon DEF OpToRel
<1>2. U \subseteq Nat /\ U # {}
  <2>1. PICK k \in T : TRUE
    OBVIOUS
  <2>2. n - k \in 0..n /\ n - (n - k) = k
    BY <2>1
  <2>3. n - k \in U
    BY <2>1, <2>2
  <2>4. U \subseteq Nat
    OBVIOUS
  <2>q. QED
    BY <2>3, <2>4
<1>3. \E m \in U : \A y \in U : <<y, m>> \notin R
  BY <1>1, <1>2, WFMin, Zenon
<1>4. PICK m \in U : \A y \in U : <<y, m>> \notin R
  BY <1>3
<1>5. ASSUME NEW j \in T
      PROVE  j <= n - m
  <2>1. n - j \in U /\ n - j \in Nat /\ m \in Nat
    OBVIOUS
  <2>2. ~(n - j < m)
    BY <1>4, <2>1
  <2>q. QED
    BY <2>1, <2>2
<1>q. QED
  BY <1>4, <1>5

(* For any inserted paths and any path, the longest prefix is the longest  *)
(* inserted path that is a prefix.                                         *)
THEOREM TrieFinds ==
  ASSUME NEW S, NEW path \in Seq(S), NEW roots0
  PROVE  FindsRoot(TrieOf(roots0), roots0, path)
<1> DEFINE M == {k \in 0..Len(path) : UpTo(path, k) \in roots0}
<1>1. Matches(TrieOf(roots0), path) = M
  BY MatchesAreRoots
<1>2. Above(roots0, path) = {UpTo(path, k) : k \in M}
  BY DEF Above, Chain
<1>3. ContainsPath(TrieOf(roots0), path) <=> M # {}
  BY <1>1 DEF ContainsPath
<1>4. ASSUME M # {}
      PROVE  /\ LongestPrefix(TrieOf(roots0), path) \in Above(roots0, path)
             /\ \A root \in Above(roots0, path) :
                  Len(root) <= Len(LongestPrefix(TrieOf(roots0), path))
  <2> DEFINE top == CHOOSE k \in M : \A j \in M : j <= k
  <2>1. \E k \in M : \A j \in M : j <= k
    <3>1. Len(path) \in Nat /\ M \in SUBSET (0..Len(path))
      OBVIOUS
    <3>q. QED
      BY <1>4, <3>1, Greatest
  <2>2. top \in M /\ \A j \in M : j <= top
    BY <2>1
  <2>3. LongestPrefix(TrieOf(roots0), path) = UpTo(path, top)
    BY <1>1, <1>3, <1>4 DEF LongestPrefix
  <2>4. ASSUME NEW k \in M
        PROVE  Len(UpTo(path, k)) = k
    BY UpToUpTo
  <2>q. QED
    BY <1>2, <2>2, <2>3, <2>4
<1>q. QED
  BY <1>2, <1>3, <1>4 DEF FindsRoot

-----------------------------------------------------------------------------
(***************************************************************************)
(* The trie of the server.                                                 *)
(***************************************************************************)

(* The trie is that of its ends, and nothing changes it after the start.   *)
TrieIsBuilt == trie = TrieOf(trie.ends)

LEMMA BuiltStays == Spec => []TrieIsBuilt
<1>1. Init => TrieIsBuilt
  BY DEF Init, TrieIsBuilt, BuildAllowedTrie, TrieOf
<1>2. TrieIsBuilt /\ [Next]_vars => TrieIsBuilt'
  BY DEF TrieIsBuilt, Next, vars, Rest, TrieOf
<1>q. QED
  BY <1>1, <1>2, PTL DEF Spec

(* Whatever the server is asked, longest_prefix gives the nearest allowed  *)
(* directory above the path, and contains says whether there is one.       *)
THEOREM TrieAnswers == Spec => []TrieFindsRoots
<1>1. TrieIsBuilt => TrieFindsRoots
  <2>1. SUFFICES ASSUME TrieIsBuilt, NEW path \in LookedUp
                 PROVE  FindsRoot(trie, trie.ends, path)
    BY DEF TrieFindsRoots
  <2>2. path \in Seq(Names)
    BY LookedUpArePaths
  <2>q. QED
    BY <2>1, <2>2, TrieFinds DEF TrieIsBuilt
<1>q. QED
  BY <1>1, BuiltStays, PTL

-----------------------------------------------------------------------------
(***************************************************************************)
(* Sequences of names, and recursion over the numbers up to n.             *)
(***************************************************************************)

Parts == Names \cup {".", ".."}

LEMMA PathsHaveNames ==
  ASSUME NEW path \in Named
  PROVE  path.names \in Seq(Parts)
BY DEF Named, Parts

(* What holds of 0 and is handed on holds up to n. *)
LEMMA HandedOn ==
  ASSUME NEW n \in Nat, NEW T \in SUBSET (0..n), 0 \in T,
         \A i \in 0..n : (i \in T /\ i < n) => i + 1 \in T
  PROVE  T = 0..n
<1> DEFINE R == {p \in Nat \X Nat : p[1] < p[2]}
           U == (0..n) \ T
<1>1. SUFFICES ASSUME U # {} PROVE FALSE
  OBVIOUS
<1>2. IsWellFoundedOn(R, Nat)
  BY NatLessThanWellFounded, Zenon DEF OpToRel
<1>3. U \subseteq Nat
  OBVIOUS
<1>4. \E m \in U : \A y \in U : <<y, m>> \notin R
  <2> HIDE DEF R, U
  <2> QED BY <1>1, <1>2, <1>3, WFMin
<1>5. PICK m \in U : \A y \in U : <<y, m>> \notin R
  BY <1>4
<1>6. m \in 0..n /\ m \notin T /\ m # 0
  OBVIOUS
<1>7. m - 1 \in 0..n /\ m - 1 < n /\ (m - 1) + 1 = m
  BY <1>6
<1>8. m - 1 \notin U
  <2>1. <<m - 1, m>> \in R
    BY <1>6, <1>7
  <2> QED BY <1>5, <2>1
<1>9. m - 1 \in T
  BY <1>7, <1>8
<1> QED BY <1>6, <1>7, <1>9

Iterates(f, n, s0, step) == f[0] = s0 /\ \A i \in 1..n : f[i] = step[<<i, f[i - 1]>>]

(* A step from a set into itself can be taken n times. *)
LEMMA StepsTaken ==
  ASSUME NEW n \in Nat, NEW X, NEW s0 \in X, NEW step \in [(0..n) \X X -> X]
  PROVE  \E f \in [0..n -> X] : Iterates(f, n, s0, step)
<1> DEFINE Goes(f, m) == f[0] = s0 /\ \A i \in 1..m : f[i] = step[<<i, f[i - 1]>>]
           T == {m \in 0..n : \E f \in [0..m -> X] : Goes(f, m)}
<1>1. 0 \in T
  <2> DEFINE f == [i \in 0..0 |-> s0]
  <2>1. f \in [0..0 -> X] /\ Goes(f, 0) /\ 0 \in 0..n
    OBVIOUS
  <2> HIDE DEF f, Goes
  <2> QED BY <2>1
<1>2. ASSUME NEW m \in 0..n, m \in T, m < n PROVE m + 1 \in T
  <2>1. PICK f \in [0..m -> X] : Goes(f, m)
    BY <1>2
  <2> DEFINE g == [i \in 0..m + 1 |-> IF i = m + 1 THEN step[<<m + 1, f[m]>>] ELSE f[i]]
  <2>2. m + 1 \in 0..n /\ m \in 0..m /\ f[m] \in X
    BY <1>2
  <2>3. step[<<m + 1, f[m]>>] \in X
    BY <2>2
  <2>4. g \in [0..m + 1 -> X]
    BY <2>3
  <2>5. Goes(g, m + 1)
    <3>1. g[0] = s0
      BY <2>1
    <3>2. ASSUME NEW i \in 1..m + 1 PROVE g[i] = step[<<i, g[i - 1]>>]
      <4>1. i - 1 \in 0..m /\ g[i - 1] = f[i - 1]
        OBVIOUS
      <4>2. CASE i = m + 1
        <5>1. i - 1 = m
          BY <4>2
        <5>2. g[m + 1] = step[<<m + 1, f[m]>>]
          OBVIOUS
        <5> HIDE DEF g
        <5> QED BY <4>1, <4>2, <5>1, <5>2
      <4>3. CASE i # m + 1
        <5>1. i \in 1..m /\ g[i] = f[i]
          BY <4>3
        <5> QED BY <2>1, <4>1, <5>1
      <4> QED BY <4>2, <4>3
    <3> QED BY <3>1, <3>2
  <2> HIDE DEF g, Goes
  <2> QED BY <2>2, <2>4, <2>5
<1>3. T = 0..n
  <2> HIDE DEF T
  <2>1. T \in SUBSET (0..n)
    BY DEF T
  <2>2. \A i \in 0..n : (i \in T /\ i < n) => i + 1 \in T
    BY <1>2
  <2> QED BY <1>1, <2>1, <2>2, HandedOn, Zenon
<1>4. n \in T
  <2> HIDE DEF T
  <2> QED BY <1>3
<1> QED BY <1>4 DEF Iterates

LEMMA UpToIs ==
  ASSUME NEW S, NEW s \in Seq(S), NEW n \in 0..Len(s)
  PROVE  /\ SubSeq(s, 1, n) \in Seq(S) /\ Len(SubSeq(s, 1, n)) = n
         /\ \A i \in 1..n : SubSeq(s, 1, n)[i] = s[i]
OBVIOUS

LEMMA FrontIs ==
  ASSUME NEW S, NEW s \in Seq(S)
  PROVE  /\ Front(s) \in Seq(S)
         /\ s = <<>> => Front(s) = <<>>
         /\ s # <<>> => /\ Len(Front(s)) = Len(s) - 1 /\ Front(s) # s
                        /\ Last(s) \in S /\ s = Append(Front(s), Last(s))
<1>1. Len(s) \in Nat /\ (s # <<>> <=> Len(s) > 0)
  OBVIOUS
<1>2. CASE s = <<>>
  BY <1>2 DEF Front
<1>3. CASE s # <<>>
  <2>1. Len(s) - 1 \in Nat /\ Len(s) - 1 <= Len(s)
    BY <1>1, <1>3
  <2>2. /\ Front(s) \in Seq(S) /\ Len(Front(s)) = Len(s) - 1
        /\ \A i \in 1..Len(s) - 1 : Front(s)[i] = s[i]
    <3>1. Len(s) - 1 \in 0..Len(s)
      BY <1>1, <2>1
    <3> QED BY <3>1, UpToIs DEF Front
  <2>3. Last(s) \in S
    BY <1>1, <1>3 DEF Last
  <2>4. s = Append(Front(s), Last(s))
    BY <1>1, <2>1, <2>2, <2>3 DEF Last
  <2>5. Front(s) # s
    BY <1>1, <2>2
  <2> QED BY <1>3, <2>2, <2>3, <2>4, <2>5
<1> QED BY <1>2, <1>3

LEMMA FrontOfAppend ==
  ASSUME NEW S, NEW s \in Seq(S), NEW x \in S
  PROVE  /\ Append(s, x) \in Seq(S) /\ Append(s, x) # <<>>
         /\ Front(Append(s, x)) = s /\ Last(Append(s, x)) = x
<1>1. Append(s, x) \in Seq(S) /\ Len(Append(s, x)) = Len(s) + 1 /\ Append(s, x) # <<>>
  <2>1. Append(s, x) \in Seq(S)
    OBVIOUS
  <2>2. Len(Append(s, x)) = Len(s) + 1
    OBVIOUS
  <2>3. Len(s) \in Nat /\ Len(<<>>) = 0
    OBVIOUS
  <2>4. Append(s, x) # <<>>
    <3>1. Len(Append(s, x)) # Len(<<>>)
      BY <2>2, <2>3
    <3> QED BY <3>1, Zenon
  <2> QED BY <2>1, <2>2, <2>4
<1>2. Len(s) \in Nat /\ (Len(s) + 1) - 1 = Len(s)
  OBVIOUS
<1>3. SubSeq(Append(s, x), 1, Len(s)) = s
  OBVIOUS
<1>4. Append(s, x)[Len(s) + 1] = x
  OBVIOUS
<1> QED BY <1>1, <1>2, <1>3, <1>4 DEF Front, Last

-----------------------------------------------------------------------------
(***************************************************************************)
(* Lookups.                                                                *)
(***************************************************************************)

(* Where a lookup may be: while it succeeds it is in a directory, or at    *)
(* its end at an entry of one.                                             *)
Stands(t, s) ==
  s.ok => Is(t, s.at, "dir") \/ (s.todo = <<>> /\ Is(t, Front(s.at), "dir"))

Looked(t) ==
  {s \in [at : Seq(Names), todo : Seq(Parts), ok : BOOLEAN] : Stands(t, s)}

LEMMA LookedIs ==
  ASSUME NEW t, NEW at \in Seq(Names), NEW todo \in Seq(Parts), NEW ok \in BOOLEAN,
         ok => Is(t, at, "dir") \/ (todo = <<>> /\ Is(t, Front(at), "dir"))
  PROVE  [at |-> at, todo |-> todo, ok |-> ok] \in Looked(t)
BY DEF Looked, Stands

LEMMA LookedHas ==
  ASSUME NEW t, NEW s \in Looked(t)
  PROVE  /\ s.at \in Seq(Names) /\ s.todo \in Seq(Parts) /\ s.ok \in BOOLEAN
         /\ s = [at |-> s.at, todo |-> s.todo, ok |-> s.ok]
         /\ Stands(t, s)
BY DEF Looked

LEMMA HeadAndTail ==
  ASSUME NEW S, NEW s \in Seq(S), s # <<>>
  PROVE  Head(s) \in S /\ Tail(s) \in Seq(S)
OBVIOUS

LEMMA Joined ==
  ASSUME NEW S, NEW a \in Seq(S), NEW b \in Seq(S)
  PROVE  a \o b \in Seq(S)
OBVIOUS

LEMMA EnterKeeps ==
  ASSUME NEW t, WellFormed(t), NEW base \in Seq(Names), Is(t, base, "dir"),
         NEW beneath \in BOOLEAN, NEW at \in Seq(Names), Is(t, at, "dir"),
         NEW name \in Names, NEW rest \in Seq(Parts)
  PROVE  Enter(t, base, beneath, at, name, rest) \in Looked(t)
<1> DEFINE next == Append(at, name)
           to == t[next].to
<1>1. next \in Seq(Names) /\ Front(next) = at
  BY FrontOfAppend
<1>2. CASE Is(t, next, "link")
  <2>1. to \in Named
    BY <1>2 DEF WellFormed, IsNode, Is
  <2>2. to.names \o rest \in Seq(Parts) /\ to.abs \in BOOLEAN
    <3>1. to.names \in Seq(Parts) /\ to.abs \in BOOLEAN
      BY <2>1, PathsHaveNames DEF Named
    <3> HIDE DEF to
    <3> QED BY <3>1, Joined
  <2>3. Enter(t, base, beneath, at, name, rest)
          = [at |-> IF to.abs THEN base ELSE at, todo |-> to.names \o rest,
             ok |-> ~(to.abs /\ beneath)]
    BY <1>2 DEF Enter
  <2>4. (IF to.abs THEN base ELSE at) \in Seq(Names) /\ Is(t, IF to.abs THEN base ELSE at, "dir")
    <3> HIDE DEF to
    <3>1. CASE to.abs
      BY <3>1
    <3>2. CASE ~to.abs
      BY <3>2
    <3> QED BY <3>1, <3>2, Zenon
  <2>5. (~(to.abs /\ beneath)) \in BOOLEAN
    BY <2>2
  <2> HIDE DEF to, next
  <2> QED BY <2>2, <2>3, <2>4, <2>5, LookedIs
<1>3. CASE ~Is(t, next, "link")
  <2>1. Enter(t, base, beneath, at, name, rest)
          = [at |-> next, todo |-> rest, ok |-> Is(t, next, "dir") \/ rest = <<>>]
    BY <1>3 DEF Enter
  <2>2. (Is(t, next, "dir") \/ rest = <<>>) \in BOOLEAN
    OBVIOUS
  <2> HIDE DEF next
  <2> QED BY <1>1, <2>1, <2>2, LookedIs
<1> QED BY <1>2, <1>3

LEMMA AdvanceKeeps ==
  ASSUME NEW t, WellFormed(t), NEW base \in Seq(Names), Is(t, base, "dir"),
         NEW beneath \in BOOLEAN, NEW s \in Looked(t)
  PROVE  Advance(t, base, beneath, s) \in Looked(t)
<1>1. /\ s.at \in Seq(Names) /\ s.todo \in Seq(Parts) /\ s.ok \in BOOLEAN
      /\ s = [at |-> s.at, todo |-> s.todo, ok |-> s.ok]
      /\ s.ok => Is(t, s.at, "dir") \/ (s.todo = <<>> /\ Is(t, Front(s.at), "dir"))
  BY LookedHas DEF Stands
<1>2. CASE ~s.ok \/ s.todo = <<>>
  BY <1>2 DEF Advance
<1>3. CASE s.ok /\ s.todo # <<>>
  <2>1. Is(t, s.at, "dir") /\ Head(s.todo) \in Parts /\ Tail(s.todo) \in Seq(Parts)
    BY <1>1, <1>3, HeadAndTail
  <2>2. CASE Head(s.todo) = "."
    <3>1. Advance(t, base, beneath, s) = [at |-> s.at, todo |-> Tail(s.todo), ok |-> s.ok]
      BY <1>1, <1>3, <2>2 DEF Advance
    <3> QED BY <1>1, <2>1, <3>1, LookedIs
  <2>3. CASE Head(s.todo) = ".."
    <3>1. Advance(t, base, beneath, s) = Up(base, beneath, s.at, Tail(s.todo))
      BY <1>3, <2>3 DEF Advance
    <3>2. CASE s.at = base
      <4>1. Up(base, beneath, s.at, Tail(s.todo))
              = [at |-> s.at, todo |-> Tail(s.todo), ok |-> ~beneath]
        BY <3>2 DEF Up
      <4>2. (~beneath) \in BOOLEAN
        OBVIOUS
      <4> QED BY <1>1, <2>1, <3>1, <4>1, <4>2, LookedIs
    <3>3. CASE s.at # base
      <4>1. Up(base, beneath, s.at, Tail(s.todo))
              = [at |-> Front(s.at), todo |-> Tail(s.todo), ok |-> TRUE]
        BY <3>3 DEF Up
      <4>2. Front(s.at) \in Seq(Names) /\ (s.at = <<>> => Front(s.at) = s.at)
        BY <1>1, FrontIs
      <4>3. Is(t, Front(s.at), "dir")
        BY <2>1, <4>2 DEF WellFormed, Is
      <4> QED BY <2>1, <3>1, <4>1, <4>2, <4>3, LookedIs
    <3> QED BY <3>2, <3>3
  <2>4. CASE Head(s.todo) # "." /\ Head(s.todo) # ".."
    <3>1. Advance(t, base, beneath, s) = Enter(t, base, beneath, s.at, Head(s.todo), Tail(s.todo))
      BY <1>3, <2>4 DEF Advance
    <3>2. Head(s.todo) \in Names
      BY <2>1, <2>4 DEF Parts
    <3> QED BY <1>1, <2>1, <3>1, <3>2, EnterKeeps
  <2> QED BY <2>2, <2>3, <2>4
<1> QED BY <1>1, <1>2, <1>3

(* The hops of a lookup, which there are, and each follows from the last.  *)
LEMMA HopsAre ==
  ASSUME NEW t, WellFormed(t), NEW base \in Seq(Names), Is(t, base, "dir"),
         NEW beneath \in BOOLEAN, NEW names \in Seq(Parts)
  PROVE  LET hops == Hops(t, base, beneath, names)
         IN /\ hops \in [0..MaxHops -> Looked(t)]
            /\ hops[0] = [at |-> base, todo |-> names, ok |-> TRUE]
            /\ \A i \in 1..MaxHops : hops[i] = Advance(t, base, beneath, hops[i - 1])
<1> DEFINE start == [at |-> base, todo |-> names, ok |-> TRUE]
           Goes(f) == f = [i \in 0..MaxHops |-> IF i = 0 THEN start
                                                ELSE Advance(t, base, beneath, f[i - 1])]
           step == [p \in (0..MaxHops) \X Looked(t) |-> Advance(t, base, beneath, p[2])]
           hops == Hops(t, base, beneath, names)
<1>1. MaxHops \in Nat
  BY BoundsAssumption
<1>2. start \in Looked(t)
  BY LookedIs
<1>3. step \in [(0..MaxHops) \X Looked(t) -> Looked(t)]
  <2>1. \A p \in (0..MaxHops) \X Looked(t) : Advance(t, base, beneath, p[2]) \in Looked(t)
    BY AdvanceKeeps
  <2> QED BY <2>1
<1>4. PICK f \in [0..MaxHops -> Looked(t)] :
        f[0] = start /\ \A i \in 1..MaxHops : f[i] = step[<<i, f[i - 1]>>]
  <2> DEFINE X == Looked(t)
  <2>1. start \in X
    BY <1>2
  <2>3. step \in [(0..MaxHops) \X X -> X]
    BY <1>3
  <2> HIDE DEF start, step, X
  <2>2. \E f \in [0..MaxHops -> X] : Iterates(f, MaxHops, start, step)
    BY <1>1, <2>1, <2>3, StepsTaken
  <2> QED BY <2>2 DEF X, Iterates
<1>5. \A i \in 1..MaxHops : f[i] = Advance(t, base, beneath, f[i - 1])
  <2> SUFFICES ASSUME NEW i \in 1..MaxHops PROVE f[i] = Advance(t, base, beneath, f[i - 1])
    OBVIOUS
  <2>1. i \in 0..MaxHops /\ i - 1 \in 0..MaxHops
    BY <1>1
  <2>2. <<i, f[i - 1]>> \in (0..MaxHops) \X Looked(t)
    BY <2>1
  <2>3. step[<<i, f[i - 1]>>] = Advance(t, base, beneath, <<i, f[i - 1]>>[2])
    BY <2>2
  <2> QED BY <1>4, <2>3
<1>6. Goes(f)
  <2>1. \A i \in 0..MaxHops : f[i] = IF i = 0 THEN start ELSE Advance(t, base, beneath, f[i - 1])
    <3> HIDE DEF start
    <3> QED BY <1>1, <1>4, <1>5
  <2> QED BY <2>1
<1>7. hops = CHOOSE g : Goes(g)
  BY DEF Hops
<1>8. Goes(hops)
  <2> HIDE DEF Goes, hops
  <2> QED BY <1>6, <1>7
<1>9. /\ hops[0] = start
      /\ \A i \in 1..MaxHops : hops[i] = Advance(t, base, beneath, hops[i - 1])
  <2> HIDE DEF start, hops
  <2> QED BY <1>1, <1>8
<1> DEFINE T == {i \in 0..MaxHops : hops[i] \in Looked(t)}
<1>10. T = 0..MaxHops
  <2>1. 0 \in T /\ T \in SUBSET (0..MaxHops)
    BY <1>1, <1>2, <1>9
  <2>2. ASSUME NEW i \in 0..MaxHops, i \in T, i < MaxHops PROVE i + 1 \in T
    <3>1. i + 1 \in 1..MaxHops /\ (i + 1) - 1 = i /\ i + 1 \in 0..MaxHops
      BY <1>1, <2>2
    <3>2. hops[i + 1] = Advance(t, base, beneath, hops[i])
      <4> HIDE DEF hops
      <4> QED BY <1>9, <3>1
    <3> QED BY <2>2, <3>1, <3>2, AdvanceKeeps
  <2>3. \A i \in 0..MaxHops : (i \in T /\ i < MaxHops) => i + 1 \in T
    BY <2>2
  <2> HIDE DEF T
  <2> QED BY <1>1, <2>1, <2>3, HandedOn, Zenon
<1>11. \A i \in 0..MaxHops : hops[i] \in Looked(t)
  <2> HIDE DEF hops
  <2> QED BY <1>10
<1>12. hops \in [0..MaxHops -> Looked(t)]
  <2> HIDE DEF hops, start
  <2> QED BY <1>8, <1>11
<1> QED BY <1>9, <1>12

(* What every hop keeps, a lookup keeps. *)
LEMMA HopsStay ==
  ASSUME NEW t, WellFormed(t), NEW base \in Seq(Names), Is(t, base, "dir"),
         NEW beneath \in BOOLEAN, NEW names \in Seq(Parts),
         NEW X, [at |-> base, todo |-> names, ok |-> TRUE] \in X,
         \A s \in Looked(t) : s \in X => Advance(t, base, beneath, s) \in X
  PROVE  /\ Hops(t, base, beneath, names)[MaxHops] \in Looked(t)
         /\ Hops(t, base, beneath, names)[MaxHops] \in X
<1> DEFINE hops == Hops(t, base, beneath, names)
           T == {i \in 0..MaxHops : hops[i] \in X}
<1>1. MaxHops \in Nat
  BY BoundsAssumption
<1>2. /\ hops \in [0..MaxHops -> Looked(t)]
      /\ hops[0] = [at |-> base, todo |-> names, ok |-> TRUE]
      /\ \A i \in 1..MaxHops : hops[i] = Advance(t, base, beneath, hops[i - 1])
  BY HopsAre
<1> HIDE DEF hops
<1>3. 0 \in T /\ T \in SUBSET (0..MaxHops)
  <2>1. hops[0] \in X
    BY <1>2
  <2> QED BY <1>1, <2>1
<1>4. ASSUME NEW i \in 0..MaxHops, i \in T, i < MaxHops PROVE i + 1 \in T
  <2>1. i + 1 \in 1..MaxHops /\ (i + 1) - 1 = i /\ i + 1 \in 0..MaxHops
    BY <1>1, <1>4
  <2>2. hops[i + 1] = Advance(t, base, beneath, hops[i]) /\ hops[i] \in Looked(t)
    BY <1>2, <2>1
  <2> QED BY <1>4, <2>1, <2>2
<1>5. T = 0..MaxHops
  <2>1. \A i \in 0..MaxHops : (i \in T /\ i < MaxHops) => i + 1 \in T
    BY <1>4
  <2> HIDE DEF T
  <2> QED BY <1>1, <1>3, <2>1, HandedOn, Zenon
<1>6. MaxHops \in 0..MaxHops
  BY <1>1
<1>7. MaxHops \in T
  <2> HIDE DEF T
  <2> QED BY <1>5, <1>6
<1> QED BY <1>2, <1>6, <1>7 DEF hops

(* A lookup ends at no place, or at one that is in a directory. *)
LEMMA PlaceIs ==
  ASSUME NEW t, WellFormed(t), NEW base, NEW beneath \in BOOLEAN, NEW names \in Seq(Parts)
  PROVE  LET place == PlaceOf(t, base, beneath, names)
         IN place # NoPath => /\ place \in Seq(Names)
                              /\ Is(t, place, "dir") \/ Is(t, Front(place), "dir")
<1> DEFINE end == Hops(t, base, beneath, names)[MaxHops]
           X == Looked(t)
<1>1. SUFFICES ASSUME Is(t, base, "dir"), end.ok, end.todo = <<>>
               PROVE  /\ end.at \in Seq(Names)
                      /\ Is(t, end.at, "dir") \/ Is(t, Front(end.at), "dir")
  BY DEF PlaceOf
<1>2. base \in Seq(Names)
  BY <1>1 DEF WellFormed, Is
<1>3. end \in Looked(t)
  <2>1. [at |-> base, todo |-> names, ok |-> TRUE] \in X
    BY <1>1, <1>2, LookedIs
  <2>2. \A s \in Looked(t) : s \in X => Advance(t, base, beneath, s) \in X
    BY <1>1, <1>2, AdvanceKeeps
  <2> HIDE DEF X
  <2> QED BY <1>1, <1>2, <2>1, <2>2, HopsStay
<1> HIDE DEF end
<1> QED BY <1>1, <1>3, LookedHas DEF Stands

LEMMA EntryPlaceIs ==
  ASSUME NEW t, WellFormed(t), NEW base, NEW beneath \in BOOLEAN, NEW names \in Seq(Names)
  PROVE  LET place == EntryPlace(t, base, beneath, names)
         IN place # NoPath => place \in Seq(Names) /\ Is(t, Front(place), "dir")
<1> DEFINE dir == PlaceOf(t, base, beneath, Front(names))
<1>1. SUFFICES ASSUME names # <<>>, Is(t, dir, "dir")
               PROVE  /\ Append(dir, Last(names)) \in Seq(Names)
                      /\ Is(t, Front(Append(dir, Last(names))), "dir")
  BY DEF EntryPlace
<1>2. Last(names) \in Names
  BY <1>1, FrontIs
<1>3. dir \in Seq(Names)
  BY <1>1 DEF WellFormed, Is
<1> HIDE DEF dir
<1>4. Append(dir, Last(names)) \in Seq(Names) /\ Front(Append(dir, Last(names))) = dir
  BY <1>2, <1>3, FrontOfAppend
<1> QED BY <1>1, <1>4

LEMMA RealPathIs ==
  ASSUME NEW t, WellFormed(t), NEW path
  PROVE  RealPath(t, path) # NoPath =>
           RealPath(t, path) \in DOMAIN t /\ RealPath(t, path) \in Seq(Names)
BY DEF RealPath, WellFormed

LEMMA CanonicalIs ==
  ASSUME NEW t, WellFormed(t), NEW path \in Seq(Names)
  PROVE  CanonicalOrParent(t, path) # NoPath => CanonicalOrParent(t, path) \in Seq(Names)
<1>1. CASE RealPath(t, path) # NoPath
  BY <1>1, RealPathIs DEF CanonicalOrParent
<1>2. CASE RealPath(t, path) = NoPath /\ path # <<>> /\ RealPath(t, Front(path)) # NoPath
  <2>1. RealPath(t, Front(path)) \in Seq(Names) /\ Last(path) \in Names
    BY <1>2, RealPathIs, FrontIs
  <2>2. CanonicalOrParent(t, path) = Append(RealPath(t, Front(path)), Last(path))
    BY <1>2 DEF CanonicalOrParent
  <2>3. Append(RealPath(t, Front(path)), Last(path)) \in Seq(Names)
    BY <2>1, FrontOfAppend
  <2> QED BY <2>2, <2>3
<1> QED BY <1>1, <1>2 DEF CanonicalOrParent

LEMMA Regrouped ==
  ASSUME NEW S, NEW a \in Seq(S), NEW s \in Seq(S), s # <<>>
  PROVE  /\ Append(a, Head(s)) \o Tail(s) = a \o s
         /\ Len(a) + 1 \in 1..Len(a \o s)
         /\ SubSeq(a \o s, 1, Len(a) + 1) = Append(a, Head(s))
<1>1. Append(a, Head(s)) \o Tail(s) = a \o s
  OBVIOUS
<1>2. Len(a) + 1 \in 1..Len(a \o s)
  OBVIOUS
<1>3. SubSeq(a \o s, 1, Len(a) + 1) = Append(a, Head(s))
  <2>1. Len(a) + 1 <= Len(a \o s) /\ Len(Append(a, Head(s))) = Len(a) + 1
    OBVIOUS
  <2>2. \A i \in 1..Len(a) + 1 : (a \o s)[i] = Append(a, Head(s))[i]
    OBVIOUS
  <2> QED BY <2>1, <2>2
<1> QED BY <1>1, <1>2, <1>3

(* A path with no link on it leads to itself, if anywhere. *)
LEMMA StraightPlace ==
  ASSUME NEW t, WellFormed(t), NEW path \in Seq(Names), ~HasLink(t, path)
  PROVE  Place(t, path) \in {path, NoPath}
<1> DEFINE end == Hops(t, <<>>, FALSE, path)[MaxHops]
           X == {s \in Looked(t) : s.ok => s.todo \in Seq(Names) /\ s.at \o s.todo = path}
<1>1. SUFFICES ASSUME Is(t, <<>>, "dir"), end.ok, end.todo = <<>>
               PROVE  end.at = path
  BY DEF Place, PlaceOf
<1>2. path \in Seq(Parts) /\ <<>> \in Seq(Names) /\ <<>> \o path = path
  BY DEF Parts
<1>3. [at |-> <<>>, todo |-> path, ok |-> TRUE] \in X
  <2>1. [at |-> <<>>, todo |-> path, ok |-> TRUE] \in Looked(t)
    BY <1>1, <1>2, LookedIs
  <2> QED BY <1>2, <2>1
<1>4. ASSUME NEW s \in Looked(t), s \in X
      PROVE  Advance(t, <<>>, FALSE, s) \in X
  <2> DEFINE next == Append(s.at, Head(s.todo))
             after == Advance(t, <<>>, FALSE, s)
  <2>1. after \in Looked(t)
    BY <1>1, <1>2, AdvanceKeeps
  <2>2. CASE ~s.ok \/ s.todo = <<>>
    BY <1>4, <2>2 DEF Advance
  <2>3. CASE s.ok /\ s.todo # <<>>
    <3>1. s.at \in Seq(Names) /\ s.todo \in Seq(Names) /\ s.at \o s.todo = path
      BY <1>4, <2>3, LookedHas
    <3>2. Head(s.todo) \in Names /\ Tail(s.todo) \in Seq(Names)
      BY <2>3, <3>1, HeadAndTail
    <3>3. Head(s.todo) # "." /\ Head(s.todo) # ".."
      BY <3>2, NamesAssumption
    <3>4. /\ next \o Tail(s.todo) = path
          /\ Len(s.at) + 1 \in 1..Len(path) /\ UpTo(path, Len(s.at) + 1) = next
      <4>1. /\ Append(s.at, Head(s.todo)) \o Tail(s.todo) = s.at \o s.todo
            /\ Len(s.at) + 1 \in 1..Len(s.at \o s.todo)
            /\ SubSeq(s.at \o s.todo, 1, Len(s.at) + 1) = Append(s.at, Head(s.todo))
        BY <2>3, <3>1, Regrouped
      <4> QED BY <3>1, <4>1, Zenon DEF UpTo
    <3>5. ~Is(t, next, "link")
      BY <3>4 DEF HasLink
    <3>6. after = [at |-> next, todo |-> Tail(s.todo),
                   ok |-> Is(t, next, "dir") \/ Tail(s.todo) = <<>>]
      <4>1. after = Enter(t, <<>>, FALSE, s.at, Head(s.todo), Tail(s.todo))
        BY <2>3, <3>3 DEF Advance
      <4>2. Enter(t, <<>>, FALSE, s.at, Head(s.todo), Tail(s.todo))
              = [at |-> next, todo |-> Tail(s.todo), ok |-> Is(t, next, "dir") \/ Tail(s.todo) = <<>>]
        BY <3>5 DEF Enter
      <4> QED BY <4>1, <4>2, Zenon
    <3> HIDE DEF next, after
    <3>7. after.at = next /\ after.todo = Tail(s.todo)
      BY <3>6
    <3>8. after.todo \in Seq(Names) /\ after.at \o after.todo = path
      BY <3>2, <3>4, <3>7, Zenon
    <3>9. after \in X
      BY <2>1, <3>8
    <3> QED BY <3>9 DEF after
  <2> QED BY <2>2, <2>3
<1>5. end \in X
  <2>1. \A s \in Looked(t) : s \in X => Advance(t, <<>>, FALSE, s) \in X
    BY <1>4
  <2>2. FALSE \in BOOLEAN
    OBVIOUS
  <2> HIDE DEF X
  <2> QED BY <1>1, <1>2, <1>3, <2>1, <2>2, HopsStay
<1> HIDE DEF end
<1>6. end.at \in Seq(Names) /\ end.at \o <<>> = path
  BY <1>1, <1>5, LookedHas
<1> QED BY <1>6

(* ... and is its own canonical path. *)
LEMMA StraightCanonical ==
  ASSUME NEW t, WellFormed(t), NEW path \in Seq(Names), ~HasLink(t, path)
  PROVE  CanonicalOrParent(t, path) \in {path, NoPath}
<1>1. RealPath(t, path) \in {path, NoPath}
  BY StraightPlace DEF RealPath
<1>2. CASE path # <<>> /\ RealPath(t, Front(path)) # NoPath /\ RealPath(t, path) = NoPath
  <2>1. /\ Front(path) \in Seq(Names) /\ Len(Front(path)) = Len(path) - 1
        /\ path = Append(Front(path), Last(path))
    BY <1>2, FrontIs
  <2>2. ASSUME NEW k \in 1..Len(Front(path))
        PROVE  k \in 1..Len(path) /\ UpTo(Front(path), k) = UpTo(path, k)
    <3>1. Len(path) - 1 \in 0..Len(path) /\ k \in 0..Len(path) - 1 /\ k \in 1..Len(path)
      BY <2>1
    <3>2. UpTo(UpTo(path, Len(path) - 1), k) = UpTo(path, k)
      BY <3>1, UpToUpTo
    <3> QED BY <3>1, <3>2 DEF Front, UpTo
  <2>3. ~HasLink(t, Front(path))
    BY <2>2 DEF HasLink
  <2>4. RealPath(t, Front(path)) = Front(path)
    BY <1>2, <2>1, <2>3, StraightPlace DEF RealPath
  <2> QED BY <1>2, <2>1, <2>4 DEF CanonicalOrParent
<1> QED BY <1>1, <1>2 DEF CanonicalOrParent

-----------------------------------------------------------------------------
(***************************************************************************)
(* Paths that begin with others.                                           *)
(***************************************************************************)

LEMMA JoinAt ==
  ASSUME NEW S, NEW a \in Seq(S), NEW b \in Seq(S)
  PROVE  /\ a \o b \in Seq(S) /\ Len(a \o b) = Len(a) + Len(b)
         /\ \A i \in 1..Len(a) : (a \o b)[i] = a[i]
         /\ \A i \in 1..Len(b) : (a \o b)[Len(a) + i] = b[i]
OBVIOUS

LEMMA SameSeq ==
  ASSUME NEW S, NEW a \in Seq(S), NEW b \in Seq(S), Len(a) = Len(b),
         \A i \in 1..Len(a) : a[i] = b[i]
  PROVE  a = b
OBVIOUS

LEMMA CutIs ==
  ASSUME NEW S, NEW b \in Seq(S), NEW k \in 0..Len(b)
  PROVE  /\ SubSeq(b, k + 1, Len(b)) \in Seq(S)
         /\ b = SubSeq(b, 1, k) \o SubSeq(b, k + 1, Len(b))
<1>1. SubSeq(b, 1, k) \in Seq(S) /\ Len(SubSeq(b, 1, k)) = k
      /\ \A i \in 1..k : SubSeq(b, 1, k)[i] = b[i]
  BY UpToIs
<1> DEFINE head == SubSeq(b, 1, k)
           rest == SubSeq(b, k + 1, Len(b))
<1>2. rest \in Seq(S) /\ Len(rest) = Len(b) - k /\ \A i \in 1..Len(b) - k : rest[i] = b[k + i]
  OBVIOUS
<1>3. Len(b) \in Nat /\ k \in Nat /\ k <= Len(b)
  OBVIOUS
<1> HIDE DEF head, rest
<1>4. head \in Seq(S) /\ Len(head) = k /\ \A i \in 1..k : head[i] = b[i]
  BY <1>1 DEF head
<1> DEFINE all == head \o rest
<1>5. /\ all \in Seq(S) /\ Len(all) = Len(head) + Len(rest)
      /\ \A i \in 1..Len(head) : all[i] = head[i]
      /\ \A i \in 1..Len(rest) : all[Len(head) + i] = rest[i]
  <2>1. head \in Seq(S)
    BY <1>4
  <2>2. rest \in Seq(S)
    BY <1>2
  <2> QED BY <2>1, <2>2, JoinAt
<1> HIDE DEF all
<1>6. all \in Seq(S) /\ Len(all) = Len(b)
  BY <1>2, <1>3, <1>4, <1>5
<1>7. ASSUME NEW i \in 1..Len(b) PROVE all[i] = b[i]
  <2>1. CASE i <= k
    <3>1. i \in 1..k /\ i \in 1..Len(head)
      BY <1>3, <1>4, <2>1
    <3>2. all[i] = head[i]
      BY <1>5, <3>1
    <3> QED BY <1>4, <3>1, <3>2
  <2>2. CASE i > k
    <3>1. i - k \in 1..Len(b) - k /\ k + (i - k) = i
      BY <1>3, <2>2
    <3>2. all[k + (i - k)] = rest[i - k]
      BY <1>2, <1>4, <1>5, <3>1
    <3> QED BY <1>2, <3>1, <3>2
  <2> QED BY <1>3, <2>1, <2>2
<1>8. \A i \in 1..Len(b) : b[i] = all[i]
  BY <1>7
<1>9. b = all
  BY <1>6, <1>8, SameSeq
<1> QED BY <1>2, <1>9 DEF all, head, rest

LEMMA PrefixIs ==
  ASSUME NEW S, NEW a \in Seq(S), NEW b \in Seq(S), IsPrefix(a, b)
  PROVE  /\ Suffix(b, a) \in Seq(S) /\ b = a \o Suffix(b, a)
         /\ Len(a) <= Len(b) /\ UpTo(b, Len(a)) = a
<1>1. Len(a) \in 0..Len(b) /\ SubSeq(a, 1, Len(a)) = SubSeq(b, 1, Len(a))
  BY DEF IsPrefix
<1>2. SubSeq(a, 1, Len(a)) = a
  OBVIOUS
<1>3. Suffix(b, a) \in Seq(S) /\ b = SubSeq(b, 1, Len(a)) \o Suffix(b, a)
  BY <1>1, CutIs DEF Suffix
<1> QED BY <1>1, <1>2, <1>3 DEF UpTo

LEMMA JoinedIs ==
  ASSUME NEW S, NEW a \in Seq(S), NEW s \in Seq(S)
  PROVE  /\ a \o s \in Seq(S) /\ IsPrefix(a, a \o s) /\ Suffix(a \o s, a) = s
         /\ s # <<>> => Front(a \o s) = a \o Front(s)
<1>1. a \o s \in Seq(S) /\ Len(a \o s) = Len(a) + Len(s)
  OBVIOUS
<1>2. SubSeq(a \o s, 1, Len(a)) = SubSeq(a, 1, Len(a))
  OBVIOUS
<1>3. SubSeq(a \o s, Len(a) + 1, Len(a \o s)) = s
  OBVIOUS
<1>4. ASSUME s # <<>>
      PROVE  SubSeq(a \o s, 1, Len(a \o s) - 1) = a \o SubSeq(s, 1, Len(s) - 1)
  <2>1. Len(s) > 0 /\ Len(a \o s) - 1 = Len(a) + (Len(s) - 1)
    BY <1>1, <1>4
  <2> QED BY <2>1
<1> QED BY <1>1, <1>2, <1>3, <1>4 DEF IsPrefix, Suffix, Front

LEMMA PrefixOfPrefix ==
  ASSUME NEW S, NEW a \in Seq(S), NEW b \in Seq(S), NEW c \in Seq(S),
         IsPrefix(a, b), IsPrefix(b, c)
  PROVE  IsPrefix(a, c)
<1>1. Len(a) \in 0..Len(b) /\ UpTo(b, Len(a)) = a
  BY PrefixIs
<1>2. Len(b) \in 0..Len(c) /\ UpTo(c, Len(b)) = b
  BY PrefixIs
<1>3. UpTo(UpTo(c, Len(b)), Len(a)) = UpTo(c, Len(a))
  BY <1>1, <1>2, UpToUpTo
<1>4. SubSeq(a, 1, Len(a)) = a /\ Len(a) <= Len(c)
  BY <1>1, <1>2
<1> QED BY <1>1, <1>2, <1>3, <1>4 DEF IsPrefix, UpTo

LEMMA FrontIsPrefix ==
  ASSUME NEW S, NEW b \in Seq(S)
  PROVE  /\ IsPrefix(b, b) /\ IsPrefix(Front(b), b)
         /\ b # <<>> => ~IsPrefix(b, Front(b))
<1>1. IsPrefix(b, b)
  BY DEF IsPrefix
<1>2. CASE b = <<>>
  BY <1>1, <1>2, FrontIs
<1>3. CASE b # <<>>
  <2>1. Len(b) > 0 /\ Len(Front(b)) = Len(b) - 1 /\ Front(b) \in Seq(S)
    BY <1>3, FrontIs
  <2>2. SubSeq(Front(b), 1, Len(Front(b))) = SubSeq(b, 1, Len(Front(b)))
    BY <2>1 DEF Front
  <2> QED BY <1>1, <2>1, <2>2 DEF IsPrefix
<1> QED BY <1>2, <1>3

(* What begins a path and is not the whole begins its directory. *)
LEMMA StrictPrefix ==
  ASSUME NEW S, NEW a \in Seq(S), NEW b \in Seq(S), IsPrefix(a, b), a # b
  PROVE  b # <<>> /\ IsPrefix(a, Front(b))
<1> DEFINE s == Suffix(b, a)
<1>1. s \in Seq(S) /\ b = a \o s
  BY PrefixIs
<1> HIDE DEF s
<1>2. s # <<>>
  BY <1>1
<1>3. Front(s) \in Seq(S)
  BY <1>1, FrontIs
<1>4. Front(b) = a \o Front(s)
  BY <1>1, <1>2, JoinedIs
<1>5. b # <<>>
  BY <1>1, <1>2
<1>6. IsPrefix(a, a \o Front(s))
  BY <1>3, JoinedIs
<1> QED BY <1>4, <1>5, <1>6

-----------------------------------------------------------------------------
(***************************************************************************)
(* Changes of the tree.                                                    *)
(***************************************************************************)

LEMMA ChildlessIs ==
  ASSUME NEW t, WellFormed(t), NEW place, ~Is(t, place, "dir")
  PROVE  Children(t, place) = {}
BY DEF Children, WellFormed

(* A node can be put at a place in a directory, if nothing is in it or it  *)
(* stays a directory.                                                      *)
LEMMA PutKeeps ==
  ASSUME NEW t, WellFormed(t), NEW place \in Seq(Names),
         place \in DOMAIN t \/ Is(t, Front(place), "dir"),
         NEW node, IsNode(node), node.kind = "dir" \/ Children(t, place) = {}
  PROVE  WellFormed(Put(t, place, node))
<1> DEFINE u == Put(t, place, node)
<1>1. DOMAIN u = DOMAIN t \cup {place} /\ u[place] = node
  BY DEF Put
<1>2. \A p \in DOMAIN t : p # place => u[p] = t[p]
  BY DEF Put
<1> HIDE DEF u
<1>6. IsFiniteSet(DOMAIN u)
  BY <1>1, FS_AddElement DEF WellFormed
<1>3. SUFFICES ASSUME NEW p \in DOMAIN u
               PROVE  p \in Seq(Names) /\ IsNode(u[p]) /\ (p # <<>> => Is(u, Front(p), "dir"))
  BY <1>6 DEF WellFormed, u
<1>4. p \in Seq(Names) /\ IsNode(u[p])
  BY <1>1, <1>2 DEF WellFormed
<1>5. ASSUME p # <<>> PROVE Is(u, Front(p), "dir")
  <2>1. CASE p = place
    <3>1. Is(t, Front(p), "dir")
      BY <1>5, <2>1 DEF WellFormed
    <3>2. Front(p) # place
      BY <1>4, <1>5, <2>1, FrontIs
    <3> QED BY <1>1, <1>2, <3>1, <3>2 DEF Is
  <2>2. CASE p # place
    <3>1. p \in DOMAIN t /\ Is(t, Front(p), "dir")
      BY <1>1, <1>5, <2>2 DEF WellFormed
    <3>2. CASE Front(p) = place
      <4>1. p \in Children(t, place)
        BY <1>5, <3>1, <3>2 DEF Children
      <4> QED BY <1>1, <3>2, <4>1 DEF Is
    <3>3. CASE Front(p) # place
      BY <1>1, <1>2, <3>1, <3>3 DEF Is
    <3> QED BY <3>2, <3>3
  <2> QED BY <2>1, <2>2
<1> QED BY <1>4, <1>5

(* What is below a place can go. *)
LEMMA WithoutKeeps ==
  ASSUME NEW t, WellFormed(t), NEW gone,
         \A p \in DOMAIN t : (p # <<>> /\ Front(p) \in gone) => p \in gone
  PROVE  WellFormed(Without(t, gone))
<1> DEFINE u == Without(t, gone)
<1>1. DOMAIN u = DOMAIN t \ gone /\ \A p \in DOMAIN t \ gone : u[p] = t[p]
  BY DEF Without, Restrict
<1> HIDE DEF u
<1>6. IsFiniteSet(DOMAIN u)
  BY <1>1, FS_Subset DEF WellFormed
<1>2. SUFFICES ASSUME NEW p \in DOMAIN u
               PROVE  p \in Seq(Names) /\ IsNode(u[p]) /\ (p # <<>> => Is(u, Front(p), "dir"))
  BY <1>6 DEF WellFormed, u
<1>3. p \in DOMAIN t /\ p \notin gone /\ u[p] = t[p]
  BY <1>1
<1>4. p \in Seq(Names) /\ IsNode(u[p])
  BY <1>3 DEF WellFormed
<1>5. ASSUME p # <<>> PROVE Is(u, Front(p), "dir")
  <2>1. Is(t, Front(p), "dir") /\ Front(p) \notin gone
    BY <1>3, <1>5 DEF WellFormed
  <2> QED BY <1>1, <2>1 DEF Is
<1> QED BY <1>4, <1>5

LEMMA BelowIsClosed ==
  ASSUME NEW t, WellFormed(t), NEW place \in Seq(Names), NEW p \in DOMAIN t,
         p # <<>>, Front(p) \in Below(t, place)
  PROVE  p \in Below(t, place)
<1>1. p \in Seq(Names) /\ Front(p) \in Seq(Names) /\ IsPrefix(place, Front(p))
  BY FrontIs DEF WellFormed, Below
<1>2. IsPrefix(Front(p), p)
  BY <1>1, FrontIsPrefix
<1>3. IsPrefix(place, p)
  BY <1>1, <1>2, PrefixOfPrefix
<1> QED BY <1>3 DEF Below

LEMMA MkdirKeeps ==
  ASSUME NEW t, WellFormed(t), NEW place,
         place # NoPath => place \in Seq(Names) /\ Is(t, Front(place), "dir")
  PROVE  WellFormed(Mkdir(t, place))
<1>1. CASE place = NoPath \/ place \in DOMAIN t
  BY <1>1 DEF Mkdir
<1>2. CASE place # NoPath /\ place \notin DOMAIN t
  <2>1. IsNode(Dir) /\ Dir.kind = "dir"
    BY DEF IsNode, Dir
  <2>2. place \in Seq(Names) /\ Is(t, Front(place), "dir")
    BY <1>2 DEF Is
  <2>3. WellFormed(Put(t, place, Dir))
    BY <2>1, <2>2, PutKeeps
  <2> QED BY <1>2, <2>3 DEF Mkdir
<1> QED BY <1>1, <1>2

(* The trees create_dir_all makes one after the other. *)
MadeBy(made, t, base, names) ==
  /\ made[0] = t
  /\ \A k \in 1..Len(names) :
       made[k] = Mkdir(made[k - 1], EntryPlace(made[k - 1], base, TRUE, UpTo(names, k)))
  /\ \A k \in 0..Len(names) : WellFormed(made[k])
  /\ MkdirAll(t, base, names) = made[Len(names)]

LEMMA MkdirAllIs ==
  ASSUME NEW t, WellFormed(t), NEW base, NEW names \in Seq(Names)
  PROVE  \E made : MadeBy(made, t, base, names)
<1> DEFINE n == Len(names)
           V == {t[p] : p \in DOMAIN t} \cup {Dir}
           X == {u \in {t} \cup UNION {[D -> V] : D \in SUBSET Seq(Names)} :
                   WellFormed(u) /\ \A p \in DOMAIN u : u[p] \in V}
           Made(u, k) == Mkdir(u, EntryPlace(u, base, TRUE, UpTo(names, k)))
           Goes(f) == f = [k \in 0..n |-> IF k = 0 THEN t ELSE Made(f[k - 1], k)]
           step == [p \in (0..n) \X X |-> IF p[1] = 0 THEN t ELSE Made(p[2], p[1])]
           made == CHOOSE f : Goes(f)
<1>1. n \in Nat /\ t \in X
  OBVIOUS
<1>2. ASSUME NEW u \in X, NEW k \in 0..n
      PROVE  Made(u, k) \in X
  <2> DEFINE place == EntryPlace(u, base, TRUE, UpTo(names, k))
  <2>1. WellFormed(u) /\ \A p \in DOMAIN u : u[p] \in V
    OBVIOUS
  <2>2. UpTo(names, k) \in Seq(Names)
    BY UpToUpTo
  <2>3. place # NoPath => place \in Seq(Names) /\ Is(u, Front(place), "dir")
    BY <2>1, <2>2, EntryPlaceIs
  <2> HIDE DEF place
  <2>4. WellFormed(Mkdir(u, place))
    BY <2>1, <2>3, MkdirKeeps
  <2>5. CASE place = NoPath \/ place \in DOMAIN u
    BY <2>5 DEF Mkdir, place
  <2>6. CASE place # NoPath /\ place \notin DOMAIN u
    <3> DEFINE D == DOMAIN u \cup {place}
               v == Put(u, place, Dir)
    <3>1. Mkdir(u, place) = v
      BY <2>6 DEF Mkdir
    <3>2. D \in SUBSET Seq(Names)
      BY <2>1, <2>3, <2>6 DEF WellFormed
    <3>3. v \in [D -> V] /\ DOMAIN v = D /\ \A p \in D : v[p] \in V
      BY <2>1 DEF Put
    <3> HIDE DEF v, D, V
    <3>4. v \in X
      BY <2>4, <3>1, <3>2, <3>3
    <3> QED BY <3>1, <3>4 DEF place
  <2> QED BY <2>5, <2>6
<1>3. step \in [(0..n) \X X -> X]
  <2>1. ASSUME NEW p \in (0..n) \X X
        PROVE  (IF p[1] = 0 THEN t ELSE Made(p[2], p[1])) \in X
    <3>1. p[1] \in 0..n /\ p[2] \in X
      OBVIOUS
    <3> HIDE DEF X, Made, n
    <3> QED BY <1>1, <1>2, <3>1
  <2> HIDE DEF X, Made, n
  <2> QED BY <2>1
<1> HIDE DEF n, X, Made
<1>4. PICK f \in [0..n -> X] : Iterates(f, n, t, step)
  <2> HIDE DEF step
  <2> QED BY <1>1, <1>3, StepsTaken
<1>5. Goes(f)
  <2>1. ASSUME NEW k \in 1..n PROVE f[k] = Made(f[k - 1], k)
    <3>1. k \in 0..n /\ k - 1 \in 0..n /\ k # 0
      BY <1>1
    <3>2. f[k - 1] \in X /\ f[k] = step[<<k, f[k - 1]>>]
      BY <1>4, <3>1 DEF Iterates
    <3>3. <<k, f[k - 1]>> \in (0..n) \X X
      BY <3>1, <3>2
    <3> QED BY <3>1, <3>2, <3>3
  <2>2. f[0] = t
    BY <1>4 DEF Iterates
  <2>3. \A k \in 0..n : f[k] = IF k = 0 THEN t ELSE Made(f[k - 1], k)
    BY <1>1, <2>1, <2>2
  <2> QED BY <2>3
<1>6. Goes(made)
  <2> HIDE DEF Goes
  <2> QED BY <1>5
<1>7. made[0] = t /\ \A k \in 1..n : made[k] = Made(made[k - 1], k)
  <2> HIDE DEF made
  <2> QED BY <1>1, <1>6
<1> DEFINE T == {k \in 0..n : made[k] \in X}
<1> HIDE DEF made
<1>8. T = 0..n
  <2>1. 0 \in T /\ T \in SUBSET (0..n)
    BY <1>1, <1>7
  <2>2. ASSUME NEW k \in 0..n, k \in T, k < n PROVE k + 1 \in T
    <3>1. k + 1 \in 1..n /\ (k + 1) - 1 = k /\ k + 1 \in 0..n
      BY <1>1, <2>2
    <3>2. made[k + 1] = Made(made[k], k + 1)
      BY <1>7, <3>1
    <3> QED BY <1>2, <2>2, <3>1, <3>2
  <2>3. \A k \in 0..n : (k \in T /\ k < n) => k + 1 \in T
    BY <2>2
  <2> HIDE DEF T
  <2> QED BY <1>1, <2>1, <2>3, HandedOn, Zenon
<1>9. \A k \in 0..n : WellFormed(made[k])
  <2>1. \A k \in 0..n : made[k] \in X
    BY <1>8
  <2> QED BY <2>1 DEF X
<1>10. MkdirAll(t, base, names) = made[n]
  BY DEF MkdirAll, made, Goes, Made, n
<1>11. \A k \in 1..n :
         made[k] = Mkdir(made[k - 1], EntryPlace(made[k - 1], base, TRUE, UpTo(names, k)))
  BY <1>7 DEF Made
<1>12. MadeBy(made, t, base, names)
  BY <1>7, <1>9, <1>10, <1>11 DEF MadeBy, n
<1> QED BY <1>12

LEMMA MkdirAllKeeps ==
  ASSUME NEW t, WellFormed(t), NEW base, NEW names \in Seq(Names)
  PROVE  WellFormed(MkdirAll(t, base, names))
<1>1. PICK made : MadeBy(made, t, base, names)
  BY MkdirAllIs
<1>2. Len(names) \in 0..Len(names)
  OBVIOUS
<1> QED BY <1>1, <1>2 DEF MadeBy

(* A move keeps every entry in a directory. *)
LEMMA RenamedKeeps ==
  ASSUME NEW t, WellFormed(t), NEW from \in Seq(Names), NEW to \in Seq(Names),
         MayRename(t, from, to)
  PROVE  WellFormed(Renamed(t, from, to))
<1> DEFINE u == Renamed(t, from, to)
           moved == {to \o Suffix(p, from) : p \in Below(t, from)}
           kept == DOMAIN t \ (Below(t, from) \cup Below(t, to))
<1>1. /\ DOMAIN u = moved \cup kept
      /\ \A p \in moved : u[p] = t[from \o Suffix(p, to)]
      /\ \A p \in kept : p \notin moved => u[p] = t[p]
  BY DEF Renamed
<1>2. ASSUME NEW q \in Below(t, from)
      PROVE  LET p == to \o Suffix(q, from)
             IN /\ q \in DOMAIN t /\ q \in Seq(Names)
                /\ p \in moved /\ p \in Seq(Names) /\ IsPrefix(to, p) /\ u[p] = t[q]
  <2>1. q \in DOMAIN t /\ q \in Seq(Names) /\ IsPrefix(from, q)
    BY DEF Below, WellFormed
  <2>2. Suffix(q, from) \in Seq(Names) /\ q = from \o Suffix(q, from)
    BY <2>1, PrefixIs
  <2> DEFINE s == Suffix(q, from)
  <2> HIDE DEF s
  <2>3. to \o s \in Seq(Names) /\ IsPrefix(to, to \o s) /\ Suffix(to \o s, to) = s
    BY <2>2, JoinedIs DEF s
  <2>4. to \o s \in moved
    BY DEF s
  <2>5. u[to \o s] = t[from \o s]
    <3> HIDE DEF u, moved
    <3> QED BY <1>1, <2>3, <2>4
  <2> HIDE DEF u, moved
  <2> QED BY <2>1, <2>2, <2>3, <2>4, <2>5 DEF s
<1>3. \A p \in moved : \E q \in Below(t, from) : p = to \o Suffix(q, from)
  OBVIOUS
<1>4. \A p \in kept : p \in DOMAIN t /\ p \in Seq(Names) /\ ~IsPrefix(from, p) /\ ~IsPrefix(to, p)
  BY DEF WellFormed, Below
<1>5. \A p \in moved : p \in Seq(Names) /\ IsPrefix(to, p)
  BY <1>2, <1>3
<1>6. \A p \in kept : p \notin moved /\ u[p] = t[p]
  BY <1>1, <1>4, <1>5
<1>7. ASSUME NEW p \in DOMAIN t, ~IsPrefix(from, p), ~IsPrefix(to, p)
      PROVE  p \in kept
  BY <1>7 DEF Below
<1>11. IsFiniteSet(DOMAIN u)
  <2>1. IsFiniteSet(DOMAIN t) /\ Below(t, from) \subseteq DOMAIN t
    BY DEF WellFormed, Below
  <2>2. IsFiniteSet(Below(t, from))
    BY <2>1, FS_Subset
  <2>3. IsFiniteSet(moved)
    <3> DEFINE f == [p \in Below(t, from) |-> to \o Suffix(p, from)]
    <3>1. f \in Surjection(Below(t, from), moved)
      BY DEF Surjection
    <3> QED BY <2>2, <3>1, FS_Surjection
  <2>4. IsFiniteSet(kept)
    <3>1. kept \subseteq DOMAIN t
      OBVIOUS
    <3> HIDE DEF kept
    <3> QED BY <2>1, <3>1, FS_Subset
  <2> HIDE DEF u, moved, kept
  <2> QED BY <1>1, <2>3, <2>4, FS_Union
<1> HIDE DEF u, moved, kept
<1>8. SUFFICES ASSUME NEW p \in DOMAIN u
               PROVE  p \in Seq(Names) /\ IsNode(u[p]) /\ (p # <<>> => Is(u, Front(p), "dir"))
  BY <1>11 DEF WellFormed, u
<1>9. CASE p \in moved
  <2>1. PICK q \in Below(t, from) : p = to \o Suffix(q, from)
    BY <1>3, <1>9
  <2>2. q \in DOMAIN t /\ q \in Seq(Names) /\ p \in Seq(Names) /\ u[p] = t[q]
    BY <1>2, <2>1
  <2>3. IsNode(u[p])
    BY <2>2 DEF WellFormed
  <2>4. ASSUME p # <<>> PROVE Is(u, Front(p), "dir")
    <3>1. IsPrefix(from, q)
      BY DEF Below
    <3>2. CASE q = from
      <4>1. p = to
        <5>1. Suffix(q, from) \in Seq(Names) /\ from = from \o Suffix(q, from)
          BY <2>2, <3>1, <3>2, PrefixIs
        <5> DEFINE s == Suffix(q, from)
        <5> HIDE DEF s
        <5>2. s = <<>>
          BY <5>1 DEF s
        <5> QED BY <2>1, <5>2 DEF s
      <4>2. Is(t, Front(to), "dir") /\ ~(IsPrefix(from, to) /\ from # to)
        BY DEF MayRename, IsStrictPrefix
      <4>3. Front(to) \in Seq(Names) /\ IsPrefix(Front(to), to) /\ ~IsPrefix(to, Front(to))
        BY <2>4, <4>1, FrontIs, FrontIsPrefix
      <4>4. ~IsPrefix(from, Front(to))
        BY <4>2, <4>3, PrefixOfPrefix
      <4>5. Front(to) \in kept
        BY <1>7, <4>2, <4>3, <4>4 DEF Is
      <4> QED BY <1>1, <1>6, <4>1, <4>2, <4>5 DEF Is
    <3>3. CASE q # from
      <4>1. q # <<>> /\ IsPrefix(from, Front(q))
        BY <2>2, <3>1, <3>3, StrictPrefix
      <4>2. Is(t, Front(q), "dir")
        BY <2>2, <4>1 DEF WellFormed
      <4>3. Front(q) \in Below(t, from)
        BY <4>1, <4>2 DEF Below, Is
      <4>4. Front(p) = to \o Suffix(Front(q), from)
        <5> DEFINE s == Suffix(q, from)
        <5>1. s \in Seq(Names) /\ q = from \o s
          BY <2>2, <3>1, PrefixIs
        <5> HIDE DEF s
        <5>2. s # <<>>
          BY <3>3, <5>1
        <5>3. Front(q) = from \o Front(s) /\ Front(p) = to \o Front(s) /\ Front(s) \in Seq(Names)
          <6>1. p = to \o s
            BY <2>1 DEF s
          <6>2. Front(s) \in Seq(Names)
            BY <5>1, FrontIs
          <6>3. Front(from \o s) = from \o Front(s) /\ Front(to \o s) = to \o Front(s)
            BY <5>1, <5>2, JoinedIs
          <6> QED BY <5>1, <6>1, <6>2, <6>3, Zenon
        <5>4. Suffix(Front(q), from) = Front(s)
          BY <5>3, JoinedIs
        <5> QED BY <5>3, <5>4
      <4>5. Front(p) \in moved /\ u[Front(p)] = t[Front(q)]
        BY <1>2, <4>3, <4>4
      <4> QED BY <1>1, <4>2, <4>5 DEF Is
    <3> QED BY <3>2, <3>3
  <2> QED BY <2>2, <2>3, <2>4
<1>10. CASE p \in kept
  <2>1. /\ p \in DOMAIN t /\ p \in Seq(Names) /\ ~IsPrefix(from, p) /\ ~IsPrefix(to, p)
        /\ u[p] = t[p]
    BY <1>4, <1>6, <1>10
  <2>2. IsNode(u[p])
    BY <2>1 DEF WellFormed
  <2>3. ASSUME p # <<>> PROVE Is(u, Front(p), "dir")
    <3>1. Is(t, Front(p), "dir")
      BY <2>1, <2>3 DEF WellFormed
    <3>2. Front(p) \in Seq(Names) /\ IsPrefix(Front(p), p)
      BY <2>1, FrontIs, FrontIsPrefix
    <3>3. ~IsPrefix(from, Front(p)) /\ ~IsPrefix(to, Front(p))
      BY <2>1, <3>2, PrefixOfPrefix
    <3>4. Front(p) \in kept
      BY <1>7, <3>1, <3>3 DEF Is
    <3> QED BY <1>1, <1>6, <3>1, <3>4 DEF Is
  <2> QED BY <2>1, <2>2, <2>3
<1> QED BY <1>1, <1>9, <1>10

-----------------------------------------------------------------------------
(***************************************************************************)
(* The paths of a request.                                                 *)
(***************************************************************************)

(* normalize_path takes . and .. out. *)
LEMMA NormalIs ==
  ASSUME NEW names \in Seq(Parts)
  PROVE  Normal(names) \in Seq(Names)
<1> DEFINE n == Len(names)
           X == Seq(Names)
           Goes(f) == f = [k \in 0..n |-> IF k = 0 THEN <<>> ELSE WithName(f[k - 1], names[k])]
           step == [p \in (0..n) \X X |-> IF p[1] = 0 THEN <<>> ELSE WithName(p[2], names[p[1]])]
           done == CHOOSE f : Goes(f)
<1>1. n \in Nat /\ <<>> \in X
  OBVIOUS
<1>2. ASSUME NEW path \in X, NEW k \in 1..n PROVE WithName(path, names[k]) \in X
  <2>1. names[k] \in Parts
    OBVIOUS
  <2>2. CASE names[k] = ".."
    <3>1. Front(path) \in Seq(Names)
      BY FrontIs
    <3> QED BY <2>2, <3>1 DEF WithName
  <2>3. CASE names[k] = "."
    BY <2>3 DEF WithName
  <2>4. CASE names[k] # "." /\ names[k] # ".."
    <3>1. WithName(path, names[k]) = Append(path, names[k])
      BY <2>4 DEF WithName
    <3>2. names[k] \in Names
      BY <2>1, <2>4 DEF Parts
    <3> QED BY <3>1, <3>2, FrontOfAppend
  <2> QED BY <2>2, <2>3, <2>4
<1> HIDE DEF X
<1>3. step \in [(0..n) \X X -> X]
  <2>1. ASSUME NEW p \in (0..n) \X X
        PROVE  (IF p[1] = 0 THEN <<>> ELSE WithName(p[2], names[p[1]])) \in X
    <3>1. p[1] \in 0..n /\ p[2] \in X
      OBVIOUS
    <3> HIDE DEF n
    <3>2. CASE p[1] = 0
      BY <1>1, <3>2
    <3>3. CASE p[1] # 0
      <4>1. p[1] \in 1..n
        BY <1>1, <3>1, <3>3
      <4> QED BY <1>2, <3>1, <3>3, <4>1
    <3> QED BY <3>2, <3>3
  <2> QED BY <2>1
<1> HIDE DEF n
<1>4. PICK f \in [0..n -> X] : Iterates(f, n, <<>>, step)
  <2> HIDE DEF step
  <2> QED BY <1>1, <1>3, StepsTaken
<1>5. Goes(f)
  <2>1. ASSUME NEW k \in 1..n PROVE f[k] = WithName(f[k - 1], names[k])
    <3>1. k \in 0..n /\ k - 1 \in 0..n /\ k # 0
      BY <1>1
    <3>2. f[k - 1] \in X /\ f[k] = step[<<k, f[k - 1]>>]
      BY <1>4, <3>1 DEF Iterates
    <3>3. <<k, f[k - 1]>> \in (0..n) \X X
      BY <3>1, <3>2
    <3> QED BY <3>1, <3>2, <3>3
  <2>2. f[0] = <<>>
    BY <1>4 DEF Iterates
  <2>3. \A k \in 0..n : f[k] = IF k = 0 THEN <<>> ELSE WithName(f[k - 1], names[k])
    BY <1>1, <2>1, <2>2
  <2> QED BY <2>3
<1>6. Goes(done)
  <2> HIDE DEF Goes
  <2> QED BY <1>5
<1>7. done[0] = <<>> /\ \A k \in 1..n : done[k] = WithName(done[k - 1], names[k])
  <2> HIDE DEF done
  <2> QED BY <1>1, <1>6
<1> DEFINE T == {k \in 0..n : done[k] \in X}
<1> HIDE DEF done
<1>8. T = 0..n
  <2>1. 0 \in T /\ T \in SUBSET (0..n)
    BY <1>1, <1>7
  <2>2. ASSUME NEW k \in 0..n, k \in T, k < n PROVE k + 1 \in T
    <3>1. k + 1 \in 1..n /\ (k + 1) - 1 = k /\ k + 1 \in 0..n
      BY <1>1, <2>2
    <3>2. done[k + 1] = WithName(done[k], names[k + 1])
      BY <1>7, <3>1
    <3> QED BY <1>2, <2>2, <3>1, <3>2
  <2>3. \A k \in 0..n : (k \in T /\ k < n) => k + 1 \in T
    BY <2>2
  <2> HIDE DEF T
  <2> QED BY <1>1, <2>1, <2>3, HandedOn, Zenon
<1>9. done[n] \in X
  <2>1. n \in T
    <3> HIDE DEF T
    <3> QED BY <1>1, <1>8
  <2> QED BY <2>1
<1>10. Normal(names) = done[n]
  BY DEF Normal, done, Goes, n
<1> QED BY <1>9, <1>10 DEF X

LEMMA NormalOfNamed ==
  ASSUME NEW path \in Named
  PROVE  ToAbs(path) \in Seq(Parts) /\ Normal(ToAbs(path)) \in Seq(Names)
<1>1. path.names \in Seq(Parts) /\ Cwd \in Seq(Parts)
  BY PathsHaveNames, NamesAssumption DEF Parts
<1>2. ToAbs(path) \in Seq(Parts)
  BY <1>1, Joined DEF ToAbs
<1> QED BY <1>2, NormalIs

-----------------------------------------------------------------------------
(***************************************************************************)
(* The inductive invariant: how far a call is tells how many of its paths  *)
(* are resolved and that the handles are open; the handles are on the      *)
(* allowed directories, by name, for as long as the server runs; and the   *)
(* path an undisturbed call is about to resolve still has no link on it.   *)
(***************************************************************************)

(* A model value that stands for the handles is not a table of them. *)
Opaque == \A D, V : Unopened \notin [D -> V]

Resolved == [canonical : Seq(Names), root : Seq(Names)]

(* What a call is at a stage, whatever the others do. *)
Shape(e, c) ==
  /\ {"req", "pc", "got"} \subseteq DOMAIN e
  /\ e.req \in Requests[c]
  /\ e.got \in Seq(Resolved)
  /\ Len(e.got) <= Len(e.req.paths)
  /\ e.pc \in {"open", "check", "canon"} => Len(e.got) < Len(e.req.paths)
  /\ e.pc \in {"open", "scan"} => e.got = <<>>
  /\ e.pc \in {"run", "remove", "read", "apply"} => e.got # <<>>
  /\ e.pc = "apply" => e.src \in Seq(Names) /\ e.dst \in Seq(Names)

Straight(c) == ~config.follow /\ alone[c]

Accepted(c, i) ==
  LET r == call[c].got[i]
  IN /\ r.root \in trie.ends \cap DOMAIN roots
     /\ IsPrefix(r.root, r.canonical)
     /\ Straight(c) => r.canonical = Normal(ToAbs(call[c].req.paths[i]))

Rooted(e) == NoPath \notin {RootFor(e.src), RootFor(e.dst)}

CallOK(c) ==
  Live(c) =>
    /\ Shape(call[c], c)
    /\ call[c].pc \notin {"open", "scan"} => roots # Unopened
    /\ \A i \in 1..Len(call[c].got) : Accepted(c, i)
    /\ (Straight(c) /\ call[c].pc = "canon") => ~HasLink(tree, NextPath(c))
    /\ call[c].pc = "apply" => Rooted(call[c])

RootsOK ==
  \/ roots \in {Unopened, Aborted}
  \/ /\ DOMAIN roots \subseteq Seq(Names)
     /\ \A r \in DOMAIN roots : roots[r] = NoPath \/ Is(tree, roots[r], "dir")

IInv ==
  /\ TrieIsBuilt
  /\ WellFormed(tree) /\ RootsOK
  /\ changes \in 0..MaxChanges
  /\ DOMAIN call = Calls
  /\ \A c \in Calls : CallOK(c)

LEMMA LenIs ==
  ASSUME NEW S, NEW s \in Seq(S)
  PROVE  Len(s) \in Nat /\ (s = <<>> <=> Len(s) = 0)
OBVIOUS

LEMMA AtMost ==
  ASSUME NEW a \in Nat, NEW b \in 0..2, a <= b
  PROVE  a \in 0..2 /\ a <= 2
OBVIOUS

(* Every request has a path that can be made absolute for each place in    *)
(* its list.                                                               *)
LEMMA PathsOf ==
  ASSUME NEW c \in Calls, NEW r \in Requests[c]
  PROVE  /\ r.paths \in Seq(Named) /\ Len(r.paths) \in 0..2
         /\ \A i \in 1..Len(r.paths) : Normal(ToAbs(r.paths[i])) \in Seq(Names)
         /\ r.tool # "resources/list" => r.paths # <<>>
         /\ r.tool \in TwoPathTools => Len(r.paths) = 2
         /\ (r.tool \notin TwoPathTools /\ r.tool # "resources/list") => Len(r.paths) = 1
<1> DEFINE n == Len(r.paths)
<1>a. /\ r.paths \in Seq(Named)
      /\ n = CASE r.tool \in TwoPathTools -> 2
               [] r.tool = "resources/list" -> 0
               [] OTHER -> 1
  BY RequestsAssumption, Zenon
<1> HIDE DEF n
<1>b. "resources/list" \notin TwoPathTools
  BY DEF TwoPathTools
<1>c. /\ r.tool \in TwoPathTools => n = 2
      /\ r.tool = "resources/list" => n = 0
      /\ (r.tool \notin TwoPathTools /\ r.tool # "resources/list") => n = 1
  BY <1>a, <1>b
<1>1. /\ r.paths \in Seq(Named)
      /\ r.tool # "resources/list" => r.paths # <<>>
      /\ r.tool \in TwoPathTools => Len(r.paths) = 2
      /\ (r.tool \notin TwoPathTools /\ r.tool # "resources/list") => Len(r.paths) = 1
  <2>1. r.tool # "resources/list" => n # 0
    BY <1>c
  <2>2. r.paths = <<>> <=> n = 0
    BY <1>a, LenIs DEF n
  <2> QED BY <1>a, <1>c, <2>1, <2>2 DEF n
<1>2. Len(r.paths) \in 0..2
  <2>1. n \in 0..2
    BY <1>c
  <2> QED BY <2>1 DEF n
<1>3. ASSUME NEW i \in 1..Len(r.paths)
      PROVE  Normal(ToAbs(r.paths[i])) \in Seq(Names)
  <2>1. r.paths[i] \in Named
    BY <1>1
  <2> QED BY <2>1, NormalOfNamed
<1> QED BY <1>1, <1>2, <1>3

LEMMA InvariantHolds == IInv => TypeOK /\ AcceptedIsCanonical
<1> SUFFICES ASSUME IInv PROVE TypeOK /\ AcceptedIsCanonical
  OBVIOUS
<1>1. ASSUME NEW c \in Calls, Live(c)
      PROVE  call[c].req \in Requests[c] /\ Len(call[c].got) <= 2
  <2>1. /\ call[c].req \in Requests[c] /\ call[c].got \in Seq(Resolved)
        /\ Len(call[c].got) <= Len(call[c].req.paths)
    BY <1>1 DEF IInv, CallOK, Shape
  <2>2. Len(call[c].req.paths) \in 0..2
    BY <2>1, PathsOf
  <2>3. Len(call[c].got) \in Nat
    BY <2>1, LenIs
  <2>4. Len(call[c].got) <= Len(call[c].req.paths)
    BY <2>1, Zenon
  <2>5. Len(call[c].got) <= 2
    BY <2>2, <2>3, <2>4, AtMost
  <2> QED BY <2>1, <2>5, Zenon
<1>2. TypeOK
  BY <1>1 DEF IInv, RootsOK, TypeOK
<1>3. AcceptedIsCanonical
  <2>1. \A c \in Calls : Live(c) => \A i \in 1..Len(call[c].got) : Accepted(c, i)
    BY DEF IInv, CallOK
  <2> QED BY <2>1, Zenon DEF AcceptedIsCanonical, Accepted, Straight
<1> QED BY <1>2, <1>3

LEMMA InvariantStarts == Init => IInv
<1> SUFFICES ASSUME Init PROVE IInv
  OBVIOUS
<1>1. TrieIsBuilt
  BY DEF Init, TrieIsBuilt, BuildAllowedTrie, TrieOf
<1>2. WellFormed(tree)
  BY TreesAssumption DEF Init
<1>3. RootsOK /\ changes \in 0..MaxChanges /\ DOMAIN call = Calls
  BY BoundsAssumption DEF Init, RootsOK
<1>4. \A c \in Calls : CallOK(c)
  <2>1. \A c \in Calls : call[c].pc = "idle"
    BY DEF Init, Idle
  <2> QED BY <2>1 DEF CallOK, Live
<1> QED BY <1>1, <1>2, <1>3, <1>4 DEF IInv

-----------------------------------------------------------------------------
(***************************************************************************)
(* What a step does to the tree and the handles.                           *)
(***************************************************************************)

(* The tree stays one, the handles stay on directories, and once they are  *)
(* open they stay open, on the same roots.                                 *)
Settled ==
  /\ WellFormed(tree') /\ RootsOK'
  /\ roots # Unopened => roots' # Unopened /\ DOMAIN roots' = DOMAIN roots

LEMMA SameSettles ==
  ASSUME WellFormed(tree), RootsOK, Same
  PROVE  Settled
BY DEF Settled, Same, RootsOK, Is

LEMMA BecomesSettles ==
  ASSUME Opaque, RootsOK, NEW t, WellFormed(t), Becomes(t)
  PROVE  Settled
<1>1. tree' = t /\ roots' = Handles(t, Unmoved)
  BY DEF Becomes
<1>2. CASE roots \in {Unopened, Aborted}
  <2>1. roots' = roots
    BY <1>1, <1>2 DEF Handles
  <2> QED BY <1>1, <1>2, <2>1 DEF Settled, RootsOK
<1>3. CASE roots \notin {Unopened, Aborted}
  <2> DEFINE h == [r \in DOMAIN roots |->
                     IF roots[r] = NoPath \/ ~Is(t, roots[r], "dir") THEN NoPath ELSE roots[r]]
  <2>1. roots' = h
    BY <1>1, <1>3 DEF Handles, Unmoved
  <2>2. h # Unopened
    <3> DEFINE D == DOMAIN h
               V == {h[r] : r \in DOMAIN h}
    <3>1. h \in [D -> V]
      OBVIOUS
    <3> HIDE DEF h, D, V
    <3> QED BY <3>1, Zenon DEF Opaque
  <2>3. DOMAIN h = DOMAIN roots /\ \A r \in DOMAIN h : h[r] = NoPath \/ Is(t, h[r], "dir")
    OBVIOUS
  <2> HIDE DEF h
  <2> QED BY <1>1, <1>3, <2>1, <2>2, <2>3 DEF Settled, RootsOK
<1> QED BY <1>2, <1>3

LEMMA RenamesSettles ==
  ASSUME Opaque, WellFormed(tree), RootsOK, NEW from \in Seq(Names), NEW to \in Seq(Names),
         MayRename(tree, from, to), Renames(from, to)
  PROVE  Settled
<1> DEFINE Where(path) == IF IsPrefix(to, path) /\ from # to THEN NoPath ELSE Moved(path, from, to)
<1>1. WellFormed(tree')
  BY RenamedKeeps DEF Renames
<1>2. CASE roots \in {Unopened, Aborted}
  <2>1. roots' = roots
    BY <1>2 DEF Renames, Handles
  <2> QED BY <1>1, <1>2, <2>1 DEF Settled, RootsOK
<1>3. CASE roots \notin {Unopened, Aborted}
  <2> DEFINE h == [r \in DOMAIN roots |->
                     IF roots[r] = NoPath \/ ~Is(tree', Where(roots[r]), "dir")
                       THEN NoPath ELSE Where(roots[r])]
  <2>1. roots' = h
    BY <1>3 DEF Renames, Handles
  <2> HIDE DEF Where
  <2>2. h # Unopened
    <3> DEFINE D == DOMAIN h
               V == {h[r] : r \in DOMAIN h}
    <3>1. h \in [D -> V]
      OBVIOUS
    <3> HIDE DEF h, D, V
    <3> QED BY <3>1, Zenon DEF Opaque
  <2>3. DOMAIN h = DOMAIN roots /\ \A r \in DOMAIN h : h[r] = NoPath \/ Is(tree', h[r], "dir")
    OBVIOUS
  <2> HIDE DEF h
  <2> QED BY <1>1, <1>3, <2>1, <2>2, <2>3 DEF Settled, RootsOK
<1> QED BY <1>2, <1>3

-----------------------------------------------------------------------------
(***************************************************************************)
(* What a step does to the calls.                                          *)
(***************************************************************************)

(* No other call is changed. *)
Moves(c) == DOMAIN call' = Calls /\ \A d \in Calls \ {c} : call'[d] = call[d]

Ends(c) == Moves(c) /\ call'[c].pc = "done"

LEMMA StepsIs ==
  ASSUME DOMAIN call = Calls, NEW c \in Calls, NEW fields, Steps(c, fields)
  PROVE  /\ Moves(c)
         /\ DOMAIN call'[c] = DOMAIN call[c] \cup DOMAIN fields
         /\ \A f \in DOMAIN fields : call'[c][f] = fields[f]
         /\ \A f \in DOMAIN call[c] \ DOMAIN fields : call'[c][f] = call[c][f]
<1>1. Moves(c) /\ call'[c] = With(call[c], fields)
  BY DEF Steps, Moves
<1>2. /\ DOMAIN With(call[c], fields) = DOMAIN call[c] \cup DOMAIN fields
      /\ \A f \in DOMAIN fields : With(call[c], fields)[f] = fields[f]
      /\ \A f \in DOMAIN call[c] \ DOMAIN fields : With(call[c], fields)[f] = call[c][f]
  BY DEF With
<1> QED BY <1>1, <1>2, Zenon

LEMMA AnswersIs ==
  ASSUME DOMAIN call = Calls, NEW c \in Calls, NEW answer, Answers(c, answer),
         "pc" \notin DOMAIN answer
  PROVE  Ends(c)
<1> DEFINE rest == [req |-> call[c].req, pc |-> "done", got |-> call[c].got]
<1>1. Moves(c) /\ call'[c] = With(rest, answer)
  BY DEF Answers, Moves
<1>2. "pc" \in DOMAIN rest /\ rest["pc"] = "done"
  OBVIOUS
<1> HIDE DEF rest
<1>3. With(rest, answer)["pc"] = "done"
  BY <1>2 DEF With
<1> QED BY <1>1, <1>3 DEF Ends

LEMMA FailsIs ==
  ASSUME DOMAIN call = Calls, NEW c \in Calls, Fails(c) \/ Succeeds(c)
  PROVE  Ends(c)
<1>1. "pc" \notin DOMAIN [ok |-> FALSE] /\ "pc" \notin DOMAIN [ok |-> TRUE]
  OBVIOUS
<1>2. CASE Fails(c)
  BY <1>1, <1>2, AnswersIs DEF Fails
<1>3. CASE Succeeds(c)
  BY <1>1, <1>3, AnswersIs DEF Succeeds
<1> QED BY <1>2, <1>3

(* A call that goes on to another stage with what it has resolved. *)
LEMMA StageIs ==
  ASSUME NEW c \in Calls, CallOK(c), Live(c),
         config' = config, trie' = trie, tree' = tree, alone'[c] => alone[c],
         NEW fields, "req" \notin DOMAIN fields, "got" \notin DOMAIN fields,
         DOMAIN call = Calls, Steps(c, fields),
         DOMAIN roots' = DOMAIN roots \/ call[c].got = <<>>,
         Live(c)' => Shape(call'[c], c),
         call'[c].pc \notin {"open", "scan"} => roots' # Unopened,
         call'[c].pc = "canon" /\ Straight(c) => ~HasLink(tree, NextPath(c)),
         call'[c].pc = "apply" => Rooted(call'[c])
  PROVE  CallOK(c)'
<1>1. {"req", "pc", "got"} \subseteq DOMAIN call[c]
  BY DEF CallOK, Shape
<1>2. call'[c]["req"] = call[c]["req"] /\ call'[c]["got"] = call[c]["got"]
  BY <1>1, StepsIs
<1>3. call'[c].req = call[c].req /\ call'[c].got = call[c].got
  BY <1>2
<1>4. Straight(c)' => Straight(c)
  BY DEF Straight
<1>5. ASSUME NEW i \in 1..Len(call[c].got) PROVE Accepted(c, i)'
  <2>1. Accepted(c, i)
    BY DEF CallOK
  <2>2. CASE DOMAIN roots' = DOMAIN roots
    BY <1>3, <1>4, <2>1, <2>2 DEF Accepted
  <2>3. CASE call[c].got = <<>>
    BY <2>3
  <2> QED BY <2>2, <2>3
<1>6. NextPath(c)' = NextPath(c)
  BY <1>3 DEF NextPath
<1>7. \A i \in 1..Len(call'[c].got) : Accepted(c, i)'
  BY <1>3, <1>5
<1>8. (Straight(c)' /\ call'[c].pc = "canon") => ~HasLink(tree', NextPath(c)')
  BY <1>4, <1>6
<1>9. call'[c].pc = "apply" => Rooted(call[c])'
  BY DEF Rooted, RootFor
<1> QED BY <1>7, <1>8, <1>9 DEF CallOK

(* A step of others leaves a call as it is. *)
LEMMA OthersKeep ==
  ASSUME IInv, Settled, config' = config, trie' = trie,
         NEW d \in Calls, call'[d] = call[d],
         (Live(d) /\ alone'[d]) => alone[d] /\ tree' = tree
  PROVE  CallOK(d)'
<1>1. call'[d] = call[d] /\ CallOK(d)
  BY DEF IInv
<1>2. SUFFICES ASSUME Live(d) PROVE CallOK(d)'
  BY <1>1 DEF CallOK, Live
<1>3. Shape(call[d], d)
  BY <1>1, <1>2 DEF CallOK
<1>4. Straight(d)' => Straight(d) /\ tree' = tree
  BY <1>2 DEF Straight
<1>5. call[d].pc \notin {"open", "scan"} =>
        roots # Unopened /\ roots' # Unopened /\ DOMAIN roots' = DOMAIN roots
  BY <1>1, <1>2 DEF CallOK, Settled
<1>6. ASSUME NEW i \in 1..Len(call[d].got) PROVE Accepted(d, i)'
  <2>1. Accepted(d, i)
    BY <1>1, <1>2 DEF CallOK
  <2>2. CASE call[d].pc \notin {"open", "scan"}
    BY <1>1, <1>4, <1>5, <2>1, <2>2 DEF Accepted
  <2>3. CASE call[d].pc \in {"open", "scan"}
    <3>1. call[d].got = <<>>
      BY <1>3, <2>3 DEF Shape
    <3> QED BY <3>1
  <2> QED BY <2>2, <2>3
<1>7. \A i \in 1..Len(call'[d].got) : Accepted(d, i)'
  BY <1>1, <1>6
<1>8. NextPath(d)' = NextPath(d)
  BY <1>1 DEF NextPath
<1>9. (Straight(d)' /\ call'[d].pc = "canon") => ~HasLink(tree', NextPath(d)')
  BY <1>1, <1>2, <1>4, <1>8 DEF CallOK
<1>10. call'[d].pc = "apply" => Rooted(call[d])'
  BY <1>1, <1>2 DEF CallOK, Rooted, RootFor
<1> QED BY <1>1, <1>3, <1>5, <1>7, <1>9, <1>10 DEF CallOK

LEMMA AloneIs ==
  ASSUME NEW actors, Disturbs(actors), NEW d \in Calls, Live(d), alone'[d]
  PROVE  alone[d] /\ (d \in actors \/ (tree' = tree /\ roots' = roots))
BY DEF Disturbs

-----------------------------------------------------------------------------
(***************************************************************************)
(* The actions.                                                            *)
(***************************************************************************)

(* What an action of call c must show: OthersKeep does the rest.           *)
Kept(c) == Settled /\ Moves(c) /\ (call'[c].pc = "done" \/ CallOK(c)')

(* What is known when a call that is on its way takes a step. *)
Running(c) ==
  /\ c \in Calls /\ Live(c)
  /\ config' = config /\ trie' = trie
  /\ alone'[c] => alone[c]

LEMMA RunningHas ==
  ASSUME IInv, NEW c, Running(c)
  PROVE  /\ c \in Calls /\ DOMAIN call = Calls /\ CallOK(c) /\ Shape(call[c], c)
         /\ WellFormed(tree) /\ RootsOK
         /\ call[c].got \in Seq(Resolved) /\ Len(call[c].got) \in Nat
         /\ {"req", "pc", "got"} \subseteq DOMAIN call[c]
         /\ call[c].req.paths \in Seq(Named)
<1>1. c \in Calls /\ CallOK(c) /\ Shape(call[c], c)
  BY DEF IInv, Running, CallOK
<1>2. call[c].req \in Requests[c] /\ call[c].got \in Seq(Resolved)
  BY <1>1 DEF Shape
<1>3. Len(call[c].got) \in Nat
  BY <1>2, LenIs
<1>4. call[c].req.paths \in Seq(Named)
  BY <1>1, <1>2, PathsOf
<1> QED BY <1>1, <1>2, <1>3, <1>4 DEF IInv, Shape

LEMMA StartKeeps ==
  ASSUME IInv, NEW c \in Calls, NEW r \in Requests[c], Start(c, r)
  PROVE  Kept(c)
<1>1. Settled
  BY SameSettles DEF Start, IInv
<1> DEFINE pc == IF r.tool = "resources/list" THEN "scan" ELSE "open"
           e == [req |-> r, pc |-> pc, got |-> <<>>, cursor |-> 0, seen |-> <<>>]
<1>2. Moves(c) /\ call'[c] = e
  BY DEF Start, Moves, IInv
<1>3. /\ DOMAIN e = {"req", "pc", "got", "cursor", "seen"}
      /\ e.req = r /\ e.pc = pc /\ e.got = <<>> /\ pc \in {"open", "scan"}
  OBVIOUS
<1>4. pc = "open" => Len(<<>>) < Len(r.paths)
  <2>1. ASSUME pc = "open" PROVE r.paths # <<>>
    <3>1. r.tool # "resources/list"
      BY <2>1
    <3> QED BY <3>1, PathsOf
  <2>2. r.paths \in Seq(Named) /\ Len(r.paths) \in Nat
    <3>1. r.paths \in Seq(Named)
      BY PathsOf
    <3> QED BY <3>1, LenIs
  <2>3. r.paths # <<>> => Len(r.paths) # 0
    BY <2>2, LenIs
  <2> DEFINE n == Len(r.paths)
  <2>4. n \in Nat /\ (pc = "open" => n # 0)
    BY <2>1, <2>2, <2>3
  <2>5. Len(<<>>) = 0
    OBVIOUS
  <2> HIDE DEF n, pc
  <2>6. pc = "open" => 0 < n
    BY <2>4
  <2> QED BY <2>5, <2>6 DEF n
<1>5. <<>> \in Seq(Resolved) /\ Len(<<>>) <= Len(r.paths)
  <2>1. r.paths \in Seq(Named)
    BY PathsOf
  <2>2. Len(r.paths) \in Nat /\ Len(<<>>) = 0
    BY <2>1, LenIs
  <2> DEFINE n == Len(r.paths)
  <2> HIDE DEF n
  <2>3. 0 <= n
    BY <2>2 DEF n
  <2> QED BY <2>2, <2>3 DEF n
<1> HIDE DEF e, pc
<1>6. Shape(e, c)
  BY <1>3, <1>4, <1>5 DEF Shape
<1>7. CallOK(c)'
  <2>1. call'[c].pc \in {"open", "scan"} /\ call'[c].got = <<>>
    BY <1>2, <1>3
  <2>2. \A i \in 1..Len(call'[c].got) : Accepted(c, i)'
    BY <2>1
  <2>3. Shape(call'[c], c)
    BY <1>2, <1>6
  <2> QED BY <2>1, <2>2, <2>3 DEF CallOK
<1> QED BY <1>1, <1>2, <1>7 DEF Kept

(* Opening the roots, at the first use. *)
LEMMA OpenKeeps ==
  ASSUME Opaque, IInv, NEW c, Running(c), Open(c)
  PROVE  Kept(c)
<1>1. /\ c \in Calls /\ DOMAIN call = Calls /\ CallOK(c) /\ Shape(call[c], c)
      /\ WellFormed(tree) /\ RootsOK
      /\ {"req", "pc", "got"} \subseteq DOMAIN call[c]
  BY RunningHas
<1> DEFINE opened == {RealPath(tree, ToAbs(path)) : path \in Range(config.dirs)}
           h == [root \in opened |-> root]
<1>2. call[c].pc = "open" /\ tree' = tree /\ Steps(c, [pc |-> "check"])
  BY DEF Open
<1>3. Settled /\ roots' # Unopened
  <2>1. CASE roots # Unopened
    <3>1. roots' = roots
      BY <2>1 DEF Open
    <3>2. Same
      BY <1>2, <3>1 DEF Same
    <3> QED BY <1>1, <2>1, <3>1, <3>2, SameSettles
  <2>2. CASE roots = Unopened
    <3>1. roots' = IF \A root \in opened : Is(tree, root, "dir") THEN h ELSE Aborted
      BY <2>2 DEF Open
    <3>2. h # Unopened
      <4>1. h \in [opened -> opened]
        OBVIOUS
      <4> HIDE DEF h, opened
      <4> QED BY <4>1, Zenon DEF Opaque
    <3>3. CASE \A root \in opened : Is(tree, root, "dir")
      <4>1. roots' = h
        BY <3>1, <3>3
      <4>2. DOMAIN h = opened /\ \A r \in DOMAIN h : h[r] = r
        OBVIOUS
      <4> HIDE DEF h, opened
      <4>3. DOMAIN h \subseteq Seq(Names) /\ \A r \in DOMAIN h : Is(tree', h[r], "dir")
        BY <1>1, <1>2, <3>3, <4>2 DEF WellFormed, Is
      <4> QED BY <1>1, <1>2, <2>2, <3>2, <4>1, <4>3 DEF Settled, RootsOK
    <3>4. CASE ~(\A root \in opened : Is(tree, root, "dir"))
      <4>1. roots' = Aborted
        BY <3>1, <3>4
      <4> QED BY <1>1, <1>2, <2>2, <4>1, BoundsAssumption DEF Settled, RootsOK
    <3> QED BY <3>3, <3>4
  <2> QED BY <2>1, <2>2
<1> DEFINE fields == [pc |-> "check"]
<1>4. DOMAIN fields = {"pc"} /\ fields["pc"] = "check"
  OBVIOUS
<1>5. Steps(c, fields)
  BY <1>2
<1> HIDE DEF fields, h, opened
<1>6. /\ Moves(c) /\ call'[c]["pc"] = "check"
      /\ DOMAIN call'[c] = DOMAIN call[c] \cup DOMAIN fields
      /\ call'[c]["req"] = call[c]["req"] /\ call'[c]["got"] = call[c]["got"]
  BY <1>1, <1>4, <1>5, StepsIs
<1>7. call'[c].pc = "check" /\ call'[c].req = call[c].req /\ call'[c].got = call[c].got
  BY <1>6
<1>8. Shape(call'[c], c)
  BY <1>1, <1>2, <1>6, <1>7 DEF Shape
<1>9. CallOK(c)'
  <2>1. call[c].got = <<>>
    BY <1>1, <1>2 DEF Shape
  <2>2. "req" \notin DOMAIN fields /\ "got" \notin DOMAIN fields
    BY <1>4
  <2>3. Live(c) /\ config' = config /\ trie' = trie /\ (alone'[c] => alone[c])
    BY DEF Running
  <2>4. call'[c].pc \notin {"canon", "apply"}
    BY <1>7
  <2> QED BY <1>1, <1>2, <1>3, <1>5, <1>8, <2>1, <2>2, <2>3, <2>4, StageIs
<1> QED BY <1>3, <1>6, <1>9 DEF Kept

LEMMA EndKeeps ==
  ASSUME NEW c, Settled, Ends(c)
  PROVE  Kept(c)
BY DEF Kept, Ends

LEMMA CheckLinksKeeps ==
  ASSUME IInv, NEW c, Running(c), CheckLinks(c)
  PROVE  Kept(c)
<1>1. /\ c \in Calls /\ DOMAIN call = Calls /\ CallOK(c) /\ Shape(call[c], c)
      /\ WellFormed(tree) /\ RootsOK
      /\ {"req", "pc", "got"} \subseteq DOMAIN call[c]
  BY RunningHas
<1>2. Live(c) /\ call[c].pc = "check" /\ Same
  BY DEF CheckLinks
<1>3. Settled
  BY <1>1, <1>2, SameSettles
<1>4. CASE ~config.follow /\ HasLink(tree, NextPath(c))
  <2>1. Fails(c)
    BY <1>4 DEF CheckLinks
  <2> QED BY <1>1, <1>3, <2>1, FailsIs, EndKeeps
<1>5. CASE ~(~config.follow /\ HasLink(tree, NextPath(c)))
  <2> DEFINE fields == [pc |-> "canon"]
  <2>1. DOMAIN fields = {"pc"} /\ fields["pc"] = "canon"
    OBVIOUS
  <2>2. Steps(c, fields)
    BY <1>5 DEF CheckLinks
  <2> HIDE DEF fields
  <2>3. /\ Moves(c) /\ call'[c]["pc"] = "canon"
        /\ DOMAIN call'[c] = DOMAIN call[c] \cup DOMAIN fields
        /\ call'[c]["req"] = call[c]["req"] /\ call'[c]["got"] = call[c]["got"]
    BY <1>1, <2>1, <2>2, StepsIs
  <2>4. call'[c].pc = "canon" /\ call'[c].req = call[c].req /\ call'[c].got = call[c].got
    BY <2>3
  <2>5. Shape(call'[c], c)
    BY <1>1, <1>2, <2>3, <2>4 DEF Shape
  <2>6. CallOK(c)'
    <3>1. "req" \notin DOMAIN fields /\ "got" \notin DOMAIN fields
      BY <2>1
    <3>2. config' = config /\ trie' = trie /\ (alone'[c] => alone[c])
      BY DEF Running
    <3>3. tree' = tree /\ DOMAIN roots' = DOMAIN roots
      BY <1>2 DEF Same
    <3>4. roots' # Unopened
      BY <1>1, <1>2 DEF CallOK, Same
    <3>5. Straight(c) => ~HasLink(tree, NextPath(c))
      BY <1>5 DEF Straight
    <3>6. call'[c].pc # "apply"
      BY <2>4
    <3> QED BY <1>1, <1>2, <2>2, <2>5, <3>1, <3>2, <3>3, <3>4, <3>5, <3>6, StageIs
  <2> QED BY <1>3, <2>3, <2>6 DEF Kept
<1> QED BY <1>4, <1>5

(* longest_prefix gives a root above the path, or none. *)
LEMMA RootAbove ==
  ASSUME TrieIsBuilt, NEW path \in Seq(Names), RootFor(path) # NoPath
  PROVE  /\ RootFor(path) \in trie.ends /\ RootFor(path) \in Seq(Names)
         /\ IsPrefix(RootFor(path), path)
<1>1. FindsRoot(trie, trie.ends, path)
  <2>1. FindsRoot(TrieOf(trie.ends), trie.ends, path)
    BY TrieFinds
  <2> QED BY <2>1, Zenon DEF TrieIsBuilt
<1>2. ContainsPath(trie, path)
  BY DEF RootFor, LongestPrefix
<1>3. RootFor(path) \in Above(trie.ends, path)
  BY <1>1, <1>2 DEF FindsRoot, RootFor
<1>4. RootFor(path) \in trie.ends /\ RootFor(path) \in Chain(path)
  BY <1>3 DEF Above
<1>5. PICK k \in 0..Len(path) : RootFor(path) = UpTo(path, k)
  BY <1>4 DEF Chain
<1>6. UpTo(path, k) \in Seq(Names) /\ IsPrefix(UpTo(path, k), path)
  <2>1. UpTo(path, k) \in Seq(Names) /\ Len(UpTo(path, k)) = k /\ k <= Len(path)
    BY UpToUpTo
  <2>2. UpTo(UpTo(path, k), k) = UpTo(path, k)
    BY UpToUpTo
  <2>3. SubSeq(UpTo(path, k), 1, k) = SubSeq(path, 1, k)
    BY <2>2 DEF UpTo
  <2> QED BY <2>1, <2>3 DEF IsPrefix
<1> QED BY <1>4, <1>5, <1>6

LEMMA CanonicalizeKeeps ==
  ASSUME IInv, roots # Aborted, NEW c, Running(c), Canonicalize(c)
  PROVE  Kept(c)
<1>1. /\ c \in Calls /\ DOMAIN call = Calls /\ CallOK(c) /\ Shape(call[c], c)
      /\ WellFormed(tree) /\ RootsOK
      /\ {"req", "pc", "got"} \subseteq DOMAIN call[c]
      /\ call[c].got \in Seq(Resolved) /\ Len(call[c].got) \in Nat
      /\ call[c].req.paths \in Seq(Named)
  BY RunningHas
<1>2. Live(c) /\ call[c].pc = "canon" /\ Same
  BY DEF Canonicalize
<1>3. Settled
  BY <1>1, <1>2, SameSettles
<1> DEFINE path == CanonicalOrParent(tree, NextPath(c))
           r == [canonical |-> path, root |-> RootFor(path)]
           got == Append(call[c].got, r)
           pc == IF Len(got) < Len(call[c].req.paths) THEN "check" ELSE "run"
           n == Len(call[c].got)
<1>4. CASE path = NoPath \/ RootFor(path) \notin DOMAIN roots
  <2>1. Fails(c)
    BY <1>4 DEF Canonicalize
  <2> QED BY <1>1, <1>3, <2>1, FailsIs, EndKeeps
<1>5. CASE path # NoPath /\ RootFor(path) \in DOMAIN roots
  <2> DEFINE fields == [got |-> got, pc |-> pc]
  <2>1. DOMAIN fields = {"pc", "got"} /\ fields["pc"] = pc /\ fields["got"] = got
    OBVIOUS
  <2>2. Steps(c, fields)
    BY <1>5 DEF Canonicalize
  <2> HIDE DEF fields
  <2>3. /\ Moves(c) /\ call'[c]["pc"] = pc /\ call'[c]["got"] = got
        /\ DOMAIN call'[c] = DOMAIN call[c] \cup DOMAIN fields
        /\ call'[c]["req"] = call[c]["req"]
    <3> HIDE DEF pc, got
    <3> QED BY <1>1, <2>1, <2>2, StepsIs
  <2>4. call'[c].pc = pc /\ call'[c].req = call[c].req /\ call'[c].got = got
    BY <2>3
  <2>5. n + 1 \in 1..Len(call[c].req.paths)
    <3>1. n < Len(call[c].req.paths)
      BY <1>1, <1>2, Zenon DEF Shape
    <3>2. Len(call[c].req.paths) \in Nat
      BY <1>1, LenIs
    <3> DEFINE m == Len(call[c].req.paths)
    <3>3. n < m /\ m \in Nat /\ n \in Nat
      BY <1>1, <3>1, <3>2
    <3> HIDE DEF n, m
    <3>4. n + 1 \in 1..m
      BY <3>3
    <3> QED BY <3>4 DEF m
  <2>6. NextPath(c) \in Seq(Names)
    <3> HIDE DEF n
    <3>1. call[c].req.paths[n + 1] \in Named
      BY <1>1, <2>5
    <3> QED BY <3>1, NormalOfNamed DEF NextPath, n
  <2>7. path \in Seq(Names)
    BY <1>1, <1>5, <2>6, CanonicalIs
  <2>8. DOMAIN roots \subseteq Seq(Names)
    <3>1. roots # Unopened
      BY <1>1, <1>2 DEF CallOK
    <3> QED BY <1>1, <3>1 DEF RootsOK
  <2>9. /\ RootFor(path) \in trie.ends /\ RootFor(path) \in Seq(Names)
        /\ IsPrefix(RootFor(path), path)
    <3>1. RootFor(path) # NoPath
      BY <1>5, <2>8, NamesAssumption
    <3>2. TrieIsBuilt
      BY DEF IInv
    <3> HIDE DEF path
    <3> QED BY <2>7, <3>1, <3>2, RootAbove
  <2>10. Straight(c) => path = NextPath(c)
    <3>1. Straight(c) => ~HasLink(tree, NextPath(c))
      BY <1>1, <1>2 DEF CallOK
    <3>2. Straight(c) => path \in {NextPath(c), NoPath}
      BY <1>1, <2>6, <3>1, StraightCanonical
    <3> QED BY <1>5, <3>2
  <2>11. /\ r \in Resolved /\ r.canonical = path /\ r.root = RootFor(path)
    BY <2>7, <2>9 DEF Resolved
  <2> HIDE DEF r
  <2>12. /\ got \in Seq(Resolved) /\ got # <<>> /\ Len(got) = n + 1 /\ got[n + 1] = r
         /\ \A i \in 1..n : got[i] = call[c].got[i]
    BY <1>1, <2>11
  <2> HIDE DEF got
  <2>13. Shape(call'[c], c)
    <3> DEFINE m == Len(call[c].req.paths)
    <3>1. m \in Nat /\ n \in Nat
      BY <1>1, LenIs
    <3>2. n + 1 <= m
      <4> HIDE DEF n, m
      <4>1. n + 1 \in 1..m
        BY <2>5 DEF n, m
      <4> QED BY <3>1, <4>1
    <3>3. Len(got) <= m /\ (pc = "check" => Len(got) < m) /\ pc \in {"check", "run"}
      <4> HIDE DEF n
      <4> QED BY <2>12, <3>2
    <3> HIDE DEF pc, n
    <3> QED BY <1>1, <2>3, <2>4, <2>12, <3>3 DEF Shape, m
  <2>14. ASSUME NEW i \in 1..Len(got) PROVE Accepted(c, i)'
    <3>1. Straight(c)' => Straight(c)
      BY DEF Straight, Running
    <3>2. trie' = trie /\ roots' = roots
      BY <1>2 DEF Running, Same
    <3>3. CASE i = n + 1
      <4>1. call'[c].got[i] = r
        BY <2>4, <2>12, <3>3, Zenon
      <4>2. Straight(c) => path = Normal(ToAbs(call'[c].req.paths[i]))
        BY <2>4, <2>10, <3>3 DEF NextPath
      <4> HIDE DEF path
      <4> QED BY <1>5, <2>9, <2>11, <3>1, <3>2, <4>1, <4>2 DEF Accepted
    <3>4. CASE i # n + 1
      <4>1. i \in 1..n
        <5> HIDE DEF n
        <5>1. n \in Nat
          BY <1>1 DEF n
        <5> QED BY <2>12, <3>4, <5>1
      <4>2. Accepted(c, i)
        BY <1>1, <1>2, <4>1 DEF CallOK
      <4>3. call'[c].got[i] = call[c].got[i]
        BY <2>4, <2>12, <4>1, Zenon
      <4> QED BY <2>4, <3>1, <3>2, <4>2, <4>3 DEF Accepted
    <3> QED BY <3>3, <3>4
  <2>15. CallOK(c)'
    <3>1. \A i \in 1..Len(call'[c].got) : Accepted(c, i)'
      BY <2>4, <2>14
    <3>2. roots' # Unopened
      BY <1>1, <1>2 DEF CallOK, Same
    <3>3. call'[c].pc \notin {"canon", "apply"}
      BY <2>4
    <3> QED BY <2>13, <3>1, <3>2, <3>3 DEF CallOK
  <2> QED BY <1>3, <2>3, <2>15 DEF Kept
<1> QED BY <1>4, <1>5

(* A call that has resolved its paths goes on to another stage. *)
LEMMA GoOnKeeps ==
  ASSUME IInv, NEW c, Running(c), Same,
         NEW fields, Steps(c, fields), "req" \notin DOMAIN fields, "got" \notin DOMAIN fields,
         call[c].pc \in {"run", "scan"}, call'[c].pc \in {"remove", "read", "apply", "scan"},
         call'[c].pc = "scan" <=> call[c].pc = "scan",
         call'[c].pc = "apply" =>
           call'[c].src \in Seq(Names) /\ call'[c].dst \in Seq(Names) /\ Rooted(call'[c])
  PROVE  Kept(c)
<1>1. /\ c \in Calls /\ DOMAIN call = Calls /\ CallOK(c) /\ Shape(call[c], c)
      /\ WellFormed(tree) /\ RootsOK
      /\ {"req", "pc", "got"} \subseteq DOMAIN call[c]
  BY RunningHas
<1>2. Settled
  BY <1>1, SameSettles
<1>3. /\ Moves(c)
      /\ DOMAIN call'[c] = DOMAIN call[c] \cup DOMAIN fields
      /\ call'[c]["req"] = call[c]["req"] /\ call'[c]["got"] = call[c]["got"]
  BY <1>1, StepsIs
<1>4. call'[c].req = call[c].req /\ call'[c].got = call[c].got
  BY <1>3
<1>5. Shape(call'[c], c)
  BY <1>1, <1>3, <1>4 DEF Shape
<1>6. Live(c) /\ config' = config /\ trie' = trie /\ (alone'[c] => alone[c])
  BY DEF Running
<1>7. tree' = tree /\ DOMAIN roots' = DOMAIN roots
  BY DEF Same
<1>8. call'[c].pc \notin {"open", "scan"} => roots' # Unopened
  BY <1>1, <1>6 DEF CallOK, Same
<1>9. call'[c].pc # "canon"
  OBVIOUS
<1>10. CallOK(c)'
  BY <1>1, <1>5, <1>6, <1>7, <1>8, <1>9, StageIs
<1> QED BY <1>2, <1>3, <1>10 DEF Kept

LEMMA ToStage ==
  ASSUME IInv, NEW c, Running(c), Same, call[c].pc = "run",
         NEW pc \in {"remove", "read"}, Steps(c, [pc |-> pc])
  PROVE  Kept(c)
<1> DEFINE fields == [pc |-> pc]
<1>1. DOMAIN fields = {"pc"} /\ fields["pc"] = pc /\ Steps(c, fields)
  OBVIOUS
<1> HIDE DEF fields
<1>2. c \in Calls /\ DOMAIN call = Calls
  BY RunningHas
<1>3. call'[c]["pc"] = pc
  BY <1>1, <1>2, StepsIs
<1>4. call'[c].pc = pc
  BY <1>3
<1>5. "req" \notin DOMAIN fields /\ "got" \notin DOMAIN fields
  BY <1>1
<1> QED BY <1>1, <1>4, <1>5, GoOnKeeps

LEMMA ResolveAgainKeeps ==
  ASSUME IInv, NEW c, Running(c), ResolveAgain(c)
  PROVE  Kept(c)
<1>1. /\ c \in Calls /\ DOMAIN call = Calls /\ Shape(call[c], c)
      /\ WellFormed(tree) /\ RootsOK
  BY RunningHas
<1>2. call[c].pc = "run" /\ call[c].req.tool \in TwoPathTools /\ Same
  BY DEF ResolveAgain, At
<1> DEFINE src == PathAgain(c, 1)
           dst == PathAgain(c, 2)
           fields == [pc |-> "apply", src |-> src, dst |-> dst]
<1> DEFINE good == src # NoPath /\ dst # NoPath /\ NoPath \notin {RootFor(src), RootFor(dst)}
<1>3. Fails(c) \/ (good /\ Steps(c, fields))
  BY DEF ResolveAgain
<1>4. CASE Fails(c)
  BY <1>1, <1>2, <1>4, SameSettles, FailsIs, EndKeeps
<1>5. CASE good /\ Steps(c, fields)
  <2>1. call[c].req \in Requests[c] /\ Len(call[c].req.paths) = 2
    BY <1>1, <1>2, PathsOf DEF Shape
  <2>2. \A i \in 1..Len(call[c].req.paths) : Normal(ToAbs(call[c].req.paths[i])) \in Seq(Names)
    BY <1>1, <2>1, PathsOf
  <2>3. /\ Normal(ToAbs(call[c].req.paths[1])) \in Seq(Names)
        /\ Normal(ToAbs(call[c].req.paths[2])) \in Seq(Names)
    BY <2>1, <2>2
  <2>4. src \in Seq(Names) /\ dst \in Seq(Names)
    BY <1>1, <1>5, <2>3, CanonicalIs DEF PathAgain
  <2> HIDE DEF src, dst
  <2>5. /\ DOMAIN fields = {"pc", "src", "dst"}
        /\ fields["pc"] = "apply" /\ fields["src"] = src /\ fields["dst"] = dst
    OBVIOUS
  <2>6. Steps(c, fields)
    BY <1>5
  <2> HIDE DEF fields
  <2>7. call'[c]["pc"] = "apply" /\ call'[c]["src"] = src /\ call'[c]["dst"] = dst
    BY <1>1, <2>5, <2>6, StepsIs
  <2>8. call'[c].pc = "apply" /\ call'[c].src = src /\ call'[c].dst = dst
    BY <2>7
  <2>9. "req" \notin DOMAIN fields /\ "got" \notin DOMAIN fields
    BY <2>5
  <2>10. Rooted(call'[c])
    BY <1>5, <2>8 DEF Rooted
  <2> QED BY <1>2, <2>4, <2>6, <2>8, <2>9, <2>10, GoOnKeeps
<1> QED BY <1>3, <1>4, <1>5

LEMMA ListResourcesKeeps ==
  ASSUME IInv, NEW c, Running(c), ListResources(c)
  PROVE  Kept(c)
<1>1. /\ c \in Calls /\ DOMAIN call = Calls /\ WellFormed(tree) /\ RootsOK
      /\ {"req", "pc", "got"} \subseteq DOMAIN call[c]
  BY RunningHas
<1>2. call[c].pc = "scan" /\ Same
  BY DEF ListResources, At
<1>3. Settled
  BY <1>1, <1>2, SameSettles
<1>4. \/ Fails(c)
      \/ \E seen : Answers(c, [ok |-> TRUE, seen |-> seen])
      \/ \E next, seen : Steps(c, [cursor |-> next, seen |-> seen])
  BY Zenon DEF ListResources
<1>5. CASE Fails(c)
  BY <1>1, <1>3, <1>5, FailsIs, EndKeeps
<1>6. ASSUME NEW seen, Answers(c, [ok |-> TRUE, seen |-> seen]) PROVE Kept(c)
  <2> DEFINE answer == [ok |-> TRUE, seen |-> seen]
  <2>1. "pc" \notin DOMAIN answer /\ Answers(c, answer)
    BY <1>6
  <2> HIDE DEF answer
  <2> QED BY <1>1, <1>3, <2>1, AnswersIs, EndKeeps
<1>7. ASSUME NEW next, NEW seen, Steps(c, [cursor |-> next, seen |-> seen]) PROVE Kept(c)
  <2> DEFINE fields == [cursor |-> next, seen |-> seen]
  <2>1. DOMAIN fields = {"cursor", "seen"} /\ Steps(c, fields)
    BY <1>7
  <2> HIDE DEF fields
  <2>2. call'[c]["pc"] = call[c]["pc"]
    BY <1>1, <2>1, StepsIs
  <2>3. call'[c].pc = "scan"
    BY <1>2, <2>2
  <2>4. "req" \notin DOMAIN fields /\ "got" \notin DOMAIN fields
    BY <2>1
  <2> QED BY <1>2, <2>1, <2>3, <2>4, GoOnKeeps
<1> QED BY <1>4, <1>5, <1>6, <1>7

(* The tools that only look end, or look once more. *)
LEMMA LooksKeep ==
  ASSUME IInv, NEW c, Running(c),
         \/ FindByHandle(c) \/ ListByHandle(c) \/ DeleteFileFound(c)
         \/ ReadByPath(c) \/ StatByHandle(c) \/ ReadAfterStat(c) \/ ReadResource(c)
         \/ WalkByPath(c)
  PROVE  Kept(c)
<1>1. c \in Calls /\ DOMAIN call = Calls /\ WellFormed(tree) /\ RootsOK
  BY RunningHas
<1>2. Same
  BY DEF FindByHandle, ListByHandle, DeleteFileFound, ReadByPath, StatByHandle,
         ReadAfterStat, ReadResource, WalkByPath
<1>3. Settled
  BY <1>1, <1>2, SameSettles
<1>4. ASSUME Fails(c) \/ Succeeds(c) PROVE Kept(c)
  BY <1>1, <1>3, <1>4, FailsIs, EndKeeps
<1>5. ASSUME NEW place, WithText(c, place) PROVE Kept(c)
  <2>1. Fails(c) \/ Answers(c, [ok |-> TRUE, text |-> Text(place)])
    BY <1>5 DEF WithText
  <2> DEFINE answer == [ok |-> TRUE, text |-> Text(place)]
  <2>2. "pc" \notin DOMAIN answer
    OBVIOUS
  <2>3. Fails(c) \/ Answers(c, answer)
    BY <2>1
  <2> HIDE DEF answer
  <2> QED BY <1>1, <1>3, <1>4, <2>2, <2>3, AnswersIs, EndKeeps
<1>6. CASE FindByHandle(c) \/ ListByHandle(c)
  BY <1>4, <1>6 DEF FindByHandle, ListByHandle
<1>7. CASE DeleteFileFound(c)
  <2>1. call[c].pc = "run" /\ (Steps(c, [pc |-> "remove"]) \/ Fails(c))
    BY <1>7 DEF DeleteFileFound, At
  <2> QED BY <1>2, <1>4, <2>1, ToStage
<1>8. CASE StatByHandle(c)
  <2>1. call[c].pc = "run" /\ (Steps(c, [pc |-> "read"]) \/ Fails(c))
    BY <1>8 DEF StatByHandle, At
  <2> QED BY <1>2, <1>4, <2>1, ToStage
<1>9. CASE ReadByPath(c) \/ ReadAfterStat(c) \/ ReadResource(c)
  <2>1. Fails(c) \/ \E place : WithText(c, place)
    BY <1>9, Zenon DEF ReadByPath, ReadAfterStat, ReadResource
  <2> QED BY <1>4, <1>5, <2>1
<1>10. CASE WalkByPath(c)
  <2> DEFINE answer == [ok |-> TRUE, found |-> WalkOf(c)]
  <2>1. "pc" \notin DOMAIN answer
    OBVIOUS
  <2>2. Fails(c) \/ Answers(c, answer)
    BY <1>10, Zenon DEF WalkByPath
  <2> HIDE DEF answer
  <2> QED BY <1>1, <1>3, <1>4, <2>1, <2>2, AnswersIs, EndKeeps
<1> QED BY <1>6, <1>7, <1>8, <1>9, <1>10

LEMMA FileIs ==
  ASSUME NEW text
  PROVE  IsNode(File(text)) /\ File(text).kind = "file"
BY DEF IsNode, File

(* The first path of a call that has resolved its paths. *)
LEMMA PathIs ==
  ASSUME IInv, roots # Aborted, NEW c, Running(c),
         call[c].pc \in {"run", "remove", "read", "apply"}
  PROVE  /\ Path(c).canonical \in Seq(Names)
         /\ RelOf(Path(c)) \in Seq(Names) /\ RelOf(Path(c)) \in Seq(Parts)
<1>1. /\ c \in Calls /\ CallOK(c) /\ Shape(call[c], c) /\ Live(c)
      /\ WellFormed(tree) /\ RootsOK
      /\ call[c].got \in Seq(Resolved)
  BY RunningHas DEF Running
<1>2. 1 \in 1..Len(call[c].got)
  <2>1. call[c].got # <<>>
    BY <1>1 DEF Shape
  <2> DEFINE got == call[c].got
  <2> HIDE DEF got
  <2>2. got # <<>> /\ got \in Seq(Resolved)
    BY <1>1, <2>1 DEF got
  <2>3. Len(got) \in Nat /\ Len(got) # 0
    BY <2>2, LenIs
  <2> DEFINE n == Len(got)
  <2> HIDE DEF n
  <2>4. n \in Nat /\ n # 0
    BY <2>3 DEF n
  <2>5. 1 \in 1..n
    BY <2>4
  <2> QED BY <2>5 DEF n, got
<1>3. Path(c) \in Resolved
  BY <1>1, <1>2 DEF Path
<1>4. Accepted(c, 1)
  BY <1>1, <1>2 DEF CallOK
<1>5. Path(c).root \in DOMAIN roots /\ IsPrefix(Path(c).root, Path(c).canonical)
  BY <1>4 DEF Accepted, Path
<1>6. Path(c).canonical \in Seq(Names) /\ Path(c).root \in Seq(Names)
  BY <1>3 DEF Resolved
<1>7. Suffix(Path(c).canonical, Path(c).root) \in Seq(Names)
  BY <1>5, <1>6, PrefixIs
<1>8. RelOf(Path(c)) \in Seq(Names)
  BY <1>7 DEF RelOf
<1>9. RelOf(Path(c)) \in Seq(Parts)
  BY <1>8 DEF Parts
<1> QED BY <1>6, <1>8, <1>9

(* Where std::fs or a handle may write a file. *)
LEMMA WriteIs ==
  ASSUME NEW t, WellFormed(t), NEW base, NEW beneath \in BOOLEAN, NEW names \in Seq(Parts),
         MayWrite(t, PlaceOf(t, base, beneath, names)),
         NEW node, IsNode(node)
  PROVE  WellFormed(Put(t, PlaceOf(t, base, beneath, names), node))
<1> DEFINE place == PlaceOf(t, base, beneath, names)
<1>1. place # NoPath /\ ~Is(t, place, "dir")
  BY DEF MayWrite, Is
<1>2. place \in Seq(Names) /\ (Is(t, place, "dir") \/ Is(t, Front(place), "dir"))
  BY <1>1, PlaceIs
<1>3. Children(t, place) = {}
  BY <1>1, ChildlessIs
<1> HIDE DEF place
<1>4. WellFormed(Put(t, place, node))
  BY <1>1, <1>2, <1>3, PutKeeps
<1> QED BY <1>4 DEF place

LEMMA WriteByHandleKeeps ==
  ASSUME Opaque, IInv, roots # Aborted, NEW c, Running(c), WriteByHandle(c)
  PROVE  Kept(c)
<1>1. c \in Calls /\ DOMAIN call = Calls /\ WellFormed(tree) /\ RootsOK
  BY RunningHas
<1>2. CASE Same /\ Fails(c)
  BY <1>1, <1>2, SameSettles, FailsIs, EndKeeps
<1>3. CASE /\ MayWrite(tree, HandlePlace(Path(c)))
           /\ Becomes(Put(tree, HandlePlace(Path(c)), File(call[c].req.text))) /\ Succeeds(c)
  <2> DEFINE t == Put(tree, HandlePlace(Path(c)), File(call[c].req.text))
  <2>1. WellFormed(t)
    <3>1. call[c].pc = "run"
      BY DEF WriteByHandle, At
    <3>2. RelOf(Path(c)) \in Seq(Parts)
      BY <3>1, PathIs
    <3>3. IsNode(File(call[c].req.text))
      BY FileIs
    <3> DEFINE node == File(call[c].req.text)
    <3> HIDE DEF node
    <3>4. IsNode(node) /\ TRUE \in BOOLEAN
      BY <3>3 DEF node
    <3>5. MayWrite(tree, PlaceOf(tree, HandleOf(Path(c)), TRUE, RelOf(Path(c))))
      BY <1>3 DEF HandlePlace
    <3>6. WellFormed(Put(tree, PlaceOf(tree, HandleOf(Path(c)), TRUE, RelOf(Path(c))), node))
      BY <1>1, <3>2, <3>4, <3>5, WriteIs
    <3> QED BY <3>6 DEF HandlePlace, node
  <2>2. Becomes(t) /\ Succeeds(c)
    BY <1>3
  <2> HIDE DEF t
  <2> QED BY <1>1, <2>1, <2>2, BecomesSettles, FailsIs, EndKeeps
<1> QED BY <1>2, <1>3 DEF WriteByHandle

LEMMA CreateDirectoryKeeps ==
  ASSUME Opaque, IInv, roots # Aborted, NEW c, Running(c), CreateDirectory(c)
  PROVE  Kept(c)
<1>1. c \in Calls /\ DOMAIN call = Calls /\ WellFormed(tree) /\ RootsOK
  BY RunningHas
<1>2. call[c].pc = "run"
  BY DEF CreateDirectory, At
<1>3. RelOf(Path(c)) \in Seq(Names)
  BY <1>2, PathIs
<1> DEFINE t == IF HandleOf(Path(c)) = NoPath THEN tree
                ELSE MkdirAll(tree, HandleOf(Path(c)), RelOf(Path(c)))
<1>4. WellFormed(t)
  BY <1>1, <1>3, MkdirAllKeeps
<1>5. Becomes(t) /\ (Fails(c) \/ Succeeds(c))
  BY DEF CreateDirectory
<1> HIDE DEF t
<1> QED BY <1>1, <1>4, <1>5, BecomesSettles, FailsIs, EndKeeps

LEMMA DeleteFileKeeps ==
  ASSUME Opaque, IInv, roots # Aborted, NEW c, Running(c), DeleteFile(c)
  PROVE  Kept(c)
<1>1. c \in Calls /\ DOMAIN call = Calls /\ WellFormed(tree) /\ RootsOK
  BY RunningHas
<1> DEFINE entry == HandleEntry(Path(c))
<1>2. \/ Same /\ Fails(c)
      \/ /\ entry \in DOMAIN tree /\ tree[entry].kind # "dir"
         /\ Becomes(Without(tree, {entry})) /\ Succeeds(c)
  BY DEF DeleteFile
<1>3. CASE Same /\ Fails(c)
  BY <1>1, <1>3, SameSettles, FailsIs, EndKeeps
<1> HIDE DEF entry
<1>4. CASE /\ entry \in DOMAIN tree /\ tree[entry].kind # "dir"
           /\ Becomes(Without(tree, {entry})) /\ Succeeds(c)
  <2>1. Children(tree, entry) = {}
    BY <1>1, <1>4, ChildlessIs DEF Is
  <2>2. \A p \in DOMAIN tree : (p # <<>> /\ Front(p) \in {entry}) => p \in {entry}
    BY <2>1 DEF Children
  <2>3. WellFormed(Without(tree, {entry}))
    BY <1>1, <2>2, WithoutKeeps
  <2> QED BY <1>1, <1>4, <2>3, BecomesSettles, FailsIs, EndKeeps
<1> QED BY <1>2, <1>3, <1>4

LEMMA DeleteDirectoryKeeps ==
  ASSUME Opaque, IInv, roots # Aborted, NEW c, Running(c), DeleteDirectory(c)
  PROVE  Kept(c)
<1>1. c \in Calls /\ DOMAIN call = Calls /\ WellFormed(tree) /\ RootsOK
  BY RunningHas
<1> DEFINE place == IF RelOf(Path(c)) = <<>> THEN HandleOf(Path(c)) ELSE HandleEntry(Path(c))
           whole == Below(tree, place)
           itself == IF RelOf(Path(c)) = <<>> THEN {place} ELSE {}
           gone == whole \ itself
<1>2. \/ Same /\ Fails(c)
      \/ /\ Is(tree, place, "dir") \/ Is(tree, place, "link")
         /\ Becomes(Without(tree, gone)) /\ (Succeeds(c) \/ Fails(c))
  BY DEF DeleteDirectory
<1>3. CASE Same /\ Fails(c)
  BY <1>1, <1>3, SameSettles, FailsIs, EndKeeps
<1>4. CASE /\ Is(tree, place, "dir") \/ Is(tree, place, "link")
           /\ Becomes(Without(tree, gone)) /\ (Succeeds(c) \/ Fails(c))
  <2>1. itself \subseteq {place}
    OBVIOUS
  <2> HIDE DEF place, itself
  <2>2. place \in Seq(Names)
    BY <1>1, <1>4 DEF Is, WellFormed
  <2>3. ASSUME NEW p \in DOMAIN tree, p # <<>>, Front(p) \in gone PROVE p \in gone
    <3>1. p \in whole
      BY <1>1, <2>2, <2>3, BelowIsClosed
    <3>2. p # place
      <4>1. IsPrefix(place, Front(p)) /\ p \in Seq(Names)
        BY <1>1, <2>3 DEF Below, WellFormed
      <4> QED BY <2>3, <4>1, FrontIsPrefix
    <3> QED BY <2>1, <3>1, <3>2
  <2>4. \A p \in DOMAIN tree : (p # <<>> /\ Front(p) \in gone) => p \in gone
    BY <2>3
  <2> HIDE DEF gone
  <2>5. WellFormed(Without(tree, gone))
    BY <1>1, <2>4, WithoutKeeps
  <2> QED BY <1>1, <1>4, <2>5, BecomesSettles, FailsIs, EndKeeps
<1> QED BY <1>2, <1>3, <1>4

LEMMA ApplyHas ==
  ASSUME IInv, NEW c, Running(c), call[c].pc = "apply"
  PROVE  /\ call[c].src \in Seq(Names) /\ call[c].dst \in Seq(Names)
         /\ RootFor(call[c].src) # NoPath /\ RootFor(call[c].dst) # NoPath
<1>1. CallOK(c) /\ Shape(call[c], c) /\ Live(c)
  BY RunningHas DEF Running
<1> QED BY <1>1 DEF Shape, CallOK, Rooted

LEMMA RenameKeeps ==
  ASSUME Opaque, IInv, NEW c, Running(c), Rename(c)
  PROVE  Kept(c)
<1>1. c \in Calls /\ DOMAIN call = Calls /\ WellFormed(tree) /\ RootsOK
  BY RunningHas
<1> DEFINE src == call[c].src
           dst == call[c].dst
           here == [canonical |-> src, root |-> RootFor(src)]
           there == [canonical |-> dst, root |-> RootFor(dst)]
           from == IF here.root = there.root THEN HandleEntry(here)
                   ELSE EntryPlace(tree, <<>>, FALSE, src)
           to == IF here.root = there.root THEN HandleEntry(there)
                 ELSE EntryPlace(tree, <<>>, FALSE, dst)
<1>2. \/ Same /\ Fails(c)
      \/ MayRename(tree, from, to) /\ Renames(from, to) /\ Succeeds(c)
  BY DEF Rename
<1>3. CASE Same /\ Fails(c)
  BY <1>1, <1>3, SameSettles, FailsIs, EndKeeps
<1>4. CASE MayRename(tree, from, to) /\ Renames(from, to) /\ Succeeds(c)
  <2>1. /\ dst \in Seq(Names) /\ RootFor(dst) # NoPath
    <3>1. call[c].pc = "apply"
      BY DEF Rename, At
    <3> QED BY <3>1, ApplyHas
  <2>2. RelOf(there) \in Seq(Names)
    <3>1. TrieIsBuilt
      BY DEF IInv
    <3>2. RootFor(dst) \in Seq(Names) /\ IsPrefix(RootFor(dst), dst)
      BY <2>1, <3>1, RootAbove
    <3>3. there.canonical = dst /\ there.root = RootFor(dst)
      OBVIOUS
    <3> HIDE DEF there, dst
    <3>4. Suffix(dst, RootFor(dst)) \in Seq(Names)
      BY <2>1, <3>2, PrefixIs
    <3> QED BY <3>3, <3>4 DEF RelOf
  <2> HIDE DEF src, dst, here, there
  <2>3. from \in Seq(Names)
    <3> HIDE DEF from, to
    <3> QED BY <1>1, <1>4 DEF MayRename, WellFormed
  <2>4. to # NoPath
    <3> HIDE DEF from, to
    <3> QED BY <1>4 DEF MayRename
  <2>5. to \in Seq(Names)
    <3>1. CASE here.root = there.root
      <4>1. to = EntryPlace(tree, HandleOf(there), TRUE, RelOf(there))
        BY <3>1 DEF HandleEntry
      <4> HIDE DEF to
      <4> QED BY <1>1, <2>2, <2>4, <4>1, EntryPlaceIs
    <3>2. CASE here.root # there.root
      <4>1. to = EntryPlace(tree, <<>>, FALSE, dst)
        BY <3>2
      <4> HIDE DEF to
      <4> QED BY <1>1, <2>1, <2>4, <4>1, EntryPlaceIs
    <3> QED BY <3>1, <3>2
  <2> HIDE DEF from, to
  <2> QED BY <1>1, <1>4, <2>3, <2>5, RenamesSettles, FailsIs, EndKeeps
<1> QED BY <1>2, <1>3, <1>4

LEMMA CopyKeeps ==
  ASSUME Opaque, IInv, NEW c, Running(c), Copy(c)
  PROVE  Kept(c)
<1>1. c \in Calls /\ DOMAIN call = Calls /\ WellFormed(tree) /\ RootsOK
  BY RunningHas
<1> DEFINE from == RealPath(tree, call[c].src)
           to == Place(tree, call[c].dst)
           node == IF from = to THEN File(<<>>) ELSE tree[from]
<1>2. \/ Same /\ Fails(c)
      \/ /\ Is(tree, from, "file") /\ MayWrite(tree, to)
         /\ Becomes(Put(tree, to, node)) /\ Succeeds(c)
  BY DEF Copy
<1>3. CASE Same /\ Fails(c)
  BY <1>1, <1>3, SameSettles, FailsIs, EndKeeps
<1>4. CASE /\ Is(tree, from, "file") /\ MayWrite(tree, to)
           /\ Becomes(Put(tree, to, node)) /\ Succeeds(c)
  <2>1. call[c].dst \in Seq(Names)
    <3>1. call[c].pc = "apply"
      BY DEF Copy, At
    <3> QED BY <3>1, ApplyHas
  <2>2. IsNode(node)
    <3> HIDE DEF from, to
    <3>1. IsNode(tree[from])
      BY <1>1, <1>4 DEF Is, WellFormed
    <3> QED BY <3>1, FileIs
  <2> HIDE DEF node
  <2>3. call[c].dst \in Seq(Parts) /\ FALSE \in BOOLEAN
    BY <2>1 DEF Parts
  <2>4. MayWrite(tree, PlaceOf(tree, <<>>, FALSE, call[c].dst))
    BY <1>4 DEF Place
  <2>5. WellFormed(Put(tree, PlaceOf(tree, <<>>, FALSE, call[c].dst), node))
    BY <1>1, <2>2, <2>3, <2>4, WriteIs
  <2>6. WellFormed(Put(tree, to, node))
    BY <2>5 DEF Place
  <2>7. Becomes(Put(tree, to, node)) /\ Succeeds(c)
    BY <1>4
  <2> DEFINE t == Put(tree, to, node)
  <2>8. WellFormed(t) /\ Becomes(t)
    BY <2>6, <2>7
  <2> HIDE DEF t
  <2> QED BY <1>1, <2>7, <2>8, BecomesSettles, FailsIs, EndKeeps
<1> QED BY <1>2, <1>3, <1>4

LEMMA CreateSymlinkKeeps ==
  ASSUME Opaque, IInv, NEW c, Running(c), CreateSymlink(c)
  PROVE  Kept(c)
<1>1. c \in Calls /\ DOMAIN call = Calls /\ WellFormed(tree) /\ RootsOK
  BY RunningHas
<1> DEFINE place == EntryPlace(tree, <<>>, FALSE, call[c].dst)
           node == Link(From(call[c].src))
           t == Put(tree, place, node)
<1>2. \/ Same /\ Fails(c)
      \/ place # NoPath /\ place \notin DOMAIN tree /\ Becomes(t) /\ Succeeds(c)
  BY DEF CreateSymlink
<1>3. CASE Same /\ Fails(c)
  BY <1>1, <1>3, SameSettles, FailsIs, EndKeeps
<1>4. CASE place # NoPath /\ place \notin DOMAIN tree /\ Becomes(t) /\ Succeeds(c)
  <2>1. call[c].src \in Seq(Names) /\ call[c].dst \in Seq(Names)
    <3>1. call[c].pc = "apply"
      BY DEF CreateSymlink, At
    <3> QED BY <3>1, ApplyHas
  <2>2. IsNode(node)
    <3>1. call[c].src \in Seq(Names \cup {".", ".."})
      BY <2>1
    <3>2. From(call[c].src) \in Named
      BY <3>1 DEF From, Named
    <3> QED BY <3>2 DEF IsNode, Link
  <2>3. place \in Seq(Names) /\ Is(tree, Front(place), "dir")
    BY <1>1, <1>4, <2>1, EntryPlaceIs
  <2> HIDE DEF node, place
  <2>4. Children(tree, place) = {}
    BY <1>1, <1>4, ChildlessIs DEF Is
  <2>5. WellFormed(t)
    BY <1>1, <2>2, <2>3, <2>4, PutKeeps
  <2> HIDE DEF t
  <2> QED BY <1>1, <1>4, <2>5, BecomesSettles, FailsIs, EndKeeps
<1> QED BY <1>2, <1>3, <1>4

(* What another program does. *)
LEMMA ChangeSettles ==
  ASSUME Opaque, IInv, Change
  PROVE  Settled
<1>1. WellFormed(tree) /\ RootsOK
  BY DEF IInv
<1>2. PICK change \in Changes :
        /\ change.at \in DOMAIN tree \/ Is(tree, Front(change.at), "dir")
        /\ CASE change.do = "put" ->
                  /\ Below(tree, change.at) \subseteq {change.at}
                  /\ Becomes(Put(tree, change.at, change.node))
             [] change.do = "remove" -> Becomes(Without(tree, Below(tree, change.at)))
             [] change.do = "move" ->
                  /\ MayRename(tree, change.at, change.to)
                  /\ Renames(change.at, change.to)
  BY Zenon DEF Change
<1> DEFINE at == change.at
<1>3. change.do \in {"put", "remove", "move"} /\ at \in Seq(Names)
  BY ChangesAssumption
<1>4. CASE change.do = "put"
  <2>1. Below(tree, at) \subseteq {at} /\ Becomes(Put(tree, at, change.node))
    BY <1>2, <1>4
  <2>2. IsNode(change.node)
    BY <1>4, ChangesAssumption
  <2>3. at \in DOMAIN tree \/ Is(tree, Front(at), "dir")
    BY <1>2
  <2> DEFINE node == change.node
             t == Put(tree, at, node)
  <2> HIDE DEF at, node
  <2>4. Children(tree, at) = {}
    <3> SUFFICES ASSUME NEW p \in Children(tree, at) PROVE FALSE
      OBVIOUS
    <3>1. p \in DOMAIN tree /\ p # <<>> /\ Front(p) = at /\ p \in Seq(Names)
      BY <1>1 DEF Children, WellFormed
    <3>2. IsPrefix(at, p) /\ Front(p) # p
      BY <3>1, FrontIs, FrontIsPrefix
    <3> QED BY <2>1, <3>1, <3>2 DEF Below
  <2>5. WellFormed(t)
    BY <1>1, <1>3, <2>2, <2>3, <2>4, PutKeeps DEF node
  <2>6. Becomes(t)
    BY <2>1 DEF node
  <2> HIDE DEF t
  <2> QED BY <1>1, <2>5, <2>6, BecomesSettles
<1>5. CASE change.do = "remove"
  <2>1. Becomes(Without(tree, Below(tree, at)))
    BY <1>2, <1>5
  <2> HIDE DEF at
  <2>2. \A p \in DOMAIN tree : (p # <<>> /\ Front(p) \in Below(tree, at)) => p \in Below(tree, at)
    BY <1>1, <1>3, BelowIsClosed
  <2> DEFINE gone == Below(tree, at)
             t == Without(tree, gone)
  <2> HIDE DEF gone
  <2>3. WellFormed(t)
    BY <1>1, <2>2, WithoutKeeps DEF gone
  <2>4. Becomes(t)
    BY <2>1 DEF gone
  <2> HIDE DEF t
  <2> QED BY <1>1, <2>3, <2>4, BecomesSettles
<1>6. CASE change.do = "move"
  <2>1. MayRename(tree, at, change.to) /\ Renames(at, change.to)
    BY <1>2, <1>6
  <2>2. change.to \in Seq(Names)
    BY <1>6, ChangesAssumption
  <2> HIDE DEF at
  <2> QED BY <1>1, <1>3, <2>1, <2>2, RenamesSettles
<1> QED BY <1>3, <1>4, <1>5, <1>6

-----------------------------------------------------------------------------
(***************************************************************************)
(* The steps of the server.                                                *)
(***************************************************************************)

LEMMA StepKeeps ==
  ASSUME Opaque, IInv, roots # Aborted, NEW c, Running(c), Step(c)
  PROVE  Kept(c)
<1>1. CASE CheckLinks(c)
  BY <1>1, CheckLinksKeeps
<1>2. CASE Canonicalize(c)
  BY <1>2, CanonicalizeKeeps
<1>3. CASE ResolveAgain(c)
  BY <1>3, ResolveAgainKeeps
<1>4. CASE Rename(c)
  BY <1>4, RenameKeeps
<1>5. CASE Copy(c)
  BY <1>5, CopyKeeps
<1>6. CASE CreateSymlink(c)
  BY <1>6, CreateSymlinkKeeps
<1>7. CASE WriteByHandle(c)
  BY <1>7, WriteByHandleKeeps
<1>8. CASE CreateDirectory(c)
  BY <1>8, CreateDirectoryKeeps
<1>9. CASE DeleteFile(c)
  BY <1>9, DeleteFileKeeps
<1>10. CASE DeleteDirectory(c)
  BY <1>10, DeleteDirectoryKeeps
<1>11. CASE \/ FindByHandle(c) \/ ListByHandle(c) \/ DeleteFileFound(c)
            \/ ReadByPath(c) \/ StatByHandle(c) \/ ReadAfterStat(c) \/ ReadResource(c)
            \/ WalkByPath(c)
  BY <1>11, LooksKeep
<1>12. CASE ListResources(c)
  BY <1>12, ListResourcesKeeps
<1> QED BY <1>1, <1>2, <1>3, <1>4, <1>5, <1>6, <1>7, <1>8, <1>9, <1>10, <1>11, <1>12, Zenon
     DEF Step

(* A call that takes a step is live, but when it starts. *)
LEMMA StepIsLive ==
  ASSUME NEW c, Step(c) \/ Open(c)
  PROVE  Live(c)
BY DEF Step, Open, CheckLinks, Canonicalize, ResolveAgain, Rename, Copy, CreateSymlink,
       FindByHandle, ListByHandle, WriteByHandle, CreateDirectory, DeleteFileFound,
       DeleteFile, DeleteDirectory, ReadByPath, StatByHandle, ReadAfterStat, ReadResource,
       WalkByPath, ListResources, At

LEMMA CallSteps ==
  ASSUME Opaque, IInv, roots # Aborted, config' = config, trie' = trie, changes' = changes,
         NEW c \in Calls,
         \/ Opens(c)
         \/ ((\E r \in Requests[c] : Start(c, r)) \/ Step(c)) /\ Disturbs({c})
  PROVE  IInv'
<1>1. \A d \in Calls \ {c} : (Live(d) /\ alone'[d]) => alone[d] /\ tree' = tree
  <2>1. CASE Opens(c)
    BY <2>1 DEF Opens, Open
  <2>2. CASE Disturbs({c})
    BY <2>2, AloneIs
  <2> QED BY <2>1, <2>2
<1>2. Kept(c)
  <2>1. CASE Opens(c)
    <3>1. Open(c) /\ alone' = alone
      BY <2>1 DEF Opens
    <3>2. Running(c)
      BY <3>1, StepIsLive DEF Running
    <3> QED BY <3>1, <3>2, OpenKeeps
  <2>2. CASE \E r \in Requests[c] : Start(c, r)
    BY <2>2, StartKeeps
  <2>3. CASE Step(c) /\ Disturbs({c})
    <3>1. Running(c)
      BY <2>3, StepIsLive, AloneIs DEF Running
    <3> QED BY <2>3, <3>1, StepKeeps
  <2> QED BY <2>1, <2>2, <2>3
<1>3. \A d \in Calls : CallOK(d)'
  <2>1. ASSUME NEW d \in Calls, d # c PROVE CallOK(d)'
    <3>1. Settled /\ call'[d] = call[d]
      BY <1>2, <2>1 DEF Kept, Moves
    <3> QED BY <1>1, <2>1, <3>1, OthersKeep
  <2>2. CallOK(c)'
    BY <1>2 DEF Kept, CallOK, Live
  <2> QED BY <2>1, <2>2
<1>4. TrieIsBuilt'
  BY DEF IInv, TrieIsBuilt, TrieOf
<1> QED BY <1>2, <1>3, <1>4 DEF IInv, Kept, Settled, Moves

LEMMA ChangeSteps ==
  ASSUME Opaque, IInv, config' = config, trie' = trie, Change, Disturbs({})
  PROVE  IInv'
<1>1. Settled
  BY ChangeSettles
<1>2. call' = call /\ changes < MaxChanges /\ changes' = changes + 1
  BY DEF Change
<1>3. \A d \in Calls : (Live(d) /\ alone'[d]) => alone[d] /\ tree' = tree
  BY AloneIs
<1>4. ASSUME NEW d \in Calls PROVE CallOK(d)'
  <2>1. call'[d] = call[d]
    BY <1>2
  <2> QED BY <1>1, <1>3, <2>1, OthersKeep
<1>5. TrieIsBuilt'
  BY DEF IInv, TrieIsBuilt, TrieOf
<1>6. changes' \in 0..MaxChanges
  BY <1>2, BoundsAssumption DEF IInv
<1>7. DOMAIN call' = Calls
  BY <1>2 DEF IInv
<1> QED BY <1>1, <1>4, <1>5, <1>6, <1>7 DEF IInv, Settled

LEMMA InvariantStays == Opaque /\ IInv /\ [Next]_vars => IInv'
<1> SUFFICES ASSUME Opaque, IInv, [Next]_vars PROVE IInv'
  OBVIOUS
<1>1. CASE UNCHANGED vars
  BY <1>1 DEF vars, IInv, TrieIsBuilt, RootsOK, CallOK, Live, Accepted, Straight, Rooted,
              RootFor, NextPath
<1>2. ASSUME roots # Aborted, UNCHANGED <<config, trie>>, UNCHANGED changes, NEW c \in Calls,
             \/ Opens(c)
             \/ ((\E r \in Requests[c] : Start(c, r)) \/ Step(c)) /\ Disturbs({c})
      PROVE  IInv'
  BY <1>2, CallSteps
<1>3. CASE Change /\ Disturbs({}) /\ UNCHANGED <<config, trie>>
  BY <1>3, ChangeSteps
<1> QED BY <1>1, <1>2, <1>3, Zenon DEF Next, Rest

(* In any tree, with any requests, in whatever order the calls run and     *)
(* whatever another program does: every entry stays in a directory, and    *)
(* a handle is on a directory or on none.                                  *)
THEOREM SandboxTyped ==
  ASSUME Opaque
  PROVE  Spec => []TypeOK
<1>1. IInv /\ [Next]_vars => IInv'
  BY InvariantStays
<1> QED BY InvariantStarts, <1>1, InvariantHolds, PTL DEF Spec

(* A path that resolve accepts is under the root whose handle goes with    *)
(* it, and if links are not followed and nobody changed the tree           *)
(* meanwhile, it is the path that was asked for.                           *)
THEOREM AcceptedPaths ==
  ASSUME Opaque
  PROVE  Spec => []AcceptedIsCanonical
<1>1. IInv /\ [Next]_vars => IInv'
  BY InvariantStays
<1> QED BY InvariantStarts, <1>1, InvariantHolds, PTL DEF Spec
=============================================================================
