------------------------------- MODULE PathTrie -------------------------------
(***************************************************************************)
(* PathTrie (src/src/structures.rs), which tells under which allowed       *)
(* directory a path is.                                                    *)
(*                                                                         *)
(* An absolute path is the sequence of its names.  A node of the trie is   *)
(* the path that leads to it: `nodes` are all of them, `ends` those with   *)
(* is_end.  Canonical paths have neither . nor .. among their names.       *)
(***************************************************************************)
EXTENDS Naturals, Sequences

CONSTANT NoPath  \* what is not a path

UpTo(path, k) == SubSeq(path, 1, k)

Chain(path) == {UpTo(path, k) : k \in 0..Len(path)}

EmptyTrie == [nodes |-> {<<>>}, ends |-> {}]

Insert(trie, path) ==
  [nodes |-> trie.nodes \cup Chain(path), ends |-> trie.ends \cup {path}]

(* The trie after some paths have been inserted, in whatever order. *)
TrieOf(paths) ==
  [nodes |-> {<<>>} \cup UNION {Chain(p) : p \in paths}, ends |-> paths]

(* How many names of a path the loop gets through, and after which of them *)
(* it stands on an end.                                                    *)
Reached(trie, path) ==
  {k \in 0..Len(path) : \A j \in 0..k : UpTo(path, j) \in trie.nodes}

Matches(trie, path) == {k \in Reached(trie, path) : UpTo(path, k) \in trie.ends}

ContainsPath(trie, path) == Matches(trie, path) # {}

(* Mutant: the first match is kept, not the last. *)
LongestPrefixFirst(trie, path) ==
  IF ~ContainsPath(trie, path) THEN NoPath
  ELSE UpTo(path, CHOOSE k \in Matches(trie, path) :
                    \A j \in Matches(trie, path) : j >= k)

LongestPrefix(trie, path) ==
  IF ~ContainsPath(trie, path) THEN NoPath
  ELSE UpTo(path, CHOOSE k \in Matches(trie, path) :
                    \A j \in Matches(trie, path) : j <= k)

-----------------------------------------------------------------------------
(* What the trie is for: the longest of the inserted paths that `path`     *)
(* starts with, and none if there is none.                                 *)
Above(roots, path) == {root \in roots : root \in Chain(path)}

FindsRoot(trie, roots, path) ==
  /\ ContainsPath(trie, path) <=> Above(roots, path) # {}
  /\ ContainsPath(trie, path) =>
       /\ LongestPrefix(trie, path) \in Above(roots, path)
       /\ \A root \in Above(roots, path) : Len(root) <= Len(LongestPrefix(trie, path))
=============================================================================
