------------------------------- MODULE FileTree -------------------------------
(***************************************************************************)
(* A tree of directories, files and symbolic links, and what the system    *)
(* calls under Resolved::* and std::fs do to it (external: the operating   *)
(* system, cap-std, walkdir).                                              *)
(*                                                                         *)
(* A tree is a function from the absolute paths that exist to their nodes. *)
(* A path as a client or a link gives it is a record: names, among them .  *)
(* and .., and whether they start at the root.                             *)
(***************************************************************************)
EXTENDS PathTrie, SequencesExt, Functions, TLC

CONSTANT MaxHops  \* how many names a lookup may go through (40 links in Linux)

Dir == [kind |-> "dir"]
File(text) == [kind |-> "file", text |-> text]
Link(to) == [kind |-> "link", to |-> to]

From(names) == [abs |-> TRUE, names |-> names]
Rel(names) == [abs |-> FALSE, names |-> names]

Is(tree, path, kind) == path \in DOMAIN tree /\ tree[path].kind = kind

Children(tree, dir) == {p \in DOMAIN tree : p # <<>> /\ Front(p) = dir}

(* Mutant: a directory goes without what is in it. *)
BelowOnly(tree, path) == DOMAIN tree \cap {path}

Below(tree, path) == {p \in DOMAIN tree : IsPrefix(path, p)}

-----------------------------------------------------------------------------
(***************************************************************************)
(* Lookup, name by name, links followed.  `base` is where .. stops; a      *)
(* lookup `beneath` it fails there, and at an absolute link                *)
(* (RESOLVE_BENEATH).                                                      *)
(***************************************************************************)

(* The next name: a link is read, an entry entered. *)
Enter(tree, base, beneath, at, name, rest) ==
  LET next == Append(at, name)
      to == tree[next].to
  IN IF Is(tree, next, "link")
       THEN [at |-> IF to.abs THEN base ELSE at, todo |-> to.names \o rest,
             ok |-> ~(to.abs /\ beneath)]
       ELSE [at |-> next, todo |-> rest, ok |-> Is(tree, next, "dir") \/ rest = <<>>]

Up(base, beneath, at, rest) ==
  IF at = base THEN [at |-> at, todo |-> rest, ok |-> ~beneath]
  ELSE [at |-> Front(at), todo |-> rest, ok |-> TRUE]

Advance(tree, base, beneath, s) ==
  IF ~s.ok \/ s.todo = <<>> THEN s
  ELSE CASE Head(s.todo) = "." -> [s EXCEPT !.todo = Tail(@)]
         [] Head(s.todo) = ".." -> Up(base, beneath, s.at, Tail(s.todo))
         [] OTHER -> Enter(tree, base, beneath, s.at, Head(s.todo), Tail(s.todo))

(* Where a lookup is after each name. *)
Hops(tree, base, beneath, names) ==
  LET hop[i \in 0..MaxHops] ==
        IF i = 0 THEN [at |-> base, todo |-> names, ok |-> TRUE]
        ELSE Advance(tree, base, beneath, hop[i - 1])
  IN hop

(* Where the names lead: a path whose last name need not exist. *)
PlaceOf(tree, base, beneath, names) ==
  LET end == Hops(tree, base, beneath, names)[MaxHops]
  IN IF Is(tree, base, "dir") /\ end.ok /\ end.todo = <<>> THEN end.at ELSE NoPath

Place(tree, path) == PlaceOf(tree, <<>>, FALSE, path)

(* canonicalize *)
RealPath(tree, path) ==
  LET place == Place(tree, path) IN IF place \in DOMAIN tree THEN place ELSE NoPath

(* The place of an entry that is itself not followed. *)
EntryPlace(tree, base, beneath, names) ==
  IF names = <<>> THEN NoPath
  ELSE LET dir == PlaceOf(tree, base, beneath, Front(names))
       IN IF Is(tree, dir, "dir") THEN Append(dir, Last(names)) ELSE NoPath

-----------------------------------------------------------------------------
(***************************************************************************)
(* Changes, each with its condition.                                       *)
(***************************************************************************)

Put(tree, path, node) ==
  [p \in DOMAIN tree \cup {path} |-> IF p = path THEN node ELSE tree[p]]

Without(tree, paths) == Restrict(tree, DOMAIN tree \ paths)

MayWrite(tree, place) ==
  place # NoPath /\ (place \in DOMAIN tree => tree[place].kind = "file")

(* create_dir, where there is nothing yet, not even a dangling link *)
Mkdir(tree, place) ==
  IF place = NoPath \/ place \in DOMAIN tree THEN tree ELSE Put(tree, place, Dir)

(* create_dir_all *)
MkdirAll(tree, base, names) ==
  LET made[k \in 0..Len(names)] ==
        IF k = 0 THEN tree
        ELSE LET t == made[k - 1] IN Mkdir(t, EntryPlace(t, base, TRUE, UpTo(names, k)))
  IN made[Len(names)]

MayRename(tree, from, to) ==
  /\ from \in DOMAIN tree /\ to # NoPath
  /\ Is(tree, Front(to), "dir")
  /\ ~IsStrictPrefix(from, to)
  /\ (to \in DOMAIN tree /\ to # from) =>
       \/ tree[from].kind # "dir" /\ tree[to].kind # "dir"
       \/ tree[from].kind = "dir" /\ tree[to].kind = "dir" /\ Children(tree, to) = {}

Suffix(path, prefix) == SubSeq(path, Len(prefix) + 1, Len(path))

(* Where a path is once `from` has become `to`. *)
Moved(path, from, to) ==
  IF IsPrefix(from, path) THEN to \o Suffix(path, from) ELSE path

Renamed(tree, from, to) ==
  LET moved == {to \o Suffix(p, from) : p \in Below(tree, from)}
      kept == DOMAIN tree \ (Below(tree, from) \cup Below(tree, to))
  IN [p \in moved \cup kept |-> IF p \in moved THEN tree[from \o Suffix(p, to)] ELSE tree[p]]
=============================================================================
