------------------------------- MODULE Sandbox -------------------------------
(***************************************************************************)
(* The sandbox (src/src/validation.rs, config.rs): the allowed             *)
(* directories, the handles on them, and how the path of a request becomes *)
(* a handle and a relative path, while other calls and other programs      *)
(* change the tree.                                                        *)
(*                                                                         *)
(* The trie of the allowed directories is built when the process starts,   *)
(* the handles are opened at the first use.  A handle stays on its         *)
(* directory when that is moved.                                           *)
(***************************************************************************)
EXTENDS FileTree

CONSTANTS
  Calls,      \* requests, numbered as they come in
  Requests,   \* Requests[c]: what call c may ask for
  Configs,    \* allowed_directories (a sequence) and follow_symlinks
  Trees,      \* the trees there may be at the start
  Cwd,        \* the directory the server runs in
  NoRequest,  \* a call that has not been made
  Unopened,   \* the handles before the first use
  Aborted,    \* the handles when they could not be opened: the process ended
  Changes,    \* what another program may do to the tree
  MaxChanges  \* how often it does (a bound)

VARIABLES
  config,   \* the configuration
  trie,     \* allowed_trie
  roots,    \* canonical path of an allowed directory -> where its handle is
  tree,     \* the file system
  call,     \* what each call asks, how far it is and what it was answered
  changes,  \* how often another program has changed the tree
  alone     \* history: nobody else has changed the tree while the call ran

vars == <<config, trie, roots, tree, call, changes, alone>>

(* to_abs *)
ToAbs(path) == IF path.abs THEN path.names ELSE Cwd \o path.names

(* normalize_path *)
WithName(done, name) ==
  CASE name = ".." -> IF done = <<>> THEN done ELSE Front(done)
    [] name = "." -> done
    [] OTHER -> Append(done, name)

Normal(names) ==
  LET done[k \in 0..Len(names)] ==
        IF k = 0 THEN <<>> ELSE WithName(done[k - 1], names[k])
  IN done[Len(names)]

(* build_allowed_trie: a path that does not resolve goes in as it is. *)
RootOf(t, path) ==
  IF RealPath(t, ToAbs(path)) # NoPath THEN RealPath(t, ToAbs(path))
  ELSE SelectSeq(ToAbs(path), LAMBDA name : name \notin {".", ".."})

BuildAllowedTrie(t, dirs) == TrieOf({RootOf(t, path) : path \in Range(dirs)})

Idle == [req |-> NoRequest, pc |-> "idle", got |-> <<>>]

Live(c) == call[c].pc \notin {"idle", "done"}

Init ==
  /\ config \in Configs
  /\ tree \in Trees
  /\ trie = BuildAllowedTrie(tree, config.dirs)
  /\ roots = Unopened
  /\ call = [c \in Calls |-> Idle]
  /\ changes = 0
  /\ alone = [c \in Calls |-> TRUE]

-----------------------------------------------------------------------------
(***************************************************************************)
(* The parts of a step.                                                    *)
(***************************************************************************)

At(c, tools, pc) == Live(c) /\ call[c].pc = pc /\ call[c].req.tool \in tools

With(record, fields) ==
  [f \in DOMAIN record \cup DOMAIN fields |->
     IF f \in DOMAIN fields THEN fields[f] ELSE record[f]]

Steps(c, fields) == call' = [call EXCEPT ![c] = With(@, fields)]

(* The outcome, and what is left of a call. *)
Answers(c, answer) ==
  call' = [call EXCEPT ![c] = With([req |-> @.req, pc |-> "done", got |-> @.got], answer)]

Fails(c) == Answers(c, [ok |-> FALSE])
Succeeds(c) == Answers(c, [ok |-> TRUE])

(* A handle is on its directory, wherever that is now, if it still is. *)
Handles(t, Where(_)) ==
  IF roots \in {Unopened, Aborted} THEN roots
  ELSE [r \in DOMAIN roots |->
          IF roots[r] = NoPath \/ ~Is(t, Where(roots[r]), "dir") THEN NoPath ELSE Where(roots[r])]

Unmoved(path) == path

Becomes(t) == tree' = t /\ roots' = Handles(t, Unmoved)

Renames(from, to) ==
  /\ tree' = Renamed(tree, from, to)
  /\ roots' = Handles(tree', LAMBDA path :
                 IF IsPrefix(to, path) /\ from # to THEN NoPath ELSE Moved(path, from, to))

Same == UNCHANGED <<tree, roots>>

-----------------------------------------------------------------------------
(***************************************************************************)
(* Resolved: `canonical`, and the root its handle is on.                   *)
(***************************************************************************)

(* Mutant: the parent is enough. *)
CanonicalOrParentLexical(t, path) ==
  IF path = <<>> \/ RealPath(t, Front(path)) = NoPath THEN path
  ELSE Append(RealPath(t, Front(path)), Last(path))

(* canonicalize_or_parent *)
CanonicalOrParent(t, path) ==
  IF RealPath(t, path) # NoPath THEN RealPath(t, path)
  ELSE IF path = <<>> \/ RealPath(t, Front(path)) = NoPath THEN NoPath
  ELSE Append(RealPath(t, Front(path)), Last(path))

(* Mutant: only the last name is looked at. *)
HasLinkLast(t, path) == Is(t, path, "link")

(* check_symlinks_in_path *)
HasLink(t, path) == \E k \in 1..Len(path) : Is(t, UpTo(path, k), "link")

RootFor(path) == LongestPrefix(trie, path)

(* The directory a handle operation starts from, and the names it follows  *)
(* from there; none for the root itself, where the code says ".".          *)
HandleOf(r) == roots[r.root]
RelOf(r) == Suffix(r.canonical, r.root)

(* Where a handle operation on a resolved path gets to. *)
HandlePlace(r) == PlaceOf(tree, HandleOf(r), TRUE, RelOf(r))
HandleEntry(r) == EntryPlace(tree, HandleOf(r), TRUE, RelOf(r))

(* What metadata finds there. *)
Found(r, kind) == Is(tree, HandlePlace(r), kind)

-----------------------------------------------------------------------------
(***************************************************************************)
(* The steps every call begins with.                                       *)
(***************************************************************************)

(* The path a call resolves next. *)
NextPath(c) == Normal(ToAbs(call[c].req.paths[Len(call[c].got) + 1]))

Start(c, r) ==
  /\ call[c] = Idle
  /\ \A d \in Calls : d < c => call[d] # Idle
  /\ call' = [call EXCEPT ![c] =
       [req |-> r, pc |-> IF r.tool = "resources/list" THEN "scan" ELSE "open",
        got |-> <<>>, cursor |-> 0, seen |-> <<>>]]
  /\ Same

(* Config::sandbox: the first call that needs the handles opens them, and  *)
(* a directory that cannot be opened ends the process (panic = "abort").   *)
Open(c) ==
  /\ Live(c) /\ call[c].pc = "open"
  /\ IF roots # Unopened THEN UNCHANGED roots
     ELSE LET opened == {RealPath(tree, ToAbs(path)) : path \in Range(config.dirs)}
          IN roots' = IF \A root \in opened : Is(tree, root, "dir")
                        THEN [root \in opened |-> root] ELSE Aborted
  /\ Steps(c, [pc |-> "check"])
  /\ UNCHANGED tree

CheckLinks(c) ==
  /\ Live(c) /\ call[c].pc = "check"
  /\ IF ~config.follow /\ HasLink(tree, NextPath(c)) THEN Fails(c)
     ELSE Steps(c, [pc |-> "canon"])
  /\ Same

(* The rest of Sandbox::resolve. *)
Canonicalize(c) ==
  /\ Live(c) /\ call[c].pc = "canon"
  /\ LET path == CanonicalOrParent(tree, NextPath(c))
         got == Append(call[c].got, [canonical |-> path, root |-> RootFor(path)])
     IN IF path = NoPath \/ RootFor(path) \notin DOMAIN roots THEN Fails(c)
        ELSE Steps(c, [got |-> got,
                       pc |-> IF Len(got) < Len(call[c].req.paths) THEN "check" ELSE "run"])
  /\ Same

-----------------------------------------------------------------------------
(***************************************************************************)
(* Sandbox::rename, copy and create_symlink resolve both paths once more,  *)
(* without a look at the links.                                            *)
(***************************************************************************)

TwoPathTools == {"move_file", "copy_file", "create_symlink"}

PathAgain(c, i) == CanonicalOrParent(tree, Normal(ToAbs(call[c].req.paths[i])))

ResolveAgain(c) ==
  /\ At(c, TwoPathTools, "run")
  /\ LET src == PathAgain(c, 1)
         dst == PathAgain(c, 2)
         tool == call[c].req.tool
         across == tool = "copy_file" \/ (tool = "move_file" /\ RootFor(src) # RootFor(dst))
     IN IF \/ NoPath \in {src, dst}
           \/ NoPath \in {RootFor(src), RootFor(dst)}
           \/ (tool = "move_file" /\ RealPath(tree, dst) # NoPath)
           \/ (~config.follow /\ across /\ (HasLink(tree, src) \/ HasLink(tree, dst)))
           \/ (tool = "move_file" /\ ~across /\ RootFor(src) \notin DOMAIN roots)
          THEN Fails(c)
          ELSE Steps(c, [pc |-> "apply", src |-> src, dst |-> dst])
  /\ Same

(* Within a root by its handle, from one root to another by path. *)
Rename(c) ==
  /\ At(c, {"move_file"}, "apply")
  /\ LET src == call[c].src
         dst == call[c].dst
         here == [canonical |-> src, root |-> RootFor(src)]
         there == [canonical |-> dst, root |-> RootFor(dst)]
         from == IF here.root = there.root THEN HandleEntry(here)
                 ELSE EntryPlace(tree, <<>>, FALSE, src)
         to == IF here.root = there.root THEN HandleEntry(there)
               ELSE EntryPlace(tree, <<>>, FALSE, dst)
     IN IF MayRename(tree, from, to) THEN Renames(from, to) /\ Succeeds(c)
        ELSE Same /\ Fails(c)

(* std::fs::copy opens the source and truncates the destination. *)
Copy(c) ==
  /\ At(c, {"copy_file"}, "apply")
  /\ LET from == RealPath(tree, call[c].src)
         to == Place(tree, call[c].dst)
     IN IF Is(tree, from, "file") /\ MayWrite(tree, to)
          THEN /\ Becomes(Put(tree, to, IF from = to THEN File(<<>>) ELSE tree[from]))
               /\ Succeeds(c)
          ELSE Same /\ Fails(c)

(* Mutant: the arguments of symlink are swapped. *)
CreateSymlinkSwapped(c) ==
  /\ At(c, {"create_symlink"}, "apply")
  /\ LET place == EntryPlace(tree, <<>>, FALSE, call[c].src)
     IN IF place # NoPath /\ place \notin DOMAIN tree
          THEN Becomes(Put(tree, place, Link(From(call[c].dst)))) /\ Succeeds(c)
          ELSE Same /\ Fails(c)

CreateSymlink(c) ==
  /\ At(c, {"create_symlink"}, "apply")
  /\ LET place == EntryPlace(tree, <<>>, FALSE, call[c].dst)
     IN IF place # NoPath /\ place \notin DOMAIN tree
          THEN Becomes(Put(tree, place, Link(From(call[c].src)))) /\ Succeeds(c)
          ELSE Same /\ Fails(c)

-----------------------------------------------------------------------------
(* Another program puts a node at a path, removes what is there, or moves  *)
(* it away.                                                                *)
Change ==
  /\ changes < MaxChanges
  /\ changes' = changes + 1
  /\ \E change \in Changes :
       /\ change.at \in DOMAIN tree \/ Is(tree, Front(change.at), "dir")
       /\ CASE change.do = "put" ->
                 /\ Below(tree, change.at) \subseteq {change.at}
                 /\ Becomes(Put(tree, change.at, change.node))
            [] change.do = "remove" -> Becomes(Without(tree, Below(tree, change.at)))
            [] change.do = "move" ->
                 /\ MayRename(tree, change.at, change.to)
                 /\ Renames(change.at, change.to)
  /\ UNCHANGED call
=============================================================================
