------------------------------- MODULE DirTools -------------------------------
(***************************************************************************)
(* The tools that walk a directory (src/src/actions/dirs.rs): what each of *)
(* them finds in a tree, and the calls.  walkdir is external.              *)
(*                                                                         *)
(* A walk gives the paths it goes through, which with links followed are   *)
(* not the real ones.                                                      *)
(***************************************************************************)
EXTENDS PathTools, FiniteSets

CONSTANTS
  HiddenNames,  \* the names that start with a dot
  BinaryNames,  \* the names with one of BINARY_EXTS
  MaxTreeDepth, \* MAX_TREE_DEPTH
  WalkDepth     \* no walk goes deeper (a bound)

(* What stands at the end of a path of a walk. *)
EntryKind(t, path, follow) ==
  LET place == IF follow THEN RealPath(t, path) ELSE path
  IN IF place \in DOMAIN t THEN t[place].kind ELSE "none"

(* walkdir does not go into a link to a directory it is in. *)
Loops(t, root, path) ==
  \E k \in Len(root)..Len(path) - 1 : RealPath(t, UpTo(path, k)) = RealPath(t, path)

(* The entries of the directories among some paths. *)
Inside(t, follow, paths) ==
  UNION {{Append(dir, Last(p)) : p \in Children(t, RealPath(t, dir))} :
           dir \in {d \in paths : EntryKind(t, d, follow) = "dir"}}

(* What is at most so many levels below the root, without what is skipped  *)
(* and what is in it.                                                      *)
Walk(t, root, follow, depth, Skip(_)) ==
  LET seen[i \in 0..depth] ==
        IF i = 0 THEN {p \in {root} : ~Skip(p)}
        ELSE LET before == seen[i - 1]
             IN before \cup {p \in Inside(t, follow, before) : ~Skip(p)}
  IN seen[depth]

Hidden(path) == path # <<>> /\ Last(path) \in HiddenNames

(* What walkdir goes through; it reports an entry it cannot look at as an  *)
(* error, which the tools leave out.                                       *)
WalkDir(t, root, follow, Skip(_)) ==
  {path \in Walk(t, root, follow, WalkDepth,
                 LAMBDA p : Skip(p) \/ (follow /\ Loops(t, root, p))) :
     EntryKind(t, path, follow) # "none"}

Files(t, paths, follow) == {path \in paths : EntryKind(t, path, follow) = "file"}

-----------------------------------------------------------------------------
(***************************************************************************)
(* The tools.  `exclude` are the relative paths the exclude patterns match;*)
(* the pattern of search_files matches everything.                         *)
(***************************************************************************)

(* list_directory, list_directory_with_sizes: hidden entries too, links as *)
(* files.                                                                  *)
Listed(t, root) == [p \in Children(t, root) |-> IF t[p].kind = "dir" THEN "dir" ELSE "file"]

(* search_files, which goes into what it leaves out *)
Search(t, root, follow, exclude) ==
  {path \in WalkDir(t, root, follow, Hidden) : Suffix(path, root) \notin exclude}

(* grep_files: the files it looks into. *)
Grepped(t, root, follow, exclude) ==
  {path \in Files(t, Search(t, root, follow, exclude), follow) :
     Last(path) \notin BinaryNames /\ Small(RealPath(t, path))}

(* get_disk_usage *)
Used(t, root, follow) == WalkDir(t, root, follow, LAMBDA path : FALSE)

(* Mutant: hidden entries are shown. *)
SkippedByTreeLess(root, exclude, path) == Suffix(path, root) \in exclude

SkippedByTree(root, exclude, path) ==
  Suffix(path, root) \in exclude \/ (path # root /\ Hidden(path))

(* directory_tree: prunes what it leaves out, and follows every link, as   *)
(* deep as it goes.                                                        *)
TreeOf(t, root, exclude) ==
  {path \in Walk(t, root, TRUE, MaxTreeDepth, LAMBDA p : SkippedByTree(root, exclude, p)) :
     EntryKind(t, path, TRUE) # "none"}

-----------------------------------------------------------------------------
(* The calls go by path.  A walk is one step: the properties are about     *)
(* walks during which nothing changes.                                     *)
DirTools == {"list_directory_with_sizes", "search_files", "directory_tree",
             "grep_files", "get_disk_usage"}

WalkOf(c) ==
  LET root == Path(c).canonical
      exclude == call[c].req.exclude
  IN CASE call[c].req.tool = "list_directory_with_sizes" -> DOMAIN Listed(tree, root)
       [] call[c].req.tool = "search_files" -> Search(tree, root, config.follow, exclude)
       [] call[c].req.tool = "directory_tree" -> TreeOf(tree, root, exclude)
       [] call[c].req.tool = "grep_files" -> Grepped(tree, root, config.follow, exclude)
       [] call[c].req.tool = "get_disk_usage" -> Used(tree, root, config.follow)

(* Only a listing needs the directory: the others have nothing to show.    *)
WalkByPath(c) ==
  /\ At(c, DirTools, "run")
  /\ IF call[c].req.tool = "list_directory_with_sizes" /\ ~Is(tree, OpenPlace(c), "dir")
       THEN Fails(c) ELSE Answers(c, [ok |-> TRUE, found |-> WalkOf(c)])
  /\ Same
=============================================================================
