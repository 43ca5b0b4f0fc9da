------------------------------ MODULE Resources ------------------------------
(***************************************************************************)
(* resources/list (src/src/resources/mod.rs) and a client that asks for    *)
(* one page after another.  Every page is cut from a scan of its own,      *)
(* which does not use the sandbox.                                         *)
(***************************************************************************)
EXTENDS DirTools, FiniteSetsExt

CONSTANTS
  Ui,             \* the descriptor of the browser, the first of all
  NameOrder,      \* the names as their bytes sort
  PageSize,       \* PAGE_SIZE
  MaxListedFiles  \* MAX_LISTED_FILES

Rank(name) == CHOOSE i \in 1..Len(NameOrder) : NameOrder[i] = name

(* The order of the URIs. *)
Before(p, q) ==
  \/ IsStrictPrefix(p, q)
  \/ \E k \in 1..Len(p) : /\ k <= Len(q) /\ Rank(p[k]) < Rank(q[k])
                          /\ UpTo(p, k - 1) = UpTo(q, k - 1)

(* is_hidden looks at what is below the root. *)
HiddenBelow(root, path) ==
  \E k \in Len(root) + 1..Len(path) : path[k] \in HiddenNames

(* Mutant: where a link leads is not compared with the roots. *)
ShownAny(t, path, allowed, follow) ==
  IF follow THEN {RealPath(t, path)} ELSE {path}

(* The path a file is listed by, if it is under a root. *)
Shown(t, path, allowed, follow) ==
  IF ~follow THEN {path}
  ELSE {p \in {RealPath(t, path)} : \E root \in allowed : IsPrefix(root, p)}

(* The roots as they are now. *)
RootsNow(t, dirs) == [i \in 1..Len(dirs) |-> RealPath(t, ToAbs(dirs[i]))]

(* The files below a root. *)
FilesBelow(t, root, follow) ==
  Files(t, WalkDir(t, root, follow, LAMBDA p : HiddenBelow(root, p)), follow)

(* What a full scan comes by, root after root: two entries may show the    *)
(* same file.                                                              *)
Entries(t, dirs, follow) ==
  LET now == RootsNow(t, dirs)
  IN UNION {{e \in {i} \X FilesBelow(t, now[i], follow) \X DOMAIN t :
               e[3] \in Shown(t, e[2], Range(now), follow)} : i \in 1..Len(dirs)}

(* scan_resources stops at MAX_LISTED_FILES, in the order of the walk. *)
ScanResources(t, dirs, follow) ==
  LET all == Entries(t, dirs, follow)
  IN IF Cardinality(all) <= MaxListedFiles THEN {all}
     ELSE {kept \in kSubset(MaxListedFiles, all) :
             \A e \in kept, f \in all \ kept : e[1] <= f[1]}

(* How many entries come before a path, and how many not after it. *)
CountBefore(entries, path) == Cardinality({e \in entries : Before(e[3], path)})
CountUpTo(entries, path) == Cardinality({e \in entries : ~Before(path, e[3])})

(* The paths of the entries, sorted: fewer than i come before the i-th.    *)
Sorted(entries) ==
  [i \in 1..Cardinality(entries) |->
     CHOOSE path \in {e[3] : e \in entries} :
       CountBefore(entries, path) < i /\ i <= CountUpTo(entries, path)]

(* The entries in the order of their URIs, behind the browser's own. *)
Listing(entries) == <<Ui>> \o Sorted(entries)

(* Mutant: the next page begins one too late. *)
NextCursorLate(all, cursor) ==
  IF cursor + PageSize < Len(all) THEN cursor + PageSize + 1 ELSE 0

(* nextCursor; 0 when there is none *)
NextCursor(all, cursor) ==
  IF cursor + PageSize < Len(all) THEN cursor + PageSize ELSE 0

(* A page, after which the client asks for the next one, if there is. *)
ListResources(c) ==
  /\ At(c, {"resources/list"}, "scan")
  /\ IF NoPath \in Range(RootsNow(tree, config.dirs)) THEN Fails(c)
     ELSE \E kept \in ScanResources(tree, config.dirs, config.follow) :
            LET all == Listing(kept)
                end == Min({call[c].cursor + PageSize, Len(all)})
                seen == call[c].seen \o SubSeq(all, call[c].cursor + 1, end)
                next == NextCursor(all, call[c].cursor)
            IN IF call[c].cursor > Len(all) THEN Fails(c)
               ELSE IF next = 0 THEN Answers(c, [ok |-> TRUE, seen |-> seen])
               ELSE Steps(c, [cursor |-> next, seen |-> seen])
  /\ Same
=============================================================================
