----------------------------- MODULE SandboxPaths -----------------------------
(***************************************************************************)
(* The sandbox with the tools that resolve paths and walk directories, and *)
(* the resources, as concurrent calls, while another program changes the   *)
(* tree.                                                                   *)
(***************************************************************************)
EXTENDS Resources

CONSTANT LookedUp  \* the paths the trie is asked about in TrieFindsRoots

Names == Range(NameOrder)

(* Paths as clients and links give them. *)
Named == [abs : BOOLEAN, names : Seq(Names \cup {".", ".."})]

IsNode(node) ==
  /\ node.kind \in {"dir", "file", "link"}
  /\ node.kind = "link" => node.to \in Named

(* A tree is finite, and every entry of it is in a directory. *)
WellFormed(t) ==
  /\ IsFiniteSet(DOMAIN t)
  /\ \A path \in DOMAIN t :
       /\ path \in Seq(Names)
       /\ IsNode(t[path])
       /\ path # <<>> => Is(t, Front(path), "dir")

ASSUME LookedUpArePaths == LookedUp \subseteq Seq(Names)

ASSUME NamesAssumption ==
  /\ Names \cap {".", ".."} = {} /\ NoPath \notin Seq(Names)
  /\ Cwd \in Seq(Names) /\ NameOrder \in Seq(Names)

ASSUME BoundsAssumption ==
  /\ MaxHops \in Nat /\ MaxChanges \in Nat /\ MaxTreeDepth \in Nat /\ WalkDepth \in Nat
  /\ PageSize \in Nat \ {0} /\ MaxListedFiles \in Nat
  /\ Aborted # Unopened

ASSUME ConfigsAssumption ==
  \A c \in Configs : c.dirs \in Seq(Named) /\ c.follow \in BOOLEAN

ASSUME TreesAssumption == \A t \in Trees : WellFormed(t)

(* resources/list has no path, some tools have two, all others have one. *)
ASSUME RequestsAssumption ==
  \A c \in Calls : \A r \in Requests[c] :
    /\ r.paths \in Seq(Named)
    /\ Len(r.paths) = CASE r.tool \in TwoPathTools -> 2
                        [] r.tool = "resources/list" -> 0
                        [] OTHER -> 1

ASSUME ChangesAssumption ==
  \A change \in Changes :
    /\ change.do \in {"put", "remove", "move"} /\ change.at \in Seq(Names)
    /\ change.do = "put" => IsNode(change.node)
    /\ change.do = "move" => change.to \in Seq(Names)

(* Others than `actors` have changed the tree under a running call. *)
Disturbs(actors) ==
  alone' = [d \in Calls |->
              Live(d) => alone[d] /\ (d \in actors \/ (tree' = tree /\ roots' = roots))]

(* The first use of the sandbox opens the roots and disturbs nobody. *)
Opens(c) == Open(c) /\ UNCHANGED alone

Step(c) ==
  \/ CheckLinks(c) \/ Canonicalize(c)
  \/ ResolveAgain(c) \/ Rename(c) \/ Copy(c) \/ CreateSymlink(c)
  \/ FindByHandle(c) \/ ListByHandle(c) \/ WriteByHandle(c) \/ CreateDirectory(c)
  \/ DeleteFileFound(c) \/ DeleteFile(c) \/ DeleteDirectory(c)
  \/ ReadByPath(c) \/ StatByHandle(c) \/ ReadAfterStat(c) \/ ReadResource(c)
  \/ WalkByPath(c) \/ ListResources(c)

Rest ==
  /\ roots = Aborted \/ \A c \in Calls : call[c].pc = "done"
  /\ UNCHANGED vars

Next ==
  \/ /\ roots # Aborted
     /\ \/ \E c \in Calls :
             /\ \/ Opens(c)
                \/ ((\E r \in Requests[c] : Start(c, r)) \/ Step(c)) /\ Disturbs({c})
             /\ UNCHANGED changes
        \/ Change /\ Disturbs({})
     /\ UNCHANGED <<config, trie>>
  \/ Rest

Spec == Init /\ [][Next]_vars

-----------------------------------------------------------------------------
(***************************************************************************)
(* Properties.                                                             *)
(***************************************************************************)

(* Every entry is in a directory, and every handle on one or on none. *)
TypeOK ==
  /\ WellFormed(tree)
  /\ \/ roots \in {Unopened, Aborted}
     \/ \A r \in DOMAIN roots : roots[r] = NoPath \/ Is(tree, roots[r], "dir")
  /\ changes \in 0..MaxChanges
  /\ \A c \in Calls : Live(c) => call[c].req \in Requests[c] /\ Len(call[c].got) <= 2

(* longest_prefix gives, of the allowed directories, the nearest one above *)
(* any path, and contains knows whether there is one: a directory above an *)
(* allowed one is not valid, as the unit tests have it (structures.rs:346, *)
(* 358) and against the comment on insert (structures.rs:57-59).           *)
TrieFindsRoots ==
  \A path \in LookedUp : FindsRoot(trie, trie.ends, path)

(* What resolve accepts is under the root whose handle it is given; if     *)
(* links are not followed and nothing changes meanwhile, it is the path    *)
(* that was asked for, with . and .. taken out and no link on the way.     *)
AcceptedIsCanonical ==
  \A c \in Calls : Live(c) =>
    \A i \in 1..Len(call[c].got) :
      LET r == call[c].got[i]
      IN /\ r.root \in trie.ends \cap DOMAIN roots
         /\ IsPrefix(r.root, r.canonical)
         /\ ~config.follow /\ alone[c] =>
              r.canonical = Normal(ToAbs(call[c].req.paths[i]))

(* The allowed directories are where they were at the start, and the       *)
(* handles, if they are open, are on them.                                 *)
RootsInPlace ==
  /\ Range(RootsNow(tree, config.dirs)) = trie.ends
  /\ IF roots = Unopened THEN \A r \in trie.ends : Is(tree, r, "dir")
     ELSE roots # Aborted /\ roots = [r \in trie.ends |-> r]

(* A path leads to a file in an allowed directory, over links only if they *)
(* are followed.                                                           *)
LeadsToFile(names) ==
  LET place == RealPath(tree, names)
  IN /\ Is(tree, place, "file")
     /\ \E root \in trie.ends : IsPrefix(root, place)
     /\ config.follow \/ place = names

Answered(c) == Live(c) /\ call'[c].pc = "done"

(* No path of the call goes through more names than a lookup may: beyond,  *)
(* a lookup from the parent may find what one from the start does not.     *)
InReach(c) ==
  \A i \in DOMAIN call[c].req.paths :
    LET end == Hops(tree, <<>>, FALSE, Normal(ToAbs(call[c].req.paths[i])))[MaxHops]
    IN end.ok => end.todo = <<>>

Undisturbed(c) == alone[c] /\ RootsInPlace /\ InReach(c)

Readers == {"read_file_range", "read_media_file", "hash_file", "resources/read"}

(* A tool that reads answers with the text of the file its path leads to,  *)
(* whether it goes by the handle, by the path or by both in turn, and it   *)
(* fails only if there is no such file or it is too long.                  *)
ReadsWhatIsThere ==
  [][\A c \in Calls :
       (Answered(c) /\ Undisturbed(c) /\ call[c].req.tool \in Readers) =>
         LET names == Normal(ToAbs(call[c].req.paths[1]))
             text == Text(RealPath(tree, names))
             good == /\ LeadsToFile(names)
                     /\ Len(text) <= MaxFileSize
                     /\ call[c].req.tool = "read_file_range" => text # <<>>
         IN /\ call'[c].ok <=> good
            /\ good => call'[c].text = text]_vars

(* What a step has changed. *)
Changed ==
  {p \in DOMAIN tree \cup DOMAIN tree' :
     (p \in DOMAIN tree) # (p \in DOMAIN tree') \/ tree[p] # tree'[p]}

(* What the reported paths of a successful call tell. *)
AsReported(c) ==
  LET one == call[c].got[1].canonical
      two == call[c].got[2].canonical
  IN CASE call[c].req.tool = "write_file" ->
            /\ Changed \subseteq {RealPath(tree', one)}
            /\ tree'[RealPath(tree', one)] = File(call[c].req.text)
       [] call[c].req.tool = "create_directory" ->
            Changed \subseteq {one} /\ Is(tree', one, "dir")
       [] call[c].req.tool \in {"delete_file", "delete_directory"} ->
            Changed = Below(tree, one) /\ one \notin DOMAIN tree'
       [] call[c].req.tool = "move_file" ->
            /\ Changed \subseteq Below(tree, one) \cup Below(tree', two)
            /\ one \notin DOMAIN tree'
            /\ Below(tree', two) = {Moved(p, one, two) : p \in Below(tree, one)}
            /\ \A p \in Below(tree, one) : tree'[Moved(p, one, two)] = tree[p]
       [] call[c].req.tool = "copy_file" ->
            /\ Changed \subseteq {RealPath(tree', two)}
            /\ RealPath(tree', two) # RealPath(tree, one) =>
                 tree'[RealPath(tree', two)] = tree[RealPath(tree, one)]
       [] call[c].req.tool = "create_symlink" ->
            Changed = {two} /\ tree'[two] = Link(From(one))

(* A tool that changes the tree and reports success has changed what is at *)
(* the paths it reports, and nothing else, although the two-path tools     *)
(* report one resolution of their paths and act on another.                *)
ReportsWhatItChanged ==
  [][\A c \in Calls :
       (Answered(c) /\ Undisturbed(c) /\ Changed # {} /\ call'[c].ok) => AsReported(c)]_vars

(* The last page of a listing during which nothing changed, of a tree no   *)
(* path of which is longer than a lookup or a walk goes.                   *)
ListsAll(c) ==
  /\ Answered(c) /\ Undisturbed(c) /\ call[c].req.tool = "resources/list" /\ call'[c].ok
  /\ \A path \in DOMAIN tree : Len(path) <= MaxHops /\ Len(path) <= WalkDepth

(* Every file that resources/list names can be read with resources/read,   *)
(* if it is not too long.                                                  *)
ListedIsReadable ==
  [][\A c \in Calls : ListsAll(c) =>
       \A path \in Range(call'[c].seen) \ {Ui} : LeadsToFile(path)]_vars

(* The files in the allowed directories, without those that are hidden     *)
(* below each of them.                                                     *)
VisibleIn(path) ==
  {i \in 1..Len(config.dirs) :
     LET root == RealPath(tree, ToAbs(config.dirs[i]))
     IN IsPrefix(root, path) /\ ~HiddenBelow(root, path)}

Visible == {path \in DOMAIN tree : tree[path].kind = "file" /\ VisibleIn(path) # {}}

(* The pages together begin with the browser and name every visible file,  *)
(* in the order of their URIs (if links are not followed, once for every   *)
(* allowed directory it is in) unless there are more than MAX_LISTED_FILES.*)
PagesCoverAll ==
  [][\A c \in Calls :
       (ListsAll(c) /\ Cardinality(Entries(tree, config.dirs, config.follow)) <= MaxListedFiles) =>
         LET seen == call'[c].seen
         IN /\ seen[1] = Ui
            /\ Visible \subseteq Range(Tail(seen))
            /\ \A i \in 2..Len(seen) - 1 : ~Before(seen[i + 1], seen[i])
            /\ ~config.follow => \A path \in Range(Tail(seen)) :
                 Cardinality({i \in 2..Len(seen) : seen[i] = path})
                   = Cardinality(VisibleIn(path))]_vars

(* No link and no limit stands in the way of comparing the walks. *)
Comparable(root) ==
  \A path \in Below(tree, root) :
    /\ Len(path) <= MaxHops
    /\ Len(path) <= Len(root) + MaxTreeDepth /\ Len(path) <= Len(root) + WalkDepth
    /\ tree[path].kind = "link" => config.follow /\ ~Is(tree, RealPath(tree, path), "dir")

(* Whatever directory a call is about to walk, the five tools agree on     *)
(* what is in it: search_files and directory_tree show the same files, up  *)
(* to what lies below an excluded directory; grep_files looks into no      *)
(* others; get_disk_usage counts the hidden ones as well; the listing is   *)
(* the first level.                                                        *)
WalksAgree ==
  \A c \in Calls : (At(c, DirTools, "run") /\ ~Hidden(Path(c).canonical)) =>
    LET root == Path(c).canonical
        exclude == call[c].req.exclude
        files(paths) == Files(tree, paths, config.follow)
        search == files(Search(tree, root, config.follow, exclude))
        used == files(Used(tree, root, config.follow))
    IN (Is(tree, root, "dir") /\ Comparable(root)) =>
         /\ Files(tree, TreeOf(tree, root, exclude), TRUE)
              = {p \in search : \A k \in Len(root)..Len(p) : Suffix(UpTo(p, k), root) \notin exclude}
         /\ Grepped(tree, root, config.follow, exclude) \subseteq search
         /\ {p \in used : ~HiddenBelow(root, p) /\ Suffix(p, root) \notin exclude} = search
         /\ \A p \in used : Len(p) = Len(root) + 1 => Listed(tree, root)[p] = "file"
=============================================================================
