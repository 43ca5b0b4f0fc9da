---------------------------- MODULE MCSandboxPaths ----------------------------
(* SandboxPaths with two calls on two small trees. *)
EXTENDS SandboxPaths

R == <<"r">>
S == <<"r", "s">>
In(dir, name) == Append(dir, name)

Dirs(paths) == [p \in paths |-> Dir]

MCTrees ==
  { (In(R, "f") :> File(<<1>>)) @@ (In(S, "g") :> File(<<2, 2>>))
      @@ (In(R, ".h") :> File(<<3>>)) @@ (In(R, "l") :> Link(Rel(<<"s">>)))
      @@ (<<"a">> :> Link(From(R))) @@ Dirs({<<>>, R, S}),
    (In(R, "f") :> File(<<1, 1, 1>>)) @@ (In(S, "g") :> File(<<2>>))
      @@ (In(S, "l") :> Link(From(In(R, "f")))) @@ (In(R, "n") :> Link(Rel(<<"new">>)))
      @@ (In(S, "n") :> Link(Rel(<<"new">>)))
      @@ (In(R, "o") :> Link(From(<<"x", "f">>))) @@ (<<"x", "f">> :> File(<<4>>))
      @@ Dirs({<<>>, R, S, <<"x">>}) }

MCLookedUp == {<<>>, <<"x">>, R, S, In(R, "f"), In(S, "g"), <<"s", "r">>}

MCNameOrder == <<".h", "a", "f", "g", "l", "n", "new", "o", "r", "s", "x">>

MCConfigs ==
  { [dirs |-> <<Rel(<<".">>)>>, follow |-> FALSE],
    [dirs |-> <<From(R), From(S)>>, follow |-> FALSE],
    [dirs |-> <<From(R), From(S)>>, follow |-> TRUE],
    [dirs |-> <<From(<<"a">>)>>, follow |-> TRUE] }

MCChanges ==
  { [do |-> "put", at |-> In(R, "f"), node |-> Link(Rel(<<"s", "g">>))],
    [do |-> "remove", at |-> In(S, "g")],
    [do |-> "move", at |-> R, to |-> <<"x">>],
    [do |-> "move", at |-> S, to |-> In(R, "new")] }

(* No property looks back at a call that is over. *)
MCView ==
  <<config, roots, tree, changes, alone, [c \in Calls |-> IF Live(c) THEN call[c] ELSE call[c].pc]>>

One(tools, paths) == {[tool |-> t, paths |-> <<p>>] : t \in tools, p \in paths}

Two(tools, pairs) == {[tool |-> t, paths |-> p] : t \in tools, p \in pairs}

Readings ==
  One({"hash_file"}, {Rel(<<"f">>), From(In(R, "l"))})
  \cup One({"read_media_file"}, {Rel(<<"s", "l">>)})
  \cup One({"resources/read"}, {Rel(<<"l", "g">>), Rel(<<"s", "..", "o">>)})
  \cup One({"read_file_range"}, {Rel(<<"s", ".", "g">>)})
  \cup One({"get_file_info"}, {Rel(<<"s", "g">>), From(<<"x", "f">>)})
  \cup One({"list_directory"}, {Rel(<<".">>)})
  \cup {[tool |-> "directory_tree", paths |-> <<Rel(<<".">>)>>, exclude |-> {<<"s">>}],
        [tool |-> "search_files", paths |-> <<Rel(<<"s">>)>>, exclude |-> {}],
        [tool |-> "list_directory_with_sizes", paths |-> <<Rel(<<"s">>)>>, exclude |-> {}],
        [tool |-> "grep_files", paths |-> <<Rel(<<".">>)>>, exclude |-> {}],
        [tool |-> "get_disk_usage", paths |-> <<Rel(<<".">>)>>, exclude |-> {}],
        [tool |-> "resources/list", paths |-> <<>>]}

Disturbing ==
  {[tool |-> "write_file", paths |-> <<Rel(<<"n">>)>>, text |-> <<5>>],
   [tool |-> "delete_directory", paths |-> <<Rel(<<"s">>)>>, recursive |-> TRUE]}
  \cup Two({"move_file"}, {<<Rel(<<"f">>), Rel(<<"s", "new">>)>>, <<Rel(<<"s">>), Rel(<<"new">>)>>})
  \cup Two({"create_symlink"}, {<<Rel(<<"new">>), Rel(<<"s", "new">>)>>})

Writings ==
  Disturbing
  \cup {[tool |-> "delete_directory", paths |-> <<Rel(<<".">>)>>, recursive |-> TRUE]}
  \cup One({"delete_file"}, {Rel(<<"f">>)})
  \cup One({"create_directory"}, {Rel(<<"new">>), Rel(<<"new", "s">>), Rel(<<"n">>)})
  \cup Two({"move_file"}, {<<Rel(<<"n">>), Rel(<<"s", "n">>)>>})
  \cup Two({"copy_file"}, {<<Rel(<<"f">>), Rel(<<"n">>)>>})

(* Two calls that change nothing do not meet, and the second changes what  *)
(* the first may have looked up.                                           *)
MCRequests == <<Readings \cup Writings, Disturbing>>
=============================================================================
