------------------------------- MODULE PathTools -------------------------------
(***************************************************************************)
(* File tools that have one path (src/src/actions/files.rs), and           *)
(* resources/read (src/src/resources/mod.rs), with respect to which file   *)
(* they get at: by the handle of the root, by the canonical path, or by    *)
(* one and then the other.  Every awaited closure is a step.               *)
(***************************************************************************)
EXTENDS Sandbox

CONSTANT MaxFileSize  \* max_file_size, in tokens

Path(c) == call[c].got[1]

Text(place) == tree[place].text

(* What is at the canonical path, for std::fs. *)
OpenPlace(c) == RealPath(tree, Path(c).canonical)

WithText(c, place) ==
  IF Is(tree, place, "file") THEN Answers(c, [ok |-> TRUE, text |-> Text(place)])
  ELSE Fails(c)

-----------------------------------------------------------------------------
(***************************************************************************)
(* By the handle alone.                                                    *)
(***************************************************************************)

(* set_permissions: permissions are left out of the model, so all it does  *)
(* is find the file.                                                       *)
FindOnly == {"get_file_info", "set_permissions"}

FindByHandle(c) ==
  /\ At(c, FindOnly, "run")
  /\ IF Found(Path(c), "file") \/ Found(Path(c), "dir") THEN Succeeds(c) ELSE Fails(c)
  /\ Same

ListByHandle(c) ==
  /\ At(c, {"list_directory"}, "run")
  /\ IF Found(Path(c), "dir") THEN Succeeds(c) ELSE Fails(c)
  /\ Same

WriteByHandle(c) ==
  /\ At(c, {"write_file"}, "run")
  /\ IF MayWrite(tree, HandlePlace(Path(c)))
       THEN Becomes(Put(tree, HandlePlace(Path(c)), File(call[c].req.text))) /\ Succeeds(c)
       ELSE Same /\ Fails(c)

CreateDirectory(c) ==
  /\ At(c, {"create_directory"}, "run")
  /\ LET t == IF HandleOf(Path(c)) = NoPath THEN tree
              ELSE MkdirAll(tree, HandleOf(Path(c)), RelOf(Path(c)))
         place == PlaceOf(t, HandleOf(Path(c)), TRUE, RelOf(Path(c)))
     IN /\ Becomes(t)
        /\ IF Is(t, place, "dir") THEN Succeeds(c) ELSE Fails(c)

DeleteFileFound(c) ==
  /\ At(c, {"delete_file"}, "run")
  /\ IF Found(Path(c), "file") THEN Steps(c, [pc |-> "remove"]) ELSE Fails(c)
  /\ Same

DeleteFile(c) ==
  /\ At(c, {"delete_file"}, "remove")
  /\ LET entry == HandleEntry(Path(c))
     IN IF entry \in DOMAIN tree /\ tree[entry].kind # "dir"
          THEN Becomes(Without(tree, {entry})) /\ Succeeds(c)
          ELSE Same /\ Fails(c)

(* The root itself is "." for the handle, which cannot be removed, though  *)
(* what is in it can.                                                      *)
DeleteDirectory(c) ==
  /\ At(c, {"delete_directory"}, "run")
  /\ LET place == IF RelOf(Path(c)) = <<>> THEN HandleOf(Path(c)) ELSE HandleEntry(Path(c))
         whole == Below(tree, place)
         gone == whole \ IF RelOf(Path(c)) = <<>> THEN {place} ELSE {}
         link == call[c].req.recursive /\ Is(tree, place, "link")
     IN IF \/ ~Is(tree, place, "dir") /\ ~link
           \/ ~call[c].req.recursive /\ (whole # {place} \/ place \notin gone)
          THEN Same /\ Fails(c)
          ELSE /\ Becomes(Without(tree, gone))
               /\ IF place \in gone THEN Succeeds(c) ELSE Fails(c)

-----------------------------------------------------------------------------
(***************************************************************************)
(* By the path alone, and by the handle first and the path after.          *)
(***************************************************************************)

(* read_file_range; the range is the whole file. *)
ReadByPath(c) ==
  /\ At(c, {"read_file_range"}, "run")
  /\ IF Is(tree, OpenPlace(c), "file") /\ Text(OpenPlace(c)) # <<>>
        /\ Len(Text(OpenPlace(c))) <= MaxFileSize
       THEN WithText(c, OpenPlace(c)) ELSE Fails(c)
  /\ Same

StatThenRead == {"read_media_file", "hash_file", "resources/read"}

Small(place) == Len(Text(place)) <= MaxFileSize

(* metadata; hash_file looks at the size later. *)
StatByHandle(c) ==
  /\ At(c, StatThenRead, "run")
  /\ IF Found(Path(c), "file")
        /\ (call[c].req.tool = "hash_file" \/ Small(HandlePlace(Path(c))))
       THEN Steps(c, [pc |-> "read"]) ELSE Fails(c)
  /\ Same

ReadAfterStat(c) ==
  /\ At(c, StatThenRead \ {"resources/read"}, "read")
  /\ IF call[c].req.tool = "hash_file" /\ Is(tree, OpenPlace(c), "file")
        /\ ~Small(OpenPlace(c))
       THEN Fails(c) ELSE WithText(c, OpenPlace(c))
  /\ Same

ReadResource(c) ==
  /\ At(c, {"resources/read"}, "read")
  /\ WithText(c, HandlePlace(Path(c)))
  /\ Same
=============================================================================
