------------------------------- MODULE TarTools -------------------------------
(***************************************************************************)
(* The steps of compress_tar and decompress_tar                            *)
(* (src/src/actions/compress.rs), with or without a codec around the       *)
(* archive.                                                                *)
(***************************************************************************)
EXTENDS TransformCalls

-----------------------------------------------------------------------------
(***************************************************************************)
(* compress_tar: collect_tar_entries, then create_tar_archive.  The source *)
(* of a request is a directory.                                            *)
(***************************************************************************)

(* What WalkDir and is_hidden leave of a directory: is_hidden looks at the *)
(* directory itself too.                                                   *)
Visible(dir) ==
  {p \in Paths : p.dir = dir /\ files[p] # NoFile /\ ~Hidden(p.name) /\ ~Hidden(dir)}

(* What the walk cannot read, entries or all of the directory, it leaves   *)
(* out without a word.                                                     *)
TarCollect(c) ==
  /\ At(c, {"compress_tar"}, "collect")
  /\ \E found \in SUBSET Visible(call[c].req.src) :
       \E order \in SetToSeqs(found) :
         Moved(c, [pc |-> "create", rest |-> order,
                   skipped |-> Visible(call[c].req.src) \ found])
  /\ UNCHANGED files

(* File::create, and the encoder around the file *)
TarCreate(c) ==
  /\ At(c, {"compress_tar"}, "create")
  /\ Truncated(Output(call[c].req))
  /\ Moved(c, [pc |-> "stat"])

(* metadata: the size that goes into the header *)
TarStat(c) ==
  /\ At(c, {"compress_tar"}, "stat") /\ call[c].rest # <<>>
  /\ files[Head(call[c].rest)] # NoFile
  /\ Moved(c, [pc |-> "append", at |-> Len(files[Head(call[c].rest)])])
  /\ UNCHANGED files

(* Of an archive in the making, the file gets n tokens; `pos` it has.      *)
Passed(c, archive, n) ==
  Wrote(Output(call[c].req), call[c].pos,
        SubSeq(Stream(call[c].req.codec, archive), call[c].pos + 1, n))

(* How much it gets: an encoder keeps some of what it is given. *)
Passing(c, archive) ==
  IF call[c].req.codec = "none" THEN {Len(archive)} ELSE call[c].pos..Len(archive)

(* archive.append: all the file holds by now, however long the header says *)
(* it is.  `text` is the archive so far.                                   *)
TarAppend(c) ==
  /\ At(c, {"compress_tar"}, "append")
  /\ LET path == Head(call[c].rest)
         archive == call[c].text \o <<Entry(path.name, call[c].at)>> \o files[path]
     IN \E n \in Passing(c, archive) :
          /\ Passed(c, archive, n)
          /\ Moved(c, [pc |-> "stat", pos |-> n, text |-> archive,
                       rest |-> Tail(call[c].rest)])

(* The builder and its encoder are dropped.  The builder writes the end    *)
(* mark.  A GzEncoder writes the end of its stream, and if that fails      *)
(* nobody is told; a zstd encoder writes nothing more.                     *)
TarClosed(c) ==
  LET archive == Append(call[c].text, EndMark)
      whole == Compressed("gz", archive)
  IN \/ \E n \in Passing(c, archive) : Passed(c, archive, n)
     \/ /\ call[c].req.codec = "gz"
        /\ Wrote(Output(call[c].req), call[c].pos, SubSeq(whole, call[c].pos + 1, Len(whole)))

(* archive.into_inner, whose encoder is dropped at once *)
TarFinish(c) ==
  /\ At(c, {"compress_tar"}, "stat") /\ call[c].rest = <<>>
  /\ TarClosed(c)
  /\ Ended(c, "ok")

(* No zstd encoder for a file that has been created; or what is open then  *)
(* is dropped in the middle.                                               *)
TarFails(c) ==
  /\ \/ \E pc \in {"collect", "create", "stat", "append"} :
          At(c, {"compress_tar"}, pc) /\ UNCHANGED files
     \/ /\ At(c, {"compress_tar"}, "create") /\ call[c].req.codec = "zst"
        /\ Truncated(Output(call[c].req))
     \/ /\ At(c, {"compress_tar"}, "stat") \/ At(c, {"compress_tar"}, "append")
        /\ TarClosed(c)
  /\ Ended(c, "error")

-----------------------------------------------------------------------------
(***************************************************************************)
(* decompress_tar: extract_tar_archive_streaming.  `at` is how much of the *)
(* archive has been read, `pos` the sum of the sizes of its entries.       *)
(***************************************************************************)

Archive(c) == Decoded(call[c].codec, files[call[c].req.src])

Target(c, name) == [dir |-> call[c].req.out, name |-> name]

(* The first four bytes must be there; they tell the codec. *)
UntarOpen(c) ==
  /\ At(c, {"decompress_tar"}, "open")
  /\ files[call[c].req.src] \notin {NoFile, <<>>}
  /\ Moved(c, [pc |-> "entry", codec |-> CodecOf(files[call[c].req.src])])
  /\ UNCHANGED files

(* The sizes so far are within max_decompressed_size. *)
UntarFits(c, size) == call[c].pos + size <= Limit

(* An entry that the archive holds whole. *)
UntarEntry(c) ==
  /\ At(c, {"decompress_tar"}, "entry")
  /\ call[c].at < Len(Archive(c)) /\ IsEntry(Archive(c)[call[c].at + 1])
  /\ LET header == Archive(c)[call[c].at + 1]
         end == call[c].at + 1 + header.size
     IN /\ UntarFits(c, header.size)
        /\ end <= Len(Archive(c))
        /\ files' = [files EXCEPT ![Target(c, header.entry)] =
                       SubSeq(Archive(c), call[c].at + 2, end)]
        /\ Moved(c, [at |-> end, pos |-> call[c].pos + header.size])

(* The end mark, behind which nothing is read, or the end of the file or   *)
(* of its stream where a header could be.                                  *)
UntarFinish(c) ==
  /\ At(c, {"decompress_tar"}, "entry")
  /\ IF call[c].at < Len(Archive(c)) THEN Archive(c)[call[c].at + 1] = EndMark
     ELSE EndsWell(call[c].codec, files[call[c].req.src])
  /\ Ended(c, "ok")
  /\ UNCHANGED files

(* A link or an unsafe path, no header where one should be, an entry       *)
(* beyond the limit or the end of the archive, a failing call: what has    *)
(* been extracted stays, and perhaps a part of the last entry.             *)
UntarFails(c) ==
  /\ \/ At(c, {"decompress_tar"}, "open") /\ UNCHANGED files
     \/ At(c, {"decompress_tar"}, "entry") /\ UNCHANGED files
     \/ /\ At(c, {"decompress_tar"}, "entry")
        /\ call[c].at < Len(Archive(c)) /\ IsEntry(Archive(c)[call[c].at + 1])
        /\ LET header == Archive(c)[call[c].at + 1]
               end == call[c].at + 1 + header.size
           IN /\ UntarFits(c, header.size)
              /\ files' = [files EXCEPT ![Target(c, header.entry)] =
                             SubSeq(Archive(c), call[c].at + 2,
                                    IF end > Len(Archive(c)) THEN Len(Archive(c)) ELSE end - 1)]
  /\ Ended(c, "error")
=============================================================================
