----------------------------- MODULE CodecTools -----------------------------
(***************************************************************************)
(* The steps of compress_gzip, compress_zstd, decompress_gzip and          *)
(* decompress_zstd (src/src/actions/compress.rs).                          *)
(***************************************************************************)
EXTENDS TransformCalls

-----------------------------------------------------------------------------
(***************************************************************************)
(* compress_gzip, compress_zstd: one closure.                              *)
(***************************************************************************)

CompressOpen(c) ==
  /\ At(c, Compressors, "open")
  /\ files[call[c].req.src] # NoFile
  /\ Truncated(Output(call[c].req))
  /\ Moved(c, [pc |-> "copy"])

(* io::copy into the encoder *)
CompressCopy(c) ==
  /\ At(c, Compressors, "copy")
  /\ call[c].at < Len(files[call[c].req.src])
  /\ LET block == files[call[c].req.src][call[c].at + 1]
     IN /\ Wrote(Output(call[c].req), call[c].pos,
                 <<Squeezed(Codec(call[c].req.tool), block)>>)
        /\ Moved(c, [at |-> call[c].at + 1, pos |-> call[c].pos + 1,
                     text |-> Append(call[c].text, block)])

(* Mutant: the encoder is dropped instead, which ends a gzip stream only. *)
CompressFinishLess(c) ==
  /\ At(c, Compressors, "copy")
  /\ call[c].at >= Len(files[call[c].req.src])
  /\ \/ At(c, {"compress_gzip"}, "copy")
        /\ Wrote(Output(call[c].req), call[c].pos, <<Trailer("gz", call[c].text)>>)
     \/ At(c, {"compress_zstd"}, "copy") /\ UNCHANGED files
  /\ Ended(c, "ok")

(* encoder.finish *)
CompressFinish(c) ==
  /\ At(c, Compressors, "copy")
  /\ call[c].at >= Len(files[call[c].req.src])
  /\ Wrote(Output(call[c].req), call[c].pos,
           <<Trailer(Codec(call[c].req.tool), call[c].text)>>)
  /\ Ended(c, "ok")

(* A read or a write fails.  Dropping a GzEncoder finishes the stream, so  *)
(* what is left can be a whole file of a part of the text; dropping a zstd *)
(* encoder does not.                                                       *)
CompressFails(c) ==
  /\ \/ At(c, Compressors, "open") /\ UNCHANGED files
     \/ At(c, Compressors, "copy") /\ UNCHANGED files
     \/ /\ At(c, {"compress_gzip"}, "copy")
        /\ Wrote(Output(call[c].req), call[c].pos, <<Trailer("gz", call[c].text)>>)
  /\ Ended(c, "error")

-----------------------------------------------------------------------------
(***************************************************************************)
(* decompress_gzip, decompress_zstd: a copy in the handler.  `text` is     *)
(* what AsyncLimitedWriter has let through, `handed` how much of it the    *)
(* BufWriter has passed to the file, whose write of a chunk runs on the    *)
(* blocking pool, and `pos` how much has reached the disk.                 *)
(***************************************************************************)

DecompressOpen(c) ==
  /\ At(c, Decompressors, "open")
  /\ files[call[c].req.src] # NoFile
  /\ Moved(c, [pc |-> "create"])
  /\ UNCHANGED files

(* tokio's File::create, a closure on the pool *)
DecompressCreate(c) ==
  /\ At(c, Decompressors, "create")
  /\ Truncated(Output(call[c].req))
  /\ Moved(c, [pc |-> "copy"])

(* The same when the timer has dropped the handler that waits for it. *)
LateCreate(c) ==
  /\ At(c, Decompressors, "late")
  /\ Truncated(Output(call[c].req))
  /\ Ended(c, "error")

NextToken(c) == files[call[c].req.src][call[c].at + 1]
HasNext(c) == call[c].at < Len(files[call[c].req.src])

(* Mutant: the chunk is let through before it is counted. *)
WithinLimitLate(c) == Len(call[c].text) <= Limit

(* AsyncLimitedWriter::poll_write: a chunk beyond the limit is refused     *)
(* whole.                                                                  *)
WithinLimit(c) == Len(call[c].text) + 1 <= Limit

DecompressCopy(c) ==
  /\ At(c, Decompressors, "copy")
  /\ HasNext(c) /\ IsBlock(NextToken(c), Codec(call[c].req.tool))
  /\ WithinLimit(c)
  /\ Moved(c, [at |-> call[c].at + 1, text |-> Append(call[c].text, NextToken(c).block)])
  /\ UNCHANGED files

(* Mutant: a chunk is handed over while the last one is on its way. *)
HandAhead(c) ==
  /\ At(c, Decompressors, "copy")
  /\ call[c].handed < Len(call[c].text)
  /\ Moved(c, [handed |-> call[c].handed + 1])
  /\ UNCHANGED files

(* The BufWriter passes a chunk on when the file has taken the last one. *)
Hand(c) ==
  /\ At(c, Decompressors, "copy")
  /\ call[c].handed = call[c].pos /\ call[c].handed < Len(call[c].text)
  /\ Moved(c, [handed |-> call[c].handed + 1])
  /\ UNCHANGED files

(* The write on the pool, which neither an error nor the timer stops. *)
Land(c) ==
  /\ Live(c) /\ call[c].req.tool \in Decompressors
  /\ call[c].pos < call[c].handed
  /\ Wrote(Output(call[c].req), call[c].pos, <<call[c].text[call[c].pos + 1]>>)
  /\ Moved(c, [pos |-> call[c].pos + 1])

(* The end of the stream, with the checksum of what was read. *)
Checks(c) ==
  /\ HasNext(c) /\ IsTrailer(NextToken(c), Codec(call[c].req.tool))
  /\ NextToken(c).sum = call[c].text

(* io::copy flushes before it returns. *)
DecompressFinish(c) ==
  /\ At(c, Decompressors, "copy")
  /\ Checks(c)
  /\ call[c].pos = Len(call[c].text)
  /\ Ended(c, "ok")
  /\ UNCHANGED files

(* Mutant: the copy goes on. *)
DroppedGoesOn(c, answer) == Moved(c, [ans |-> answer])

(* The handler goes away during the copy: nothing more is handed over.     *)
Dropped(c, answer) ==
  IF call[c].pos < call[c].handed THEN Moved(c, [pc |-> "dropped", ans |-> answer])
  ELSE Ended(c, answer)

(* No source or no output, a bad stream, a chunk beyond the limit, a       *)
(* failing read or write.                                                  *)
DecompressFails(c) ==
  /\ \/ At(c, Decompressors, "open") /\ Ended(c, "error")
     \/ At(c, Decompressors, "create") /\ Ended(c, "error")
     \/ At(c, Decompressors, "copy") /\ Dropped(c, "error")
  /\ UNCHANGED files

(* What a dropped handler has left on the pool is done, or fails. *)
DroppedEnds(c) ==
  /\ At(c, Decompressors, "dropped") \/ At(c, Decompressors, "late")
  /\ Ended(c, "error")
  /\ UNCHANGED files
=============================================================================
