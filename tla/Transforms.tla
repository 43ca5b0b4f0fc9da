------------------------------ MODULE Transforms ------------------------------
(***************************************************************************)
(* The compression, archive and encryption tools together: concurrent      *)
(* calls, the timer of server.rs, and another program that edits files.    *)
(***************************************************************************)
EXTENDS CodecTools, CipherTools, TarTools, FiniteSetsExt

Step(c) ==
  \/ CompressOpen(c) \/ CompressCopy(c) \/ CompressFinish(c) \/ CompressFails(c)
  \/ DecompressOpen(c) \/ DecompressCreate(c) \/ LateCreate(c)
  \/ DecompressCopy(c) \/ Hand(c) \/ Land(c)
  \/ DecompressFinish(c) \/ DecompressFails(c) \/ DroppedEnds(c)
  \/ EncryptRead(c) \/ EncryptCreate(c) \/ EncryptHeader(c) \/ EncryptFails(c)
  \/ DecryptRead(c) \/ DecryptUnseal(c) \/ DecryptCreate(c) \/ DecryptWrite(c)
  \/ DecryptFails(c)
  \/ KeygenSecret(c) \/ KeygenPublic(c) \/ KeygenFails(c)
  \/ TarCollect(c) \/ TarCreate(c) \/ TarStat(c) \/ TarAppend(c) \/ TarFinish(c)
  \/ TarFails(c)
  \/ UntarOpen(c) \/ UntarEntry(c) \/ UntarFinish(c) \/ UntarFails(c)

(* The stages of which nothing is left when the handler is dropped: what   *)
(* runs on the pool only reads.                                            *)
StoppedByTimer(c) ==
  \/ At(c, Decompressors, "open")
  \/ call[c].pc \in {"read", "unseal"}

(* tokio::time::timeout: of a decompression, the creation of its output is *)
(* left or the chunk on its way, of other tools the closure.               *)
Timeout(c) ==
  /\ Live(c) /\ call[c].ans = "none"
  /\ \/ StoppedByTimer(c) /\ Ended(c, "timeout")
     \/ /\ At(c, Decompressors, "create")
        /\ Moved(c, [pc |-> "late", ans |-> "timeout"])
     \/ At(c, Decompressors, "copy") /\ Dropped(c, "timeout")
     \/ /\ call[c].req.tool \notin Decompressors /\ ~StoppedByTimer(c)
        /\ Moved(c, [ans |-> "timeout"])
  /\ UNCHANGED files

Rest == (\A c \in Calls : call[c].pc = "done") /\ UNCHANGED vars

Next ==
  \/ \E c \in Calls :
       /\ \/ EncryptBody(c)
          \/ /\ (\E r \in Requests : Start(c, r)) \/ Step(c) \/ Timeout(c)
             /\ UNCHANGED minted
       /\ Disturbs({c})
       /\ UNCHANGED edits
  \/ Edit
  \/ Rest

Spec == Init /\ [][Next]_vars

-----------------------------------------------------------------------------
(***************************************************************************)
(* Properties.                                                             *)
(***************************************************************************)

(* What each field may hold; of a decompression, at most one chunk is on   *)
(* its way to the file.                                                    *)
TypeOK ==
  /\ \A p \in Paths : files[p] = NoFile \/ Len(files[p]) \in Nat
  /\ edits \in 0..MaxEdits
  /\ \A c \in Calls :
       /\ call[c].ans \in {"none", "ok", "error", "timeout"}
       /\ ~Live(c) \/ call[c].req \in Requests
       /\ call[c].pc = "done" => call[c].ans # "none"
       /\ (Live(c) /\ call[c].req.tool \in Decompressors) =>
            call[c].handed \in call[c].pos..call[c].pos + 1

(* The visible files of a directory, as they were, but for some, in any    *)
(* order.                                                                  *)
Orders(dir, was, skipped) ==
  SetToSeqs({p \in DOMAIN was \ skipped :
               p.dir = dir /\ was[p] # NoFile /\ ~Hidden(p.name) /\ ~Hidden(dir)})

(* The first k files of an order fill an archive up to ends[k]. *)
LaidOut(archive, order, was, k, ends) ==
  /\ ends[0] = 0
  /\ \A i \in 1..k :
       LET path == order[i]
       IN /\ ends[i] = ends[i - 1] + 1 + Len(was[path])
          /\ ends[i] <= Len(archive)
          /\ archive[ends[i - 1] + 1] = Entry(path.name, Len(was[path]))
          /\ \A j \in 1..Len(was[path]) : archive[ends[i - 1] + 1 + j] = was[path][j]

(* The archive of a directory: those of its files, one after another, and  *)
(* the end mark.                                                           *)
IsArchiveOf(archive, dir, was, skipped) ==
  \E order \in Orders(dir, was, skipped) : \E ends \in [0..Len(order) -> 0..Len(archive)] :
    /\ LaidOut(archive, order, was, Len(order), ends)
    /\ Len(archive) = ends[Len(order)] + 1
    /\ archive[Len(archive)] = EndMark

(* No entry stands among the blocks of another or behind the end mark. *)
WellFormed(archive) ==
  \A i \in 1..Len(archive) :
    /\ IsEntry(archive[i]) =>
         \A j \in i + 1..i + archive[i].size : j <= Len(archive) /\ ~IsEntry(archive[j])
    /\ archive[i] = EndMark => \A j \in i..Len(archive) : ~IsEntry(archive[j])

(* The last entry of its name is what a file is extracted from. *)
IsLastOfName(archive, i) ==
  /\ IsEntry(archive[i])
  /\ \A j \in i + 1..Len(archive) : IsEntry(archive[j]) => archive[j].entry # archive[i].entry

(* An entry is extracted onto the archive. *)
NamesItself(c, archive) ==
  \E i \in 1..Len(archive) :
    IsEntry(archive[i]) /\ Target(c, archive[i].entry) = call[c].req.src

(* What a successful call has made of the files it found. *)
Meets(c, was, now) ==
  LET r == call[c].req
      out == Output(r)
  IN /\ r.tool \in Compressors =>
          now[out] = Compressed(Codec(r.tool), was[r.src])
     /\ r.tool \in Decompressors =>
          IsPrefix(Compressed(Codec(r.tool), now[out]), was[r.src])
     /\ r.tool = "encrypt_file" =>
          now[out] = Encrypted(call[c].lock, was[r.src])
     /\ r.tool = "decrypt_file" =>
          was[r.src] = Encrypted(call[c].lock, now[out])
     /\ (r.tool = "generate_key" /\ "out" \in DOMAIN r /\ PublicFile(r) # r.out) =>
          /\ now[r.out] = SecretKey(c)
          /\ IsPair(c) => now[PublicFile(r)] = PublicKey(c)
     /\ r.tool = "compress_tar" =>
          LET archive == Append(call[c].text, EndMark)
          IN /\ IsArchiveOf(archive, r.src, was, call[c].skipped)
             /\ IF r.codec = "none" THEN now[out] = archive
                ELSE IsPrefix(now[out], Compressed(r.codec, archive))
     /\ r.tool = "decompress_tar" =>
          LET archive == Decoded(CodecOf(was[r.src]), was[r.src])
          IN (WellFormed(archive) /\ ~NamesItself(c, archive)) =>
               \A i \in 1..Len(archive) :
                 LET target == Target(c, archive[i].entry)
                 IN (IsLastOfName(archive, i) /\ target \in DOMAIN now) =>
                      now[target] = SubSeq(archive, i + 1, i + archive[i].size)

(* The derived output is a link to the source, which no check sees. *)
OntoSource(r) ==
  "out" \notin DOMAIN r /\ r.tool # "generate_key" /\ Output(r) = r.src

(* A call whose files nobody else changed while it ran, whose output is    *)
(* not a link to its source, and which reports success, has done its work: *)
(* the output is the compressed, decompressed, sealed or opened source of  *)
(* the moment it came in, the directory has every entry of the archive,    *)
(* the key files a pair that belongs together, whatever runs at the same   *)
(* time on other files.  A new archive holds every visible file but those  *)
(* that the walk could not read, if it has no codec around it; with one,   *)
(* the file is a beginning of the compressed archive, and no more is       *)
(* certain: the end of the stream is left to the drop of the encoder       *)
(* (compress.rs:441).                                                      *)
SuccessIsComplete ==
  [][\A c \in Calls :
       (/\ call[c].ans = "none" /\ call'[c].ans = "ok" /\ alone[c]
        /\ ~OntoSource(call[c].req))
         => Meets(c, call[c].before, files')]_vars

(* A tool that checks its output against its source never damages what it  *)
(* reads, with two exceptions that the check does not see: an output that  *)
(* is a link to the source, since it compares paths (compress.rs:33), and  *)
(* one that is its key file.  generate_key reads nothing, decompress_tar   *)
(* does not check.                                                         *)
SourceKept ==
  \A c \in Calls :
    (Live(c) /\ alone[c] /\ call[c].req.tool # "decompress_tar") =>
      \A p \in Sources(call[c].req) :
        \/ files[p] = call[c].before[p]
        \/ /\ p = Output(call[c].req)
           /\ IF p = call[c].req.src THEN OntoSource(call[c].req)
              ELSE "keyFile" \in DOMAIN call[c].req

(* No step of a decompression makes a file longer than                     *)
(* max_decompressed_size.                                                  *)
DecompressionFits(c) ==
  LET out == Output(call[c].req)
  IN (/\ Live(c) /\ call'[c] # call[c] /\ call[c].req.tool \in Decompressors
      /\ files'[out] # NoFile /\ files[out] # NoFile
      /\ Len(files'[out]) > Len(files[out])) => Len(files'[out]) <= Limit

(* The blocks, each with its place, of the files of a directory that are   *)
(* not what they were.                                                     *)
BlocksOfNew(now, was, dir) ==
  UNION {{p} \X (1..Len(now[p])) : p \in {q \in DOMAIN now : q.dir = dir /\ now[q] # was[q]}}

(* Nor do the files of one extraction together become longer.              *)
ExtractionFits(c) ==
  (/\ Live(c) /\ call'[c] # call[c] /\ call[c].req.tool = "decompress_tar"
   /\ alone[c]) =>
    Cardinality(BlocksOfNew(files', call[c].before, call[c].req.out)) <= Limit

(* Both hold even if the call fails or times out, and the first when it    *)
(* meets others.                                                           *)
LimitHolds == [][\A c \in Calls : DecompressionFits(c) /\ ExtractionFits(c)]_vars

(* decrypt_file writes a text only if that text was sealed with the key it *)
(* was given, also when the file it reads is being written: a body behind  *)
(* the header of another file, half a body or a wrong key leave the output *)
(* alone.                                                                  *)
DecryptsWhatWasSealed ==
  \A c \in Calls :
    (Live(c) /\ call[c].req.tool = "decrypt_file" /\ call[c].pc \in {"write", "fill"}) =>
      Sealed(call[c].lock, call[c].text) \in minted

(* What a decompression still has on the pool that changes its file: the   *)
(* creation the timer has left there, or the chunk on its way.             *)
OnPool(c) ==
  IF At(c, Decompressors, "late") THEN 1
  ELSE IF Live(c) THEN call[c].handed - call[c].pos ELSE 0

(* A decompression that has been answered, with an error or because of the *)
(* timer, changes a file at most once more: what is on the pool then may   *)
(* still be done, even the emptying of the output by tokio's File::create, *)
(* but nothing follows it there.                                           *)
AnsweredChangesOnce ==
  [][\A c \in Calls :
       (call[c].ans # "none" /\ Live(c) /\ call[c].req.tool \in Decompressors) =>
         /\ OnPool(c) <= 1 /\ OnPool(c)' <= OnPool(c)
         /\ (call'[c] # call[c] /\ files' # files) => OnPool(c)' < OnPool(c)]_vars
=============================================================================
