---------------------------- MODULE TransformCalls ----------------------------
(***************************************************************************)
(* The compression, archive and encryption tools                           *)
(* (src/src/actions/compress.rs, crypto.rs) as concurrent calls over one   *)
(* set of files: their state, their arguments and how they start.  The     *)
(* steps are in CodecTools, CipherTools and TarTools, and Transforms puts  *)
(* them together.                                                          *)
(*                                                                         *)
(* Most of a tool is one closure on the blocking pool, which runs on when  *)
(* the call times out.  decompress_gzip and decompress_zstd are different: *)
(* they open, create and copy in the handler itself, which the timer drops *)
(* at its next await, with what its BufWriter holds.                       *)
(*                                                                         *)
(* A path is not always a file: what a request names is resolved, but the  *)
(* path a tool derives from it is not, and may be a link.                  *)
(***************************************************************************)
EXTENDS Formats, FiniteSets

CONSTANTS
  Calls,       \* tools/call requests, numbered as they come in
  Requests,    \* what they may ask for
  Starts,      \* the files there may be at the start: path -> tokens
  OldTokens,   \* the tokens of those files, and the ones inside them
  NoFile,      \* a path without a file
  Links,       \* the paths that are links, and the file each leads to
  NoRequest,   \* a call that has not been made
  Limit,       \* max_decompressed_size, in blocks
  MaxFileSize, \* max_file_size, in tokens
  Fresh,       \* Fresh[c]: the key or pair that call c generates
  Editable,    \* the files another program writes to
  MaxEdits     \* how often it does (a bound)

(* A request names its files among those there may be; what is inside a    *)
(* token is a token, however deep.                                         *)
ASSUME TransformsAssumption ==
  /\ WellMade(OldTokens)
  /\ \A start \in Starts :
       /\ IsFiniteSet(DOMAIN start)
       /\ \A p \in DOMAIN start : start[p] = NoFile \/ start[p] \in Seq(OldTokens)
       /\ \A r \in Requests :
            /\ r.tool \notin {"compress_tar", "generate_key"} => r.src \in DOMAIN start
            /\ "keyFile" \in DOMAIN r => r.keyFile \in DOMAIN start
            /\ r.tool = "compress_tar" =>
                 {"out", "codec"} \subseteq DOMAIN r /\ r.codec \in {"none", "gz", "zst"}
  /\ Limit \in Nat /\ MaxEdits \in Nat

VARIABLES
  files,   \* path -> tokens, or NoFile
  call,    \* what each call asks, how far it is and what it was answered
  edits,   \* how often another program has written to a file
  alone,   \* history: nothing else has changed a file of the call so far
  minted   \* history: the bodies encrypt_file has sealed, here or before

vars == <<files, call, edits, alone, minted>>

Paths == DOMAIN files

Idle == [req |-> NoRequest, pc |-> "idle", ans |-> "none"]

(* What is left of a call: a record of three fields, while it runs of more. *)
Over(r, answer) == [req |-> r, pc |-> "done", ans |-> answer]

Live(c) == call[c].pc \notin {"idle", "done"}

Init ==
  /\ files \in Starts
  /\ call = [c \in Calls |-> Idle]
  /\ edits = 0
  /\ alone = [c \in Calls |-> TRUE]
  /\ minted = {token \in OldTokens : "sealed" \in DOMAIN token}

-----------------------------------------------------------------------------
(***************************************************************************)
(* The parts of a step.                                                    *)
(***************************************************************************)

At(c, tools, pc) ==
  /\ Live(c) /\ call[c].pc = pc /\ call[c].req.tool \in tools

Moved(c, fields) ==
  call' = [call EXCEPT ![c] =
             [f \in DOMAIN fields \cup DOMAIN @ |->
                IF f \in DOMAIN fields THEN fields[f] ELSE @[f]]]

(* The handler or its closure ends; a call that timed out keeps that       *)
(* answer.                                                                 *)
Ended(c, answer) ==
  call' = [call EXCEPT ![c] =
             Over(@.req, IF @.ans = "none" THEN answer ELSE @.ans)]

(* Where opening a path leads. *)
FileOf(path) == IF path \in DOMAIN Links THEN Links[path] ELSE path

(* File::create, and a write to what it has opened *)
Truncated(file) == files' = [files EXCEPT ![file] = <<>>]

Wrote(file, pos, tokens) ==
  files' = [files EXCEPT ![file] = Put(IF @ = NoFile THEN <<>> ELSE @, pos, tokens)]

Compressors == {"compress_gzip", "compress_zstd"}
Decompressors == {"decompress_gzip", "decompress_zstd"}

Codec(tool) == IF tool \in {"compress_gzip", "decompress_gzip"} THEN "gz" ELSE "zst"

(* derive_output: a path that is given is resolved, the others are not. *)
OutputPath(r) ==
  IF "out" \in DOMAIN r THEN r.out
  ELSE CASE r.tool \in Compressors -> AddSuffix(r.src, Codec(r.tool))
         [] r.tool \in Decompressors -> StripSuffix(r.src, Codec(r.tool))
         [] r.tool = "encrypt_file" -> AddSuffix(r.src, "enc")
         [] r.tool = "decrypt_file" -> StripSuffix(r.src, "enc")
         [] OTHER -> NoFile

(* The file a tool writes: File::create follows links. *)
Output(r) == FileOf(OutputPath(r))

(* Where generate_key puts the public key, beside the secret one. *)
PublicFile(r) == FileOf(PubPath(r.out))

(* Mutant: nothing keeps a tool from writing over what it reads. *)
RefusedNever(r) == FALSE

(* The checks before the first await, of paths and not of files.           *)
(* decompress_tar and generate_key have none.                              *)
Refused(r) ==
  \/ /\ r.tool \notin {"compress_tar", "decompress_tar", "generate_key"}
     /\ OutputPath(r) = r.src
  \/ r.tool = "compress_tar" /\ r.out.dir = r.src

FirstStage(tool) ==
  CASE tool = "compress_tar" -> "collect"
    [] tool = "generate_key" -> "secret"
    [] tool \in {"encrypt_file", "decrypt_file"} -> "read"
    [] OTHER -> "open"

(* The files a call reads, and those it writes. *)
Sources(r) ==
  CASE r.tool = "compress_tar" -> {p \in Paths : p.dir = r.src}
    [] r.tool = "generate_key" -> {}
    [] OTHER -> {r.src} \cup IF "keyFile" \in DOMAIN r THEN {r.keyFile} ELSE {}

Outputs(r) ==
  CASE r.tool = "decompress_tar" -> {p \in Paths : p.dir = r.out}
    [] r.tool = "generate_key" ->
         IF "out" \notin DOMAIN r THEN {}
         ELSE {r.out} \cup IF r.algorithm = "mlkem" THEN {PublicFile(r)} ELSE {}
    [] OTHER -> {Output(r)}

(* What they write is among the files there may be, too. *)
ASSUME OutputsAssumption ==
  \A start \in Starts, r \in Requests :
    IF r.tool = "generate_key"
      THEN "out" \in DOMAIN r =>
             r.out \in DOMAIN start /\ (r.algorithm = "mlkem" => PublicFile(r) \in DOMAIN start)
      ELSE r.tool # "decompress_tar" => Output(r) \in DOMAIN start

(* What a request names has been resolved, so that it is no link.  Nor is  *)
(* there a link where an archive is extracted, which would replace it, or  *)
(* where one is made of.                                                   *)
ASSUME LinksAssumption ==
  \A path \in DOMAIN Links, r \in Requests :
    /\ r.tool \notin {"compress_tar", "generate_key"} => r.src # path
    /\ "keyFile" \in DOMAIN r => r.keyFile # path
    /\ "out" \in DOMAIN r /\ r.tool # "decompress_tar" => r.out # path
    /\ r.tool = "compress_tar" => r.src # path.dir
    /\ r.tool = "decompress_tar" => r.out # path.dir

Concern(r) == Sources(r) \cup Outputs(r)

(* Others than `actors` have changed a file of a call that is running. *)
Disturbs(actors) ==
  alone' = [d \in Calls |->
              Live(d) => /\ alone[d]
                         /\ d \notin actors =>
                              \A p \in Concern(call[d].req) : files'[p] = files[p]]

(* `at` counts what is read, `pos` what is written, `text` is what the     *)
(* call holds in memory, `codec` what is around the archive it reads, and  *)
(* `rest` the entries it has still to add to the one it makes.  `skipped`  *)
(* and `before` are history: the entries an error of the walk has hidden,  *)
(* and the files when the call came in.                                    *)
Start(c, r) ==
  /\ call[c] = Idle
  /\ \A d \in Calls : d < c => call[d] # Idle
  /\ call' = [call EXCEPT ![c] =
       IF Refused(r) THEN Over(r, "error")
       ELSE [req |-> r, pc |-> FirstStage(r.tool), ans |-> "none",
             at |-> 0, pos |-> 0, handed |-> 0, text |-> <<>>, rest |-> <<>>,
             codec |-> "none", skipped |-> {}, before |-> files]]
  /\ UNCHANGED <<files, minted>>

(* Another program makes a file longer or shorter. *)
Edit ==
  /\ edits < MaxEdits
  /\ edits' = edits + 1
  /\ \E p \in Editable : files[p] # NoFile /\
       \/ files' = [files EXCEPT ![p] = Append(@, Zero)]
       \/ files[p] # <<>> /\ files' = [files EXCEPT ![p] = Front(@)]
  /\ UNCHANGED <<call, minted>>
  /\ Disturbs({})
=============================================================================
