------------------------------- MODULE Formats -------------------------------
(***************************************************************************)
(* The files the compression and encryption tools read and write           *)
(* (src/src/actions/compress.rs, crypto.rs, util.rs), as sequences of      *)
(* tokens: the blocks of a plain text, the blocks and the checksum a codec *)
(* makes of them, the header and the sealed body of an encrypted file, the *)
(* headers and blocks of an archive, a key.  The codecs, the ciphers and   *)
(* the archive format are external.                                        *)
(*                                                                         *)
(* A file name is the sequence of its parts between the dots; the name of  *)
(* a hidden file starts with an empty part.                                *)
(***************************************************************************)
EXTENDS Naturals, Sequences, SequencesExt

Plain(x) == [plain |-> x]

Zero == Plain("zero")  \* what nobody wrote, in a file written beyond its end

-----------------------------------------------------------------------------
(* Tokens written at an offset into a file. *)
Put(file, pos, tokens) ==
  LET end == pos + Len(tokens)
  IN [i \in 1..(IF end > Len(file) THEN end ELSE Len(file)) |->
        IF pos < i /\ i <= end THEN tokens[i - pos]
        ELSE IF i <= Len(file) THEN file[i] ELSE Zero]

-----------------------------------------------------------------------------
(***************************************************************************)
(* Names: derive_output, is_hidden, Path::with_extension.                  *)
(***************************************************************************)

AddSuffix(path, ext) == [path EXCEPT !.name = Append(@, ext)]

StripSuffix(path, ext) ==
  IF Len(path.name) > 1 /\ Last(path.name) = ext
    THEN [path EXCEPT !.name = Front(@)] ELSE path

Hidden(name) == name[1] = ""

(* with_extension("pub") replaces what follows the last dot. *)
PubPath(path) ==
  IF Len(path.name) > 1 /\ ~(Hidden(path.name) /\ Len(path.name) = 2)
    THEN [path EXCEPT !.name = Append(Front(@), "pub")]
    ELSE [path EXCEPT !.name = Append(@, "pub")]

-----------------------------------------------------------------------------
(***************************************************************************)
(* The codecs.  The trailer holds a checksum of the text, here the text.   *)
(***************************************************************************)

Squeezed(codec, block) == [codec |-> codec, block |-> block]
Trailer(codec, text) == [codec |-> codec, sum |-> text]

Compressed(codec, text) ==
  Append([i \in 1..Len(text) |-> Squeezed(codec, text[i])], Trailer(codec, text))

IsBlock(token, codec) == "block" \in DOMAIN token /\ token.codec = codec
IsTrailer(token, codec) == "sum" \in DOMAIN token /\ token.codec = codec

(* An archive on its way through an encoder, or as it is. *)
Stream(codec, archive) ==
  IF codec = "none" THEN archive
  ELSE [i \in 1..Len(archive) |-> Squeezed(codec, archive[i])]

(* The codec by the first bytes of a file. *)
CodecOf(file) == IF file # <<>> /\ "codec" \in DOMAIN file[1] THEN file[1].codec ELSE "none"

(* How far a decoder comes. *)
BlocksIn(codec, file) ==
  CHOOSE n \in 0..Len(file) :
    /\ \A i \in 1..n : IsBlock(file[i], codec)
    /\ n < Len(file) => ~IsBlock(file[n + 1], codec)

Decoded(codec, file) ==
  IF codec = "none" THEN file
  ELSE [i \in 1..BlocksIn(codec, file) |-> file[i].block]

(* Behind its blocks a stream has its end, with the right checksum. *)
EndsWell(codec, file) ==
  LET text == Decoded(codec, file)
  IN codec # "none" =>
       /\ Len(text) < Len(file)
       /\ file[Len(text) + 1] = Trailer(codec, text)

-----------------------------------------------------------------------------
(***************************************************************************)
(* Encryption.  A lock is a symmetric key or an ML-KEM pair; the header    *)
(* carries the algorithm and, for a pair, what the pair opens.             *)
(***************************************************************************)

(* build_header *)
HeaderOf(lock) ==
  IF "pair" \in DOMAIN lock THEN [alg |-> "mlkem", pair |-> lock.pair]
  ELSE [alg |-> "symmetric"]

(* symmetric_encrypt, mlkem_encrypt: the header is authenticated data. *)
Sealed(lock, text) == [sealed |-> text, lock |-> lock, aad |-> HeaderOf(lock)]

Encrypted(lock, text) == <<HeaderOf(lock), Sealed(lock, text)>>

(* A body of which some bytes are missing. *)
CutBody == [cut |-> TRUE]

(* parse_encrypted: the algorithm and, behind the header, some bytes. *)
Parses(file) == Len(file) >= 2 /\ "alg" \in DOMAIN file[1]

(* Mutant: the tag is not verified. *)
OpensAny(file, lock) ==
  /\ Len(file) = 2 /\ "sealed" \in DOMAIN file[2]

(* symmetric_decrypt, mlkem_decrypt: the tag verifies. *)
Opens(file, lock) ==
  /\ Len(file) = 2 /\ "sealed" \in DOMAIN file[2]
  /\ file[2].lock = lock
  /\ file[2].aad = file[1]
  /\ HeaderOf(lock) = file[1]

-----------------------------------------------------------------------------
(***************************************************************************)
(* Archives: an entry is its header and as many blocks as that says.       *)
(***************************************************************************)

Entry(name, size) == [entry |-> name, size |-> size]
EndMark == [end |-> TRUE]

(* An entry of a kind extraction refuses: a link, or an unsafe path. *)
Forbidden == [forbidden |-> TRUE]

IsEntry(token) == "entry" \in DOMAIN token

-----------------------------------------------------------------------------
(* Every token inside another is one of `tokens`.                          *)
WellMade(tokens) ==
  \A t \in tokens :
    /\ "block" \in DOMAIN t => t = Squeezed(t.codec, t.block) /\ t.block \in tokens
    /\ "sum" \in DOMAIN t => t = Trailer(t.codec, t.sum)
    /\ "sealed" \in DOMAIN t =>
         /\ t = [sealed |-> t.sealed, lock |-> t.lock, aad |-> t.aad]
         /\ t.sealed \in Seq(tokens)
    /\ IsEntry(t) => t.size \in Nat
=============================================================================
