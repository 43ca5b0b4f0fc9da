----------------------------- MODULE MCTransforms -----------------------------
(* Transforms with two calls on a few named files. *)
EXTENDS Transforms, TLC

File(dir, name) == [dir |-> <<dir>>, name |-> name]

F == File("w", <<"f">>)
Gz == File("w", <<"f", "gz">>)
Enc == File("w", <<"f", "enc">>)
Pub == File("w", <<"f", "pub">>)
Out == File("w", <<"g">>)

(* A derived output that leads to the source, and a public key that leads  *)
(* to a file somebody reads.                                               *)
MCLinks == (File("w", <<"f", "zst">>) :> F) @@ (File("w", <<"g", "pub">>) :> Enc)

DirD == <<"d">>
DirO == <<"o">>
Ea == [dir |-> <<"e">>, name |-> <<"a">>]

Block == Plain("b")
Old == Plain("old")

NamesInD == {<<"a">>, <<"b", "txt">>, <<"", "h">>}

MCFresh == <<"k1", "k2">>

Nothing == [p \in {F, Gz, Enc, Pub, Out, Ea}
              \cup {[dir |-> d, name |-> n] : d \in {DirD, DirO}, n \in NamesInD} |-> NoFile]

D(name) == [dir |-> DirD, name |-> name]

MCStarts ==
  { (F :> <<Block>>) @@ (Pub :> <<[secret |-> "k0"]>>) @@ (Ea :> <<Block>>)
      @@ (Enc :> Encrypted([key |-> "k0"], <<Block>>))
      @@ (Gz :> <<Squeezed("gz", Block), Trailer("gz", <<Old>>)>>)
      @@ (Out :> <<Entry(<<"a">>, 1), Block, Entry(<<"a">>, 1), Old, EndMark>>) @@ Nothing,
    (F :> <<Block, Old>>) @@ (Gz :> Compressed("gz", <<Block, Block, Block>>))
      @@ (Out :> <<Entry(<<"a">>, 1), Block, Entry(<<"b", "txt">>, 2), Old, Old, EndMark>>)
      @@ (Enc :> <<Entry(<<"a">>, 2), Block, Old, Forbidden>>) @@ Nothing,
    (D(<<"a">>) :> <<Block>>) @@ (D(<<"", "h">>) :> <<Block>>) @@ (D(<<"b", "txt">>) :> <<>>)
      @@ (Out :> <<Entry(<<"a">>, 1), Block, EndMark>>) @@ Nothing }

MCOldTokens ==
  UNION {UNION {{start[p][i] : i \in 1..Len(start[p])} : p \in {q \in DOMAIN start : start[q] # NoFile}}
           : start \in MCStarts}
    \cup {Block}

MCEditable == {D(<<"a">>)}

MCRequests ==
  { [tool |-> "compress_gzip", src |-> F],
    [tool |-> "compress_gzip", src |-> F, out |-> F],
    [tool |-> "compress_zstd", src |-> F, out |-> Gz],
    [tool |-> "compress_zstd", src |-> F],
    [tool |-> "decompress_gzip", src |-> Gz],
    [tool |-> "decompress_gzip", src |-> Gz, out |-> Out],
    [tool |-> "decompress_zstd", src |-> Gz, out |-> F],
    [tool |-> "encrypt_file", src |-> F, generate |-> TRUE],
    [tool |-> "encrypt_file", src |-> F, lock |-> [pair |-> "k0"]],
    [tool |-> "encrypt_file", src |-> F, keyFile |-> Pub],
    [tool |-> "encrypt_file", src |-> F, keyFile |-> Pub, out |-> Pub],
    [tool |-> "decrypt_file", src |-> Enc, lock |-> [key |-> "k0"], out |-> Out],
    [tool |-> "decrypt_file", src |-> Enc, lock |-> [pair |-> "k0"]],
    [tool |-> "generate_key", algorithm |-> "mlkem", out |-> F],
    [tool |-> "generate_key", algorithm |-> "mlkem", out |-> Pub],
    [tool |-> "generate_key", algorithm |-> "mlkem", out |-> Out],
    [tool |-> "generate_key", algorithm |-> "aes-256", out |-> Out],
    [tool |-> "generate_key", algorithm |-> "aes-256"],
    [tool |-> "compress_tar", src |-> DirD, out |-> Out, codec |-> "none"],
    [tool |-> "compress_tar", src |-> Ea.dir, out |-> Out, codec |-> "gz"],
    [tool |-> "compress_tar", src |-> Ea.dir, out |-> Out, codec |-> "zst"],
    [tool |-> "compress_tar", src |-> DirD, out |-> D(<<"a">>), codec |-> "none"],
    [tool |-> "decompress_tar", src |-> Out, out |-> DirO],
    [tool |-> "decompress_tar", src |-> Enc, out |-> DirO] }
=============================================================================
