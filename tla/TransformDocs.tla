---------------------------- MODULE TransformDocs ----------------------------
(***************************************************************************)
(* A sentence of the tool descriptions in src/tools.json, as a property of *)
(* Transforms.                                                             *)
(***************************************************************************)
EXTENDS Transforms

(* compress_tar: "Supports optional compression: 'none' (plain .tar),      *)
(* 'gzip' (.tar.gz), or 'zstd' (.tar.zst). [...] Use decompress_tar to     *)
(* extract the resulting archive." (tools.json:341): when a call that      *)
(* nobody has disturbed reports success, what a decoder gets out of a zstd *)
(* archive is a whole one.                                                 *)
ZstdArchiveIsWhole ==
  [][\A c \in Calls :
       (/\ Live(c) /\ call[c].req.tool = "compress_tar" /\ call[c].req.codec = "zst"
        /\ alone[c] /\ call[c].ans = "none" /\ call'[c].ans = "ok") =>
         IsArchiveOf(Decoded("zst", files'[Output(call[c].req)]), call[c].req.src,
                     call[c].before, call[c].skipped)]_vars
=============================================================================
