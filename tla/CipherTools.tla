----------------------------- MODULE CipherTools -----------------------------
(***************************************************************************)
(* The steps of encrypt_file, decrypt_file and generate_key                *)
(* (src/src/actions/crypto.rs).                                            *)
(***************************************************************************)
EXTENDS TransformCalls

-----------------------------------------------------------------------------
(***************************************************************************)
(* encrypt_file: the source is read, then one closure seals and writes.    *)
(***************************************************************************)

(* What a request is encrypted or opened with: a lock among its arguments, *)
(* the key in its key file, or for `generate` a fresh one.                 *)
Locks(c) ==
  LET r == call[c].req
  IN IF "lock" \in DOMAIN r THEN {r.lock}
     ELSE IF "keyFile" \in DOMAIN r
       THEN {[key |-> k] : k \in IF files[r.keyFile] = NoFile THEN {}
                                 ELSE {files[r.keyFile][i].secret : i \in
                                         {j \in {1} : Len(files[r.keyFile]) = 1 /\
                                                      "secret" \in DOMAIN files[r.keyFile][j]}}}
     ELSE IF "generate" \in DOMAIN r THEN {[key |-> Fresh[c]]} ELSE {}

(* The size, the text and the key file are looked at one after another;    *)
(* Resolved::read is where the timer can still stop the call.              *)
EncryptRead(c) ==
  /\ At(c, {"encrypt_file"}, "read")
  /\ files[call[c].req.src] # NoFile
  /\ Len(files[call[c].req.src]) <= MaxFileSize
  /\ \E lock \in Locks(c) :
       Moved(c, [pc |-> "create", text |-> files[call[c].req.src], lock |-> lock])
  /\ UNCHANGED files

(* write_encrypted *)
EncryptCreate(c) ==
  /\ At(c, {"encrypt_file"}, "create")
  /\ Truncated(Output(call[c].req))
  /\ Moved(c, [pc |-> "header"])

EncryptHeader(c) ==
  /\ At(c, {"encrypt_file"}, "header")
  /\ Wrote(Output(call[c].req), 0, <<HeaderOf(call[c].lock)>>)
  /\ Moved(c, [pc |-> "body"])

EncryptBody(c) ==
  /\ At(c, {"encrypt_file"}, "body")
  /\ Wrote(Output(call[c].req), 1, <<Sealed(call[c].lock, call[c].text)>>)
  /\ minted' = minted \cup {Sealed(call[c].lock, call[c].text)}
  /\ Ended(c, "ok")

EncryptFails(c) ==
  /\ \/ \E pc \in {"read", "create", "header", "body"} :
          At(c, {"encrypt_file"}, pc) /\ UNCHANGED files
     \/ /\ At(c, {"encrypt_file"}, "body")
        /\ Wrote(Output(call[c].req), 1, <<CutBody>>)
  /\ Ended(c, "error")

-----------------------------------------------------------------------------
(***************************************************************************)
(* decrypt_file: the source is read, one closure opens it, another writes  *)
(* the text (Resolved::write).                                             *)
(***************************************************************************)

DecryptRead(c) ==
  /\ At(c, {"decrypt_file"}, "read")
  /\ files[call[c].req.src] # NoFile
  /\ Parses(files[call[c].req.src])
  /\ \E lock \in Locks(c) :
       Moved(c, [pc |-> "unseal", text |-> files[call[c].req.src], lock |-> lock])
  /\ UNCHANGED files

(* Nothing is written before the tag has been verified. *)
DecryptUnseal(c) ==
  /\ At(c, {"decrypt_file"}, "unseal")
  /\ Opens(call[c].text, call[c].lock)
  /\ Moved(c, [pc |-> "write", text |-> call[c].text[2].sealed])
  /\ UNCHANGED files

DecryptCreate(c) ==
  /\ At(c, {"decrypt_file"}, "write")
  /\ Truncated(Output(call[c].req))
  /\ Moved(c, [pc |-> "fill"])

DecryptWrite(c) ==
  /\ At(c, {"decrypt_file"}, "fill")
  /\ Wrote(Output(call[c].req), 0, call[c].text)
  /\ Ended(c, "ok")

DecryptFails(c) ==
  /\ \/ \E pc \in {"read", "unseal", "write", "fill"} :
          At(c, {"decrypt_file"}, pc) /\ UNCHANGED files
     \/ /\ At(c, {"decrypt_file"}, "fill")
        /\ call[c].text # <<>>
        /\ Wrote(Output(call[c].req), 0, Front(call[c].text))
  /\ Ended(c, "error")

-----------------------------------------------------------------------------
(***************************************************************************)
(* generate_key: one closure, which writes the secret key and then, for an *)
(* ML-KEM pair, the public key beside it.                                  *)
(***************************************************************************)

SecretKey(c) == <<[secret |-> Fresh[c]]>>
PublicKey(c) == <<[public |-> Fresh[c]]>>

IsPair(c) == call[c].req.algorithm = "mlkem"

KeygenSecret(c) ==
  /\ At(c, {"generate_key"}, "secret")
  /\ IF "out" \in DOMAIN call[c].req
       THEN files' = [files EXCEPT ![call[c].req.out] = SecretKey(c)]
       ELSE UNCHANGED files
  /\ IF IsPair(c) /\ "out" \in DOMAIN call[c].req
       THEN Moved(c, [pc |-> "public"])
       ELSE Ended(c, "ok")

KeygenPublic(c) ==
  /\ At(c, {"generate_key"}, "public")
  /\ files' = [files EXCEPT ![PublicFile(call[c].req)] = PublicKey(c)]
  /\ Ended(c, "ok")

KeygenFails(c) ==
  /\ \/ At(c, {"generate_key"}, "secret") /\ UNCHANGED files
     \/ At(c, {"generate_key"}, "public") /\ UNCHANGED files
     \/ /\ At(c, {"generate_key"}, "secret") /\ "out" \in DOMAIN call[c].req
        /\ Truncated(call[c].req.out)
     \/ /\ At(c, {"generate_key"}, "public")
        /\ Truncated(PublicFile(call[c].req))
  /\ Ended(c, "error")
=============================================================================
