--------------------------- MODULE TransformsProofs ---------------------------
(***************************************************************************)
(* Proofs about Transforms, for every set of calls, requests and files.    *)
(***************************************************************************)
EXTENDS Transforms, SequenceTheorems, FiniteSetTheorems, NaturalsInduction,
        WellFoundedInduction, TLAPS

-----------------------------------------------------------------------------
(***************************************************************************)
(* Sequences of tokens.                                                    *)
(***************************************************************************)

LEMMA SeqOfMore ==
  ASSUME NEW S, NEW T, S \subseteq T, NEW s \in Seq(S)
  PROVE  s \in Seq(T)
  OBVIOUS

LEMMA FrontIs ==
  ASSUME NEW S, NEW s \in Seq(S), s # <<>>
  PROVE  Front(s) \in Seq(S) /\ Len(Front(s)) = Len(s) - 1
<1>1. Len(s) \in Nat \ {0}
  OBVIOUS
<1>2. Front(s) = [i \in 1..Len(s) - 1 |-> s[i]]
  BY <1>1 DEF Front
<1> QED BY <1>1, <1>2

(* What is written at an offset stays among the tokens.                    *)
LEMMA PutIs ==
  ASSUME NEW S, Zero \in S, NEW file \in Seq(S), NEW pos \in Nat,
         NEW tokens \in Seq(S)
  PROVE  /\ Put(file, pos, tokens) \in Seq(S)
         /\ Len(Put(file, pos, tokens)) =
              IF pos + Len(tokens) > Len(file) THEN pos + Len(tokens) ELSE Len(file)
<1> DEFINE n == IF pos + Len(tokens) > Len(file) THEN pos + Len(tokens) ELSE Len(file)
           put == Put(file, pos, tokens)
<1>1. n \in Nat
  OBVIOUS
<1>2. put = [i \in 1..n |->
        IF pos < i /\ i <= pos + Len(tokens) THEN tokens[i - pos]
        ELSE IF i <= Len(file) THEN file[i] ELSE Zero]
  BY DEF Put
<1>3. \A i \in 1..n : put[i] \in S
  BY <1>1, <1>2
<1> QED BY <1>1, <1>2, <1>3

-----------------------------------------------------------------------------
(***************************************************************************)
(* The two ways a step changes the record of its call.                     *)
(***************************************************************************)

(* The fields of a running call. *)
Shape(x) ==
  {"req", "pc", "ans", "at", "pos", "handed", "text", "rest", "codec", "skipped", "before"}
    \subseteq DOMAIN x

(* An item of a sequence. *)
LEMMA ItemOf ==
  ASSUME NEW S, NEW s \in Seq(S), NEW i \in Nat, i < Len(s)
  PROVE  s[i + 1] \in S
OBVIOUS

LEMMA MovedIs ==
  ASSUME NEW c \in Calls, DOMAIN call = Calls, Shape(call[c]),
         NEW fields, Moved(c, fields)
  PROVE  /\ DOMAIN call' = Calls
         /\ \A d \in Calls : d # c => call'[d] = call[d]
         /\ Shape(call'[c])
         /\ DOMAIN call'[c] = DOMAIN fields \cup DOMAIN call[c]
         /\ \A f \in DOMAIN call'[c] :
              call'[c][f] = IF f \in DOMAIN fields THEN fields[f] ELSE call[c][f]
  BY DEF Moved, Shape

LEMMA EndedIs ==
  ASSUME NEW c \in Calls, DOMAIN call = Calls, NEW answer, Ended(c, answer)
  PROVE  /\ DOMAIN call' = Calls
         /\ \A d \in Calls : d # c => call'[d] = call[d]
         /\ call'[c].req = call[c].req /\ call'[c].pc = "done"
         /\ call'[c].ans = IF call[c].ans = "none" THEN answer ELSE call[c].ans
  BY DEF Ended, Over

-----------------------------------------------------------------------------
(***************************************************************************)
(* The invariant.                                                          *)
(***************************************************************************)

(* What a running call holds, in tokens of K. *)
Data(K, x) ==
  /\ x.req \in Requests /\ ~Refused(x.req)
  /\ x.ans \in {"none", "error", "timeout"}
  /\ x.at \in Nat /\ x.pos \in Nat /\ x.handed \in Nat
  /\ x.text \in Seq(K) /\ x.rest \in Seq(Paths)

(* The files it is reading are there. *)
Reads(K, x) ==
  /\ (x.pc \in {"copy", "entry"} \/ (x.pc = "create" /\ x.req.tool \in Decompressors)) =>
       x.req.src \in Paths /\ files[x.req.src] \in Seq(K)
  /\ x.pc = "append" => x.rest # <<>> /\ files[Head(x.rest)] \in Seq(K)

(* A decompression: one chunk at most is on its way, and when it has been  *)
(* answered nothing but this, or the creation of its file, is left.        *)
Copies(x) ==
  x.req.tool \in Decompressors =>
    /\ x.handed \in x.pos..x.pos + 1
    /\ x.handed <= Len(x.text) /\ Len(x.text) <= Limit
    /\ x.pc \in {"open", "create", "late"} => x.handed = x.pos
    /\ x.ans # "none" => x.pc \in {"dropped", "late"}

(* A decryption: what it writes is what was sealed with its key. *)
Unseals(x) ==
  x.req.tool = "decrypt_file" =>
    /\ x.pc \in {"unseal", "write", "fill"} => "lock" \in DOMAIN x
    /\ x.pc \in {"write", "fill"} => Sealed(x.lock, x.text) \in minted

Held(K, x) == Shape(x) /\ Data(K, x) /\ Reads(K, x) /\ Copies(x) /\ Unseals(x)

Known(K) ==
  /\ WellMade(K) /\ Zero \in K
  /\ \A t \in K : "sealed" \in DOMAIN t => t \in minted
  /\ \E start \in Starts : Paths = DOMAIN start
  /\ \A p \in Paths : files[p] = NoFile \/ files[p] \in Seq(K)
  /\ edits \in 0..MaxEdits
  /\ DOMAIN call = Calls
  /\ \A c \in Calls :
       /\ call[c].ans \in {"none", "ok", "error", "timeout"}
       /\ call[c].pc = "done" => call[c].ans # "none"
       /\ Live(c) => Held(K, call[c])

(* There is a set of tokens, closed under what is inside them, of which    *)
(* everything on the disk and in memory is made.                           *)
IInv == \E K : Known(K)

-----------------------------------------------------------------------------
(* The tokens a call adds, with what is inside them among those known.     *)
LEMMA TokensAdded ==
  ASSUME NEW K, WellMade(K), NEW t,
         "block" \in DOMAIN t => t = Squeezed(t.codec, t.block) /\ t.block \in K,
         "sum" \in DOMAIN t => t = Trailer(t.codec, t.sum),
         "sealed" \in DOMAIN t =>
           t = [sealed |-> t.sealed, lock |-> t.lock, aad |-> t.aad] /\ t.sealed \in Seq(K),
         IsEntry(t) => t.size \in Nat
  PROVE  WellMade(K \cup {t})
<1>1. \A u \in K \cup {t} : "sealed" \in DOMAIN u => u.sealed \in Seq(K \cup {t})
  BY SeqOfMore DEF WellMade
<1> QED BY <1>1 DEF WellMade

LEMMA PlainTokens ==
  ASSUME NEW K, WellMade(K), NEW x, NEW y
  PROVE  /\ WellMade(K \cup {Plain(x)}) /\ WellMade(K \cup {Trailer(x, y)})
         /\ WellMade(K \cup {HeaderOf(x)}) /\ WellMade(K \cup {CutBody})
         /\ WellMade(K \cup {EndMark}) /\ WellMade(K \cup {[secret |-> x]})
         /\ WellMade(K \cup {[public |-> x]})
         /\ "sealed" \notin DOMAIN Plain(x) \cup DOMAIN Trailer(x, y) \cup DOMAIN HeaderOf(x)
              \cup DOMAIN CutBody \cup DOMAIN EndMark \cup DOMAIN [secret |-> x]
              \cup DOMAIN [public |-> x]
<1> QED BY TokensAdded DEF Plain, Trailer, HeaderOf, CutBody, EndMark, IsEntry

LEMMA BlockToken ==
  ASSUME NEW K, WellMade(K), NEW codec, NEW b \in K
  PROVE  /\ WellMade(K \cup {Squeezed(codec, b)})
         /\ "sealed" \notin DOMAIN Squeezed(codec, b)
  BY TokensAdded DEF Squeezed, IsEntry

LEMMA SqueezedTokens ==
  ASSUME NEW K, WellMade(K), NEW codec
  PROVE  /\ WellMade(K \cup {Squeezed(codec, b) : b \in K})
         /\ \A b \in K : "sealed" \notin DOMAIN Squeezed(codec, b)
<1> DEFINE L == K \cup {Squeezed(codec, b) : b \in K}
<1>1. ASSUME NEW b \in K
      PROVE  LET t == Squeezed(codec, b)
             IN /\ DOMAIN t = {"codec", "block"}
                /\ t = Squeezed(t.codec, t.block) /\ t.block = b
  BY DEF Squeezed
<1>2. \A t \in K : "sealed" \in DOMAIN t => t.sealed \in Seq(L)
  BY SeqOfMore DEF WellMade
<1> QED BY <1>1, <1>2 DEF WellMade, IsEntry

LEMMA EntryToken ==
  ASSUME NEW K, WellMade(K), NEW name, NEW size \in Nat
  PROVE  /\ WellMade(K \cup {Entry(name, size)})
         /\ "sealed" \notin DOMAIN Entry(name, size)
  BY TokensAdded DEF Entry, IsEntry

LEMMA SealedToken ==
  ASSUME NEW K, WellMade(K), NEW lock, NEW text \in Seq(K)
  PROVE  WellMade(K \cup {Sealed(lock, text)})
  BY TokensAdded DEF Sealed, IsEntry

(* What a step leaves of the files: the same paths, and on each what was   *)
(* there or tokens of K.                                                   *)
Rewritten(K, touched) ==
  /\ Paths' = Paths
  /\ \A p \in Paths : files'[p] = files[p] \/ (p \in touched /\ files'[p] \in Seq(K))

LEMMA WroteIs ==
  ASSUME NEW K, NEW L, Known(K), K \subseteq L, NEW path, NEW pos \in Nat,
         NEW tokens \in Seq(L), Wrote(path, pos, tokens)
  PROVE  Rewritten(L, {path})
<1> DEFINE old == IF files[path] = NoFile THEN <<>> ELSE files[path]
<1>1. ASSUME path \in Paths PROVE Put(old, pos, tokens) \in Seq(L)
  <2>1. old \in Seq(K)
    BY <1>1 DEF Known
  <2>2. old \in Seq(L) /\ Zero \in L
    BY <2>1, SeqOfMore DEF Known
  <2> QED BY <2>2, PutIs
<1>2. files' = [files EXCEPT ![path] = Put(old, pos, tokens)]
  BY DEF Wrote
<1> QED BY <1>1, <1>2 DEF Rewritten, Paths

LEMMA TruncatedIs ==
  ASSUME NEW K, NEW path, Truncated(path)
  PROVE  Rewritten(K, {path})
  BY DEF Truncated, Rewritten, Paths

LEMMA UntouchedIs ==
  ASSUME NEW K, UNCHANGED files
  PROVE  Rewritten(K, {})
  BY DEF Rewritten, Paths

(* A step that adds the tokens of L. *)
Adds(K, L, touched) ==
  /\ Known(K) /\ K \subseteq L /\ WellMade(L)
  /\ Rewritten(L, touched)
  /\ minted \subseteq minted'
  /\ \A t \in L \ K : "sealed" \in DOMAIN t => t \in minted'
  /\ edits' \in 0..MaxEdits

(* A step that adds tokens to the known ones keeps what the other calls    *)
(* hold, so that it is enough to look at the call that makes it.           *)
LEMMA OthersKeep ==
  ASSUME NEW K, NEW L, NEW touched, Adds(K, L, touched)
  PROVE  /\ Zero \in L
         /\ \A t \in L : "sealed" \in DOMAIN t => t \in minted'
         /\ \E start \in Starts : Paths' = DOMAIN start
         /\ \A p \in Paths' : files'[p] = NoFile \/ files'[p] \in Seq(L)
         /\ \A d \in Calls :
              (Live(d) /\ call'[d] = call[d]) => Held(L, call[d])'
<1> USE DEF Adds
<1>1. Paths' = Paths
  BY DEF Rewritten
<1>2. \A p \in Paths : files'[p] = NoFile \/ files'[p] \in Seq(L)
  BY SeqOfMore DEF Rewritten, Known
<1>3. \A p \in Paths : files[p] \in Seq(K) => files'[p] \in Seq(L)
  BY SeqOfMore DEF Rewritten, Known
<1>4. ASSUME NEW d \in Calls, Live(d), call'[d] = call[d] PROVE Held(L, call[d])'
  <2>1. Held(K, call[d])
    BY <1>4 DEF Known
  <2>2. (Shape(call[d]) /\ Copies(call[d]))'
    BY <1>4, <2>1 DEF Held, Shape, Copies
  <2>3. Data(L, call[d])'
    BY <1>4, <2>1, <1>1, SeqOfMore DEF Held, Data
  <2>4. Unseals(call[d])'
    BY <1>4, <2>1 DEF Held, Unseals
  <2>5. Reads(L, call[d])'
    BY <1>4, <2>1, <1>1, <1>3 DEF Held, Reads, Data
  <2> QED BY <2>2, <2>3, <2>4, <2>5 DEF Held
<1>5. /\ Zero \in L
      /\ \A t \in L : "sealed" \in DOMAIN t => t \in minted'
      /\ \E start \in Starts : Paths' = DOMAIN start
  BY <1>1 DEF Known
<1> QED BY <1>1, <1>2, <1>4, <1>5

(* The call that steps ends, or holds what a running call holds. *)
LEMMA OneKeeps ==
  ASSUME NEW K, NEW L, NEW touched, Adds(K, L, touched),
         NEW c \in Calls, DOMAIN call' = Calls,
         \A d \in Calls : d # c => call'[d] = call[d],
         call'[c].ans \in {"none", "ok", "error", "timeout"},
         call'[c].pc = "done" => call'[c].ans # "none",
         Live(c)' => Held(L, call[c])'
  PROVE  IInv'
<1>1. ASSUME NEW d \in Calls
      PROVE  /\ call'[d].ans \in {"none", "ok", "error", "timeout"}
             /\ call'[d].pc = "done" => call'[d].ans # "none"
             /\ Live(d)' => Held(L, call[d])'
  <2>1. CASE d = c
    BY <2>1
  <2>2. CASE d # c
    <3>1. call'[d] = call[d]
      BY <2>2
    <3>2. Live(d)' => Live(d)
      BY <3>1 DEF Live
    <3>3. Live(d)' => Held(L, call[d])'
      BY <3>1, <3>2, OthersKeep
    <3>4. /\ call[d].ans \in {"none", "ok", "error", "timeout"}
          /\ call[d].pc = "done" => call[d].ans # "none"
      BY DEF Adds, Known
    <3> QED BY <3>1, <3>3, <3>4
  <2> QED BY <2>1, <2>2
<1>2. /\ Zero \in L
      /\ \A t \in L : "sealed" \in DOMAIN t => t \in minted'
      /\ \E start \in Starts : Paths' = DOMAIN start
      /\ \A p \in Paths' : files'[p] = NoFile \/ files'[p] \in Seq(L)
  BY OthersKeep
<1>3. WellMade(L) /\ edits' \in 0..MaxEdits
  BY DEF Adds
<1>4. Known(L)'
  BY <1>1, <1>2, <1>3 DEF Known
<1> QED BY <1>4 DEF IInv

LEMMA EndingKeeps ==
  ASSUME NEW K, NEW L, NEW touched, Adds(K, L, touched),
         NEW c \in Calls, NEW answer \in {"ok", "error", "timeout"}, Ended(c, answer)
  PROVE  IInv'
<1>1. call[c].ans \in {"none", "ok", "error", "timeout"} /\ DOMAIN call = Calls
  BY DEF Adds, Known
<1>2. /\ DOMAIN call' = Calls
      /\ \A d \in Calls : d # c => call'[d] = call[d]
      /\ call'[c].pc = "done"
      /\ call'[c].ans = IF call[c].ans = "none" THEN answer ELSE call[c].ans
  BY <1>1, EndedIs
<1>3. /\ call'[c].ans \in {"none", "ok", "error", "timeout"}
      /\ call'[c].ans # "none" /\ ~Live(c)'
  BY <1>1, <1>2 DEF Live
<1> QED BY <1>2, <1>3, OneKeeps

LEMMA MovingKeeps ==
  ASSUME NEW K, NEW L, NEW touched, Adds(K, L, touched),
         NEW c \in Calls, NEW fields, Live(c), Moved(c, fields),
         call'[c].pc # "done", Held(L, call[c])'
  PROVE  IInv'
<1>1. DOMAIN call = Calls /\ Shape(call[c])
  BY DEF Adds, Known, Held
<1>2. /\ DOMAIN call' = Calls
      /\ \A d \in Calls : d # c => call'[d] = call[d]
  BY <1>1, MovedIs
<1>3. call'[c].ans \in {"none", "ok", "error", "timeout"}
  BY DEF Held, Data
<1> QED BY <1>2, <1>3, OneKeeps

(* A step that adds no token. *)
LEMMA AddsNone ==
  ASSUME NEW K, Known(K), NEW touched, Rewritten(K, touched),
         UNCHANGED <<minted, edits>>
  PROVE  Adds(K, K, touched)
  BY DEF Adds, Known

LEMMA AddsOne ==
  ASSUME NEW K, Known(K), NEW touched, NEW t, WellMade(K \cup {t}),
         Rewritten(K \cup {t}, touched), minted \subseteq minted', edits' = edits,
         "sealed" \in DOMAIN t => t \in minted'
  PROVE  Adds(K, K \cup {t}, touched)
  BY DEF Adds, Known

-----------------------------------------------------------------------------
(***************************************************************************)
(* The steps of a call, one by one.                                        *)
(***************************************************************************)

LEMMA SourceIsThere ==
  ASSUME NEW K, Known(K), NEW c \in Calls, Live(c),
         call[c].req.tool \notin {"compress_tar", "generate_key"},
         NEW L, NEW touched, Adds(K, L, touched)
  PROVE  /\ call[c].req.src \in Paths
         /\ files[call[c].req.src] # NoFile =>
              files[call[c].req.src] \in Seq(K) /\ files'[call[c].req.src] \in Seq(L)
<1>1. Held(K, call[c])
  BY DEF Known
<1>2. call[c].req \in Requests
  BY <1>1 DEF Held, Data
<1>3. call[c].req.src \in Paths
  BY <1>2, TransformsAssumption DEF Known
<1>4. files[call[c].req.src] # NoFile => files[call[c].req.src] \in Seq(K)
  BY <1>3 DEF Known
<1> QED BY <1>3, <1>4, SeqOfMore DEF Adds, Rewritten

LEMMA FileStays ==
  ASSUME NEW K, NEW L, NEW touched, Adds(K, L, touched),
         NEW p \in Paths, files[p] \in Seq(K)
  PROVE  Paths' = Paths /\ files'[p] \in Seq(L)
  BY SeqOfMore DEF Adds, Rewritten

LEMMA WritesToken ==
  ASSUME NEW K, Known(K), NEW t, WellMade(K \cup {t}),
         "sealed" \in DOMAIN t => t \in minted',
         minted \subseteq minted', edits' = edits,
         NEW path, NEW pos \in Nat, Wrote(path, pos, <<t>>)
  PROVE  Adds(K, K \cup {t}, {path})
<1>1. <<t>> \in Seq(K \cup {t})
  OBVIOUS
<1>2. Rewritten(K \cup {t}, {path})
  BY <1>1, WroteIs
<1> QED BY <1>2, AddsOne

(* What a step that goes on leaves of the record. *)
LEMMA MovedOn ==
  ASSUME NEW K, Known(K), NEW c \in Calls, Live(c), NEW fields, Moved(c, fields)
  PROVE  /\ Shape(call'[c])
         /\ call'[c].req = IF "req" \in DOMAIN fields THEN fields.req ELSE call[c].req
         /\ call'[c].pc = IF "pc" \in DOMAIN fields THEN fields.pc ELSE call[c].pc
         /\ call'[c].ans = IF "ans" \in DOMAIN fields THEN fields.ans ELSE call[c].ans
         /\ call'[c].at = IF "at" \in DOMAIN fields THEN fields.at ELSE call[c].at
         /\ call'[c].pos = IF "pos" \in DOMAIN fields THEN fields.pos ELSE call[c].pos
         /\ call'[c].handed = IF "handed" \in DOMAIN fields THEN fields.handed
                              ELSE call[c].handed
         /\ call'[c].text = IF "text" \in DOMAIN fields THEN fields.text ELSE call[c].text
         /\ call'[c].rest = IF "rest" \in DOMAIN fields THEN fields.rest ELSE call[c].rest
         /\ call'[c].before = IF "before" \in DOMAIN fields THEN fields.before
                              ELSE call[c].before
         /\ call'[c].codec = IF "codec" \in DOMAIN fields THEN fields.codec
                             ELSE call[c].codec
         /\ call'[c].skipped = IF "skipped" \in DOMAIN fields THEN fields.skipped
                               ELSE call[c].skipped
         /\ "lock" \in DOMAIN call'[c] <=>
              "lock" \in DOMAIN fields \/ "lock" \in DOMAIN call[c]
         /\ "lock" \in DOMAIN call'[c] =>
              call'[c].lock = IF "lock" \in DOMAIN fields THEN fields.lock ELSE call[c].lock
<1>1. DOMAIN call = Calls /\ Shape(call[c])
  BY DEF Known, Held
<1>2. /\ Shape(call'[c])
      /\ DOMAIN call'[c] = DOMAIN fields \cup DOMAIN call[c]
      /\ \A f \in DOMAIN call'[c] :
           call'[c][f] = IF f \in DOMAIN fields THEN fields[f] ELSE call[c][f]
  BY <1>1, MovedIs
<1> QED BY <1>2 DEF Shape

LEMMA OpenKeeps ==
  ASSUME NEW K, Known(K), NEW c \in Calls,
         CompressOpen(c) \/ DecompressOpen(c) \/ DecompressCreate(c),
         UNCHANGED <<minted, edits>>
  PROVE  IInv'
<1>1. PICK touched : Adds(K, K, touched)
  <2>1. CASE CompressOpen(c) \/ DecompressCreate(c)
    BY <2>1, TruncatedIs, AddsNone DEF CompressOpen, DecompressCreate
  <2>2. CASE DecompressOpen(c)
    BY <2>2, UntouchedIs, AddsNone DEF DecompressOpen
  <2> QED BY <2>1, <2>2
<1>2. /\ Live(c) /\ Held(K, call[c]) /\ call[c].req.tool \in Compressors \cup Decompressors
      /\ call[c].pc = "open" \/ (call[c].pc = "create" /\ call[c].req.tool \in Decompressors)
  BY DEF CompressOpen, DecompressOpen, DecompressCreate, At, Known
<1>3. call[c].req.src \in Paths /\ files'[call[c].req.src] \in Seq(K) /\ Paths' = Paths
  <2>1. call[c].req.tool \notin {"compress_tar", "generate_key"} /\ Paths' = Paths
    BY <1>1, <1>2 DEF Compressors, Decompressors, Adds, Rewritten
  <2>2. CASE call[c].pc = "open"
    <3>1. files[call[c].req.src] # NoFile
      BY <2>2 DEF CompressOpen, DecompressOpen, DecompressCreate, At
    <3> QED BY <1>1, <1>2, <2>1, <3>1, SourceIsThere
  <2>3. CASE call[c].pc = "create" /\ call[c].req.tool \in Decompressors
    <3>1. call[c].req.src \in Paths /\ files[call[c].req.src] \in Seq(K)
      BY <1>2, <2>3 DEF Held, Reads
    <3> QED BY <1>1, <2>1, <3>1, FileStays
  <2> QED BY <1>2, <2>2, <2>3
<1>4. PICK pc \in {"create", "copy"} : Moved(c, [pc |-> pc])
  BY DEF CompressOpen, DecompressOpen, DecompressCreate
<1>5. /\ Shape(call'[c]) /\ call'[c].pc = pc
      /\ call'[c].req = call[c].req /\ call'[c].ans = call[c].ans
      /\ call'[c].at = call[c].at /\ call'[c].pos = call[c].pos
      /\ call'[c].handed = call[c].handed
      /\ call'[c].text = call[c].text /\ call'[c].rest = call[c].rest
  BY <1>2, <1>4, MovedOn
<1>6. Held(K, call[c])'
  BY <1>2, <1>3, <1>5 DEF Held, Data, Reads, Copies, Unseals, Compressors, Decompressors, Shape
<1> QED BY <1>1, <1>2, <1>4, <1>5, <1>6, MovingKeeps

LEMMA CompressCopyKeeps ==
  ASSUME NEW K, Known(K), NEW c \in Calls, CompressCopy(c), UNCHANGED <<minted, edits>>
  PROVE  IInv'
<1> DEFINE src == call[c].req.src
           block == files[src][call[c].at + 1]
           t == Squeezed(Codec(call[c].req.tool), block)
<1> PICK L : L = K \cup {t}
  OBVIOUS
<1>1. Live(c) /\ Held(K, call[c]) /\ call[c].req.tool \in Compressors /\ call[c].pc = "copy"
  BY DEF CompressCopy, At, Known
<1>2. src \in Paths /\ files[src] \in Seq(K) /\ call[c].at < Len(files[src])
  BY <1>1 DEF CompressCopy, Held, Reads
<1>3. block \in K
  BY <1>1, <1>2 DEF Held, Data
<1>4. WellMade(L) /\ "sealed" \notin DOMAIN t
  BY <1>3, BlockToken DEF Known
<1>5. Adds(K, L, {Output(call[c].req)})
  <2>1. Wrote(Output(call[c].req), call[c].pos, <<t>>) /\ call[c].pos \in Nat
    BY <1>1 DEF CompressCopy, Held, Data
  <2> QED BY <1>4, <2>1, WritesToken
<1>6. Paths' = Paths /\ files'[src] \in Seq(L)
  BY <1>2, <1>5, FileStays
<1>7. Moved(c, [at |-> call[c].at + 1, pos |-> call[c].pos + 1,
                text |-> Append(call[c].text, block)])
  BY DEF CompressCopy
<1>8. /\ Shape(call'[c]) /\ call'[c].pc = "copy"
      /\ call'[c].req = call[c].req /\ call'[c].ans = call[c].ans
      /\ call'[c].at = call[c].at + 1 /\ call'[c].pos = call[c].pos + 1
      /\ call'[c].handed = call[c].handed
      /\ call'[c].text = Append(call[c].text, block) /\ call'[c].rest = call[c].rest
  BY <1>1, <1>7, MovedOn
<1>9. Append(call[c].text, block) \in Seq(L)
  <2>1. call[c].text \in Seq(K)
    BY <1>1 DEF Held, Data
  <2> HIDE DEF block, t
  <2> QED BY <1>3, <2>1, SeqOfMore
<1>10. Held(L, call[c])'
  <2>1. Data(K, call[c]) /\ call'[c].text \in Seq(L) /\ Paths' = Paths
    BY <1>1, <1>6, <1>8, <1>9 DEF Held
  <2>2. Reads(L, call[c])'
    BY <1>2, <1>6, <1>8 DEF Reads
  <2>3. Copies(call[c])' /\ Unseals(call[c])'
    BY <1>1, <1>8 DEF Copies, Unseals, Compressors, Decompressors
  <2>4. Data(L, call[c])'
    <3> HIDE DEF block, src, t
    <3> QED BY <1>8, <2>1 DEF Data
  <2> QED BY <1>8, <2>2, <2>3, <2>4 DEF Held
<1> QED BY <1>1, <1>5, <1>7, <1>8, <1>10, MovingKeeps

LEMMA CompressEndKeeps ==
  ASSUME NEW K, Known(K), NEW c \in Calls, CompressFinish(c) \/ CompressFails(c),
         UNCHANGED <<minted, edits>>
  PROVE  IInv'
<1>1. PICK answer \in {"ok", "error"} : Ended(c, answer)
  BY DEF CompressFinish, CompressFails
<1>2. Live(c) /\ Held(K, call[c])
  BY DEF CompressFinish, CompressFails, At, Known
<1>3. ASSUME NEW codec,
             Wrote(Output(call[c].req), call[c].pos, <<Trailer(codec, call[c].text)>>)
      PROVE  IInv'
  <2>1. /\ WellMade(K \cup {Trailer(codec, call[c].text)})
        /\ "sealed" \notin DOMAIN Trailer(codec, call[c].text)
    BY PlainTokens DEF Known
  <2>2. Adds(K, K \cup {Trailer(codec, call[c].text)}, {Output(call[c].req)})
    BY <1>2, <1>3, <2>1, WritesToken DEF Held, Data
  <2> QED BY <1>1, <2>2, EndingKeeps
<1>4. CASE UNCHANGED files
  <2>1. Adds(K, K, {})
    BY <1>4, UntouchedIs, AddsNone
  <2> QED BY <1>1, <2>1, EndingKeeps
<1> QED BY <1>3, <1>4 DEF CompressFinish, CompressFails

LEMMA DecompressCopyKeeps ==
  ASSUME NEW K, Known(K), NEW c \in Calls, DecompressCopy(c), UNCHANGED <<minted, edits>>
  PROVE  IInv'
<1> DEFINE token == NextToken(c)
<1>1. /\ Live(c) /\ Held(K, call[c]) /\ call[c].req.tool \in Decompressors
      /\ call[c].pc = "copy"
  BY DEF DecompressCopy, At, Known
<1>2. /\ call[c].req.src \in Paths /\ files[call[c].req.src] \in Seq(K)
      /\ call[c].at < Len(files[call[c].req.src]) /\ call[c].at \in Nat
      /\ call[c].text \in Seq(K)
  BY <1>1 DEF DecompressCopy, HasNext, Held, Reads, Data
<1>3. token.block \in K
  <2>1. token = files[call[c].req.src][call[c].at + 1]
    BY DEF NextToken
  <2>2. token \in K
    <3> HIDE DEF token
    <3> QED BY <1>2, <2>1, ItemOf
  <2>3. "block" \in DOMAIN token
    BY DEF DecompressCopy, IsBlock
  <2> QED BY <2>2, <2>3 DEF Known, WellMade
<1>4. Adds(K, K, {})
  BY UntouchedIs, AddsNone DEF DecompressCopy
<1>5. Paths' = Paths /\ files'[call[c].req.src] \in Seq(K)
  BY <1>2, <1>4, FileStays
<1>6. Moved(c, [at |-> call[c].at + 1, text |-> Append(call[c].text, token.block)])
  BY DEF DecompressCopy
<1>7. /\ Shape(call'[c]) /\ call'[c].pc = "copy"
      /\ call'[c].req = call[c].req /\ call'[c].ans = call[c].ans
      /\ call'[c].at = call[c].at + 1 /\ call'[c].pos = call[c].pos
      /\ call'[c].handed = call[c].handed
      /\ call'[c].text = Append(call[c].text, token.block) /\ call'[c].rest = call[c].rest
  BY <1>1, <1>6, MovedOn
<1>8. /\ Append(call[c].text, token.block) \in Seq(K)
      /\ Len(Append(call[c].text, token.block)) = Len(call[c].text) + 1
      /\ Len(call[c].text) + 1 <= Limit
  BY <1>2, <1>3 DEF DecompressCopy, WithinLimit
<1>9. Copies(call[c])'
  BY <1>1, <1>2, <1>7, <1>8 DEF Held, Copies, Data
<1>10. Held(K, call[c])'
  BY <1>1, <1>2, <1>5, <1>7, <1>8, <1>9
  DEF Held, Data, Reads, Unseals, Decompressors, Shape
<1> QED BY <1>1, <1>4, <1>6, <1>7, <1>10, MovingKeeps

LEMMA HandKeeps ==
  ASSUME NEW K, Known(K), NEW c \in Calls, Hand(c), UNCHANGED <<minted, edits>>
  PROVE  IInv'
<1>1. /\ Live(c) /\ Held(K, call[c]) /\ call[c].req.tool \in Decompressors
      /\ call[c].pc = "copy"
  BY DEF Hand, At, Known
<1>2. Adds(K, K, {})
  BY UntouchedIs, AddsNone DEF Hand
<1>3. /\ call[c].req.src \in Paths /\ files[call[c].req.src] \in Seq(K)
      /\ Paths' = Paths /\ files'[call[c].req.src] \in Seq(K)
  BY <1>1, <1>2, FileStays DEF Held, Reads
<1>4. Moved(c, [handed |-> call[c].handed + 1])
  BY DEF Hand
<1>5. /\ Shape(call'[c]) /\ call'[c].pc = "copy"
      /\ call'[c].req = call[c].req /\ call'[c].ans = call[c].ans
      /\ call'[c].at = call[c].at /\ call'[c].pos = call[c].pos
      /\ call'[c].handed = call[c].handed + 1
      /\ call'[c].text = call[c].text /\ call'[c].rest = call[c].rest
  BY <1>1, <1>4, MovedOn
<1>6. Copies(call[c])'
  BY <1>1, <1>5 DEF Hand, Held, Copies, Data
<1>7. Held(K, call[c])'
  BY <1>1, <1>3, <1>5, <1>6 DEF Held, Data, Reads, Unseals, Decompressors, Shape
<1> QED BY <1>1, <1>2, <1>4, <1>5, <1>7, MovingKeeps

(* The chunk that lands is one that was let through. *)
LEMMA LandWrites ==
  ASSUME NEW K, Known(K), NEW c \in Calls, Land(c)
  PROVE  /\ Live(c) /\ Held(K, call[c]) /\ call[c].req.tool \in Decompressors
         /\ call[c].pos \in Nat /\ call[c].text \in Seq(K)
         /\ call[c].pos + 1 = call[c].handed /\ call[c].handed <= Len(call[c].text)
         /\ <<call[c].text[call[c].pos + 1]>> \in Seq(K)
<1>1. Live(c) /\ Held(K, call[c]) /\ call[c].req.tool \in Decompressors
  BY DEF Land, Known
<1>2. /\ call[c].pos \in Nat /\ call[c].handed \in Nat /\ call[c].text \in Seq(K)
      /\ call[c].pos + 1 = call[c].handed /\ call[c].handed <= Len(call[c].text)
  BY <1>1 DEF Land, Held, Copies, Data
<1>3. call[c].text[call[c].pos + 1] \in K
  BY <1>2
<1> QED BY <1>1, <1>2, <1>3

LEMMA LandKeeps ==
  ASSUME NEW K, Known(K), NEW c \in Calls, Land(c), UNCHANGED <<minted, edits>>
  PROVE  IInv'
<1>1. /\ Live(c) /\ Held(K, call[c]) /\ call[c].req.tool \in Decompressors
      /\ call[c].pos \in Nat /\ <<call[c].text[call[c].pos + 1]>> \in Seq(K)
  BY LandWrites
<1>2. Adds(K, K, {Output(call[c].req)})
  BY <1>1, WroteIs, AddsNone DEF Land
<1>3. /\ Paths' = Paths
      /\ call[c].pc \in {"copy", "entry", "create"} =>
           call[c].req.src \in Paths /\ files'[call[c].req.src] \in Seq(K)
  BY <1>1, <1>2, FileStays DEF Held, Reads, Adds, Rewritten
<1>4. Moved(c, [pos |-> call[c].pos + 1])
  BY DEF Land
<1>5. /\ Shape(call'[c]) /\ call'[c].pc = call[c].pc
      /\ call'[c].req = call[c].req /\ call'[c].ans = call[c].ans
      /\ call'[c].at = call[c].at /\ call'[c].pos = call[c].pos + 1
      /\ call'[c].handed = call[c].handed
      /\ call'[c].text = call[c].text /\ call'[c].rest = call[c].rest
  BY <1>1, <1>4, MovedOn
<1>6. Copies(call[c])'
  BY <1>1, <1>5 DEF Land, Held, Copies, Data
<1>7. call[c].pc = "append" => call[c].rest # <<>> /\ files'[Head(call[c].rest)] \in Seq(K)
  <2>1. ASSUME call[c].pc = "append"
        PROVE  Head(call[c].rest) \in Paths /\ files[Head(call[c].rest)] \in Seq(K)
    BY <1>1, <2>1 DEF Held, Reads, Data
  <2> QED BY <1>1, <1>2, <2>1, FileStays DEF Held, Reads
<1>8. Held(K, call[c])'
  BY <1>1, <1>3, <1>5, <1>6, <1>7 DEF Held, Data, Reads, Unseals, Decompressors, Shape
<1>9. call'[c].pc # "done"
  BY <1>1, <1>5 DEF Live
<1> QED BY <1>1, <1>2, <1>4, <1>8, <1>9, MovingKeeps

(* The handler goes away: what is on its way lands or does not. *)
LEMMA DroppedKeeps ==
  ASSUME NEW K, Known(K), NEW c \in Calls, Live(c),
         call[c].req.tool \in Decompressors,
         NEW answer \in {"error", "timeout"}, Dropped(c, answer),
         UNCHANGED <<files, minted, edits>>
  PROVE  IInv'
<1>1. Adds(K, K, {}) /\ Held(K, call[c])
  BY UntouchedIs, AddsNone DEF Known
<1>2. CASE Ended(c, answer)
  BY <1>1, <1>2, EndingKeeps
<1>3. CASE Moved(c, [pc |-> "dropped", ans |-> answer])
  <2>1. /\ Shape(call'[c]) /\ call'[c].pc = "dropped"
        /\ call'[c].req = call[c].req /\ call'[c].ans = answer
        /\ call'[c].at = call[c].at /\ call'[c].pos = call[c].pos
        /\ call'[c].handed = call[c].handed
        /\ call'[c].text = call[c].text /\ call'[c].rest = call[c].rest
    BY <1>3, MovedOn
  <2>2. Paths' = Paths
    BY DEF Paths
  <2>3. Copies(call[c])'
    BY <1>1, <2>1 DEF Held, Copies
  <2>4. Held(K, call[c])'
    BY <1>1, <2>1, <2>2, <2>3 DEF Held, Data, Reads, Unseals, Decompressors, Shape
  <2> QED BY <1>1, <1>3, <2>1, <2>4, MovingKeeps
<1> QED BY <1>2, <1>3 DEF Dropped

LEMMA DecompressEndKeeps ==
  ASSUME NEW K, Known(K), NEW c \in Calls,
         \/ DecompressFinish(c) \/ DecompressFails(c) \/ DroppedEnds(c)
         \/ LateCreate(c),
         UNCHANGED <<minted, edits>>
  PROVE  IInv'
<1>1. Live(c) /\ call[c].req.tool \in Decompressors
  BY DEF DecompressFinish, DecompressFails, DroppedEnds, LateCreate, At
<1>2. CASE UNCHANGED files /\ \E answer \in {"ok", "error"} : Ended(c, answer)
  <2>1. Adds(K, K, {})
    BY <1>2, UntouchedIs, AddsNone
  <2> QED BY <1>2, <2>1, EndingKeeps
<1>3. CASE UNCHANGED files /\ Dropped(c, "error")
  BY <1>1, <1>3, DroppedKeeps
<1>4. CASE LateCreate(c)
  <2>1. Adds(K, K, {Output(call[c].req)})
    BY <1>4, TruncatedIs, AddsNone DEF LateCreate
  <2> QED BY <1>4, <2>1, EndingKeeps DEF LateCreate
<1> QED BY <1>2, <1>3, <1>4 DEF DecompressFinish, DecompressFails, DroppedEnds

(* What encrypt_file and decrypt_file read is what they hold afterwards. *)
LEMMA CipherReadKeeps ==
  ASSUME NEW K, Known(K), NEW c \in Calls, EncryptRead(c) \/ DecryptRead(c),
         UNCHANGED <<minted, edits>>
  PROVE  IInv'
<1> DEFINE src == call[c].req.src
<1>1. /\ Live(c) /\ Held(K, call[c]) /\ call[c].req.tool \in {"encrypt_file", "decrypt_file"}
      /\ files[src] # NoFile
  BY DEF EncryptRead, DecryptRead, At, Known
<1>2. Adds(K, K, {}) /\ Paths' = Paths
  BY UntouchedIs, AddsNone DEF EncryptRead, DecryptRead, Paths
<1>3. files[src] \in Seq(K)
  <2>1. call[c].req.tool \notin {"compress_tar", "generate_key"}
    BY <1>1
  <2> QED BY <1>1, <1>2, <2>1, SourceIsThere
<1>4. PICK pc \in {"create", "unseal"} :
        \E lock : Moved(c, [pc |-> pc, text |-> files[src], lock |-> lock])
  BY DEF EncryptRead, DecryptRead
<1> PICK lock : Moved(c, [pc |-> pc, text |-> files[src], lock |-> lock])
  BY <1>4
<1>5. /\ Shape(call'[c]) /\ call'[c].pc = pc /\ "lock" \in DOMAIN call'[c]
      /\ call'[c].req = call[c].req /\ call'[c].ans = call[c].ans
      /\ call'[c].at = call[c].at /\ call'[c].pos = call[c].pos
      /\ call'[c].handed = call[c].handed
      /\ call'[c].text = files[src] /\ call'[c].rest = call[c].rest
  BY <1>1, MovedOn
<1>6. Held(K, call[c])'
  BY <1>1, <1>2, <1>3, <1>5
  DEF Held, Data, Reads, Copies, Unseals, Decompressors, Shape
<1> QED BY <1>1, <1>2, <1>4, <1>5, <1>6, MovingKeeps

LEMMA EncryptStepKeeps ==
  ASSUME NEW K, Known(K), NEW c \in Calls, EncryptCreate(c) \/ EncryptHeader(c),
         UNCHANGED <<minted, edits>>
  PROVE  IInv'
<1>1. /\ Live(c) /\ Held(K, call[c]) /\ call[c].req.tool = "encrypt_file"
  BY DEF EncryptCreate, EncryptHeader, At, Known
<1>2. PICK L, touched : Adds(K, L, touched)
  <2>1. CASE EncryptCreate(c)
    <3>1. Adds(K, K, {Output(call[c].req)})
      BY <2>1, TruncatedIs, AddsNone DEF EncryptCreate
    <3> QED BY <3>1
  <2>2. CASE EncryptHeader(c)
    <3>1. /\ WellMade(K \cup {HeaderOf(call[c].lock)})
          /\ "sealed" \notin DOMAIN HeaderOf(call[c].lock)
      BY PlainTokens DEF Known
    <3>2. Adds(K, K \cup {HeaderOf(call[c].lock)}, {Output(call[c].req)})
      BY <2>2, <3>1, WritesToken DEF EncryptHeader
    <3> QED BY <3>2
  <2> QED BY <2>1, <2>2
<1>3. PICK pc \in {"header", "body"} : Moved(c, [pc |-> pc])
  BY DEF EncryptCreate, EncryptHeader
<1>4. /\ Shape(call'[c]) /\ call'[c].pc = pc
      /\ call'[c].req = call[c].req /\ call'[c].ans = call[c].ans
      /\ call'[c].at = call[c].at /\ call'[c].pos = call[c].pos
      /\ call'[c].handed = call[c].handed
      /\ call'[c].text = call[c].text /\ call'[c].rest = call[c].rest
  BY <1>1, <1>3, MovedOn
<1>5. Paths' = Paths /\ call[c].text \in Seq(L)
  BY <1>1, <1>2, SeqOfMore DEF Adds, Rewritten, Held, Data
<1>6. Held(L, call[c])'
  BY <1>1, <1>4, <1>5
  DEF Held, Data, Reads, Copies, Unseals, Decompressors, Shape
<1> QED BY <1>1, <1>2, <1>3, <1>4, <1>6, MovingKeeps

(* The one step that mints. *)
LEMMA EncryptBodyKeeps ==
  ASSUME NEW K, Known(K), NEW c \in Calls, EncryptBody(c), UNCHANGED edits
  PROVE  IInv'
<1> DEFINE t == Sealed(call[c].lock, call[c].text)
<1>1. Held(K, call[c])
  BY DEF EncryptBody, At, Known
<1>2. WellMade(K \cup {t})
  BY <1>1, SealedToken DEF Known, Held, Data
<1>3. Adds(K, K \cup {t}, {Output(call[c].req)})
  BY <1>2, WritesToken DEF EncryptBody
<1> QED BY <1>3, EndingKeeps DEF EncryptBody

LEMMA EncryptFailsKeeps ==
  ASSUME NEW K, Known(K), NEW c \in Calls, EncryptFails(c), UNCHANGED <<minted, edits>>
  PROVE  IInv'
<1>1. CASE UNCHANGED files
  <2>1. Adds(K, K, {})
    BY <1>1, UntouchedIs, AddsNone
  <2> QED BY <2>1, EndingKeeps DEF EncryptFails
<1>2. CASE Wrote(Output(call[c].req), 1, <<CutBody>>)
  <2>1. WellMade(K \cup {CutBody}) /\ "sealed" \notin DOMAIN CutBody
    BY PlainTokens DEF Known
  <2>2. Adds(K, K \cup {CutBody}, {Output(call[c].req)})
    BY <1>2, <2>1, WritesToken
  <2> QED BY <2>2, EndingKeeps DEF EncryptFails
<1> QED BY <1>1, <1>2 DEF EncryptFails

(* A body that opens is one that was sealed with the key it was opened     *)
(* with.                                                                   *)
LEMMA OpenedWasSealed ==
  ASSUME NEW K, Known(K), NEW lock, NEW text \in Seq(K), Opens(text, lock)
  PROVE  text[2].sealed \in Seq(K) /\ Sealed(lock, text[2].sealed) \in minted
<1>1. text[2] \in K /\ "sealed" \in DOMAIN text[2]
  <2>1. Len(text) = 2 /\ "sealed" \in DOMAIN text[2]
    BY DEF Opens
  <2>2. \A i \in 1..Len(text) : text[i] \in K
    OBVIOUS
  <2> QED BY <2>1, <2>2
<1>2. /\ text[2] = [sealed |-> text[2].sealed, lock |-> text[2].lock, aad |-> text[2].aad]
      /\ text[2].sealed \in Seq(K) /\ text[2] \in minted
  BY <1>1 DEF Known, WellMade
<1>3. text[2] = Sealed(lock, text[2].sealed)
  BY <1>2 DEF Opens, Sealed
<1> QED BY <1>2, <1>3

LEMMA OpenedIsEncrypted ==
  ASSUME NEW K, Known(K), NEW lock, NEW text \in Seq(K), Opens(text, lock)
  PROVE  text = Encrypted(lock, text[2].sealed)
<1>1. Len(text) = 2 /\ "sealed" \in DOMAIN text[2] /\ text[1] = HeaderOf(lock)
  BY DEF Opens
<1>2. text[2] \in K
  <2>1. 1 < Len(text) /\ 1 \in Nat /\ 1 + 1 = 2
    BY <1>1
  <2> QED BY <2>1, ItemOf
<1>3. text[2] = Sealed(lock, text[2].sealed)
  <2>1. text[2] = [sealed |-> text[2].sealed, lock |-> text[2].lock, aad |-> text[2].aad]
    BY <1>1, <1>2 DEF Known, WellMade
  <2> QED BY <2>1 DEF Opens, Sealed
<1>4. text = <<text[1], text[2]>>
  BY <1>1
<1> QED BY <1>1, <1>3, <1>4 DEF Encrypted

LEMMA DecryptUnsealKeeps ==
  ASSUME NEW K, Known(K), NEW c \in Calls, DecryptUnseal(c), UNCHANGED <<minted, edits>>
  PROVE  IInv'
<1> DEFINE inside == call[c].text[2].sealed
<1>1. /\ Live(c) /\ Held(K, call[c]) /\ call[c].req.tool = "decrypt_file"
      /\ call[c].pc = "unseal" /\ Opens(call[c].text, call[c].lock)
  BY DEF DecryptUnseal, At, Known
<1>2. inside \in Seq(K) /\ Sealed(call[c].lock, inside) \in minted
  BY <1>1, OpenedWasSealed DEF Held, Data
<1>3. Adds(K, K, {}) /\ Paths' = Paths
  BY UntouchedIs, AddsNone DEF DecryptUnseal, Paths
<1>4. Moved(c, [pc |-> "write", text |-> inside])
  BY DEF DecryptUnseal
<1>5. "lock" \in DOMAIN call[c]
  BY <1>1 DEF Held, Unseals
<1>6. /\ Shape(call'[c]) /\ call'[c].pc = "write"
      /\ "lock" \in DOMAIN call'[c] /\ call'[c].lock = call[c].lock
      /\ call'[c].req = call[c].req /\ call'[c].ans = call[c].ans
      /\ call'[c].at = call[c].at /\ call'[c].pos = call[c].pos
      /\ call'[c].handed = call[c].handed
      /\ call'[c].text = inside /\ call'[c].rest = call[c].rest
  BY <1>1, <1>4, <1>5, MovedOn
<1>7. Unseals(call[c])'
  BY <1>2, <1>6 DEF Unseals
<1>8. Held(K, call[c])'
  BY <1>1, <1>2, <1>3, <1>6, <1>7 DEF Held, Data, Reads, Copies, Decompressors, Shape
<1> QED BY <1>1, <1>3, <1>4, <1>6, <1>8, MovingKeeps

LEMMA DecryptCreateKeeps ==
  ASSUME NEW K, Known(K), NEW c \in Calls, DecryptCreate(c), UNCHANGED <<minted, edits>>
  PROVE  IInv'
<1>1. /\ Live(c) /\ Held(K, call[c]) /\ call[c].req.tool = "decrypt_file"
      /\ call[c].pc = "write"
  BY DEF DecryptCreate, At, Known
<1>2. Adds(K, K, {Output(call[c].req)})
  BY TruncatedIs, AddsNone DEF DecryptCreate
<1>3. Paths' = Paths
  BY <1>2 DEF Adds, Rewritten
<1>4. Moved(c, [pc |-> "fill"])
  BY DEF DecryptCreate
<1>5. "lock" \in DOMAIN call[c] /\ Sealed(call[c].lock, call[c].text) \in minted
  BY <1>1 DEF Held, Unseals
<1>6. /\ Shape(call'[c]) /\ call'[c].pc = "fill"
      /\ "lock" \in DOMAIN call'[c] /\ call'[c].lock = call[c].lock
      /\ call'[c].req = call[c].req /\ call'[c].ans = call[c].ans
      /\ call'[c].at = call[c].at /\ call'[c].pos = call[c].pos
      /\ call'[c].handed = call[c].handed
      /\ call'[c].text = call[c].text /\ call'[c].rest = call[c].rest
  BY <1>1, <1>4, <1>5, MovedOn
<1>7. Unseals(call[c])'
  BY <1>5, <1>6 DEF Unseals
<1>8. Held(K, call[c])'
  BY <1>1, <1>3, <1>6, <1>7 DEF Held, Data, Reads, Copies, Decompressors, Shape
<1> QED BY <1>1, <1>2, <1>4, <1>6, <1>8, MovingKeeps

LEMMA DecryptEndKeeps ==
  ASSUME NEW K, Known(K), NEW c \in Calls, DecryptWrite(c) \/ DecryptFails(c),
         UNCHANGED <<minted, edits>>
  PROVE  IInv'
<1>1. PICK answer \in {"ok", "error"} : Ended(c, answer)
  BY DEF DecryptWrite, DecryptFails
<1>2. CASE UNCHANGED files
  <2>1. Adds(K, K, {})
    BY <1>2, UntouchedIs, AddsNone
  <2> QED BY <1>1, <2>1, EndingKeeps
<1>3. ASSUME NEW tokens \in Seq(K), Wrote(Output(call[c].req), 0, tokens)
      PROVE  IInv'
  <2>1. Rewritten(K, {Output(call[c].req)})
    BY <1>3, WroteIs
  <2>2. Adds(K, K, {Output(call[c].req)})
    BY <2>1, AddsNone
  <2> QED BY <1>1, <2>2, EndingKeeps
<1>4. call[c].text \in Seq(K)
  BY DEF DecryptWrite, DecryptFails, At, Known, Held, Data
<1>5. call[c].text # <<>> => Front(call[c].text) \in Seq(K)
  BY <1>4, FrontIs
<1> QED BY <1>2, <1>3, <1>4, <1>5 DEF DecryptWrite, DecryptFails

(* A step of generate_key writes one token or truncates, whatever was there. *)
LEMMA PlacedIs ==
  ASSUME NEW K, NEW path, NEW t, files' = [files EXCEPT ![path] = <<t>>]
  PROVE  Rewritten(K \cup {t}, {path})
<1>1. <<t>> \in Seq(K \cup {t})
  OBVIOUS
<1> QED BY <1>1 DEF Rewritten, Paths

LEMMA KeyWriteAdds ==
  ASSUME NEW K, Known(K), NEW path, NEW k, UNCHANGED <<minted, edits>>,
         \/ files' = [files EXCEPT ![path] = <<[secret |-> k]>>]
         \/ files' = [files EXCEPT ![path] = <<[public |-> k]>>]
  PROVE  \E L, touched : Adds(K, L, touched)
<1>1. /\ WellMade(K \cup {[secret |-> k]}) /\ WellMade(K \cup {[public |-> k]})
      /\ "sealed" \notin DOMAIN [secret |-> k] /\ "sealed" \notin DOMAIN [public |-> k]
  BY PlainTokens DEF Known
<1>2. PICK t \in {[secret |-> k], [public |-> k]} : files' = [files EXCEPT ![path] = <<t>>]
  OBVIOUS
<1>3. Rewritten(K \cup {t}, {path})
  BY <1>2, PlacedIs
<1>4. Adds(K, K \cup {t}, {path})
  BY <1>1, <1>3, AddsOne
<1> QED BY <1>4

LEMMA KeygenSecretKeeps ==
  ASSUME NEW K, Known(K), NEW c \in Calls, KeygenSecret(c), UNCHANGED <<minted, edits>>
  PROVE  IInv'
<1>1. Live(c) /\ Held(K, call[c]) /\ call[c].req.tool = "generate_key"
  BY DEF KeygenSecret, At, Known
<1>2. PICK L, touched : Adds(K, L, touched)
  <2>1. CASE UNCHANGED files
    <3>1. Adds(K, K, {})
      BY <2>1, UntouchedIs, AddsNone
    <3> QED BY <3>1
  <2>2. CASE files' = [files EXCEPT ![call[c].req.out] = SecretKey(c)]
    BY <2>2, KeyWriteAdds DEF SecretKey
  <2> QED BY <2>1, <2>2 DEF KeygenSecret
<1>3. CASE Ended(c, "ok")
  BY <1>2, <1>3, EndingKeeps
<1>4. CASE Moved(c, [pc |-> "public"])
  <2>1. /\ Shape(call'[c]) /\ call'[c].pc = "public"
        /\ call'[c].req = call[c].req /\ call'[c].ans = call[c].ans
        /\ call'[c].at = call[c].at /\ call'[c].pos = call[c].pos
        /\ call'[c].handed = call[c].handed
        /\ call'[c].text = call[c].text /\ call'[c].rest = call[c].rest
    BY <1>1, <1>4, MovedOn
  <2>2. Paths' = Paths /\ call[c].text \in Seq(L)
    BY <1>1, <1>2, SeqOfMore DEF Adds, Rewritten, Held, Data
  <2>3. Held(L, call[c])'
    BY <1>1, <2>1, <2>2
    DEF Held, Data, Reads, Copies, Unseals, Decompressors, Shape
  <2> QED BY <1>1, <1>2, <1>4, <2>1, <2>3, MovingKeeps
<1> QED BY <1>3, <1>4 DEF KeygenSecret

LEMMA KeygenEndKeeps ==
  ASSUME NEW K, Known(K), NEW c \in Calls, KeygenPublic(c) \/ KeygenFails(c),
         UNCHANGED <<minted, edits>>
  PROVE  IInv'
<1>1. PICK answer \in {"ok", "error"} : Ended(c, answer)
  BY DEF KeygenPublic, KeygenFails
<1>2. PICK L, touched : Adds(K, L, touched)
  <2>1. CASE UNCHANGED files
    <3>1. Adds(K, K, {})
      BY <2>1, UntouchedIs, AddsNone
    <3> QED BY <3>1
  <2>2. CASE \E path : Truncated(path)
    <3>1. PICK path : Truncated(path)
      BY <2>2
    <3>2. Adds(K, K, {path})
      BY <3>1, TruncatedIs, AddsNone
    <3> QED BY <3>2
  <2>3. CASE KeygenPublic(c)
    BY <2>3, KeyWriteAdds DEF KeygenPublic, PublicKey
  <2> QED BY <2>1, <2>2, <2>3 DEF KeygenFails
<1> QED BY <1>1, <1>2, EndingKeeps

(* The files of an archive, in some order, are a sequence of paths. *)
LEMMA OrderIsSeq ==
  ASSUME NEW S, IsFiniteSet(S), NEW order \in SetToSeqs(S)
  PROVE  order \in Seq(S)
<1>1. Cardinality(S) \in Nat
  BY FS_CardinalityType
<1> QED BY <1>1 DEF SetToSeqs

LEMMA TarCollectKeeps ==
  ASSUME NEW K, Known(K), NEW c \in Calls, TarCollect(c), UNCHANGED <<minted, edits>>
  PROVE  IInv'
<1>1. Live(c) /\ Held(K, call[c]) /\ call[c].req.tool = "compress_tar"
  BY DEF TarCollect, At, Known
<1>2. Adds(K, K, {}) /\ Paths' = Paths
  BY UntouchedIs, AddsNone DEF TarCollect, Paths
<1>3. PICK found \in SUBSET Visible(call[c].req.src) :
        \E order \in SetToSeqs(found) :
          Moved(c, [pc |-> "create", rest |-> order,
                    skipped |-> Visible(call[c].req.src) \ found])
  BY DEF TarCollect
<1> PICK skipped : skipped = Visible(call[c].req.src) \ found
  OBVIOUS
<1> PICK order \in SetToSeqs(found) :
      Moved(c, [pc |-> "create", rest |-> order, skipped |-> skipped])
  BY <1>3
<1>4. order \in Seq(Paths)
  <2>1. found \subseteq Paths
    BY DEF Visible
  <2>2. IsFiniteSet(Paths)
    BY TransformsAssumption DEF Known
  <2>3. IsFiniteSet(found)
    BY <2>1, <2>2, FS_Subset
  <2>4. order \in Seq(found)
    BY <2>3, OrderIsSeq
  <2> QED BY <2>1, <2>4, SeqOfMore
<1>5. /\ Shape(call'[c]) /\ call'[c].pc = "create"
      /\ call'[c].req = call[c].req /\ call'[c].ans = call[c].ans
      /\ call'[c].at = call[c].at /\ call'[c].pos = call[c].pos
      /\ call'[c].handed = call[c].handed
      /\ call'[c].text = call[c].text /\ call'[c].rest = order
  BY <1>1, <1>3, MovedOn
<1>6. Held(K, call[c])'
  BY <1>1, <1>2, <1>4, <1>5
  DEF Held, Data, Reads, Copies, Unseals, Decompressors, Shape
<1> QED BY <1>1, <1>2, <1>3, <1>5, <1>6, MovingKeeps

LEMMA TarCreateKeeps ==
  ASSUME NEW K, Known(K), NEW c \in Calls, TarCreate(c), UNCHANGED <<minted, edits>>
  PROVE  IInv'
<1>1. Live(c) /\ Held(K, call[c]) /\ call[c].req.tool = "compress_tar"
  BY DEF TarCreate, At, Known
<1>2. Adds(K, K, {Output(call[c].req)})
  BY TruncatedIs, AddsNone DEF TarCreate
<1>3. Paths' = Paths
  BY <1>2 DEF Adds, Rewritten
<1>4. Moved(c, [pc |-> "stat"])
  BY DEF TarCreate
<1>5. /\ Shape(call'[c]) /\ call'[c].pc = "stat"
      /\ call'[c].req = call[c].req /\ call'[c].ans = call[c].ans
      /\ call'[c].at = call[c].at /\ call'[c].pos = call[c].pos
      /\ call'[c].handed = call[c].handed
      /\ call'[c].text = call[c].text /\ call'[c].rest = call[c].rest
  BY <1>1, <1>4, MovedOn
<1>6. Held(K, call[c])'
  BY <1>1, <1>3, <1>5
  DEF Held, Data, Reads, Copies, Unseals, Decompressors, Shape
<1> QED BY <1>1, <1>2, <1>4, <1>5, <1>6, MovingKeeps

LEMMA TarStatKeeps ==
  ASSUME NEW K, Known(K), NEW c \in Calls, TarStat(c), UNCHANGED <<minted, edits>>
  PROVE  IInv'
<1> DEFINE path == Head(call[c].rest)
<1>1. /\ Live(c) /\ Held(K, call[c]) /\ call[c].req.tool = "compress_tar"
      /\ call[c].rest # <<>> /\ files[path] # NoFile
  BY DEF TarStat, At, Known
<1>2. Adds(K, K, {}) /\ Paths' = Paths
  BY UntouchedIs, AddsNone DEF TarStat, Paths
<1>3. path \in Paths
  BY <1>1 DEF Held, Data
<1>4. files[path] \in Seq(K) /\ files'[path] = files[path]
  BY <1>1, <1>3 DEF Known, TarStat
<1>5. Moved(c, [pc |-> "append", at |-> Len(files[path])])
  BY DEF TarStat
<1>6. /\ Shape(call'[c]) /\ call'[c].pc = "append"
      /\ call'[c].req = call[c].req /\ call'[c].ans = call[c].ans
      /\ call'[c].at = Len(files[path]) /\ call'[c].pos = call[c].pos
      /\ call'[c].handed = call[c].handed
      /\ call'[c].text = call[c].text /\ call'[c].rest = call[c].rest
  BY <1>1, <1>5, MovedOn
<1>7. Len(files[path]) \in Nat
  BY <1>4
<1>8. Held(K, call[c])'
  BY <1>1, <1>2, <1>4, <1>6, <1>7
  DEF Held, Data, Reads, Copies, Unseals, Decompressors, Shape
<1> QED BY <1>1, <1>2, <1>5, <1>6, <1>8, MovingKeeps

LEMMA PartOfSeq ==
  ASSUME NEW S, NEW s \in Seq(S), NEW m \in Nat \ {0}, NEW n \in Nat, n <= Len(s)
  PROVE  SubSeq(s, m, n) \in Seq(S)
<1>1. \A i \in m..n : s[i] \in S
  OBVIOUS
<1> QED BY <1>1, SubSeqProperties

LEMMA StreamIs ==
  ASSUME NEW M, NEW codec, NEW archive \in Seq(M)
  PROVE  /\ Stream(codec, archive) \in Seq(M \cup {Squeezed(codec, b) : b \in M})
         /\ Len(Stream(codec, archive)) = Len(archive)
<1>1. CASE codec = "none"
  BY <1>1, SeqOfMore DEF Stream
<1>2. CASE codec # "none"
  <2>1. Stream(codec, archive) = [i \in 1..Len(archive) |-> Squeezed(codec, archive[i])]
    BY <1>2 DEF Stream
  <2>2. \A i \in 1..Len(archive) :
          Squeezed(codec, archive[i]) \in M \cup {Squeezed(codec, b) : b \in M}
    OBVIOUS
  <2>3. Len(archive) \in Nat
    OBVIOUS
  <2> QED BY <2>1, <2>2, <2>3
<1> QED BY <1>1, <1>2

LEMMA StreamLength ==
  ASSUME NEW M, NEW codec, NEW archive \in Seq(M)
  PROVE  Len(Stream(codec, archive)) = Len(archive)
BY StreamIs, Zenon

(* A part of an archive on its way through an encoder, made of tokens of M, *)
(* adds what the encoder makes of these.                                   *)
LEMMA PassedAdds ==
  ASSUME NEW K, Known(K), NEW M, K \subseteq M, WellMade(M),
         \A t \in M \ K : "sealed" \notin DOMAIN t,
         NEW c, call[c].pos \in Nat, NEW archive \in Seq(M),
         NEW n \in Passing(c, archive), Passed(c, archive, n),
         UNCHANGED <<minted, edits>>
  PROVE  \E L : Adds(K, L, {Output(call[c].req)}) /\ M \subseteq L
<1> DEFINE codec == call[c].req.codec
           L == M \cup {Squeezed(codec, b) : b \in M}
           tokens == SubSeq(Stream(codec, archive), call[c].pos + 1, n)
<1>1. WellMade(L) /\ \A b \in M : "sealed" \notin DOMAIN Squeezed(codec, b)
  BY SqueezedTokens
<1>2. Stream(codec, archive) \in Seq(L) /\ Len(Stream(codec, archive)) = Len(archive)
  BY StreamIs
<1>3. n \in Nat /\ n <= Len(archive) /\ call[c].pos + 1 \in Nat \ {0}
  BY DEF Passing
<1>4. tokens \in Seq(L)
  <2> HIDE DEF L
  <2> QED BY <1>2, <1>3, PartOfSeq
<1>5. K \subseteq L /\ M \subseteq L
  OBVIOUS
<1>6. Wrote(Output(call[c].req), call[c].pos, tokens)
  BY DEF Passed
<1>7. Rewritten(L, {Output(call[c].req)})
  <2> HIDE DEF L, tokens
  <2> QED BY <1>4, <1>5, <1>6, WroteIs
<1>8. \A t \in L \ K : "sealed" \in DOMAIN t => t \in minted'
  BY <1>1
<1>9. minted \subseteq minted' /\ edits' \in 0..MaxEdits
  BY DEF Known
<1>10. Adds(K, L, {Output(call[c].req)})
  <2> HIDE DEF L
  <2> QED BY <1>1, <1>5, <1>7, <1>8, <1>9 DEF Adds
<1> QED BY <1>5, <1>10

LEMMA TarAppendKeeps ==
  ASSUME NEW K, Known(K), NEW c \in Calls, TarAppend(c), UNCHANGED <<minted, edits>>
  PROVE  IInv'
<1> DEFINE path == Head(call[c].rest)
           header == Entry(path.name, call[c].at)
           archive == call[c].text \o <<header>> \o files[path]
<1> PICK M : M = K \cup {header}
  OBVIOUS
<1>1. /\ Live(c) /\ Held(K, call[c]) /\ call[c].req.tool = "compress_tar"
      /\ call[c].pc = "append"
  BY DEF TarAppend, At, Known
<1>2. /\ call[c].rest # <<>> /\ call[c].rest \in Seq(Paths)
      /\ call[c].pos \in Nat /\ call[c].at \in Nat
      /\ files[path] \in Seq(K)
  BY <1>1 DEF Held, Data, Reads
<1>3. WellMade(M) /\ "sealed" \notin DOMAIN header
  BY <1>2, EntryToken DEF Known
<1>4. archive \in Seq(M)
  <2>1. files[path] \in Seq(M) /\ <<header>> \in Seq(M) /\ call[c].text \in Seq(M)
    BY <1>1, <1>2, SeqOfMore DEF Held, Data
  <2> QED BY <2>1
<1>5. PICK n \in Passing(c, archive) :
        /\ Passed(c, archive, n)
        /\ Moved(c, [pc |-> "stat", pos |-> n, text |-> archive, rest |-> Tail(call[c].rest)])
  BY DEF TarAppend
<1>6. PICK L : Adds(K, L, {Output(call[c].req)}) /\ M \subseteq L
  <2>1. \A t \in M \ K : "sealed" \notin DOMAIN t
    BY <1>3
  <2> HIDE DEF archive
  <2> QED BY <1>2, <1>3, <1>4, <1>5, <2>1, PassedAdds
<1> DEFINE rest == Tail(call[c].rest)
<1>7. /\ Shape(call'[c]) /\ call'[c].pc = "stat"
      /\ call'[c].req = call[c].req /\ call'[c].ans = call[c].ans
      /\ call'[c].at = call[c].at /\ call'[c].pos = n
      /\ call'[c].handed = call[c].handed
      /\ call'[c].text = archive /\ call'[c].rest = rest
  <2> HIDE DEF archive, rest
  <2>1. Moved(c, [pc |-> "stat", pos |-> n, text |-> archive, rest |-> rest])
    BY <1>5 DEF rest
  <2>2. Live(c)
    BY <1>1
  <2> QED BY <2>1, <2>2, MovedOn
<1>8. /\ Paths' = Paths /\ archive \in Seq(L)
      /\ rest \in Seq(Paths) /\ n \in Nat
  <2>1. Paths' = Paths
    BY <1>6 DEF Adds, Rewritten
  <2>2. archive \in Seq(L)
    <3> HIDE DEF archive
    <3> QED BY <1>4, <1>6, SeqOfMore
  <2>3. Len(archive) \in Nat
    <3> HIDE DEF archive
    <3> QED BY <1>4
  <2>4. n \in Nat
    <3> HIDE DEF archive
    <3> QED BY <1>2, <1>5, <2>3 DEF Passing
  <2> QED BY <1>2, <2>1, <2>2, <2>4
<1>9. Held(L, call[c])'
  <2> HIDE DEF archive, rest, path
  <2> QED BY <1>1, <1>2, <1>7, <1>8
      DEF Held, Data, Reads, Copies, Unseals, Decompressors, Shape
<1>10. Moved(c, [pc |-> "stat", pos |-> n, text |-> archive, rest |-> rest])
  BY <1>5
<1> HIDE DEF archive, rest
<1> QED BY <1>1, <1>6, <1>7, <1>9, <1>10, MovingKeeps

(* What is written at the drop of the builder and its encoder. *)
LEMMA ClosedAdds ==
  ASSUME NEW K, Known(K), NEW c, call[c].pos \in Nat, call[c].text \in Seq(K),
         TarClosed(c), UNCHANGED <<minted, edits>>
  PROVE  \E L, touched : Adds(K, L, touched)
<1> DEFINE archive == Append(call[c].text, EndMark)
           whole == Compressed("gz", archive)
           M == K \cup {EndMark}
<1>1. WellMade(M) /\ "sealed" \notin DOMAIN EndMark
  BY PlainTokens DEF Known
<1>2. archive \in Seq(M)
  <2>1. call[c].text \in Seq(M)
    BY SeqOfMore
  <2> QED BY <2>1
<1>3. CASE \E n \in Passing(c, archive) : Passed(c, archive, n)
  <2>1. PICK n \in Passing(c, archive) : Passed(c, archive, n)
    BY <1>3
  <2>2. \E L : Adds(K, L, {Output(call[c].req)}) /\ M \subseteq L
    <3>1. K \subseteq M /\ \A t \in M \ K : "sealed" \notin DOMAIN t
      BY <1>1
    <3> HIDE DEF M, archive
    <3> QED BY <1>1, <1>2, <2>1, <3>1, PassedAdds
  <2> QED BY <2>2
<1>4. CASE Wrote(Output(call[c].req), call[c].pos, SubSeq(whole, call[c].pos + 1, Len(whole)))
  <2> DEFINE codec == "gz"
             N == M \cup {Squeezed(codec, b) : b \in M}
             t == Trailer(codec, archive)
             L == N \cup {t}
             tokens == SubSeq(whole, call[c].pos + 1, Len(whole))
  <2> HIDE DEF M, archive, codec
  <2>1. WellMade(N) /\ \A b \in M : "sealed" \notin DOMAIN Squeezed(codec, b)
    BY <1>1, SqueezedTokens
  <2>2. WellMade(L) /\ "sealed" \notin DOMAIN t
    <3> HIDE DEF N
    <3> QED BY <2>1, PlainTokens
  <2>3. whole \in Seq(L)
    <3> DEFINE blocks == [i \in 1..Len(archive) |-> Squeezed(codec, archive[i])]
    <3>1. whole = Append(blocks, t)
      BY DEF Compressed, codec
    <3>2. blocks \in Seq(N)
      <4>1. \A i \in 1..Len(archive) : Squeezed(codec, archive[i]) \in N
        BY <1>2
      <4>2. Len(archive) \in Nat
        BY <1>2
      <4> QED BY <4>1, <4>2
    <3>3. N \subseteq L /\ t \in L
      OBVIOUS
    <3> HIDE DEF blocks, whole, N, L, t
    <3>4. blocks \in Seq(L)
      BY <3>2, <3>3, SeqOfMore
    <3> QED BY <3>1, <3>3, <3>4
  <2>4. tokens \in Seq(L)
    <3>1. Len(whole) \in Nat /\ call[c].pos + 1 \in Nat \ {0}
      BY <2>3
    <3> HIDE DEF L, whole
    <3> QED BY <2>3, <3>1, PartOfSeq
  <2>5. K \subseteq L
    BY DEF M
  <2>6. Rewritten(L, {Output(call[c].req)})
    <3> HIDE DEF L, tokens
    <3>1. Wrote(Output(call[c].req), call[c].pos, tokens)
      BY <1>4 DEF tokens
    <3> QED BY <2>4, <2>5, <3>1, WroteIs
  <2>7. \A u \in L \ K : "sealed" \in DOMAIN u => u \in minted'
    BY <1>1, <2>1, <2>2 DEF M
  <2>8. minted \subseteq minted' /\ edits' \in 0..MaxEdits
    BY DEF Known
  <2>9. Adds(K, L, {Output(call[c].req)})
    <3> HIDE DEF L
    <3> QED BY <2>2, <2>5, <2>6, <2>7, <2>8 DEF Adds
  <2> QED BY <2>9
<1> QED BY <1>3, <1>4 DEF TarClosed

LEMMA TarEndKeeps ==
  ASSUME NEW K, Known(K), NEW c \in Calls, TarFinish(c) \/ TarFails(c),
         UNCHANGED <<minted, edits>>
  PROVE  IInv'
<1>1. PICK answer \in {"ok", "error"} : Ended(c, answer)
  BY DEF TarFinish, TarFails
<1>2. CASE UNCHANGED files
  <2>1. Adds(K, K, {})
    BY <1>2, UntouchedIs, AddsNone
  <2> QED BY <1>1, <2>1, EndingKeeps
<1>3. CASE TarClosed(c)
  <2>1. call[c].pos \in Nat /\ call[c].text \in Seq(K)
    BY DEF TarFinish, TarFails, At, Known, Held, Data
  <2>2. PICK L, touched : Adds(K, L, touched)
    BY <1>3, <2>1, ClosedAdds
  <2> QED BY <1>1, <2>2, EndingKeeps
<1>4. CASE Truncated(Output(call[c].req))
  <2>1. Adds(K, K, {Output(call[c].req)})
    BY <1>4, TruncatedIs, AddsNone
  <2> QED BY <1>1, <2>1, EndingKeeps
<1> QED BY <1>2, <1>3, <1>4 DEF TarFinish, TarFails

LEMMA UntarOpenKeeps ==
  ASSUME NEW K, Known(K), NEW c \in Calls, UntarOpen(c), UNCHANGED <<minted, edits>>
  PROVE  IInv'
<1>1. /\ Live(c) /\ Held(K, call[c]) /\ call[c].req.tool = "decompress_tar"
      /\ files[call[c].req.src] # NoFile
  BY DEF UntarOpen, At, Known
<1>2. Adds(K, K, {}) /\ Paths' = Paths
  BY UntouchedIs, AddsNone DEF UntarOpen, Paths
<1>3. call[c].req.src \in Paths /\ files'[call[c].req.src] \in Seq(K)
  BY <1>1, <1>2, SourceIsThere
<1>4. PICK codec : Moved(c, [pc |-> "entry", codec |-> codec])
  BY DEF UntarOpen
<1>5. /\ Shape(call'[c]) /\ call'[c].pc = "entry"
      /\ call'[c].req = call[c].req /\ call'[c].ans = call[c].ans
      /\ call'[c].at = call[c].at /\ call'[c].pos = call[c].pos
      /\ call'[c].handed = call[c].handed
      /\ call'[c].text = call[c].text /\ call'[c].rest = call[c].rest
  BY <1>1, <1>4, MovedOn
<1>6. Held(K, call[c])'
  BY <1>1, <1>2, <1>3, <1>5
  DEF Held, Data, Reads, Copies, Unseals, Decompressors, Shape
<1> QED BY <1>1, <1>2, <1>4, <1>5, <1>6, MovingKeeps

(* A decoder comes to the first token that is not a block of its codec. *)
LEMMA BlocksInIs ==
  ASSUME NEW S, NEW file \in Seq(S), NEW codec
  PROVE  /\ BlocksIn(codec, file) \in 0..Len(file)
         /\ \A i \in 1..BlocksIn(codec, file) : IsBlock(file[i], codec)
         /\ BlocksIn(codec, file) < Len(file) =>
              ~IsBlock(file[BlocksIn(codec, file) + 1], codec)
<1> DEFINE ends == {n \in 0..Len(file) : n < Len(file) => ~IsBlock(file[n + 1], codec)}
<1>1. Len(file) \in Nat
  OBVIOUS
<1>2. ends \subseteq Nat /\ Len(file) \in ends
  BY <1>1
<1>3. PICK n \in ends : \A m \in ends : ~(<<m, n>> \in OpToRel(<, Nat))
  <2>1. IsWellFoundedOn(OpToRel(<, Nat), Nat)
    BY NatLessThanWellFounded, Zenon DEF OpToRel
  <2>2. ends # {}
    BY <1>2
  <2> HIDE DEF ends
  <2> QED BY <1>2, <2>1, <2>2, WFMin, Zenon
<1>4. n \in 0..Len(file) /\ (n < Len(file) => ~IsBlock(file[n + 1], codec))
  OBVIOUS
<1>5. \A i \in 1..n : IsBlock(file[i], codec)
  <2> SUFFICES ASSUME NEW i \in 1..n, ~IsBlock(file[i], codec) PROVE FALSE
    OBVIOUS
  <2>1. i - 1 \in 0..Len(file) /\ (i - 1) + 1 = i /\ i - 1 < n
    BY <1>1, <1>4
  <2>2. i - 1 \in ends
    BY <2>1
  <2>3. <<i - 1, n>> \in OpToRel(<, Nat)
    BY <1>4, <2>1 DEF OpToRel
  <2> QED BY <1>3, <2>2, <2>3
<1>6. \E m \in 0..Len(file) :
        /\ \A i \in 1..m : IsBlock(file[i], codec)
        /\ m < Len(file) => ~IsBlock(file[m + 1], codec)
  BY <1>4, <1>5
<1> HIDE DEF ends
<1> QED BY <1>6 DEF BlocksIn

LEMMA DecodedIs ==
  ASSUME NEW K, WellMade(K), NEW file \in Seq(K), NEW codec
  PROVE  /\ Decoded(codec, file) \in Seq(K)
         /\ Len(Decoded(codec, file)) <= Len(file)
<1>1. CASE codec = "none"
  BY <1>1 DEF Decoded
<1>2. CASE codec # "none"
  <2> DEFINE n == BlocksIn(codec, file)
  <2>1. n \in 0..Len(file) /\ \A i \in 1..n : IsBlock(file[i], codec)
    BY BlocksInIs
  <2>2. ASSUME NEW i \in 1..n PROVE file[i].block \in K
    <3>1. file[i] \in K /\ "block" \in DOMAIN file[i]
      BY <2>1 DEF IsBlock
    <3> QED BY <3>1 DEF WellMade
  <2>3. Decoded(codec, file) = [i \in 1..n |-> file[i].block]
    BY <1>2 DEF Decoded
  <2> HIDE DEF n
  <2> QED BY <2>1, <2>2, <2>3
<1> QED BY <1>1, <1>2

(* Where extraction stands: the header it reads and the end of its entry. *)
LEMMA UntarAt ==
  ASSUME NEW K, Known(K), NEW c \in Calls, At(c, {"decompress_tar"}, "entry"),
         call[c].at < Len(Archive(c)), IsEntry(Archive(c)[call[c].at + 1])
  PROVE  /\ Live(c) /\ Held(K, call[c]) /\ call[c].req.src \in Paths
         /\ Archive(c) \in Seq(K) /\ call[c].at \in Nat /\ call[c].pos \in Nat
         /\ Archive(c)[call[c].at + 1].size \in Nat
<1>1. Live(c) /\ Held(K, call[c]) /\ call[c].pc = "entry"
  BY DEF At, Known
<1>2. /\ Archive(c) \in Seq(K) /\ call[c].req.src \in Paths
      /\ call[c].at \in Nat /\ call[c].pos \in Nat
  BY <1>1, DecodedIs DEF Held, Reads, Data, Archive, Known
<1>3. Archive(c)[call[c].at + 1] \in K
  BY <1>2
<1> QED BY <1>1, <1>2, <1>3 DEF Known, WellMade

LEMMA UntarEntryKeeps ==
  ASSUME NEW K, Known(K), NEW c \in Calls, UntarEntry(c), UNCHANGED <<minted, edits>>
  PROVE  IInv'
<1> DEFINE header == Archive(c)[call[c].at + 1]
           end == call[c].at + 1 + header.size
           target == Target(c, header.entry)
           part == SubSeq(Archive(c), call[c].at + 2, end)
<1>1. /\ Live(c) /\ Held(K, call[c]) /\ call[c].req.src \in Paths
      /\ Archive(c) \in Seq(K) /\ call[c].at \in Nat /\ call[c].pos \in Nat
      /\ header.size \in Nat
  BY UntarAt DEF UntarEntry
<1>2. /\ end <= Len(Archive(c)) /\ files' = [files EXCEPT ![target] = part]
      /\ Moved(c, [at |-> end, pos |-> call[c].pos + header.size])
      /\ call[c].req.tool = "decompress_tar" /\ call[c].pc = "entry"
  BY DEF UntarEntry, At
<1>3. part \in Seq(K)
  <2>1. call[c].at + 2 \in Nat \ {0} /\ end \in Nat
    <3>1. call[c].at \in Nat /\ header.size \in Nat
      BY <1>1
    <3> HIDE DEF header
    <3> QED BY <3>1
  <2>2. Archive(c) \in Seq(K) /\ end <= Len(Archive(c))
    BY <1>1, <1>2
  <2> HIDE DEF end
  <2> QED BY <2>1, <2>2, PartOfSeq
<1>4. Adds(K, K, {target})
  <2>1. Rewritten(K, {target})
    BY <1>2, <1>3 DEF Rewritten, Paths
  <2> QED BY <2>1, AddsNone
<1>5. Paths' = Paths /\ files'[call[c].req.src] \in Seq(K)
  BY <1>1, <1>2, <1>4, FileStays DEF Held, Reads
<1>6. /\ Shape(call'[c]) /\ call'[c].pc = "entry"
      /\ call'[c].req = call[c].req /\ call'[c].ans = call[c].ans
      /\ call'[c].at = end /\ call'[c].pos = call[c].pos + header.size
      /\ call'[c].handed = call[c].handed
      /\ call'[c].text = call[c].text /\ call'[c].rest = call[c].rest
  <2>1. /\ Live(c) /\ call[c].pc = "entry"
        /\ Moved(c, [at |-> end, pos |-> call[c].pos + header.size])
    BY <1>1, <1>2
  <2> HIDE DEF end, header
  <2> QED BY <2>1, MovedOn
<1>7. end \in Nat /\ call[c].pos + header.size \in Nat
  <2>1. call[c].at \in Nat /\ call[c].pos \in Nat /\ header.size \in Nat
    BY <1>1
  <2> HIDE DEF header
  <2> QED BY <2>1
<1>8. Held(K, call[c])'
  <2>1. Shape(call[c])' /\ Data(K, call[c])'
    BY <1>1, <1>5, <1>6, <1>7 DEF Held, Data
  <2>2. Reads(K, call[c])'
    BY <1>1, <1>5, <1>6 DEF Reads
  <2>3. Copies(call[c])' /\ Unseals(call[c])'
    BY <1>2, <1>6 DEF Copies, Unseals, Decompressors
  <2> QED BY <2>1, <2>2, <2>3 DEF Held
<1> HIDE DEF end, header
<1> QED BY <1>1, <1>2, <1>4, <1>6, <1>8, MovingKeeps

LEMMA UntarEndKeeps ==
  ASSUME NEW K, Known(K), NEW c \in Calls, UntarFinish(c) \/ UntarFails(c),
         UNCHANGED <<minted, edits>>
  PROVE  IInv'
<1> DEFINE header == Archive(c)[call[c].at + 1]
           end == call[c].at + 1 + header.size
           target == Target(c, header.entry)
           last == IF end > Len(Archive(c)) THEN Len(Archive(c)) ELSE end - 1
           part == SubSeq(Archive(c), call[c].at + 2, last)
<1>1. PICK answer \in {"ok", "error"} : Ended(c, answer)
  BY DEF UntarFinish, UntarFails
<1>2. CASE UNCHANGED files
  <2>1. Adds(K, K, {})
    BY <1>2, UntouchedIs, AddsNone
  <2> QED BY <1>1, <2>1, EndingKeeps
<1>3. CASE /\ At(c, {"decompress_tar"}, "entry")
           /\ call[c].at < Len(Archive(c)) /\ IsEntry(header)
           /\ files' = [files EXCEPT ![target] = part]
  <2>1. Archive(c) \in Seq(K) /\ call[c].at \in Nat /\ header.size \in Nat
    BY <1>3, UntarAt
  <2>2. last \in Nat /\ last <= Len(Archive(c))
    BY <2>1
  <2>3. part \in Seq(K)
    BY <2>1, <2>2, PartOfSeq
  <2>4. Rewritten(K, {target})
    BY <1>3, <2>3 DEF Rewritten, Paths
  <2>5. Adds(K, K, {target})
    BY <2>4, AddsNone
  <2> QED BY <1>1, <2>5, EndingKeeps
<1> QED BY <1>2, <1>3 DEF UntarFinish, UntarFails

LEMMA TimeoutKeeps ==
  ASSUME NEW K, Known(K), NEW c \in Calls, Timeout(c), UNCHANGED <<minted, edits>>
  PROVE  IInv'
<1>1. Live(c) /\ Held(K, call[c]) /\ UNCHANGED files /\ call[c].ans = "none"
  BY DEF Timeout, Known
<1>2. Adds(K, K, {}) /\ Paths' = Paths
  BY <1>1, UntouchedIs, AddsNone DEF Paths
<1>3. CASE call[c].req.tool \in Decompressors /\ Dropped(c, "timeout")
  BY <1>1, <1>3, DroppedKeeps
<1>6. CASE /\ At(c, Decompressors, "create")
           /\ Moved(c, [pc |-> "late", ans |-> "timeout"])
  <2>1. /\ Shape(call'[c]) /\ call'[c].pc = "late"
        /\ call'[c].req = call[c].req /\ call'[c].ans = "timeout"
        /\ call'[c].at = call[c].at /\ call'[c].pos = call[c].pos
        /\ call'[c].handed = call[c].handed
        /\ call'[c].text = call[c].text /\ call'[c].rest = call[c].rest
    BY <1>1, <1>6, MovedOn
  <2>2. call[c].pc = "create" /\ call[c].req.tool \in Decompressors
    BY <1>6 DEF At
  <2>3. Held(K, call[c])'
    BY <1>1, <1>2, <2>1, <2>2
    DEF Held, Data, Reads, Copies, Unseals, Decompressors, Shape
  <2> QED BY <1>1, <1>2, <1>6, <2>1, <2>3, MovingKeeps
<1>4. CASE Ended(c, "timeout")
  BY <1>2, <1>4, EndingKeeps
<1>5. CASE call[c].req.tool \notin Decompressors /\ Moved(c, [ans |-> "timeout"])
  <2>1. /\ Shape(call'[c]) /\ call'[c].pc = call[c].pc
        /\ call'[c].req = call[c].req /\ call'[c].ans = "timeout"
        /\ call'[c].at = call[c].at /\ call'[c].pos = call[c].pos
        /\ call'[c].handed = call[c].handed
        /\ call'[c].text = call[c].text /\ call'[c].rest = call[c].rest
        /\ "lock" \in DOMAIN call'[c] <=> "lock" \in DOMAIN call[c]
        /\ "lock" \in DOMAIN call'[c] => call'[c].lock = call[c].lock
    BY <1>1, <1>5, MovedOn
  <2>2. Data(K, call[c])' /\ Copies(call[c])'
    BY <1>1, <1>2, <1>5, <2>1 DEF Held, Data, Copies
  <2>3. Reads(K, call[c])'
    BY <1>1, <1>2, <2>1 DEF Held, Reads
  <2>4. Unseals(call[c])'
    BY <1>1, <2>1 DEF Held, Unseals
  <2>5. Held(K, call[c])' /\ call'[c].pc # "done"
    BY <1>1, <2>1, <2>2, <2>3, <2>4 DEF Held, Shape, Live
  <2> QED BY <1>1, <1>2, <1>5, <2>5, MovingKeeps
<1> QED BY <1>1, <1>3, <1>4, <1>5, <1>6 DEF Timeout, At

LEMMA StartKeeps ==
  ASSUME NEW K, Known(K), NEW c \in Calls, NEW r \in Requests, Start(c, r),
         UNCHANGED <<minted, edits>>
  PROVE  IInv'
<1>1. Adds(K, K, {}) /\ Paths' = Paths
  BY UntouchedIs, AddsNone DEF Start, Paths
<1>2. DOMAIN call' = Calls /\ \A d \in Calls : d # c => call'[d] = call[d]
  BY DEF Start, Known
<1>3. CASE Refused(r)
  <2>1. call'[c] = Over(r, "error")
    BY <1>3 DEF Start, Known
  <2>2. call'[c].ans = "error" /\ call'[c].pc = "done" /\ ~Live(c)'
    BY <2>1 DEF Over, Live
  <2> QED BY <1>1, <1>2, <2>2, OneKeeps
<1>4. CASE ~Refused(r)
  <2>1. call'[c] = [req |-> r, pc |-> FirstStage(r.tool), ans |-> "none",
                    at |-> 0, pos |-> 0, handed |-> 0, text |-> <<>>, rest |-> <<>>,
                    codec |-> "none", skipped |-> {}, before |-> files]
    BY <1>4 DEF Start, Known
  <2>2. FirstStage(r.tool) \in {"collect", "secret", "read", "open"}
    BY DEF FirstStage
  <2>3. /\ Shape(call'[c]) /\ call'[c].pc \in {"collect", "secret", "read", "open"}
        /\ call'[c].req = r /\ call'[c].ans = "none"
        /\ call'[c].at = 0 /\ call'[c].pos = 0 /\ call'[c].handed = 0
        /\ call'[c].text = <<>> /\ call'[c].rest = <<>>
    BY <2>1, <2>2 DEF Shape
  <2>4. Held(K, call[c])'
    BY <1>4, <2>3, TransformsAssumption DEF Held, Data, Reads, Copies, Unseals, Shape
  <2> QED BY <1>1, <1>2, <2>3, <2>4, OneKeeps
<1> QED BY <1>3, <1>4

LEMMA EditKeeps ==
  ASSUME NEW K, Known(K), Edit
  PROVE  IInv'
<1>1. UNCHANGED <<call, minted>> /\ edits' = edits + 1 /\ edits < MaxEdits
  BY DEF Edit
<1>2. PICK p \in Editable :
        /\ files[p] # NoFile
        /\ \/ files' = [files EXCEPT ![p] = Append(@, Zero)]
           \/ files[p] # <<>> /\ files' = [files EXCEPT ![p] = Front(@)]
  BY DEF Edit
<1>3. p \in Paths => files'[p] \in Seq(K)
  <2>1. ASSUME p \in Paths PROVE files[p] \in Seq(K) /\ Zero \in K
    BY <1>2, <2>1 DEF Known
  <2>2. ASSUME p \in Paths PROVE Append(files[p], Zero) \in Seq(K)
    BY <2>1, <2>2
  <2>3. ASSUME p \in Paths, files[p] # <<>> PROVE Front(files[p]) \in Seq(K)
    BY <2>1, <2>3, FrontIs
  <2> QED BY <1>2, <2>2, <2>3 DEF Paths
<1>4. Rewritten(K, {p})
  BY <1>2, <1>3 DEF Rewritten, Paths
<1>5. edits' \in 0..MaxEdits
  BY <1>1, TransformsAssumption DEF Known
<1>6. Adds(K, K, {p})
  BY <1>1, <1>4, <1>5 DEF Adds, Known
<1>7. Known(K)'
  <2>1. /\ Zero \in K /\ WellMade(K)
        /\ \A t \in K : "sealed" \in DOMAIN t => t \in minted'
        /\ \E start \in Starts : Paths' = DOMAIN start
        /\ \A q \in Paths' : files'[q] = NoFile \/ files'[q] \in Seq(K)
        /\ \A d \in Calls : (Live(d) /\ call'[d] = call[d]) => Held(K, call[d])'
    BY <1>6, OthersKeep DEF Adds
  <2>2. \A d \in Calls : Live(d)' <=> Live(d)
    BY <1>1 DEF Live
  <2> QED BY <1>1, <1>5, <2>1, <2>2 DEF Known
<1> QED BY <1>7 DEF IInv

-----------------------------------------------------------------------------
LEMMA Starting == Init => IInv
<1> SUFFICES ASSUME Init PROVE IInv
  OBVIOUS
<1> DEFINE K == OldTokens \cup {Zero}
<1>1. files \in Starts /\ call = [c \in Calls |-> Idle] /\ edits = 0
      /\ minted = {token \in OldTokens : "sealed" \in DOMAIN token}
  BY DEF Init
<1>2. WellMade(K) /\ "sealed" \notin DOMAIN Zero
  BY PlainTokens, TransformsAssumption DEF Zero
<1>3. \A p \in Paths : files[p] = NoFile \/ files[p] \in Seq(K)
  BY <1>1, TransformsAssumption, SeqOfMore DEF Paths
<1>4. 0 \in 0..MaxEdits
  BY TransformsAssumption
<1>5. \A c \in Calls : call[c].ans = "none" /\ call[c].pc = "idle" /\ ~Live(c)
  BY <1>1 DEF Idle, Live
<1>6. Zero \in K /\ (\A t \in K : "sealed" \in DOMAIN t => t \in minted)
  BY <1>1, <1>2
<1>7. Known(K)
  <2> HIDE DEF K
  <2> QED BY <1>1, <1>2, <1>3, <1>4, <1>5, <1>6 DEF Known, Paths
<1> QED BY <1>7 DEF IInv

LEMMA StepKeeps ==
  ASSUME NEW K, Known(K), NEW c \in Calls, Step(c), UNCHANGED <<minted, edits>>
  PROVE  IInv'
BY OpenKeeps, CompressCopyKeeps, CompressEndKeeps, DecompressCopyKeeps, HandKeeps,
   LandKeeps, DecompressEndKeeps, CipherReadKeeps, EncryptStepKeeps, EncryptFailsKeeps,
   DecryptUnsealKeeps, DecryptCreateKeeps, DecryptEndKeeps, KeygenSecretKeeps,
   KeygenEndKeeps, TarCollectKeeps, TarCreateKeeps, TarStatKeeps, TarAppendKeeps,
   TarEndKeeps, UntarOpenKeeps, UntarEntryKeeps, UntarEndKeeps
DEF Step

LEMMA Keeping == IInv /\ [Next]_vars => IInv'
<1> SUFFICES ASSUME IInv, [Next]_vars PROVE IInv'
  OBVIOUS
<1> PICK K : Known(K)
  BY DEF IInv
<1>1. CASE UNCHANGED vars
  BY <1>1 DEF IInv, Known, vars, Held, Shape, Data, Reads, Copies, Unseals, Live, Paths
<1>2. CASE Edit
  BY <1>2, EditKeeps
<1>3. ASSUME NEW c \in Calls, EncryptBody(c), UNCHANGED edits PROVE IInv'
  BY <1>3, EncryptBodyKeeps
<1>4. ASSUME NEW c \in Calls,
             (\E r \in Requests : Start(c, r)) \/ Step(c) \/ Timeout(c),
             UNCHANGED <<minted, edits>>
      PROVE  IInv'
  BY <1>4, StartKeeps, StepKeeps, TimeoutKeeps
<1> QED BY <1>1, <1>2, <1>3, <1>4 DEF Next, Rest

(* In every state the files, and what the running calls hold in memory,    *)
(* are made of one set of tokens closed under what is inside them, and     *)
(* each call holds what its stage in compress.rs or crypto.rs says.        *)
THEOREM Invariant == Spec => []IInv
<1> QED BY Starting, Keeping, PTL DEF Spec

-----------------------------------------------------------------------------
(* Type correctness, and with it that of a decompression at most one chunk *)
(* is on its way to the file (the BufWriter of decompress_gzip and         *)
(* decompress_zstd in compress.rs).                                        *)
THEOREM Typing == Spec => []TypeOK
<1>1. ASSUME NEW K, Known(K) PROVE TypeOK
  <2>1. \A p \in Paths : files[p] = NoFile \/ Len(files[p]) \in Nat
    BY <1>1 DEF Known
  <2>2. \A c \in Calls :
          /\ call[c].ans \in {"none", "ok", "error", "timeout"}
          /\ ~Live(c) \/ call[c].req \in Requests
          /\ call[c].pc = "done" => call[c].ans # "none"
          /\ (Live(c) /\ call[c].req.tool \in Decompressors) =>
               call[c].handed \in call[c].pos..call[c].pos + 1
    BY <1>1 DEF Known, Held, Data, Copies
  <2> QED BY <1>1, <2>1, <2>2 DEF Known, TypeOK
<1>2. IInv => TypeOK
  BY <1>1 DEF IInv
<1> QED BY <1>2, Invariant, PTL

(* What decrypt_file writes was sealed with the key it was given: a body   *)
(* behind another header, half a body or a wrong key stop before a byte is *)
(* written (crypto.rs, symmetric_decrypt and mlkem_decrypt).               *)
THEOREM OpensOnlySealed == Spec => []DecryptsWhatWasSealed
<1>1. IInv => DecryptsWhatWasSealed
  BY DEF IInv, Known, Held, Unseals, DecryptsWhatWasSealed
<1> QED BY <1>1, Invariant, PTL

-----------------------------------------------------------------------------
(* A step changes the record of its own call only, and never its request   *)
(* or what it remembers of the files it found.                             *)
OwnStep(c) ==
  /\ \A d \in Calls : d # c => call'[d] = call[d]
  /\ Live(c)
  /\ Live(c)' => call'[c].req = call[c].req /\ call'[c].before = call[c].before

LEMMA MovedIsOwn ==
  ASSUME NEW K, Known(K), NEW c \in Calls, Live(c), NEW fields, Moved(c, fields),
         "req" \notin DOMAIN fields, "before" \notin DOMAIN fields
  PROVE  OwnStep(c)
<1>1. DOMAIN call = Calls /\ Shape(call[c])
  BY DEF Known, Held
<1>2. \A d \in Calls : d # c => call'[d] = call[d]
  BY <1>1, MovedIs
<1>3. call'[c].req = call[c].req /\ call'[c].before = call[c].before
  BY MovedOn
<1> QED BY <1>2, <1>3 DEF OwnStep

LEMMA EndedIsOwn ==
  ASSUME NEW K, Known(K), NEW c \in Calls, Live(c), NEW answer, Ended(c, answer)
  PROVE  OwnStep(c)
  BY EndedIs DEF Known, OwnStep, Live

LEMMA CodecStepIsOwn ==
  ASSUME NEW K, Known(K), NEW c \in Calls,
         \/ CompressOpen(c) \/ CompressCopy(c) \/ CompressFinish(c) \/ CompressFails(c)
         \/ DecompressOpen(c) \/ DecompressCreate(c) \/ LateCreate(c)
         \/ DecompressCopy(c) \/ Hand(c) \/ Land(c)
         \/ DecompressFinish(c) \/ DecompressFails(c) \/ DroppedEnds(c)
  PROVE  OwnStep(c)
<1>1. Live(c)
  BY DEF CompressOpen, CompressCopy, CompressFinish, CompressFails, DecompressOpen,
     DecompressCreate, LateCreate, DecompressCopy, Hand, Land, DecompressFinish, DecompressFails, DroppedEnds, At
<1>2. CASE \E answer : Ended(c, answer)
  BY <1>1, <1>2, EndedIsOwn
<1>3. CASE CompressOpen(c) \/ DecompressOpen(c) \/ DecompressCreate(c)
  BY <1>1, <1>3, MovedIsOwn DEF CompressOpen, DecompressOpen, DecompressCreate
<1>4. CASE CompressCopy(c)
  <2>1. PICK at, pos, text : Moved(c, [at |-> at, pos |-> pos, text |-> text])
    BY <1>4 DEF CompressCopy
  <2> QED BY <1>1, <2>1, MovedIsOwn
<1>5. CASE DecompressCopy(c)
  BY <1>1, <1>5, MovedIsOwn DEF DecompressCopy
<1>6. CASE Hand(c)
  BY <1>1, <1>6, MovedIsOwn DEF Hand
<1>7. CASE Land(c)
  BY <1>1, <1>7, MovedIsOwn DEF Land
<1>8. CASE DecompressFails(c)
  <2>1. CASE Moved(c, [pc |-> "dropped", ans |-> "error"])
    BY <1>1, <2>1, MovedIsOwn
  <2> QED BY <1>2, <1>8, <2>1 DEF DecompressFails, Dropped
<1>9. CASE \/ CompressFinish(c) \/ CompressFails(c) \/ DecompressFinish(c)
           \/ DroppedEnds(c) \/ LateCreate(c)
  BY <1>2, <1>9 DEF CompressFinish, CompressFails, DecompressFinish, DroppedEnds, LateCreate
<1> QED BY <1>3, <1>4, <1>5, <1>6, <1>7, <1>8, <1>9

LEMMA CipherStepIsOwn ==
  ASSUME NEW K, Known(K), NEW c \in Calls,
         \/ EncryptRead(c) \/ EncryptCreate(c) \/ EncryptHeader(c) \/ EncryptBody(c)
         \/ EncryptFails(c)
         \/ DecryptRead(c) \/ DecryptUnseal(c) \/ DecryptCreate(c) \/ DecryptWrite(c)
         \/ DecryptFails(c)
         \/ KeygenSecret(c) \/ KeygenPublic(c) \/ KeygenFails(c)
  PROVE  OwnStep(c)
<1>1. Live(c)
  BY DEF EncryptRead, EncryptCreate, EncryptHeader, EncryptBody, EncryptFails, DecryptRead,
     DecryptUnseal, DecryptCreate, DecryptWrite, DecryptFails, KeygenSecret, KeygenPublic,
     KeygenFails, At
<1>2. CASE \E answer : Ended(c, answer)
  BY <1>1, <1>2, EndedIsOwn
<1>3. CASE EncryptRead(c) \/ DecryptRead(c)
  <2>1. PICK pc, text, lock : Moved(c, [pc |-> pc, text |-> text, lock |-> lock])
    BY <1>3 DEF EncryptRead, DecryptRead
  <2> QED BY <1>1, <2>1, MovedIsOwn
<1>4. CASE EncryptCreate(c) \/ EncryptHeader(c) \/ DecryptCreate(c)
  BY <1>1, <1>4, MovedIsOwn DEF EncryptCreate, EncryptHeader, DecryptCreate
<1>5. CASE DecryptUnseal(c)
  BY <1>1, <1>5, MovedIsOwn DEF DecryptUnseal
<1>6. CASE KeygenSecret(c)
  <2>1. CASE Moved(c, [pc |-> "public"])
    BY <1>1, <2>1, MovedIsOwn
  <2> QED BY <1>2, <1>6, <2>1 DEF KeygenSecret
<1>7. CASE \/ EncryptBody(c) \/ EncryptFails(c) \/ DecryptWrite(c) \/ DecryptFails(c)
           \/ KeygenPublic(c) \/ KeygenFails(c)
  BY <1>2, <1>7
  DEF EncryptBody, EncryptFails, DecryptWrite, DecryptFails, KeygenPublic, KeygenFails
<1> QED BY <1>3, <1>4, <1>5, <1>6, <1>7

LEMMA TarStepIsOwn ==
  ASSUME NEW K, Known(K), NEW c \in Calls,
         \/ TarCollect(c) \/ TarCreate(c) \/ TarStat(c) \/ TarAppend(c) \/ TarFinish(c)
         \/ TarFails(c)
         \/ UntarOpen(c) \/ UntarEntry(c) \/ UntarFinish(c) \/ UntarFails(c)
  PROVE  OwnStep(c)
<1>1. Live(c)
  BY DEF TarCollect, TarCreate, TarStat, TarAppend, TarFinish, TarFails, UntarOpen,
     UntarEntry, UntarFinish, UntarFails, At
<1>2. CASE TarFinish(c) \/ TarFails(c) \/ UntarFinish(c) \/ UntarFails(c)
  BY <1>1, <1>2, EndedIsOwn DEF TarFinish, TarFails, UntarFinish, UntarFails
<1>3. CASE TarCollect(c)
  <2>1. PICK rest, skipped : Moved(c, [pc |-> "create", rest |-> rest, skipped |-> skipped])
    BY <1>3 DEF TarCollect
  <2> QED BY <1>1, <2>1, MovedIsOwn
<1>4. CASE TarCreate(c) \/ UntarOpen(c)
  BY <1>1, <1>4, MovedIsOwn DEF TarCreate, UntarOpen
<1>5. CASE TarStat(c)
  BY <1>1, <1>5, MovedIsOwn DEF TarStat
<1>6. CASE TarAppend(c)
  <2>1. PICK pos, text, rest :
          Moved(c, [pc |-> "stat", pos |-> pos, text |-> text, rest |-> rest])
    BY <1>6 DEF TarAppend
  <2> QED BY <1>1, <2>1, MovedIsOwn
<1>7. CASE UntarEntry(c)
  <2>1. PICK at, pos : Moved(c, [at |-> at, pos |-> pos])
    BY <1>7 DEF UntarEntry
  <2> QED BY <1>1, <2>1, MovedIsOwn
<1> QED BY <1>2, <1>3, <1>4, <1>5, <1>6, <1>7

LEMMA TimeoutIsOwn ==
  ASSUME NEW K, Known(K), NEW c \in Calls, Timeout(c)
  PROVE  OwnStep(c)
<1>1. Live(c)
  BY DEF Timeout
<1>2. CASE Ended(c, "timeout")
  BY <1>1, <1>2, EndedIsOwn
<1>3. CASE Moved(c, [ans |-> "timeout"])
  BY <1>1, <1>3, MovedIsOwn
<1>4. CASE \E pc : Moved(c, [pc |-> pc, ans |-> "timeout"])
  BY <1>1, <1>4, MovedIsOwn
<1> QED BY <1>2, <1>3, <1>4 DEF Timeout, Dropped

LEMMA StepIsOwn ==
  ASSUME NEW K, Known(K), NEW c \in Calls, Step(c) \/ EncryptBody(c) \/ Timeout(c)
  PROVE  OwnStep(c)
  BY CodecStepIsOwn, CipherStepIsOwn, TarStepIsOwn, TimeoutIsOwn DEF Step

LEMMA StartIsOwn ==
  ASSUME NEW K, Known(K), NEW c \in Calls, NEW r \in Requests, Start(c, r)
  PROVE  /\ \A d \in Calls : d # c => call'[d] = call[d]
         /\ ~Live(c)
         /\ Live(c)' => call'[c].before = files
         /\ UNCHANGED files
<1>1. ~Live(c) /\ UNCHANGED files /\ DOMAIN call = Calls
  BY DEF Start, Idle, Live, Known
<1>2. call' = [call EXCEPT ![c] =
       IF Refused(r) THEN Over(r, "error")
       ELSE [req |-> r, pc |-> FirstStage(r.tool), ans |-> "none",
             at |-> 0, pos |-> 0, handed |-> 0, text |-> <<>>, rest |-> <<>>,
             codec |-> "none", skipped |-> {}, before |-> files]]
  BY DEF Start
<1>3. Live(c)' => call'[c].before = files
  BY <1>1, <1>2 DEF Over, Live
<1> QED BY <1>1, <1>2, <1>3

(* A decompression that has been answered, with an error or because of the *)
(* timer, changes a file once more at most: what tokio's File::create or   *)
(* the write of a chunk has left on the blocking pool outlives the handler *)
(* (decompress_gzip and decompress_zstd in compress.rs, the timeout in     *)
(* server.rs), and nothing follows it there.                               *)
THEOREM AnsweredChangesAtMostOnce == Spec => AnsweredChangesOnce
<1> DEFINE Once(c) ==
      (call[c].ans # "none" /\ Live(c) /\ call[c].req.tool \in Decompressors) =>
        /\ OnPool(c) <= 1 /\ OnPool(c)' <= OnPool(c)
        /\ (call'[c] # call[c] /\ files' # files) => OnPool(c)' < OnPool(c)
<1>1. ASSUME IInv, [Next]_vars, NEW c \in Calls, call[c].ans # "none", Live(c),
             call[c].req.tool \in Decompressors
      PROVE  Once(c)
  <2> PICK K : Known(K)
    BY <1>1 DEF IInv
  <2>1. /\ call[c].pc \in {"dropped", "late"} /\ Shape(call[c])
        /\ call[c].pos \in Nat /\ call[c].handed \in Nat
        /\ call[c].handed \in call[c].pos..call[c].pos + 1
        /\ call[c].pc = "late" => call[c].handed = call[c].pos
    BY <1>1 DEF Known, Held, Copies, Data
  <2>2. OnPool(c) \in 0..1
    BY <2>1 DEF OnPool
  <2>3. CASE call'[c] = call[c]
    <3>1. OnPool(c)' = OnPool(c)
      BY <2>3 DEF OnPool, At, Live
    <3> QED BY <2>2, <2>3, <3>1
  <2>4. ASSUME Step(c) \/ EncryptBody(c)
        PROVE  Land(c) \/ LateCreate(c) \/ DroppedEnds(c)
    BY <1>1, <2>1, <2>4
    DEF Step, EncryptBody, At, CompressOpen, CompressCopy, CompressFinish, CompressFails,
        DecompressOpen, DecompressCreate, DecompressCopy, Hand, DecompressFinish,
        DecompressFails, EncryptRead, EncryptCreate, EncryptHeader, EncryptFails,
        DecryptRead, DecryptUnseal, DecryptCreate, DecryptWrite, DecryptFails,
        KeygenSecret, KeygenPublic, KeygenFails, TarCollect, TarCreate, TarStat, TarAppend,
        TarFinish, TarFails, UntarOpen, UntarEntry, UntarFinish, UntarFails
  <2>5. CASE Land(c)
    <3>1. Moved(c, [pos |-> call[c].pos + 1]) /\ call[c].pos < call[c].handed
      BY <2>5 DEF Land
    <3>2. /\ call'[c].pos = call[c].pos + 1 /\ call'[c].handed = call[c].handed
          /\ call'[c].pc = call[c].pc
      BY <1>1, <3>1, MovedOn
    <3>3. call[c].pc = "dropped" /\ OnPool(c) = 1 /\ OnPool(c)' = 0
      BY <1>1, <2>1, <3>1, <3>2 DEF OnPool, At, Live
    <3> QED BY <3>3
  <2>6. CASE LateCreate(c)
    <3>1. ~Live(c)'
      BY <1>1, <2>6, EndedIs DEF LateCreate, Known, Live
    <3>2. OnPool(c) = 1 /\ OnPool(c)' = 0
      BY <2>6, <3>1 DEF LateCreate, OnPool, At
    <3> QED BY <3>2
  <2>7. CASE DroppedEnds(c)
    <3>1. ~Live(c)' /\ UNCHANGED files
      BY <1>1, <2>7, EndedIs DEF DroppedEnds, Known, Live
    <3>2. OnPool(c)' = 0
      BY <3>1 DEF OnPool, At
    <3> QED BY <2>2, <3>1, <3>2
  <2>8. ASSUME NEW d \in Calls, d # c,
               \/ EncryptBody(d)
               \/ (\E r \in Requests : Start(d, r)) \/ Step(d) \/ Timeout(d)
        PROVE  call'[c] = call[c]
    BY <2>8, StepIsOwn, StartIsOwn DEF OwnStep
  <2>9. CASE UNCHANGED vars \/ Edit \/ Rest
    BY <2>3, <2>9 DEF vars, Edit, Rest
  <2>10. ~(\E r \in Requests : Start(c, r)) /\ ~Timeout(c)
    BY <1>1 DEF Start, Timeout, Live, Idle
  <2> HIDE DEF Once
  <2> QED BY <1>1, <2>3, <2>4, <2>5, <2>6, <2>7, <2>8, <2>9, <2>10 DEF Next
<1>2. IInv /\ [Next]_vars => [\A c \in Calls : Once(c)]_vars
  BY <1>1
<1> QED BY <1>2, Invariant, PTL DEF Spec, AnsweredChangesOnce

-----------------------------------------------------------------------------
(* What a step of a tool that checks its output writes is its output.      *)
Careful(r) == r.tool \notin {"generate_key", "decompress_tar"}

OwnFiles(c) ==
  /\ Paths' = Paths
  /\ Careful(call[c].req) =>
       \A p \in Paths : p # Output(call[c].req) => files'[p] = files[p]

LEMMA OutputWritten ==
  ASSUME NEW c,
         \/ UNCHANGED files \/ Truncated(Output(call[c].req))
         \/ \E pos, tokens : Wrote(Output(call[c].req), pos, tokens)
  PROVE  OwnFiles(c)
  BY DEF OwnFiles, Truncated, Wrote, Paths

LEMMA StepWritesOutput ==
  ASSUME NEW K, Known(K), NEW c \in Calls, Step(c) \/ EncryptBody(c) \/ Timeout(c)
  PROVE  OwnFiles(c)
<1>1. CASE \/ CompressOpen(c) \/ CompressCopy(c) \/ CompressFinish(c) \/ CompressFails(c)
           \/ DecompressOpen(c) \/ DecompressCreate(c) \/ LateCreate(c)
           \/ DecompressCopy(c) \/ Hand(c) \/ Land(c)
           \/ DecompressFinish(c) \/ DecompressFails(c) \/ DroppedEnds(c) \/ Timeout(c)
  BY <1>1, OutputWritten
  DEF CompressOpen, CompressCopy, CompressFinish, CompressFails, DecompressOpen,
      DecompressCreate, LateCreate, DecompressCopy, Hand, Land, DecompressFinish, DecompressFails, DroppedEnds, Timeout
<1>2. CASE \/ EncryptRead(c) \/ EncryptCreate(c) \/ EncryptHeader(c) \/ EncryptBody(c)
           \/ EncryptFails(c)
           \/ DecryptRead(c) \/ DecryptUnseal(c) \/ DecryptCreate(c) \/ DecryptWrite(c)
           \/ DecryptFails(c)
  BY <1>2, OutputWritten
  DEF EncryptRead, EncryptCreate, EncryptHeader, EncryptBody, EncryptFails, DecryptRead,
      DecryptUnseal, DecryptCreate, DecryptWrite, DecryptFails
<1>3. CASE \/ TarCollect(c) \/ TarCreate(c) \/ TarStat(c) \/ TarAppend(c) \/ TarFinish(c)
           \/ TarFails(c)
  BY <1>3, OutputWritten
  DEF TarCollect, TarCreate, TarStat, TarAppend, TarFinish, TarFails, TarClosed, Passed
<1>4. CASE \/ KeygenSecret(c) \/ KeygenPublic(c) \/ KeygenFails(c)
           \/ UntarOpen(c) \/ UntarEntry(c) \/ UntarFinish(c) \/ UntarFails(c)
  <2>1. ~Careful(call[c].req)
    BY <1>4
    DEF Careful, At, KeygenSecret, KeygenPublic, KeygenFails, UntarOpen, UntarEntry,
        UntarFinish, UntarFails
  <2>2. UNCHANGED files \/ \E p, tokens : files' = [files EXCEPT ![p] = tokens]
    BY <1>4
    DEF KeygenSecret, KeygenPublic, KeygenFails, UntarOpen, UntarEntry, UntarFinish,
        UntarFails, Truncated
  <2> QED BY <2>1, <2>2 DEF OwnFiles, Paths
<1> QED BY <1>1, <1>2, <1>3, <1>4 DEF Step

(* An output that a source is, although the request was not refused. *)
Unseen(r, p) ==
  /\ p = Output(r)
  /\ IF p = r.src THEN OntoSource(r) ELSE "keyFile" \in DOMAIN r

(* The output of a request that was not refused is none of its sources,    *)
(* but for its key file and what a derived output is a link to.            *)
LEMMA OutputIsNoSource ==
  ASSUME NEW K, Known(K), NEW r \in Requests, ~Refused(r), Careful(r),
         NEW p \in Sources(r), p = Output(r)
  PROVE  Unseen(r, p)
<1>1. "out" \in DOMAIN r => Output(r) = r.out /\ OutputPath(r) = r.out
  BY LinksAssumption DEF Careful, Output, OutputPath, FileOf
<1>2. CASE r.tool = "compress_tar"
  <2>1. p.dir = r.src
    BY <1>2 DEF Sources
  <2>2. "out" \in DOMAIN r
    BY <1>2, TransformsAssumption DEF Known
  <2> QED BY <1>1, <1>2, <2>1, <2>2 DEF Refused
<1>3. CASE r.tool # "compress_tar"
  <2>1. OutputPath(r) # r.src
    BY <1>3 DEF Refused, Careful
  <2>2. p \in {r.src} \cup IF "keyFile" \in DOMAIN r THEN {r.keyFile} ELSE {}
    BY <1>3 DEF Sources, Careful
  <2>3. p = r.src => OntoSource(r)
    BY <1>1, <2>1 DEF OntoSource, Careful
  <2> QED BY <2>2, <2>3 DEF Unseen
<1> QED BY <1>2, <1>3

LEMMA SourcesAreThere ==
  ASSUME NEW K, Known(K), NEW r \in Requests
  PROVE  Sources(r) \subseteq Paths
<1>1. CASE r.tool = "compress_tar"
  BY <1>1 DEF Sources
<1>2. CASE r.tool = "generate_key"
  BY <1>2 DEF Sources
<1>3. CASE r.tool \notin {"compress_tar", "generate_key"}
  <2>1. Sources(r) = {r.src} \cup IF "keyFile" \in DOMAIN r THEN {r.keyFile} ELSE {}
    BY <1>3 DEF Sources
  <2>2. r.src \in Paths /\ ("keyFile" \in DOMAIN r => r.keyFile \in Paths)
    BY <1>3, TransformsAssumption DEF Known
  <2> QED BY <2>1, <2>2
<1> QED BY <1>1, <1>2, <1>3

(* Whether the sources of a call are as it found them, but for what it      *)
(* writes over unseen.                                                     *)
Kept(c) ==
  \A p \in Sources(call[c].req) :
    files[p] = call[c].before[p] \/ Unseen(call[c].req, p)

LEMMA OwnStepKeeps ==
  ASSUME IInv, NEW c \in Calls, Step(c) \/ EncryptBody(c) \/ Timeout(c),
         call[c].req.tool # "decompress_tar", Kept(c), Live(c)'
  PROVE  Kept(c)'
<1> PICK K : Known(K)
  BY DEF IInv
<1> DEFINE r == call[c].req
<1>1. OwnStep(c) /\ OwnFiles(c)
  BY StepIsOwn, StepWritesOutput
<1>2. /\ Live(c) /\ r \in Requests /\ ~Refused(r)
      /\ call'[c].req = r /\ call'[c].before = call[c].before
  BY <1>1 DEF OwnStep, Known, Held, Data
<1>3. CASE r.tool = "generate_key"
  BY <1>2, <1>3 DEF Kept, Sources
<1>4. CASE r.tool # "generate_key"
  <2>1. Careful(r)
    BY <1>4 DEF Careful
  <2>2. /\ Paths' = Paths
        /\ \A p \in Paths : p # Output(r) => files'[p] = files[p]
    BY <1>1, <2>1 DEF OwnFiles
  <2>3. Sources(r)' = Sources(r)
    BY <1>2, <2>2 DEF Sources
  <2>4. ASSUME NEW p \in Sources(r)
        PROVE  files'[p] = call[c].before[p] \/ Unseen(r, p)
    <3>1. p \in Paths
      BY <1>2, SourcesAreThere
    <3>2. CASE p = Output(r)
      BY <1>2, <2>1, <3>2, OutputIsNoSource
    <3>3. CASE p # Output(r)
      BY <2>2, <3>1, <3>3 DEF Kept
    <3> QED BY <3>2, <3>3
  <2> QED BY <1>2, <2>3, <2>4 DEF Kept
<1> QED BY <1>3, <1>4

LEMMA OthersKeepSources ==
  ASSUME NEW d \in Calls, Live(d), call'[d] = call[d], Paths' = Paths,
         \A p \in Concern(call[d].req) : files'[p] = files[p], Kept(d)
  PROVE  Kept(d)'
<1>1. Sources(call[d].req)' = Sources(call[d].req)
  BY DEF Sources
<1>2. Sources(call[d].req) \subseteq Concern(call[d].req)
  BY DEF Concern
<1> QED BY <1>1, <1>2 DEF Kept

(* The history of a call that is running: what was alone before, and       *)
(* nothing of it was changed by the others.                                *)
LEMMA StillAlone ==
  ASSUME NEW actors, Disturbs(actors), NEW d \in Calls, Live(d), alone'[d]
  PROVE  /\ alone[d]
         /\ d \notin actors => \A p \in Concern(call[d].req) : files'[p] = files[p]
  BY DEF Disturbs

SourcesSafe(c) == (Live(c) /\ alone[c] /\ call[c].req.tool # "decompress_tar") => Kept(c)

LEMMA SourceKeptIs == SourceKept <=> \A c \in Calls : SourcesSafe(c)
  BY DEF SourceKept, SourcesSafe, Kept, Unseen

LEMMA SourcesStaySafe ==
  ASSUME IInv, [Next]_vars, NEW d \in Calls, SourcesSafe(d)
  PROVE  SourcesSafe(d)'
<1> PICK K : Known(K)
  BY DEF IInv
<1> SUFFICES ASSUME Live(d)', alone'[d], call'[d].req.tool # "decompress_tar"
             PROVE  Kept(d)'
  BY DEF SourcesSafe
<1>1. CASE UNCHANGED vars
  BY <1>1 DEF vars, SourcesSafe, Live, Kept, Sources, Paths
<1>2. ASSUME Live(d), call'[d] = call[d], Paths' = Paths,
             NEW actors, Disturbs(actors), d \notin actors
      PROVE  Kept(d)'
  BY <1>2, StillAlone, OthersKeepSources DEF SourcesSafe
<1>3. CASE Edit
  <2>1. call' = call /\ Paths' = Paths /\ Live(d) /\ Disturbs({})
    BY <1>3 DEF Edit, Paths, Live
  <2> QED BY <1>2, <2>1
<1>4. ASSUME NEW c \in Calls, Disturbs({c}),
             \/ EncryptBody(c) \/ Step(c) \/ Timeout(c)
      PROVE  Kept(d)'
  <2>1. OwnStep(c) /\ OwnFiles(c)
    BY <1>4, StepIsOwn, StepWritesOutput
  <2>2. CASE c = d
    <3>1. Live(d) /\ call'[d].req = call[d].req
      BY <2>1, <2>2 DEF OwnStep
    <3>2. alone[d]
      BY <1>4, <3>1, StillAlone
    <3>3. Kept(d) /\ call[d].req.tool # "decompress_tar"
      BY <3>1, <3>2 DEF SourcesSafe
    <3> QED BY <1>4, <2>2, <3>3, OwnStepKeeps
  <2>3. CASE c # d
    <3>1. call'[d] = call[d] /\ Paths' = Paths /\ d \notin {c}
      BY <2>1, <2>3 DEF OwnStep, OwnFiles
    <3>2. Live(d)
      BY <3>1 DEF Live
    <3> QED BY <1>2, <1>4, <3>1, <3>2
  <2> QED BY <2>2, <2>3
<1>5. ASSUME NEW c \in Calls, NEW r \in Requests, Start(c, r), Disturbs({c})
      PROVE  Kept(d)'
  <2>1. /\ \A e \in Calls : e # c => call'[e] = call[e]
        /\ Live(c)' => call'[c].before = files
        /\ UNCHANGED files
    BY <1>5, StartIsOwn
  <2>2. CASE c = d
    BY <2>1, <2>2 DEF Kept
  <2>3. CASE c # d
    <3>1. call'[d] = call[d] /\ Paths' = Paths /\ d \notin {c}
      BY <2>1, <2>3 DEF Paths
    <3>2. Live(d)
      BY <3>1 DEF Live
    <3> QED BY <1>2, <1>5, <3>1, <3>2
  <2> QED BY <2>2, <2>3
<1> QED BY <1>1, <1>3, <1>4, <1>5 DEF Next, Rest

(* As long as nobody else changes its files, a tool that compares its      *)
(* output with its source finds what it reads as it was (the checks at the *)
(* start of the tools of compress.rs and crypto.rs), unless the output it  *)
(* derives is a link to the source, or the output is its key file.         *)
THEOREM SourcesAreKept == Spec => []SourceKept
<1>1. Init => \A c \in Calls : SourcesSafe(c)
  BY DEF Init, SourcesSafe, Live, Idle
<1>2. Init => SourceKept
  BY <1>1, SourceKeptIs
<1>3. ASSUME IInv, [Next]_vars, SourceKept PROVE SourceKept'
  <2>1. \A c \in Calls : SourcesSafe(c)
    BY <1>3, SourceKeptIs
  <2>2. \A c \in Calls : SourcesSafe(c)'
    BY <1>3, <2>1, SourcesStaySafe
  <2>3. (\A c \in Calls : SourcesSafe(c))' => SourceKept'
    BY SourceKeptIs, PTL
  <2> QED BY <2>2, <2>3
<1>4. IInv /\ [Next]_vars /\ SourceKept => SourceKept'
  BY <1>3
<1> QED BY <1>2, <1>4, Invariant, PTL DEF Spec

-----------------------------------------------------------------------------
LEMMA OutputIsThere ==
  ASSUME NEW K, Known(K), NEW r \in Requests, Careful(r)
  PROVE  Output(r) \in Paths
  BY OutputsAssumption DEF Known, Careful

(* What lands fits. *)
LEMMA LandFits ==
  ASSUME IInv, NEW c \in Calls, Land(c), files[Output(call[c].req)] # NoFile,
         Len(files'[Output(call[c].req)]) > Len(files[Output(call[c].req)])
  PROVE  Len(files'[Output(call[c].req)]) <= Limit
<1> PICK K : Known(K)
  BY DEF IInv
<1> DEFINE out == Output(call[c].req)
           pos == call[c].pos
           chunk == <<call[c].text[pos + 1]>>
<1>1. /\ Live(c) /\ Held(K, call[c]) /\ call[c].req.tool \in Decompressors
      /\ pos \in Nat /\ pos + 1 = call[c].handed /\ call[c].handed <= Len(call[c].text)
      /\ call[c].text \in Seq(K) /\ chunk \in Seq(K)
  BY LandWrites
<1>2. pos + 1 <= Limit
  BY <1>1, TransformsAssumption DEF Held, Copies
<1>3. out \in Paths
  <2>1. call[c].req \in Requests /\ Careful(call[c].req)
    BY <1>1 DEF Held, Data, Careful, Decompressors
  <2> QED BY <2>1, OutputIsThere
<1>4. files[out] \in Seq(K) /\ Zero \in K
  BY <1>3 DEF Known
<1>5. files'[out] = Put(files[out], pos, chunk)
  BY <1>3 DEF Land, Wrote, Paths
<1>6. Len(chunk) = 1
  OBVIOUS
<1>7. Len(files'[out]) = IF pos + 1 > Len(files[out]) THEN pos + 1 ELSE Len(files[out])
  <2> HIDE DEF chunk, out, pos
  <2>1. pos \in Nat /\ chunk \in Seq(K)
    BY <1>1
  <2>2. Len(Put(files[out], pos, chunk)) =
          IF pos + Len(chunk) > Len(files[out]) THEN pos + Len(chunk) ELSE Len(files[out])
    BY <1>4, <2>1, PutIs
  <2> QED BY <1>5, <1>6, <2>2
<1>8. Len(files[out]) \in Nat
  BY <1>4
<1> QED BY <1>2, <1>7, <1>8

(* No step of a decompression makes a file longer than                     *)
(* max_decompressed_size (AsyncLimitedWriter::poll_write in compress.rs),  *)
(* even if the call fails, times out or meets others: the part of          *)
(* LimitHolds that is not about archives.                                  *)
THEOREM DecompressionsFit == Spec => [][\A c \in Calls : DecompressionFits(c)]_vars
<1>1. ASSUME IInv, [Next]_vars, NEW c \in Calls, Live(c), call'[c] # call[c],
             call[c].req.tool \in Decompressors,
             files[Output(call[c].req)] # NoFile,
             Len(files'[Output(call[c].req)]) > Len(files[Output(call[c].req)])
      PROVE  Len(files'[Output(call[c].req)]) <= Limit
  <2> PICK K : Known(K)
    BY <1>1 DEF IInv
  <2> DEFINE out == Output(call[c].req)
  <2>1. /\ ~UNCHANGED vars /\ ~Edit /\ ~Rest
        /\ \A d \in Calls : d # c =>
             ~((\E r \in Requests : Start(d, r)) \/ Step(d) \/ EncryptBody(d) \/ Timeout(d))
        /\ ~(\E r \in Requests : Start(c, r))
    <3>1. ~UNCHANGED vars /\ ~Edit /\ ~Rest
      BY <1>1 DEF vars, Edit, Rest
    <3>2. ~(\E r \in Requests : Start(c, r))
      BY <1>1, StartIsOwn
    <3>3. ASSUME NEW d \in Calls, d # c,
                 (\E r \in Requests : Start(d, r)) \/ Step(d) \/ EncryptBody(d) \/ Timeout(d)
          PROVE  FALSE
      BY <1>1, <3>3, StartIsOwn, StepIsOwn DEF OwnStep
    <3> QED BY <3>1, <3>2, <3>3
  <2>2. Step(c) \/ EncryptBody(c) \/ Timeout(c)
    BY <1>1, <2>1 DEF Next
  <2>3. CASE Land(c)
    BY <1>1, <2>3, LandFits
  <2>4. CASE UNCHANGED files \/ Truncated(out)
    <3>1. call[c].req \in Requests /\ Careful(call[c].req)
      BY <1>1 DEF Known, Held, Data, Careful, Decompressors
    <3>2. out \in Paths
      BY <3>1, OutputIsThere
    <3>3. files[out] \in Seq(K)
      BY <1>1, <3>2 DEF Known
    <3>4. files'[out] = files[out] \/ files'[out] = <<>>
      BY <2>4, <3>2 DEF Truncated, Paths
    <3>5. Len(files[out]) \in Nat /\ Len(<<>>) = 0
      BY <3>3
    <3> QED BY <1>1, <3>4, <3>5
  <2>5. Land(c) \/ UNCHANGED files \/ Truncated(out)
    BY <1>1, <2>2
    DEF Step, EncryptBody, At, Compressors, Decompressors, CompressOpen, CompressCopy,
        CompressFinish, CompressFails, DecompressOpen, DecompressCreate, LateCreate,
        DecompressCopy, Hand, DecompressFinish, DecompressFails, DroppedEnds, EncryptRead,
        EncryptCreate, EncryptHeader, EncryptFails, DecryptRead, DecryptUnseal,
        DecryptCreate, DecryptWrite, DecryptFails, KeygenSecret, KeygenPublic, KeygenFails,
        TarCollect, TarCreate, TarStat, TarAppend, TarFinish, TarFails, UntarOpen,
        UntarEntry, UntarFinish, UntarFails, Timeout
  <2> QED BY <2>3, <2>4, <2>5
<1>2. IInv /\ [Next]_vars => [\A c \in Calls : DecompressionFits(c)]_vars
  BY <1>1 DEF DecompressionFits
<1> QED BY <1>2, Invariant, PTL DEF Spec

-----------------------------------------------------------------------------
(***************************************************************************)
(* What a call that is alone with its files has done so far.               *)
(***************************************************************************)

Beginning(c) ==
  call[c].pc \in {"open", "read", "collect", "secret"} =>
    call[c].at = 0 /\ call[c].pos = 0 /\ call[c].handed = 0 /\ call[c].text = <<>>

Compressing(c) ==
  LET x == call[c]
      was == x.before[x.req.src]
      now == files[Output(x.req)]
  IN x.pc = "copy" =>
       /\ now # NoFile /\ Len(now) = x.at /\ x.pos = x.at
       /\ x.at <= Len(was) /\ Len(x.text) = x.at
       /\ \A i \in 1..x.at :
            x.text[i] = was[i] /\ now[i] = Squeezed(Codec(x.req.tool), was[i])

Decompressing(c) ==
  LET x == call[c]
      was == x.before[x.req.src]
      now == files[Output(x.req)]
  IN /\ x.pc = "create" => x.at = 0 /\ x.pos = 0 /\ x.text = <<>>
     /\ x.pc = "copy" =>
          /\ now # NoFile /\ Len(now) = x.pos
          /\ x.at <= Len(was) /\ Len(x.text) = x.at
          /\ \A i \in 1..x.at : was[i] = Squeezed(Codec(x.req.tool), x.text[i])
          /\ \A i \in 1..x.pos : now[i] = x.text[i]

Encrypting(c) ==
  LET x == call[c]
      now == files[Output(x.req)]
  IN /\ x.pc \in {"create", "header", "body"} =>
          "lock" \in DOMAIN x /\ x.text = x.before[x.req.src]
     /\ x.pc = "header" => now = <<>>
     /\ x.pc = "body" => now = <<HeaderOf(x.lock)>>

Decrypting(c) ==
  LET x == call[c]
      was == x.before[x.req.src]
  IN /\ x.pc = "unseal" => x.text = was
     /\ x.pc \in {"write", "fill"} => was = Encrypted(x.lock, x.text)
     /\ x.pc = "fill" => files[Output(x.req)] = <<>>

(* compress_tar: of the files it found, in their order, the ones it has    *)
(* not yet to add fill the archive.                                        *)
FilledBy(x, order, ends) ==
  LET k == Len(order) - Len(x.rest)
  IN /\ Len(x.rest) <= Len(order)
     /\ \A i \in 1..Len(x.rest) : x.rest[i] = order[k + i]
     /\ LaidOut(x.text, order, x.before, k, ends)
     /\ Len(x.text) = ends[k]

(* The file has got n tokens of what becomes of the archive. *)
Streamed(now, codec, archive, n) ==
  /\ now # NoFile /\ Len(now) = n /\ n <= Len(archive)
  /\ \A i \in 1..n : now[i] = Stream(codec, archive)[i]
  /\ codec = "none" => n = Len(archive)

Archiving(c) ==
  LET x == call[c]
      orders == Orders(x.req.src, x.before, x.skipped)
  IN /\ DOMAIN x.before = Paths
     /\ x.pc = "create" => x.pos = 0 /\ x.text = <<>> /\ x.rest \in orders
     /\ x.pc \in {"stat", "append"} =>
          /\ Streamed(files[Output(x.req)], x.req.codec, x.text, x.pos)
          /\ \E order \in orders : \E ends \in [0..Len(order) -> Nat] :
               FilledBy(x, order, ends)
     /\ x.pc = "append" => x.at = Len(x.before[Head(x.rest)])

(* decompress_tar: of the entries it has read, each that is the last of    *)
(* its name is a file.                                                     *)
UnpackedUpTo(disk, r, archive, at) ==
  /\ at <= Len(archive)
  /\ \A i \in 1..at : IsEntry(archive[i]) => i + archive[i].size <= at
  /\ \A i \in 1..at :
       LET target == [dir |-> r.out, name |-> archive[i].entry]
       IN (IsLastOfName(archive, i) /\ target \in DOMAIN disk) =>
            disk[target] = SubSeq(archive, i + 1, i + archive[i].size)

Unpacking(c) ==
  LET x == call[c]
      file == x.before[x.req.src]
      archive == Decoded(CodecOf(file), file)
  IN /\ x.pc = "open" => files[x.req.src] = file
     /\ (x.pc = "entry" /\ WellFormed(archive) /\ ~NamesItself(c, archive)) =>
          /\ files[x.req.src] = file /\ x.codec = CodecOf(file)
          /\ UnpackedUpTo(files, x.req, archive, x.at)

Pairing(c) ==
  call[c].pc = "public" =>
    /\ "out" \in DOMAIN call[c].req /\ IsPair(c)
    /\ files[call[c].req.out] = SecretKey(c)

-----------------------------------------------------------------------------
(***************************************************************************)
(* Writing: at the end of a file, and where there is nothing.              *)
(***************************************************************************)

LEMMA AppendIs ==
  ASSUME NEW S, NEW s \in Seq(S), NEW t
  PROVE  /\ Append(s, t) \in Seq(S \cup {t}) /\ Len(Append(s, t)) = Len(s) + 1
         /\ \A i \in 1..Len(s) : Append(s, t)[i] = s[i]
         /\ Append(s, t)[Len(s) + 1] = t
<1>1. s \in Seq(S \cup {t})
  BY SeqOfMore
<1> QED BY <1>1

LEMMA PutAtEnd ==
  ASSUME NEW S, NEW file \in Seq(S), NEW t
  PROVE  Put(file, Len(file), <<t>>) = Append(file, t)
<1> DEFINE put == Put(file, Len(file), <<t>>)
<1>1. Len(<<t>>) = 1 /\ Len(file) \in Nat /\ <<t>>[1] = t
  OBVIOUS
<1>2. put = [i \in 1..Len(file) + 1 |-> IF i <= Len(file) THEN file[i] ELSE t]
  BY <1>1 DEF Put
<1>3. /\ Append(file, t) \in Seq(S \cup {t}) /\ Len(Append(file, t)) = Len(file) + 1
      /\ \A i \in 1..Len(file) : Append(file, t)[i] = file[i]
      /\ Append(file, t)[Len(file) + 1] = t
  BY AppendIs
<1>4. put \in Seq(S \cup {t}) /\ Len(put) = Len(file) + 1
  BY <1>1, <1>2
<1>5. ASSUME NEW i \in 1..Len(file) + 1 PROVE put[i] = Append(file, t)[i]
  <2>1. i \in 1..Len(file) \/ i = Len(file) + 1
    BY <1>1
  <2> QED BY <1>1, <1>2, <1>3, <2>1
<1> HIDE DEF put
<1> QED BY <1>3, <1>4, <1>5, SeqEqual DEF put

LEMMA PutInEmpty ==
  ASSUME NEW S, NEW tokens \in Seq(S)
  PROVE  Put(<<>>, 0, tokens) = tokens
<1>1. Len(tokens) \in Nat /\ Len(<<>>) = 0
  OBVIOUS
<1>2. Put(<<>>, 0, tokens) = [i \in 1..Len(tokens) |-> tokens[i]]
  BY <1>1 DEF Put
<1> QED BY <1>2

(* A path without a file is told from one with a file: NoFile is no        *)
(* sequence.                                                               *)
Absent == \A S : NoFile \notin Seq(S)

LEMMA SeqIsFile ==
  ASSUME Absent, NEW S, NEW s \in Seq(S)
  PROVE  s # NoFile
  BY DEF Absent

LEMMA WrittenAtEnd ==
  ASSUME Absent, NEW K, Known(K), NEW path \in Paths, files[path] # NoFile,
         NEW pos, pos = Len(files[path]), NEW t, Wrote(path, pos, <<t>>)
  PROVE  /\ files[path] \in Seq(K)
         /\ files'[path] = Append(files[path], t)
         /\ files'[path] # NoFile /\ Len(files'[path]) = Len(files[path]) + 1
         /\ \A i \in 1..Len(files[path]) : files'[path][i] = files[path][i]
         /\ files'[path][Len(files[path]) + 1] = t
<1>1. files[path] \in Seq(K)
  BY DEF Known
<1>2. files'[path] = Put(files[path], Len(files[path]), <<t>>)
  BY DEF Wrote, Paths
<1>3. files'[path] = Append(files[path], t)
  BY <1>1, <1>2, PutAtEnd
<1>4. /\ Append(files[path], t) \in Seq(K \cup {t})
      /\ Len(Append(files[path], t)) = Len(files[path]) + 1
      /\ \A i \in 1..Len(files[path]) : Append(files[path], t)[i] = files[path][i]
      /\ Append(files[path], t)[Len(files[path]) + 1] = t
  BY <1>1, AppendIs
<1>5. files'[path] # NoFile
  BY <1>3, <1>4, SeqIsFile
<1> QED BY <1>1, <1>3, <1>4, <1>5

(* The same with an output that is no link to the source. *)
Intact(c) == Kept(c) /\ ~OntoSource(call[c].req)

LEMMA SourceAsItWas ==
  ASSUME IInv, NEW c \in Calls, Live(c), Intact(c),
         call[c].req.tool \notin {"compress_tar", "generate_key", "decompress_tar"}
  PROVE  /\ files[call[c].req.src] = call[c].before[call[c].req.src]
         /\ Output(call[c].req) # call[c].req.src
         /\ Output(call[c].req) \in Paths
<1> PICK K : Known(K)
  BY DEF IInv
<1>1. call[c].req \in Requests /\ ~Refused(call[c].req)
  BY DEF Known, Held, Data
<1>2. call[c].req.src \in Sources(call[c].req) /\ Careful(call[c].req)
  BY DEF Sources, Careful
<1>3. Output(call[c].req) # call[c].req.src
  BY <1>1, <1>2, OutputIsNoSource DEF Unseen, Intact
<1>4. Output(call[c].req) \in Paths
  BY <1>1, <1>2, OutputIsThere
<1> QED BY <1>2, <1>3, <1>4 DEF Intact, Kept, Unseen

LEMMA CompressCopyGoesOn ==
  ASSUME Absent, IInv, NEW c \in Calls, CompressCopy(c), Intact(c), Compressing(c)
  PROVE  Compressing(c)'
<1> PICK K : Known(K)
  BY DEF IInv
<1> DEFINE r == call[c].req
           out == Output(r)
           was == call[c].before[r.src]
           at == call[c].at
           block == files[r.src][at + 1]
           t == Squeezed(Codec(r.tool), block)
<1>1. Live(c) /\ Held(K, call[c]) /\ r.tool \in Compressors /\ call[c].pc = "copy"
  BY DEF CompressCopy, At, Known
<1>2. files[r.src] = was /\ out \in Paths
  BY <1>1, SourceAsItWas DEF Compressors
<1>3. /\ at \in Nat /\ call[c].pos = at /\ call[c].text \in Seq(K) /\ Len(call[c].text) = at
      /\ was \in Seq(K) /\ at < Len(was)
      /\ files[out] # NoFile /\ Len(files[out]) = at
      /\ \A i \in 1..at : call[c].text[i] = was[i] /\ files[out][i] = Squeezed(Codec(r.tool), was[i])
  BY <1>1, <1>2 DEF Held, Data, Reads, Compressing, CompressCopy
<1>4. /\ Wrote(out, call[c].pos, <<t>>)
      /\ Moved(c, [at |-> at + 1, pos |-> call[c].pos + 1, text |-> Append(call[c].text, block)])
  BY DEF CompressCopy
<1>5. /\ files'[out] # NoFile /\ Len(files'[out]) = at + 1
      /\ \A i \in 1..at : files'[out][i] = files[out][i]
      /\ files'[out][at + 1] = t
  <2>1. /\ out \in Paths /\ files[out] # NoFile
        /\ call[c].pos = Len(files[out]) /\ at = Len(files[out])
    BY <1>2, <1>3
  <2>2. Wrote(out, call[c].pos, <<t>>)
    BY <1>4
  <2> HIDE DEF t, out, at
  <2> QED BY <2>1, <2>2, WrittenAtEnd
<1>6. /\ call'[c].req = r /\ call'[c].before = call[c].before
      /\ call'[c].at = at + 1 /\ call'[c].pos = at + 1
      /\ call'[c].text = Append(call[c].text, block)
  <2>1. Live(c) /\ call[c].pos = at
    BY <1>1, <1>3
  <2>2. Moved(c, [at |-> at + 1, pos |-> call[c].pos + 1, text |-> Append(call[c].text, block)])
    BY <1>4
  <2> HIDE DEF at, block, was, r
  <2> QED BY <2>1, <2>2, MovedOn DEF r
<1>7. call[c].text \in Seq(K) /\ Len(call[c].text) = at
  BY <1>3
<1>8. /\ Len(Append(call[c].text, block)) = at + 1
      /\ \A i \in 1..at : Append(call[c].text, block)[i] = call[c].text[i]
      /\ Append(call[c].text, block)[at + 1] = block
  BY <1>7, AppendIs
<1>9. block = was[at + 1]
  BY <1>2
<1>10. ASSUME NEW i \in 1..at + 1
       PROVE  /\ Append(call[c].text, block)[i] = was[i]
              /\ files'[out][i] = Squeezed(Codec(r.tool), was[i])
  <2>1. i \in 1..at \/ i = at + 1
    BY <1>3
  <2> QED BY <1>3, <1>5, <1>8, <1>9, <2>1
<1> HIDE DEF out, was, at, block, t, r
<1>11. /\ files'[out] # NoFile /\ Len(files'[out]) = at + 1 /\ at + 1 <= Len(was)
       /\ Len(Append(call[c].text, block)) = at + 1
  BY <1>3, <1>5, <1>8
<1> QED BY <1>6, <1>10, <1>11 DEF Compressing, out, was, r

LEMMA TruncatedNow ==
  ASSUME Absent, NEW path \in Paths, Truncated(path)
  PROVE  files'[path] = <<>> /\ files'[path] # NoFile
<1>1. <<>> \in Seq({})
  OBVIOUS
<1>2. <<>> # NoFile
  BY <1>1, SeqIsFile
<1> QED BY <1>2 DEF Truncated, Paths

LEMMA CompressOpenGoesOn ==
  ASSUME Absent, IInv, NEW c \in Calls, CompressOpen(c), Intact(c), Beginning(c)
  PROVE  Compressing(c)'
<1> PICK K : Known(K)
  BY DEF IInv
<1> DEFINE r == call[c].req
           out == Output(r)
           was == call[c].before[r.src]
<1>1. /\ Live(c) /\ Held(K, call[c]) /\ r.tool \in Compressors
      /\ call[c].pc = "open" /\ files[r.src] # NoFile /\ Truncated(out)
      /\ Moved(c, [pc |-> "copy"])
  BY DEF CompressOpen, At, Known
<1>2. files[r.src] = was /\ out \in Paths
  BY <1>1, SourceAsItWas DEF Compressors
<1>3. Len(was) \in Nat
  <2>1. r.src \in Paths
    BY <1>1, TransformsAssumption DEF Held, Data, Known, Compressors
  <2> QED BY <1>1, <1>2, <2>1 DEF Known
<1>4. files'[out] = <<>> /\ files'[out] # NoFile
  BY <1>1, <1>2, TruncatedNow
<1>5. /\ call'[c].req = r /\ call'[c].before = call[c].before
      /\ call'[c].at = call[c].at /\ call'[c].pos = call[c].pos
      /\ call'[c].text = call[c].text
  BY <1>1, MovedOn
<1>6. call'[c].at = 0 /\ call'[c].pos = 0 /\ call'[c].text = <<>>
  BY <1>1, <1>5 DEF Beginning
<1>7. Len(<<>>) = 0
  OBVIOUS
<1> HIDE DEF out, was, r
<1> QED BY <1>3, <1>4, <1>5, <1>6, <1>7 DEF Compressing, out, was, r

LEMMA DecompressOpenGoesOn ==
  ASSUME IInv, NEW c \in Calls, DecompressOpen(c), Beginning(c)
  PROVE  Decompressing(c)'
<1> PICK K : Known(K)
  BY DEF IInv
<1>1. Live(c) /\ call[c].pc = "open" /\ Moved(c, [pc |-> "create"])
  BY DEF DecompressOpen, At
<1>2. /\ call'[c].pc = "create" /\ call'[c].at = call[c].at
      /\ call'[c].pos = call[c].pos /\ call'[c].text = call[c].text
  BY <1>1, MovedOn
<1> QED BY <1>1, <1>2 DEF Decompressing, Beginning

LEMMA DecompressCreateGoesOn ==
  ASSUME Absent, IInv, NEW c \in Calls, DecompressCreate(c), Intact(c), Decompressing(c)
  PROVE  Decompressing(c)'
<1> PICK K : Known(K)
  BY DEF IInv
<1> DEFINE r == call[c].req
           out == Output(r)
           was == call[c].before[r.src]
<1>1. /\ Live(c) /\ Held(K, call[c]) /\ r.tool \in Decompressors
      /\ call[c].pc = "create" /\ Truncated(out) /\ Moved(c, [pc |-> "copy"])
  BY DEF DecompressCreate, At, Known
<1>2. files[r.src] = was /\ out \in Paths
  BY <1>1, SourceAsItWas DEF Decompressors
<1>3. Len(was) \in Nat
  BY <1>1, <1>2 DEF Held, Reads
<1>4. files'[out] = <<>> /\ files'[out] # NoFile
  BY <1>1, <1>2, TruncatedNow
<1>5. /\ call'[c].req = r /\ call'[c].before = call[c].before
      /\ call'[c].pc = "copy" /\ call'[c].at = call[c].at
      /\ call'[c].pos = call[c].pos /\ call'[c].text = call[c].text
  BY <1>1, MovedOn
<1>6. call'[c].at = 0 /\ call'[c].pos = 0 /\ call'[c].text = <<>>
  BY <1>1, <1>5 DEF Decompressing
<1>7. Len(<<>>) = 0
  OBVIOUS
<1> HIDE DEF out, was, r
<1> QED BY <1>3, <1>4, <1>5, <1>6, <1>7 DEF Decompressing, out, was, r

LEMMA UnpacksMore ==
  ASSUME NEW S, NEW text \in Seq(S), NEW was, NEW now, NEW at \in Nat, NEW pos \in Nat,
         pos <= at, Len(text) = at, NEW codec, NEW block,
         was[at + 1] = Squeezed(codec, block),
         \A i \in 1..at : was[i] = Squeezed(codec, text[i]),
         \A i \in 1..pos : now[i] = text[i]
  PROVE  /\ Len(Append(text, block)) = at + 1
         /\ \A i \in 1..at + 1 : was[i] = Squeezed(codec, Append(text, block)[i])
         /\ \A i \in 1..pos : now[i] = Append(text, block)[i]
<1> DEFINE more == Append(text, block)
<1>1. Len(more) = at + 1 /\ (\A i \in 1..at : more[i] = text[i]) /\ more[at + 1] = block
  BY AppendIs
<1> HIDE DEF more
<1>2. \A i \in 1..at + 1 : i \in 1..at \/ i = at + 1
  OBVIOUS
<1>3. \A i \in 1..at + 1 : was[i] = Squeezed(codec, more[i])
  BY <1>1, <1>2
<1>4. \A i \in 1..pos : now[i] = more[i]
  BY <1>1
<1> QED BY <1>1, <1>3, <1>4 DEF more

LEMMA DecompressCopyGoesOn ==
  ASSUME Absent, IInv, NEW c \in Calls, DecompressCopy(c), Intact(c), Decompressing(c)
  PROVE  Decompressing(c)'
<1> PICK K : Known(K)
  BY DEF IInv
<1> DEFINE r == call[c].req
           out == Output(r)
           was == call[c].before[r.src]
           at == call[c].at
           text == call[c].text
           token == NextToken(c)
           more == Append(text, token.block)
<1>1. /\ Live(c) /\ Held(K, call[c]) /\ r.tool \in Decompressors /\ call[c].pc = "copy"
      /\ UNCHANGED files
      /\ Moved(c, [at |-> at + 1, text |-> more])
  BY DEF DecompressCopy, At, Known
<1>2. files[r.src] = was /\ out \in Paths
  BY <1>1, SourceAsItWas DEF Decompressors
<1>3. /\ at \in Nat /\ text \in Seq(K) /\ call[c].pos \in Nat /\ call[c].handed \in Nat
      /\ call[c].handed \in call[c].pos..call[c].pos + 1 /\ call[c].handed <= Len(text)
      /\ was \in Seq(K) /\ at < Len(was) /\ token = was[at + 1]
      /\ IsBlock(token, Codec(r.tool))
  BY <1>1, <1>2 DEF Held, Data, Reads, Copies, DecompressCopy, HasNext, NextToken
<1>4. /\ Len(text) = at /\ files[out] # NoFile /\ Len(files[out]) = call[c].pos
      /\ \A i \in 1..at : was[i] = Squeezed(Codec(r.tool), text[i])
      /\ \A i \in 1..call[c].pos : files[out][i] = text[i]
  BY <1>1 DEF Decompressing
<1>5. call[c].pos <= at
  <2>1. /\ call[c].pos \in Nat /\ call[c].handed \in Nat /\ at \in Nat
        /\ call[c].handed \in call[c].pos..call[c].pos + 1 /\ call[c].handed <= Len(text)
    BY <1>3, Zenon
  <2>2. Len(text) = at
    BY <1>4, Zenon
  <2> HIDE DEF text, at
  <2> QED BY <2>1, <2>2
<1>6. token = Squeezed(Codec(r.tool), token.block)
  <2>1. token \in K
    <3>1. was \in Seq(K) /\ at \in Nat /\ at < Len(was) /\ token = was[at + 1]
      BY <1>3, Zenon
    <3> HIDE DEF was, at, token
    <3> QED BY <3>1, ItemOf
  <2> QED BY <1>3, <2>1 DEF Known, WellMade, IsBlock
<1>7. /\ call'[c].req = r /\ call'[c].before = call[c].before /\ call'[c].pc = "copy"
      /\ call'[c].at = at + 1 /\ call'[c].pos = call[c].pos /\ call'[c].text = more
  BY <1>1, MovedOn
<1>8. /\ Len(more) = at + 1
      /\ \A i \in 1..at + 1 : was[i] = Squeezed(Codec(r.tool), more[i])
      /\ \A i \in 1..call[c].pos : files[out][i] = more[i]
  <2>1. was[at + 1] = Squeezed(Codec(r.tool), token.block)
    BY <1>3, <1>6
  <2>2. text \in Seq(K) /\ at \in Nat /\ call[c].pos \in Nat
    BY <1>3
  <2> HIDE DEF token, text, was, out, at, r
  <2> QED BY <1>4, <1>5, <2>1, <2>2, UnpacksMore
<1>9. files'[out] = files[out] /\ at + 1 <= Len(was)
  <2>1. files'[out] = files[out]
    BY <1>1
  <2>2. at \in Nat /\ Len(was) \in Nat /\ at < Len(was)
    <3>1. was \in Seq(K) /\ at \in Nat /\ at < Len(was)
      BY <1>3
    <3> HIDE DEF was, at
    <3> QED BY <3>1
  <2> HIDE DEF at, was, out
  <2> QED BY <2>1, <2>2
<1> HIDE DEF out, was, at, more, r
<1>10. /\ files'[out] # NoFile /\ Len(files'[out]) = call[c].pos /\ at + 1 <= Len(was)
       /\ \A i \in 1..call[c].pos : files'[out][i] = more[i]
  BY <1>4, <1>8, <1>9
<1> QED BY <1>7, <1>8, <1>10 DEF Decompressing, out, was, r

LEMMA HandGoesOn ==
  ASSUME IInv, NEW c \in Calls, Hand(c), Decompressing(c)
  PROVE  Decompressing(c)'
<1> PICK K : Known(K)
  BY DEF IInv
<1>1. Live(c) /\ Moved(c, [handed |-> call[c].handed + 1]) /\ UNCHANGED files
  BY DEF Hand, At
<1>2. /\ call'[c].req = call[c].req /\ call'[c].before = call[c].before
      /\ call'[c].pc = call[c].pc
      /\ call'[c].at = call[c].at /\ call'[c].pos = call[c].pos
      /\ call'[c].text = call[c].text
  BY <1>1, MovedOn
<1> QED BY <1>1, <1>2 DEF Decompressing

LEMMA LandGoesOn ==
  ASSUME Absent, IInv, NEW c \in Calls, Land(c), Intact(c), Decompressing(c)
  PROVE  Decompressing(c)'
<1> PICK K : Known(K)
  BY DEF IInv
<1> DEFINE r == call[c].req
           out == Output(r)
           was == call[c].before[r.src]
           pos == call[c].pos
           text == call[c].text
           t == text[pos + 1]
<1>1. /\ Live(c) /\ Held(K, call[c]) /\ r.tool \in Decompressors
      /\ pos \in Nat /\ pos + 1 = call[c].handed /\ call[c].handed <= Len(text)
  BY LandWrites
<1>2. Moved(c, [pos |-> pos + 1]) /\ Wrote(out, pos, <<t>>)
  BY DEF Land
<1>3. out \in Paths
  BY <1>1, SourceAsItWas DEF Decompressors
<1>4. /\ call'[c].req = r /\ call'[c].before = call[c].before /\ call'[c].pc = call[c].pc
      /\ call'[c].at = call[c].at /\ call'[c].pos = pos + 1 /\ call'[c].text = text
  BY <1>1, <1>2, MovedOn
<1>0. call[c].pc # "create"
  BY <1>1 DEF Held, Copies
<1> SUFFICES ASSUME call[c].pc = "copy" PROVE Decompressing(c)'
  BY <1>0, <1>4 DEF Decompressing
<1>5. /\ files[out] # NoFile /\ Len(files[out]) = pos
      /\ call[c].at <= Len(was) /\ Len(text) = call[c].at
      /\ \A i \in 1..call[c].at : was[i] = Squeezed(Codec(r.tool), text[i])
      /\ \A i \in 1..pos : files[out][i] = text[i]
  BY DEF Decompressing
<1>6. /\ files'[out] # NoFile /\ Len(files'[out]) = pos + 1
      /\ \A i \in 1..pos : files'[out][i] = files[out][i]
      /\ files'[out][pos + 1] = t
  <2> HIDE DEF t, out
  <2> QED BY <1>2, <1>3, <1>5, WrittenAtEnd
<1>7. ASSUME NEW i \in 1..pos + 1 PROVE files'[out][i] = text[i]
  <2>1. i \in 1..pos \/ i = pos + 1
    BY <1>1
  <2> QED BY <1>5, <1>6, <2>1
<1> HIDE DEF out, was, pos, text, t, r
<1> QED BY <1>4, <1>5, <1>6, <1>7 DEF Decompressing, out, was, r, text

LEMMA CompressSucceeds ==
  ASSUME Absent, IInv, NEW c \in Calls, CompressFinish(c), Intact(c), Compressing(c)
  PROVE  Meets(c, call[c].before, files')
<1> PICK K : Known(K)
  BY DEF IInv
<1> DEFINE r == call[c].req
           out == Output(r)
           was == call[c].before[r.src]
           now == files[out]
           at == call[c].at
           text == call[c].text
           t == Trailer(Codec(r.tool), text)
           blocks == [i \in 1..Len(was) |-> Squeezed(Codec(r.tool), was[i])]
<1>1. /\ Live(c) /\ Held(K, call[c]) /\ r.tool \in Compressors /\ call[c].pc = "copy"
      /\ Wrote(out, call[c].pos, <<t>>)
  BY DEF CompressFinish, At, Known
<1>2. files[r.src] = was /\ out \in Paths
  BY <1>1, SourceAsItWas DEF Compressors
<1>3. /\ at \in Nat /\ call[c].pos = at /\ text \in Seq(K) /\ Len(text) = at
      /\ was \in Seq(K) /\ at = Len(was)
      /\ now # NoFile /\ Len(now) = at
      /\ \A i \in 1..at : text[i] = was[i] /\ now[i] = Squeezed(Codec(r.tool), was[i])
  <2>1. at \in Nat /\ text \in Seq(K) /\ was \in Seq(K)
    BY <1>1, <1>2 DEF Held, Data, Reads
  <2>2. at = Len(was)
    BY <1>1, <1>2, <2>1 DEF Compressing, CompressFinish
  <2>3. /\ call[c].pos = at /\ Len(text) = at /\ now # NoFile /\ Len(now) = at
        /\ \A i \in 1..at : text[i] = was[i] /\ now[i] = Squeezed(Codec(r.tool), was[i])
    BY <1>1 DEF Compressing
  <2> QED BY <2>1, <2>2, <2>3
<1>4. text = was
  BY <1>3, SeqEqual
<1>5. now = blocks
  <2>1. now \in Seq(K)
    BY <1>2, <1>3 DEF Known
  <2>2. now = [i \in 1..at |-> now[i]]
    <3>1. Len(now) = at
      BY <1>3
    <3> HIDE DEF now, at
    <3> QED BY <2>1, <3>1
  <2> QED BY <1>3, <2>2
<1>6. files'[out] = Append(now, t)
  <2>1. /\ out \in Paths /\ files[out] # NoFile /\ call[c].pos = Len(files[out])
        /\ Wrote(out, call[c].pos, <<t>>)
    BY <1>1, <1>2, <1>3
  <2> HIDE DEF t, out
  <2> QED BY <2>1, WrittenAtEnd
<1>7. files'[out] = Compressed(Codec(r.tool), was)
  BY <1>4, <1>5, <1>6 DEF Compressed
<1> QED BY <1>1, <1>7 DEF Meets, Compressors, Decompressors

LEMMA StreamIsPrefix ==
  ASSUME NEW S, NEW was \in Seq(S), NEW text \in Seq(S), NEW codec,
         Len(text) < Len(was),
         \A i \in 1..Len(text) : was[i] = Squeezed(codec, text[i]),
         was[Len(text) + 1] = Trailer(codec, text)
  PROVE  IsPrefix(Compressed(codec, text), was)
<1> DEFINE n == Len(text)
           blocks == [i \in 1..n |-> Squeezed(codec, text[i])]
           t == Trailer(codec, text)
           stream == Append(blocks, t)
           T == {blocks[i] : i \in 1..n}
<1>1. n \in Nat /\ Len(was) \in Nat /\ n + 1 <= Len(was)
  OBVIOUS
<1>2. blocks \in Seq(T) /\ Len(blocks) = n
  <2>1. \A i \in 1..n : blocks[i] \in T
    OBVIOUS
  <2> HIDE DEF T
  <2> QED BY <1>1, <2>1
<1>3. /\ stream \in Seq(T \cup {t}) /\ Len(stream) = n + 1
      /\ \A i \in 1..n : stream[i] = blocks[i]
      /\ stream[n + 1] = t
  <2> HIDE DEF T, blocks, t, n
  <2> QED BY <1>2, AppendIs
<1>4. ASSUME NEW i \in 1..n + 1 PROVE stream[i] = was[i]
  <2>1. i \in 1..n \/ i = n + 1
    BY <1>1
  <2>2. CASE i \in 1..n
    <3>1. blocks[i] = Squeezed(codec, text[i])
      BY <2>2
    <3> QED BY <1>3, <2>2, <3>1
  <2> QED BY <1>3, <2>1, <2>2
<1>5. Compressed(codec, text) = stream
  BY DEF Compressed
<1> HIDE DEF stream, n
<1>6. /\ SubSeq(stream, 1, n + 1) = [i \in 1..n + 1 |-> stream[i]]
      /\ SubSeq(was, 1, n + 1) = [i \in 1..n + 1 |-> was[i]]
  BY <1>1, <1>3
<1>7. SubSeq(stream, 1, n + 1) = SubSeq(was, 1, n + 1)
  BY <1>4, <1>6
<1> QED BY <1>1, <1>3, <1>5, <1>7 DEF IsPrefix

LEMMA DecompressSucceeds ==
  ASSUME IInv, NEW c \in Calls, DecompressFinish(c), Intact(c), Decompressing(c)
  PROVE  Meets(c, call[c].before, files')
<1> PICK K : Known(K)
  BY DEF IInv
<1> DEFINE r == call[c].req
           out == Output(r)
           was == call[c].before[r.src]
           at == call[c].at
           text == call[c].text
           token == NextToken(c)
           codec == Codec(r.tool)
<1>1. /\ Live(c) /\ Held(K, call[c]) /\ r.tool \in Decompressors /\ call[c].pc = "copy"
      /\ UNCHANGED files
  BY DEF DecompressFinish, At, Known
<1>2. files[r.src] = was /\ out \in Paths
  BY <1>1, SourceAsItWas DEF Decompressors
<1>3. /\ at \in Nat /\ text \in Seq(K) /\ was \in Seq(K) /\ at < Len(was)
      /\ token = was[at + 1] /\ IsTrailer(token, codec) /\ token.sum = text
      /\ call[c].pos = Len(text)
  BY <1>1, <1>2 DEF Held, Data, Reads, DecompressFinish, Checks, HasNext, NextToken
<1>4. /\ Len(text) = at /\ files[out] # NoFile /\ Len(files[out]) = call[c].pos
      /\ \A i \in 1..at : was[i] = Squeezed(codec, text[i])
      /\ \A i \in 1..call[c].pos : files[out][i] = text[i]
  BY <1>1 DEF Decompressing
<1>5. token = Trailer(codec, text)
  <2>1. token \in K
    <3>1. was \in Seq(K) /\ at \in Nat /\ at < Len(was) /\ token = was[at + 1]
      BY <1>3, Zenon
    <3> HIDE DEF was, at, token
    <3> QED BY <3>1, ItemOf
  <2> QED BY <1>3, <2>1 DEF Known, WellMade, IsTrailer
<1>6. files'[out] = text
  <2>1. files[out] \in Seq(K)
    BY <1>2, <1>4 DEF Known
  <2>2. text \in Seq(K) /\ Len(files[out]) = Len(text)
        /\ \A i \in 1..Len(files[out]) : files[out][i] = text[i]
    BY <1>3, <1>4
  <2>3. files[out] = text
    <3> HIDE DEF out, text
    <3> QED BY <2>1, <2>2, SeqEqual
  <2> QED BY <1>1, <2>3
<1>7. IsPrefix(Compressed(codec, text), was)
  <2>1. was[Len(text) + 1] = Trailer(codec, text)
    BY <1>3, <1>4, <1>5
  <2>2. was \in Seq(K) /\ text \in Seq(K) /\ Len(text) < Len(was)
        /\ \A i \in 1..Len(text) : was[i] = Squeezed(codec, text[i])
    BY <1>3, <1>4
  <2> HIDE DEF was, text, codec
  <2> QED BY <2>1, <2>2, StreamIsPrefix
<1> QED BY <1>1, <1>6, <1>7 DEF Meets, Compressors, Decompressors

-----------------------------------------------------------------------------
LEMMA EncryptGoesOn ==
  ASSUME Absent, IInv, NEW c \in Calls,
         EncryptRead(c) \/ EncryptCreate(c) \/ EncryptHeader(c),
         Intact(c), Encrypting(c)
  PROVE  Encrypting(c)'
<1> PICK K : Known(K)
  BY DEF IInv
<1> DEFINE r == call[c].req
           out == Output(r)
<1>1. Live(c) /\ Held(K, call[c]) /\ r.tool = "encrypt_file"
  BY DEF EncryptRead, EncryptCreate, EncryptHeader, At, Known
<1>2. files[r.src] = call[c].before[r.src] /\ out \in Paths
  BY <1>1, SourceAsItWas
<1>3. CASE EncryptRead(c)
  <2>1. PICK lock : Moved(c, [pc |-> "create", text |-> files[r.src], lock |-> lock])
    BY <1>3 DEF EncryptRead
  <2>2. /\ call'[c].req = r /\ call'[c].before = call[c].before /\ call'[c].pc = "create"
        /\ call'[c].text = files[r.src] /\ "lock" \in DOMAIN call'[c]
    BY <1>1, <2>1, MovedOn
  <2> QED BY <1>2, <2>2 DEF Encrypting
<1>4. CASE EncryptCreate(c)
  <2>1. Truncated(out) /\ Moved(c, [pc |-> "header"]) /\ call[c].pc = "create"
    BY <1>4 DEF EncryptCreate, At
  <2>2. "lock" \in DOMAIN call[c] /\ call[c].text = call[c].before[r.src]
    BY <2>1 DEF Encrypting
  <2>3. /\ call'[c].req = r /\ call'[c].before = call[c].before /\ call'[c].pc = "header"
        /\ call'[c].text = call[c].text /\ "lock" \in DOMAIN call'[c]
    BY <1>1, <2>1, <2>2, MovedOn
  <2>4. files'[out] = <<>>
    BY <1>2, <2>1 DEF Truncated, Paths
  <2> QED BY <2>2, <2>3, <2>4 DEF Encrypting
<1>5. CASE EncryptHeader(c)
  <2>1. /\ Wrote(out, 0, <<HeaderOf(call[c].lock)>>) /\ Moved(c, [pc |-> "body"])
        /\ call[c].pc = "header"
    BY <1>5 DEF EncryptHeader, At
  <2>2. /\ "lock" \in DOMAIN call[c] /\ call[c].text = call[c].before[r.src]
        /\ files[out] = <<>>
    BY <2>1 DEF Encrypting
  <2>3. /\ call'[c].req = r /\ call'[c].before = call[c].before /\ call'[c].pc = "body"
        /\ call'[c].text = call[c].text
        /\ "lock" \in DOMAIN call'[c] /\ call'[c].lock = call[c].lock
    BY <1>1, <2>1, <2>2, MovedOn
  <2>4. files'[out] = <<HeaderOf(call[c].lock)>>
    <3>1. files'[out] = Put(<<>>, 0, <<HeaderOf(call[c].lock)>>)
      BY <1>2, <2>1, <2>2 DEF Wrote, Paths
    <3>2. <<HeaderOf(call[c].lock)>> \in Seq({HeaderOf(call[c].lock)})
      OBVIOUS
    <3> QED BY <3>1, <3>2, PutInEmpty
  <2> QED BY <2>2, <2>3, <2>4 DEF Encrypting
<1> QED BY <1>3, <1>4, <1>5

LEMMA PutSecond ==
  ASSUME NEW h, NEW t
  PROVE  Put(<<h>>, 1, <<t>>) = <<h, t>>
<1>1. <<h>> \in Seq({h}) /\ Len(<<h>>) = 1
  OBVIOUS
<1>2. Put(<<h>>, Len(<<h>>), <<t>>) = Append(<<h>>, t)
  BY <1>1, PutAtEnd
<1>3. /\ Append(<<h>>, t) \in Seq({h, t}) /\ Len(Append(<<h>>, t)) = 2
      /\ Append(<<h>>, t)[1] = h /\ Append(<<h>>, t)[2] = t
  <2>1. /\ Append(<<h>>, t) \in Seq({h} \cup {t}) /\ Len(Append(<<h>>, t)) = Len(<<h>>) + 1
        /\ \A i \in 1..Len(<<h>>) : Append(<<h>>, t)[i] = <<h>>[i]
        /\ Append(<<h>>, t)[Len(<<h>>) + 1] = t
    BY <1>1, AppendIs
  <2>2. {h} \cup {t} = {h, t} /\ <<h>>[1] = h
    OBVIOUS
  <2> QED BY <1>1, <2>1, <2>2
<1>4. <<h, t>> \in Seq({h, t}) /\ Len(<<h, t>>) = 2 /\ <<h, t>>[1] = h /\ <<h, t>>[2] = t
  OBVIOUS
<1>5. \A i \in 1..2 : Append(<<h>>, t)[i] = <<h, t>>[i]
  <2>1. \A i \in 1..2 : i = 1 \/ i = 2
    OBVIOUS
  <2> QED BY <1>3, <1>4, <2>1
<1>6. Append(<<h>>, t) = <<h, t>>
  BY <1>3, <1>4, <1>5, SeqEqual
<1> QED BY <1>1, <1>2, <1>6

LEMMA EncryptSucceeds ==
  ASSUME Absent, IInv, NEW c \in Calls, EncryptBody(c), Intact(c), Encrypting(c)
  PROVE  Meets(c, call[c].before, files')
<1> PICK K : Known(K)
  BY DEF IInv
<1> DEFINE r == call[c].req
           out == Output(r)
           h == HeaderOf(call[c].lock)
           t == Sealed(call[c].lock, call[c].text)
<1>1. /\ Live(c) /\ r.tool = "encrypt_file" /\ call[c].pc = "body" /\ Wrote(out, 1, <<t>>)
  BY DEF EncryptBody, At
<1>2. out \in Paths
  BY <1>1, SourceAsItWas
<1>3. call[c].text = call[c].before[r.src] /\ files[out] = <<h>>
  BY <1>1 DEF Encrypting
<1>4. <<h>> # NoFile
  <2>1. <<h>> \in Seq({h})
    OBVIOUS
  <2> QED BY <2>1, SeqIsFile
<1>5. files'[out] = Put(<<h>>, 1, <<t>>)
  BY <1>1, <1>2, <1>3, <1>4 DEF Wrote, Paths
<1>6. files'[out] = Encrypted(call[c].lock, call[c].before[r.src])
  BY <1>3, <1>5, PutSecond DEF Encrypted
<1> QED BY <1>1, <1>6 DEF Meets, Compressors, Decompressors

LEMMA DecryptGoesOn ==
  ASSUME IInv, NEW c \in Calls,
         DecryptRead(c) \/ DecryptUnseal(c) \/ DecryptCreate(c),
         Intact(c), Decrypting(c)
  PROVE  Decrypting(c)'
<1> PICK K : Known(K)
  BY DEF IInv
<1> DEFINE r == call[c].req
           out == Output(r)
           was == call[c].before[r.src]
<1>1. Live(c) /\ Held(K, call[c]) /\ r.tool = "decrypt_file"
  BY DEF DecryptRead, DecryptUnseal, DecryptCreate, At, Known
<1>2. files[r.src] = was /\ out \in Paths
  BY <1>1, SourceAsItWas
<1>3. CASE DecryptRead(c)
  <2>1. PICK lock : Moved(c, [pc |-> "unseal", text |-> files[r.src], lock |-> lock])
    BY <1>3 DEF DecryptRead
  <2>2. /\ call'[c].req = r /\ call'[c].before = call[c].before /\ call'[c].pc = "unseal"
        /\ call'[c].text = files[r.src]
    BY <1>1, <2>1, MovedOn
  <2> QED BY <1>2, <2>2 DEF Decrypting
<1>4. CASE DecryptUnseal(c)
  <2>1. /\ Opens(call[c].text, call[c].lock) /\ call[c].pc = "unseal"
        /\ Moved(c, [pc |-> "write", text |-> call[c].text[2].sealed])
        /\ "lock" \in DOMAIN call[c] /\ call[c].text \in Seq(K)
    BY <1>1, <1>4 DEF DecryptUnseal, At, Held, Unseals, Data
  <2>2. /\ call'[c].req = r /\ call'[c].before = call[c].before /\ call'[c].pc = "write"
        /\ call'[c].text = call[c].text[2].sealed /\ call'[c].lock = call[c].lock
    BY <1>1, <2>1, MovedOn
  <2>3. call[c].text = was
    BY <2>1 DEF Decrypting
  <2>4. call[c].text = Encrypted(call[c].lock, call[c].text[2].sealed)
    BY <2>1, OpenedIsEncrypted
  <2> QED BY <2>2, <2>3, <2>4 DEF Decrypting
<1>5. CASE DecryptCreate(c)
  <2>1. /\ Truncated(out) /\ call[c].pc = "write" /\ Moved(c, [pc |-> "fill"])
        /\ "lock" \in DOMAIN call[c]
    BY <1>1, <1>5 DEF DecryptCreate, At, Held, Unseals
  <2>2. /\ call'[c].req = r /\ call'[c].before = call[c].before /\ call'[c].pc = "fill"
        /\ call'[c].text = call[c].text /\ call'[c].lock = call[c].lock
    BY <1>1, <2>1, MovedOn
  <2>3. files'[out] = <<>>
    BY <1>2, <2>1 DEF Truncated, Paths
  <2> QED BY <2>1, <2>2, <2>3 DEF Decrypting
<1> QED BY <1>3, <1>4, <1>5

LEMMA DecryptSucceeds ==
  ASSUME IInv, NEW c \in Calls, DecryptWrite(c), Intact(c), Decrypting(c)
  PROVE  Meets(c, call[c].before, files')
<1> PICK K : Known(K)
  BY DEF IInv
<1> DEFINE r == call[c].req
           out == Output(r)
<1>1. /\ Live(c) /\ Held(K, call[c]) /\ r.tool = "decrypt_file" /\ call[c].pc = "fill"
      /\ Wrote(out, 0, call[c].text)
  BY DEF DecryptWrite, At, Known
<1>2. out \in Paths
  BY <1>1, SourceAsItWas
<1>3. /\ call[c].before[r.src] = Encrypted(call[c].lock, call[c].text)
      /\ files[out] = <<>> /\ call[c].text \in Seq(K)
  BY <1>1 DEF Decrypting, Held, Data
<1>4. files'[out] = call[c].text
  <2>1. files'[out] = Put(<<>>, 0, call[c].text)
    BY <1>1, <1>2, <1>3 DEF Wrote, Paths
  <2> QED BY <1>3, <2>1, PutInEmpty
<1> QED BY <1>1, <1>3, <1>4 DEF Meets, Compressors, Decompressors

LEMMA KeygenSecretGoesOn ==
  ASSUME IInv, NEW c \in Calls, KeygenSecret(c)
  PROVE  IF Live(c)' THEN Pairing(c)' ELSE Meets(c, call[c].before, files')
<1> PICK K : Known(K)
  BY DEF IInv
<1> DEFINE r == call[c].req
<1>1. /\ Live(c) /\ r.tool = "generate_key" /\ r \in Requests /\ DOMAIN call = Calls
  BY DEF KeygenSecret, At, Known, Held, Data
<1>2. "out" \in DOMAIN r => files'[r.out] = SecretKey(c)
  BY <1>1, OutputsAssumption DEF KeygenSecret, Known, Paths
<1>3. CASE IsPair(c) /\ "out" \in DOMAIN r
  <2>1. Moved(c, [pc |-> "public"])
    BY <1>3 DEF KeygenSecret
  <2>2. call'[c].req = r /\ call'[c].pc = "public"
    BY <1>1, <2>1, MovedOn
  <2>3. Live(c)'
    BY <2>2 DEF Live
  <2> QED BY <1>2, <1>3, <2>2, <2>3 DEF Pairing, IsPair, SecretKey
<1>4. CASE ~(IsPair(c) /\ "out" \in DOMAIN r)
  <2>1. call'[c].pc = "done"
    BY <1>1, <1>4, EndedIs DEF KeygenSecret
  <2>2. ~Live(c)'
    BY <2>1 DEF Live
  <2> QED BY <1>1, <1>2, <1>4, <2>2 DEF Meets, Compressors, Decompressors
<1> QED BY <1>3, <1>4

LEMMA KeygenPublicSucceeds ==
  ASSUME IInv, NEW c \in Calls, KeygenPublic(c), Pairing(c)
  PROVE  Meets(c, call[c].before, files')
<1> PICK K : Known(K)
  BY DEF IInv
<1> DEFINE r == call[c].req
<1>1. /\ Live(c) /\ r.tool = "generate_key" /\ r \in Requests /\ call[c].pc = "public"
      /\ files' = [files EXCEPT ![PublicFile(r)] = PublicKey(c)]
  BY DEF KeygenPublic, At, Known, Held, Data
<1>2. "out" \in DOMAIN r /\ IsPair(c) /\ files[r.out] = SecretKey(c)
  BY <1>1 DEF Pairing
<1>3. r.out \in Paths /\ PublicFile(r) \in Paths
  BY <1>1, <1>2, OutputsAssumption DEF Known, IsPair
<1>4. PublicFile(r) # r.out =>
        files'[r.out] = SecretKey(c) /\ files'[PublicFile(r)] = PublicKey(c)
  BY <1>1, <1>2, <1>3 DEF Paths
<1> QED BY <1>1, <1>4 DEF Meets, Compressors, Decompressors

-----------------------------------------------------------------------------
(***************************************************************************)
(* compress_tar: the files laid out so far.                                *)
(***************************************************************************)

(* A file stands in an archive from one place to another. *)
Stands(archive, path, was, start, end) ==
  /\ end = start + 1 + Len(was[path]) /\ end <= Len(archive)
  /\ archive[start + 1] = Entry(path.name, Len(was[path]))
  /\ \A j \in 1..Len(was[path]) : archive[start + 1 + j] = was[path][j]

LEMMA LaidOutIs ==
  ASSUME NEW archive, NEW order, NEW was, NEW k, NEW ends
  PROVE  LaidOut(archive, order, was, k, ends) <=>
           /\ ends[0] = 0
           /\ \A i \in 1..k : Stands(archive, order[i], was, ends[i - 1], ends[i])
  BY DEF LaidOut, Stands

LEMMA StandsIn ==
  ASSUME NEW archive, NEW more, NEW path, NEW was, NEW start \in Nat, NEW end \in Nat,
         Len(was[path]) \in Nat, Len(archive) \in Nat, Len(more) \in Nat,
         Len(archive) <= Len(more), \A i \in 1..Len(archive) : more[i] = archive[i],
         Stands(archive, path, was, start, end)
  PROVE  Stands(more, path, was, start, end)
<1> DEFINE n == Len(was[path])
           m == Len(archive)
<1>1. /\ end = start + 1 + n /\ end <= m
      /\ archive[start + 1] = Entry(path.name, n)
      /\ \A j \in 1..n : archive[start + 1 + j] = was[path][j]
  BY DEF Stands
<1>2. n \in Nat /\ m \in Nat
  OBVIOUS
<1>3. start + 1 \in 1..m /\ \A j \in 1..n : start + 1 + j \in 1..m
  <2> HIDE DEF n, m
  <2>1. end = start + 1 + n /\ end <= m
    BY <1>1
  <2> QED BY <1>2, <2>1
<1>4. end <= Len(more)
  <2>1. end <= m
    BY <1>1
  <2> QED BY <1>2, <2>1
<1>5. more[start + 1] = Entry(path.name, n)
  BY <1>1, <1>3
<1>6. \A j \in 1..n : more[start + 1 + j] = was[path][j]
  BY <1>1, <1>3
<1> QED BY <1>1, <1>4, <1>5, <1>6 DEF Stands

LEMMA LaidOutNext ==
  ASSUME NEW archive, NEW more, NEW order, NEW was, NEW n \in Nat, NEW k \in Nat, k < n,
         NEW ends \in [0..n -> Nat],
         \A i \in 1..n : Len(was[order[i]]) \in Nat,
         LaidOut(archive, order, was, k, ends), Len(archive) = ends[k],
         Len(more) \in Nat, \A i \in 1..Len(archive) : more[i] = archive[i],
         Stands(more, order[k + 1], was, ends[k], Len(more))
  PROVE  LaidOut(more, order, was, k + 1, [ends EXCEPT ![k + 1] = Len(more)])
<1> DEFINE new == [ends EXCEPT ![k + 1] = Len(more)]
<1>1. ends[0] = 0 /\ \A i \in 1..k : Stands(archive, order[i], was, ends[i - 1], ends[i])
  BY LaidOutIs
<1>2. \A i \in 0..k : new[i] = ends[i] /\ ends[i] \in Nat
  OBVIOUS
<1>3. new[k + 1] = Len(more) /\ new[0] = 0
  BY <1>1, <1>2
<1>4. Len(archive) \in Nat /\ Len(archive) <= Len(more)
  BY DEF Stands
<1>5. ASSUME NEW i \in 1..k PROVE Stands(more, order[i], was, new[i - 1], new[i])
  <2>1. i \in 1..n /\ i - 1 \in 0..k /\ i \in 0..k
    OBVIOUS
  <2>2. new[i - 1] = ends[i - 1] /\ new[i] = ends[i] /\ ends[i - 1] \in Nat /\ ends[i] \in Nat
    BY <1>2, <2>1
  <2>3. Len(was[order[i]]) \in Nat /\ Stands(archive, order[i], was, ends[i - 1], ends[i])
    BY <1>1, <2>1
  <2> QED BY <1>4, <2>2, <2>3, StandsIn
<1>6. Stands(more, order[k + 1], was, new[k], new[k + 1])
  BY <1>2, <1>3
<1> HIDE DEF new
<1>7. ASSUME NEW i \in 1..k + 1 PROVE Stands(more, order[i], was, new[i - 1], new[i])
  <2>1. i \in 1..k \/ (i = k + 1 /\ i - 1 = k)
    OBVIOUS
  <2> QED BY <1>5, <1>6, <2>1
<1>8. LaidOut(more, order, was, k + 1, new)
  BY <1>3, <1>7, LaidOutIs
<1> QED BY <1>8 DEF new

LEMMA OrderOfFiles ==
  ASSUME NEW was, IsFiniteSet(DOMAIN was), NEW dir, NEW skipped,
         NEW order \in Orders(dir, was, skipped)
  PROVE  /\ Len(order) \in Nat
         /\ \A i \in 1..Len(order) :
              order[i] \in DOMAIN was /\ order[i].dir = dir /\ was[order[i]] # NoFile
<1> DEFINE there == {p \in DOMAIN was \ skipped : p.dir = dir /\ was[p] # NoFile
                                          /\ ~Hidden(p.name) /\ ~Hidden(dir)}
<1>1. IsFiniteSet(there)
  BY FS_Subset
<1>2. order \in SetToSeqs(there)
  BY DEF Orders
<1>3. order \in Seq(there)
  <2> HIDE DEF there
  <2> QED BY <1>1, <1>2, OrderIsSeq
<1>4. \A i \in 1..Len(order) : order[i] \in there
  <2> HIDE DEF there
  <2> QED BY <1>3
<1> QED BY <1>3, <1>4

(* What compress_tar reads is as it was, and is not what it writes. *)
LEMMA FilesToArchive ==
  ASSUME NEW K, Known(K), NEW c \in Calls, Live(c), call[c].req.tool = "compress_tar",
         Intact(c), DOMAIN call[c].before = Paths
  PROVE  /\ IsFiniteSet(Paths)
         /\ Output(call[c].req) \in Paths
         /\ \A p \in Paths : p.dir = call[c].req.src =>
              p # Output(call[c].req) /\ files[p] = call[c].before[p]
<1> DEFINE r == call[c].req
<1>1. r \in Requests /\ ~Refused(r) /\ Careful(r)
  BY DEF Known, Held, Data, Careful
<1>2. Output(r) = r.out
  <2>1. "out" \in DOMAIN r
    BY <1>1, TransformsAssumption DEF Known
  <2> QED BY <1>1, <2>1, LinksAssumption DEF Output, OutputPath, FileOf
<1>3. ASSUME NEW p \in Paths, p.dir = r.src
      PROVE  p # Output(r) /\ files[p] = call[c].before[p]
  <2>1. p \in Sources(r)
    BY <1>3 DEF Sources
  <2>2. p # Output(r)
    BY <1>1, <1>2, <1>3 DEF Refused
  <2> QED BY <2>1, <2>2 DEF Intact, Kept, Unseen
<1>4. IsFiniteSet(Paths)
  BY TransformsAssumption DEF Known
<1>5. Output(r) \in Paths
  BY <1>1, OutputIsThere
<1> QED BY <1>3, <1>4, <1>5

LEMMA TarCollectGoesOn ==
  ASSUME IInv, NEW c \in Calls, TarCollect(c), Intact(c), Beginning(c), Archiving(c)
  PROVE  Archiving(c)'
<1> PICK K : Known(K)
  BY DEF IInv
<1> DEFINE dir == call[c].req.src
           was == call[c].before
<1>1. /\ Live(c) /\ call[c].req.tool = "compress_tar" /\ call[c].pc = "collect"
      /\ UNCHANGED files /\ DOMAIN was = Paths
  BY DEF TarCollect, At, Archiving
<1>2. PICK found \in SUBSET Visible(dir) : \E order \in SetToSeqs(found) :
        Moved(c, [pc |-> "create", rest |-> order, skipped |-> Visible(dir) \ found])
  BY DEF TarCollect
<1> PICK skipped : skipped = Visible(dir) \ found
  OBVIOUS
<1>3. PICK order \in SetToSeqs(found) :
        Moved(c, [pc |-> "create", rest |-> order, skipped |-> skipped])
  BY <1>2
<1>4. \A p \in Paths : p.dir = dir => files[p] = was[p]
  BY <1>1, FilesToArchive
<1>5. Visible(dir) = {p \in DOMAIN was : p.dir = dir /\ was[p] # NoFile
                                         /\ ~Hidden(p.name) /\ ~Hidden(dir)}
  BY <1>1, <1>4 DEF Visible
<1>6. found = {p \in DOMAIN was \ skipped : p.dir = dir /\ was[p] # NoFile
                                            /\ ~Hidden(p.name) /\ ~Hidden(dir)}
  <2> HIDE DEF dir, was
  <2> QED BY <1>5
<1>7. order \in Orders(dir, was, skipped)
  BY <1>3, <1>6 DEF Orders
<1>8. /\ call'[c].req = call[c].req /\ call'[c].before = was /\ call'[c].pc = "create"
      /\ call'[c].pos = call[c].pos /\ call'[c].text = call[c].text
      /\ call'[c].rest = order /\ call'[c].skipped = skipped
  <2>1. Live(c)
    BY <1>1
  <2> HIDE DEF was
  <2> QED BY <1>3, <2>1, MovedOn DEF was
<1>9. call[c].pos = 0 /\ call[c].text = <<>> /\ Paths' = Paths
  BY <1>1 DEF Beginning, Paths
<1> QED BY <1>1, <1>7, <1>8, <1>9 DEF Archiving

LEMMA TarCreateGoesOn ==
  ASSUME Absent, IInv, NEW c \in Calls, TarCreate(c), Intact(c), Archiving(c)
  PROVE  Archiving(c)'
<1> PICK K : Known(K)
  BY DEF IInv
<1> DEFINE r == call[c].req
           out == Output(r)
           was == call[c].before
           skipped == call[c].skipped
           order == call[c].rest
           ends == [i \in 0..Len(order) |-> 0]
<1>1. /\ Live(c) /\ r.tool = "compress_tar" /\ call[c].pc = "create"
      /\ Truncated(out) /\ Moved(c, [pc |-> "stat"])
      /\ DOMAIN was = Paths /\ call[c].pos = 0 /\ call[c].text = <<>>
      /\ order \in Orders(r.src, was, skipped)
  BY DEF TarCreate, At, Archiving
<1>2. IsFiniteSet(DOMAIN was) /\ out \in Paths
  BY <1>1, FilesToArchive
<1>3. Len(order) \in Nat
  BY <1>1, <1>2, OrderOfFiles
<1>4. files'[out] = <<>> /\ files'[out] # NoFile
  BY <1>1, <1>2, TruncatedNow
<1>5. Paths' = Paths
  BY <1>1 DEF Truncated, Paths
<1>6. /\ call'[c].req = r /\ call'[c].before = was /\ call'[c].pc = "stat"
      /\ call'[c].pos = 0 /\ call'[c].text = <<>> /\ call'[c].rest = order
      /\ call'[c].skipped = skipped
  BY <1>1, MovedOn
<1>7. ends \in [0..Len(order) -> Nat] /\ ends[0] = 0
  BY <1>3
<1>8. LaidOut(<<>>, order, was, 0, ends)
  BY <1>7, LaidOutIs
<1>9. FilledBy(call'[c], order, ends)
  <2> HIDE DEF order, ends, was
  <2>1. Len(order) - Len(order) = 0 /\ Len(<<>>) = 0 /\ \A i \in Nat : 0 + i = i
    BY <1>3
  <2>2. \A i \in 1..Len(order) : order[i] = order[0 + i]
    BY <1>3
  <2> QED BY <1>3, <1>6, <1>7, <1>8, <2>1, <2>2 DEF FilledBy
<1>10. \E o \in Orders(r.src, was, skipped) : \E e \in [0..Len(o) -> Nat] :
         FilledBy(call'[c], o, e)
  <2> HIDE DEF order, ends, was, skipped
  <2> QED BY <1>1, <1>7, <1>9
<1>11. Len(<<>>) = 0 /\ 1..0 = {}
  OBVIOUS
<1>12. Streamed(files'[out], r.codec, <<>>, 0)
  <2> HIDE DEF out, r
  <2> QED BY <1>4, <1>11 DEF Streamed
<1> HIDE DEF out, was, order, ends, r, skipped
<1> QED BY <1>1, <1>5, <1>6, <1>10, <1>12 DEF Archiving, out, r

LEMMA TarStatGoesOn ==
  ASSUME IInv, NEW c \in Calls, TarStat(c), Intact(c), Archiving(c)
  PROVE  Archiving(c)'
<1> PICK K : Known(K)
  BY DEF IInv
<1> DEFINE r == call[c].req
           was == call[c].before
           skipped == call[c].skipped
           path == Head(call[c].rest)
<1>1. /\ Live(c) /\ Held(K, call[c]) /\ r.tool = "compress_tar" /\ call[c].pc = "stat"
      /\ call[c].rest # <<>> /\ call[c].rest \in Seq(Paths) /\ UNCHANGED files
      /\ Moved(c, [pc |-> "append", at |-> Len(files[path])]) /\ DOMAIN was = Paths
      /\ Streamed(files[Output(r)], r.codec, call[c].text, call[c].pos)
  BY DEF TarStat, At, Archiving, Known, Held, Data
<1>2. PICK order \in Orders(r.src, was, skipped) : \E ends \in [0..Len(order) -> Nat] :
        FilledBy(call[c], order, ends)
  BY <1>1 DEF Archiving
<1>3. path \in Paths /\ path.dir = r.src
  <2>1. IsFiniteSet(DOMAIN was)
    BY <1>1, FilesToArchive
  <2>2. Len(order) \in Nat /\ \A i \in 1..Len(order) : order[i].dir = r.src
    BY <2>1, OrderOfFiles
  <2>3. /\ Len(call[c].rest) <= Len(order)
        /\ \A i \in 1..Len(call[c].rest) :
             call[c].rest[i] = order[Len(order) - Len(call[c].rest) + i]
    BY <1>2 DEF FilledBy
  <2>4. Len(call[c].rest) \in Nat \ {0} /\ path = call[c].rest[1] /\ path \in Paths
    BY <1>1
  <2>5. Len(order) - Len(call[c].rest) + 1 \in 1..Len(order) /\ 1 \in 1..Len(call[c].rest)
    BY <2>2, <2>3, <2>4
  <2>6. path = order[Len(order) - Len(call[c].rest) + 1]
    BY <2>3, <2>4, <2>5
  <2> QED BY <2>2, <2>4, <2>5, <2>6
<1>4. files[path] = was[path]
  BY <1>1, <1>3, FilesToArchive
<1>5. /\ call'[c].req = r /\ call'[c].before = was /\ call'[c].pc = "append"
      /\ call'[c].pos = call[c].pos /\ call'[c].text = call[c].text
      /\ call'[c].rest = call[c].rest /\ call'[c].skipped = skipped
      /\ call'[c].at = Len(was[path])
  BY <1>1, <1>4, MovedOn
<1>6. \E ends \in [0..Len(order) -> Nat] : FilledBy(call'[c], order, ends)
  BY <1>2, <1>5 DEF FilledBy
<1>7. Paths' = Paths
  BY <1>1 DEF Paths
<1> HIDE DEF r, was, skipped
<1> QED BY <1>1, <1>2, <1>5, <1>6, <1>7 DEF Archiving, r

(* A file followed by tokens. *)
Behind(put, file, tokens) ==
  /\ Len(put) = Len(file) + Len(tokens)
  /\ \A i \in 1..Len(file) : put[i] = file[i]
  /\ \A i \in 1..Len(tokens) : put[Len(file) + i] = tokens[i]

LEMMA PutBehind ==
  ASSUME NEW S, NEW file \in Seq(S), NEW T, NEW tokens \in Seq(T),
         NEW put, put = Put(file, Len(file), tokens)
  PROVE  put \in Seq(S \cup T) /\ Behind(put, file, tokens)
<1> DEFINE m == Len(file)
           n == Len(tokens)
<1>1. m \in Nat /\ n \in Nat
  OBVIOUS
<1>2. put = [i \in 1..m + n |-> IF m < i THEN tokens[i - m] ELSE file[i]]
  <2>1. put = [i \in 1..(IF m + n > m THEN m + n ELSE m) |->
                 IF m < i /\ i <= m + n THEN tokens[i - m]
                 ELSE IF i <= m THEN file[i] ELSE Zero]
    BY DEF Put
  <2>2. (IF m + n > m THEN m + n ELSE m) = m + n
    BY <1>1
  <2> HIDE DEF m, n
  <2> QED BY <1>1, <2>1, <2>2
<1>3. \A i \in 1..m : file[i] \in S
  OBVIOUS
<1>4. \A i \in 1..n : tokens[i] \in T
  OBVIOUS
<1> HIDE DEF m, n
<1>5. \A i \in 1..m + n : put[i] \in S \cup T
  <2> TAKE i \in 1..m + n
  <2>1. CASE m < i
    <3>1. i - m \in 1..n
      BY <1>1, <2>1
    <3> QED BY <1>2, <1>4, <2>1, <3>1
  <2>2. CASE ~(m < i)
    <3>1. i \in 1..m
      BY <1>1, <2>2
    <3> QED BY <1>2, <1>3, <2>2, <3>1
  <2> QED BY <2>1, <2>2
<1>6. put \in Seq(S \cup T) /\ Len(put) = m + n
  <2>1. PICK l \in Nat : l = m + n
    BY <1>1
  <2>2. put \in [1..l -> S \cup T]
    BY <1>2, <1>5, <2>1
  <2> QED BY <2>1, <2>2
<1>7. \A i \in 1..m : put[i] = file[i]
  BY <1>1, <1>2
<1>8. \A i \in 1..n : put[m + i] = tokens[i]
  <2> TAKE i \in 1..n
  <2>1. m + i \in 1..m + n /\ m < m + i /\ (m + i) - m = i
    BY <1>1
  <2> QED BY <1>2, <2>1
<1> QED BY <1>6, <1>7, <1>8 DEF Behind, m, n

(* A file is the beginning of something, so far. *)
Begun(file, whole, n) ==
  /\ file # NoFile /\ Len(file) = n
  /\ \A i \in 1..n : file[i] = whole[i]

(* What is written behind a beginning of something makes it longer. *)
LEMMA WrittenOn ==
  ASSUME Absent, NEW K, Known(K), NEW path \in Paths,
         NEW S, NEW whole \in Seq(S), NEW pos \in Nat, NEW n \in Nat,
         pos <= n, n <= Len(whole), Begun(files[path], whole, pos),
         Wrote(path, pos, SubSeq(whole, pos + 1, n))
  PROVE  /\ Begun(files'[path], whole, n) /\ Paths' = Paths
         /\ files'[path] \in Seq(K \cup S)
<1>0. /\ files[path] # NoFile /\ Len(files[path]) = pos
      /\ \A i \in 1..pos : files[path][i] = whole[i]
  BY DEF Begun
<1> USE <1>0
<1> DEFINE now == files[path]
           tokens == SubSeq(whole, pos + 1, n)
           put == files'[path]
<1>1. now \in Seq(K)
  BY DEF Known
<1>2. tokens \in Seq(S)
  <2>1. pos + 1 \in Nat \ {0}
    OBVIOUS
  <2> QED BY <2>1, PartOfSeq
<1>3. Len(tokens) = n - pos /\ \A i \in 1..n - pos : tokens[i] = whole[pos + i]
  <2>1. tokens = [i \in 1..n - pos |-> whole[pos + i]]
    OBVIOUS
  <2>2. n - pos \in Nat
    OBVIOUS
  <2> HIDE DEF tokens
  <2> QED BY <2>1, <2>2
<1>4. put = Put(now, Len(now), tokens) /\ Paths' = Paths
  BY DEF Wrote, Paths
<1>5. put \in Seq(K \cup S) /\ Behind(put, now, tokens)
  <2> HIDE DEF now, tokens, put
  <2> QED BY <1>1, <1>2, <1>4, PutBehind
<1>6. Len(put) = n
  <2> HIDE DEF now, tokens, put
  <2>1. Len(put) = pos + (n - pos)
    BY <1>3, <1>5 DEF Behind, now
  <2> QED BY <2>1
<1>7. ASSUME NEW i \in 1..n PROVE put[i] = whole[i]
  <2>1. CASE i \in 1..pos
    <3>1. put[i] = now[i]
      BY <1>5, <2>1 DEF Behind
    <3> QED BY <2>1, <3>1
  <2>2. CASE i \notin 1..pos
    <3>1. i - pos \in 1..n - pos /\ pos + (i - pos) = i
      BY <2>2
    <3>2. put[pos + (i - pos)] = tokens[i - pos]
      <4>1. Len(now) = pos /\ Len(tokens) = n - pos
        BY <1>3
      <4> HIDE DEF now, tokens, put
      <4> QED BY <1>5, <3>1, <4>1 DEF Behind
    <3>3. tokens[i - pos] = whole[pos + (i - pos)]
      <4> HIDE DEF tokens
      <4> QED BY <1>3, <3>1
    <3> HIDE DEF put, tokens
    <3> QED BY <3>1, <3>2, <3>3
  <2> QED BY <2>1, <2>2
<1>8. put # NoFile
  BY <1>5, SeqIsFile
<1> QED BY <1>4, <1>5, <1>6, <1>7, <1>8 DEF Begun

(* One archive continues another. *)
Continues(archive, text) ==
  /\ Len(text) <= Len(archive) /\ \A i \in 1..Len(text) : archive[i] = text[i]

LEMMA StreamOfPart ==
  ASSUME NEW codec, NEW text, NEW archive, Len(text) \in Nat, Len(archive) \in Nat,
         Continues(archive, text), NEW n \in Nat, n <= Len(text)
  PROVE  \A i \in 1..n : Stream(codec, archive)[i] = Stream(codec, text)[i]
<1>1. \A i \in 1..n : i \in 1..Len(text) /\ i \in 1..Len(archive)
  BY DEF Continues
<1>2. CASE codec = "none"
  BY <1>1, <1>2 DEF Stream, Continues
<1>3. CASE codec # "none"
  <2>1. \A i \in 1..n : /\ Stream(codec, archive)[i] = Squeezed(codec, archive[i])
                        /\ Stream(codec, text)[i] = Squeezed(codec, text[i])
    BY <1>1, <1>3 DEF Stream
  <2> QED BY <1>1, <2>1 DEF Continues
<1> QED BY <1>2, <1>3

LEMMA PassedOn ==
  ASSUME Absent, NEW K, Known(K), NEW c \in Calls, Output(call[c].req) \in Paths,
         NEW S, NEW text \in Seq(S), NEW archive \in Seq(S), Continues(archive, text),
         call[c].pos \in Nat,
         Streamed(files[Output(call[c].req)], call[c].req.codec, text, call[c].pos),
         NEW n \in Passing(c, archive), Passed(c, archive, n)
  PROVE  /\ Streamed(files'[Output(call[c].req)], call[c].req.codec, archive, n)
         /\ Paths' = Paths
         /\ \E T : files'[Output(call[c].req)] \in Seq(T)
<1> DEFINE out == Output(call[c].req)
           codec == call[c].req.codec
           pos == call[c].pos
           T == S \cup {Squeezed(codec, b) : b \in S}
           whole == Stream(codec, archive)
<1>1. whole \in Seq(T) /\ Len(whole) = Len(archive)
  BY StreamIs
<1>2. /\ files[out] # NoFile /\ Len(files[out]) = pos /\ pos <= Len(text)
      /\ \A i \in 1..pos : files[out][i] = Stream(codec, text)[i]
      /\ codec = "none" => pos = Len(text)
  BY DEF Streamed
<1>3. n \in Nat /\ pos <= n /\ n <= Len(archive) /\ (codec = "none" => n = Len(archive))
  <2>1. Len(text) \in Nat /\ Len(archive) \in Nat /\ Len(text) <= Len(archive)
    BY DEF Continues
  <2> QED BY <1>2, <2>1 DEF Passing
<1>4. \A i \in 1..pos : files[out][i] = whole[i]
  BY <1>2, StreamOfPart
<1>5. Wrote(out, pos, SubSeq(whole, pos + 1, n))
  BY DEF Passed
<1>6. /\ files'[out] # NoFile /\ Paths' = Paths
      /\ files'[out] \in Seq(K \cup T) /\ Len(files'[out]) = n
      /\ \A i \in 1..n : files'[out][i] = whole[i]
  <2>1. pos \in Nat /\ out \in Paths /\ files[out] # NoFile /\ Len(files[out]) = pos
    BY <1>2
  <2>2. whole \in Seq(T) /\ n \in Nat /\ pos <= n /\ n <= Len(whole)
    <3> HIDE DEF whole, T
    <3> QED BY <1>1, <1>3
  <2>3. Begun(files[out], whole, pos)
    <3> HIDE DEF out, pos, whole
    <3> QED BY <1>4, <2>1 DEF Begun
  <2>4. Begun(files'[out], whole, n) /\ Paths' = Paths /\ files'[out] \in Seq(K \cup T)
    <3> HIDE DEF out, pos, whole, T, codec
    <3> QED BY <1>5, <2>1, <2>2, <2>3, WrittenOn, Zenon
  <2> HIDE DEF out, pos, whole, T, codec
  <2> QED BY <2>4 DEF Begun
<1> QED BY <1>3, <1>6 DEF Streamed

(* An entry behind what is there stands behind it. *)
Grows(file, was, path, more) ==
  /\ Len(more) \in Nat
  /\ Continues(more, file)
  /\ Stands(more, path, was, Len(file), Len(more))

LEMMA EntryStands ==
  ASSUME NEW S, NEW file \in Seq(S), NEW was, NEW path, was[path] \in Seq(S),
         Entry(path.name, Len(was[path])) \in S
  PROVE  LET more == file \o <<Entry(path.name, Len(was[path]))>> \o was[path]
         IN more \in Seq(S) /\ Grows(file, was, path, more)
<1> DEFINE text == was[path]
           header == Entry(path.name, Len(text))
           more == file \o <<header>> \o text
<1>1. Len(file) \in Nat /\ Len(text) \in Nat /\ text \in Seq(S) /\ header \in S
  OBVIOUS
<1> HIDE DEF text, header
<1>2. /\ more \in Seq(S) /\ Len(more) = Len(file) + 1 + Len(text)
      /\ \A i \in 1..Len(file) : more[i] = file[i]
      /\ more[Len(file) + 1] = header
      /\ \A j \in 1..Len(text) : more[Len(file) + 1 + j] = text[j]
  <2> DEFINE front == file \o <<header>>
  <2>1. /\ front \in Seq(S) /\ Len(front) = Len(file) + 1
        /\ \A i \in 1..Len(file) : front[i] = file[i]
        /\ front[Len(file) + 1] = header
    BY <1>1
  <2>2. more = front \o text
    OBVIOUS
  <2> HIDE DEF front, more
  <2>3. /\ more \in Seq(S) /\ Len(more) = Len(front) + Len(text)
        /\ \A i \in 1..Len(front) : more[i] = front[i]
        /\ \A j \in 1..Len(text) : more[Len(front) + j] = text[j]
    <3>1. front \in Seq(S) /\ text \in Seq(S)
      BY <1>1, <2>1
    <3>2. /\ front \o text \in Seq(S) /\ Len(front \o text) = Len(front) + Len(text)
          /\ Len(front) \in Nat /\ Len(text) \in Nat
      BY <3>1
    <3>3. \A i \in 1..Len(front) : (front \o text)[i] = front[i]
      BY <3>1
    <3>4. ASSUME NEW j \in 1..Len(text) PROVE (front \o text)[Len(front) + j] = text[j]
      <4>1. /\ Len(front) + j \in 1..Len(front) + Len(text)
            /\ ~(Len(front) + j <= Len(front)) /\ (Len(front) + j) - Len(front) = j
        BY <3>2
      <4> QED BY <3>1, <3>2, <4>1
    <3> QED BY <2>2, <3>2, <3>3, <3>4
  <2>4. \A i \in 1..Len(file) : i \in 1..Len(front)
    BY <1>1, <2>1
  <2>5. Len(file) + 1 \in 1..Len(front)
    BY <1>1, <2>1
  <2> QED BY <1>1, <2>1, <2>3, <2>4, <2>5
<1> HIDE DEF more
<1>3. Len(more) \in Nat /\ Len(file) <= Len(more)
  BY <1>1, <1>2
<1>4. Stands(more, path, was, Len(file), Len(more))
  <2>1. Len(more) = Len(file) + 1 + Len(was[path]) /\ Len(more) <= Len(more)
    BY <1>2, <1>3 DEF text
  <2>2. more[Len(file) + 1] = Entry(path.name, Len(was[path]))
    BY <1>2 DEF header, text
  <2>3. \A j \in 1..Len(was[path]) : more[Len(file) + 1 + j] = was[path][j]
    BY <1>2 DEF text
  <2> QED BY <2>1, <2>2, <2>3, Zenon DEF Stands
<1> QED BY <1>2, <1>3, <1>4 DEF Grows, Continues, more, header, text

(* What is left of an order of n behind its first k, taken further by one. *)
Follows(order, n, k, rest) ==
  /\ k \in Nat /\ k < n /\ Head(rest) = order[k + 1]
  /\ n - Len(Tail(rest)) = k + 1 /\ Len(Tail(rest)) <= n
  /\ \A i \in 1..Len(Tail(rest)) : Tail(rest)[i] = order[k + 1 + i]

LEMMA RestOfOrder ==
  ASSUME NEW n \in Nat, NEW order, NEW S, NEW rest \in Seq(S), rest # <<>>, Len(rest) <= n,
         \A i \in 1..Len(rest) : rest[i] = order[n - Len(rest) + i],
         NEW k, k = n - Len(rest)
  PROVE  Follows(order, n, k, rest)
<1>1. Len(rest) \in Nat \ {0} /\ Head(rest) = rest[1]
  OBVIOUS
<1>2. /\ Tail(rest) \in Seq(S) /\ Len(Tail(rest)) = Len(rest) - 1
      /\ \A i \in 1..Len(Tail(rest)) : Tail(rest)[i] = rest[i + 1]
  OBVIOUS
<1>3. k \in Nat /\ k < n /\ n - Len(Tail(rest)) = k + 1 /\ Len(Tail(rest)) <= n
  BY <1>1, <1>2
<1>4. 1 \in 1..Len(rest)
  BY <1>1
<1>5. \A i \in 1..Len(Tail(rest)) : Tail(rest)[i] = order[k + 1 + i]
  <2> TAKE i \in 1..Len(Tail(rest))
  <2>1. i + 1 \in 1..Len(rest) /\ n - Len(rest) + (i + 1) = k + 1 + i
    BY <1>1, <1>2
  <2>2. rest[i + 1] = order[n - Len(rest) + (i + 1)]
    BY <2>1
  <2> QED BY <1>2, <2>1, <2>2
<1>6. Head(rest) = order[k + 1]
  BY <1>1, <1>4
<1> QED BY <1>3, <1>5, <1>6 DEF Follows

LEMMA TarAppendGoesOn ==
  ASSUME Absent, IInv, NEW c \in Calls, TarAppend(c), Intact(c), Archiving(c)
  PROVE  Archiving(c)'
<1> PICK K : Known(K)
  BY DEF IInv
<1> DEFINE r == call[c].req
           out == Output(r)
           was == call[c].before
           skipped == call[c].skipped
           text == call[c].text
           old == call[c].rest
           path == Head(old)
           header == Entry(path.name, Len(was[path]))
           more == text \o <<header>> \o was[path]
           M == K \cup {header}
<1>1. /\ Live(c) /\ Held(K, call[c]) /\ r.tool = "compress_tar" /\ call[c].pc = "append"
      /\ DOMAIN was = Paths /\ call[c].at = Len(was[path])
      /\ old # <<>> /\ old \in Seq(Paths) /\ files[path] \in Seq(K)
      /\ text \in Seq(K) /\ call[c].pos \in Nat
      /\ Streamed(files[out], r.codec, text, call[c].pos)
  BY DEF TarAppend, At, Archiving, Known, Held, Data, Reads
<1>2. /\ IsFiniteSet(DOMAIN was) /\ out \in Paths
      /\ \A p \in Paths : p.dir = r.src => files[p] = was[p]
  BY <1>1, FilesToArchive
<1>0. PICK order \in Orders(r.src, was, skipped) : \E ends \in [0..Len(order) -> Nat] :
        FilledBy(call[c], order, ends)
  BY <1>1 DEF Archiving
<1>3. PICK ends \in [0..Len(order) -> Nat] : FilledBy(call[c], order, ends)
  BY <1>0
<1>4. /\ Len(order) \in Nat
      /\ \A i \in 1..Len(order) :
           order[i] \in Paths /\ order[i].dir = r.src /\ was[order[i]] # NoFile
  BY <1>1, <1>2, OrderOfFiles
<1> DEFINE n == Len(order)
           k == n - Len(old)
<1>5. /\ Len(old) <= n /\ \A i \in 1..Len(old) : old[i] = order[k + i]
      /\ LaidOut(text, order, was, k, ends) /\ Len(text) = ends[k]
  BY <1>3 DEF FilledBy
<1>6. /\ k \in Nat /\ k < n /\ path = order[k + 1]
      /\ n - Len(Tail(old)) = k + 1 /\ Len(Tail(old)) <= n
      /\ \A i \in 1..Len(Tail(old)) : Tail(old)[i] = order[k + 1 + i]
  <2>1. n \in Nat /\ old \in Seq(Paths) /\ old # <<>> /\ Len(old) <= n /\ k = n - Len(old)
    BY <1>1, <1>4, <1>5
  <2>2. \A i \in 1..Len(old) : old[i] = order[n - Len(old) + i]
    BY <1>5
  <2>3. path = Head(old)
    OBVIOUS
  <2> HIDE DEF n, k, old, path
  <2>4. Follows(order, n, k, old)
    BY <2>1, <2>2, RestOfOrder
  <2> QED BY <2>3, <2>4 DEF Follows
<1>7. \A i \in 1..n : Len(was[order[i]]) \in Nat
  <2> TAKE i \in 1..n
  <2>1. /\ order[i] \in Paths /\ order[i].dir = r.src /\ was[order[i]] # NoFile
    BY <1>4
  <2>2. files[order[i]] = was[order[i]]
    BY <1>2, <2>1
  <2>3. was[order[i]] \in Seq(K)
    BY <2>1, <2>2 DEF Known
  <2> QED BY <2>3
<1>8. files[path] = was[path]
  <2>1. k + 1 \in 1..n
    BY <1>4, <1>6
  <2>2. path \in Paths /\ path.dir = r.src
    BY <1>4, <1>6, <2>1
  <2> QED BY <1>2, <2>2
<1>9. text \in Seq(M) /\ was[path] \in Seq(M) /\ header \in M
  <2>1. text \in Seq(K) /\ was[path] \in Seq(K)
    BY <1>1, <1>8
  <2> HIDE DEF text, was, path, header
  <2> QED BY <2>1, SeqOfMore
<1>10. more \in Seq(M) /\ Grows(text, was, path, more)
  <2> HIDE DEF text, was, path, M
  <2> QED BY <1>9, EntryStands DEF header
<1>11. PICK pos \in Passing(c, more) :
         /\ Passed(c, more, pos)
         /\ Moved(c, [pc |-> "stat", pos |-> pos, text |-> more, rest |-> Tail(old)])
  BY <1>1, <1>8 DEF TarAppend
<1>12. Streamed(files'[out], r.codec, more, pos) /\ Paths' = Paths
  <2>1. Continues(more, text)
    BY <1>10 DEF Grows
  <2>2. text \in Seq(M) /\ more \in Seq(M) /\ call[c].pos \in Nat /\ out \in Paths
    BY <1>1, <1>2, <1>9, <1>10
  <2>3. Streamed(files[out], r.codec, text, call[c].pos)
    BY <1>1
  <2> HIDE DEF text, more, M
  <2> QED BY <1>11, <2>1, <2>2, <2>3, PassedOn
<1> PICK rest : rest = Tail(old)
  OBVIOUS
<1>13. /\ call'[c].req = r /\ call'[c].before = was /\ call'[c].pc = "stat"
       /\ call'[c].pos = pos /\ call'[c].text = more /\ call'[c].rest = rest
       /\ call'[c].skipped = skipped
  <2> PICK archive : archive = more
    OBVIOUS
  <2>1. Live(c)
    BY <1>1
  <2>2. Moved(c, [pc |-> "stat", pos |-> pos, text |-> archive, rest |-> rest])
    BY <1>11
  <2> HIDE DEF r, was, more, skipped, text, old, path, header
  <2>3. /\ call'[c].req = call[c].req /\ call'[c].before = call[c].before
        /\ call'[c].pc = "stat" /\ call'[c].pos = pos /\ call'[c].text = archive
        /\ call'[c].rest = rest /\ call'[c].skipped = call[c].skipped
    BY <2>1, <2>2, MovedOn
  <2> QED BY <2>3 DEF r, was, skipped
<1> DEFINE new == [ends EXCEPT ![k + 1] = Len(more)]
<1>14. LaidOut(more, order, was, k + 1, new)
  <2>1. Stands(more, order[k + 1], was, ends[k], Len(more)) /\ Len(text) = ends[k]
    BY <1>5, <1>6, <1>10 DEF Grows
  <2>2. n \in Nat /\ k \in Nat /\ k < n /\ ends \in [0..n -> Nat] /\ Len(more) \in Nat
    BY <1>3, <1>4, <1>6, <1>10 DEF Grows
  <2>3. LaidOut(text, order, was, k, ends)
    BY <1>5
  <2>4. \A i \in 1..Len(text) : more[i] = text[i]
    BY <1>10 DEF Grows, Continues
  <2> HIDE DEF n, k, more, text, was
  <2> QED BY <1>7, <2>1, <2>2, <2>3, <2>4, LaidOutNext
<1>15. new \in [0..n -> Nat] /\ new[k + 1] = Len(more)
  <2>1. Len(more) \in Nat
    BY <1>10 DEF Grows
  <2>2. k \in Nat /\ k < n /\ n \in Nat /\ ends \in [0..n -> Nat]
    BY <1>3, <1>4, <1>6
  <2> HIDE DEF n, k, more
  <2>3. k + 1 \in 0..n
    BY <2>2
  <2> QED BY <2>1, <2>2, <2>3
<1>16. FilledBy(call'[c], order, new)
  <2>1. /\ n - Len(rest) = k + 1 /\ Len(rest) <= n
        /\ \A i \in 1..Len(rest) : rest[i] = order[k + 1 + i]
    BY <1>6
  <2> HIDE DEF k, more, was, new
  <2> QED BY <1>13, <1>14, <1>15, <2>1 DEF FilledBy
<1>17. \E o \in Orders(r.src, was, skipped) : \E e \in [0..Len(o) -> Nat] :
         FilledBy(call'[c], o, e)
  <2> HIDE DEF new, was, skipped
  <2> QED BY <1>15, <1>16
<1> HIDE DEF r, was, out, more, new, text, path, skipped
<1> QED BY <1>1, <1>12, <1>13, <1>17 DEF Archiving, r, out

LEMMA PrefixIs ==
  ASSUME NEW S, NEW s \in Seq(S), NEW T, NEW t \in Seq(T), Continues(t, s)
  PROVE  IsPrefix(s, t)
<1>1. /\ SubSeq(s, 1, Len(s)) = [i \in 1..Len(s) |-> s[i]]
      /\ SubSeq(t, 1, Len(s)) = [i \in 1..Len(s) |-> t[i]]
  BY DEF Continues
<1>2. SubSeq(s, 1, Len(s)) = SubSeq(t, 1, Len(s))
  BY <1>1 DEF Continues
<1> QED BY <1>2 DEF IsPrefix, Continues

(* The stream of an archive and its trailer. *)
LEMMA CompressedIs ==
  ASSUME NEW codec, codec # "none", NEW S, NEW archive \in Seq(S)
  PROVE  /\ \E T : Compressed(codec, archive) \in Seq(T)
         /\ Len(Compressed(codec, archive)) = Len(archive) + 1
         /\ Continues(Compressed(codec, archive), Stream(codec, archive))
<1> DEFINE T == S \cup {Squeezed(codec, b) : b \in S}
           stream == Stream(codec, archive)
           t == Trailer(codec, archive)
<1>1. stream \in Seq(T) /\ Len(stream) = Len(archive)
  BY StreamIs
<1>2. Compressed(codec, archive) = Append(stream, t)
  BY DEF Compressed, Stream
<1>3. Len(archive) \in Nat
  OBVIOUS
<1> HIDE DEF T, stream, t
<1>4. /\ Append(stream, t) \in Seq(T \cup {t}) /\ Len(Append(stream, t)) = Len(stream) + 1
      /\ \A i \in 1..Len(stream) : Append(stream, t)[i] = stream[i]
  BY <1>1, AppendIs
<1> QED BY <1>1, <1>2, <1>3, <1>4 DEF Continues, stream

(* The file when the archive is closed. *)
LEMMA ClosedIs ==
  ASSUME Absent, NEW K, Known(K), NEW c \in Calls, Output(call[c].req) \in Paths,
         call[c].text \in Seq(K), call[c].pos \in Nat, TarClosed(c),
         Streamed(files[Output(call[c].req)], call[c].req.codec, call[c].text, call[c].pos)
  PROVE  LET now == files'[Output(call[c].req)]
             archive == Append(call[c].text, EndMark)
             codec == call[c].req.codec
         IN IF codec = "none" THEN now = archive
            ELSE IsPrefix(now, Compressed(codec, archive))
<1> DEFINE out == Output(call[c].req)
           now == files'[out]
           text == call[c].text
           archive == Append(text, EndMark)
           codec == call[c].req.codec
           pos == call[c].pos
           S == K \cup {EndMark}
<1>1. /\ archive \in Seq(S) /\ text \in Seq(S) /\ Len(archive) = Len(text) + 1
      /\ Continues(archive, text)
  <2>1. text \in Seq(K) /\ Len(text) \in Nat
    OBVIOUS
  <2> HIDE DEF text
  <2> QED BY <2>1, AppendIs, SeqOfMore DEF Continues
<1>2. CASE \E n \in Passing(c, archive) : Passed(c, archive, n)
  <2>1. PICK n \in Passing(c, archive) : Passed(c, archive, n)
    BY <1>2
  <2>2. Streamed(now, codec, archive, n) /\ \E T : now \in Seq(T)
    <3>1. out \in Paths /\ pos \in Nat /\ Streamed(files[out], codec, text, pos)
      OBVIOUS
    <3> HIDE DEF archive, text, S
    <3> QED BY <1>1, <2>1, <3>1, PassedOn
  <2> PICK T : now \in Seq(T)
    BY <2>2
  <2> HIDE DEF now, archive, S, codec
  <2>3. CASE codec = "none"
    <3>1. /\ Len(now) = Len(archive)
          /\ \A i \in 1..Len(now) : now[i] = archive[i]
      BY <2>2, <2>3 DEF Streamed, Stream
    <3>2. now = archive
      BY <1>1, <3>1, SeqEqual
    <3> QED BY <2>3, <3>2 DEF now, archive, codec
  <2>4. CASE codec # "none"
    <3>1. /\ \E U : Compressed(codec, archive) \in Seq(U)
          /\ Len(Compressed(codec, archive)) = Len(archive) + 1
          /\ Continues(Compressed(codec, archive), Stream(codec, archive))
      BY <1>1, <2>4, CompressedIs
    <3>2. Len(Stream(codec, archive)) = Len(archive) /\ Len(archive) \in Nat
      <4>1. archive \in Seq(S)
        BY <1>1
      <4>2. Len(archive) \in Nat
        BY <4>1
      <4>3. Len(Stream(codec, archive)) = Len(archive)
        BY <4>1, StreamLength, Zenon
      <4> QED BY <4>2, <4>3
    <3>3. Len(now) \in Nat /\ Len(now) <= Len(archive)
          /\ \A i \in 1..Len(now) : now[i] = Stream(codec, archive)[i]
      BY <2>2 DEF Streamed
    <3>4. Continues(Compressed(codec, archive), now)
      <4>1. \A i \in 1..Len(now) : i \in 1..Len(archive)
        BY <3>2, <3>3
      <4>2. \A i \in 1..Len(now) : Compressed(codec, archive)[i] = Stream(codec, archive)[i]
        BY <3>1, <3>2, <4>1 DEF Continues
      <4>3. Len(now) <= Len(Compressed(codec, archive))
        BY <3>1, <3>2, <3>3
      <4> QED BY <3>3, <4>2, <4>3 DEF Continues
    <3>5. IsPrefix(now, Compressed(codec, archive))
      BY <3>1, <3>4, PrefixIs
    <3> QED BY <2>4, <3>5 DEF now, archive, codec
  <2> QED BY <2>3, <2>4
<1>3. CASE /\ codec = "gz"
           /\ Wrote(out, pos, SubSeq(Compressed("gz", archive), pos + 1,
                                     Len(Compressed("gz", archive))))
  <2> DEFINE whole == Compressed(codec, archive)
  <2>1. codec # "none" /\ Wrote(out, pos, SubSeq(whole, pos + 1, Len(whole)))
    BY <1>3
  <2>2. /\ \E U : whole \in Seq(U)
        /\ Len(whole) = Len(archive) + 1
        /\ Continues(whole, Stream(codec, archive))
    <3> HIDE DEF archive, codec, S
    <3> QED BY <1>1, <2>1, CompressedIs
  <2> PICK U : whole \in Seq(U)
    BY <2>2
  <2>3. /\ files[out] # NoFile /\ Len(files[out]) = pos /\ pos <= Len(text)
        /\ \A i \in 1..pos : files[out][i] = Stream(codec, text)[i]
    BY DEF Streamed
  <2>4. Len(Stream(codec, archive)) = Len(archive)
    <3> HIDE DEF archive, S
    <3> QED BY <1>1, StreamIs
  <2>5. Len(text) \in Nat /\ Len(archive) \in Nat /\ pos \in Nat /\ pos <= Len(archive)
    <3>1. Len(text) \in Nat /\ pos \in Nat /\ Len(archive) = Len(text) + 1
      BY <1>1
    <3> HIDE DEF text, archive, pos
    <3> QED BY <2>3, <3>1
  <2> HIDE DEF whole, archive, text, codec, S
  <2>6. \A i \in 1..pos : Stream(codec, archive)[i] = Stream(codec, text)[i]
    BY <1>1, <2>3, <2>5, StreamOfPart
  <2>7. \A i \in 1..pos : files[out][i] = whole[i]
    <3>1. \A i \in 1..pos : i \in 1..Len(archive)
      BY <2>5
    <3> QED BY <2>2, <2>3, <2>4, <2>6, <3>1 DEF Continues
  <2>8. now \in Seq(K \cup U) /\ Len(now) = Len(whole)
        /\ \A i \in 1..Len(whole) : now[i] = whole[i]
    <3>1. Len(whole) \in Nat /\ pos <= Len(whole)
      BY <2>2, <2>5
    <3> DEFINE n == Len(whole)
    <3>2. out \in Paths /\ pos \in Nat /\ n <= Len(whole) /\ n \in Nat /\ pos <= n
      BY <2>5, <3>1
    <3>3. Wrote(out, pos, SubSeq(whole, pos + 1, n))
      BY <2>1
    <3> HIDE DEF out, pos, n
    <3>4. files[out] # NoFile /\ Len(files[out]) = pos
      BY <2>3
    <3>5. Begun(files[out], whole, pos)
      BY <2>7, <3>4 DEF Begun
    <3>6. Begun(files'[out], whole, n) /\ files'[out] \in Seq(K \cup U)
      BY <3>2, <3>3, <3>5, WrittenOn, Zenon
    <3>7. now \in Seq(K \cup U) /\ Len(now) = n /\ \A i \in 1..n : now[i] = whole[i]
      BY <3>6 DEF Begun
    <3> QED BY <3>7 DEF n
  <2>9. now = whole
    BY <2>8, SeqEqual
  <2>10. Continues(whole, whole)
    BY DEF Continues
  <2>11. IsPrefix(now, whole)
    BY <2>9, <2>10, PrefixIs
  <2> QED BY <2>1, <2>11 DEF whole, archive, text, codec
<1> QED BY <1>2, <1>3 DEF TarClosed

LEMMA TarFinishes ==
  ASSUME Absent, IInv, NEW c \in Calls, TarFinish(c), Intact(c), Archiving(c)
  PROVE  Meets(c, call[c].before, files')
<1> PICK K : Known(K)
  BY DEF IInv
<1> DEFINE r == call[c].req
           out == Output(r)
           was == call[c].before
           skipped == call[c].skipped
           text == call[c].text
           more == Append(text, EndMark)
<1>1. /\ Live(c) /\ Held(K, call[c]) /\ r.tool = "compress_tar" /\ call[c].pc = "stat"
      /\ DOMAIN was = Paths /\ call[c].rest = <<>> /\ TarClosed(c)
      /\ text \in Seq(K) /\ call[c].pos \in Nat
      /\ Streamed(files[out], r.codec, text, call[c].pos)
  BY DEF TarFinish, At, Archiving, Known, Held, Data, Reads
<1>2. /\ IsFiniteSet(DOMAIN was) /\ out \in Paths
      /\ \A p \in Paths : p.dir = r.src => files[p] = was[p]
  BY <1>1, FilesToArchive
<1>0. PICK order \in Orders(r.src, was, skipped) : \E ends \in [0..Len(order) -> Nat] :
        FilledBy(call[c], order, ends)
  BY <1>1 DEF Archiving
<1>3. PICK ends \in [0..Len(order) -> Nat] : FilledBy(call[c], order, ends)
  BY <1>0
<1>4. /\ Len(order) \in Nat
      /\ \A i \in 1..Len(order) :
           order[i] \in Paths /\ order[i].dir = r.src /\ was[order[i]] # NoFile
  BY <1>1, <1>2, OrderOfFiles
<1> DEFINE n == Len(order)
<1>5. LaidOut(text, order, was, n, ends) /\ Len(text) = ends[n]
  <2>1. Len(call[c].rest) = 0 /\ n - 0 = n
    BY <1>1, <1>4
  <2> QED BY <1>3, <2>1 DEF FilledBy
<1>6. \A i \in 1..n : Len(was[order[i]]) \in Nat
  <2> TAKE i \in 1..n
  <2>1. order[i] \in Paths /\ order[i].dir = r.src /\ was[order[i]] # NoFile
    BY <1>4
  <2>2. files[order[i]] = was[order[i]]
    BY <1>2, <2>1
  <2>3. was[order[i]] \in Seq(K)
    BY <2>1, <2>2 DEF Known
  <2> QED BY <2>3
<1>7. /\ Len(text) \in Nat /\ Len(more) = Len(text) + 1
      /\ \A i \in 1..Len(text) : more[i] = text[i]
      /\ more[Len(text) + 1] = EndMark
  <2>1. text \in Seq(K)
    BY <1>1
  <2> HIDE DEF text
  <2> QED BY <2>1, AppendIs
<1>8. LaidOut(more, order, was, n, ends)
  <2>1. ends[0] = 0 /\ \A i \in 1..n : Stands(text, order[i], was, ends[i - 1], ends[i])
    BY <1>5, LaidOutIs
  <2>2. Len(text) \in Nat /\ Len(more) \in Nat /\ Len(text) <= Len(more)
    BY <1>7
  <2>3. ASSUME NEW i \in 1..n PROVE Stands(more, order[i], was, ends[i - 1], ends[i])
    <3>1. /\ ends[i - 1] \in Nat /\ ends[i] \in Nat /\ Len(was[order[i]]) \in Nat
          /\ Stands(text, order[i], was, ends[i - 1], ends[i])
      <4>1. i \in 1..n /\ i \in 0..n /\ i - 1 \in 0..n
        BY <1>4
      <4> QED BY <1>3, <1>6, <2>1, <4>1
    <3>2. \A j \in 1..Len(text) : more[j] = text[j]
      BY <1>7
    <3> HIDE DEF text, more, was
    <3> QED BY <2>2, <3>1, <3>2, StandsIn
  <2> HIDE DEF more, n, was
  <2> QED BY <2>1, <2>3, LaidOutIs
<1>9. ends \in [0..n -> 0..Len(more)]
  <2>1. ASSUME NEW i \in 0..n PROVE ends[i] \in 0..Len(more)
    <3>1. ends[i] \in Nat /\ Len(more) \in Nat
      BY <1>3, <1>7
    <3>2. CASE i = 0
      BY <1>8, <3>1, <3>2, LaidOutIs
    <3>3. CASE i # 0
      <4>1. i \in 1..n
        BY <1>4, <3>3
      <4>2. ends[i] <= Len(more)
        BY <1>8, <4>1 DEF LaidOut
      <4> QED BY <3>1, <4>2
    <3> QED BY <3>2, <3>3
  <2> QED BY <1>3, <2>1
<1>10. Len(more) = ends[n] + 1 /\ more[Len(more)] = EndMark
  BY <1>5, <1>7
<1>11. IsArchiveOf(more, r.src, was, skipped)
  <2> HIDE DEF more, was, skipped
  <2> QED BY <1>3, <1>8, <1>9, <1>10 DEF IsArchiveOf
<1>12. IF r.codec = "none" THEN files'[out] = more
       ELSE IsPrefix(files'[out], Compressed(r.codec, more))
  BY <1>1, <1>2, ClosedIs
<1> HIDE DEF more
<1> QED BY <1>1, <1>11, <1>12 DEF Meets, Compressors, Decompressors, more

-----------------------------------------------------------------------------
(***************************************************************************)
(* decompress_tar: the entries extracted so far.                           *)
(***************************************************************************)

LEMMA NextUnpacked ==
  ASSUME NEW K, WellMade(K), NEW archive \in Seq(K), WellFormed(archive),
         NEW at \in Nat, at < Len(archive),
         NEW header, header = archive[at + 1], IsEntry(header), header.size \in Nat,
         NEW end, end = at + 1 + header.size, end <= Len(archive),
         NEW disk, NEW r, UnpackedUpTo(disk, r, archive, at),
         NEW target, target = [dir |-> r.out, name |-> header.entry],
         NEW new, new = [disk EXCEPT ![target] = SubSeq(archive, at + 2, end)]
  PROVE  UnpackedUpTo(new, r, archive, end)
<1>1. at + 1 \in 1..Len(archive) /\ end \in Nat /\ at + 1 <= end /\ Len(archive) \in Nat
  OBVIOUS
<1>2. \A j \in at + 2..end : ~IsEntry(archive[j])
  <2>1. \A j \in (at + 1) + 1..(at + 1) + header.size : ~IsEntry(archive[j])
    BY <1>1 DEF WellFormed
  <2>2. (at + 1) + 1 = at + 2 /\ (at + 1) + header.size = end
    OBVIOUS
  <2> QED BY <2>1, <2>2
<1>3. \A i \in 1..end : IsEntry(archive[i]) => i \in 1..at \/ i = at + 1
  <2> TAKE i \in 1..end
  <2>1. i \in 1..at \/ i = at + 1 \/ i \in at + 2..end
    BY <1>1
  <2> QED BY <1>2, <2>1
<1>4. DOMAIN new = DOMAIN disk /\ end <= Len(archive)
  OBVIOUS
<1>5. ASSUME NEW i \in 1..end, IsEntry(archive[i])
      PROVE  i + archive[i].size <= end
  <2>1. CASE i \in 1..at
    <3>1. i + archive[i].size <= at
      BY <1>5, <2>1 DEF UnpackedUpTo
    <3>2. archive[i] \in K
      BY <1>1, <2>1
    <3>3. archive[i].size \in Nat
      BY <1>5, <3>2 DEF WellMade
    <3> QED BY <1>1, <2>1, <3>1, <3>3
  <2>2. CASE i = at + 1
    BY <1>1, <2>2
  <2> QED BY <1>3, <1>5, <2>1, <2>2
<1>6. ASSUME NEW i \in 1..end, IsLastOfName(archive, i), NEW there,
             there = [dir |-> r.out, name |-> archive[i].entry], there \in DOMAIN disk
      PROVE  new[there] = SubSeq(archive, i + 1, i + archive[i].size)
  <2>1. IsEntry(archive[i])
    BY <1>6 DEF IsLastOfName
  <2>2. CASE i \in 1..at
    <3>1. at + 1 \in i + 1..Len(archive)
      BY <1>1, <2>2
    <3>2. header.entry # archive[i].entry
      BY <1>6, <3>1 DEF IsLastOfName
    <3>3. target # there
      BY <1>6, <3>2
    <3>4. new[there] = disk[there]
      BY <1>6, <3>3
    <3>5. disk[there] = SubSeq(archive, i + 1, i + archive[i].size)
      BY <1>6, <2>2 DEF UnpackedUpTo
    <3> QED BY <3>4, <3>5
  <2>3. CASE i = at + 1
    <3>1. there = target
      BY <1>6, <2>3
    <3>2. new[there] = SubSeq(archive, at + 2, end)
      BY <1>6, <3>1
    <3>3. i + 1 = at + 2 /\ i + archive[i].size = end
      BY <2>3
    <3> QED BY <3>2, <3>3
  <2> QED BY <1>3, <1>6, <2>1, <2>2, <2>3
<1>7. \A i \in 1..end :
        LET there == [dir |-> r.out, name |-> archive[i].entry]
        IN (IsLastOfName(archive, i) /\ there \in DOMAIN new) =>
             new[there] = SubSeq(archive, i + 1, i + archive[i].size)
  BY <1>4, <1>6, Zenon
<1>8. \A i \in 1..end : IsEntry(archive[i]) => i + archive[i].size <= end
  BY <1>5, Zenon
<1> QED BY <1>4, <1>7, <1>8, Zenon DEF UnpackedUpTo

LEMMA UntarOpenGoesOn ==
  ASSUME IInv, NEW c \in Calls, UntarOpen(c), Beginning(c), Unpacking(c)
  PROVE  Unpacking(c)'
<1> PICK K : Known(K)
  BY DEF IInv
<1> DEFINE r == call[c].req
           file == call[c].before[r.src]
           archive == Decoded(CodecOf(file), file)
<1>1. /\ Live(c) /\ Held(K, call[c]) /\ r.tool = "decompress_tar" /\ call[c].pc = "open"
      /\ UNCHANGED files /\ files[r.src] # NoFile
      /\ Moved(c, [pc |-> "entry", codec |-> CodecOf(files[r.src])])
  BY DEF UntarOpen, At, Known
<1>2. files[r.src] = file /\ call[c].at = 0
  BY <1>1 DEF Unpacking, Beginning
<1>3. /\ call'[c].req = r /\ call'[c].before = call[c].before /\ call'[c].pc = "entry"
      /\ call'[c].at = 0 /\ call'[c].codec = CodecOf(file)
  <2> PICK codec : codec = CodecOf(files[r.src])
    OBVIOUS
  <2>1. Moved(c, [pc |-> "entry", codec |-> codec]) /\ Live(c)
    BY <1>1
  <2> HIDE DEF file, r
  <2> QED BY <1>2, <2>1, MovedOn DEF r
<1>4. archive \in Seq(K)
  <2>1. r.src \in Paths
    BY <1>1, TransformsAssumption DEF Held, Data, Known
  <2>2. file \in Seq(K) /\ WellMade(K)
    BY <1>1, <1>2, <2>1 DEF Known
  <2> HIDE DEF file
  <2> QED BY <2>2, DecodedIs
<1>5. 0 <= Len(archive) /\ 1..0 = {}
  <2> HIDE DEF archive
  <2> QED BY <1>4
<1> HIDE DEF archive, file, r
<1>6. UnpackedUpTo(files, r, archive, 0)
  BY <1>5 DEF UnpackedUpTo
<1>7. files'[r.src] = file
  BY <1>1, <1>2
<1> QED BY <1>1, <1>3, <1>6, <1>7 DEF Unpacking, archive, file, r

LEMMA UntarEntryGoesOn ==
  ASSUME IInv, NEW c \in Calls, UntarEntry(c), Unpacking(c)
  PROVE  Unpacking(c)'
<1> PICK K : Known(K)
  BY DEF IInv
<1> DEFINE r == call[c].req
           file == call[c].before[r.src]
           archive == Decoded(CodecOf(file), file)
           at == call[c].at
<1>1. /\ Live(c) /\ Held(K, call[c]) /\ r.tool = "decompress_tar" /\ call[c].pc = "entry"
      /\ Archive(c) \in Seq(K) /\ at \in Nat
      /\ at < Len(Archive(c)) /\ IsEntry(Archive(c)[at + 1])
      /\ Archive(c)[at + 1].size \in Nat
  BY UntarAt DEF UntarEntry, At
<1>2. PICK end, n : /\ Moved(c, [at |-> end, pos |-> n])
                    /\ end = at + 1 + Archive(c)[at + 1].size /\ end <= Len(Archive(c))
                    /\ files' = [files EXCEPT ![Target(c, Archive(c)[at + 1].entry)] =
                                   SubSeq(Archive(c), at + 2, end)]
  BY DEF UntarEntry
<1>3. /\ call'[c].req = r /\ call'[c].before = call[c].before /\ call'[c].pc = "entry"
      /\ call'[c].at = end /\ call'[c].codec = call[c].codec
  <2>1. Live(c) /\ call[c].pc = "entry" /\ Moved(c, [at |-> end, pos |-> n])
    BY <1>1, <1>2
  <2> HIDE DEF r
  <2> QED BY <2>1, MovedOn DEF r
<1> SUFFICES ASSUME WellFormed(archive), ~NamesItself(c, archive)
             PROVE  /\ files'[r.src] = file /\ call[c].codec = CodecOf(file)
                    /\ UnpackedUpTo(files', r, archive, end)
  <2>1. \A a : NamesItself(c, a)' <=> NamesItself(c, a)
    BY <1>3 DEF NamesItself, Target
  <2>2. (WellFormed(archive) /\ ~NamesItself(c, archive)) =>
          /\ files'[r.src] = file /\ call[c].codec = CodecOf(file)
          /\ UnpackedUpTo(files', r, archive, end)
    OBVIOUS
  <2> HIDE DEF r
  <2> QED BY <1>3, <2>1, <2>2 DEF Unpacking, r
<1>4. /\ UnpackedUpTo(files, r, archive, at)
      /\ files[r.src] = file /\ call[c].codec = CodecOf(file)
  BY <1>1 DEF Unpacking
<1>5. Archive(c) = archive
  BY <1>4 DEF Archive
<1> DEFINE header == archive[at + 1]
           target == [dir |-> r.out, name |-> header.entry]
<1>6. /\ archive \in Seq(K) /\ at \in Nat /\ at < Len(archive)
      /\ IsEntry(header) /\ header.size \in Nat
      /\ end = at + 1 + header.size /\ end <= Len(archive)
      /\ files' = [files EXCEPT ![target] = SubSeq(archive, at + 2, end)]
  <2>1. /\ files' = [files EXCEPT ![Target(c, header.entry)] = SubSeq(archive, at + 2, end)]
        /\ end = at + 1 + header.size /\ end <= Len(archive)
    BY <1>2, <1>5, Zenon
  <2>2. /\ archive \in Seq(K) /\ at < Len(archive) /\ IsEntry(header) /\ header.size \in Nat
    BY <1>1, <1>5, Zenon
  <2>3. Target(c, header.entry) = target
    BY DEF Target
  <2>4. at \in Nat
    BY <1>1
  <2> HIDE DEF header, target, archive, at
  <2> QED BY <2>1, <2>2, <2>3, <2>4, Zenon
<1>7. target # r.src
  <2>1. at + 1 \in 1..Len(archive)
    <3>1. archive \in Seq(K) /\ at \in Nat /\ at < Len(archive)
      BY <1>6, Zenon
    <3> HIDE DEF header, target, archive, at
    <3> QED BY <3>1
  <2> QED BY <1>6, <2>1 DEF NamesItself, Target
<1>8. WellMade(K) /\ header = archive[at + 1]
  BY DEF Known
<1>9. target = [dir |-> r.out, name |-> header.entry]
  OBVIOUS
<1>10. files'[r.src] = file
  <2> HIDE DEF archive, at, header, target, file, r
  <2> QED BY <1>4, <1>6, <1>7
<1> HIDE DEF archive, at, header, target, file, r
<1>11. UnpackedUpTo(files', r, archive, end)
  BY <1>4, <1>6, <1>8, <1>9, NextUnpacked
<1> QED BY <1>4, <1>10, <1>11

LEMMA UntarFinishes ==
  ASSUME IInv, NEW c \in Calls, UntarFinish(c), Unpacking(c)
  PROVE  Meets(c, call[c].before, files')
<1> PICK K : Known(K)
  BY DEF IInv
<1> DEFINE r == call[c].req
           file == call[c].before[r.src]
           archive == Decoded(CodecOf(file), file)
           at == call[c].at
<1>0. At(c, {"decompress_tar"}, "entry") /\ UNCHANGED files
  BY DEF UntarFinish
<1>1. /\ Live(c) /\ Held(K, call[c]) /\ r.tool = "decompress_tar" /\ call[c].pc = "entry"
      /\ UNCHANGED files /\ at \in Nat /\ Archive(c) \in Seq(K)
  BY <1>0, DecodedIs DEF At, Known, Held, Data, Reads, Archive
<1> SUFFICES ASSUME WellFormed(archive), ~NamesItself(c, archive)
             PROVE  \A i \in 1..Len(archive) :
                      LET target == Target(c, archive[i].entry)
                      IN (IsLastOfName(archive, i) /\ target \in DOMAIN files') =>
                           files'[target] = SubSeq(archive, i + 1, i + archive[i].size)
  BY <1>1 DEF Meets, Compressors, Decompressors
<1>2. /\ UnpackedUpTo(files, r, archive, at)
      /\ files[r.src] = file /\ call[c].codec = CodecOf(file)
  BY <1>1 DEF Unpacking
<1>3. Archive(c) = archive
  BY <1>2 DEF Archive
<1>4. at <= Len(archive) /\ Len(archive) \in Nat /\ at \in Nat
  <2>1. archive \in Seq(K)
    BY <1>1, <1>3
  <2>2. at <= Len(archive)
    BY <1>2 DEF UnpackedUpTo
  <2> QED BY <1>1, <2>1, <2>2
<1>5. at < Len(archive) => archive[at + 1] = EndMark
  BY <1>3 DEF UntarFinish
<1>6. ASSUME NEW i \in 1..Len(archive), IsEntry(archive[i]) PROVE i \in 1..at
  <2> HIDE DEF archive, at
  <2>1. CASE at = Len(archive)
    BY <2>1
  <2>2. CASE at < Len(archive)
    <3>1. archive[at + 1] = EndMark /\ at + 1 \in 1..Len(archive)
      BY <1>4, <1>5, <2>2
    <3>2. \A j \in at + 1..Len(archive) : ~IsEntry(archive[j])
      BY <3>1 DEF WellFormed
    <3>3. i \in 1..at \/ i \in at + 1..Len(archive)
      BY <1>4
    <3> QED BY <1>6, <3>2, <3>3
  <2> QED BY <1>4, <2>1, <2>2
<1>7. ASSUME NEW i \in 1..Len(archive), IsLastOfName(archive, i),
             Target(c, archive[i].entry) \in DOMAIN files
      PROVE  files[Target(c, archive[i].entry)] = SubSeq(archive, i + 1, i + archive[i].size)
  <2>1. i \in 1..at
    BY <1>6, <1>7 DEF IsLastOfName
  <2> QED BY <1>2, <1>7, <2>1 DEF UnpackedUpTo, Target
<1> HIDE DEF archive, at
<1> QED BY <1>1, <1>7


-----------------------------------------------------------------------------
(***************************************************************************)
(* All tools together.                                                     *)
(***************************************************************************)

Work(c) ==
  LET tool == call[c].req.tool
  IN /\ Beginning(c)
     /\ tool \in Compressors => Compressing(c)
     /\ tool \in Decompressors => Decompressing(c)
     /\ tool = "encrypt_file" => Encrypting(c)
     /\ tool = "decrypt_file" => Decrypting(c)
     /\ tool = "generate_key" => Pairing(c)
     /\ tool = "compress_tar" => Archiving(c)
     /\ tool = "decompress_tar" => Unpacking(c)

(* A step that leaves a call where it is, or drops its handler, and its    *)
(* files alone.                                                            *)
Waits(c) ==
  LET x == call[c]
      y == call'[c]
  IN /\ y.req = x.req /\ y.pc \in {x.pc, "dropped", "late"}
     /\ y.at = x.at /\ y.pos = x.pos /\ y.handed = x.handed
     /\ y.text = x.text /\ y.rest = x.rest /\ y.before = x.before
     /\ y.codec = x.codec /\ y.skipped = x.skipped
     /\ "lock" \in DOMAIN x => "lock" \in DOMAIN y /\ y.lock = x.lock
     /\ Paths' = Paths
     /\ \A p \in Concern(x.req) : files'[p] = files[p]

LEMMA ItsFiles ==
  ASSUME NEW r
  PROVE  /\ r.tool \notin {"decompress_tar", "generate_key"} => Output(r) \in Concern(r)
         /\ r.tool \notin {"compress_tar", "generate_key"} => r.src \in Concern(r)
         /\ (r.tool = "generate_key" /\ "out" \in DOMAIN r) => r.out \in Concern(r)
         /\ r.tool = "decompress_tar" =>
              \A p \in Paths : p.dir = r.out => p \in Concern(r)
<1>1. r.tool \notin {"decompress_tar", "generate_key"} => Output(r) \in Outputs(r)
  BY DEF Outputs
<1>2. r.tool \notin {"compress_tar", "generate_key"} => r.src \in Sources(r)
  BY DEF Sources
<1>3. (r.tool = "generate_key" /\ "out" \in DOMAIN r) => r.out \in Outputs(r)
  BY DEF Outputs
<1>4. r.tool = "decompress_tar" => \A p \in Paths : p.dir = r.out => p \in Outputs(r)
  BY DEF Outputs
<1> QED BY <1>1, <1>2, <1>3, <1>4 DEF Concern

LEMMA WaitingKeepsWork ==
  ASSUME NEW K, Known(K), NEW c \in Calls, Live(c), Waits(c), Work(c)
  PROVE  Work(c)'
<1> DEFINE x == call[c]
           y == call'[c]
           r == x.req
<1>1. /\ y.req = r /\ y.pc \in {x.pc, "dropped", "late"}
      /\ y.at = x.at /\ y.pos = x.pos /\ y.handed = x.handed
      /\ y.text = x.text /\ y.rest = x.rest /\ y.before = x.before
      /\ y.codec = x.codec /\ y.skipped = x.skipped
      /\ "lock" \in DOMAIN x => "lock" \in DOMAIN y /\ y.lock = x.lock
      /\ Paths' = Paths
  BY DEF Waits
<1>2. /\ r.tool \notin {"decompress_tar", "generate_key"} => files'[Output(r)] = files[Output(r)]
      /\ r.tool \notin {"compress_tar", "generate_key"} => files'[r.src] = files[r.src]
      /\ (r.tool = "generate_key" /\ "out" \in DOMAIN r) => files'[r.out] = files[r.out]
      /\ r.tool = "decompress_tar" =>
           \A p \in Paths : p.dir = r.out => files'[p] = files[p]
  BY ItsFiles DEF Waits
<1>3. Beginning(c)'
  BY <1>1 DEF Work, Beginning
<1>4. ASSUME r.tool \in Compressors PROVE Compressing(c)'
  <2>1. files'[Output(r)] = files[Output(r)] /\ Compressing(c)
    BY <1>2, <1>4 DEF Compressors, Work
  <2> QED BY <1>1, <2>1 DEF Compressing
<1>5. ASSUME r.tool \in Decompressors PROVE Decompressing(c)'
  <2>1. files'[Output(r)] = files[Output(r)] /\ Decompressing(c)
    BY <1>2, <1>5 DEF Decompressors, Work
  <2> QED BY <1>1, <2>1 DEF Decompressing
<1>6. ASSUME r.tool = "encrypt_file" PROVE Encrypting(c)'
  <2>1. files'[Output(r)] = files[Output(r)] /\ Encrypting(c)
    BY <1>2, <1>6 DEF Work
  <2> QED BY <1>1, <2>1 DEF Encrypting
<1>7. ASSUME r.tool = "decrypt_file" PROVE Decrypting(c)'
  <2>1. files'[Output(r)] = files[Output(r)] /\ Decrypting(c)
    BY <1>2, <1>7 DEF Work
  <2>2. x.pc \in {"write", "fill"} => "lock" \in DOMAIN x
    BY <1>7 DEF Known, Held, Unseals
  <2> QED BY <1>1, <2>1, <2>2 DEF Decrypting
<1>8. ASSUME r.tool = "generate_key" PROVE Pairing(c)'
  <2>1. Pairing(c)
    BY <1>8 DEF Work
  <2> QED BY <1>1, <1>2, <1>8, <2>1 DEF Pairing, IsPair, SecretKey
<1>9. ASSUME r.tool = "compress_tar" PROVE Archiving(c)'
  <2>1. files'[Output(r)] = files[Output(r)] /\ Archiving(c)
    BY <1>2, <1>9 DEF Work
  <2>2. \A order, ends : FilledBy(y, order, ends) <=> FilledBy(x, order, ends)
    BY <1>1 DEF FilledBy
  <2> QED BY <1>1, <2>1, <2>2 DEF Archiving
<1>10. ASSUME r.tool = "decompress_tar" PROVE Unpacking(c)'
  <2>1. Unpacking(c) /\ files'[r.src] = files[r.src]
    BY <1>2, <1>10 DEF Work
  <2>2. \A archive : NamesItself(c, archive)' <=> NamesItself(c, archive)
    BY <1>1 DEF NamesItself, Target
  <2>3. ASSUME NEW archive, NEW at, UnpackedUpTo(files, r, archive, at)
        PROVE  UnpackedUpTo(files', r, archive, at)
    <3>1. ASSUME NEW target \in DOMAIN files', target.dir = r.out
          PROVE  target \in DOMAIN files /\ files'[target] = files[target]
      BY <1>1, <1>2, <1>10, <3>1 DEF Paths
    <3> QED BY <2>1, <2>3, <3>1 DEF UnpackedUpTo
  <2> QED BY <1>1, <2>1, <2>2, <2>3 DEF Unpacking
<1> HIDE DEF x, y, r
<1>11. y.req = x.req
  BY <1>1 DEF r
<1> QED BY <1>3, <1>4, <1>5, <1>6, <1>7, <1>8, <1>9, <1>10, <1>11 DEF Work, x, y, r

(* Every step of a call takes it beyond its first stage, unless the timer  *)
(* is all there is to it.                                                  *)
Stage1 == {"open", "read", "collect", "secret"}

LEMMA MovedBeyond ==
  ASSUME NEW K, Known(K), NEW c \in Calls, Live(c), NEW fields, Moved(c, fields),
         IF "pc" \in DOMAIN fields THEN fields.pc \notin Stage1 ELSE call[c].pc \notin Stage1
  PROVE  Beginning(c)'
<1>1. call'[c].pc \notin Stage1
  BY MovedOn
<1> QED BY <1>1 DEF Beginning, Stage1

LEMMA CodecBeyond ==
  ASSUME NEW K, Known(K), NEW c \in Calls, Beginning(c), Live(c)',
         \/ CompressOpen(c) \/ CompressCopy(c) \/ DecompressOpen(c) \/ DecompressCreate(c)
         \/ DecompressCopy(c) \/ Hand(c) \/ Land(c)
  PROVE  Beginning(c)'
<1>1. Live(c)
  BY DEF CompressOpen, CompressCopy, DecompressOpen, DecompressCreate, DecompressCopy,
     Hand, Land, At
<1>2. CASE CompressOpen(c) \/ DecompressOpen(c) \/ DecompressCreate(c)
  BY <1>1, <1>2, MovedBeyond DEF CompressOpen, DecompressOpen, DecompressCreate, Stage1
<1>3. CASE CompressCopy(c)
  <2>1. PICK at, pos, text : Moved(c, [at |-> at, pos |-> pos, text |-> text])
    BY <1>3 DEF CompressCopy
  <2>2. call[c].pc \notin Stage1
    BY <1>3 DEF CompressCopy, At, Stage1
  <2> QED BY <1>1, <2>1, <2>2, MovedBeyond
<1>4. CASE DecompressCopy(c)
  <2>1. PICK at, text : Moved(c, [at |-> at, text |-> text])
    BY <1>4 DEF DecompressCopy
  <2>2. call[c].pc \notin Stage1
    BY <1>4 DEF DecompressCopy, At, Stage1
  <2> QED BY <1>1, <2>1, <2>2, MovedBeyond
<1>5. CASE Hand(c)
  <2>1. call[c].pc \notin Stage1
    BY <1>5 DEF Hand, At, Stage1
  <2> QED BY <1>1, <1>5, <2>1, MovedBeyond DEF Hand
<1>6. CASE Land(c)
  <2>1. call[c].pc \notin Stage1
    BY <1>6 DEF Land, Beginning, Stage1
  <2> QED BY <1>1, <1>6, <2>1, MovedBeyond DEF Land
<1> QED BY <1>2, <1>3, <1>4, <1>5, <1>6

LEMMA CipherBeyond ==
  ASSUME NEW K, Known(K), NEW c \in Calls, Live(c)',
         \/ EncryptRead(c) \/ EncryptCreate(c) \/ EncryptHeader(c)
         \/ DecryptRead(c) \/ DecryptUnseal(c) \/ DecryptCreate(c) \/ KeygenSecret(c)
  PROVE  Beginning(c)'
<1>1. Live(c)
  BY DEF EncryptRead, EncryptCreate, EncryptHeader, DecryptRead, DecryptUnseal,
     DecryptCreate, KeygenSecret, At
<1>2. CASE EncryptRead(c) \/ DecryptRead(c)
  <2>1. PICK pc \in {"create", "unseal"} :
          \E text, lock : Moved(c, [pc |-> pc, text |-> text, lock |-> lock])
    BY <1>2 DEF EncryptRead, DecryptRead
  <2>2. PICK text, lock : Moved(c, [pc |-> pc, text |-> text, lock |-> lock])
    BY <2>1
  <2> QED BY <1>1, <2>2, MovedBeyond DEF Stage1
<1>3. CASE EncryptCreate(c) \/ EncryptHeader(c) \/ DecryptCreate(c)
  BY <1>1, <1>3, MovedBeyond DEF EncryptCreate, EncryptHeader, DecryptCreate, Stage1
<1>4. CASE DecryptUnseal(c)
  <2>1. PICK text : Moved(c, [pc |-> "write", text |-> text])
    BY <1>4 DEF DecryptUnseal
  <2> QED BY <1>1, <2>1, MovedBeyond DEF Stage1
<1>5. CASE KeygenSecret(c)
  <2>1. ~Ended(c, "ok")
    BY EndedIs DEF Live, Known
  <2> QED BY <1>1, <1>5, <2>1, MovedBeyond DEF KeygenSecret, Stage1
<1> QED BY <1>2, <1>3, <1>4, <1>5

LEMMA TarBeyond ==
  ASSUME NEW K, Known(K), NEW c \in Calls,
         \/ TarCollect(c) \/ TarCreate(c) \/ TarStat(c) \/ TarAppend(c)
         \/ UntarOpen(c) \/ UntarEntry(c)
  PROVE  Beginning(c)'
<1>1. Live(c)
  BY DEF TarCollect, TarCreate, TarStat, TarAppend, UntarOpen, UntarEntry, At
<1>2. CASE TarCollect(c)
  <2>1. PICK order, skipped :
          Moved(c, [pc |-> "create", rest |-> order, skipped |-> skipped])
    BY <1>2 DEF TarCollect
  <2> QED BY <1>1, <2>1, MovedBeyond DEF Stage1
<1>3. CASE TarCreate(c)
  BY <1>1, <1>3, MovedBeyond DEF TarCreate, Stage1
<1>7. CASE UntarOpen(c)
  <2>1. PICK codec : Moved(c, [pc |-> "entry", codec |-> codec])
    BY <1>7 DEF UntarOpen
  <2> QED BY <1>1, <2>1, MovedBeyond DEF Stage1
<1>4. CASE TarStat(c)
  <2>1. PICK at : Moved(c, [pc |-> "append", at |-> at])
    BY <1>4 DEF TarStat
  <2> QED BY <1>1, <2>1, MovedBeyond DEF Stage1
<1>5. CASE TarAppend(c)
  <2>1. PICK pos, text, rest :
          Moved(c, [pc |-> "stat", pos |-> pos, text |-> text, rest |-> rest])
    BY <1>5 DEF TarAppend
  <2> QED BY <1>1, <2>1, MovedBeyond DEF Stage1
<1>6. CASE UntarEntry(c)
  <2>1. PICK at, pos : Moved(c, [at |-> at, pos |-> pos])
    BY <1>6 DEF UntarEntry
  <2>2. call[c].pc \notin Stage1
    BY <1>6 DEF UntarEntry, At, Stage1
  <2> QED BY <1>1, <2>1, <2>2, MovedBeyond
<1> QED BY <1>2, <1>3, <1>4, <1>5, <1>6, <1>7

(* The steps of the timer, and of a decompression that fails. *)
LEMMA DroppedWaits ==
  ASSUME NEW K, Known(K), NEW c \in Calls, Live(c), Live(c)', UNCHANGED files,
         \/ \E answer : Moved(c, [ans |-> answer])
         \/ \E answer : Moved(c, [pc |-> "late", ans |-> answer])
         \/ \E answer : Dropped(c, answer) \/ Ended(c, answer)
  PROVE  Waits(c)
<1>1. ~\E answer : Ended(c, answer)
  BY EndedIs DEF Live, Known
<1>2. CASE \E answer : Moved(c, [ans |-> answer])
  <2>1. PICK answer : Moved(c, [ans |-> answer])
    BY <1>2
  <2>2. Paths' = Paths
    BY DEF Paths
  <2> QED BY <2>1, <2>2, MovedOn DEF Waits
<1>3. CASE \E answer : Moved(c, [pc |-> "dropped", ans |-> answer])
  <2>1. PICK answer : Moved(c, [pc |-> "dropped", ans |-> answer])
    BY <1>3
  <2>2. Paths' = Paths
    BY DEF Paths
  <2> QED BY <2>1, <2>2, MovedOn DEF Waits
<1>4. CASE \E answer : Moved(c, [pc |-> "late", ans |-> answer])
  <2>1. PICK answer : Moved(c, [pc |-> "late", ans |-> answer])
    BY <1>4
  <2>2. Paths' = Paths
    BY DEF Paths
  <2> QED BY <2>1, <2>2, MovedOn DEF Waits
<1> QED BY <1>1, <1>2, <1>3, <1>4 DEF Dropped

LEMMA TimeoutGoesOn ==
  ASSUME NEW K, Known(K), NEW c \in Calls, Timeout(c), Live(c)', Work(c)
  PROVE  Work(c)'
<1>1. Live(c) /\ UNCHANGED files
  BY DEF Timeout
<1>2. Waits(c)
  BY <1>1, DroppedWaits DEF Timeout
<1> QED BY <1>1, <1>2, WaitingKeepsWork

LEMMA CodecGoesOn ==
  ASSUME Absent, IInv, NEW c \in Calls, Live(c)', Intact(c), Work(c),
         \/ CompressOpen(c) \/ CompressCopy(c) \/ CompressFinish(c) \/ CompressFails(c)
         \/ DecompressOpen(c) \/ DecompressCreate(c) \/ LateCreate(c)
         \/ DecompressCopy(c) \/ Hand(c) \/ Land(c)
         \/ DecompressFinish(c) \/ DecompressFails(c) \/ DroppedEnds(c)
  PROVE  Work(c)'
<1> PICK K : Known(K)
  BY DEF IInv
<1>1. ~\E answer : Ended(c, answer)
  BY EndedIs DEF Live, Known
<1>2. Beginning(c) /\ call'[c].req = call[c].req
  BY CodecStepIsOwn DEF OwnStep, Work
<1>3. CASE CompressOpen(c) \/ CompressCopy(c)
  <2>1. call[c].req.tool \in Compressors
    BY <1>3 DEF CompressOpen, CompressCopy, At
  <2>2. Compressing(c)
    BY <2>1 DEF Work
  <2>3. Beginning(c)' /\ Compressing(c)'
    BY <1>2, <1>3, <2>2, CodecBeyond, CompressOpenGoesOn,
       CompressCopyGoesOn
  <2> QED BY <1>2, <2>1, <2>3 DEF Work, Compressors, Decompressors
<1>4. CASE \/ DecompressOpen(c) \/ DecompressCreate(c) \/ DecompressCopy(c)
           \/ Hand(c) \/ Land(c)
  <2>1. call[c].req.tool \in Decompressors
    BY <1>4 DEF DecompressOpen, DecompressCreate, DecompressCopy, Hand, Land, At
  <2>2. Decompressing(c)
    BY <2>1 DEF Work
  <2>3. Beginning(c)' /\ Decompressing(c)'
    BY <1>2, <1>4, <2>2, CodecBeyond, DecompressOpenGoesOn, DecompressCreateGoesOn,
       DecompressCopyGoesOn, HandGoesOn, LandGoesOn
  <2> QED BY <1>2, <2>1, <2>3 DEF Work, Compressors, Decompressors
<1>5. CASE DecompressFails(c)
  <2>1. Live(c) /\ UNCHANGED files /\ Dropped(c, "error")
    BY <1>1, <1>5 DEF DecompressFails, At
  <2>2. Waits(c)
    BY <2>1, DroppedWaits
  <2> QED BY <2>1, <2>2, WaitingKeepsWork
<1>6. CASE \/ CompressFinish(c) \/ CompressFails(c) \/ DecompressFinish(c)
           \/ DroppedEnds(c) \/ LateCreate(c)
  BY <1>1, <1>6 DEF CompressFinish, CompressFails, DecompressFinish, DroppedEnds, LateCreate
<1> QED BY <1>3, <1>4, <1>5, <1>6

LEMMA CipherGoesOn ==
  ASSUME Absent, IInv, NEW c \in Calls, Live(c)', Intact(c), Work(c),
         \/ EncryptRead(c) \/ EncryptCreate(c) \/ EncryptHeader(c) \/ EncryptBody(c)
         \/ EncryptFails(c)
         \/ DecryptRead(c) \/ DecryptUnseal(c) \/ DecryptCreate(c) \/ DecryptWrite(c)
         \/ DecryptFails(c)
         \/ KeygenSecret(c) \/ KeygenPublic(c) \/ KeygenFails(c)
  PROVE  Work(c)'
<1> PICK K : Known(K)
  BY DEF IInv
<1>1. ~\E answer : Ended(c, answer)
  BY EndedIs DEF Live, Known
<1>2. call'[c].req = call[c].req
  BY CipherStepIsOwn DEF OwnStep
<1>3. CASE EncryptRead(c) \/ EncryptCreate(c) \/ EncryptHeader(c)
  <2>1. call[c].req.tool = "encrypt_file"
    BY <1>3 DEF EncryptRead, EncryptCreate, EncryptHeader, At
  <2>2. Encrypting(c)
    BY <2>1 DEF Work
  <2>3. Beginning(c)' /\ Encrypting(c)'
    BY <1>3, <2>2, CipherBeyond, EncryptGoesOn
  <2> QED BY <1>2, <2>1, <2>3 DEF Work, Compressors, Decompressors
<1>4. CASE DecryptRead(c) \/ DecryptUnseal(c) \/ DecryptCreate(c)
  <2>1. call[c].req.tool = "decrypt_file"
    BY <1>4 DEF DecryptRead, DecryptUnseal, DecryptCreate, At
  <2>2. Decrypting(c)
    BY <2>1 DEF Work
  <2>3. Beginning(c)' /\ Decrypting(c)'
    BY <1>4, <2>2, CipherBeyond, DecryptGoesOn
  <2> QED BY <1>2, <2>1, <2>3 DEF Work, Compressors, Decompressors
<1>5. CASE KeygenSecret(c)
  <2>1. call[c].req.tool = "generate_key"
    BY <1>5 DEF KeygenSecret, At
  <2>2. Beginning(c)' /\ Pairing(c)'
    BY <1>5, CipherBeyond, KeygenSecretGoesOn
  <2> QED BY <1>2, <2>1, <2>2 DEF Work, Compressors, Decompressors
<1>6. CASE \/ EncryptBody(c) \/ EncryptFails(c) \/ DecryptWrite(c) \/ DecryptFails(c)
           \/ KeygenPublic(c) \/ KeygenFails(c)
  BY <1>1, <1>6
  DEF EncryptBody, EncryptFails, DecryptWrite, DecryptFails, KeygenPublic, KeygenFails
<1> QED BY <1>3, <1>4, <1>5, <1>6

LEMMA TarGoesOn ==
  ASSUME Absent, IInv, NEW c \in Calls, Live(c)', Work(c),
         call[c].req.tool # "decompress_tar" => Intact(c),
         \/ TarCollect(c) \/ TarCreate(c) \/ TarStat(c) \/ TarAppend(c) \/ TarFinish(c)
         \/ TarFails(c)
         \/ UntarOpen(c) \/ UntarEntry(c) \/ UntarFinish(c) \/ UntarFails(c)
  PROVE  Work(c)'
<1> PICK K : Known(K)
  BY DEF IInv
<1>1. ~\E answer : Ended(c, answer)
  BY EndedIs DEF Live, Known
<1>2. Beginning(c) /\ call'[c].req = call[c].req
  BY TarStepIsOwn DEF OwnStep, Work
<1>3. CASE TarCollect(c) \/ TarCreate(c) \/ TarStat(c) \/ TarAppend(c)
  <2>1. call[c].req.tool = "compress_tar"
    BY <1>3 DEF TarCollect, TarCreate, TarStat, TarAppend, At
  <2>2. Archiving(c) /\ Intact(c)
    BY <2>1 DEF Work
  <2>3. Beginning(c)' /\ Archiving(c)'
    BY <1>2, <1>3, <2>2, TarBeyond, TarCollectGoesOn, TarCreateGoesOn, TarStatGoesOn,
       TarAppendGoesOn
  <2> QED BY <1>2, <2>1, <2>3 DEF Work, Compressors, Decompressors
<1>4. CASE UntarOpen(c) \/ UntarEntry(c)
  <2>1. call[c].req.tool = "decompress_tar"
    BY <1>4 DEF UntarOpen, UntarEntry, At
  <2>2. Unpacking(c)
    BY <2>1 DEF Work
  <2>3. Beginning(c)' /\ Unpacking(c)'
    BY <1>2, <1>4, <2>2, TarBeyond, UntarOpenGoesOn, UntarEntryGoesOn
  <2> QED BY <1>2, <2>1, <2>3 DEF Work, Compressors, Decompressors
<1>5. CASE TarFinish(c) \/ TarFails(c) \/ UntarFinish(c) \/ UntarFails(c)
  BY <1>1, <1>5 DEF TarFinish, TarFails, UntarFinish, UntarFails
<1> QED BY <1>3, <1>4, <1>5

(* A call that comes in has its work before it. *)
LEMMA StartBegins ==
  ASSUME NEW K, Known(K), NEW c \in Calls, NEW r \in Requests, Start(c, r), Live(c)'
  PROVE  Work(c)'
<1>1. call[c] = Idle /\ UNCHANGED files /\ DOMAIN call = Calls
  BY DEF Start, Known
<1>2. call'[c] = [req |-> r, pc |-> FirstStage(r.tool), ans |-> "none",
                  at |-> 0, pos |-> 0, handed |-> 0, text |-> <<>>, rest |-> <<>>,
                  codec |-> "none", skipped |-> {}, before |-> files]
  <2>1. ~Refused(r)
    BY <1>1 DEF Start, Over, Live
  <2> QED BY <1>1, <2>1 DEF Start
<1>3. /\ call'[c].req = r /\ call'[c].before = files /\ call'[c].pc = FirstStage(r.tool)
      /\ call'[c].at = 0 /\ call'[c].pos = 0 /\ call'[c].handed = 0 /\ call'[c].text = <<>>
  BY <1>2
<1>4. FirstStage(r.tool) \in Stage1
  BY DEF FirstStage, Stage1
<1>5. Beginning(c)'
  BY <1>3 DEF Beginning
<1>6. Compressing(c)' /\ Decompressing(c)' /\ Encrypting(c)' /\ Decrypting(c)' /\ Pairing(c)'
  BY <1>3, <1>4
  DEF Compressing, Decompressing, Encrypting, Decrypting, Pairing, Stage1
<1>7. Archiving(c)' /\ Unpacking(c)'
  BY <1>1, <1>3, <1>4 DEF Archiving, Unpacking, Stage1, Paths
<1> QED BY <1>5, <1>6, <1>7 DEF Work

(* What reports success is the last step of a tool. *)
Succeeds(c) ==
  \/ CompressFinish(c) \/ DecompressFinish(c) \/ EncryptBody(c) \/ DecryptWrite(c)
  \/ (KeygenSecret(c) /\ Ended(c, "ok")) \/ KeygenPublic(c) \/ TarFinish(c) \/ UntarFinish(c)

LEMMA MovedIsNoAnswer ==
  ASSUME NEW K, Known(K), NEW c \in Calls, Live(c), call[c].ans = "none",
         NEW fields, Moved(c, fields),
         "ans" \in DOMAIN fields => fields.ans # "ok"
  PROVE  call'[c].ans # "ok"
  BY MovedOn

LEMMA EndedIsNoSuccess ==
  ASSUME NEW K, Known(K), NEW c \in Calls, call[c].ans = "none",
         \/ Ended(c, "error") \/ Ended(c, "timeout")
         \/ Live(c) /\ (Dropped(c, "error") \/ Dropped(c, "timeout"))
  PROVE  call'[c].ans # "ok"
<1>1. CASE Ended(c, "error") \/ Ended(c, "timeout")
  BY <1>1, EndedIs DEF Known
<1>2. CASE /\ Live(c)
           /\ \/ Moved(c, [pc |-> "dropped", ans |-> "error"])
              \/ Moved(c, [pc |-> "dropped", ans |-> "timeout"])
  BY <1>2, MovedIsNoAnswer
<1> QED BY <1>1, <1>2 DEF Dropped

LEMMA CodecAnswers ==
  ASSUME NEW K, Known(K), NEW c \in Calls, call[c].ans = "none", call'[c].ans = "ok",
         \/ CompressOpen(c) \/ CompressCopy(c) \/ CompressFinish(c) \/ CompressFails(c)
         \/ DecompressOpen(c) \/ DecompressCreate(c) \/ LateCreate(c)
         \/ DecompressCopy(c) \/ Hand(c) \/ Land(c)
         \/ DecompressFinish(c) \/ DecompressFails(c) \/ DroppedEnds(c) \/ Timeout(c)
  PROVE  Succeeds(c)
<1>1. Live(c)
  BY DEF CompressOpen, CompressCopy, CompressFinish, CompressFails, DecompressOpen,
     DecompressCreate, LateCreate, DecompressCopy, Hand, Land, DecompressFinish,
     DecompressFails, DroppedEnds, Timeout, At
<1>2. CASE CompressOpen(c) \/ DecompressOpen(c) \/ DecompressCreate(c)
  BY <1>1, <1>2, MovedIsNoAnswer DEF CompressOpen, DecompressOpen, DecompressCreate
<1>3. CASE CompressCopy(c)
  <2>1. PICK at, pos, text : Moved(c, [at |-> at, pos |-> pos, text |-> text])
    BY <1>3 DEF CompressCopy
  <2> QED BY <1>1, <2>1, MovedIsNoAnswer
<1>4. CASE DecompressCopy(c)
  <2>1. PICK at, text : Moved(c, [at |-> at, text |-> text])
    BY <1>4 DEF DecompressCopy
  <2> QED BY <1>1, <2>1, MovedIsNoAnswer
<1>5. CASE Hand(c)
  BY <1>1, <1>5, MovedIsNoAnswer DEF Hand
<1>6. CASE Land(c)
  BY <1>1, <1>6, MovedIsNoAnswer DEF Land
<1>7. CASE CompressFails(c) \/ DecompressFails(c) \/ DroppedEnds(c) \/ LateCreate(c)
  BY <1>1, <1>7, EndedIsNoSuccess DEF CompressFails, DecompressFails, DroppedEnds, LateCreate
<1>8. CASE Timeout(c)
  <2>1. CASE Moved(c, [ans |-> "timeout"])
    BY <1>1, <2>1, MovedIsNoAnswer
  <2>2. CASE Moved(c, [pc |-> "late", ans |-> "timeout"])
    BY <1>1, <2>2, MovedIsNoAnswer
  <2> QED BY <1>1, <1>8, <2>1, <2>2, EndedIsNoSuccess DEF Timeout
<1> QED BY <1>2, <1>3, <1>4, <1>5, <1>6, <1>7, <1>8 DEF Succeeds

LEMMA CipherAnswers ==
  ASSUME NEW K, Known(K), NEW c \in Calls, call[c].ans = "none", call'[c].ans = "ok",
         \/ EncryptRead(c) \/ EncryptCreate(c) \/ EncryptHeader(c) \/ EncryptBody(c)
         \/ EncryptFails(c)
         \/ DecryptRead(c) \/ DecryptUnseal(c) \/ DecryptCreate(c) \/ DecryptWrite(c)
         \/ DecryptFails(c)
         \/ KeygenSecret(c) \/ KeygenPublic(c) \/ KeygenFails(c)
  PROVE  Succeeds(c)
<1>1. Live(c)
  BY DEF EncryptRead, EncryptCreate, EncryptHeader, EncryptBody, EncryptFails, DecryptRead,
     DecryptUnseal, DecryptCreate, DecryptWrite, DecryptFails, KeygenSecret, KeygenPublic,
     KeygenFails, At
<1>2. CASE EncryptRead(c) \/ DecryptRead(c)
  <2>1. PICK pc, text, lock : Moved(c, [pc |-> pc, text |-> text, lock |-> lock])
    BY <1>2 DEF EncryptRead, DecryptRead
  <2> QED BY <1>1, <2>1, MovedIsNoAnswer
<1>3. CASE EncryptCreate(c) \/ EncryptHeader(c) \/ DecryptCreate(c)
  BY <1>1, <1>3, MovedIsNoAnswer DEF EncryptCreate, EncryptHeader, DecryptCreate
<1>4. CASE DecryptUnseal(c)
  <2>1. PICK text : Moved(c, [pc |-> "write", text |-> text])
    BY <1>4 DEF DecryptUnseal
  <2> QED BY <1>1, <2>1, MovedIsNoAnswer
<1>5. CASE KeygenSecret(c)
  <2>1. CASE Moved(c, [pc |-> "public"])
    BY <1>1, <2>1, MovedIsNoAnswer
  <2> QED BY <1>5, <2>1 DEF KeygenSecret, Succeeds
<1>6. CASE EncryptFails(c) \/ DecryptFails(c) \/ KeygenFails(c)
  BY <1>6, EndedIsNoSuccess DEF EncryptFails, DecryptFails, KeygenFails
<1> QED BY <1>2, <1>3, <1>4, <1>5, <1>6 DEF Succeeds

LEMMA TarAnswers ==
  ASSUME NEW K, Known(K), NEW c \in Calls, call[c].ans = "none", call'[c].ans = "ok",
         \/ TarCollect(c) \/ TarCreate(c) \/ TarStat(c) \/ TarAppend(c) \/ TarFinish(c)
         \/ TarFails(c)
         \/ UntarOpen(c) \/ UntarEntry(c) \/ UntarFinish(c) \/ UntarFails(c)
  PROVE  Succeeds(c)
<1>1. Live(c)
  BY DEF TarCollect, TarCreate, TarStat, TarAppend, TarFinish, TarFails, UntarOpen,
     UntarEntry, UntarFinish, UntarFails, At
<1>2. CASE TarCollect(c)
  <2>1. PICK order, skipped :
          Moved(c, [pc |-> "create", rest |-> order, skipped |-> skipped])
    BY <1>2 DEF TarCollect
  <2> QED BY <1>1, <2>1, MovedIsNoAnswer
<1>3. CASE TarCreate(c)
  BY <1>1, <1>3, MovedIsNoAnswer DEF TarCreate
<1>8. CASE UntarOpen(c)
  <2>1. PICK codec : Moved(c, [pc |-> "entry", codec |-> codec])
    BY <1>8 DEF UntarOpen
  <2> QED BY <1>1, <2>1, MovedIsNoAnswer
<1>4. CASE TarStat(c)
  BY <1>1, <1>4, MovedIsNoAnswer DEF TarStat
<1>5. CASE TarAppend(c)
  <2>1. PICK pos, text, rest :
          Moved(c, [pc |-> "stat", pos |-> pos, text |-> text, rest |-> rest])
    BY <1>5 DEF TarAppend
  <2> QED BY <1>1, <2>1, MovedIsNoAnswer
<1>6. CASE UntarEntry(c)
  <2>1. PICK at, pos : Moved(c, [at |-> at, pos |-> pos])
    BY <1>6 DEF UntarEntry
  <2> QED BY <1>1, <2>1, MovedIsNoAnswer
<1>7. CASE TarFails(c) \/ UntarFails(c)
  BY <1>7, EndedIsNoSuccess DEF TarFails, UntarFails
<1> QED BY <1>2, <1>3, <1>4, <1>5, <1>6, <1>7, <1>8 DEF Succeeds

LEMMA SuccessMeets ==
  ASSUME Absent, IInv, NEW c \in Calls, Live(c), Succeeds(c), Work(c),
         call[c].req.tool # "decompress_tar" => Intact(c)
  PROVE  Meets(c, call[c].before, files')
<1> PICK K : Known(K)
  BY DEF IInv
<1>1. CASE CompressFinish(c)
  <2>1. Compressing(c) /\ Intact(c)
    BY <1>1 DEF CompressFinish, At, Work, Compressors
  <2> QED BY <1>1, <2>1, CompressSucceeds
<1>2. CASE DecompressFinish(c)
  <2>1. Decompressing(c) /\ Intact(c)
    BY <1>2 DEF DecompressFinish, At, Work, Decompressors
  <2> QED BY <1>2, <2>1, DecompressSucceeds
<1>3. CASE EncryptBody(c)
  <2>1. Encrypting(c) /\ Intact(c)
    BY <1>3 DEF EncryptBody, At, Work
  <2> QED BY <1>3, <2>1, EncryptSucceeds
<1>4. CASE DecryptWrite(c)
  <2>1. Decrypting(c) /\ Intact(c)
    BY <1>4 DEF DecryptWrite, At, Work
  <2> QED BY <1>4, <2>1, DecryptSucceeds
<1>5. CASE KeygenSecret(c) /\ Ended(c, "ok")
  <2>1. ~Live(c)'
    BY <1>5, EndedIs DEF Known, Live
  <2> QED BY <1>5, <2>1, KeygenSecretGoesOn
<1>6. CASE KeygenPublic(c)
  <2>1. Pairing(c)
    BY <1>6 DEF KeygenPublic, At, Work
  <2> QED BY <1>6, <2>1, KeygenPublicSucceeds
<1>7. CASE TarFinish(c)
  <2>1. Archiving(c) /\ Intact(c)
    BY <1>7 DEF TarFinish, At, Work
  <2> QED BY <1>7, <2>1, TarFinishes
<1>8. CASE UntarFinish(c)
  <2>1. Unpacking(c)
    BY <1>8 DEF UntarFinish, At, Work
  <2> QED BY <1>8, <2>1, UntarFinishes
<1> QED BY <1>1, <1>2, <1>3, <1>4, <1>5, <1>6, <1>7, <1>8 DEF Succeeds

-----------------------------------------------------------------------------
(* A call that is running undisturbed has done what its stage says, from   *)
(* sources that are as it found them, unless its output is a link to one.  *)
OnTrack(c) ==
  SourcesSafe(c) /\ (Live(c) /\ alone[c] /\ ~OntoSource(call[c].req) => Work(c))

LEMMA StaysOnTrack ==
  ASSUME Absent, IInv, [Next]_vars, NEW d \in Calls, OnTrack(d)
  PROVE  OnTrack(d)'
<1> PICK K : Known(K)
  BY DEF IInv
<1>0. SourcesSafe(d)'
  BY SourcesStaySafe DEF OnTrack
<1> SUFFICES ASSUME Live(d)', alone'[d], ~OntoSource(call'[d].req) PROVE Work(d)'
  <2>1. OntoSource(call[d].req)' <=> OntoSource(call'[d].req)
    BY DEF OntoSource, Output, OutputPath
  <2> QED BY <1>0, <2>1 DEF OnTrack
<1>1. ASSUME Live(d), alone[d], call'[d] = call[d], Paths' = Paths,
             \A p \in Concern(call[d].req) : files'[p] = files[p]
      PROVE  Work(d)'
  <2>1. Waits(d) /\ Work(d)
    BY <1>1 DEF Waits, OnTrack
  <2> QED BY <1>1, <2>1, WaitingKeepsWork
<1>2. CASE UNCHANGED vars
  BY <1>1, <1>2 DEF vars, Live, Paths
<1>3. CASE Edit
  <2>1. call' = call /\ Paths' = Paths /\ Live(d) /\ Disturbs({})
    BY <1>3 DEF Edit, Paths, Live
  <2> QED BY <1>1, <2>1, StillAlone
<1>4. ASSUME NEW c \in Calls, Disturbs({c}), c # d, call'[d] = call[d], Paths' = Paths
      PROVE  Work(d)'
  <2>1. Live(d) /\ d \notin {c}
    BY <1>4 DEF Live
  <2> QED BY <1>1, <1>4, <2>1, StillAlone
<1>5. ASSUME NEW c \in Calls, Disturbs({c}),
             EncryptBody(c) \/ Step(c) \/ Timeout(c)
      PROVE  Work(d)'
  <2>1. OwnStep(c) /\ OwnFiles(c)
    BY <1>5, StepIsOwn, StepWritesOutput
  <2>2. CASE c = d
    <3>1. Live(d) /\ alone[d] /\ ~OntoSource(call[d].req)
      BY <1>5, <2>1, <2>2, StillAlone DEF OwnStep
    <3>2. Work(d) /\ (call[d].req.tool # "decompress_tar" => Intact(d))
      BY <3>1 DEF OnTrack, SourcesSafe, Intact
    <3>3. CASE Timeout(d)
      BY <3>2, <3>3, TimeoutGoesOn
    <3>4. CASE Step(d) \/ EncryptBody(d)
      <4>1. CASE call[d].req.tool # "decompress_tar"
        BY <3>2, <3>4, <4>1, CodecGoesOn, CipherGoesOn, TarGoesOn DEF Step
      <4>2. CASE call[d].req.tool = "decompress_tar"
        <5>1. UntarOpen(d) \/ UntarEntry(d) \/ UntarFinish(d) \/ UntarFails(d)
          BY <3>4, <4>2
          DEF Step, At, Compressors, Decompressors, CompressOpen, CompressCopy,
              CompressFinish, CompressFails, DecompressOpen, DecompressCreate, LateCreate,
              DecompressCopy, Hand, Land, DecompressFinish, DecompressFails, DroppedEnds, EncryptRead, EncryptCreate,
              EncryptHeader, EncryptBody, EncryptFails, DecryptRead, DecryptUnseal,
              DecryptCreate, DecryptWrite, DecryptFails, KeygenSecret, KeygenPublic,
              KeygenFails, TarCollect, TarCreate, TarStat, TarAppend, TarFinish, TarFails
        <5> QED BY <3>2, <5>1, TarGoesOn
      <4> QED BY <4>1, <4>2
    <3> QED BY <1>5, <2>2, <3>3, <3>4
  <2>3. CASE c # d
    BY <1>4, <1>5, <2>1, <2>3 DEF OwnStep, OwnFiles
  <2> QED BY <2>2, <2>3
<1>6. ASSUME NEW c \in Calls, NEW r \in Requests, Start(c, r), Disturbs({c})
      PROVE  Work(d)'
  <2>1. CASE c = d
    BY <1>6, <2>1, StartBegins
  <2>2. CASE c # d
    BY <1>4, <1>6, <2>2, StartIsOwn DEF Paths
  <2> QED BY <2>1, <2>2
<1> QED BY <1>2, <1>3, <1>5, <1>6 DEF Next, Rest

(* A call whose files nobody else changed while it ran, whose output is    *)
(* not a link to its source, and which reports success, has done all of    *)
(* its work (the last steps of the tools of compress.rs and crypto.rs),    *)
(* provided that a path without a file is told from one with a file.  Of a *)
(* new archive with a codec that is a beginning only, and what the walk    *)
(* could not read is missing in it.                                        *)
THEOREM SuccessMeansDone ==
  ASSUME Absent
  PROVE  Spec => SuccessIsComplete
<1> DEFINE Track == \A c \in Calls : OnTrack(c)
<1>1. Init => Track
  BY DEF Init, OnTrack, SourcesSafe, Live, Idle
<1>2. IInv /\ [Next]_vars /\ Track => Track'
  BY StaysOnTrack
<1>3. ASSUME IInv, [Next]_vars, Track, NEW c \in Calls,
             call[c].ans = "none", call'[c].ans = "ok", alone[c],
             ~OntoSource(call[c].req)
      PROVE  Meets(c, call[c].before, files')
  <2> PICK K : Known(K)
    BY <1>3 DEF IInv
  <2>1. Step(c) \/ EncryptBody(c) \/ Timeout(c)
    <3>1. ~UNCHANGED vars /\ ~Edit /\ ~Rest
      BY <1>3 DEF vars, Edit, Rest
    <3>2. ~\E r \in Requests : Start(c, r)
      <4>1. ASSUME NEW r \in Requests, Start(c, r) PROVE call'[c].ans # "ok"
        <5>1. DOMAIN call = Calls
          BY DEF Known
        <5> QED BY <4>1, <5>1 DEF Start, Over
      <4> QED BY <1>3, <4>1
    <3>3. ASSUME NEW d \in Calls, d # c,
                 (\E r \in Requests : Start(d, r)) \/ Step(d) \/ EncryptBody(d) \/ Timeout(d)
          PROVE  FALSE
      BY <1>3, <3>3, StartIsOwn, StepIsOwn DEF OwnStep
    <3> QED BY <1>3, <3>1, <3>2, <3>3 DEF Next
  <2>2. Live(c)
    BY <2>1, StepIsOwn DEF OwnStep
  <2>3. Succeeds(c)
    BY <1>3, <2>1, CodecAnswers, CipherAnswers, TarAnswers DEF Step
  <2>4. Work(c) /\ (call[c].req.tool # "decompress_tar" => Intact(c))
    BY <1>3, <2>2 DEF OnTrack, SourcesSafe, Intact
  <2> QED BY <1>3, <2>2, <2>3, <2>4, SuccessMeets
<1>4. IInv /\ Track /\ [Next]_vars =>
        [\A c \in Calls :
           (/\ call[c].ans = "none" /\ call'[c].ans = "ok" /\ alone[c]
            /\ ~OntoSource(call[c].req))
             => Meets(c, call[c].before, files')]_vars
  BY <1>3
<1> HIDE DEF Track
<1> QED BY <1>1, <1>2, <1>4, Invariant, PTL DEF Spec, SuccessIsComplete

-----------------------------------------------------------------------------
(***************************************************************************)
(* What an extraction has written, block by block.                         *)
(***************************************************************************)

LEMMA PairsOf ==
  ASSUME NEW p, NEW n \in Nat
  PROVE  IsFiniteSet({p} \X (1..n)) /\ Cardinality({p} \X (1..n)) <= n
<1> DEFINE f == [i \in 1..n |-> <<p, i>>]
<1>1. IsFiniteSet(1..n) /\ Cardinality(1..n) = n
  <2>1. IsFiniteSet(1..n) /\ Cardinality(1..n) = IF 1 > n THEN 0 ELSE n - 1 + 1
    BY FS_Interval
  <2> QED BY <2>1
<1>2. f \in Surjection(1..n, {p} \X (1..n))
  <2>1. f \in [1..n -> {p} \X (1..n)]
    OBVIOUS
  <2>2. ASSUME NEW b \in {p} \X (1..n) PROVE \E i \in 1..n : f[i] = b
    <3>1. PICK i \in 1..n : b = <<p, i>>
      OBVIOUS
    <3> QED BY <3>1
  <2> QED BY <2>1, <2>2 DEF Surjection
<1> HIDE DEF f
<1>3. /\ IsFiniteSet({p} \X (1..n))
      /\ Cardinality({p} \X (1..n)) <= Cardinality(1..n)
  BY <1>1, <1>2, FS_Surjection
<1> QED BY <1>1, <1>3

(* A set that is covered by two is no larger than both together. *)
LEMMA CoveredBy ==
  ASSUME NEW S, IsFiniteSet(S), NEW T, IsFiniteSet(T), NEW U \in SUBSET (S \cup T)
  PROVE  IsFiniteSet(U) /\ Cardinality(U) <= Cardinality(S) + Cardinality(T)
<1>1. /\ IsFiniteSet(S \cup T)
      /\ Cardinality(S \cup T) = Cardinality(S) + Cardinality(T) - Cardinality(S \cap T)
  BY FS_Union
<1>2. IsFiniteSet(S \cap T)
  BY FS_Subset
<1>3. IsFiniteSet(U) /\ Cardinality(U) <= Cardinality(S \cup T)
  BY <1>1, FS_Subset
<1>4. /\ Cardinality(S) \in Nat /\ Cardinality(T) \in Nat /\ Cardinality(S \cap T) \in Nat
      /\ Cardinality(U) \in Nat
  BY <1>2, <1>3, FS_CardinalityType
<1> QED BY <1>1, <1>3, <1>4

(* One file more. *)
LEMMA BlocksAdded ==
  ASSUME NEW now, NEW was, NEW dir, IsFiniteSet(BlocksOfNew(now, was, dir)),
         NEW target, NEW part, Len(part) \in Nat
  PROVE  LET more == BlocksOfNew([now EXCEPT ![target] = part], was, dir)
         IN /\ IsFiniteSet(more)
            /\ Cardinality(more) <= Cardinality(BlocksOfNew(now, was, dir)) + Len(part)
<1> DEFINE new == [now EXCEPT ![target] = part]
           before == BlocksOfNew(now, was, dir)
           more == BlocksOfNew(new, was, dir)
           added == {target} \X (1..Len(part))
<1>1. ASSUME NEW b \in more PROVE b \in before \cup added
  <2>1. PICK p \in DOMAIN new : p.dir = dir /\ new[p] # was[p] /\ b \in {p} \X (1..Len(new[p]))
    BY <1>1 DEF BlocksOfNew
  <2>2. p \in DOMAIN now /\ new[p] = IF p = target THEN part ELSE now[p]
    BY <2>1
  <2> HIDE DEF new
  <2>3. CASE p = target
    BY <2>1, <2>2, <2>3
  <2>4. CASE p # target
    BY <2>1, <2>2, <2>4 DEF BlocksOfNew
  <2> QED BY <2>3, <2>4
<1>2. IsFiniteSet(added) /\ Cardinality(added) <= Len(part)
  BY PairsOf
<1> HIDE DEF before, more, added
<1>3. IsFiniteSet(before) /\ more \in SUBSET (before \cup added)
  BY <1>1 DEF before
<1>4. IsFiniteSet(more) /\ Cardinality(more) <= Cardinality(before) + Cardinality(added)
  BY <1>2, <1>3, CoveredBy
<1>5. Cardinality(before) \in Nat /\ Cardinality(added) \in Nat /\ Cardinality(more) \in Nat
  BY <1>2, <1>3, <1>4, FS_CardinalityType
<1>6. IsFiniteSet(more) /\ Cardinality(more) <= Cardinality(before) + Len(part)
  BY <1>2, <1>4, <1>5
<1> QED BY <1>6 DEF before, more

(* The blocks a call has extracted are no more than it has counted. *)
Extracted(c) == BlocksOfNew(files, call[c].before, call[c].req.out)

Counts(c) ==
  (Live(c) /\ alone[c] /\ call[c].req.tool = "decompress_tar") =>
    /\ IsFiniteSet(Extracted(c)) /\ Cardinality(Extracted(c)) <= call[c].pos
    /\ call[c].pos <= Limit

LEMMA PartIsShort ==
  ASSUME NEW S, NEW s \in Seq(S), NEW at \in Nat, NEW last \in Int, at <= last, last <= Len(s),
         NEW size \in Nat, last <= at + 1 + size
  PROVE  Len(SubSeq(s, at + 2, last)) \in Nat /\ Len(SubSeq(s, at + 2, last)) <= size
<1>1. CASE last < at + 2
  <2>1. SubSeq(s, at + 2, last) = <<>>
    BY <1>1
  <2> QED BY <2>1
<1>2. CASE last >= at + 2
  <2>1. Len(SubSeq(s, at + 2, last)) = last - (at + 2) + 1
    BY <1>2
  <2> QED BY <1>2, <2>1
<1> QED BY <1>1, <1>2

(* An entry, or what there is of it, fits into what is left. *)
LEMMA EntryFits ==
  ASSUME NEW K, Known(K), NEW c \in Calls, Counts(c), alone[c],
         UntarEntry(c) \/ UntarFails(c), files' # files
  PROVE  LET size == Archive(c)[call[c].at + 1].size
             now == BlocksOfNew(files', call[c].before, call[c].req.out)
         IN /\ size \in Nat /\ call[c].pos + size <= Limit
            /\ IsFiniteSet(now) /\ Cardinality(now) <= call[c].pos + size
<1> DEFINE header == Archive(c)[call[c].at + 1]
           size == header.size
           at == call[c].at
           pos == call[c].pos
           end == at + 1 + size
           was == call[c].before
           dir == call[c].req.out
           now == BlocksOfNew(files', was, dir)
           target == Target(c, header.entry)
           cut == IF end > Len(Archive(c)) THEN Len(Archive(c)) ELSE end - 1
<1>1. /\ At(c, {"decompress_tar"}, "entry") /\ at < Len(Archive(c)) /\ IsEntry(header)
      /\ UntarFits(c, size)
      /\ \/ end <= Len(Archive(c))
            /\ files' = [files EXCEPT ![target] = SubSeq(Archive(c), at + 2, end)]
         \/ files' = [files EXCEPT ![target] = SubSeq(Archive(c), at + 2, cut)]
  <2>1. CASE UntarEntry(c)
    BY <2>1 DEF UntarEntry
  <2>2. CASE UntarFails(c)
    BY <2>2 DEF UntarFails
  <2> QED BY <2>1, <2>2
<1>2. /\ Live(c) /\ Archive(c) \in Seq(K) /\ at \in Nat /\ pos \in Nat /\ size \in Nat
      /\ call[c].req.tool = "decompress_tar"
  BY <1>1, UntarAt DEF At
<1>3. pos + size <= Limit
  BY <1>1 DEF UntarFits
<1>4. PICK last \in Int :
        /\ last <= end /\ last <= Len(Archive(c)) /\ last >= at
        /\ files' = [files EXCEPT ![target] = SubSeq(Archive(c), at + 2, last)]
  <2> HIDE DEF size, target
  <2>1. CASE /\ end <= Len(Archive(c))
             /\ files' = [files EXCEPT ![target] = SubSeq(Archive(c), at + 2, end)]
    <3>1. end \in Int /\ end <= end /\ end >= at
      BY <1>2
    <3> HIDE DEF end
    <3> QED BY <2>1, <3>1
  <2>2. CASE files' = [files EXCEPT ![target] = SubSeq(Archive(c), at + 2, cut)]
    <3> DEFINE n == Len(Archive(c))
    <3>1. n \in Nat /\ at < n /\ at \in Nat /\ size \in Nat
      BY <1>1, <1>2
    <3> HIDE DEF n, at
    <3>2. cut \in Int /\ cut <= end /\ cut <= Len(Archive(c)) /\ cut >= at
      BY <3>1 DEF n
    <3> HIDE DEF cut, end
    <3> QED BY <2>2, <3>2, Zenon DEF at
  <2> QED BY <1>1, <2>1, <2>2
<1> HIDE DEF size, end
<1> DEFINE part == SubSeq(Archive(c), at + 2, last)
<1>5. Len(part) \in Nat /\ Len(part) <= size
  BY <1>2, <1>4, PartIsShort DEF end
<1>6. IsFiniteSet(Extracted(c)) /\ Cardinality(Extracted(c)) <= pos
  BY <1>2 DEF Counts
<1>7. files' = [files EXCEPT ![target] = part]
  BY <1>4
<1> HIDE DEF part, target
<1>8. IsFiniteSet(now) /\ Cardinality(now) <= Cardinality(Extracted(c)) + Len(part)
  <2> HIDE DEF was, dir
  <2>1. IsFiniteSet(BlocksOfNew(files, was, dir)) /\ Extracted(c) = BlocksOfNew(files, was, dir)
    BY <1>6 DEF Extracted, was, dir
  <2>2. /\ IsFiniteSet(BlocksOfNew([files EXCEPT ![target] = part], was, dir))
        /\ Cardinality(BlocksOfNew([files EXCEPT ![target] = part], was, dir))
             <= Cardinality(BlocksOfNew(files, was, dir)) + Len(part)
    BY <1>5, <2>1, BlocksAdded
  <2> QED BY <1>7, <2>1, <2>2
<1>9. Cardinality(Extracted(c)) \in Nat /\ Cardinality(now) \in Nat
  BY <1>6, <1>8, FS_CardinalityType
<1> HIDE DEF now, at, pos
<1>10. Cardinality(now) <= pos + size
  BY <1>2, <1>5, <1>6, <1>8, <1>9
<1> QED BY <1>2, <1>3, <1>8, <1>10 DEF now, size, pos, at, was, dir

(* A step that leaves a call's count and its files alone. *)
LEMMA CountStays ==
  ASSUME NEW c, Counts(c), Live(c), alone[c], Paths' = Paths,
         \A p \in Concern(call[c].req) : files'[p] = files[p],
         call'[c].req = call[c].req, call'[c].before = call[c].before,
         call'[c].pos = call[c].pos
  PROVE  Counts(c)'
<1> SUFFICES ASSUME call[c].req.tool = "decompress_tar" PROVE Counts(c)'
  BY DEF Counts
<1>1. Extracted(c)' = Extracted(c)
  <2>1. \A p \in Paths : p.dir = call[c].req.out => files'[p] = files[p]
    BY ItsFiles
  <2> QED BY <2>1 DEF Extracted, BlocksOfNew, Paths
<1>2. IsFiniteSet(Extracted(c)) /\ Cardinality(Extracted(c)) <= call[c].pos /\ call[c].pos <= Limit
  BY DEF Counts
<1> QED BY <1>1, <1>2 DEF Counts

LEMMA StartCounts ==
  ASSUME NEW K, Known(K), NEW c \in Calls, NEW r \in Requests, Start(c, r), Live(c)'
  PROVE  Counts(c)'
<1>1. call[c] = Idle /\ UNCHANGED files /\ DOMAIN call = Calls
  BY DEF Start, Known
<1>2. call'[c].pos = 0 /\ call'[c].before = files
  <2>1. ~Refused(r)
    BY <1>1 DEF Start, Over, Live
  <2>2. call'[c] = [req |-> r, pc |-> FirstStage(r.tool), ans |-> "none",
                    at |-> 0, pos |-> 0, handed |-> 0, text |-> <<>>, rest |-> <<>>,
                    codec |-> "none", skipped |-> {}, before |-> files]
    BY <1>1, <2>1 DEF Start
  <2> QED BY <2>2
<1>3. Extracted(c)' = {}
  BY <1>1, <1>2 DEF Extracted, BlocksOfNew
<1>4. IsFiniteSet({}) /\ Cardinality({}) = 0
  BY FS_EmptySet
<1> QED BY <1>2, <1>3, <1>4, TransformsAssumption DEF Counts

(* What an extraction does to its count and to its files. *)
LEMMA OwnStepCounts ==
  ASSUME NEW K, Known(K), NEW c \in Calls, Counts(c), alone[c],
         call[c].req.tool = "decompress_tar", Step(c) \/ EncryptBody(c) \/ Timeout(c)
  PROVE  /\ LET now == BlocksOfNew(files', call[c].before, call[c].req.out)
            IN IsFiniteSet(now) /\ Cardinality(now) <= Limit
         /\ Live(c)' => Counts(c)'
<1> DEFINE now == BlocksOfNew(files', call[c].before, call[c].req.out)
<1>1. /\ Live(c) /\ Paths' = Paths /\ Held(K, call[c])
      /\ Live(c)' => call'[c].req = call[c].req /\ call'[c].before = call[c].before
  BY StepIsOwn, StepWritesOutput DEF OwnStep, OwnFiles, Known
<1>2. call[c].pos \in Nat /\ Shape(call[c])
  BY <1>1 DEF Held, Data
<1>3. UntarOpen(c) \/ UntarEntry(c) \/ UntarFinish(c) \/ UntarFails(c) \/ Timeout(c)
  BY
  DEF Step, At, Compressors, Decompressors, CompressOpen, CompressCopy,
      CompressFinish, CompressFails, DecompressOpen, DecompressCreate, LateCreate,
      DecompressCopy, Hand, Land, DecompressFinish, DecompressFails, DroppedEnds,
      EncryptRead, EncryptCreate, EncryptHeader, EncryptBody, EncryptFails, DecryptRead, DecryptUnseal,
      DecryptCreate, DecryptWrite, DecryptFails, KeygenSecret, KeygenPublic,
      KeygenFails, TarCollect, TarCreate, TarStat, TarAppend, TarFinish, TarFails
<1>4. CASE files' = files
  <2>1. now = Extracted(c)
    BY <1>4 DEF Extracted
  <2>2. IsFiniteSet(now) /\ Cardinality(now) <= call[c].pos /\ call[c].pos <= Limit
    BY <1>1, <2>1 DEF Counts
  <2>3. Cardinality(now) \in Nat /\ Limit \in Nat
    BY <2>2, FS_CardinalityType, TransformsAssumption
  <2>4. IsFiniteSet(now) /\ Cardinality(now) <= Limit
    <3> HIDE DEF now
    <3> QED BY <1>2, <2>2, <2>3
  <2>5. ASSUME Live(c)' PROVE Counts(c)'
    <3>1. Extracted(c)' = now
      BY <1>1, <2>5 DEF Extracted
    <3>2. call[c].pos <= call'[c].pos /\ call'[c].pos <= Limit /\ call'[c].pos \in Nat
      <4>1. CASE UntarOpen(c) \/ Timeout(c)
        <5>1. call'[c].pos = call[c].pos
          <6>1. PICK fields : Moved(c, fields) /\ "pos" \notin DOMAIN fields
            <7>1. CASE UntarOpen(c)
              <8>1. PICK codec : Moved(c, [pc |-> "entry", codec |-> codec])
                BY <7>1 DEF UntarOpen
              <8> QED BY <8>1
            <7>2. CASE Timeout(c)
              <8>1. ~Ended(c, "timeout")
                BY <2>5, EndedIs DEF Live, Known
              <8> QED BY <7>2, <8>1 DEF Timeout, At, Decompressors
            <7> QED BY <4>1, <7>1, <7>2
          <6> QED BY <1>2, <6>1, MovedIs DEF Known, Shape
        <5> QED BY <1>2, <2>2, <5>1
      <4>2. CASE UntarEntry(c)
        <5>1. /\ At(c, {"decompress_tar"}, "entry")
              /\ call[c].at < Len(Archive(c)) /\ IsEntry(Archive(c)[call[c].at + 1])
              /\ call[c].pos + Archive(c)[call[c].at + 1].size <= Limit
              /\ \E end : Moved(c, [at |-> end, pos |-> call[c].pos + Archive(c)[call[c].at + 1].size])
          BY <4>2 DEF UntarEntry, UntarFits
        <5>2. Archive(c)[call[c].at + 1].size \in Nat
          BY <5>1, UntarAt
        <5> DEFINE size == Archive(c)[call[c].at + 1].size
        <5> HIDE DEF size
        <5>3. call'[c].pos = call[c].pos + size
          BY <1>2, <5>1, MovedIs DEF Known, Shape, size
        <5> QED BY <1>2, <5>1, <5>2, <5>3 DEF size
      <4>3. CASE UntarFinish(c) \/ UntarFails(c)
        BY <2>5, <4>3, EndedIs DEF UntarFinish, UntarFails, Live, Known
      <4> QED BY <1>3, <4>1, <4>2, <4>3
    <3>3. Cardinality(now) <= call'[c].pos
      <4> HIDE DEF now
      <4> QED BY <1>2, <2>2, <2>3, <3>2
    <3> QED BY <2>2, <3>1, <3>2, <3>3 DEF Counts
  <2> QED BY <2>4, <2>5
<1>5. CASE files' # files
  <2> DEFINE size == Archive(c)[call[c].at + 1].size
  <2>1. UntarEntry(c) \/ UntarFails(c)
    BY <1>3, <1>5 DEF UntarOpen, UntarFinish, Timeout
  <2>2. /\ size \in Nat /\ call[c].pos + size <= Limit
        /\ IsFiniteSet(now) /\ Cardinality(now) <= call[c].pos + size
    BY <1>5, <2>1, EntryFits
  <2> HIDE DEF now
  <2>3. Cardinality(now) \in Nat /\ Limit \in Nat
    BY <2>2, FS_CardinalityType, TransformsAssumption
  <2>4. Cardinality(now) <= Limit
    <3> HIDE DEF size
    <3> QED BY <1>2, <2>2, <2>3
  <2>5. ASSUME Live(c)' PROVE Counts(c)'
    <3>1. UntarEntry(c)
      <4>1. ~UntarFails(c)
        BY <2>5, EndedIs DEF UntarFails, Live, Known
      <4> QED BY <2>1, <4>1
    <3>2. \E end : Moved(c, [at |-> end, pos |-> call[c].pos + size])
      BY <3>1 DEF UntarEntry
    <3>3. call'[c].pos = call[c].pos + size
      <4> HIDE DEF size
      <4> QED BY <1>2, <3>2, MovedIs DEF Known, Shape
    <3>4. Extracted(c)' = now
      BY <1>1, <2>5 DEF Extracted, now
    <3> HIDE DEF size
    <3> QED BY <2>2, <3>3, <3>4 DEF Counts
  <2> QED BY <2>2, <2>4, <2>5 DEF now
<1> QED BY <1>4, <1>5

LEMMA KeepsCounting ==
  ASSUME IInv, [Next]_vars, NEW d \in Calls, Counts(d)
  PROVE  Counts(d)'
<1> PICK K : Known(K)
  BY DEF IInv
<1> SUFFICES ASSUME Live(d)', alone'[d], call'[d].req.tool = "decompress_tar"
             PROVE  Counts(d)'
  BY DEF Counts
<1>1. ASSUME Live(d), alone[d], call'[d] = call[d], Paths' = Paths,
             \A p \in Concern(call[d].req) : files'[p] = files[p]
      PROVE  Counts(d)'
  BY <1>1, CountStays
<1>2. CASE UNCHANGED vars
  BY <1>1, <1>2 DEF vars, Live, Paths
<1>3. CASE Edit
  <2>1. call' = call /\ Paths' = Paths /\ Live(d) /\ Disturbs({})
    BY <1>3 DEF Edit, Paths, Live
  <2> QED BY <1>1, <2>1, StillAlone
<1>4. ASSUME NEW c \in Calls, Disturbs({c}), c # d, call'[d] = call[d], Paths' = Paths
      PROVE  Counts(d)'
  <2>1. Live(d) /\ d \notin {c}
    BY <1>4 DEF Live
  <2> QED BY <1>1, <1>4, <2>1, StillAlone
<1>5. ASSUME NEW c \in Calls, Disturbs({c}),
             EncryptBody(c) \/ Step(c) \/ Timeout(c)
      PROVE  Counts(d)'
  <2>1. OwnStep(c) /\ OwnFiles(c)
    BY <1>5, StepIsOwn, StepWritesOutput
  <2>2. CASE c = d
    <3>1. Live(d) /\ alone[d] /\ call[d].req.tool = "decompress_tar"
      BY <1>5, <2>1, <2>2, StillAlone DEF OwnStep
    <3> QED BY <1>5, <2>2, <3>1, OwnStepCounts
  <2>3. CASE c # d
    BY <1>4, <1>5, <2>1, <2>3 DEF OwnStep, OwnFiles
  <2> QED BY <2>2, <2>3
<1>6. ASSUME NEW c \in Calls, NEW r \in Requests, Start(c, r), Disturbs({c})
      PROVE  Counts(d)'
  <2>1. CASE c = d
    BY <1>6, <2>1, StartCounts
  <2>2. CASE c # d
    BY <1>4, <1>6, <2>2, StartIsOwn DEF Paths
  <2> QED BY <2>1, <2>2
<1> QED BY <1>2, <1>3, <1>5, <1>6 DEF Next, Rest

(* No decompression writes more than max_decompressed_size: no step makes  *)
(* its file longer than that (AsyncLimitedWriter in compress.rs), and the  *)
(* files of an extraction do not become longer together                    *)
(* (extract_tar_archive_streaming), although each entry has its own size   *)
(* and what is extracted stays when the call fails.                        *)
THEOREM LimitIsKept == Spec => LimitHolds
<1> DEFINE Counting == \A c \in Calls : Counts(c)
<1>1. Init => Counting
  BY DEF Init, Counts, Live, Idle
<1>2. IInv /\ [Next]_vars /\ Counting => Counting'
  BY KeepsCounting
<1>3. ASSUME IInv, [Next]_vars, Counting, NEW c \in Calls, Live(c), call'[c] # call[c],
             call[c].req.tool = "decompress_tar", alone[c]
      PROVE  Cardinality(BlocksOfNew(files', call[c].before, call[c].req.out)) <= Limit
  <2> PICK K : Known(K)
    BY <1>3 DEF IInv
  <2>1. Step(c) \/ EncryptBody(c) \/ Timeout(c)
    <3>1. ~UNCHANGED vars /\ ~Edit /\ ~Rest
      BY <1>3 DEF vars, Edit, Rest
    <3>2. ~\E r \in Requests : Start(c, r)
      BY <1>3, StartIsOwn
    <3>3. ASSUME NEW d \in Calls, d # c,
                 (\E r \in Requests : Start(d, r)) \/ Step(d) \/ EncryptBody(d) \/ Timeout(d)
          PROVE  FALSE
      BY <1>3, <3>3, StartIsOwn, StepIsOwn DEF OwnStep
    <3> QED BY <1>3, <3>1, <3>2, <3>3 DEF Next
  <2> QED BY <1>3, <2>1, OwnStepCounts
<1>4. IInv /\ Counting /\ [Next]_vars => [\A c \in Calls : ExtractionFits(c)]_vars
  BY <1>3 DEF ExtractionFits
<1>5. ([\A c \in Calls : DecompressionFits(c)]_vars /\ [\A c \in Calls : ExtractionFits(c)]_vars)
        => [\A c \in Calls : DecompressionFits(c) /\ ExtractionFits(c)]_vars
  OBVIOUS
<1> HIDE DEF Counting
<1> QED BY <1>1, <1>2, <1>4, <1>5, Invariant, DecompressionsFit, PTL DEF Spec, LimitHolds
=============================================================================
