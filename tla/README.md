# TLA+ for mcp-filesystem

TLA+ modules, TLC configurations and TLAPS proofs about mcp-filesystem, a Model
Context Protocol server (Rust, tokio, axum) that offers file tools inside a set
of allowed directories, over standard input or over HTTP. Source paths below
are relative to the repository; `PROJECT.json` maps every definition to the
lines it models and lists the runs, mutants, findings, hazards and theorems.

## 1. The system

| Part | Source | State | Operations |
|---|---|---|---|
| Stdio transport | `src/server.rs` 160-354 | read buffer, line, pipe position | `run_stdio`, `read_line_capped`, `process_one_line`, `write_oversize_error` |
| HTTP transport | `src/http.rs` | `HttpState::sessions` (`RwLock<HashSet>`) | POST/GET/DELETE `/mcp`, POST `/rpc`, four read-only endpoints |
| Dispatch | `src/server.rs` 360-577, `src/tools.rs` | none (a static tool table and the enabled categories) | `process_request`, `process_request_http`, `handle_tools_call` |
| File tools | `src/actions/files.rs`, `csv.rs`, `dirs.rs`, `compress.rs`, `crypto.rs` | the directory itself; locals of a handler | 41 tools |
| Sandbox | `src/validation.rs`, `src/config.rs` | `PathTrie` of the allowed roots, lazily opened `Dir` handles | `resolve`, `rename`, `copy`, `create_symlink`, `Resolved::*` |
| Structures | `src/structures.rs` | `PathTrie` nodes; `RingBuffer` slots, head, size | `insert`, `contains`, `longest_prefix`; `push`, `pop`, `to_vec` |
| Resources | `src/resources/mod.rs` | none; every page is a fresh scan | `list`, `read`, `templates` |
| PHP proxy | `deploy/php-proxy/index.php` | none | forwards POST and DELETE |
| Browser UI | `app/ui/app.js` | pending calls, current path | opens directories and files through the bridge |

How they interact. A transport parses a request and awaits
`process_request` under `tokio::time::timeout`. A tool's handler resolves its
paths synchronously and then awaits closures on tokio's blocking pool, one
after another; each closure makes the system calls. Handlers share the
directory and nothing else: no path is locked. Over stdio one request is
handled at a time; over HTTP every request has a task of its own. When the timer
fires, the handler is dropped and the client answered, but a closure that is
queued or running is detached and keeps going.

What is hard, part by part, and what makes the part correct:

- *File tools*: interleavings of handlers at every `.await`, check-then-act
  (`move_file`, `csv_create`, `delete_file`), read-modify-write (`edit_file`,
  the CSV tools), truncate-then-write, detached closures, a kill in the middle.
  Correct: an undisturbed call does exactly what it reports; only a timeout
  leaves work behind; every call is answered; one at a time, calls look atomic.
- *HTTP sessions*: a session validated and then deleted, racing DELETEs,
  dropped connections, restarts. Correct: an ended session stays ended, has one
  owner, is deleted once, and serves nobody afterwards.
- *Stdio*: bytes arrive in pieces unrelated to lines. Correct: the responses
  depend on the text alone, in order, none missing and none held back.
- *RingBuffer*: index arithmetic around the end. Correct: it is a queue of the
  last `capacity` items.
- *Sandbox*: roots are canonicalised at the start and opened on first use; a
  path is walked for links, canonicalised, cut at a root, and by some tools
  resolved a second time. Correct: what is opened, changed and reported is the
  path that was asked for, in an allowed directory.
- *Directory tools*: five tools walk with four pieces of code. Correct: they agree
  on what is in a directory.
- *Resources*: a page is cut from a scan of its own, which does not go through the
  sandbox that reads them. Correct: the pages cover what there is, and what is
  listed can be read.
- *Archives, codecs*: a limit counted chunk by chunk, handlers that create and copy in
  the handler itself and are dropped in the middle, encoders that are dropped, outputs
  that are links. Correct: success means complete output, the limit holds whatever
  happens, the source survives; section 6 says where the code falls short of it.
- *Encryption, keys*: header and body are two writes, a pair two files. Correct:
  a text comes out only if it was sealed with the key that is given.
- *CSV tables*: columns by name or position, ragged rows, a writer that fails after
  it has truncated. Correct: a table the tools made stays one they can write, and
  they are operations of a table with named columns.
- *Dispatch*: the tool table, the categories and the read-only mode. Correct: only
  an enabled tool changes anything.
- *PHP proxy, browser UI, TLS, arguments*: see section 7.

## 2. Modules

| Module | Models | Composes |
|---|---|---|
| `CallOps` | arguments of the tools, what a tool makes of a text | |
| `ToolCalls` | nine file tools as concurrent calls; blocking pool, timer, kill | `CallOps` |
| `FileStore` | abstract: what the tools promise a client that makes one call at a time | `CallOps` |
| `ToolCallsAtomic` | the refinement mapping from `ToolCalls` to `FileStore` | both |
| `ToolDocs` | sentences of `tools.json` as action properties | `ToolCalls` |
| `HttpSessions` | the HTTP endpoints and the session set | |
| `StdioLoop` | the stdio transport over a pipe | |
| `BoundedQueue` | abstract: a queue that keeps the last items | |
| `LineRing` | `RingBuffer`, and its mapping to `BoundedQueue` | `BoundedQueue` |
| `TailRead` | the tail branch of `read_text_file` | `LineRing` |
| `Dispatch` | the tool table, `EnabledCategories`, the gate of `tools/call` | |
| `CsvTable` | what the eleven CSV tools compute, and what reaches the disk | |
| `CsvServer` | a server whose clients keep a table in one file | `CsvTable`, `Dispatch` |
| `TableStore` | abstract: rows with named columns | |
| `Formats` | codec streams, sealed files, archives and file names, as tokens | |
| `TransformCalls` | state, arguments and start of the nine tools below | `Formats` |
| `CodecTools`, `CipherTools`, `TarTools` | gzip and zstd; encryption and keys; tar | `TransformCalls` |
| `Transforms` | those tools together, the timer, another program | the three |
| `TransformDocs` | a sentence of `tools.json` as an action property | `Transforms` |
| `PathTrie` | `PathTrie`: `insert`, `contains`, `longest_prefix` | |
| `FileTree` | directories, files, links and the system calls on them (external) | `PathTrie` |
| `Sandbox` | the trie, the handles, `resolve`, and the two-path tools | `FileTree` |
| `PathTools` | tools that get at one file by handle, by path or by both | `Sandbox` |
| `DirTools` | the five tools that walk | `PathTools` |
| `Resources` | `resources/list` and a client that follows its cursors | `DirTools` |
| `SandboxPaths` | all of these as concurrent calls, and another program | `Resources` |
| `MC*` | constants for TLC | the module of that name |
| `*Proofs` | the theorems | the module of that name |

### ToolCalls

State. `dirent` and `data` are the directory and the inodes; a text is a
sequence of tokens, each `Seed` or the call that wrote it. Per call, `op` is its
arguments, `stage` the `.await` its handler is at, `task` the closure that await
handed to the pool (`queued`, `opened` between the open and the write, `ok` or
`failed` when the result waits for the handler), `seen` the inode looked up
last, `handle` the inode open for writing, `buf` the text read or about to be
written, `reply` what the client was told. `alone` is a history variable: no
conflicting call was in flight at the same time.

Actions. `Submit` and `Refuse` are the synchronous prefix of a handler, with the
checks that are made there: `move_file`'s and `csv_create`'s look at the
destination, `read_text_file`'s at the source. `StatTask`, `ReadTask`,
`RenameTask`, `UnlinkTask` are closures of one system call; a writing closure is
two (`WriteOpen` or `CopyOpen`, then `Body`), because the truncation is visible
in between. `Continue`, `Succeed`, `GiveUp` are the handler resuming. `TimeOut`
drops the handler and keeps a queued or running closure. `TaskFails` and
`WriteFails` are errors of the operating system, the latter after any prefix.
`Kill` ends handlers and closures and leaves the files.

Abstractions. A closure that reads is one step: `read_csv_file` opens, stats and
reads by path, and the properties are about calls no other call disturbs.
Paths resolve (the sandbox is not part of this module). A text is written in one
`write`, or in a prefix of one that fails. `edit_file` makes one edit.
`csv_create` is called without `overwrite`.

### HttpSessions

One action per `.await` of the four handlers: `Arrive` runs the checks of the
request head and body in the order of the handler (media type, origin, token,
protocol version, Accept, body, session header), `Insert`, `Enter`, `Unknown`
and `Remove` are the critical sections under the session lock, `Respond` the end
of `process_request_http`. `Disconnect` is a client that goes away, `Restart` a
new process with an empty set. `issued`, `ended` and `late` are history.
Clients send only session ids that a response has named.

### StdioLoop

`written`, `filled` and `consumed` are three positions in the client's text:
what is in the pipe, what one read has brought into the `BufReader`, what
`read_line_capped` has taken. `TakeLine`, `TakePart` and `TakeEnd` are the
branches of one turn of its loop. A byte is a newline, a byte of a request or a
byte of a notification; a line that mixes them, or is empty, does not parse. What is due is defined on the text
alone: `Responses(text, ends)` has one response per line end in `ends`, numbered by
the lines before it, except for notifications and for what comes after a line that is
too long. `InOrder` says that the line numbers sent increase, that all are due, and
that none due is left out before one that is sent.

### LineRing, TailRead

The fields of `RingBuffer` and its operations; `capacity` is chosen by
`RingInit`, so one run covers several. `TailRead` pushes the lines of a file and
drains the ring. A push on a ring without slots is out of bounds; the release
profile (`panic = "abort"`) ends the process, which is the state `aborted`.

### Dispatch, CsvTable, CsvServer

The four states of a tool name (`unknown`, `disabled`, `readonly`, `run`) come from
`Gate`, over the sets that `ALL_TOOLS` lists. A file is the sequence of its
records. An operator of `CsvTable` returns the set of results a tool can have,
empty when it refuses. `MaxPage`, `MaxRange` and `MaxValues` are the limits of the
reading tools (10 000, 100 and 1 000 rows), of which the first cuts a page and the others
refuse a range. `Written` is what the csv crate leaves (external): it writes
records of one length only and fails on the first other one, after the file has
been truncated; `Torn` is a write that the system cuts off. `CsvServer` makes one
call after another, each preceded by the gate, with `write_file` and `delete_file`
as the tools that do not keep a table. Calls that overlap are in `ToolCalls`,
which has `csv_create` and `csv_add_row`. `tidy` is history: the file
comes from `csv_create` with distinct names and was written by CSV tools only, to
the end. While it is true the file is mapped to `TableStore`; otherwise to a table
without columns, which no file of the tools is.

### Formats, TransformCalls, CodecTools, CipherTools, TarTools, Transforms

A file is a sequence of tokens: plain blocks, compressed blocks and a checksum, a
header and sealed blocks, archive headers and blocks, keys. Codecs, ciphers and
the archive format are external and ideal. `OldTokens` are the tokens of the files
there at the start and the ones inside them (`WellMade`: a set that has with a token
what is inside it); `minted` are the sealed tokens that exist, first those of
`OldTokens`. `Formats` keeps what the tools compute
from names: `derive_output`, `is_hidden`, `with_extension`, the name of a public key.

`call[c].pc` is how far the work of a call is; `ans` is what its client was told,
so that a closure can run on after the timer (`Timeout`) has answered. Only the
stages in `StoppedByTimer` end with the handler. `decompress_*` opens, creates and
copies in the handler, each an await of its own: `handed` counts what was given to the
file and `pos` what has landed, one chunk behind at most (`Hand`, `Land`, `DroppedEnds`).
tokio's `File::create` is a closure on the pool, so that a handler dropped while it
waits for it leaves it there (stage `late`), to empty the output later or never
(`LateCreate`). Other tools are one closure, whose
open, writes and finish are steps of their own since other calls see what is in
between. `CompressFails`, `TarFails` and their like are errors at every
system call. `Edit` is another program that writes to a file.

A path is not a file: `OutputPath` is what `derive_output` computes, which resolves a
path that is given and not the sibling it derives, and `Output` the file that
`File::create` reaches through a link (`Links`, `FileOf`). The check in `Refused` compares
paths. The public key of `generate_key` is a sibling, too (`PublicFile`).

An archive may have a codec around it. `text` is the archive, and what has come
through the encoder is a beginning of the stream (`Stream`, `Passed`), all of it only
without a codec. `into_inner` of the builder writes the end mark and returns the encoder,
which is dropped at once (`TarClosed`): gzip ends its stream then and nobody is told
whether it worked, zstd writes nothing more. `TarCollect` takes any part of the visible
files, since `WalkDir`'s errors are skipped; `skipped` is history. `decompress_tar` tells
the codec by the first bytes (`CodecOf`), and reads up to where the decoder comes
(`Decoded`, `EndsWell`).

The properties exempt what the code does not promise: the result of an archive
whose entries overlap or stand behind the end mark (`WellFormed`), or that is extracted
onto itself (`NamesItself`); of two entries with one name the last counts
(`IsLastOfName`); a tool told to write over its own key file, or whose derived output
is a link to its source (`OntoSource`), does so; of an archive with a codec the file is a
beginning, and files the walk could not read are missing from any. Section 6 sets the
last three against the documentation; the run `ZstdArchive` shows one of them.
`LimitHolds` is `DecompressionFits` for one file and `ExtractionFits` for the sum of an
archive.

Abstractions. What a request names is resolved and no link; no link is in a directory
that is archived, or where an archive is extracted, which unlinks what is there and
creates it anew (`LinksAssumption`). An archive is of a directory with files only. A
header and a block of a file become one token of the stream each. A codec keeps back what
it likes. `GzEncoder` and `tar::Builder` finish their stream when dropped, so that a failed
compression can leave a well-formed, shorter output; this is in the model.

### PathTrie, FileTree, Sandbox, PathTools, DirTools, Resources, SandboxPaths

A path is the sequence of its names; a node of the trie is the path that leads to
it. `FileTree` is the tree as a function from paths to nodes with the lookup of
the operating system (links, `.` and `..`, a bound on the hops). The lookup is a
recursive function over the number of hops (`Hops`), so that it can be proved about.

`Sandbox` has the trie and the configuration as fixed at the start, `roots` with
the directory each handle is on (a handle follows its directory when it is moved),
and per call the stage, what its paths resolved to, and its answer. `CheckLinks`
(`check_symlinks`) and `Canonicalize` (the rest of `resolve`) are two steps,
because they are two walks. `Rename`, `Copy` and `CreateSymlink` resolve again
first (`ResolveAgain`), as the functions of `Sandbox` do, and report the first
resolution. `Open` opens all roots on first use; if one cannot be opened the
process ends (`Aborted`). `Change` is another program that moves, removes,
or replaces something.

`PathTools` tells tools apart by what they open: the handle (`list_directory`,
`write_file`, `create_directory`, `delete_*`, and `resources/read` twice), the canonical
path (`read_file_range`), or the handle for the metadata and the path for the text
(`read_media_file`, `hash_file`). `DirTools` has one operator per walk,
`Resources` the scan, its order and the pages cut from it.

Abstractions. A walk or a scan is one step. Permissions, metadata, MIME types, URI
escaping and the limits on search, grep and tree size are left out; a system call
fails for the reasons the tree gives. `remove_dir_all` removes all or nothing,
except on a root, of which it removes the contents and then fails. URIs are
compared name by name. `alone` is history, as in `ToolCalls`, and
the properties speak of calls that are `alone` while the roots are where they
were at the start (`RootsInPlace`): when a root has been moved or replaced, the
handle and the canonical path name different directories, and the tools that use
one disagree with those that use the other.

## 3. Runs

| Run | Shows |
|---|---|
| `HttpCalls` | `TypeOK`, `AnsweredIsQuiet`, `AloneChecksHold`, `AloneIsApplied` for two concurrent calls of all nine tools on two paths; every call is answered though any system call may hang (`Answered`), and where they return a timed-out call's closure ends (`Drains`) |
| `StdioAtomic` | `ToolCalls` implements `FileStore` when calls are sequential and none times out |
| `HttpSessions` | `EndedStayEnded`, `OneOwner`, `DeletedOnce`, `LateIsRefused` and `Answered` for three requests |
| `StdioLines` | `InOrder`, `AllAnswered`, `NotHeldBack`, `Stops` for every text of at most six bytes |
| `TailLines` | `RingOK`, `AnswersTail` and the refinement of `BoundedQueue` for files of up to seven lines, `tail` 0 to 3 |
| `CsvTables` | `TidyStaysTidy`, `ReadersAgree` on every file reached, `ChangesAreEnabled` for every start of the server, and that the tools implement `TableStore` |
| `Transforms` | `SuccessIsComplete`, `SourceKept`, `LimitHolds`, `DecryptsWhatWasSealed`, `AnsweredChangesOnce` for two concurrent calls of nine tools, outputs that are links, timeouts and failures |
| `SandboxPaths` | `TrieFindsRoots`, `AcceptedIsCanonical`, `ReadsWhatIsThere`, `ReportsWhatItChanged`, `WalksAgree`, `ListedIsReadable`, `PagesCoverAll` for two calls and one change from outside |

Runs that show a disagreement between the code and its documentation:

| Run | The code |
|---|---|
| `CopyOverwrites` | `copy_file` replaces a destination that exists (`tools.json:117` says it fails). With source and destination the same file, it empties it. |
| `MoveOverwrites` | over HTTP, `move_file` replaces a file created after its check (`tools.json:105` says it fails); `csv_create` does the same (`tools.json:413`) |
| `TailZero` | `read_text_file` with `tail: 0` panics on a file with a line (`tools.json:10`) |
| `ZstdArchive` | `compress_tar` with zstd reports success for an archive without its end (`tools.json:341` says it can be extracted) |

Bounds and why they are enough:

- *Two calls, two paths* (`HttpCalls`): every conflict in `Conflict` is between two
  calls, and two paths tell `path` from `dst`. A third call is needed for one
  situation only: a detached writer whose file is renamed and found by another
  call (`MeetsWriter`). The theorems of `ToolCallsProofs` cover it for any number
  of calls. Files start with two seed tokens so that a prefix, an edit and an
  overlay differ; `MaxSize` is 3 tokens so that one append fits and a second
  does not.
- *Three requests, three sessions* (`HttpSessions`): an initialize, a DELETE and a
  request that races it or comes after it; the proofs cover any number.
  `MCShapes` sends every endpoint with and without initialize and notification,
  and one request that fails two checks.
- *Six bytes, lines of three, pieces of three* (`StdioLines`): two whole lines
  and the start of a third, lines at, below and above the limit, and lines that
  span pieces.
- *Capacity three, seven lines* (`TailLines`): the head goes around the buffer
  more than once. Pushes after pops, which a tail read never makes, are covered
  by the proof of `RingIsQueue`.
- *Files of six fields, three names* (`CsvTables`): a header and two rows of two
  columns, or three columns and one row; a file may be written longer than that
  (by a tool that then cannot read it back) but not read. The files `write_file`
  leaves include ragged rows, a doubled name and an empty file. Two of the names
  are in the first table, so a rename and an addition can both collide. The limits of
  the reading tools are 4, 2 and 3 rows, so that a table of one column exceeds each. `VIEW
  MCView` drops the arguments of the last call, which no guard reads; the action
  properties are about the step, where they are still there.
- *Two calls, limit of two blocks, one edit* (`Transforms`): the calls are any
  two of twenty-four requests, which share a source or an output, or read what the other
  writes. Sources of up to three blocks are below, at and above both limits; two
  archives hold two files, the second beyond the limit or with a name that is
  refused. One edit can come between any two steps of an archive's creation. The
  sibling a compression derives is a link to its source, the one of a public key a link
  to a file that is decrypted. An archive with a codec is of one file, one without of two,
  of which one is empty; this directory is in a start of its own, with the edits. The run of `TransformDocs` has one call.
- *Two calls, one change* (`SandboxPaths`): nested roots and a root that is a link;
  files at depth one to three; links to a file, to a directory, out of the roots,
  dangling and to the directory they are in; `..` and missing names in requests.
  The second call and the change are the two ways a tree changes under a call.
  Two calls that only read are not paired. Pages of two entries and at most three
  files give listings of one, two and three pages. `MaxHops` and `WalkDepth` exceed
  the longest lookup and the deepest walk of these trees. `VIEW MCView` forgets the
  details of a call that has been answered, which no property looks back at.

`Rest` steps let a finished bounded run stutter, so deadlock is checked everywhere.
No run uses symmetry.

## 4. Fairness

- `TimerFairness`: handlers that are ready are polled and the timer fires. The
  pool gets none, so `Answered` holds although a system call may hang for ever.
  It assumes that the synchronous prefix of a handler (path resolution) returns:
  it runs on the executor's thread, where no timer can interrupt it.
- `PoolFairness`, the hypothesis of `Drains`: the operating system completes what
  it started. The pool is not assumed to be fair anywhere else.
- `HttpSessions!FairSpec`: ready handlers are polled, tokio's `RwLock` is fair and
  no handler holds it across an `.await`, and `process_request_http` returns
  because of its timeout.
- `StdioLoop!FairSpec`: `run_stdio` resumes when the pipe has data or is closed.
  Neither the client's writes nor I/O errors are fair.

## 5. Proofs

All theorems are for every value of the constants, under the named assumptions
of the modules, which TLC evaluates on the runs: `OpsAssumption`,
`ConstantsAssumption`, `SessionsAssumption`, `RingAssumption`, `FilesAssumption`,
`StdioAssumption`, `CsvAssumption`, `AbsentAssumption`; for `Transforms`,
`TransformsAssumption`, `OutputsAssumption` (files are made of `OldTokens`; requests
and what they write name paths of the model) and `LinksAssumption` (above); for `SandboxPaths`,
`LookedUpArePaths`, `NamesAssumption` (`.` and `..` are no names), `BoundsAssumption`,
`ConfigsAssumption` (a configuration has a list of directories and a Boolean),
`TreesAssumption` (a tree is finite, and every entry of it is in a directory),
`RequestsAssumption` (how many paths a tool takes) and `ChangesAssumption` (what another
program does).

Some theorems have a hypothesis besides. `Sequential` and `~Timeouts` are how
`StdioAtomic` sets its constants: one call at a time, as over stdio, and none times out.
`Absent` (`NoFile` is no sequence) and `Opaque` (`Unopened` is no table of handles) say
that a model value differs from data; they quantify over all sets, which TLC cannot
evaluate, and hold for any choice of the model value outside the data.

- `ToolCallsProofs`: `TypeCorrect`, `AnsweredCallsAreQuiet`, `IsolatedChecks`,
  `IsolatedEffects`. The last two do not follow from type correctness. Their
  inductive invariant has five parts. `Formed`: the stage of a call is one its
  tool reaches. `DistinctNames`: two names never name one inode (no tool makes a
  hard link). `FreshInodes`: an inode named after a call is in the directory or
  open only once that call has created it. `AloneApart`: a call that is `alone`
  conflicts with no call in flight and finds no file that another call has open;
  this is where the history of `alone` turns into a fact about the present.
  `AloneUndisturbed`: `ChecksHold`, and `Applied` when a result waits.
  `AtomicFileStore` is the refinement of `FileStore`, for any files, names and
  arguments: with `SeqInv` (the invariant and `OneAtATime`) each step of the one call
  in flight is a stutter until the answer, and the answer is the abstract operation,
  since what the abstract store holds until then is what the call found.
- `HttpSessionsProofs`: `SessionsTyped`, `EndedSessionsStayEnded`,
  `SessionsHaveOneOwner`, `SessionsDeletedOnce`, `EndedSessionsAreRefused`. The
  strengthening says that whatever a handler acts for was issued, that a 204
  means its session has ended, and that `ended` and `sessions` do not meet.
- `TailReadProofs`: `RingWellFormed` and `RingIsQueue`, the refinement of
  `BoundedQueue`. The remainder in `Slot` is first replaced by a comparison
  (`SlotsAreEasy`), then the slots are numbered from 0 (`RingInv`), after which a
  push and a pop are linear arithmetic. `PushHeld` and `PopHeld` say what they do
  to the sequence held. `TailIsAnswered` follows from the two: while
  reading, the ring holds the last lines read; while draining, the answer
  followed by the ring is the answer.
- `SandboxProofs`: `TrieFinds`, for any set of allowed directories and any path,
  and `TrieAnswers`, the invariant of the run. `MatchesAreRoots` says that the walk
  down the trie reaches every root above a path, `Greatest` that a bounded set of
  lengths has a maximum (by well-founded induction), `InsertGrows` that the order of
  insertion does not matter. The trie is as built at the start in every state.
  `SandboxTyped` and `AcceptedPaths` are the type invariant and `AcceptedIsCanonical`:
  whatever a call has accepted is at or below the root whose handle goes with it, and,
  where links are not followed and nothing else changed the tree, it is the path the
  client named, normalized.
  - The lemmas about lookups: `HopsStay` (a lookup ends at a path of the tree or
    fails), `StraightPlace` and `StraightCanonical` (a path on which there is no link
    leads to itself, which is why `check_symlinks` suffices). About changes of the
    tree: `PutKeeps`, `WithoutKeeps`, `MkdirAllKeeps`, `RenamedKeeps` (every entry stays
    in a directory). `NormalIs` is `normalize_path`. The recursive functions are used
    through `StepsTaken` and `HandedOn`: induction over an interval for one function.
  - The inductive invariant `IInv` has `Shape` (the stage of a call tells how many of
    its paths are resolved), `Accepted` for each of them, `RootsOK` (a handle is on a
    directory of the tree or on one that is gone), and for the steps in between:
    a path that `CheckLinks` let through has no link when `Canonicalize` comes
    to it unless somebody changed the tree, and before `apply` both paths are
    under a root (`Rooted`). `Settled` is what each change of the tree must show, and
    `OthersKeep` that then all other calls keep their part.
- `LookupProofs`: `ReadsTheFile`, `ReportsTheChange`, `WalksShowTheSame`, from the
  invariant above and a second one, `KInv`. It says what an undisturbed call still
  knows of the tree when it comes to its last step: that each path it has resolved is
  what `canonical_or_parent` would give now, and that its root is the one to which a
  handle is open. Another call may have changed the tree any number of times
  before this one started.
  - *Two lookups, one file.* A tool looks a path up from `/`, and what was accepted
    once more beneath the handle of a root. They take different numbers of hops
    through different links. `StraightLookup` says that a lookup of a path without links
    ends at it, `CanonicalIsPlace` and `CanonicalEntry` that the canonical path is such a
    path, `SameWay` and `SamePlace` that two lookups which once agree agree at the end.
    `PathLeads` puts these together for a call that is about to act.
  - *One change.* `ReportsTheChange` has a lemma per tool (`WriteReports`, `MoveReports`
    and the like) about what is at each path afterwards: `PutIs`, `WithoutIs`,
    `RenamedIs` for a single system call, `MadeOne` for `create_dir_all`, all of whose
    parents exist when `resolve` has accepted the path.
  - *Four walks.* `WithinDepth` says what a walk can see, without recursion: the paths below
    the root that are so many levels deep and have nothing skipped above them. `TreeWalk`,
    `SearchWalk` and `UsedWalk` show each recursive walk to be that (`WalkEnds`: by induction
    over the levels), after which `WalksAgree` compares sets. `NoLoops`: without links to
    directories the check for loops skips nothing.
  - *The pages.* `ListedCanBeRead` and `PagesAreComplete` (`ListedIsReadable` and
    `PagesCoverAll`) have an invariant of their own, `LInv`: while nothing changes the
    tree, what a client of `resources/list` has seen is the beginning of one listing, up to
    its cursor (`Paged`), although every page is cut from a new scan. It needs no more
    than the tree and the configuration, so `CallPages` follows it beside `IInv`. The last
    page completes it (`LastPage`).
  - *The listing.* `Before` is a strict total order of paths (`BeforeOrders`: the first
    place where two weights differ). The i-th path is the one with fewer than i entries
    before it and at least i not after it; `IthPath` finds it, by a least element instead
    of an induction over lists, and `SortedIs` says what the list holds and how often.
    `VisibleIsScanned` and `ScannedIsVisible` compare the walk with the definition of a
    visible file, `EntriesCount` counts the directories it is in, and `ListedIs` shows that
    a path is listed only if a lookup of it ends at it, which is what `resources/read` needs.
- `CsvServerProofs`: `Typing`, `TidyTables`, `OnlyEnabledChanges`, `ReadingAgrees` and
  `TableRefined`. `TypeOK` is inductive. The second theorem strengthens
  `TidyStaysTidy` by the type of the file; one lemma per tool says that it makes a
  clean table of a clean one (`Clean`: equal lengths, distinct names), and
  `WrittenIsClean` that what reaches the disk is one again, also for the table
  without columns, whose records become blank fields. The third needs only that a
  server keeps its mode. The values of cells are opaque: `Blank` and `Fields`.
  - `ReadingAgrees` holds of any table, so it needs the type of the file only.
    `PageBetween` is the arithmetic of offsets and limits; `ColumnsAgree` follows one
    column through the three tools, where the last of two columns with one name counts.
  - `TableRefined` is the refinement of `TableStore`. `RowAt` turns a row by position
    into one by name, and is one-to-one with the columns as long as names are distinct,
    which is why `TidyInv` is needed. One lemma per tool says that its change of the rows
    is the abstract one (`UpdatedRefines`, `RenamedRefines` and the like); `AfterIs` that
    what is read again is what was written, except that a table without columns
    comes back with a blank one. `RewriteRefines` sorts the outcomes of a call: an error
    is `Fails`, a cut write `Loses`, and a file that is not the tools' own `NotOurs`.
- `StdioLoopProofs`: `LinesAreCapped`, `AnsweredInOrder`, `AnsweredWhole`,
  `WaitingIsAnswered`. `TypeOK` is
  inductive; the only step that is not immediate is a piece that ends or prolongs a
  line (`TakeKeepsType`). `LinesInv` strengthens the other two: there is a position up
  to which everything due is answered (`AnsweredTo`) and from which the line in the
  buffer is read (`ReadFrom`), wherever the pieces were cut. `WaitingIsAnswered` is what
  `NotHeldBack` says, of the states in which no step of the server has its guard
  (`Waits`): all that was written is consumed, and what is left in the buffer is the
  beginning of a line (`Terminated`), so that every whole line has its answer.
- `TransformsProofs`: `Typing`, `OpensOnlySealed`, `AnsweredChangesAtMostOnce`,
  `SourcesAreKept`, `LimitIsKept`, `SuccessMeansDone`, for any calls, requests, files,
  links and limits.
  - `IInv == \E K : Known(K)`: there is a set of tokens, closed under what is inside
    them, of which every file and every buffer is made, and whose sealed tokens are
    `minted`. It is existential because tokens nest without bound (a sealed
    archive of sealed files), so no fixed set has them all. `Held` is what a
    call has in hand at each stage; `OpensOnlySealed` is its part `Unseals`.
  - `OwnStep` and `OwnFiles`: a step of a call changes that call and its own
    files. With them `AnsweredChangesAtMostOnce` (of a decompression that has been answered
    one creation or one chunk is left, and each change uses it up), and `SourcesAreKept` with `Kept` for one step of the call itself and
    `OthersKeepSources` for the others.
  - `SuccessMeansDone` is `SuccessIsComplete`: a predicate for each kind of tool says what
    its output is at each stage (`Beginning`, `Compressing`, `Decompressing`,
    `Encrypting`, `Decrypting`, `Pairing`, `Archiving`, `Unpacking`). Together they are
    `Work`, which holds as long as the call is alone. At the last stage
    each is `Meets`. `Archiving` carries the order in which the files are taken and the
    end of each in the archive, and apart from that how much of the stream the file has
    (`Begun`; `WrittenOn` says that a beginning written on is a beginning). `Unpacking` is
    that the entries done so far are extracted. A call whose output leads to its source
    (`OntoSource`) makes no such promise.
  - `LimitIsKept` has two halves. `DecompressionsFit` is about one file. For an
    extraction the sum of the lengths is the number of the blocks extracted
    (`BlocksOfNew`: a sum over a set would be induction over data, the cardinality of a union
    is not), and `Counts` says that while the call is alone they are no more than it has
    counted, with `EntryFits` for the last entry, of which only a part may arrive.

Model-checked only: liveness (`Answered` of both modules, `Drains`, `Stops`), out of reach
of the prover, and `NotHeldBack` as it stands, with `ENABLED` (`WaitingIsAnswered` has the
guards).

Some properties are stated with limits, which the proofs made visible. `InReach`: no
path of the call takes more than `MaxHops` hops, since beyond the limit a lookup beneath
a root can still succeed where one from `/` has failed. `Comparable`: nothing below the
directory lies deeper than the walks go (`MaxTreeDepth` is the server's limit, `WalkDepth`
and `MaxHops` are the system's). `ListsAll` asks the same of the whole tree: a path longer
than `MaxHops` could be listed and then not be looked up. The run has no tree that exceeds
these limits.

## 6. Findings and hazards

`PROJECT.json` has them with their lines, and the lines of every definition except
three helpers that take an operator (`Handles`, `Walk`, `WalkDir`),
which belong to the lines of those that use them. Each hazard names the properties that
would catch it, or says why none does yet.

Other sentences of the documentation that the code, as modelled, does not keep,
without a run of their own:

- `create_directory` creates "any missing parent directories" (`tools.json:68`) and
  `write_file` "creates parent directories", but a path whose immediate parent does
  not exist is refused by `resolve` before the tool starts.
- `compress_gzip` and `compress_zstd`: "Output path must differ from source"
  (`compress.rs:35`, `179`). The check compares paths, a derived output is not resolved
  (`util.rs:51-61`) and `File::create` follows links: if `f.gz` is a link to `f`, the check
  lets it pass and `f` is emptied before it is read. The model has such a link, and
  `SourceKept` and `SuccessIsComplete` exempt exactly this case (`OntoSource`).
- `compress_tar` adds "all contents" of a directory (`tools.json:341`); what the walk
  cannot read is left out (`filter_map(|e| e.ok())`, `compress.rs:361`) and the call
  reports success. In the model these entries are `skipped`.
- `PathTrie::insert`: "inserting `/a/b` also makes `/a` valid" (comment,
  `structures.rs:57-59`). Only the last node is an end (line 82), so `/a` is not valid,
  which is what the unit tests (346, 358), the sandbox and `TrieFindsRoots` want.
- `compress_tar` takes "a file or directory" (`tools.json:341`); of a file the path
  relative to itself is empty (`compress.rs:394`), which the tar crate refuses as the
  name of an entry. The requests of the model name directories.
- `generate_key` is annotated as read-only (`server.rs:59`), though it writes files
  when `output` is given.
- The public key goes to `{output}.pub` (`tools.json:400`, `405`); `with_extension`
  replaces what follows the last dot, so keys `k.a` and `k.b` share `k.pub`.
- `csv_add_row` "ignores" unknown keys (`tools.json:443`); they are errors.
- `list_directory` shows dot files, which `tools.json:80` says are hidden.
- `directory_tree` follows links whether or not `follow_symlinks` is set.

## 7. Not modelled, and the plan

- *Arguments and configuration* (`args.rs`, most of `config.rs`, `protocol.rs`):
  parsing without state, apart from the defaults and checks the models use.
- *TLS* (`tls.rs`): loads certificates.
- *`set_permissions`, metadata, patterns of `search_files` and `grep_files`*: values
  that no other operation of the server reads.
- *PHP proxy* (`deploy/php-proxy/index.php`): forwards a request and gives up after a
  time of its own (line 275), after which the server still carries it out; for the
  server this is the `Disconnect` of `HttpSessions`.
- *Browser UI* (`app/ui/app.js`): applies a response when it comes (line 119), whatever
  the user has opened since. It keeps a path and two lists, outside the server.

In the plan, in this order:

1. `Server`: `StdioLoop` with `ToolCalls` in place of its one-step `Answer`.
2. A client of `resources/list` with the tree changing between its pages: what it may
   miss or see twice.
