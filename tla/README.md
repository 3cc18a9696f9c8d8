# SealGo in TLA+

SealGo encrypts streams: a random file key is wrapped for up to 255 X25519 recipients in a
header, and the plaintext follows in chunks, each sealed with XChaCha20-Poly1305 under a nonce
made of a random prefix and a counter, up to an authenticated marker that ends the stream.  This
directory models the part of it that has state, checks it with TLC on small instances, and proves
the central results with TLAPS for every value of the constants.  Paths such as
`stream/writer.go` are relative to the repository.

## Inventory

| component | state it keeps | operations | what makes it correct |
|---|---|---|---|
| `stream/writer.go` EncryptWriter | plaintext buffer, chunk counter, `closed`, `writeErr`, pooled buffer | Write, ReadFrom, Close (all through `flush`) | no nonce twice; what opens is the input in order; a stream that reads as complete is complete; frames fit the announced chunk size |
| `stream/reader.go` DecryptReader | position in the stream, counter, base nonce, AEAD, opened plaintext not yet read, `eof`, `consumed` | Read, WriteTo, Close | delivers the plaintext in order, never ends cleanly short of it, delivers nothing after a chunk failed to open; its first error, where it has an index, names the first damaged chunk, and a stream that was only cut is not called damaged |
| `core/chunk.go` | none | SealChunk, SealEOF, OpenChunk | a chunk opens only under its own counter; the marker is distinct from data |
| `SealGo.go` | none of its own | EncryptWithRecipients, DecryptWithIdentity: the loops over a writer or reader, and the Close | the pair is a copy: the output is a prefix of the input, success of the encryption means all of it |
| `stream/pool.go` BufPool | a `sync.Pool` of pointers to slices, shared by every writer and reader of the process | Get, Put | no buffer in two hands, none pooled with plaintext or nil |
| `stream/writer_recipients.go`, `stream/reader_recipients.go`, `core/recipients.go`, `core/hkdf.go` | file key, candidate keys | wrap the file key for each recipient; try each identity on each stanza by opening the first chunk | the right key is found when an identity has a stanza, no other is accepted, damage to one stanza reaches the others only through its type, rejected keys are wiped |
| `core/format.go` | none | header codec | what is written parses back; what is refused |
| `core/config.go` | the settings file and `path.tmp` | Save, Load, Validate | a reader sees an old or a new file; only a crash or an `os.Remove` that fails leaves a temporary file, which then blocks every Save |
| `cmd/cli/main.go`, and the file functions of `embed/export.go` and `cmd/sealgo_c/main.go` | the files they open | encrypt and decrypt files | a success is whole, unless it is that of decrypting what a failed encryption left; what a failed job leaves is a prefix, whoever shares the paths |
| `embed/export.go`, `cmd/sealgo_c/main.go` | strings of the C heap in structs of the caller | encrypt, decrypt, inspect, generate_keypair, free | every string is freed at most once and lost only by a caller that reuses a struct; no struct shows an older answer |
| `wasm/main.go`, `pystreamcrypt` | none | thin bindings | |
| `core/errors.go` | none | error values, the chunk index in them | what a caller can tell from an error |
| `core/features.go` | none | flag table | |

Interactions.  The facade creates a writer (which writes the header) and drives it with `io.Copy`;
the wire is any `io.Writer`, the other end any `io.Reader`, so writer and reader often run at the
two ends of a pipe, in different processes.  All writers and readers of a process share BufPool.

What is hard here: a sink that fails between the sealing of a chunk and its storing, and the calls
(Close above all) that come after it; frames that are authentic but lost, repeated, reordered or
cut off; callers that go on after an error or mix the two ways of reading; a process that dies in
the middle of a stream or of a Save; buffers that go back to a shared pool while a field still
refers to them; C structs that are reused, freed twice, or refilled by a call that takes its argument
from them; sizes at the edges of chunk and pool capacity.  `PROJECT.json` lists each hazard
at its line with the properties that cover it.

## Modules

| module | models | state and actions in terms of the code |
|---|---|---|
| `SealFrames` | the chunk format, `core/chunk.go` | no state.  A plaintext byte is its offset in the input, so that a run of plaintext is an interval; a frame is a sealed chunk with the counter it was sealed under, and `OpenChunk` succeeds exactly on an intact frame under that counter. |
| `EncryptWriter` | `stream/writer.go` | `buf`, `counter`, `closed`, `writeErr` are the fields of the struct; `call`, `todo`, `src` the progress of the call in hand.  `WriteAppend` and `WriteFlush` are the two kinds of iteration of Write's loop, `ReadPiece` one of ReadFrom's, `CloseFlush` and `CloseEOF` the two writes of Close.  `wire` is what the sink has stored. |
| `EncryptWriterProofs` | | the theorems about it |
| `DecryptReader` | `stream/reader.go`, the errors of `core/errors.go` it returns | `counter`, `nonceOK`, `live`, `buf`, `eof`, `consumed` are the fields; `pos` and `aligned` say where in the stream the next read starts.  Each branch of Read is an action, and so is each way an iteration of WriteTo can go.  `res` is the kind of error; `failures` is what the caller was told of each chunk that did not open, an index or none. |
| `DamagedStream` | a reader alone | EXTENDS `DecryptReader`; the wire is complete and any corruption of a sealed stream |
| `DamagedStreamProofs` | | the theorems about it |
| `SealPipe` | `EncryptWithRecipients`, `DecryptWithIdentity` of `SealGo.go` | EXTENDS `EncryptWriter` and has an INSTANCE of `DecryptReader`, joined by a transport; `encJob` and `decJob` are the two facade calls, which may run in two processes |
| `SealPipeProofs` | | the theorems about it, on top of `EncryptWriterProofs` |
| `SealedCopy` | the promise of that pair | a copy: an input that grows, an output that is a prefix of it.  Only where the sink of a failing encryption may keep what it reports as failed (`MayRepeat`) can the last run of the input come twice |
| `BufPool` | `stream/pool.go`, and every Get, Put, append and wipe of the two stream files | `pool` holds pointers to slice headers, as `sync.Pool` does; `<<"own", a>>` is a header nobody else writes, `<<"field", r>>` is `&dr.sealedBuf` |
| `BufPoolProofs` | | the theorems about it |
| `RecipientHeader` | both constructors (`stream/*_recipients.go`), Wrap and Unwrap (`core/recipients.go`), `ParseHeader` | the arguments, the file key's copies and the loop variables `i`, `j` of the trials |
| `RecipientHeaderProofs` | | the theorems about it |
| `ConfigStore` | Save and Load of `core/config.go` | a directory with the two names `path` and `path.tmp`, files, and for each process the system call it makes next, each of which may fail |
| `ConfigRegister` | their promise | an atomic register |
| `ConfigStoreProofs` | | the theorems about both |
| `FileJobs` | `cmd/cli/main.go`, the file functions of `embed/export.go` and `cmd/sealgo_c/main.go` | files as sequences of units, and for each job the files it opens, reads and writes, one unit at a time; input and output may be one path.  `sealed` is what an encryption has sealed, stored or not, `held` what its buffer still holds when its copy fails: `ReadFails` and `ChunkFails` lead to `CloseFlush` and `EncryptClose`, as `ew.Close()` in `SealGo.go:67-70` does |
| `FileJobsProofs` | | the theorems about it |
| `CLibrary` | the exported functions of `embed/export.go` and `cmd/sealgo_c/main.go` | the blocks of the C heap, the `char*` fields of the structs, and for each thread the call it is in.  A call is two steps, `Enter` (the fields are set to NULL) and `Return` (the arguments are read, the answer is allocated and stored), between which other threads run |
| `CLibraryProofs` | | the theorems about it |

`MC<module>` instantiates a module for TLC.  A definition whose comment begins "Mutant of" is not
part of any specification: it is its neighbour with a plausible bug, kept to show that a property
notices the bug.

### What the models assume

* Cryptography is symbolic: Poly1305 is not forged, a wrong key gives another key, not an error.
* A counter is a natural number.  The code's 64 bits last for 2^64 chunks.
* A sink that returns an error has stored nothing of the chunk (`lost`), part of it (`torn`), or all
  of it (`kept`).  In the last case Close seals the same plaintext again under the next counter and
  both copies open: `OpenedIsInOrder` says that this happens to the last chunk only and after a call
  that failed.  A reader is then given the last chunk twice, with a clean end, while encryption
  reports an error: `SealedCopy` has an action for it (`Repeat`).
* A stream may end inside a frame (`cut`): within its length, right behind it, or in the sealed
  bytes.  These give the reader different errors.
* A call to Read of the reader is one step.  Past a torn frame the reader takes arbitrary bytes for
  a length; it may fall back into step at any later frame (`Resync`).  Several garbled chunks
  inside one frame count as one failed opening.
* `sync.Pool` may return any pooled pointer or make a new buffer.
* The source of a reader may fail with an error other than its end in `damaged_stream` only
  (`MayBreak`); the read end of the pipe in `SealPipe` ends, early or not, but does not fail.
* The source of a writer (`src`) may end, fail, or return `io.ErrUnexpectedEOF` itself (`short`).
* A unit of a file (a header, a chunk, the marker) is written by one `write`.  A write that fails
  leaves nothing of it, a part of it, or all of it (`WriteFaults`), and what the job writes next
  comes behind that.  The death of a process in a write looks the same, and between two writes it is
  the action `Fails`: in all these cases nobody is told of success.  A read that fails ends a
  decryption, and makes an encryption close its writer, with the marker.  A part of a sealed unit is
  bytes that no reader gets past (`Hole`), a part of plaintext is kept apart (`Part`).
* A job may have one path for both files, but plaintext is left alone by other jobs while it is
  being encrypted, and so are the output of a decryption and the file of a job in place
  (`JobsAssumption`).  Encryptions that are not in place are given plaintext, and nobody forges a
  chunk (`FilesAssumption`).
* `CLibrary`: callers keep to the rules of C.  Nobody writes a struct that a call is filling, or
  frees or overwrites an argument of a running call; keys come from the fields of a keypair or are
  NULL.  A freed block is allocated again only when no address of it is left, which makes every
  access through a stale address visible.  Calls with a NULL struct return at once and are left
  out; data are sealed once, not in layers.
* `ConfigStore`: processes die, the file system survives.  A stale `path.tmp` is removed only when
  no Save is working on it (`Tidy`).  Each of its calls may fail, `os.Remove` too.
* OpenChunk gives the AEAD no buffer to open into (core/chunk.go:56), so that sealed buffers never
  hold plaintext, the reader's comments to the contrary notwithstanding; `BufPool` follows the code.

## Runs

| run | question | bounds, and why they are enough |
|---|---|---|
| `encrypt_writer` | is every stream a writer can leave behind safe to read, and every call finite? | chunk size 2, 7 bytes, sink faults unlimited and of all three kinds: three full chunks, a last one and repeated failures around each of them |
| `damaged_stream` | can damage make a reader deliver a wrong byte or a clean end, blame the wrong chunk, or take a cut for tampering? | two chunks and the marker, all wires of up to 4 of these frames, whole, corrupted or torn, and those of up to 3 that are cut inside the last; a source that may fail between any two reads; a chunk size in the header that is right or too small; slices of up to 2 bytes, so that a chunk is also read in parts |
| `mixed_calls` | (finding) is mixing Read and WriteTo caught? | as above |
| `seal_pipe` | do the two facade calls implement `SealedCopy`, and return? | chunk size 2, 4 bytes, 2 faults of the transport, a crash at any step, sink faults of all three kinds on the encrypting side and failing writes on the other: two chunks, one of which can be damaged and the next dropped, and a last chunk that comes twice (662 018 states) |
| `buf_pool` | is a buffer ever in two hands, or in the pool with plaintext in it? | two writers, one reader, six arrays of two sizes, so that a Get can find a buffer of the other size.  2 units stand for 64 KiB, sealing adds one.  Callers are those of `SealGo.go`: default chunk size, no call after an error but the writer's Close |
| `pool_close`, `pool_large_chunk` | (findings) the same for callers the API admits: Close after a failed Read, a chunk size above the default | as above |
| `recipient_header` | does the reader get the writer's key, whatever is damaged and whichever identities there are? | lists of up to 3 recipients and 2 identities over two keys and a weak one; the count byte holds up to 2 and the largest chunk size is 2, so that both limits are crossed; one part of the header or of the first chunk damaged, a key or the type of a stanza among them |
| `key_zeroing` | (finding) is the file key wiped whenever the constructor returns? | as above |
| `config_store` | is the settings file an atomic register? | two processes that save and load for ever, four files, a configuration without version and one that Load refuses; every system call may fail, and the process die after it (329 890 states) |
| `file_jobs` | what can jobs that share files do to each other, and a job to its own input? | two encryptions to one path, one from the command line and one from the library, and a decryption from it; or one of them, and two decryptions, one without a matching identity; or an encryption in place, a decryption of its file and a decryption in place.  Inputs of two chunks that may be missing; every read and write may fail, with all three outcomes, and every job die at each step (717 703 states) |
| `c_results` | what can threads do to the heap that use the C library as its header allows? | two threads, two results and a keypair, four strings, no struct reused unfreed once a string was dropped: enough for a call that refills the struct its argument is in while another thread frees (473 416 states) |

Fairness.  `encrypt_writer` and `damaged_stream` need only that a call that has begun goes on
(WF of its steps): nothing in it takes a lock or waits for a channel, and sink and source are
assumed to answer.  `seal_pipe` needs that for each of the two jobs and for the transport, none of
which can disable another, so that weak fairness of each is enough; faults and crashes are never
fair.  `file_jobs` has fairness for each job once it has started: none waits for another.

`CHECK_DEADLOCK FALSE` is set where the system stops: `recipient_header` when the constructors have
returned, `file_jobs` when all jobs are over, and `c_results` where the bounded heap is full of
strings that nobody can free.

### Findings

* Read then WriteTo on one reader drops the rest of the chunk and returns nil (`mixed_calls`,
  stream/reader.go:134).
* Close on a reader after a Read that failed inside a chunk puts a pointer to a nil slice into the
  pool of the whole process; a later ReadFrom panics on it (`pool_close`, stream/reader.go:208).
  A Read that is retried instead, and meets a longer chunk, shares its buffer with the pool
  (stream/reader.go:80).  The nil slice can also stay without a panic and end the wiping: a reader
  that draws it makes a buffer just large enough for its chunk and pools that one, and a writer that
  draws the short buffer outgrows it, which leaves plaintext in it as in the next finding.  TLC
  finds this with two readers and the default chunk size; no run of this project repeats it.
* With a chunk size above 64 KiB, which the constructor accepts, append moves the writer's
  plaintext to a new array and Close returns the old one to the pool unwiped (`pool_large_chunk`,
  stream/writer.go:61, 96).  ReadFrom slices a pooled buffer past its capacity and panics with such
  a size (stream/writer.go:127).  The facade always passes the default size.
* The writer's constructor wipes its copy of the file key on success and when the header cannot be
  written, not when it fails before (`key_zeroing`, stream/writer_recipients.go:71).

The properties of the passing runs are stated for what the code does, and so say where it falls
short of what one may expect of it:

* An encryption whose copy failed is closed all the same (SealGo.go:67-70), with a marker that is
  authentic.  What it leaves is a stream that ends cleanly and decrypts with success to a part of
  the input; only the error of the encryption tells (the second half of `DecryptedIsWhole`).
* A source that returns `io.ErrUnexpectedEOF`, as a truncated gzip stream or HTTP body does, is
  taken to be at its end (stream/writer.go:141), and EncryptWithRecipients returns nil for a
  truncated input (`short` in `SuccessIsComplete`).  io.ReaderFrom is to return any error but io.EOF.
* ErrEOFMarkerInvalid has no index (core/chunk.go:40), and the counter moves on behind it.  A caller
  that reads on after it is given a VerificationError for an intact chunk, although its ChunkIndex
  should help to locate the damage (core/errors.go:25); `LocatesDamage` speaks of a first failure
  with an index.
* The error of `os.Remove` is dropped (core/config.go:125, 129, 133).  When it fails after a failed
  write or rename, path.tmp stays and blocks every later Save, without a crash (`NoOrphan`).
* A damaged type field in one stanza makes ParseHeader refuse the header (core/format.go:80-84), so
  that every recipient is locked out, and not only the one the stanza is for (`StanzaDamageReach`).

Differences between README.md and the code that need no model checker: the stanzas begin at byte
100, not 68 (README.md:91-94, stream/writer_recipients.go:79-80); the marker is a sealed chunk of
length zero, 4 + 16 bytes, not four zero bytes (README.md:94, core/chunk.go:63-72); Load refuses the
64 MB of README.md:113 (core/config.go:29).  ErrUnexpectedEOF, ErrTruncatedData,
ErrNotEncryptedFile, ErrInvalidChunkSize and ErrUnsupportedVersion, offered for telling errors apart
(core/errors.go:8), are returned by nothing, and nothing calls WrapError; a stream cut right behind
a length gives an error for which `errors.Is(err, io.EOF)` holds (stream/reader.go:96).  No function of the C
library frees what sealgo_version_string returns; sealgo_free_keypair does not wipe the private key;
sealgo_generate_keypair has no field for an error.  The Python package passes hex text where its
docstring speaks of bytes, and decodes binary output as UTF-8.

## Proofs

Every safety property of a passing run, the action property `FailStop` and both refinements are
theorems, for every value of the constants that the assumptions below allow.  Most proofs have the
same shape: an inductive invariant (`IInv`), the lemma that the initial states satisfy it
(`InitIInv`), one lemma for each action that can disturb it, `StepIInv`, and from it `Invariance`;
the properties follow from `IInv` state by state.  Where a property needs less than the others (the
reader, the pool) there are several invariants, so that each theorem has the hypotheses it needs.

`EncryptWriterProofs` proves, for every chunk size, every input and every pattern of sink failures:
`TypeCorrect`, `NonceUsedOnceHolds`, `OpenedIsInOrderHolds`, `EOFIsCompleteHolds`,
`CleanCloseOpensHolds`, `FramesFitChunkHolds`, `CallsAdvanceHolds`.  The only assumption is `WriterAssumption` (the chunk
size is positive, the bound on the input a natural number, the faults those of the model).

None of the properties is inductive.  That an openable wire is the input in order (`OpenedIsInOrder`)
speaks of a prefix of the wire; what a step preserves is a statement about all of it, failed
chunks included.  `IInv` has these parts:

* `NoncesInv`: the k-th seal used counter k-1.  The marker is the one seal that does not move the
  counter, so the invariant must know that nothing is sealed after it.
* `CallInv`, `BufferInv`: a call in progress agrees with `closed`; the buffer never exceeds a chunk
  (or Write's loop would stand still).
* `FramesInv`: counters on the wire rise (a lost frame leaves a gap), and a marker is last.
* `ChainInv`: frames with successive counters carry successive plaintext, and the buffer begins
  where the newest sealed chunk ended.  A chunk whose write failed stays in the buffer and is sealed
  again under the next counter.  If the sink lost or tore the first copy, the wire opens up to it
  only.  If the sink kept it (`Kept`), the copies are two frames in a row (`Repeats`); that this
  happens once needs that a failed writer takes no more input and that Close flushes once.
* `CarriesInv`: a prefix that opens carries every byte up to its end.
* `CleanInv`: without a failure every sealed frame is on the wire.
* `SourceInv`: a call that has returned took all it was given, and a ReadFrom that did so without an
  error read its source to what it holds for the end.  `SuccessIsCompleteHolds` rests on it.

`CleanCloseOpensHolds` says more than that a marker follows: the wire is a `CompleteStream` of the
whole input, frame by frame in order, which is word for word what `DamagedStream` assumes of the
stream it damages.  The writer's theorem so discharges the reader's assumption.  `CallsAdvance` is
the safety half of `CallsReturn`: each turn of Write's loop takes bytes of its argument, because a
buffer is full only where a flush has failed (`SpaceInv`), after which no Write is accepted.

`DamagedStreamProofs` is about every sealed stream, every wire made of it and every chunk size in
the header.  Assumptions: `ReaderAssumption`, and `StreamAssumption`, which is what the writer's
`CleanCloseOpensHolds` says of a stream that was closed and what the AEAD says of the wire (what
arrives whole was sealed).  There are two invariants.  `MixInv` holds whatever the caller does, and
gives `TypeCorrect`, `CutIsNotTamperingHolds`, `NoByteTwiceHolds`, `OnlyBufferedHolds` and
`WriteToAdvancesHolds` (the safety half of `WriteToReturns`): a caller that mixes Read and WriteTo can
lose bytes, or be given them late, but is given none twice; and a reader a chunk of which did not
open hands out what a Read had buffered before and nothing else.

* `ApartInv`: what was handed out and what is buffered are disjoint runs of the plaintext, and all
  lie before the end of the chunk the counter has reached.
* `NonceInv`: after a chunk that did not open either the base nonce is wiped or WriteTo is used up.
* `CutInv`: on a stream that only ends early, from a source that has not failed, the reader stays
  in step with the frames.

`IInv` is stronger, and needs `~MayMix`: with mixing callers `mixed_calls` refutes order and clean
end.  It gives `DeliversInOrderHolds`, `EOFIsWholePlaintextHolds`, `FailStopHolds` (an action
property) and `LocatesDamageHolds`.  Sources that fail with an error of their own are included.

* `SafeInv` relates the counter to the output: while the reader can open chunks, the plaintext
  opened so far ends where frame number `counter` of the sealed stream does (`ProgressInv`).  It may
  forget that after a failure, because the reader opens nothing any more (`StopInv`), and since
  WriteTo comes first or never, nothing is buffered while it runs (`CallInv`).
* `ReadyInv`: an open reader no chunk has failed can still open one, so that a first failure is
  the fault of the chunk and not of the reader.
* `LocateInv`: every index that was reported is below the counter, so that later ones are higher.

`SealPipeProofs` proves that the two jobs implement `SealedCopy` (`CopyImplemented`), whatever the
transport does and wherever the encrypting process dies, and `UndamagedDecryptsHolds`,
`SuccessIsCompleteHolds` and `PipeTypeCorrect`.  None has a hypothesis.  `PipeIInv` takes the writer's
`IInv` over whole and adds: what arrives whole was sealed (`LineInv`); how far the two jobs are
(`JobInv`); a decryption in progress has handed out, for each counter, a chunk that the writer sealed
under it (`OpenedInv`); while nothing was damaged the line is the wire (`CarriedInv`) and the
decryption in step with it (`InStepInv`).  The step from "sealed under this counter" to "the next
piece of the input" follows from the writer's `ChainInv`: successive counters mean successive plaintext,
except in the two frames at the end that hold one chunk because the sink had kept the first.  That
exception is the hard case: a chunk that is opened after the end of what came before either goes on where
the output ends or repeats it (`ComesAgain`), the second only when nothing but the marker can follow
and encryption fails (`RepeatInv`).  A marker on the wire stands at the end of a closed input
(`MarkerInv`).  In the refinement the input grows with the writer's buffer, Close makes it final, a
WriteTo that opens a chunk hands it out or repeats it, and everything the transport does is a stutter.

`RecipientHeaderProofs` proves `OpensWhatWasSealedHolds`, `RecipientsDecryptHolds`,
`StanzaDamageReachHolds`, `KeysWipedHolds` and `TypeCorrect` for any number of recipients, identities and
keys.  `WriterInv` says which recipients are wrapped when the loop stands at `i`; `HeaderInv` what
the header and the first chunk hold; `ArrivedInv` what at most one fault can have changed of them;
`ReaderInv` that every trial before `(i, j)` failed and its key was wiped.

`BufPoolProofs` is about any number of writers, readers and arrays, in three layers, so that each
theorem carries the conditions on callers that it needs and no others:

| theorem | holds for | without that condition TLC finds |
|---|---|---|
| `TypeCorrect` | every caller | |
| `NoSharedBufferHolds` | callers that do not retry a Read that failed; chunks of any size, readers closed after a failed Read | a reader and the pool with one buffer |
| `PoolNeverNilHolds` | callers that leave a reader alone once its Read failed | `pool_close` |
| `ReadFromFitsHolds`, `PoolIsWipedHolds` | these, with chunks of writers that fit a pooled buffer (`Callers`) | `pool_large_chunk`, `pool_close` and what is said there |

`TypeInv` is that of every caller.  `ShareInv` says that the pool holds pointers that own their array,
each once, that what the goroutines hold and the pool are pairwise disjoint (`Exclusive`), and that the
address of a reader's field is known only after its Close, when the field is nil for good
(`PointInv`): such a pointer, in the pool or with a writer that drew it, does no harm to ownership.
`FitInv` adds that buffers from the pool hold a chunk (`LargeInv`) and that plaintext is in the buffers
of writers only (`DirtyInv`); both fail as soon as a nil slice has been in the pool, because the buffer
that replaces it is only as long as one chunk.

`FileJobsProofs` proves `DecryptedIsWholeHolds`, `OutputIsPrefixHolds`, `EncryptedReadsBackHolds`,
`InPlaceLosesAllHolds` and `TypeCorrect` for any jobs, paths, initial files and failures of reads and
writes.  Whoever writes a file, its units stay genuine: what opens under the key of an encryption is
what `sealed` has at that counter (`GenuineFiles`).  `sealed` only grows, so that a unit that is
genuine stays so while others work (`Grows`, `OthersKept`).  A decryption therefore needs no
knowledge of who writes its input meanwhile: its output agrees, chunk by chunk, with what the run
whose header it read has sealed (`ReadInv`).  What a run has sealed is the subject of `SealInv`: the
first chunks of its plaintext (`Going`), then at most one more, which Close made of a buffer that held
part of a chunk or one whose write had failed (`Flushed`, `Extra`), then the marker (`Marked`, or
`Whole` after a success).  `SealedLayout` draws from it the form that all this has (`Layout`), which
the theorems about decryption combine with `ReadInv`.  `PlaceInv` says what a job has opened and
created by the time it reads and writes, `InputInv` that an encryption's input is still what it
was, `WrittenInv` that what an undisturbed encryption has stored is what it has sealed, and
`InPlaceInv` that an encryption in place leaves units of its own only, and a decryption in place
never gets past the header.

`CLibraryProofs` proves `NoBadAccessHolds`, `NothingLostHolds`, `SettledStructsHolds` and
`TypeCorrect` for any number of threads, structs and blocks.  `OwnedOnce` says that every string has one
owner (a field, the caller, or nobody any more), so that freeing one struct never touches another;
`CallsInv` that running calls fill different, empty structs and that their arguments live.

`ConfigStoreProofs` proves, for any number of processes, files and configurations, `TmpIsOwnHolds`,
`NoOrphanHolds`, `TypeCorrect`, and that `ConfigStore` implements `ConfigRegister`
(`RegisterImplemented`).  The only assumptions are the types of configurations and that "no file" is
not a file.  The invariant says that one Save at a time has a temporary file and that all of the data
is in it before the rename (`SaveInv`), that a Load reads a file that Save no longer reaches
(`LoadInv`), and that the two names never lead to one file (`NamesInv`).  Rename is the step at which
the register changes; the open of a Load is the step at which it looks.

While they were developed, the invariants were checked with TLC on the instances of the runs; the
runs themselves check the properties.

Only model-checked: liveness (`CallsReturn`, `WriteToReturns`, `JobsReturn`, `JobsEnd`), since
fairness and ENABLED are beyond the provers used here; for the calls of writer and reader the variant
that makes them end is proved (`CallsAdvanceHolds`, `WriteToAdvancesHolds`), so that only the step
from it to termination rests on the runs.

## Not modelled

* `core/features.go`: a table that nothing in the stream code consults; nothing calls Negotiate.  Of
  `core/errors.go` the errors that a reader returns are modelled; the rest is constructors, or unused.
* `wasm/main.go`: one constructor and one or two calls over memory, which are sequences of calls
  `EncryptWriter` and `DecryptReader` allow; main waits on a nil channel for good.  The Python
  package runs the command line tool.
* Power failure: `Save` renames without syncing (core/config.go:132), and the jobs drop the error of
  the output's deferred Close (cmd/cli/main.go:71).  A file system model that loses unsynced data
  would refute both, but no document promises durability, so that there is nothing to state.
* The bytes of encodings (hex, header fields that no property distinguishes), key derivation as
  anything but a function of the file key, argument parsing, and the packaging.

## Plan

Done, in this order: the writer and its proofs; the reader, damaged streams and their proofs; the
pipe and `SealedCopy`; the pool; the header; the settings file and its proofs; file jobs; the C
library; sinks that keep a chunk and report an error, streams cut inside a frame, jobs that read the
file they write; the proofs about the header, the pool, file jobs, the C library and the pipe; the
writer's streams shown to be those the reader is given, callers that mix Read and WriteTo, a copy
whose last chunk may come twice, the exact conditions on callers of the
pool; failures of single reads, writes and removes, and what Close makes of a copy that failed.

What could follow:

1. A specification of ownership that `BufPool` implements: buffers that are borrowed and given back,
   with no pointers, in place of the pairwise statement of `NoSharedBuffer`.
2. The variant of `FileJobs`, as for writer and reader: every step of a job moves it forward.
3. A file system that loses unsynced data, for `ConfigStore` and `FileJobs`, once the repository says
   what should survive.
