# fastsigner in TLA+

fastsigner signs Android packages (APK Signature Scheme v2 and v3). It is fast
because it does several things at once: it digests the APK on many threads,
checks the alignment of its entries in the same pass, copies the head of the
file meanwhile, loads the key meanwhile, digests a rewritten APK while it is
written, and overwrites the tail of a file that it has mapped. This directory
models those parts, and how it comes by its key, in TLA+, checks them with TLC on
small instances and proves with TLAPS, for every size, that the rewrite, from its
plans to its threads, one APK, the splice, the layout of its result, the batch, the
digest pool and the keystore readers keep what they promise.

Paths are relative to the repository; `main.rs` stands for `src/main.rs` and so
on. `PROJECT.json` maps every definition to the lines it models.

## 1. Inventory

| component | state | operations | talks to |
|---|---|---|---|
| command line, `main.rs` | none | `parse_args`, `resolve_password`, `load_signer` | its result is the input of everything; stdin |
| batch run, `main.rs` `run` | input counter, list of results, `PendingSigner` | plan outputs, load key, job threads, report | shares the key and the counter between threads |
| one APK, `main.rs` `sign_one` | open files, mapping, temp file, guessed digest algorithm | parse, decide, digest, check, rewrite, sign, write, commit | digest pool, rewrite, head-copy thread, key thread, file system |
| ZIP structure, `zip.rs` | none | `find_eocd`, `parse`, `filter_cd`, `classify`, `required_alignment` | the mapping |
| zipalign check, `align.rs` `LfhInspector`, `check`, `quick_misaligned` | headers found, headers set aside, first error | inspect a chunk, finish, check | called by digest workers |
| rewrite planner, first half of `align::rewrite` | input and output cursor, list of plans | one entry at a time | reads local headers |
| rewrite pipeline, second half of `align::rewrite` | chunk counter, two buffers per producer, channels, first errors | claim, assemble and hash, send, write, hand back | producers, one writer, the caller |
| digest pool, `digest.rs` | chunk counter, two lanes per worker | claim, settle, hash, record | the inspector, `sha256.rs` |
| SHA-256, `sha256.rs` | partial block, state words | `update`, `update2`, `finish`, PBKDF2 | digest pool, PKCS#12 |
| signing block, `sigblock.rs` | none | encoders, `padding_before_block` | `sign_one` |
| PKCS#12 reader, `pkcs12.rs` | parts, bags, results of its threads | verify the MAC, walk, decrypt, recover keys, pair keys with certificates | `sha256.rs`, one thread per key derivation |
| JKS reader, `jks.rs` | a cursor, the entries | parse, check the digest, recover a key | `keys.rs` |
| signer, `keys.rs` | the key, its chain, its digest algorithm | load files or a store, select an entry, sign and verify | both readers, `PendingSigner` |
| mapping, `mmap.rs` | a shared mapping | map, release pages | everything that reads the APK |
| `poc/`, `bench/`, `tests/` | - | experiments, benchmarks, shell tests | not part of the program |

What is hard here, and a unit test hardly reaches:

* threads that share counters, buffers and channels (digest pool, rewrite
  pipeline, job threads), with errors in the middle;
* a thread that still writes to a file while another decides to replace it
  (head copy against full check and commit);
* state that is guessed and corrected later (the digest algorithm while the key
  is still loading), or read before it may be stale (the look at the chunk
  counter, the borrowed Central Directory, the shortcut for re-signing);
* system calls that fail one by one, and a process that dies between two;
* verdicts that are found on different threads in any order and must be reported
  in one order (the MAC, the containers and the keys of a PKCS#12 store);
* two implementations of one hash, one of them only on some CPUs, fed in pieces
  that end anywhere;
* waiting: producers for buffers, the writer for producers, jobs for the key,
  the caller for everyone.

The hazards are listed one by one, with their lines, in `PROJECT.json`.

## 2. Modules

### RewritePipeline, ChunkedRewrite and their proofs

`RewritePipeline` is the second half of `align::rewrite`. Its actions are the
steps of a producer (`Claim`, `TakeSpare` or `RecvBack`, `Assemble` or
`AssembleFails`, `Send`), of the writer (`Recv`, `Write` or `WriteFails`,
`ReturnBuffer`, `WriterStop`) and of the caller (`Spawn`, `DropSender`,
`JoinProducer`, `JoinWriter`). A chunk's bytes are its index; a buffer holds the
index of the chunk assembled in it, so a buffer that is reused too early is
seen as a wrong chunk in the file. Every read and every write may fail.

`ChunkedRewrite` is what the caller of `rewrite` is promised, without threads or
buffers: a chunk is written only after it was hashed and as it was hashed,
nothing is repaired after a failure, and Ok means that everything was done.
`RewritePipeline!KeepsPromise` is the refinement. `RewritePipelineProofs` holds the
proofs of the pipeline's own properties and, at its end, that of the refinement.

### SignOne, SignOneProofs

`sign_one` with `temp_next_to`, `TempFile`, `replace_file`, the head-copy thread
and `PendingSigner`. The file system is a map from names to inodes and a content
per inode, because the code depends on the difference: it exchanges two names,
keeps writing to an open file, and truncates a temp file that an earlier process
left behind. A content says which entries section the file has, which tail, and
over what and with which algorithm the signature was made. The rewrite is one
step here (it is `RewritePipeline` in detail), and so is the digest
(`DigestPool`). Every step that can fail may fail, and the process may die at any
point and be run again with the same arguments. The options remember whether there
was an output before the run, and which file that was: `DestIsNeverTorn` and
`FailureKeepsOutput` ask for that very file with its content, or for none if there
was none, so that a run which unlinks an output and then fails breaks both.

### TailSplice, TailSpliceProofs

The in-place write at the end of `sign_one`, cell by cell over a shared mapping:
padding, block, Central Directory and EOCD over the old tail, the shortcut that
writes the block alone, the copy of a borrowed Central Directory, and the final
truncation. The signed file is signed again, with blocks of either size.

### Batch, MCBatch, BatchProofs

`run`: refusals, `plan_outputs`, the key (inline or on its own thread), the job
threads and their counter, the sorted report and the exit code. `sign_one` is
seen from outside as work before the key, the wait, and work after it, which signs,
fails with the destination unsigned (`WriteFails`), or fails in its last call when
the destination is a signed APK already (`FailsLate`, the failure of the first
finding below). `signed` counts what became of the destinations, `late` the inputs
that failed that way, and `Complete` means signed and not late. The report and the
exit code tell who is complete; they do not tell a late failure from another.

### Sha256

What `sha256.rs` does around its kernels: the streaming hasher (`New`, `Update`,
`Gap`, `Finish`), `update2`, `ShaExt::iterate` and PBKDF2. The compression function
is free: a state is the sequence of blocks compressed into it, so that two digests
are equal exactly if the same padded message was hashed. The standards (`Hash`,
`Hmac`, `DerivedKey`) are written next to it; they are what a signature or a
keystore is defined by, and what ring computes when there are no SHA instructions.
Sizes are constants; the padding of `finish` keeps its machine word.

### DigestPool, MCDigestPool, HashingProofs

`content_digest` with two lanes per worker or, without SHA instructions, one
chunk at a time, and `LfhInspector`, which the workers call on every chunk they
claim. A lane holds a hasher of `Sha256` and the bytes it has not absorbed;
`Settle`, `KeepLane`, `FinishLane`, `HashBoth` and `HashOne` are the turns of the
worker's loop. `Join` puts the recorded digests in order and hashes them. Lengths
are small: a block is four bytes, the prefix of a chunk two and a local header
two, so that headers start, end and straddle at every kind of boundary, data ends
within a block, and there is a chunk without a whole block. `HashingProofs` has the
proofs of the two users of `Sha256`, `DigestPool` and `Keystore`.

### Keystore, MCKeystore

`load_signer` with `resolve_password`, `Signer::load_files`, `load_keystore`,
`from_material` and `sign`, `jks::parse` and `pkcs12::parse`. `stage` is where the
loading thread is. The PKCS#12 reader starts the thread of the MAC (`ReadStore`), walks
the AuthenticatedSafe (`Walk`), starts a thread for every encrypted container and every
key that the request can select, joins them (`JoinThreads`), then the MAC (`JoinMac`),
collects the bags (`Collect`) and pairs keys with certificates (`Pair`). A thread may
end at any time (`Derive`). `Select`, `Recover` and `Sign` are those of `keys.rs`.

A file is what its parsing yields: a store is a list of containers of bags or a
list of JKS entries, with a flag where the parser meets malformed DER. A key, a
container and the MAC have a password, a salt, an iteration count and whether
their algorithm is supported. Keys are derived with `Sha256`, by the code or by
ring, and compared with what the standard gives for the password the store was
written with. What a wrong password decrypts to is chosen in `LoadInit` (`luck`):
bytes without valid padding, bytes with padding but no structure, or by chance an
empty SEQUENCE, the three cases that the code tells apart. The choice is one for
the whole run.

`KeySource` and `KeyFile` are the requests and the files there are, and
`CasesAssumption` says that the cases of an instance are among them. A request for a
store does not find a pair of key files, nor the other way round. A JKS store always
has its digest, and its keys are always encrypted; the format knows nothing else, and
`MCKeystore` has no other.

Some properties have conditions that the code needs. `SignerIsTheKeys` is about what
was asked for in the store as it was written, so it asks that the containers have the
password of the MAC or the one that was given (`OnePassword`, `Opens`): else a
container that by chance decrypts to nothing would hide a key. `RightPasswordsSign` is
about keys that parse and whose own certificate is found (`HasOwn`). In
`ChainIsLinked` a certificate comes twice only if the store has it twice:
`build_chain` remembers places, not contents.

### RewritePlan, MCRewritePlan

The first half of `align::rewrite`: the entries in file order, each one skipped,
left in a gap, refused or given a new header and a place, with the two cursors
`consumed` and `cursor` and the list of plans; `aligning_extra` and
`declared_alignment`; the new Central Directory; and the inspector's order of the
entries, `quick_misaligned` and `check`, each with its errors, which decide with
`--zipalign check` whether the APK is refused, rewritten or kept (`ZipalignCheck`).
Bytes are offsets and
lengths, an extra block is its sequence of fields, names are reduced to what the
rules ask of them (library or not, directory or not, kept, skipped or gap). The
entries ahead are a set, `left`, of which the loop takes the one with the least
offset (`First`); that is the sorted list of `file_order`. The rewritten APK, which
ends with the padding before its signing block, is rewritten again.

### ChunkAssembly, MCChunkAssembly, RewriteBytesProofs

`Chunker::assemble_and_hash`, between the two halves: a chunk is cut from the
plans through a buffer and a source window that hold what earlier chunks left.
`RewritePlan!PlansTile` is what it relies on; `RewritePipeline` takes a chunk as
one step. The early return for a chunk without entries is not an action:
`NoPaddingAlone` shows that there is no such chunk. `RewriteBytesProofs` has the
proofs of `RewritePlan` and `ChunkAssembly` and joins them: what the planner makes is
what the assembly assumes (`IsLayout`).

### SignedLayout, MCSignedLayout, SignedLayoutProofs

`zip::parse`, `layout`, `apk_signing_block` and the offsets at the end of
`sign_one`: a file is its length and the EOCDs, magics, size words and locators
in it. Lengths are real, but for the width of 32-bit fields. The signed file is
parsed again, as a verifier or the next signing does.

### Picking

`Picked` and `Flattened`, the filters and the flattening of Rust's iterators. The
planner and the keystore readers use them. They are recursive functions with a set of
places in the place of a predicate, so that the provers can reason about them.

### CommonLemmas

Facts that the proofs share: a least number, induction and recursion over sets and
functions, division by a number that is not a literal, and what `Picked` returns. It
models nothing.

## 3. Runs

| run | shows | instance |
|---|---|---|
| `rewrite_pipeline` | buffers are conserved, Ok means complete, the verdict names the cause, no write after a failed one, `rewrite` returns, refinement of `ChunkedRewrite` | two producers, four chunks, the last one padded |
| `sign_one` | success means signed with the key's own digest over the entries the file has; the destination is never torn and never vanishes; failures leave the output, or the lack of one, as it was and leave no temp file; the input is untouched; it returns | every combination of options, one crash and re-run |
| `sign_one_failure` | expected violation, see the findings | no crash |
| `tail_splice` | in place gives what `--out` gives; entries are not touched; re-signing writes the block alone | entries of 0 to 3 cells on pages of 2, foreign blocks of 5 lengths, three signings |
| `batch` | the report is complete, in order and true, also of inputs that fail after their destination was replaced; so is the exit code; nothing is signed without a key; no two jobs share a file; the run ends | up to three inputs, one to three jobs |
| `rewrite_plan` | the plans tile the output; every byte of the input that is not an old header or a skipped record is copied once; the result is aligned; a second rewrite changes nothing; `--zipalign check` refuses no APK that the rewrite accepts, and keeps one that was rewritten | one to three records, one more than the sample has headers, gaps, descriptors, seven extra blocks, broken records, three page sizes |
| `rewrite_plan_declared` | expected violation, see the findings | entries that declare an alignment of 6 |
| `rewrite_plan_field` | expected violation, see the findings | a library, 64 KiB pages |
| `chunk_assembly` | a chunk is that part of the image, in the file and in the digest; no chunk is padding alone | lists of up to three plans, chunks of 4 |
| `signed_layout` | a signed APK parses to the block just written and its digest covers what a verifier reconstructs; the block fills whole pages; signing again moves nothing | real pages and 16-bit fields, foreign, broken and look-alike blocks, comments that hold an EOCD |
| `digest_pool` | a claimed chunk is in one lane or has one digest; the content digest is the one the scheme defines; the inspector's verdict is right; the pass ends | two workers, seven chunks, three header layouts, with and without a bad header |
| `keystore` | a wrong store password or a tampered file is an integrity failure whatever else it breaks; the right passwords always sign, with the key that was asked for; nothing else signs; the error names the cause; chains are linked and end | stores as keytool and OpenSSL write them, stores that are broken in one place, JKS stores and key files; right and wrong passwords from every source; with and without SHA instructions |

Why the bounds are enough. Two producers with two buffers each and four chunks
make each producer use both buffers, wait for one and get one back after an
error of the other; a third producer adds no new pair of actors, and the theorems
cover the rest. One crash and re-run is what lets a run meet the leftovers of
another; leftovers do not accumulate, because every run uses one temp name. Two
digest workers with two lanes are the least that can race for the last chunk with
both lanes half full. Three inputs and up to three jobs give a job that takes a
second input and one that finds none. Three signings give a file that was spliced
from a file that was spliced. In `RewritePlan` three records give a dropped one
between two that are kept; 16-bit fields have 64 values, so that a page of 64 is
what 64 KiB are in the code, and an extra block can be too long. Chunks of four
bytes on pages of two, headers of 0, 1 and 5 and data of 0, 2 and 5 bytes put
bounds of plans at, before and behind bounds of chunks, and plans over three
chunks; holes of seven exceed the source window of six. In `SignedLayout` the
lengths of the scheme blocks leave 0, 1, 11, 12 and 13 bytes on the last page; the
entries end at, before and behind a page, and near the largest offset. In `Keystore`
a password is one byte or longer than a block, and the salt with its counter and
padding takes one block or two; two and three iterations are the least that use
what an iteration leaves to the next. The stores of `MCKeystore` have up to four
keys, two of them the same or without a name, certificates in any order, nested
bags, and two authorities that signed each other. The named
bounds are `MaxCrashes` (`SignOne`), `MaxSignings` (`TailSplice`, `SignedLayout`),
`MaxRounds` (`RewritePlan`) and `MaxInputs` (`Batch`); no other counter needs one
(`MaxNesting` of `Keystore` is the code's own).

Fairness. Liveness is checked under weak fairness of each thread: the operating
system runs every thread that can go on. No lock is contended in a way that
could need strong fairness: threads only wait for channels, a `OnceLock` and
joins, whose conditions stay true once they are. No system call is assumed to
succeed. In `SignOne` nothing obliges anyone to run a dead process again, and
Termination is asked of living ones.

Deadlock is checked in every run: a state without a step of some thread is the
end of the program, which each module names (`Terminated`, `Finished`). For
`Keystore` that is also termination: every other step moves `stage` on, ends a thread,
or adds a part or an entry, so no behaviour goes round in a circle and one that
never gets stuck ends.

## 4. Findings

* A run may fail with the output already replaced (`sign_one_failure`). After the
  exchange of names `replace_file` returns the result of the unlink; if that
  fails, the APK is reported as failed. The README (lines 61-63) and the comment
  on `temp_next_to` say that a failed run leaves an existing output as it was.
  With that one exception the statement holds (`FailureKeepsOutput`). A batch may
  therefore exit with 1 although every output is signed; `Batch` has that case, and
  `ExitCodeIsTrue` says that there is no other.
* An entry can miss its alignment after a rewrite (`rewrite_plan_declared`). The
  rewrite aligns to the larger of the rule and what an old alignment field
  declares, not to a common multiple: a stored entry that declares 6 lands on a
  multiple of 6, and the APK that was rewritten for its alignment fails the check.
  The README (line 11) says that every signed APK passes `zipalign -c -P 16 4`, and
  the test of the rewrite (`align.rs`, line 725) asserts the alignment of every
  entry. Where declared alignments are multiples of the rule, or smaller, it holds
  (`RewrittenIsAligned`).
* With `--lib-page-size 64` the alignment field of a library declares 0
  (`rewrite_plan_field`), 65536 being cut to 16 bits. The test of the rewrite
  (`align.rs`, line 726) asserts that the field declares the alignment. The data is
  aligned all the same.

One case is excluded from `VerifierAgrees`: an APK whose EOCD counts its entries
modulo 2^16 and that keeps 65535 records or more. `parse` trusts the count, signing
writes the number of records cut to 16 bits, and 65535 is what `parse` takes for
Zip64. No document promises anything about such files.

## 5. Proofs

A theorem holds for every value of the constants that the named assumption of its
module admits. For each specification there is one inductive invariant (`IInv`;
`PlanInv` and `AssemblyInv` in `RewriteBytesProofs`, `LoadInv` for `Keystore` in
`HashingProofs`), a conjunction of named parts. It is proved that `Init` gives it and
that every action keeps it, one lemma per action or group of actions, and the
properties are derived from it. Every one of them was checked with TLC on the instance
of the module's run, its infinite sets of types left out.

| module | theorem | statement |
|---|---|---|
| `RewritePipelineProofs` | `TypeCorrect` | `Spec => []TypeOK` |
| | `QuietAfterFailure` | `Spec => NoWriteAfterFailure` |
| | `ConservedBuffers` | `Spec => []BufferConservation` |
| | `Completeness` | `Spec => []SuccessMeansComplete` |
| | `TrueVerdict` | `Spec => []VerdictNamesTheCause` |
| | `Implements` | `Spec => KeepsPromise` |
| `RewriteBytesProofs` | `PlansAlwaysTile` | `Spec => []PlansTile` |
| | `EveryByteIsCopiedOnce` | `Spec => []EveryByteOnce` |
| | `RewritesAreAligned` | `Spec => []RewrittenIsAligned` |
| | `RewritesAreStable` | `Spec => []RewriteIsStable` |
| | `ChecksAgree` | `Spec => []CheckAgreesWithRewrite` |
| | `PlannerFeedsAssembly` | `Spec => []PlansFeedTheAssembly` |
| | `ChunksAreTheImage` | `Assembly => []ChunkIsTheImage` |
| | `PaddingIsNeverAlone` | `Assembly => []NoPaddingAlone` |
| `SignOneProofs` | `SuccessIsSigned` | `Spec => []SuccessMeansSigned` |
| | `DestinationIsNeverTorn` | `Spec => []DestIsNeverTorn` |
| | `FailureLeavesOutput` | `Spec => []FailureKeepsOutput` |
| | `TempIsRemoved` | `Spec => []NoTempLeft` |
| | `InputIsUntouched` | `Spec => InputUntouched` |
| `TailSpliceProofs` | `SpliceIsOut` | `Spec => []InPlaceEqualsOut` |
| | `EntriesStay` | `Spec => EntriesUntouched` |
| | `BlockAlone` | `Spec => ResignWritesBlockAlone` |
| `SignedLayoutProofs` | `ExactBlock` | `Spec => []BlockIsExact` |
| | `VerifierFinds` | `Spec => []VerifierAgrees` |
| | `StableResign` | `Spec => []ResignIsStable` |
| `BatchProofs` | `ReportComplete` | `Spec => []ReportIsComplete` |
| | `ExitCode` | `Spec => []ExitCodeIsTrue` |
| | `NothingWithoutKey` | `Spec => []NoKeySignsNothing` |
| | `FilesAreNotShared` | `Spec => []NoSharedFiles` |
| `HashingProofs` | `ChunksOnce` | `Spec => []EveryChunkOnce` |
| | `HeadersOnce` | `Spec => []EveryHeaderSeen` |
| | `SchemeDigests` | `Spec => []DigestIsTheScheme` |
| | `Pbkdf2IsTheStandard` | `Pbkdf2` computes `DerivedKey` |
| | `IterateIsHashing` | `Iterate` computes `HashIterated` |
| | `LoadKnows` | `Loading => []LoadInv` |
| | `IntegrityComesFirst` | `Loading => []IntegrityFirst` |
| | `RightPasswordsAlwaysSign` | `Loading => []RightPasswordsSign` |
| | `SignerIsAlwaysTheKeys` | `Loading => []SignerIsTheKeys` |
| | `BlameIsAlwaysTrue` | `Loading => []BlameIsTrue` |
| | `ChainsAreLinked` | `Loading => []ChainIsLinked` |

### The rewrite pipeline

For any number of threads, producers and chunks and for any page and chunk size.
The assumptions are `ConstantsAssumption` (lengths and counts are numbers, those
that divide are positive) and `MarkersAssumption` (the markers for no buffer, a
never written and a torn range differ from real values). None of the properties is
inductive. The parts of `IInv` are:

* `TypeInv` and `Quiet`: types, and that a writer that has failed is never
  about to write;
* `Buffers`: a buffer belongs to the producer in its name and is found only with
  it, in its channel, in a job that names it, or with the writer on its behalf; at
  most once in each, in at most one of them, and not nowhere while the producer
  runs. Conservation is the conjunction of these, and it is what makes the next
  part inductive: only the holder of a buffer may change it;
* `Carried`: a buffer that waits to be sent, written or is being written holds
  the chunk its job names;
* `Tracked`: every chunk below the counter is with a producer, in the channel,
  with the writer, written, or was lost with a failure that somebody remembers;
* `Verdicts`: the calling thread's and the writer's errors are those of the
  producers joined so far and of the file, and the writer leaves last.

The refinement needs more, `Once`: no chunk is claimed twice, hashed twice or on its
way to the file twice (`ClaimedOnce`, `TravelsOnce`), and what travels was hashed and
is not in the file yet (`Travelling`). Else a second write of a chunk that is already
there could fail and tear it, which `ChunkedRewrite` does not allow. Every step of
the pipeline is then a step of `ChunkedRewrite` or changes nothing it can see.

### The plans of a rewrite

For any set of APKs, any page size, any length of a local header, any width of the
16-bit fields and any number of rewrites; `ConstantsAssumption` only gives the types.
Entries may overlap, run past the end, lack a header, declare any alignment and have
any extra fields. `PlanInv` has three parts:

* `PlanTypeInv`: types, and that `consumed` never passes the end of the entries;
* `PlanningInv`: the plans so far lie one behind the other up to `cursor` (`Tiled`);
  they copy the input up to `consumed`, in order and once, but for the headers of the
  entries kept and the records skipped (`CopyOnce`, byte by byte); and every entry
  that is kept has one plan, with the header it should have (`Placed`). That an old
  header is left out and nothing else is needs both cursors: the record has to begin
  at or behind `consumed`, which is what the test for overlaps is for;
* `AgainInv`: in a second rewrite the APK is `Normal`, that is all its entries are
  kept, lie apart and have the extra fields they would get where they are; `cursor`
  and `consumed` are then equal at every turn, so nothing moves and nothing is
  refused. Its end is on a page of the block, so no padding is added to it.

`RewrittenIsNormal` shows that a rewrite leaves a `Normal` APK. Its core is
`NewExtraAgain`: an alignment field that was built once is dropped and built again
as it was, also when 16 bits cut the alignment to 0. Alignment is `PadLands` (the
padding brings the data to a multiple of the alignment used) with `AlignFits` (that
is a multiple of what the rule asks for, if the entry's declaration is one or is
less); `rewrite_plan_declared` shows that the condition is needed. `Picked`, which
stands for the filters, and `ExtraLen` are recursive functions; `Loop` gives their
values and `PickedPlaces`, `ExtraLens` what follows.

That the checks refuse nothing the rewrite accepts (`ChecksAgree`) needs one more
invariant, `Apart`: the kept entries behind the loop do not overlap, because each
began where the input was not consumed yet. With it `NotRefused` goes through the
errors of the inspector, the sample and the full check; that a rewritten APK is kept
follows from its being aligned and stable.

### The chunks of a rewrite

For any lists of plans that tile the output, any chunk size that is a multiple of the
page and any length of the source window (`SizesAssumption`). That plans tile is not
taken on trust: `PlannerFeedsAssembly` is that the planner's plans are such a list.

What is digested has to be the image of the plans although the buffers hold what
other chunks left. `AssemblyInv`: a claimed chunk is one there is (`ClaimInv`); the
window, if it is used, spans all the data the chunk needs (`WindowInv`); of the plans
copied so far the buffer has the very bytes (`CopiedInv`). A plan that is copied
later cannot disturb an earlier one, because plans are apart (`PlansInOrder`), and when
all are copied no stale byte is left, because plans cover the output (`PlansCover`)
and the two binary searches find all of those that have a byte in the chunk
(`OverlappingPlans`). `ImageBytes` relates the image, a concatenation of plans, to its
bytes. That no chunk is padding alone is `ChunkBounds`: the padding is shorter than a
page and the chunk size is a multiple of it.

### One APK

For any number of crashes and re-runs; `MaxCrashesAssumption` and `NoneAssumption`
only say that it is a number and that None is no inode. A crash may leave any temp file behind, so
the invariant says nothing of the temp name but what this run has put there. Its
parts: `Enough` (inodes for two files per run), `Tree` (no file under two names),
`Held` (which files are open and whether the temp file is this run's, label by
label), `Copying` (the head-copy thread writes to a file that neither the input nor
the output names; this is what lets it go on after a failure), `Digested` (the guess
of the algorithm is corrected before anything is signed, over the entries that the
destination will have), `Temp`, `Aligned`, `Files` (what may be found under the two
names), `OldOutput` and `Cleared`.

### The splice

For any page size, any lengths, any number of records, any set of stale ones and any
number of signings; `ConstantsAssumption` only says that these are numbers. The main
part of `IInv` is `Progress`: of the tail that is to be written, the cells before
`Position` are in the file, and all other cells of the file are as they were mapped.
`Resigned` is what signing leaves for the next one: no stale record, a block on a
page, an EOCD that counts right; `BlockAlone` rests on it. What `filter_cd` keeps is
a recursive function. Facts about it for every length need induction, whose library
theorems take a predicate and are out of the provers' reach. `CommonLemmas` has what
takes their place: a set of numbers has a least one (`LeastNumber`, from the
well-foundedness of the order on the numbers), a set that holds 0 and with n also
n + 1 holds all numbers (`UpTo`), and a loop whose turns are a function has a value
after every turn (`Loop`).

### The layout

For any set of APKs, any page size, any number and length of scheme blocks and any
number of signings. `ConstantsAssumption` asks that a page has more than 12 bytes, the
header of a pair, and that 2^32 is a multiple of it. `ApksAssumption` is what a file
is: the fields of an EOCD have their width, records have a length, and no more of them
are stale than there are. It says nothing of how many EOCDs, magics, size words and
locators there are or where; an APK may hold any number of look-alikes.

The core of `IInv` is `SignedAs(f, vs, start)`, what signing with blocks of lengths
`vs` leaves: from `start` on there is one magic and two size words, those of the new
block, no locator, and no EOCD but the new one up to its end. That holds
whatever the input held: what lies before `start` is never looked at, what was between the
old block and the old EOCD is gone, and what the comment holds moves along behind the
EOCD that is found. `BlockIsFound` derives from it that `parse` finds the block,
`NewFileIsSigned` that `Write` establishes it, `SameAgain` that signing such a file
again with blocks of the same lengths gives the same file; `Resigned` carries it from
one signing to the next. That the block fills whole pages for every list of lengths is
arithmetic over the loop of `signing_block_size` (`BareFacts`, `WholePagesFacts`).

### The batch

For any lists of inputs up to `MaxInputs`, any `--jobs` and either way to load the
key. `ArgListsAssumption` and `JobsAssumption` say that there are inputs, which are
paths, and that `--jobs` is a number. `Shared` is the core: every input below the
counter is with exactly one job thread or has exactly one verdict. `Verdicts` ties
the verdicts to what was completed and says that an input is signed only once it has
its verdict, so that one which a thread still holds is neither signed nor late; `KeyFirst` puts the key before the first signature, `Threads` says who runs
when, `Planned` that the outputs are those planned, `Ended` what the end computes. That
the sorted report has each verdict in its place is a fact about the operator
`Sorted`: a list with one verdict for each of N inputs is a permutation of them.

### The digest pool

For any number of workers, lengths of the sections and placement of the local
headers (`LengthsAssumption`; `OffsetsAssumption` is that `file_order` has accepted
the offsets: a header ends within the entries). `Shared`: a chunk that the counter
has not reached is untouched, and one that it has passed is in exactly one lane or
has a digest. `Drained`: a worker claims into a
free lane only, and leaves with both lanes empty and the counter at its end; the
look at the counter before a claim may be stale, and nothing rests on it. `Headers`
relates what the inspector found and set aside to the chunks claimed so far.

`Hashed` is what `SchemeDigests` needs: a lane that holds a chunk has absorbed all of
the scheme's message for it but the parts that are left, and a recorded digest is that
of the message. `HasherOf` says what having absorbed a message is: its whole blocks
are in the state, the rest is in the buffer and the length is counted. `UpdateAbsorbs`
and `BlocksAbsorbed` show that `Update` and the two-lane kernel absorb, however the
message is cut, and `FinishIsHash` that `Finish` then gives the hash the standard
defines, for any block size and also where the number of zeros wraps around the
machine word (`WrappedZeros`). There is no induction over blocks: what was absorbed is
a concatenation, and concatenation is associative. `ShaAssumption` says that a digest
with its padding fits a block and that blocks divide the machine word.

### The derivation of keys

For any password, salt, number of iterations and length of the key.
`Pbkdf2IsTheStandard`: with the SHA instructions the pads are compressed once, the
first HMAC goes through two hashers that start behind them, and every further one is
two compressions of a block that is put together by hand; what comes out is PBKDF2 as
RFC 8018 has it, which is what ring computes. `FinishBehind` is `FinishIsHash` for a
hasher that starts behind a block, `DigestBlockPads` that the block by hand has the
padding and the length that `finish` would give it, and `OneCompression`,
`TwoCompressions` and `FirstHmac` put them together. The two recursions over iterations
are then the same function. `IterateIsHashing` is the same for the loop of
`pkcs12_kdf`.

The keystore proofs also need that a wrong password derives another key. In the model
the compression function is a constructor, so nothing collides by chance, and what is
shown is that the code loses nothing on the way: padding does not hide the end of a
message (`HashIsInjective`), `fill` does not hide the length of a password, because
its terminator is found in it (`KdfInputIsInjective`), a password that is hashed
because it is longer than a block is none of the short ones (`FullKeyIsInjective`),
and the first HMAC occurs once among the iterations and so stays in their exclusive or
(`FirstTurnStays`). The assumptions are those of `ShaAssumption` and that no character
of a password is NUL (`Password`): HMAC does not tell a password from the same one
with a NUL behind it. With real hashes the statements hold but for collisions.
`MacVerdict` and `DecryptVerdict` sum it up: a MAC and a decryption are right exactly
if the password is, on either implementation.

### The keystores

For any set of requests and files (`CasesAssumption`, see section 2), any depth of
nesting and any way to write names in lower case. `LoadInv` says what the loading
thread knows at each stage and what it tells at the end:

* whatever the stage, the passwords are those the request gives in that order, and a
  thread that has ended has returned `Outcome`, a function of the file and the
  passwords alone. This is what makes the order in which the threads end irrelevant;
* `Gathering` and `Listing`: the bags are those of the containers collected so far,
  which were readable; every entry made so far is the key at its place, with its
  alias, its chain and, if it was recovered ahead of time, the outcome that recovering it
  now would have (`Fits`; a recovered key is found by its bytes, and the same bytes
  have the same outcome: `RecoveredIsRecovery`). For JKS `JksListed`;
* `Chose`, `Usable` and `Made`: the entry selected, its key, and the signer;
* `Told`: every way a request ends, each with what was found before. The lists
  `Unreadable`, `Rejected` and `Refused` follow the order in which the code judges,
  so that each cause also says that the earlier ones were not met.

The properties relate `Told` to the store as it was written. `StoreIsListed`: if the
passwords open the store, the entries are the keys of the store in their order, and
the one selected is the one asked for; so an entry may be compared with what is in the
file. `ContainerVerdict`, `KeyVerdict` and `RecoveryIs` turn outcomes into statements
on passwords. For `ChainIsLinked` the loop of `build_chain` is followed as a
`Lineage`: certificates at different places, each followed by its issuer, that grows
or stops (`LineGrows`). As many turns as there are certificates are enough by
counting: a lineage that never stopped would have used all of them (`AllAreUsed`, by
the pigeonhole principle), and so have no issuer left.

### Only model-checked

* Liveness (`Termination` of the modules that have it), which needs fairness and is
  out of the prover's reach.
* The properties of the runs that expect a violation, which do not hold.

Every invariant and every action property that a passing run checks is proved.

## 6. What is not modelled

* `Mmap::release` unmaps clean pages that fault back in, which changes nothing
  but speed; a file truncated by another process while it is mapped (SIGBUS);
  durability after power loss (the program never calls fsync).
* Timing marks, statistics and the text of messages.
* The clamping of the number of digest threads; the number is a constant.
* Panics of worker threads, which abort the run.
* The cryptography: the compression function is free, AES, RSA and ECDSA are right
  or wrong key, a signature is what it covers. The kernels of `sha256.rs` are
  straight-line code for two instruction sets.
* Decoding: PEM, base64 and DER are what they yield or a flag that they fail; the
  byte layout of the v2 and v3 signers is encoding without state.
* The later blocks of `pkcs12_kdf` (I_j + B + 1): the only caller asks for as many
  bytes as a digest has, so the loop ends in its first turn.
* The keystream of JKS: `recover_key` compares a digest of password and plaintext at
  the end, so only the right password passes.
* `parse_args`, a loop over strings that keeps no state between runs; its results
  are the inputs of `Batch`, `SignOne` and `Keystore`.
* One file named twice on the command line and signed in place: `plan_outputs` does
  not look for it, and nothing is promised for it.

## 7. Plan

The system was modelled in this order: the rewrite pipeline and its promise, one
APK, the splice, the batch, the digest pool, the planner, the assembly of chunks,
the layout of the result, the streaming hasher, and the loading of keys. All safety
properties are proved. What is left is:

1. a step from `RewritePipeline` to `ChunkAssembly` as a refinement: its chunks are
   numbers, and what stands behind a number is what `ChunkAssembly` shows;
2. a step from `SignOne` to `TailSplice` and `SignedLayout` in the same way: the tail it
   writes in one step is what these two take apart.
