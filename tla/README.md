# A TLA+ verification of snarkvid

snarkvid proves, in zero knowledge, that a compressed video frame is close to
an original whose blocks a camera signed.  Everything in the repository is
sequential Rust (plus shell drivers), so what can go wrong is not a data race:
it is the order of checks, a loop that indexes past what it built, a decoder
that reads a sample before it is written, an error path that leaves state
half-updated, the agreement between two programs (host and guest) that
exchange typed values through a queue, and files that outlive the run, the
kill or the loss of power that was meant to replace them.

## 1. Inventory

| component | source | state it keeps | operations |
|---|---|---|---|
| manifest | `crates/manifest` | none (pure) | `to_bytes`, `sign_manifest`, `verify_manifest`, `merkle_root`, `merkle_path`, `verify_merkle_path` |
| toy codec | `crates/toy-codec` | none (pure) | `encode_toy`, `decode_toy`, WHT, quantisation |
| comparator | `crates/comparator` | none (pure) | `psnr_fixed`, `frame_psnr` |
| M2 statement | `crates/m2-statement` | the progress of one check | `verify_m2_claim`, `public_inputs_digest`, `frame_merkle_leaves` |
| prover guest | `prover/guest` | stdin cursor, public values | one run per proof |
| prover host | `prover/host` | fixture, stdin queue, proof, output file | `smoke`, `prove` |
| toy-encode | `bin/toy-encode` | output file | one run |
| H.264 bit reader | `crates/h264-decoder/src/bitreader.rs` | byte and bit cursor | `read_bits`, `read_ue`, `read_se`, `read_te` |
| H.264 NAL framing | `.../nal.rs` | position in the stream | start-code scan, `NalUnitIterator::next`, `strip_emulation_prevention` |
| H.264 headers | `.../slice.rs` | SPS, PPS, slice header | `parse`, `parse_into` |
| H.264 CAVLC | `.../cavlc.rs` | reader cursor, 16 coefficients | `decode_residual_block_4x4_with_tc` and its parts |
| H.264 macroblock | `.../mb.rs` | per-block coefficient counts | `parse_macroblock_header`, `decode_macroblock_residuals` |
| H.264 frame | `.../frame.rs` | planes, running QP, macroblock cursor | `decode_iframe` |
| H.264 prediction, transform, quant | `.../intra.rs`, `transform.rs`, `quant.rs` | none (pure) | 17 predictors, IDCT, Hadamard, dequantisation |
| test battery | `scripts/full_test_gpu.sh` | status map | nine phases |
| spike drivers | `spike/{sp1,risc0,jolt,sonobe}` | the proof in hand, the files at `--out` and `--commit-out` | `prove`, `verify`, per workload (SHA-256, hash chain, toy decode) |
| spike benches | the `bench` subcommand of each | rows, temporary file, result file | measure, `write_partial` |
| fold circuit | `spike/sonobe/src/toy_decode_circuit.rs` | two sums | `generate_step_constraints` |
| bench driver, bench scripts | `spike/bench-driver`, `spike/bench/run.sh`, `compare.py`, `scripts/bench_all.sh` | result files, `comparison.json` | run each side, read back, compare |

How they meet: the host builds a fixture with manifest and toy codec, checks it
natively with the M2 statement, writes five values into the SP1 stdin queue;
the guest reads the same five in order, runs the same statement, commits a
digest and a status byte; the host reads both back, compares, verifies and
saves.  The H.264 decoder is a chain: NAL framing feeds headers, headers give
the frame loop its picture size and QP, each macroblock runs header parsing,
CAVLC residuals, dequantisation, transform, and prediction from samples that
earlier macroblocks of the same picture have written.  A spike driver is a
command line of its own over a proving system; a bench runs one over a list of
fixtures, and the bench driver or a script runs the benches and compares the
documents they leave behind.

### What is hard in each part, and what makes it correct

| component | what is hard | what makes it correct |
|---|---|---|
| manifest | three loops over the same tree must agree on the odd-node rule at every level | the path of a leaf accepts that leaf and no other; no index leaves a level |
| toy codec | gain of 64, clipping and rounding; two pairs of nested loops number blocks and pixels | a plane comes back within half a step, every pixel in its own place |
| comparator | planes that are identical have no figure | the combined figure is an average, the threshold follows the planes |
| M2 statement | early returns in an order that decides the error; a block hashes like an inner node, and paths come in any length | exactly the verdict the claim deserves; accepted blocks are bound to the signed frame as far as their paths go |
| guest, host | an untyped queue; SP1 may fail at every step; an output file that outlives a run | the guest decides the claim that was queued; the file holds only sound proofs; exit 0 means this run's proof |
| H.264 bit reader, framing, headers | alignment, ends of input, optional fields without marks | a read takes exactly its code; units come back byte for byte; the parsers stay in step |
| H.264 CAVLC, macroblock | tables looked up by prefix; state of neighbours; a read may fail anywhere | a codeword is read as the shortest that starts it; placement stays in the block; the output is what the pattern announced |
| H.264 frame | errors that continue the loop; prediction from a plane being written; a running QP | bounded work, legal QP, every block written once and after the neighbours it reads above, to the left and at the corner |
| prediction, transform, quant | index expressions, shifts and signs | geometry (mirrored modes, continued pictures), near-exact integer arithmetic, no overflow |
| test battery | some forty commands whose failures reach flags in different ways | a PASS was done; exit 0 means that nothing failed |
| spike drivers | the same few steps in an order of its own for each system; lengths cast to u32; a file made by somebody else | Ok of `verify` means that the statement holds; a saved proof is sound and its commitment is of the same input |
| fold circuit | a clamp written without comparisons, on bits | it is the clamp that its native reference computes |
| benches and their driver | kills and loss of power between write, sync and rename; results of an earlier session; sides with different fixtures | a result file is whole, and a comparison is of this session, row by row of the same fixture |

There are no threads and no messages other than the SP1 queue.  Crashes appear
where they matter: at any step of a prover run (M2Prover) or of a spike driver
(SpikeHosts, where a kill also leaves a file cut short), as a kill or a loss of
power at any moment of a bench session (SpikeBench), in the middle of any read
of the decoder (`Truncated`, `ReadHeaderFails`, `ReadResidualFails`), and in any
command of the battery.

## 2. Modules

The names of actions and variables are those of the code where TLA+ allows it.
Operators named `Bug_...` are mutants: plausible mistakes, each of which some
property detects when it replaces the definition that follows it.

### Manifest, statement, guest and host

* **Merkle** - the tree over zero-based vectors, with SHA-256 as an
  uninterpreted constant `H`: `ParentLevel`, `Sibling`, `VerifyMerklePath`.
* **MerkleWalk** - `merkle_root`, `merkle_path` and `verify_merkle_path` as the
  three loops they are, a level per step, run one after the other.  `levels` and
  `trail` are histories, so that loops in three functions can be related.
* **Comparator** - `frame_psnr`: the combined figure and the threshold.  The
  logarithm inside `psnr_fixed` is external: a plane has a figure or `Infinite`.
* **M2Claim** - the parts of a claim and one predicate per check of
  `verify_m2_claim`; `Deserves(c, v)` says which verdict a claim deserves.  The 64
  bytes of a block are a pair of halves, each as long as a digest, and are hashed
  like any pair of digests: nothing tells a leaf from an inner node, as in the code.
  Signatures are ideal (a triple of key, message and name), and the toy codec
  appears by its contract, which ToyCodec discharges.
* **M2Contract** - the abstract specification: one step that decides.
* **M2Statement** - `verify_m2_claim` check by check: each early return is a
  branch of its own action and the loop over the paths takes a step per path.
  `ImplementsContract` is the specification of M2Contract, instantiated with the claim
  and the verdict of the call.
* **M2Guest** - the queue written by the host, the five typed reads (a wrong type
  panics, as bincode does), the digest, the status, two commits, the panic.
  `Reported` is the same contract with claims for what is queued and status words for
  verdicts: `GuestKeepsContract` says that the guest commits the status its claim
  deserves, or nothing.
* **M2Prover** - `smoke` and `prove` of the host, run after run over one output
  file.  SP1 is external: set-up, proving, verification and saving may fail
  at any time, and a panicking guest may come back as a proof or not.
* **PublicInputs** - the bytes that are hashed into the digest, field by field,
  in bytes of base `Base`; and the file that `toy-encode` writes, header first.
* **ToyCodec**, **ToyPlane** - transform, quantiser and rounding as operators on
  blocks; the loops of `encode_plane` and `decode_plane`, a block per step.

### The H.264 decoder

* **BitReader** - `read_ue`, `read_se`, `read_te` bit by bit in words of `W` bits.
  The cap on leading zeros is as many as the word has bits, as in the source;
  `checked` is the build: with overflow checks the shift by that many panics,
  without it wraps.
  The property spells out the standard's codes (`UeCode`), which the reader never
  builds.
* **NalFramer** - `NalUnitIterator::next` and `collect_units`, a unit per step,
  over streams an encoder framed (`sent`) and over any bytes.
* **Headers** - SPS, PPS and slice header, a syntax element per step.  What is
  there to be read is what the standard's syntax writes for the same options,
  so a parser out of step meets an element of another name, and from there
  (`Astray`) may end in any way.
* **CavlcTables**, **ReadVlc** - the tables as they are typed, and the look-up.
* **CavlcLevels** - signs, prefixes, suffixes, and the adaptive suffix length.
* **CavlcResidual** - token, zeros and runs, and the placement of the levels,
  which are named by their slots.  The tables are parameters here.
* **Macroblock** - header and residuals of one macroblock, an action per read; a
  residual block is its TotalCoeff, and `HasCode` says that the tables VLC1 and
  VLC2 end at two coefficients.  A read may fail anywhere.
* **IntraModes** - an encoder codes modes relative to neighbours and the decoder
  resolves them in scan order.
* **FrameDecode** - the macroblock loop of `decode_iframe`: which errors are
  returned, which are filled over, where the reader stands, and the running QP.
  A bit count stands for the slice; QPs are unbounded integers.  The planes are
  allocated and filled (`AllocatePlanes`) before the first bit is read.
* **FrameMacroblocks** - that loop composed with Macroblock over one reader: each
  read takes the bits of its code, so that where a failed macroblock leaves the
  reader, and with what the next one is parsed, is computed.  `ImplementsLoop`
  says that the composition is a behaviour of FrameDecode, whose variables it
  has.
* **LumaRecon** - the order of luma reconstruction over a picture, and which
  samples each block's prediction reads, those to the upper right included.
* **IntraPredict** - the seventeen predictors over real sample values, of neighbours that
  may be missing or may be taken from a picture (`image`) that a mode should continue.
* **ResidualTransform** - clamp, dequantisation, inverse transform and the sum with
  the prediction, and the two Hadamard paths for DC levels.

### The programs around the code

* **SpikeHosts** - `prove` and `verify` of the four drivers as sequences of steps
  under the names of their functions, run after run over the same two files.
  The proving systems are external: a proof is sound or it is not, a faulty
  prover may return any, and the first file at `--out` may be from elsewhere.
* **FoldCircuit** - the step circuit of Sonobe's toy decode on the bits of a word,
  next to `clamp_native`.
* **SpikeBench** - the bench loops with `write_partial` step by step (create, write,
  sync, rename), under `bench-driver`, `run.sh` or alone.  What benches print is
  left out; `run.sh` builds the host of RISC Zero without its feature (line 50), so
  that its first side fails and the script ends there.  A rename is whole or
  not there; nobody syncs the directory, so that after a loss of power a name may
  again stand for an earlier file (`older`).
* **GpuBattery** - the phases of `scripts/full_test_gpu.sh` as sequences of blocks
  of commands under guards; a block's failure enters its flag in one of three
  ways (`&&` chain, subshell, `|| X_OK=0`), as the script writes it.

## 3. Runs

The components of a layer meet in pure function calls, or, around the code, not
at all; the product of their states shows no more than each of them from all
its inputs.  The modules **MCM2**, **MCParsing**, **MCRecon** and **MCDrivers**, and **M2Values**
for the values of a claim, therefore hold several components side by side: `part` says which of
them a behaviour is of, and the others rest in a state they can end or begin in.
They extend their components, under whose names the theorems of section 4 are stated.
Where components really interact they are composed: **MCM2Statement** runs the guest on the claim
that the native check has decided, M2Prover contains the guest, and
FrameMacroblocks is the frame loop over the macroblock parser.

| run | states | what it shows |
|---|---|---|
| `m2` | trees of 0 to 7 leaves, indices 0 to 7, every presented leaf; planes from 8x8 to 24x16, six QPs; figures on both sides of each tolerance, which has either sign; all pairs of small public inputs and of small encoded files; every way a fixture is refused, lossless and lossy QPs, tolerances on both sides of the PSNR, any number of prover runs | the loops of the tree agree, stay in bounds, bind the leaf and end; codec, comparator, digest and file keep what they are given; the file at `--out`, the exit code and the native check mean what they say |
| `m2_statement` | 16x16 frames, three signed frames, every original over two blocks, five tamperings of the paths and three of their length, six bad bitstreams, forged signatures | the contract is implemented; accepted blocks are bound to the signed frame; the guest reports the same verdict on the same claim |
| `parsing` | 4-bit words over strings of 0 to 2 bytes, in both kinds of build; framed streams of one to four units and all raw streams of six bytes; every SPS, PPS and slice option; every codeword of every table whole or cut short; levels on both sides of each escape; every token, zeros and runs | reads, units, headers, look-up, levels, placement |
| `frame_decode` | 0, 1, 2 and 4 macroblocks on slices of 0 to 400 bits, twelve textures of TotalCoeffs, QPs and deltas past both ends | codes, residuals, work, termination, refinement of the loop |
| `recon` | 3 by 2 macroblocks with any mode in each block; every choice from two pairs of modes in sixteen blocks; exhaustive two-level 4x4 neighbourhoods, spikes and slopes; levels up to past 16 bits at 14 QPs | order, modes, prediction, residual |
| `drivers` | 512 words folded twice; four drivers, two runs over five inputs; two bench sessions of two sizes; every outcome of every command of the battery | what files, exit codes and comparisons mean |
| `recon_tall` | 1 by 2 macroblocks | violation: rows from `pic_w` on are not written (frame.rs:273) |
| `upper_right` | 3 by 2 macroblocks | violation: modes 3 and 7 read samples above and to the right that are still gray (frame.rs:345) |
| `intra_directions` | mode 3 on slopes | violation: every pixel but one is predicted from one sample too far to the left (intra.rs:235) |
| `macroblock_types` | mb_type 0 to 3 | violation: mb_type is taken apart otherwise than in Table 7-11 (mb.rs:69) |
| `slot_order` | every token, zeros and runs | violation: the slot of the first trailing one is placed lowest in the scan (cavlc.rs:875) |
| `jolt_phase` | the battery with every outcome of its commands | violation: phase 6 ends PASS although its first bench failed (full_test_gpu.sh:199) |

The properties of each run, and what a violation would mean in the code:

* `m2` - `WalkBinds`: a path accepts another leaf than its own, or not its
  own; `LoopsAgree`: two of the three loops pair the nodes of a level differently;
  `InBounds`, `Terminates`.  `Faithful`, `FiguresFollowPlanes`; `BytesBind`: two
  public inputs, or two encoded files, that differ have the same bytes.
  `SavedProofIsSound`, `OutFileFollowsExit`: the file at `--out` is not
  what the exit code says; `SmokePredictsGuest`: a proof is paid for in vain.
* `m2_statement` - `BothKeepContract`: a claim gets another verdict than the first
  check it fails, or another status from the guest; `AcceptedBlocksAreBound`: a block
  is accepted that its own path does not lead to the signed root;
  `GuestAgreesWithNative`: the queue is read in another order than it was written, or
  the guest halts for a claim that the host's own check refuses.
* `parsing` - `ReadsOwnCode`: a read takes a bit too many, returns the value of another
  code or refuses one; `UnitsYielded`, `FlagOfSlice`: a byte or a flag ends up with
  another unit; `InStep`: a header goes out of step that `Departs` does not name, or at
  another place; `ScopeEnforced`: a feature is let through that `LetThrough` does not
  name; `CodewordsDecode`, `SlotsFilled`, `PlacementInBounds`, `LevelsPlaced`.
* `frame_decode` - `VariantsAgree`: the count of a neighbour in the same macroblock is
  used before it is final;
  `ResidualsMatchHeader`: a macroblock keeps what another one announced, or lacks
  what it announced itself; `WorkBounded`: a macroblock is written, beyond
  the one fill of the planes, that is not paid for in bits;
  `ImplementsLoop`: a failed call leaves the loop where FrameDecode cannot be, or
  an unwrapped QP; `Returns`.
* `recon` - `ReadsReconstructed`: a block above, to the left or at the corner is read
  before it is written, or one to the upper right in another block than the five of
  `UpperRightLater`; `PictureComplete`; `ModesRecovered`: a resolved mode
  is not the one that was coded; `PredictsItsGeometry`: a sample is read one place
  off; `NeverOverflows`, `ScalesExactly`.
* `drivers` - `FoldFollowsNative`; `VerifiedMeansProved`: Ok for a statement nobody
  proved; `SavedPairMatches`: an unverified proof is left behind, or a commitment of
  another input; `ResultSurvivesCrash`: a result file is torn, mixes sessions or
  loses a row that was acknowledged, while the machine keeps its power;
  `ComparisonIsFresh`: a side of an earlier session is compared with one of this, in a
  session that has a fixture; `PassMeansDone`: a phase is reported PASS although a
  command failed whose status the script does look at; `SafeToTerminate`.

The type invariants of MerkleWalk, M2Statement, M2Prover, LumaRecon, IntraModes,
ResidualTransform, CavlcResidual, ReadVlc and CavlcLevels are not among the runs'
properties: they are proved (section 4).
So is `QpLegal`, which FrameDecode's loop owes to the wrapping that
`ImplementsLoop` checks.

Why the bounds are enough.  Seven leaves give every mix of odd and even levels
up to depth three.  Four-bit words have every length of Exp-Golomb code, with
both sides of the cap, inside two bytes.  Six raw bytes hold two start codes and
what can overlap between them; four units hold every order of the kinds that
`collect_units` distinguishes.  Residual blocks, macroblocks and coded block
patterns have their real size; levels are the ends of each range.  Four
macroblocks let an error come before, at and after the last one; the slices end
in the first header, in the second, in a residual, and nowhere.  The textures put
two TotalCoeffs on both sides of the bounds of nC next to each other in every
direction, and `Corner` puts 6, 7 and 8 above and beside blocks of 2, where the
tables change.  Pictures of
3 by 2 macroblocks have blocks with every set of neighbours.  The transform is
linear between its roundings: spikes and sign patterns drive one output to its
extreme.  Of the five blocks whose upper right comes later, of mode 3, of the first
bench of Jolt, a single state is enough to see what the violation runs show.  For the drivers, two runs are one that leaves a file and one that finds it;
`LenMod` is 4 in place of 2^32, and one input is as long as that; two sessions of two
sizes have a row before and a row after each step of `write_partial`, and an
earlier document to fall back to.

What the bounds cut off, the proofs cover for Merkle, MerkleWalk, M2Statement,
M2Guest, M2Prover, ToyPlane, CavlcResidual, ReadVlc, CavlcLevels, FrameDecode,
FrameMacroblocks (all but its liveness), NalFramer, Headers, LumaRecon, IntraModes,
ResidualTransform, BitReader, IntraPredict, FoldCircuit, SpikeHosts, SpikeBench and
GpuBattery, and for the operators of Comparator and PublicInputs.

The behaviours are calls that return, scripts that end, or, in `m2` and `drivers`, such
parts beside a host that can always be run again; the .cfg files say CHECK_DEADLOCK
FALSE.  That every call returns is the liveness claimed for MerkleWalk, M2Statement
and FrameMacroblocks.

### Fairness

MerkleWalk, M2Statement, FrameDecode and FrameMacroblocks assume weak fairness of
their next-state relation and of nothing else: they are function calls of one
thread, which keeps running until it returns.  The choice between a read that
succeeds and one that fails is not fair.  M2Contract has weak fairness of
`Decide`, which M2Statement implements; the fairness of FrameDecode is implied by
that of FrameMacroblocks, because between two steps of the loop there are only
finitely many reads (`ImplementsLoop`).  The other specifications assume none,
and no liveness is claimed for them.

## 4. Proofs

| module | theorem | what is proved |
|---|---|---|
| MerkleProofs | `OwnPathVerifies`, `VerifiedIsNode` | of the operators: the path of a leaf leads to the root; under a collision-free hash, what verifies is the node of the tree as many levels below the root as the path is long, or, of a longer path, is folded into a leaf |
| MerkleWalkProofs | `WalkTypeOK`, `WalkInBounds` | shapes and bounds, for every vector, index and hash |
| | `LoopsComputeTheTree` | `LoopsAgree`: root, path and verifier are those of the one tree |
| | `PathAcceptsItsLeaf`, `WalkBindsLeaf` | the path accepts its leaf, whatever the hash; and no other, if `H` is collision free |
| M2Proofs | `StatementTypeOK` | the loop index stays in the vector of paths |
| | `StatementRefinesContract` | every step decides what the claim deserves, or stutters |
| | `GuestRefinesContract` | so does the guest, with status words for verdicts: one decision, or a stutter |
| | `AcceptedBlocks` | `AcceptedBlocksAreBound`, for frames of every size and paths of every length, if the hash is collision free |
| | `GuestFollowsNative` | `GuestAgreesWithNative`, for all claims |
| | `ProverTypes`, `SavedProofsAreSound`, `SmokePredictsTheGuest`, `ExitCodeIsHonest` | the four invariants of M2Prover, for all requests, codecs, hashes, figures |
| M2ValuesProofs | `WhtTwice`, `BlockRoundTrip`, `DecodeFitsI32` | the transform is its own inverse up to 64; a block returns within half a step; nothing overflows |
| | `PlaneRoundTrip` | `Faithful`: so does a plane of any size, every pixel in its own place |
| | `CombinedFollowsPlanes` | `FiguresFollowPlanes`, for any figures up to `Infinite` and any tolerance |
| | `BytesBindInputs` | `BytesBind`, for bytes of any base, arrays of any size, and as many coefficients as a u32 counts |
| ParsingProofs | `ReaderReadsOwnCode` | `ReadsOwnCode`: a read takes one whole code and no more, and refuses none that stands, for any bytes, any position, any width `W` of word; it returns the value of that code unless the code has `W` leading zeros, where it panics or returns `Wrapped`, by the build |
| | `ResidualTypeOK`, `PlacementStaysInBounds` | the placement, for all tables that leave room for their coefficients |
| | `LevelsArePlaced` | `LevelsPlaced`: every level is in the block, those read one after the other side by side, and the zeros at one side |
| | `LookupTypes`, `CodewordsReadBack` | `CodewordsDecode`, for every table of codes of up to 16 bits, prefix-free or not |
| | `LevelTypes`, `SlotsAreFilled` | `SlotsFilled`: the signs and levels fill all slots, none of them with 0 |
| | `HeadersTyped`, `HeadersStayInStep` | `InStep`: each element is read as what was written, for any number of marking operations and all options but the three of slice headers that `Departs` names, which are read in step up to their `Departure` |
| | `HeaderScopeIsEnforced` | `ScopeEnforced`: accepted only in the declared scope or `LetThrough`, refused only outside both; of slice headers out of step, as far as their first two elements |
| LumaReconProofs | `LumaTypeOK`, `NeighboursReconstructed`, `EveryBlockReconstructed` | order and completeness for pictures of every size that are not taller than wide; the upper right but for the five blocks of `UpperRightLater` |
| | `ModesTyped`, `ModesAreRecovered` | a macroblock with any modes in any blocks is resolved to what was coded |
| | `ResidualTypes`, `TransformNeverOverflows` | 32 bits hold every intermediate value, for all levels of 16 bits and all QPs |
| | `ScalingIsExact` | `ScalesExactly`, and `NearExact` for all levels of 16 bits: the integer residual is within its rounding of the exact transform |
| | `PredictionGeometry` | `PredictsItsGeometry`: ranges and mirrored pairs of the seventeen modes, continued pictures of modes 4 to 8 and plane, for every neighbourhood of bytes |
| FrameDecodeProofs | `DequantQpLegal`, `DecodeWorkBounded` | legal QP, and work bounded by the slice beyond one fill of the declared picture, for every picture and slice |
| | `FrameImplementsLoop` | the loop over the macroblock parser takes the loop's steps, or stutters: for every code below 511, every slice and every texture |
| | `FrameWorkBounded` | so that work and QP are bounded there as well |
| | `FrameVariantsAgree`, `FrameResidualsMatch` | `VariantsAgree` and `ResidualsMatchHeader`, for frames of any number of macroblocks, any texture of TotalCoeffs and any codes; neighbours are those in the same macroblock |
| | `FramerTyped`, `FramingIsUndone` | `UnitsYielded`: the walk inverts every framing of any payloads, and yields NAL units of any bytes |
| | `FlagStaysWithSlice` | `FlagOfSlice`, in any stream |
| DriversProofs | `GadgetIsClamp` | on every 16-bit word the circuit's clamp is that of `clamp_native` |
| | `FoldTheorem` | the folded sums are the native ones, for any number of steps over any words |
| | `OkMeansProved`, `OkMeansSaved` | `VerifiedMeansProved`, of SP1 and RISC Zero, and `SavedPairMatches`, for any number of runs, inputs, bounds, and whatever file was there first |
| | `CrashLeavesWholeFiles`, `ComparisonOfThisSession` | `ResultSurvivesCrash` and `ComparisonIsFresh`, for any sizes and any number of sessions, kills and losses of power: files whole throughout, acknowledged rows until the power fails, comparisons in sessions with a fixture |
| | `PassesAreHonest`, `ExitZeroIsSafe` | `PassMeansDone` (every command but nvidia-smi and the first bench of Jolt) and `SafeToTerminate`, for every outcome of every command |

The inductive invariants:

* *MerkleWalk* - `Walk`: each level is the parent level of the one before, the
  node the verifier holds is the node of that level above the leaf it started
  from, and the trail has its siblings.  InBounds and the verdict are not
  inductive: they say nothing of levels that are still to come.  `Bound` carries
  "a wrong leaf gives a wrong node" upwards, which is where collision freedom is
  used, and only there.  `VerifiedIsNode` goes the other way, from the root down along
  the path: two digests that are hashed to a node are the two nodes below it.
* *M2Statement* - `Known`: what each check may rely on, one conjunct per place in
  the code.  The verdict of the last check is right only because of all the
  earlier ones.  With the guest beside it, `Agreed`: the guest holds the queue or
  the claim that was read from it, and has ended with the status of a verdict that
  this claim deserves; `StatusFor` gives one status to all of these, which is why
  the two programs need not stop at the same path.
  On its own, the guest needs only `GuestReads`: what was read and what is left of the
  queue are what was written (`Queue`).  The step that reads nothing more decides, and
  every other one stutters in the contract.
* *M2Prover* - `ProverInv == Status /\ Claim /\ Guest /\ ProofOfInputs /\ File`: the
  queue is a suffix of what was written, what the guest holds the rest of it; a
  proof in hand carries the digest and status of the current inputs.
* *ToyPlane* - `PlaneInv`: every coefficient before `idx` is that of its own block
  (`CodedAt`), every place of the blocks before `(by, bx)` is close to what it was,
  and `idx` counts 64 per block.  `Faithful` speaks of the end alone; that blocks
  and coefficients are numbered alike in two pairs of loops is what it takes.
* *M2Values* - `ValuesInv` only says what is looked at; the work is in the lemmas.  Of
  two equal byte strings the fields before the first count are cancelled from the left
  and those after the body from the right; a count is read back from its digits and
  tells where its coefficients end; the tag before the audio descriptor tells the two
  forms of a body apart, which differ in length.  Without the bound on a vector's length
  (`CoeffVecs`: a u32 counts it; 65535 * 65535 samples fit) the cast in `Count` would
  lose digits.  The combined figure is a weighted mean of those that are finite.
* *BitReader* - `ReaderInv`: the bits from `start` are `zeros` zeros (`ZerosRead`), and
  after the marker `suffix` is the number that the bits read so far spell
  (`WordRead`), so that `2^zeros + suffix` is the word of the code.  That the word
  has the code's digits, and no other value has, needs what `Pow2` is: strictly
  growing, and that division by it shifts.  For a read that fails, two codes that
  stood at one place would have the same zeros; where the stream runs out (`RunsOut`),
  or `W` zeros and one more were seen, no code has room or as many zeros.  A code with
  `W` zeros is that of a `LongNumber`; the shift modulo the width adds 1 in place of
  `2^W`, and what comes out is `Wrapped`.
* *ReadVlc* - `LookupInv`: what was peeked is the first bits of the codeword that was
  written (`Peeked`), so that an entry found early is its prefix, and the first one
  found is the `Shortest`.
* *CavlcLevels* - `LevelsInv`: the slots filled so far are the signs from the top and
  the levels below them (`FilledSlots`), and the filled slots are those that are
  not 0; no level code is that of 0, at any suffix length.
* *CavlcResidual* - `Conserved`: what is placed, what is to be placed and the zeros
  left add up to TotalCoeff + total_zeros.  In the bounds alone nothing relates
  `zeros_left` to the room that is left.  `OrderInv` adds that the slots read so far
  are placed in falling order, the last of them at the place reached.
* *NalFramer* - `FramerInv == WalkInv /\ WalkedSent`.  `WalkInv` is of any stream: what
  is yielded is a NAL unit, and the slice kept is the last one (`LastSlice`).
  `WalkedSent` says where a walk over a framed stream stands: in the zeros between
  the unit it yielded last and the start code of the next (`Past`, `First`).  What it
  needs of the encoder is that an escaped payload is `Clear`: no two zeros in it are
  followed by a byte below 3, so that no start code begins in a unit, not even in its
  last two bytes, and that it does not end in a zero, which the walk would take for
  padding.  That stripping undoes escaping (`EscapeStripsBack`) goes prefix by prefix.
* *Headers* - `HeaderInv`: a header is the names the parser begins with, in their
  order, each followed by what its value leads to; `close[k]` is where that ends, so
  the elements are nested (`Syntax`).  The agenda is what is left of all the nests
  the parser is in (`Aligned`); reading an element opens its own nest in front.  An
  element out of scope need not have its nest closed, except in a slice header.  This is
  `SteadyInv`; the slice headers that `Departs` names have `DepartInv`, by which the
  parser has read the elements before the `Departure` and none behind it.
* *LumaRecon* - `written` is exactly what is earlier in macroblock and scan order
  and passes the guard of the write-back; `ZIndex` inverts the scan, and of a block to
  the upper right it is lower but for five blocks (`UpperRightEarlier`).  The theorems
  assume `MbRows <= MbCols`; without that assumption the run `recon_tall` is the
  counterexample.
* *FrameDecode* - `LoopInv`: every macroblock that the loop has left behind, or is in
  the middle of, has cost at least five bits of the slice (`Paid`, `ReadOn`), the planes
  were filled once before (`WrittenOnce`), and the QP was wrapped before it is used.
* *FrameMacroblocks* - `ReaderInv`: the bits a header has cost by the time its next
  field is read, and that the reader of the call is behind the one of the loop.
  FrameDecode lets a header that is passed on cost at least `HeaderBits`, and one
  that is passed over eight; that the parser never returns earlier follows only
  from counting along its fields.
  For the blocks, `BlockInv`: exactly the blocks before `pos` have a TotalCoeff, and
  each block read was read with the code its neighbours' TotalCoeffs call for
  *now*; a step keeps that because the block it fills in comes after every block it
  is a neighbour of (`BlockOfPlace`).  `HeaderInv` has the part of a header read so
  far, and of the coded quarters the blocks before `pos`.  Both hold again when the
  next macroblock starts, which is where something could be left over.
* *IntraModes* - `ModesInv`: every record is the code of its block's mode relative to
  what the blocks before it predict, and the modes resolved so far are the chosen
  ones.  Encoder and decoder see different unknown blocks; `SamePrediction` says
  that a prediction reads none of them.
* *ResidualTransform* - `ResidualInv`: what the block is at each stage, as an operator
  of the request.  The rest is arithmetic: bounds for each class of position, a
  pass that halves twice, and the error of the two halvings (`ResidualIsNearExact`).
  The run's `ScalesExactly` is for levels of at most 64, the theorem for all of 16 bits.
* *IntraPredict* - `PredictInv`: a block predicted is the one the mode computes, from
  neighbours that are all there.  The work is in a lemma per mode for each of the three
  parts: a tap lies between its samples; a reflection turns the case of one mode into the
  case of the other, pixel by pixel; and samples of a picture are equally spaced along a
  row, so that an average in the middle of three is the middle one.  Round the corner of
  modes 5 and 6 it is not, and plane scales its slopes by 5/64 or 34/64: the
  limits on the slopes in `AlongMode` are what the roundings bear.
* *FoldCircuit* - `FoldInv`; the work is in `GadgetIsClamp`, where the bits of the
  high byte are zero exactly if its sum is.
* *SpikeHosts* - `HostsInv`: a step of the plan that is no longer pending has had its
  effect (`ProvingInv`, `VerifyingInv`), and whatever is at `--out`, from this
  driver, another one or elsewhere, shows a commitment of some accepted input if
  it is sound (`Shows`).  That each driver's plan has its steps in a usable order
  (`ProvePlan`, `VerifyPlan`) is proved of the plans as they are written.
* *SpikeBench* - `BenchInv`: the file a name stands for is whole, and so is every
  earlier one it may fall back to; the temporary file is what `stage` says; the
  rows cover the sizes gone through, in their order, which is what makes rows of
  equal position rows of the same fixture.
* *GpuBattery* - `BatteryInv`: as long as the flag is up, every block gone through has
  run its commands and none has failed but those of `Unseen`: nvidia-smi, which the
  script lets fail, and the first bench of Jolt (section 5).

Assumptions.  The named ASSUMEs of the modules say what shapes the constants have
(sizes, requests, claims, planes, figures, public inputs, streams, header options,
tables, levels, palettes, residuals, neighbourhoods, hosts), and TLC evaluates them in
the runs.  `ShadowedCodewords` of CavlcTables lists the five codewords of the tables
that another codeword hides.  What is assumed of SHA-256 is an explicit hypothesis of
the theorems that need it, and one only: `CollisionFree`, no two strings of 64 bytes
hash alike.  A block and a pair of digests are both 64 bytes, and nothing in the code,
or in the hypothesis, tells a leaf from an inner node.

Only model-checked:

* liveness (`Terminates`, `Returns`, and in `BothKeepContract` the fairness of
  `ImplementsContract`), which is out of TLAPS's reach as ENABLED is;
* what a recursive function computes for every input, where no bound on the input
  makes it a finite fact.  The library's induction theorems cannot be instantiated;
  where the proofs need induction over a number (the levels of a tree, the length of
  a code), they take a least counterexample instead (`WFMin`, `BoundedInduction`);
* the contents of the tables that are typed in from the standard: the proofs assume of
  them what `TokensAssumption`, `ZerosAssumption` and `TablesAssumption` say, which TLC
  evaluates for the tables as they are.  Of the look-up tables nothing is assumed but that
  their codewords have 1 to 16 bits and that none is there twice.

## 5. What the models say of the code, and where code and text differ

The properties of the passing runs hold of the code as it stands.  The six
violation runs are listed in PROJECT.json.  These differences were met while
modelling.  The models follow the code; where a property would not hold, it names the
cases it excepts, by the operator given here:

* bitreader.rs:113 - the cap of 32 leading zeros lets through a code whose shift
  is as wide as the word.  A debug build panics, where line 16 says that reads never
  panic; a release build returns Ok with another number (`Wrapped`).
* comparator lib.rs:134 - identical planes are left out of the weighted average
  that line 92 says is over all planes.
* slice.rs:130 - `vui_parameters_present_flag` is read and ignored; the header,
  lines 22-24, says it is rejected.  slice.rs:101 - `pic_order_cnt_type` 2 is accepted,
  where line 45 says that M3 supports type 0 only (`LetThrough`).
* slice.rs:338, 348, 352 - under a PPS with bottom field POCs or redundant_pic_cnt, or
  for a slice of `nal_ref_idc` 0, later fields are read from other bits (`Departs`).
* cavlc.rs:323, 346 - COEFF_TOKEN_VLC1 and COEFF_TOKEN_CHROMA_DC_420 are not
  prefix-free: five of their codewords begin with another one and are always read as
  that (`ShadowedCodewords`, `Shortest`).
* cavlc.rs:463 - level codes at prefix 14 (suffix length 0) and from 15 on are not
  those of the standard, which line 378 says is followed verbatim.
* cavlc.rs:875 - slot 0 is placed at the highest frequency, where `decode_levels`
  stores the last level decoded; the comment at line 415 and the test at line 1097 have
  the first sign there (the run `slot_order`).  And the coefficients and their zeros end
  at the last place of the scan, not at the first (line 874); `LevelsPlaced` says
  neither which way round the levels are nor at which end of the scan.
* mb.rs:330-332, 412-414 - a neighbour in another macroblock counts as missing when the
  code of a block is chosen, as the comments say; `VariantsAgree` is of neighbours in
  the same one.
* frame.rs:76-78 - the planes are allocated in the size the SPS declares before a bit of
  the slice is read (the first term of `WorkBounded`).
* mb.rs:240 - a mode of 256 is cut to 8 bits before its range is checked.
* frame.rs:119 - after a failed macroblock the loop reads on in the middle of it.
* frame.rs:345 - samples to the upper right are taken before they are reconstructed, in
  five blocks of a macroblock (the run `upper_right`; `UpperRightLater`).
* intra.rs:235 - diagonal down left predicts every pixel but the corner from one sample
  too far to the left (the run `intra_directions`).  intra.rs:423 - horizontal up does
  not clamp `l[4]` to `l[3]` at x + 2y = 6, as lines 411-412 say; the property of that run
  fails for mode 8 as well, and `AlongMode` claims the pixels before.
* full_test_gpu.sh:199 - the two Jolt benches share a subshell whose status is that
  of the second (the run `jolt_phase`; `Lost`).
* cavlc.rs:323, 337 - the tables of VLC1 and VLC2 end at TotalCoeff 2, and
  `read_vlc` leaves the cursor where it was when no entry matches: a slice whose
  neighbours call for those codes loses its blocks from there on (`HasCode`,
  `InvalidBits`).
* cavlc.rs:201-208 - the doc of the fixed-length code says 0b000011 is invalid;
  the code returns (0, 0).  manifest lib.rs:115-127 omits the audio flag byte.
  host main.rs:10-13 names a subcommand `verify` that does not exist.

Of the spikes, where the models follow the code likewise:

* `verify` of Jolt returns Ok for any file it can read (TESTING.md:82 calls verifying
  a file blocked, and does not say that the command then succeeds);
  `verify` of Sonobe ignores `--commit` and `--min-size`.  `VerifiedMeansProved` is
  of SP1 and RISC Zero only.
* `prove` of Jolt exits with Ok and without a file when the proof cannot be
  serialised, and writes no commitment for toy-decode (the exceptions in
  `SavedPairMatches`).
* The three toy-decode workloads commit to different things: planes of the encoded
  frame (SP1), of the bytes taken as coefficients (Jolt), sums of bytes (Sonobe).
* Sonobe's chain starts from a constant, so that its end depends on the length of
  the input alone; its toy decode is handed bytes, which never reach the two clamped
  branches; `coefficient_sum` adds words without their sign.
  `clamp_native` and `sha_chain_native` are called by nothing.
* spike/bench/run.sh:50 - the host of RISC Zero is built without its feature and exits
  1, so that under `set -e` the script ends before its second side.  Line 45 says that
  each host's bench prints one document on stdout; those of SP1 print progress lines as
  well, those of Jolt and Sonobe no document.  What benches print is not modelled.
* spike/risc0/host/src/main.rs:110-112 - a completed row is not "always durable": the
  directory is not synced after the rename (`older`), and `ResultSurvivesCrash`
  promises the row only until the machine fails.
* A bench without fixtures exits 0 and leaves the file of an earlier session
  (the premise `present # {}` of `ComparisonIsFresh`); bench-driver pairs rows by
  position, and `scripts/bench_all.sh` ends its commands in `|| true`.
* `compare.py` looks for `proof_bytes` at the top level, where no document has it.
* `toy-encode` ignores what a file holds past its first frame.

What acceptance does not mean: that every block of the original is a block of the
signed frame.  A block is hashed like a pair of digests (m2-statement lib.rs:61-69,
manifest lib.rs:204-212) and the length of a path is not checked (267-293), so that
under a path that is too short a block made of two digests of the tree is accepted;
`m2_statement` has such claims, and `AcceptedBlocksAreBound` says what a block is bound
to by the length of its path.  Nor is the index inside a path ever compared with
the block it is offered for, so that blocks of the frame need not be in their places;
and chroma is not part of the tree at all.

## 6. Not modelled

`psnr_fixed` and floating point; Ed25519 and SHA-256 (ideal), the proving systems
(external); argument parsing; fixtures, test vectors and installers; the figures
of a bench (times, memory, sizes) and how `compare.py` lays them out; the second
Sonobe circuit (`sha256_circuit.rs`), which wires a library gadget, and its Decider;
`spike/web/`, a page around a verifier of its own; reconstruction of chroma and of I16x16
macroblocks, which `decode_iframe` does not do yet; the toy decoder's behaviour on
vectors whose lengths do not match their header beyond its guards.

## 7. Plan

Written, in this order: the claim and its checks (Merkle, MerkleWalk, M2Claim,
M2Contract, M2Statement), guest and host (M2Guest, M2Prover), codec and digest,
the decoder from bits to samples, the battery; FrameMacroblocks with its
refinement; the spikes (SpikeHosts, SpikeBench, FoldCircuit); then the proofs, in
the order of section 4 except that those on codec, look-up, levels, modes,
residual, drivers, framing, headers, bit reader and predictors came last.

Next, for the models:

1. **NalFramer, Headers and FrameMacroblocks in one chain**: `decode_iframe` from a
   byte stream, with the parameter sets of several units.
2. **CavlcResidual over ReadVlc and CavlcLevels**: one block on one bit string,
   refining the three parts; its abstract specification is "a block of TotalCoeff
   levels or an error, and the cursor behind its last bit".
3. Prediction across macroblocks in IntraModes once the decoder has it.

For the proofs: every invariant that a run checks is stated by a theorem; what is
left are the refinements that these compositions will owe to their parts.
