----------------------------- MODULE SpikeHosts -----------------------------
(***************************************************************************)
(* The drivers of spike/sp1, spike/risc0, spike/jolt and spike/sonobe: one *)
(* command line, run after run over the two files named by --out and       *)
(* --commit-out.  prove and verify are the same few steps, and each driver *)
(* has them in an order of its own.  Every step may fail, and the process  *)
(* may be killed at any.                                                   *)
(*                                                                         *)
(* The proving systems are external: a proof is sound for one program and  *)
(* its public values, or it is not, and their verifiers can tell.  SHA-256 *)
(* is injective.                                                           *)
(***************************************************************************)
EXTENDS Integers, Sequences

CONSTANTS
  Inputs,       (* what --input may hold: sequences of bytes               *)
  MinSizes,     (* values of --min-size                                    *)
  LenMod,       (* 2^32 in the code: `as u32` takes a length modulo this   *)
  FrameSize,    (* 384: the bytes of one 16x16 4:2:0 frame                 *)
  Chunk,        (* 32: the input bytes that one step of the chain stands for *)
  MaxSteps,     (* --max-steps                                             *)
  MaxRuns       (* bound: runs of the driver over the same files           *)

(* What is read and asked for.                                             *)
ASSUME HostsAssumption ==
  /\ Inputs \subseteq Seq(Nat) /\ MinSizes \subseteq Nat
  /\ LenMod \in Nat \ {0}

VARIABLES
  system,       (* whose driver it is                                      *)
  request,      (* its subcommand and arguments                            *)
  steps,        (* what it has still to do                                 *)
  proof,        (* the proof it holds                                      *)
  serialised,   (* proof_buf is Some                                       *)
  out,          (* the file at --out, or --proof                           *)
  commit_file,  (* the file at --commit-out                                *)
  host_exit,    (* idle before the first run; ok is exit code 0            *)
  runs

files == <<out, commit_file>>
hostVars == <<system, request, steps, proof, serialised, files, host_exit, runs>>

Absent == [kind |-> "none"]
CutShort == [kind |-> "torn"]
Text(c) == [kind |-> "text", commitment |-> c]
Malformed == <<"malformed">>     (* --commit is not 64 hex digits          *)

-----------------------------------------------------------------------------
(* The statements.                                                         *)
LenU32(d) == Len(d) % LenMod

(* build_toy_frame and buf.resize(384, 0).                                 *)
Resized(d) == [i \in 1..FrameSize |-> IF i <= Len(d) THEN d[i] ELSE 0]

AtMost(n, limit) == IF n < limit THEN n ELSE limit
AtLeast(n, limit) == IF n > limit THEN n ELSE limit
ShaSteps(len) == AtMost(AtLeast((len + Chunk - 1) \div Chunk, 1), MaxSteps)

(* SP1 hashes what encode and decode make of the frame.                    *)
FrameDigest(d) == <<"planes of frame", Resized(d)>>

(* Jolt decodes the bytes themselves, as if they were coefficients.        *)
CoefficientDigest(d) == <<"planes of coefficients", Resized(d)>>

(* Sonobe adds the bytes up, and the clamped bytes, which are the same.    *)
FoldedSums(d) ==
  LET n == AtMost(Len(d), MaxSteps)
      sum[i \in 0..n] == IF i = 0 THEN 0 ELSE sum[i - 1] + d[i]
  IN  <<"sums", sum[n], sum[n]>>

(* The chain starts from 1, so that of the input only its length counts.   *)
ChainEnd(d) == <<"chain", ShaSteps(Len(d))>>

Commitment(workload, d) ==
  CASE workload = "sha256" -> <<"sha256", d>>
    [] workload = "chain" -> ChainEnd(d)
    [] system = "sp1" -> FrameDigest(d)
    [] system = "jolt" -> CoefficientDigest(d)
    [] system = "sonobe" -> FoldedSums(d)

(* The public values: the guest of SP1 echoes the size of the frame.       *)
Values(workload, d, min) ==
  <<Commitment(workload, d)>> \o
    CASE workload = "sha256" -> <<min>>
      [] workload = "toy" /\ system = "sp1" -> <<16, 16>>
      [] OTHER -> << >>

GuestAccepts(workload, d, min) == workload = "sha256" => LenU32(d) >= min

Proof(workload, values, sound, maker) ==
  [kind |-> "proof", workload |-> workload, values |-> values,
   sound |-> sound, maker |-> maker]

-----------------------------------------------------------------------------
(* The subcommands, by the names of their functions.                       *)
Sp1ProveSha256 == <<"write_commit", "prove", "compare", "verify", "save">>
Sp1ProveToyDecode == Sp1ProveSha256

(* Mutant: verify does not look at the echoed min_size.                    *)
Bug_VerifySkipsMin == <<"parse", "load", "verify", "compare_digest">>

Sp1VerifySha256 == <<"parse", "load", "verify", "compare_digest", "compare_min">>
Sp1VerifyToyDecode == <<"parse", "load", "verify", "compare_digest">>

Risc0Prove == <<"write_commit", "prove", "verify", "compare", "save">>
Risc0Verify == <<"parse", "load", "verify", "compare_digest", "compare_min">>

(* Mutant: the proof is written before it is verified.                     *)
Bug_SavesUnverified == <<"prove", "compare", "serialise", "save", "verify">>

JoltRunSha256 == <<"prove", "compare", "serialise", "verify", "save">>
JoltRunToyDecode == <<"prove", "compare", "serialise", "verify", "save">>
JoltProve(workload) ==
  IF workload = "sha256" THEN <<"write_commit">> \o JoltRunSha256 ELSE JoltRunToyDecode
JoltVerify == <<"read_proof">>

SonobeRunShaChain == <<"prove", "verify", "save">>
SonobeRunToyDecode == <<"prove", "verify", "save">>
SonobeProve(workload) ==
  <<"check_length">>
    \o (IF workload = "chain" THEN SonobeRunShaChain ELSE SonobeRunToyDecode)
    \o <<"write_commit">>
SonobeVerify == <<"load", "verify">>

Workloads ==
  CASE system = "risc0" -> {"sha256"}
    [] system = "sonobe" -> {"chain", "toy"}
    [] OTHER -> {"sha256", "toy"}

StepsOf(r) ==
  LET sha == r.workload = "sha256"
  IN  IF r.command = "prove"
      THEN CASE system = "sp1" -> IF sha THEN Sp1ProveSha256 ELSE Sp1ProveToyDecode
             [] system = "risc0" -> Risc0Prove
             [] system = "jolt" -> JoltProve(r.workload)
             [] system = "sonobe" -> SonobeProve(r.workload)
      ELSE CASE system = "sp1" -> IF sha THEN Sp1VerifySha256 ELSE Sp1VerifyToyDecode
             [] system = "risc0" -> Risc0Verify
             [] system = "jolt" -> JoltVerify
             [] system = "sonobe" -> SonobeVerify

-----------------------------------------------------------------------------
Proves(w) == [command : {"prove"}, workload : {w}, data : Inputs, min : MinSizes,
              commit_out : BOOLEAN]
Verifies(w) == [command : {"verify"}, workload : {w}, min : MinSizes,
                commit : {Commitment(w, d) : d \in Inputs} \cup {Malformed}]

(* At first the file at --out is missing, or came from elsewhere: a proof
   that some input meets some bound, or something that only claims it.     *)
Received(w) ==
  {Proof(w, Values(w, d, min), sound, "other") :
     d \in Inputs, min \in MinSizes, sound \in BOOLEAN}

Honest(w, f) ==
  f.sound => \E d \in Inputs, min \in MinSizes :
               f.values = Values(w, d, min) /\ GuestAccepts(w, d, min)

HostsInit ==
  /\ system \in {"sp1", "risc0", "jolt", "sonobe"}
  /\ out \in {Absent} \cup UNION {{f \in Received(w) : Honest(w, f)} : w \in Workloads}
  /\ commit_file = Absent
  /\ request = Absent /\ steps = << >> /\ proof = Absent /\ serialised = TRUE
  /\ host_exit = "idle" /\ runs = 0

Start ==
  /\ host_exit # "running" /\ runs < MaxRuns
  /\ \E w \in Workloads : \E r \in Proves(w) \cup Verifies(w) :
       request' = r /\ steps' = StepsOf(r)
  /\ proof' = Absent /\ serialised' = TRUE
  /\ host_exit' = "running" /\ runs' = runs + 1
  /\ UNCHANGED <<system, files>>

At(s) == host_exit = "running" /\ Head(steps) = s

(* The step is done, the next one is due; after the last main returns Ok.  *)
Done ==
  /\ steps' = Tail(steps)
  /\ host_exit' = IF Len(steps) = 1 THEN "ok" ELSE "running"
  /\ UNCHANGED <<system, request, runs>>

Expected == Values(request.workload, request.data, request.min)
NewCommit == Text(Commitment(request.workload, request.data))
WritesCommit == At("write_commit") /\ request.commit_out

WriteCommit ==
  /\ At("write_commit") /\ Done
  /\ commit_file' = IF request.commit_out THEN NewCommit ELSE commit_file
  /\ UNCHANGED <<proof, serialised, out>>

CheckLength ==
  /\ At("check_length") /\ LenU32(request.data) >= request.min /\ Done
  /\ UNCHANGED <<proof, serialised, files>>

(* A guest that panics has no sound proof; what a faulty prover returns may
   show the right public values, or none.                                  *)
Prove ==
  /\ At("prove") /\ Done
  /\ \/ /\ GuestAccepts(request.workload, request.data, request.min)
        /\ proof' = Proof(request.workload, Expected, TRUE, "driver")
     \/ \E v \in {Expected, << >>} :
          proof' = Proof(request.workload, v, FALSE, "driver")
  /\ UNCHANGED <<serialised, files>>

CompareValues ==
  /\ At("compare") /\ proof.values = Expected /\ Done
  /\ UNCHANGED <<proof, serialised, files>>

Verify ==
  /\ At("verify") /\ proof.sound /\ proof.workload = request.workload /\ Done
  /\ UNCHANGED <<proof, serialised, files>>

(* serialize_jolt_proof: an error is None, and no proof is written then.   *)
Serialise ==
  /\ At("serialise") /\ Done
  /\ serialised' \in BOOLEAN
  /\ UNCHANGED <<proof, files>>

Save ==
  /\ At("save") /\ Done
  /\ out' = IF serialised THEN proof ELSE out
  /\ UNCHANGED <<proof, serialised, commit_file>>

Parse ==
  /\ At("parse") /\ request.commit # Malformed /\ Done
  /\ UNCHANGED <<proof, serialised, files>>

Load ==
  /\ At("load") /\ out.kind = "proof" /\ Done
  /\ proof' = out
  /\ UNCHANGED <<serialised, files>>

ReadProof ==
  /\ At("read_proof") /\ out.kind # "none" /\ Done
  /\ UNCHANGED <<proof, serialised, files>>

CompareDigest ==
  /\ At("compare_digest") /\ proof.values[1] = request.commit /\ Done
  /\ UNCHANGED <<proof, serialised, files>>

CompareMin ==
  /\ At("compare_min") /\ proof.values[2] = request.min /\ Done
  /\ UNCHANGED <<proof, serialised, files>>

(* A check that does not hold, an error of a library or of the disk, a panic,
   a kill.  std::fs::write empties its file before it fills it.            *)
Stop ==
  /\ host_exit = "running" /\ host_exit' = "stopped"
  /\ out' \in {out} \cup IF At("save") /\ serialised THEN {CutShort, proof} ELSE {}
  /\ commit_file' \in {commit_file} \cup IF WritesCommit THEN {CutShort, NewCommit} ELSE {}
  /\ UNCHANGED <<system, request, steps, proof, serialised, runs>>

HostsNext == \/ Start \/ WriteCommit \/ CheckLength \/ Prove \/ CompareValues \/ Verify
        \/ Serialise \/ Save
        \/ Parse \/ Load \/ ReadProof \/ CompareDigest \/ CompareMin
        \/ Stop

HostsSpec == HostsInit /\ [][HostsNext]_hostVars

-----------------------------------------------------------------------------
(* verify of SP1 and RISC Zero returns Ok only if the file holds a sound proof
   that some input has the commitment given and is at least min_size long, its
   real length and not the one that is left of it after the cast; whatever runs
   before left in the file, and whoever made it.                           *)
VerifiedMeansProved ==
  host_exit = "ok" /\ request.command = "verify" /\ system \in {"sp1", "risc0"} =>
    /\ out.kind = "proof" /\ out.sound
    /\ \E d \in Inputs :
         /\ Commitment(request.workload, d) = request.commit
         /\ request.workload = "sha256" => Len(d) >= request.min

(* A proof that a driver leaves at --out, whenever it stopped, is sound and
   shows what its program commits for some input.  When prove returns Ok, both
   files are of this input; except that Jolt skips a proof it cannot serialise
   and writes no commitment for toy-decode.                                *)
SavedPairMatches ==
  /\ out.kind = "proof" /\ out.maker = "driver" =>
       /\ out.sound
       /\ \E d \in Inputs, min \in MinSizes : out.values = Values(out.workload, d, min)
  /\ host_exit = "ok" /\ request.command = "prove" =>
       /\ serialised => out = Proof(request.workload, Expected, TRUE, "driver")
       /\ request.commit_out /\ ~(system = "jolt" /\ request.workload = "toy") =>
            commit_file = NewCommit
=============================================================================
