------------------------------ MODULE M2Prover ------------------------------
(***************************************************************************)
(* prover-host driving the SP1 guest, run after run over one output file.  *)
(* The host builds a claim from a request, checks it natively, queues five *)
(* typed values for the guest and waits for the proof; the guest reads     *)
(* them back, checks the same claim and commits a digest and a status.     *)
(*                                                                         *)
(* SP1 itself is external: set-up, proving, verification and saving may    *)
(* each fail, and a guest that panicked may or may not come back as a      *)
(* proof, one that carries what it had committed.                          *)
(***************************************************************************)
EXTENDS M2Guest

CONSTANTS
  Requests,             (* command lines, with the files they name         *)
  Reconstruct(_, _)     (* decode after encode, of a frame at a QP         *)

(* Sizes and the QP are unsigned, and a tolerance is an i64, so that none
   lies above the sentinel i64::MAX.                                       *)
ASSUME RequestsAssumption ==
  \A r \in Requests : /\ r.width \in Nat /\ r.height \in Nat /\ r.qp \in Nat
                      /\ r.tolerance \in Int /\ r.tolerance <= Infinite

VARIABLES
  request,
  host,       (* what the host does next                                   *)
  proof,
  file,       (* the file at --out                                         *)
  before,     (* that file when the run began                              *)
  exit        (* 0 for Ok(()), 1 for an error or a panic                   *)

runVars == <<request, inputs, before>>
proverVars == <<runVars, host, guestVars, proof, file, exit>>

None == [kind |-> "none"]
Running == 2

-----------------------------------------------------------------------------
(* build_inputs.                                                           *)

OriginalOf(r) == [width |-> r.width, height |-> r.height,
                  y |-> r.raw.luma, u |-> r.raw.chroma, v |-> r.raw.chroma]

RawSize(r) == r.width * r.height + 2 * ((r.width \div 2) * (r.height \div 2))

EncodeOk(frame, qp) ==
  /\ frame.width # 0 /\ frame.height # 0
  /\ frame.width % 16 = 0 /\ frame.height % 16 = 0
  /\ qp <= 51

EncodeToy(frame, qp) ==
  [width |-> frame.width, height |-> frame.height, qp |-> qp,
   chroma_format |-> 1, lengths_fit |-> TRUE, decoded |-> Reconstruct(frame, qp)]

BuildSucceeds(r) ==
  /\ r.width % 16 = 0 /\ r.height % 16 = 0
  /\ r.raw.readable /\ r.raw.size >= RawSize(r)
  /\ r.key \notin {"unreadable", "short"}
  /\ EncodeOk(OriginalOf(r), r.qp)

BuildInputs(r) ==
  LET original == OriginalOf(r)
      leaves == FrameMerkleLeaves(original)
  IN  [signed    |-> SignManifest([root |-> MerkleRoot(leaves)], r.key),
       bitstream |-> EncodeToy(original, r.qp),
       original  |-> original,
       paths     |-> Vec(leaves.len, LAMBDA b : MerklePath(leaves, b)),
       tolerance |-> r.tolerance]

-----------------------------------------------------------------------------
ProverInit ==
  /\ request \in Requests
  /\ host = "build"
  /\ inputs = None
  /\ stdin = <<>> /\ guest = "idle" /\ taken = <<>> /\ public = <<>>
  /\ proof = None
  /\ file = None /\ before = None
  /\ exit = Running

(* A run ends; the process and everything it held is gone, the file is not. *)
End(code) == host' = "done" /\ exit' = code

Build ==
  /\ host = "build"
  /\ IF BuildSucceeds(request)
     THEN inputs' = BuildInputs(request) /\ host' = "check" /\ UNCHANGED exit
     ELSE End(1) /\ UNCHANGED inputs
  /\ UNCHANGED <<request, before, guestVars, proof, file>>

(* The native verify_m2_claim: all of smoke, the pre-check of prove.       *)
NativeCheck ==
  /\ host = "check"
  /\ IF ~ClaimHolds(inputs) THEN End(1)
     ELSE IF request.command = "smoke" THEN End(0)
     ELSE host' = "queue" /\ UNCHANGED exit
  /\ UNCHANGED <<runVars, guestVars, proof, file>>

QueueInputs ==
  /\ host = "queue"
  /\ stdin' = Written(inputs)
  /\ host' = "setup"
  /\ UNCHANGED <<runVars, guest, taken, public, proof, file, exit>>

(* client.setup, then client.prove starts the guest on the queue.          *)
Setup ==
  /\ host = "setup"
  /\ \/ guest' = "reading" /\ host' = "prove" /\ UNCHANGED exit
     \/ End(1) /\ UNCHANGED guest
  /\ UNCHANGED <<runVars, stdin, taken, public, proof, file>>

GuestRuns ==
  /\ host = "prove"
  /\ GuestStep
  /\ UNCHANGED <<request, before, host, proof, file, exit>>

(* client.prove returns.                                                   *)
ProveReturns ==
  /\ host = "prove" /\ guest \in {"halted", "panicked"}
  /\ \/ /\ proof' = [kind |-> "proof", public |-> public,
                     halted |-> guest = "halted", claim |-> inputs]
        /\ host' = "status" /\ UNCHANGED exit
     \/ End(1) /\ UNCHANGED proof
  /\ UNCHANGED <<runVars, guestVars, file>>

(* The two public_values.read calls panic when the guest committed nothing;
   then the two ensure!s.                                                  *)
CheckPublicValues ==
  /\ host = "status"
  /\ IF /\ Len(proof.public) = 2
        /\ proof.public[2] = 0
        /\ proof.public[1] = FixtureDigest(inputs)
     THEN host' = "verify" /\ UNCHANGED exit
     ELSE End(1)
  /\ UNCHANGED <<runVars, guestVars, proof, file>>

(* client.verify accepts only the proof of a guest that halted.            *)
Verify ==
  /\ host = "verify"
  /\ \/ proof.halted /\ host' = "save" /\ UNCHANGED exit
     \/ End(1)
  /\ UNCHANGED <<runVars, guestVars, proof, file>>

(* Mutant: a failed save is reported as success.                           *)
Bug_SaveIgnoresError ==
  /\ host = "save"
  /\ \/ file' = proof
     \/ file' = [kind |-> "partial"]
     \/ UNCHANGED file
  /\ End(0)
  /\ UNCHANGED <<runVars, guestVars, proof>>

(* proof.save: fails before the file is opened, or half-way through it.    *)
Save ==
  /\ host = "save"
  /\ \/ file' = proof /\ End(0)
     \/ file' = [kind |-> "partial"] /\ End(1)
     \/ UNCHANGED file /\ End(1)
  /\ UNCHANGED <<runVars, guestVars, proof>>

(* The next run of the program, which finds the file of the last.          *)
NextRun ==
  /\ host = "done"
  /\ request' \in Requests
  /\ host' = "build"
  /\ inputs' = None
  /\ stdin' = <<>> /\ guest' = "idle" /\ taken' = <<>> /\ public' = <<>>
  /\ proof' = None
  /\ before' = file
  /\ exit' = Running
  /\ UNCHANGED file

ProverNext ==
  \/ Build \/ NativeCheck \/ QueueInputs \/ Setup
  \/ GuestRuns
  \/ ProveReturns \/ CheckPublicValues \/ Verify \/ Save
  \/ NextRun

ProverSpec == ProverInit /\ [][ProverNext]_proverVars

-----------------------------------------------------------------------------
(* The two programs keep in step, and what each holds has its shape.       *)
ProverTypeOK ==
  /\ request \in Requests
  /\ host \in {"build", "check", "queue", "setup", "prove", "status", "verify",
              "save", "done"}
  /\ guest \in {"idle", "reading", "halted", "panicked"}
  /\ (exit = Running) <=> (host # "done")
  /\ exit \in {0, 1, Running}
  /\ guest = "reading" => Len(taken) + Len(stdin) = Len(ReadTypes)

(* Every proof that is ever found at --out comes from a guest that halted
   with status 0 over the digest of the saved claim; that claim is the
   fixture of a request, signed over the root of its own original, and its
   bitstream decodes to within the tolerance of that original.             *)
Sound(f) ==
  LET c == f.claim
  IN  /\ f.halted
      /\ f.public = <<FixtureDigest(c), 0>>
      /\ \E r \in Requests : BuildSucceeds(r) /\ c = BuildInputs(r)
      /\ VerifyManifest(c.signed)
      /\ c.signed.body.root = MerkleRoot(FrameMerkleLeaves(c.original))
      /\ Combined(FramePsnr(c.bitstream.decoded, c.original)) >= c.tolerance

SavedProofIsSound ==
  \A f \in {file, before} : f.kind = "proof" => Sound(f)

(* A fixture that passes the native check is never rejected by the guest:
   once smoke passes, prove can fail only in SP1 or on the disk.           *)
SmokePredictsGuest ==
  /\ guest # "panicked"
  /\ host = "status" => proof.public = <<FixtureDigest(inputs), 0>>

(* Success means this request's proof is at --out; after a failure the file
   there is what it was, or visibly cut short by the save.                 *)
OutFileFollowsExit ==
  host = "done" =>
    /\ exit = 0 /\ request.command = "prove" =>
         file.kind = "proof" /\ file.claim = BuildInputs(request)
    /\ exit = 1 \/ request.command = "smoke" => file \in {before, [kind |-> "partial"]}
=============================================================================
