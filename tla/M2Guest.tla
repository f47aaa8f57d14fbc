------------------------------- MODULE M2Guest ------------------------------
(***************************************************************************)
(* prover/guest: reads five typed values from the SP1 input queue, runs    *)
(* the M2 statement on them, commits a digest and a status, and panics     *)
(* unless the status is 0.                                                 *)
(***************************************************************************)
EXTENDS M2Claim, Sequences

VARIABLES
  inputs,     (* the claim whose parts were queued                         *)
  stdin,      (* the values the guest has not read                         *)
  guest,      (* idle, reading, halted or panicked                         *)
  taken,      (* the values the guest has read                             *)
  public      (* public_values, in the order they were committed           *)

guestVars == <<stdin, guest, taken, public>>

(* public_inputs_digest, taken as injective: see PublicInputs.             *)
PublicInputsDigest(signed, bitstream, tolerance) ==
  <<"digest", signed, bitstream, tolerance>>

FixtureDigest(c) == PublicInputsDigest(c.signed, c.bitstream, c.tolerance)

Value(type, v) == [type |-> type, v |-> v]

(* Mutant: the witness is queued before the tolerance.                     *)
Bug_WitnessFirst(c) ==
  << Value("SignedManifest", c.signed), Value("BqBitstream", c.bitstream),
     Value("YuvFrame", c.original), Value("i64", c.tolerance),
     Value("Vec<MerklePath>", c.paths) >>

(* The five stdin.write calls.                                             *)
Written(c) ==
  << Value("SignedManifest", c.signed), Value("BqBitstream", c.bitstream),
     Value("i64", c.tolerance), Value("YuvFrame", c.original),
     Value("Vec<MerklePath>", c.paths) >>

(* The types of the guest's five io::read calls.                           *)
ReadTypes ==
  <<"SignedManifest", "BqBitstream", "i64", "YuvFrame", "Vec<MerklePath>">>

ClaimRead(t) == [signed |-> t[1], bitstream |-> t[2], tolerance |-> t[3],
                 original |-> t[4], paths |-> t[5]]

(* Mutant: a failed decode shares the status of success.                   *)
Bug_DecodeStatusZero(v) ==
  CASE v.kind \in {"Ok", "DecodeFailed"}    -> 0
    [] v.kind = "ManifestSignatureInvalid" -> 1
    [] v.kind = "MerklePathCountMismatch"  -> 2
    [] v.kind = "MerklePathInvalid"        -> 3
    [] v.kind = "PsnrBelowTolerance"       -> 5

(* The guest's numbering of verify_m2_claim's outcomes.                    *)
StatusOf(v) ==
  CASE v.kind = "Ok"                       -> 0
    [] v.kind = "ManifestSignatureInvalid" -> 1
    [] v.kind = "MerklePathCountMismatch"  -> 2
    [] v.kind = "MerklePathInvalid"        -> 3
    [] v.kind = "DecodeFailed"             -> 4
    [] v.kind = "PsnrBelowTolerance"       -> 5

-----------------------------------------------------------------------------
GuestInit ==
  /\ inputs \in Claims
  /\ stdin = Written(inputs)
  /\ guest = "reading"
  /\ taken = <<>>
  /\ public = <<>>

(* One io::read: panics on an empty queue and on a value of another type.  *)
GuestRead ==
  /\ guest = "reading"
  /\ Len(taken) < Len(ReadTypes)
  /\ IF stdin # <<>> /\ Head(stdin).type = ReadTypes[Len(taken) + 1]
     THEN taken' = Append(taken, Head(stdin).v) /\ stdin' = Tail(stdin)
          /\ UNCHANGED guest
     ELSE guest' = "panicked" /\ UNCHANGED <<taken, stdin>>
  /\ UNCHANGED <<inputs, public>>

(* The digest is taken before the check, both values are committed, and
   any status but 0 panics afterwards.                                     *)
GuestCheck ==
  /\ guest = "reading"
  /\ Len(taken) = Len(ReadTypes)
  /\ LET c == ClaimRead(taken)
     IN  \E v \in Verdicts(c) :
           /\ Deserves(c, v)
           /\ public' = <<FixtureDigest(c), StatusOf(v)>>
           /\ guest' = IF StatusOf(v) = 0 THEN "halted" ELSE "panicked"
  /\ UNCHANGED <<inputs, stdin, taken>>

GuestStep == GuestRead \/ GuestCheck

(* The guest on its own, under a caller that queues any claim.             *)
GuestSpec == GuestInit /\ [][GuestStep]_<<inputs, guestVars>>

GuestEnded == guest \in {"halted", "panicked"}

-----------------------------------------------------------------------------
(* A guest that ends has read back the very claim that was queued, has
   committed its digest with the status of its verdict whichever it is, and
   has halted for a claim that holds and for no other.                     *)
GuestReportsTheClaim ==
  GuestEnded =>
    /\ ClaimRead(taken) = inputs
    /\ public[1] = FixtureDigest(inputs)
    /\ \E v \in Verdicts(inputs) : Deserves(inputs, v) /\ public[2] = StatusOf(v)
    /\ (guest = "halted") <=> ClaimHolds(inputs)
    /\ (public[2] = 0) <=> ClaimHolds(inputs)

(* The contract of the check as the guest's caller sees it, who has no verdict
   but the status among the public values: five reads and a commit are one
   decision on the claim that was queued.  A guest that panics in a read has
   committed nothing, and that is no status of the contract.               *)
NoStatus == -1
NoValues == -2
Statuses(c) == {StatusOf(v) : v \in Verdicts(c)}
StatusDeserved(c, s) == \E v \in Verdicts(c) : Deserves(c, v) /\ s = StatusOf(v)
Committed ==
  IF guest = "reading" THEN NoStatus ELSE IF public = <<>> THEN NoValues ELSE public[2]

Reported == INSTANCE M2Contract WITH
  Claims <- Claims,
  Verdicts <- Statuses,
  Deserves <- StatusDeserved,
  Pending <- NoStatus,
  claim <- inputs,
  verdict <- Committed

GuestKeepsContract == Reported!Init /\ [][Reported!Decide]_<<inputs, Committed>>
=============================================================================
