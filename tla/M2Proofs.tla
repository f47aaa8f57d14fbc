------------------------------ MODULE M2Proofs ------------------------------
(***************************************************************************)
(* The M2 statement, the guest that runs it and the host that drives the   *)
(* guest, for every set of claims and requests and every signature, hash,  *)
(* codec and PSNR they may rest on.  Known says what has been established  *)
(* by the time each check of verify_m2_claim is reached, Agreed how far    *)
(* the guest has come with the same claim, and ProverInv, for each place   *)
(* the host can be in, what it knows of the claim, the guest and the proof. *)
(***************************************************************************)
EXTENDS MCM2Statement, M2Prover, MerkleProofs, SequenceTheorems

Pcs == {"signature", "path_count", "paths", "decode", "compare", "returned"}

AuthenticBelow(n) == \A j \in 0..(n - 1) : BlockAuthentic(claim, j)

Known ==
  /\ claim \in Claims
  /\ pc \in Pcs
  /\ i \in Nat
  /\ pc \in {"signature", "path_count"} => i = 0
  /\ (pc = "returned") <=> (verdict # Pending)
  /\ pc \in {"path_count", "paths", "decode", "compare"} => SignatureValid(claim)
  /\ pc \in {"paths", "decode", "compare"} =>
       PathCountMatches(claim) /\ AuthenticBelow(i) /\ i <= claim.paths.len
  /\ pc \in {"decode", "compare"} => i = claim.paths.len
  /\ pc = "compare" => DecodesToSize(claim)

LEMMA InitKnown == Init => Known
BY DEF Init, Known, Pcs

(* One more authentic block extends what is known of the blocks below it.  *)
LEMMA OneMore ==
  ASSUME i \in Nat, AuthenticBelow(i), BlockAuthentic(claim, i)
  PROVE  AuthenticBelow(i + 1)
BY DEF AuthenticBelow

LEMMA VerdictsAreNotPending ==
  /\ \A k \in {"Ok", "ManifestSignatureInvalid", "MerklePathCountMismatch",
               "DecodeFailed", "PsnrBelowTolerance"} : Verdict(k) # Pending
  /\ \A n \in Nat : MerklePathInvalid(n) # Pending
BY DEF Verdict, MerklePathInvalid, Pending

LEMMA NextKnown ==
  ASSUME Known, [Next]_vars
  PROVE  Known'
<1> USE VerdictsAreNotPending, ClaimsAssumption DEF Known, Pcs, Return
<1>1. CASE CheckSignature  BY <1>1 DEF CheckSignature, AuthenticBelow
<1>2. CASE CheckPathCount
  <2> USE <1>2 DEF CheckPathCount
  <2>1. CASE PathCountMatches(claim)
    BY <2>1 DEF AuthenticBelow
  <2> QED BY <2>1
<1>3. CASE CheckPath  BY <1>3, OneMore DEF CheckPath, AuthenticBelow
<1>4. CASE PathsDone  BY <1>4 DEF PathsDone, AuthenticBelow
<1>5. CASE Decode     BY <1>5 DEF Decode, AuthenticBelow
<1>6. CASE Compare    BY <1>6 DEF Compare
<1>7. CASE UNCHANGED vars  BY <1>7 DEF vars, AuthenticBelow
<1> QED BY <1>1, <1>2, <1>3, <1>4, <1>5, <1>6, <1>7 DEF Next

THEOREM StatementKnown == Spec => []Known
BY InitKnown, NextKnown, PTL DEF Spec

(* The loop over the paths stays inside the vector.                        *)
THEOREM StatementTypeOK == Spec => []TypeOK
<1>1. Known => TypeOK
  BY ClaimsAssumption DEF Known, TypeOK, Pcs
<1> QED BY <1>1, StatementKnown, PTL

-----------------------------------------------------------------------------
(* Each check returns the verdict its claim deserves, or says nothing yet. *)
LEMMA StepDecides ==
  ASSUME Known, [Next]_vars
  PROVE  Contract!Decide \/ UNCHANGED <<claim, verdict>>
<1> DEFINE Decides(v) == v \in Verdicts(claim) /\ Deserves(claim, v) /\ verdict' = v
<1>1. ASSUME NEW v, Decides(v), UNCHANGED claim, verdict = Pending
      PROVE  Contract!Decide
  BY <1>1 DEF Contract!Decide
<1>2. pc # "returned" => verdict = Pending
  BY DEF Known
<1>3. CASE CheckSignature
  <2>1. CASE SignatureValid(claim)
    BY <1>3, <2>1 DEF CheckSignature
  <2>2. CASE ~SignatureValid(claim)
    <3>1. Decides(Verdict("ManifestSignatureInvalid"))
      BY <1>3, <2>2 DEF CheckSignature, Return, Deserves, Verdicts
    <3> QED BY <1>1, <1>2, <1>3, <3>1 DEF CheckSignature
  <2> QED BY <2>1, <2>2
<1>4. CASE CheckPathCount
  <2>1. CASE PathCountMatches(claim)
    BY <1>4, <2>1 DEF CheckPathCount
  <2>2. CASE ~PathCountMatches(claim)
    <3>1. Decides(Verdict("MerklePathCountMismatch"))
      BY <1>4, <2>2 DEF CheckPathCount, Return, Deserves, Verdicts, Known
    <3> QED BY <1>1, <1>2, <1>4, <3>1 DEF CheckPathCount
  <2> QED BY <2>1, <2>2
<1>5. CASE CheckPath
  <2>1. CASE BlockAuthentic(claim, i)
    BY <1>5, <2>1 DEF CheckPath
  <2>2. CASE ~BlockAuthentic(claim, i)
    <3>1. i \in 0..(BlockCount(claim.original) - 1)
      BY <1>5, ClaimsAssumption DEF CheckPath, Known, PathCountMatches
    <3>2. SignatureValid(claim) /\ PathCountMatches(claim) /\ AuthenticBelow(i)
      BY <1>5 DEF CheckPath, Known
    <3>3. MerklePathInvalid(i) \in Verdicts(claim)
      BY <3>1 DEF Verdicts
    <3>4. Deserves(claim, MerklePathInvalid(i))
      BY <2>2, <3>1, <3>2 DEF Deserves, AuthenticBelow
    <3>5. Decides(MerklePathInvalid(i))
      BY <1>5, <2>2, <3>3, <3>4 DEF CheckPath, Return
    <3> QED BY <1>1, <1>2, <1>5, <3>5 DEF CheckPath
  <2> QED BY <2>1, <2>2
<1>6. CASE PathsDone
  BY <1>6 DEF PathsDone
<1>7. ASSUME pc \in {"decode", "compare"}
      PROVE  /\ SignatureValid(claim) /\ PathCountMatches(claim)
             /\ \A n \in 0..(BlockCount(claim.original) - 1) : BlockAuthentic(claim, n)
  BY <1>7 DEF Known, AuthenticBelow, PathCountMatches
<1>8. Verdict("DecodeFailed") # Verdict("PsnrBelowTolerance")
  BY DEF Verdict
<1>9. CASE Decode
  <2>1. CASE DecodesToSize(claim)
    BY <1>9, <2>1 DEF Decode
  <2>2. CASE ~DecodesToSize(claim)
    <3>1. Decides(Verdict("DecodeFailed"))
      BY <1>7, <1>8, <1>9, <2>2 DEF Decode, Return, Deserves, Verdicts
    <3> QED BY <1>1, <1>2, <1>9, <3>1 DEF Decode
  <2> QED BY <2>1, <2>2
<1>10. CASE Compare
  <2>1. DecodesToSize(claim) /\ pc = "compare"
    BY <1>10 DEF Compare, Known
  <2>2. CASE CloseEnough(claim)
    <3>1. Decides(Verdict("Ok"))
      BY <1>7, <1>10, <2>1, <2>2 DEF Compare, Return, Deserves, Verdicts, ClaimHolds
    <3> QED BY <1>1, <1>2, <1>10, <3>1 DEF Compare
  <2>3. CASE ~CloseEnough(claim)
    <3>1. Decides(Verdict("PsnrBelowTolerance"))
      BY <1>7, <1>8, <1>10, <2>1, <2>3 DEF Compare, Return, Deserves, Verdicts
    <3> QED BY <1>1, <1>2, <1>10, <3>1 DEF Compare
  <2> QED BY <2>2, <2>3
<1>11. CASE UNCHANGED vars
  BY <1>11 DEF vars
<1> QED BY <1>3, <1>4, <1>5, <1>6, <1>9, <1>10, <1>11 DEF Next

(* verify_m2_claim, as far as safety goes, is the contract: it starts as the
   contract does and every step is a decision of the contract or a stutter. *)
THEOREM StatementRefinesContract ==
  Spec => Contract!Init /\ [][Contract!Decide]_<<claim, verdict>>
<1>1. Init => Contract!Init
  BY DEF Init, Contract!Init
<1>2. Known /\ [Next]_vars => [Contract!Decide]_<<claim, verdict>>
  BY StepDecides
<1> QED BY <1>1, <1>2, StatementKnown, PTL DEF Spec

-----------------------------------------------------------------------------
(* How far the guest has come through the queue.                           *)
Queue(c) ==
  LET w == Written(c)
  IN  \/ taken = <<>> /\ stdin = w
      \/ taken = <<c.signed>> /\ stdin = <<w[2], w[3], w[4], w[5]>>
      \/ taken = <<c.signed, c.bitstream>> /\ stdin = <<w[3], w[4], w[5]>>
      \/ taken = <<c.signed, c.bitstream, c.tolerance>> /\ stdin = <<w[4], w[5]>>
      \/ taken = <<c.signed, c.bitstream, c.tolerance, c.original>> /\ stdin = <<w[5]>>
      \/ taken = <<c.signed, c.bitstream, c.tolerance, c.original, c.paths>> /\ stdin = <<>>

(* Tuples, as the queue and what was taken from it grow and shrink.         *)
LEMMA AppendIs ==
  ASSUME NEW S, NEW s \in Seq(S), NEW e \in S, NEW t \in Seq(S),
         Len(t) = Len(s) + 1, \A n \in 1..Len(s) : t[n] = s[n], t[Len(s) + 1] = e
  PROVE  Append(s, e) = t
<1>1. /\ Append(s, e) \in Seq(S) /\ Len(Append(s, e)) = Len(s) + 1
      /\ \A n \in 1..Len(s) : Append(s, e)[n] = s[n]
      /\ Append(s, e)[Len(s) + 1] = e
  BY AppendProperties
<1>2. Len(s) \in Nat
  OBVIOUS
<1>3. \A n \in 1..Len(t) : Append(s, e)[n] = t[n]
  BY <1>1, <1>2
<1> QED BY <1>1, <1>3, SeqEqual

LEMMA Append1 ==
  ASSUME NEW a, NEW b
  PROVE  Append(<<>>, a) = <<a>> /\ Append(<<a>>, b) = <<a, b>>
<1> PICK S : S = {a, b}
  OBVIOUS
<1> PICK s : s = <<a>>
  OBVIOUS
<1> PICK t : t = <<a, b>>
  OBVIOUS
<1>1. s \in Seq(S) /\ t \in Seq(S) /\ b \in S
  OBVIOUS
<1>2. Len(s) = 1 /\ Len(t) = Len(s) + 1 /\ t[Len(s) + 1] = b
  OBVIOUS
<1>3. \A n \in 1..1 : t[n] = s[n]
  OBVIOUS
<1>4. Append(s, b) = t
  BY ONLY <1>1, <1>2, <1>3, AppendIs
<1>5. Append(<<>>, a) = <<a>>
  OBVIOUS
<1> QED BY <1>4, <1>5

LEMMA Append2 ==
  ASSUME NEW a, NEW b, NEW c
  PROVE  Append(<<a, b>>, c) = <<a, b, c>>
<1> PICK S : S = {a, b, c}
  OBVIOUS
<1> PICK s : s = <<a, b>>
  OBVIOUS
<1> PICK t : t = <<a, b, c>>
  OBVIOUS
<1>1. s \in Seq(S) /\ t \in Seq(S) /\ c \in S
  OBVIOUS
<1>2. Len(s) = 2 /\ Len(t) = Len(s) + 1 /\ t[Len(s) + 1] = c
  OBVIOUS
<1>3. \A n \in 1..2 : t[n] = s[n]
  OBVIOUS
<1>4. Append(s, c) = t
  BY ONLY <1>1, <1>2, <1>3, AppendIs
<1> QED BY <1>4

LEMMA Append3 ==
  ASSUME NEW a, NEW b, NEW c, NEW d
  PROVE  Append(<<a, b, c>>, d) = <<a, b, c, d>>
<1> PICK S : S = {a, b, c, d}
  OBVIOUS
<1> PICK s : s = <<a, b, c>>
  OBVIOUS
<1> PICK t : t = <<a, b, c, d>>
  OBVIOUS
<1>1. s \in Seq(S) /\ t \in Seq(S) /\ d \in S
  OBVIOUS
<1>2. Len(s) = 3 /\ Len(t) = Len(s) + 1 /\ t[Len(s) + 1] = d
  OBVIOUS
<1>3. \A n \in 1..3 : t[n] = s[n]
  OBVIOUS
<1>4. Append(s, d) = t
  BY ONLY <1>1, <1>2, <1>3, AppendIs
<1> QED BY <1>4

LEMMA Append4 ==
  ASSUME NEW a, NEW b, NEW c, NEW d, NEW e
  PROVE  Append(<<a, b, c, d>>, e) = <<a, b, c, d, e>>
<1> PICK S : S = {a, b, c, d, e}
  OBVIOUS
<1> PICK s : s = <<a, b, c, d>>
  OBVIOUS
<1> PICK t : t = <<a, b, c, d, e>>
  OBVIOUS
<1>1. s \in Seq(S) /\ t \in Seq(S) /\ e \in S
  OBVIOUS
<1>2. Len(s) = 4 /\ Len(t) = Len(s) + 1 /\ t[Len(s) + 1] = e
  OBVIOUS
<1>3. \A n \in 1..4 : t[n] = s[n]
  OBVIOUS
<1>4. Append(s, e) = t
  BY ONLY <1>1, <1>2, <1>3, AppendIs
<1> QED BY <1>4

LEMMA Tails ==
  ASSUME NEW a, NEW b, NEW c, NEW d, NEW e
  PROVE  /\ Tail(<<a>>) = <<>> /\ Tail(<<a, b>>) = <<b>>
         /\ Tail(<<a, b, c>>) = <<b, c>> /\ Tail(<<a, b, c, d>>) = <<b, c, d>>
         /\ Tail(<<a, b, c, d, e>>) = <<b, c, d, e>>
<1>1. Tail(<<a>>) = <<>>
  OBVIOUS
<1>2. Tail(<<a, b>>) = <<b>>
  OBVIOUS
<1>3. Tail(<<a, b, c>>) = <<b, c>>
  OBVIOUS
<1>4. Tail(<<a, b, c, d>>) = <<b, c, d>>
  OBVIOUS
<1>5. Tail(<<a, b, c, d, e>>) = <<b, c, d, e>>
  OBVIOUS
<1> QED BY <1>1, <1>2, <1>3, <1>4, <1>5

(* One read moves one value from the queue to the guest, and never panics. *)
LEMMA ReadKeepsQueue ==
  ASSUME guest = "reading", Queue(inputs), GuestRead
  PROVE  guest' = "reading" /\ Queue(inputs)' /\ UNCHANGED <<inputs, public>>
<1>1. inputs' = inputs /\ public' = public
  BY DEF GuestRead
<1> PICK c : c = inputs
  OBVIOUS
<1> PICK w : w = Written(c)
  OBVIOUS
<1>2. w = <<w[1], w[2], w[3], w[4], w[5]>>
  BY DEF Written
<1>3. /\ w[1].v = c.signed /\ w[2].v = c.bitstream /\ w[3].v = c.tolerance
      /\ w[4].v = c.original /\ w[5].v = c.paths
  BY DEF Written, Value
<1>4. /\ w[1].type = ReadTypes[1] /\ w[2].type = ReadTypes[2] /\ w[3].type = ReadTypes[3]
      /\ w[4].type = ReadTypes[4] /\ w[5].type = ReadTypes[5]
  BY DEF Written, Value, ReadTypes
<1>5. Len(ReadTypes) = 5
  BY DEF ReadTypes
<1>6. ASSUME NEW k \in 0..4, Len(taken) = k, NEW x, NEW rest,
             stdin # <<>>, Head(stdin) = x, x.type = ReadTypes[k + 1], Tail(stdin) = rest
      PROVE  guest' = "reading" /\ taken' = Append(taken, x.v) /\ stdin' = rest
  BY ONLY <1>5, <1>6, k \in 0..4, guest = "reading", GuestRead DEF GuestRead
<1>7. CASE taken = <<>> /\ stdin = <<w[1], w[2], w[3], w[4], w[5]>>
  <2>1. Len(taken) = 0 /\ 0 \in 0..4 /\ 0 + 1 = 1
    BY ONLY <1>7
  <2>2. stdin # <<>> /\ Head(stdin) = w[1]
    BY ONLY <1>7
  <2>3. Tail(stdin) = <<w[2], w[3], w[4], w[5]>>
    BY ONLY <1>7, Tails
  <2>4. guest' = "reading" /\ taken' = Append(taken, w[1].v) /\ stdin' = <<w[2], w[3], w[4], w[5]>>
    BY ONLY <1>4, <1>6, <2>1, <2>2, <2>3
  <2>5. taken' = Append(<<>>, c.signed)
    BY ONLY <1>3, <1>7, <2>4
  <2>6. taken' = <<c.signed>>
    BY ONLY <2>5, Append1
  <2> QED BY <1>1, <2>4, <2>6 DEF Queue
<1>8. CASE taken = <<c.signed>> /\ stdin = <<w[2], w[3], w[4], w[5]>>
  <2>1. Len(taken) = 1 /\ 1 \in 0..4 /\ 1 + 1 = 2
    BY ONLY <1>8
  <2>2. stdin # <<>> /\ Head(stdin) = w[2]
    BY ONLY <1>8
  <2>3. Tail(stdin) = <<w[3], w[4], w[5]>>
    BY ONLY <1>8, Tails
  <2>4. guest' = "reading" /\ taken' = Append(taken, w[2].v) /\ stdin' = <<w[3], w[4], w[5]>>
    BY ONLY <1>4, <1>6, <2>1, <2>2, <2>3
  <2>5. taken' = Append(<<c.signed>>, c.bitstream)
    BY ONLY <1>3, <1>8, <2>4
  <2>6. taken' = <<c.signed, c.bitstream>>
    BY ONLY <2>5, Append1
  <2> QED BY <1>1, <2>4, <2>6 DEF Queue
<1>9. CASE taken = <<c.signed, c.bitstream>> /\ stdin = <<w[3], w[4], w[5]>>
  <2>1. Len(taken) = 2 /\ 2 \in 0..4 /\ 2 + 1 = 3
    BY ONLY <1>9
  <2>2. stdin # <<>> /\ Head(stdin) = w[3]
    BY ONLY <1>9
  <2>3. Tail(stdin) = <<w[4], w[5]>>
    BY ONLY <1>9, Tails
  <2>4. guest' = "reading" /\ taken' = Append(taken, w[3].v) /\ stdin' = <<w[4], w[5]>>
    BY ONLY <1>4, <1>6, <2>1, <2>2, <2>3
  <2>5. taken' = Append(<<c.signed, c.bitstream>>, c.tolerance)
    BY ONLY <1>3, <1>9, <2>4
  <2>6. taken' = <<c.signed, c.bitstream, c.tolerance>>
    BY ONLY <2>5, Append2
  <2> QED BY <1>1, <2>4, <2>6 DEF Queue
<1>10. CASE taken = <<c.signed, c.bitstream, c.tolerance>> /\ stdin = <<w[4], w[5]>>
  <2>1. Len(taken) = 3 /\ 3 \in 0..4 /\ 3 + 1 = 4
    BY ONLY <1>10
  <2>2. stdin # <<>> /\ Head(stdin) = w[4]
    BY ONLY <1>10
  <2>3. Tail(stdin) = <<w[5]>>
    BY ONLY <1>10, Tails
  <2>4. guest' = "reading" /\ taken' = Append(taken, w[4].v) /\ stdin' = <<w[5]>>
    BY ONLY <1>4, <1>6, <2>1, <2>2, <2>3
  <2>5. taken' = Append(<<c.signed, c.bitstream, c.tolerance>>, c.original)
    BY ONLY <1>3, <1>10, <2>4
  <2>6. taken' = <<c.signed, c.bitstream, c.tolerance, c.original>>
    BY ONLY <2>5, Append3
  <2> QED BY <1>1, <2>4, <2>6 DEF Queue
<1>11. CASE taken = <<c.signed, c.bitstream, c.tolerance, c.original>> /\ stdin = <<w[5]>>
  <2>1. Len(taken) = 4 /\ 4 \in 0..4 /\ 4 + 1 = 5
    BY ONLY <1>11
  <2>2. stdin # <<>> /\ Head(stdin) = w[5]
    BY ONLY <1>11
  <2>3. Tail(stdin) = <<>>
    BY ONLY <1>11, Tails
  <2>4. guest' = "reading" /\ taken' = Append(taken, w[5].v) /\ stdin' = <<>>
    BY ONLY <1>4, <1>6, <2>1, <2>2, <2>3
  <2>5. taken' = Append(<<c.signed, c.bitstream, c.tolerance, c.original>>, c.paths)
    BY ONLY <1>3, <1>11, <2>4
  <2>6. taken' = <<c.signed, c.bitstream, c.tolerance, c.original, c.paths>>
    BY ONLY <2>5, Append4
  <2> QED BY <1>1, <2>4, <2>6 DEF Queue
<1>12. CASE taken = <<c.signed, c.bitstream, c.tolerance, c.original, c.paths>>
  <2>1. Len(taken) = 5
    BY ONLY <1>12
  <2> QED BY <1>5, <2>1 DEF GuestRead
<1> QED BY <1>2, <1>7, <1>8, <1>9, <1>10, <1>11, <1>12 DEF Queue

(* Nothing is lost between the queue and the guest.                        *)
LEMMA QueueLengths ==
  ASSUME NEW c, Queue(c)
  PROVE  /\ Len(taken) + Len(stdin) = 5
         /\ Len(taken) = 5 => taken = <<c.signed, c.bitstream, c.tolerance, c.original, c.paths>>
<1> PICK w : w = Written(c)
  OBVIOUS
<1>1. w = <<w[1], w[2], w[3], w[4], w[5]>>
  BY DEF Written
<1>2. CASE taken = <<>> /\ stdin = <<w[1], w[2], w[3], w[4], w[5]>>
  <2>1. Len(taken) = 0 /\ Len(stdin) = 5
    BY ONLY <1>2
  <2> QED BY ONLY <2>1
<1>3. CASE taken = <<c.signed>> /\ stdin = <<w[2], w[3], w[4], w[5]>>
  <2>1. Len(taken) = 1 /\ Len(stdin) = 4
    BY ONLY <1>3
  <2> QED BY ONLY <2>1
<1>4. CASE taken = <<c.signed, c.bitstream>> /\ stdin = <<w[3], w[4], w[5]>>
  <2>1. Len(taken) = 2 /\ Len(stdin) = 3
    BY ONLY <1>4
  <2> QED BY ONLY <2>1
<1>5. CASE taken = <<c.signed, c.bitstream, c.tolerance>> /\ stdin = <<w[4], w[5]>>
  <2>1. Len(taken) = 3 /\ Len(stdin) = 2
    BY ONLY <1>5
  <2> QED BY ONLY <2>1
<1>6. CASE taken = <<c.signed, c.bitstream, c.tolerance, c.original>> /\ stdin = <<w[5]>>
  <2>1. Len(taken) = 4 /\ Len(stdin) = 1
    BY ONLY <1>6
  <2> QED BY ONLY <2>1
<1>7. CASE taken = <<c.signed, c.bitstream, c.tolerance, c.original, c.paths>> /\ stdin = <<>>
  <2>1. Len(taken) = 5 /\ Len(stdin) = 0
    BY ONLY <1>7
  <2> QED BY ONLY <2>1, <1>7
<1> QED BY <1>1, <1>2, <1>3, <1>4, <1>5, <1>6, <1>7 DEF Queue

(* What the guest reads back is the claim that was queued; it commits that
   claim's digest and the status of a verdict it deserves.                 *)
LEMMA CheckReports ==
  ASSUME inputs = [signed |-> inputs.signed, bitstream |-> inputs.bitstream,
                   tolerance |-> inputs.tolerance, original |-> inputs.original,
                   paths |-> inputs.paths],
         guest = "reading", Queue(inputs), GuestCheck
  PROVE  /\ ClaimRead(taken) = inputs
         /\ UNCHANGED <<inputs, stdin, taken>>
         /\ \E v \in Verdicts(inputs) :
              /\ Deserves(inputs, v)
              /\ public' = <<FixtureDigest(inputs), StatusOf(v)>>
              /\ guest' = IF StatusOf(v) = 0 THEN "halted" ELSE "panicked"
<1>1. Len(taken) = 5
  BY DEF GuestCheck, ReadTypes
<1>2. taken = <<inputs.signed, inputs.bitstream, inputs.tolerance, inputs.original, inputs.paths>>
  BY <1>1, QueueLengths
<1>3. ClaimRead(taken) = inputs
  BY <1>2 DEF ClaimRead
<1>4. UNCHANGED <<inputs, stdin, taken>>
  BY DEF GuestCheck
<1>5. \E v \in Verdicts(inputs) :
        /\ Deserves(inputs, v)
        /\ public' = <<FixtureDigest(inputs), StatusOf(v)>>
        /\ guest' = IF StatusOf(v) = 0 THEN "halted" ELSE "panicked"
  BY <1>3 DEF GuestCheck
<1> QED BY <1>3, <1>4, <1>5

(* The status of the first clause of a claim that fails.                   *)
StatusFor(c) ==
  IF ~SignatureValid(c) THEN 1
  ELSE IF ~PathCountMatches(c) THEN 2
  ELSE IF \E n \in 0..(BlockCount(c.original) - 1) : ~BlockAuthentic(c, n) THEN 3
  ELSE IF ~DecodesToSize(c) THEN 4
  ELSE IF ~CloseEnough(c) THEN 5 ELSE 0

LEMMA StatusHolds == ASSUME NEW c PROVE StatusFor(c) = 0 <=> ClaimHolds(c)
BY DEF StatusFor, ClaimHolds

(* All the verdicts a claim may deserve have one status, and status 0 goes
   with Ok alone.                                                          *)
LEMMA DeservedStatus ==
  ASSUME NEW c, NEW v, Deserves(c, v)
  PROVE  StatusOf(v) = StatusFor(c) /\ (v = Verdict("Ok") <=> StatusFor(c) = 0)
<1>1. CASE v = Verdict("Ok") /\ ClaimHolds(c)
  <2>1. StatusOf(v) = 0
    BY <1>1 DEF StatusOf, Verdict
  <2> QED BY <1>1, <2>1, StatusHolds
<1>2. CASE v = Verdict("ManifestSignatureInvalid") /\ ~SignatureValid(c)
  BY <1>2 DEF StatusOf, Verdict, StatusFor
<1>3. CASE /\ v = Verdict("MerklePathCountMismatch")
           /\ SignatureValid(c) /\ ~PathCountMatches(c)
  BY <1>3 DEF StatusOf, Verdict, StatusFor
<1>4. CASE \E n \in 0..(BlockCount(c.original) - 1) :
             /\ v = MerklePathInvalid(n)
             /\ SignatureValid(c) /\ PathCountMatches(c) /\ ~BlockAuthentic(c, n)
  BY <1>4 DEF StatusOf, Verdict, MerklePathInvalid, StatusFor
<1>5. CASE /\ v = Verdict("DecodeFailed") /\ ~DecodesToSize(c)
           /\ SignatureValid(c) /\ PathCountMatches(c)
           /\ \A n \in 0..(BlockCount(c.original) - 1) : BlockAuthentic(c, n)
  BY <1>5 DEF StatusOf, Verdict, StatusFor
<1>6. CASE /\ v = Verdict("PsnrBelowTolerance") /\ DecodesToSize(c) /\ ~CloseEnough(c)
           /\ SignatureValid(c) /\ PathCountMatches(c)
           /\ \A n \in 0..(BlockCount(c.original) - 1) : BlockAuthentic(c, n)
  BY <1>6 DEF StatusOf, Verdict, StatusFor
<1>7. Verdict("DecodeFailed") # Verdict("PsnrBelowTolerance")
  BY DEF Verdict
<1> QED BY <1>1, <1>2, <1>3, <1>4, <1>5, <1>6, <1>7 DEF Deserves

-----------------------------------------------------------------------------
(* The guest on its own claim, until it ends.                              *)
GuestReads ==
  /\ inputs \in Claims
  /\ guest \in {"reading", "halted", "panicked"}
  /\ guest = "reading" => Queue(inputs)

LEMMA GuestStepReports ==
  ASSUME GuestReads, [GuestStep]_<<inputs, guestVars>>
  PROVE  GuestReads' /\ (Reported!Decide \/ UNCHANGED <<inputs, Committed>>)
<1>1. CASE GuestRead
  <2>1. guest = "reading" /\ Queue(inputs)
    BY <1>1 DEF GuestRead, GuestReads
  <2>2. guest' = "reading" /\ Queue(inputs)' /\ inputs' = inputs
    BY <1>1, <2>1, ReadKeepsQueue
  <2>3. Committed' = Committed
    BY <2>1, <2>2 DEF Committed
  <2> QED BY <2>2, <2>3 DEF GuestReads
<1>2. CASE GuestCheck
  <2>1. guest = "reading" /\ Queue(inputs) /\ inputs \in Claims
    BY <1>2 DEF GuestCheck, GuestReads
  <2>2. inputs = [signed |-> inputs.signed, bitstream |-> inputs.bitstream,
                  tolerance |-> inputs.tolerance, original |-> inputs.original,
                  paths |-> inputs.paths]
    BY <2>1, ClaimsAssumption
  <2>3. inputs' = inputs
    BY <1>2 DEF GuestCheck
  <2>4. PICK v \in Verdicts(inputs) :
          /\ Deserves(inputs, v)
          /\ public' = <<FixtureDigest(inputs), StatusOf(v)>>
          /\ guest' = IF StatusOf(v) = 0 THEN "halted" ELSE "panicked"
    BY <1>2, <2>1, <2>2, CheckReports
  <2>5. Committed = NoStatus /\ Committed' = StatusOf(v)
    <3>1. public' # <<>> /\ public'[2] = StatusOf(v) /\ guest' # "reading"
      BY <2>4
    <3> QED BY <2>1, <3>1 DEF Committed
  <2>6. StatusOf(v) \in Statuses(inputs) /\ StatusDeserved(inputs, StatusOf(v))
    BY <2>4 DEF Statuses, StatusDeserved
  <2>7. Reported!Decide
    BY <2>3, <2>5, <2>6 DEF Reported!Decide
  <2>8. GuestReads'
    BY <2>1, <2>3, <2>4 DEF GuestReads
  <2> QED BY <2>7, <2>8
<1>3. CASE UNCHANGED <<inputs, guestVars>>
  BY <1>3 DEF guestVars, GuestReads, Queue, Committed
<1> QED BY <1>1, <1>2, <1>3 DEF GuestStep

(* Under any caller that queues a claim, the guest's five reads and its commit
   are one decision of the same contract, the status for the verdict: it never
   panics in a read, and commits once (guest 39-78).                       *)
THEOREM GuestRefinesContract == GuestSpec => GuestKeepsContract
<1>1. GuestInit => GuestReads /\ Reported!Init
  BY DEF GuestInit, GuestReads, Queue, Reported!Init, Committed
<1>2. GuestReads /\ [GuestStep]_<<inputs, guestVars>> => GuestReads'
  BY GuestStepReports
<1>3. GuestReads /\ [GuestStep]_<<inputs, guestVars>> => [Reported!Decide]_<<inputs, Committed>>
  BY GuestStepReports
<1> QED BY <1>1, <1>2, <1>3, PTL DEF GuestSpec, GuestKeepsContract

-----------------------------------------------------------------------------
(* The native check and then the guest, on one claim.                      *)
Decided == verdict # Pending => Deserves(claim, verdict)

GuestKnown ==
  /\ inputs = claim
  /\ guest \in {"reading", "halted", "panicked"}
  /\ guest = "reading" => Queue(inputs)
  /\ guest # "reading" =>
       /\ verdict # Pending
       /\ ClaimRead(taken) = inputs
       /\ \E v \in Verdicts(inputs) :
            /\ Deserves(inputs, v)
            /\ public = <<FixtureDigest(inputs), StatusOf(v)>>
            /\ guest = IF StatusOf(v) = 0 THEN "halted" ELSE "panicked"

Agreed == Known /\ Decided /\ GuestKnown

LEMMA AgreedInit == MCInit => Agreed
<1> SUFFICES ASSUME MCInit PROVE Agreed
  OBVIOUS
<1>1. Known
  BY InitKnown DEF MCInit
<1>2. Decided
  BY DEF MCInit, Init, Decided
<1>3. GuestKnown
  BY DEF MCInit, GuestInit, GuestKnown, Queue
<1> QED BY <1>1, <1>2, <1>3 DEF Agreed

LEMMA AgreedNext ==
  ASSUME Agreed, [MCNext]_<<vars, inputs, guestVars>>
  PROVE  Agreed'
<1>1. CASE Native
  <2>1. Next /\ UNCHANGED <<inputs, stdin, guest, taken, public>>
    BY <1>1 DEF Native, guestVars
  <2>2. Known'
    BY <2>1, NextKnown DEF Agreed
  <2>3. Contract!Decide \/ UNCHANGED <<claim, verdict>>
    BY <2>1, StepDecides DEF Agreed
  <2>4. claim' = claim /\ (verdict # Pending => verdict' = verdict)
    BY <2>3 DEF Contract!Decide
  <2>5. Decided'
    BY <2>3, <2>4 DEF Contract!Decide, Agreed, Decided
  <2>6. GuestKnown'
    BY <2>1, <2>4 DEF Agreed, GuestKnown, Queue
  <2> QED BY <2>2, <2>5, <2>6 DEF Agreed
<1>2. CASE Proven
  <2>1. /\ verdict # Pending /\ GuestStep /\ guest = "reading"
        /\ UNCHANGED <<claim, pc, i, verdict>>
    BY <1>2 DEF Proven, vars, GuestStep, GuestRead, GuestCheck
  <2>2. Known' /\ Decided'
    BY <2>1 DEF Agreed, Known, Decided, AuthenticBelow
  <2>3. /\ inputs = claim /\ claim \in Claims /\ Queue(inputs)
    BY <2>1 DEF Agreed, GuestKnown, Known
  <2>4. CASE GuestRead
    <3>1. guest' = "reading" /\ Queue(inputs)' /\ inputs' = inputs
      BY <2>1, <2>3, <2>4, ReadKeepsQueue
    <3> QED BY <2>1, <2>2, <2>3, <3>1 DEF Agreed, GuestKnown
  <2>5. CASE GuestCheck
    <3>1. inputs = [signed |-> inputs.signed, bitstream |-> inputs.bitstream,
                    tolerance |-> inputs.tolerance, original |-> inputs.original,
                    paths |-> inputs.paths]
      BY <2>3, ClaimsAssumption
    <3>2. /\ ClaimRead(taken) = inputs /\ UNCHANGED <<inputs, stdin, taken>>
          /\ \E v \in Verdicts(inputs) :
               /\ Deserves(inputs, v)
               /\ public' = <<FixtureDigest(inputs), StatusOf(v)>>
               /\ guest' = IF StatusOf(v) = 0 THEN "halted" ELSE "panicked"
      BY <2>1, <2>3, <2>5, <3>1, CheckReports
    <3>3. GuestKnown'
      BY <2>1, <2>3, <3>2 DEF GuestKnown
    <3> QED BY <2>2, <3>3 DEF Agreed
  <2> QED BY <2>1, <2>4, <2>5 DEF GuestStep
<1>3. CASE UNCHANGED <<vars, inputs, guestVars>>
  BY <1>3 DEF vars, guestVars, Agreed, Known, Decided, GuestKnown, Queue, AuthenticBelow
<1> QED BY <1>1, <1>2, <1>3 DEF MCNext

THEOREM StatementAndGuestAgree == MCSpec => []Agreed
BY AgreedInit, AgreedNext, PTL DEF MCSpec

(* Whatever the claim, a guest that ends has read the claim that was queued,
   has committed its digest and the status of the native verdict, and has
   halted exactly if the native check said Ok.                             *)
THEOREM GuestFollowsNative == MCSpec => []GuestAgreesWithNative
<1>1. Agreed => GuestAgreesWithNative
  <2> SUFFICES ASSUME Agreed, GuestEnded PROVE GuestAgreesWithNative
    BY DEF GuestAgreesWithNative, GuestReportsTheClaim
  <2>1. guest \in {"halted", "panicked"} /\ guest # "reading"
    BY DEF GuestEnded
  <2>2. /\ verdict # Pending /\ inputs = claim /\ ClaimRead(taken) = inputs
        /\ Deserves(inputs, verdict)
    BY <2>1 DEF Agreed, GuestKnown, Decided
  <2>3. PICK v \in Verdicts(inputs) :
          /\ Deserves(inputs, v)
          /\ public = <<FixtureDigest(inputs), StatusOf(v)>>
          /\ guest = IF StatusOf(v) = 0 THEN "halted" ELSE "panicked"
    BY <2>1 DEF Agreed, GuestKnown
  <2>4. /\ public[1] = FixtureDigest(inputs) /\ public[2] = StatusOf(v)
        /\ guest = "halted" <=> StatusOf(v) = 0
    BY <2>3
  <2>5. /\ StatusOf(v) = StatusFor(inputs) /\ StatusOf(verdict) = StatusFor(inputs)
        /\ verdict = Verdict("Ok") <=> StatusFor(inputs) = 0
        /\ StatusFor(inputs) = 0 <=> ClaimHolds(inputs)
    BY <2>2, <2>3, DeservedStatus, StatusHolds
  <2>6. GuestReportsTheClaim
    BY <2>2, <2>3, <2>4, <2>5 DEF GuestReportsTheClaim
  <2> QED BY <2>4, <2>5, <2>6 DEF GuestAgreesWithNative
<1> QED BY <1>1, StatementAndGuestAgree, PTL

-----------------------------------------------------------------------------
LEMMA DivMod ==
  ASSUME NEW n \in Nat, NEW d \in Nat, d # 0
  PROVE  ((n \div d) * d) + (n % d) = n
<1>1. PICK q : q = n \div d
  OBVIOUS
<1>2. PICK r : r = n % d
  OBVIOUS
<1>3. q \in Int /\ r \in 0..(d - 1) /\ n = d * q + r
  BY <1>1, <1>2, SMT
<1>4. (q * d) + r = n
  BY <1>3, SMT
<1> QED BY <1>1, <1>2, <1>4

(* The leaves of a frame are the hashes of its blocks in raster order.     *)
LEMMA LeafIsBlock ==
  ASSUME NEW f, f.width \in Nat, f.height \in Nat, NEW b \in 0..(BlockCount(f) - 1)
  PROVE  BlockLeaf(f, b) = H(f.y.at[b][1], f.y.at[b][2])
<1> PICK w : w = BlockColumns(f)
  OBVIOUS
<1> PICK h : h = BlockRows(f)
  OBVIOUS
<1>1. w \in Nat /\ h \in Nat /\ BlockCount(f) = w * h
  BY DEF BlockColumns, BlockRows, BlockCount
<1>2. b \in Nat /\ b < w * h
  BY <1>1, SMT
<1>3. w # 0
  BY <1>1, <1>2, SMT
<1>4. ((b \div w) * w) + (b % w) = b
  BY <1>1, <1>2, <1>3, DivMod
<1> QED BY <1>4 DEF BlockLeaf, HashBlock

LEMMA LeavesAreVec ==
  ASSUME NEW f, f.width \in Nat, f.height \in Nat
  PROVE  /\ IsVec(FrameMerkleLeaves(f)) /\ FrameMerkleLeaves(f).len = BlockCount(f)
         /\ \A b \in 0..(BlockCount(f) - 1) :
              FrameMerkleLeaves(f).at[b] = BlockLeaf(f, b)
<1>1. BlockCount(f) \in Nat
  <2>1. f.width \div 8 \in Nat /\ f.height \div 8 \in Nat
    BY SMT
  <2> QED BY <2>1, SMT DEF BlockCount, BlockColumns, BlockRows
<1> QED BY <1>1 DEF FrameMerkleLeaves, Vec, IsVec

(* A block whose leaf verifies is bound as far as its path goes.           *)
LEMMA VerifiedIsBound ==
  ASSUME CollisionFree, NEW f \in Frames, NEW block, block = <<block[1], block[2]>>,
         NEW path, path.siblings.len \in Nat,
         VerifyMerklePath(MerkleRoot(FrameMerkleLeaves(f)), H(block[1], block[2]), path)
  PROVE  BoundByPath(f, block, path)
<1> PICK leaves : leaves = FrameMerkleLeaves(f)
  OBVIOUS
<1> PICK L : L = LevelOf(leaves)
  OBVIOUS
<1> PICK h : h = Height(leaves)
  OBVIOUS
<1> PICK m : m = path.siblings.len
  OBVIOUS
<1> PICK leaf : leaf = H(block[1], block[2])
  OBVIOUS
<1> PICK F : F = Folded(leaf, path)
  OBVIOUS
<1> DEFINE blocks == {f.y.at[s] : s \in 0..(BlockCount(f) - 1)}
           Pair(level, p) ==
             <<level.at[2 * p], level.at[IF 2 * p + 1 < level.len THEN 2 * p + 1 ELSE 2 * p]>>
<1>1. /\ IsVec(leaves) /\ leaves.len = BlockCount(f) /\ leaves.len > 0
      /\ \A s \in 0..(leaves.len - 1) : leaves.at[s] = H(f.y.at[s][1], f.y.at[s][2])
  BY FramesAssumption, LeavesAreVec, LeafIsBlock
<1>2. /\ h \in Nat /\ m \in Nat
      /\ \A j \in 0..h : IsVec(L[j]) /\ L[j].len > 0
      /\ \A j \in 0..(h - 1) : L[j + 1] = NextLevel(L[j])
  BY <1>1, TreeIs DEF IsVec
<1>3. /\ m <= h => \E p \in 0..(L[h - m].len - 1) : leaf = L[h - m].at[p]
      /\ m >= h => \E s \in 0..(leaves.len - 1) : F[m - h] = leaves.at[s]
  BY <1>1, VerifiedIsNode
<1>4. h - m = 0 => block \in blocks
  <2> SUFFICES ASSUME h - m = 0 PROVE block \in blocks
    OBVIOUS
  <2>1. m - h = 0 /\ F[0] = leaf
    BY <1>2, FoldedIs
  <2>2. PICK s \in 0..(leaves.len - 1) : leaf = leaves.at[s]
    BY <1>2, <1>3, <2>1
  <2>3. block[1] = f.y.at[s][1] /\ block[2] = f.y.at[s][2]
    <3>1. H(block[1], block[2]) = H(f.y.at[s][1], f.y.at[s][2])
      BY <1>1, <2>2
    <3> QED BY ONLY <3>1, CollisionFree DEF CollisionFree
  <2>4. s \in 0..(BlockCount(f) - 1) /\ f.y.at[s] = <<f.y.at[s][1], f.y.at[s][2]>>
    BY <1>1, FramesAssumption DEF BlocksAreHalves
  <2>5. block = f.y.at[s]
    BY <2>3, <2>4, Zenon
  <2> QED BY <2>4, <2>5
<1>5. h - m > 0 => \E p \in 0..(L[h - m].len - 1) : block = Pair(L[h - m - 1], p)
  <2> SUFFICES ASSUME h - m > 0
               PROVE  \E p \in 0..(L[h - m].len - 1) : block = Pair(L[h - m - 1], p)
    OBVIOUS
  <2> PICK u : u = h - m - 1
    OBVIOUS
  <2>1. u \in 0..(h - 1) /\ u \in 0..h /\ u + 1 = h - m
    BY <1>2
  <2>2. PICK p \in 0..(L[u + 1].len - 1) : leaf = L[u + 1].at[p]
    BY <1>2, <1>3, <2>1
  <2>3. IsVec(L[u]) /\ L[u].len > 0 /\ L[u + 1] = NextLevel(L[u])
    BY <1>2, <2>1
  <2>4. leaf = H(Pair(L[u], p)[1], Pair(L[u], p)[2])
    BY <2>2, <2>3, NextLevelIsVec
  <2>5. block[1] = Pair(L[u], p)[1] /\ block[2] = Pair(L[u], p)[2]
    <3> HIDE DEF Pair
    <3>1. H(block[1], block[2]) = H(Pair(L[u], p)[1], Pair(L[u], p)[2])
      BY <2>4
    <3> QED BY ONLY <3>1, CollisionFree DEF CollisionFree
  <2>6. Pair(L[u], p) = <<Pair(L[u], p)[1], Pair(L[u], p)[2]>>
    OBVIOUS
  <2> HIDE DEF Pair
  <2>7. block = Pair(L[u], p)
    BY <2>5, <2>6, Zenon
  <2> QED BY <2>1, <2>7
<1>6. m - h > 0 => \E signed \in blocks : F[m - h - 1] \in {signed[1], signed[2]}
  <2> SUFFICES ASSUME m - h > 0
               PROVE  \E signed \in blocks : F[m - h - 1] \in {signed[1], signed[2]}
    OBVIOUS
  <2> PICK n : n = m - h - 1
    OBVIOUS
  <2>1. n \in 0..(m - 1) /\ n + 1 = m - h
    BY <1>2
  <2>2. PICK s \in 0..(leaves.len - 1) : F[n + 1] = leaves.at[s]
    BY <1>2, <1>3, <2>1
  <2>3. \E x, y : (F[n + 1] = H(x, y) \/ F[n + 1] = H(y, x)) /\ x = F[n]
    BY <2>1, FoldedIs DEF Combine
  <2>4. F[n] = f.y.at[s][1] \/ F[n] = f.y.at[s][2]
    BY <1>1, <2>2, <2>3 DEF CollisionFree
  <2> QED BY <1>1, <2>4
<1> HIDE DEF Pair
<1> QED BY <1>4, <1>5, <1>6 DEF BoundByPath, Pair

(* Acceptance binds every block of the original to the frame whose root was
   signed, whatever paths come with a claim: with a path as long as the tree
   is high it is a block of that frame, with a shorter one two neighbouring
   nodes of its tree, with a longer one what a half of a block was hashed
   from.  SHA-256 is taken as free of collisions, and nothing else.        *)
THEOREM AcceptedBlocks == CollisionFree => (MCSpec => []AcceptedBlocksAreBound)
<1> SUFFICES ASSUME CollisionFree PROVE MCSpec => []AcceptedBlocksAreBound
  OBVIOUS
<1>1. Agreed => AcceptedBlocksAreBound
  <2> SUFFICES ASSUME Agreed, verdict = Verdict("Ok"), NEW f \in Frames,
                      MerkleRoot(FrameMerkleLeaves(f)) = claim.signed.body.root,
                      NEW b \in 0..(BlockCount(claim.original) - 1)
               PROVE  BoundByPath(f, claim.original.y.at[b], claim.paths.at[b])
    BY DEF AcceptedBlocksAreBound
  <2>1. claim \in Claims /\ Deserves(claim, verdict)
    BY VerdictsAreNotPending DEF Agreed, Known, Decided
  <2>2. ClaimHolds(claim)
    BY <2>1, DeservedStatus, StatusHolds
  <2> PICK block : block = claim.original.y.at[b]
    OBVIOUS
  <2>3. /\ BlockLeaf(claim.original, b) = H(block[1], block[2])
        /\ block = <<block[1], block[2]>>
    BY <2>1, ClaimsAssumption, LeafIsBlock DEF BlocksAreHalves
  <2>4. claim.paths.at[b].siblings.len \in Nat
    BY <2>1, <2>2, ClaimsAssumption DEF ClaimHolds, PathCountMatches
  <2>5. VerifyMerklePath(MerkleRoot(FrameMerkleLeaves(f)), H(block[1], block[2]),
                         claim.paths.at[b])
    BY <2>2, <2>3 DEF ClaimHolds, BlockAuthentic
  <2> QED BY <2>3, <2>4, <2>5, VerifiedIsBound
<1> QED BY <1>1, StatementAndGuestAgree, PTL

-----------------------------------------------------------------------------
Hosts == {"build", "check", "queue", "setup", "prove", "status", "verify", "save", "done"}

(* Past the native check.                                                  *)
Accepted == {"queue", "setup", "prove", "status", "verify", "save"}

Status ==
  /\ request \in Requests
  /\ host \in Hosts
  /\ guest \in {"idle", "reading", "halted"}
  /\ exit \in {0, 1, Running}
  /\ (exit = Running) <=> (host # "done")

Claim ==
  /\ host \notin {"build", "done"} => BuildSucceeds(request) /\ inputs = BuildInputs(request)
  /\ host \in Accepted => ClaimHolds(inputs) /\ request.command # "smoke"

Guest ==
  /\ host \in {"build", "check", "queue", "setup"} => guest = "idle"
  /\ guest = "idle" => taken = <<>> /\ public = <<>>
  /\ host = "setup" => stdin = Written(inputs)
  /\ host = "prove" => guest # "idle"
  /\ guest = "reading" => host = "prove" /\ Queue(inputs) /\ public = <<>>
  /\ host \in {"status", "verify", "save"} => guest = "halted"
  /\ host \in Accepted /\ guest = "halted" => public = <<FixtureDigest(inputs), 0>>

ProofOfInputs ==
  host \in {"status", "verify", "save"} =>
    proof = [kind |-> "proof", public |-> public, halted |-> TRUE, claim |-> inputs]

File ==
  /\ host # "done" => file = before
  /\ OutFileFollowsExit
  /\ SavedProofIsSound

ProverInv == Status /\ Claim /\ Guest /\ ProofOfInputs /\ File

-----------------------------------------------------------------------------
(* A built fixture that passes the native check is sound once its guest has
   halted with its digest.                                                 *)
LEMMA FixtureIsSound ==
  ASSUME NEW r \in Requests, BuildSucceeds(r),
         NEW c, c = BuildInputs(r), ClaimHolds(c),
         NEW f, f = [kind |-> "proof", public |-> <<FixtureDigest(c), 0>>,
                     halted |-> TRUE, claim |-> c]
  PROVE  Sound(f)
<1>1. VerifyManifest(c.signed)
  BY DEF ClaimHolds, SignatureValid
<1>2. c.signed.body.root = MerkleRoot(FrameMerkleLeaves(c.original))
  BY DEF BuildInputs, SignManifest
<1>3. c.tolerance = r.tolerance /\ c.tolerance \in Int /\ c.tolerance <= Infinite
  BY RequestsAssumption DEF BuildInputs
<1>4. Combined(FramePsnr(c.bitstream.decoded, c.original)) >= c.tolerance
  BY <1>3, InfiniteAssumption DEF ClaimHolds, CloseEnough, MeetsThreshold
<1> QED BY <1>1, <1>2, <1>4 DEF Sound

LEMMA ProverInvInit == ProverInit => ProverInv
BY DEF ProverInit, ProverInv, Status, Claim, Guest, ProofOfInputs, File, OutFileFollowsExit,
       SavedProofIsSound, Hosts, Accepted, None, Running, Queue

(* A fixture that holds makes the guest commit its digest with status 0 and
   halt.                                                                   *)
LEMMA CheckHalts ==
  ASSUME NEW r, inputs = BuildInputs(r), ClaimHolds(inputs),
         guest = "reading", Queue(inputs), GuestCheck
  PROVE  /\ guest' = "halted" /\ public' = <<FixtureDigest(inputs), 0>>
         /\ UNCHANGED <<inputs, stdin, taken>>
<1>1. inputs = [signed |-> inputs.signed, bitstream |-> inputs.bitstream,
                tolerance |-> inputs.tolerance, original |-> inputs.original,
                paths |-> inputs.paths]
  BY DEF BuildInputs
<1>2. PICK v \in Verdicts(inputs) :
        /\ Deserves(inputs, v)
        /\ public' = <<FixtureDigest(inputs), StatusOf(v)>>
        /\ guest' = IF StatusOf(v) = 0 THEN "halted" ELSE "panicked"
  BY <1>1, CheckReports
<1>3. StatusOf(v) = 0
  BY <1>2, DeservedStatus, StatusHolds
<1>4. UNCHANGED <<inputs, stdin, taken>>
  BY <1>1, CheckReports
<1> QED BY <1>2, <1>3, <1>4

LEMMA ProverInvNext ==
  ASSUME ProverInv, [ProverNext]_proverVars
  PROVE  ProverInv'
<1> USE DEF ProverInv
<1>1. CASE Build
  <2> USE <1>1 DEF Build, End, guestVars
  <2>1. Status' /\ Claim' /\ ProofOfInputs'
    BY DEF Status, Claim, ProofOfInputs, Hosts, Accepted, Running
  <2>2. Guest'
    BY DEF Guest, Accepted
  <2>3. File'
    BY DEF File, OutFileFollowsExit, SavedProofIsSound
  <2> QED BY <2>1, <2>2, <2>3
<1>2. CASE NativeCheck
  <2> USE <1>2 DEF NativeCheck, End, runVars, guestVars
  <2>1. Status' /\ Claim' /\ ProofOfInputs'
    BY DEF Status, Claim, ProofOfInputs, Hosts, Accepted, Running
  <2>2. Guest'
    BY DEF Guest, Accepted
  <2>3. File'
    BY DEF File, OutFileFollowsExit, SavedProofIsSound
  <2> QED BY <2>1, <2>2, <2>3
<1>3. CASE QueueInputs
  <2> USE <1>3 DEF QueueInputs, runVars
  <2>1. Status' /\ Claim' /\ ProofOfInputs'
    BY DEF Status, Claim, ProofOfInputs, Hosts, Accepted, Running
  <2>2. Guest'
    BY DEF Guest, Accepted
  <2>3. File'
    BY DEF File, OutFileFollowsExit, SavedProofIsSound
  <2> QED BY <2>1, <2>2, <2>3
<1>4. CASE Setup
  <2> USE <1>4 DEF Setup, End, runVars
  <2>1. Status' /\ Claim' /\ ProofOfInputs'
    BY DEF Status, Claim, ProofOfInputs, Hosts, Accepted, Running
  <2>2. Guest'
    BY DEF Guest, Accepted, Queue
  <2>3. File'
    BY DEF File, OutFileFollowsExit, SavedProofIsSound
  <2> QED BY <2>1, <2>2, <2>3
<1>5. CASE GuestRuns
  <2>1. host = "prove" /\ UNCHANGED <<request, before, host, proof, file, exit>>
    BY <1>5 DEF GuestRuns
  <2>2. guest = "reading" /\ Queue(inputs) /\ public = <<>>
    BY <1>5 DEF GuestRuns, GuestStep, GuestRead, GuestCheck, Guest
  <2>3. inputs = BuildInputs(request) /\ ClaimHolds(inputs)
    BY <2>1 DEF Claim, Accepted
  <2>4. CASE GuestRead
    <3>1. guest' = "reading" /\ Queue(inputs)' /\ inputs' = inputs /\ public' = public
      BY <2>2, <2>4, ReadKeepsQueue
    <3>2. Status' /\ Claim' /\ ProofOfInputs'
      BY <2>1, <3>1 DEF Status, Claim, ProofOfInputs, Hosts, Accepted
    <3>3. Guest'
      BY <2>1, <2>2, <3>1 DEF Guest, Accepted
    <3>4. File'
      BY <2>1 DEF File, OutFileFollowsExit, SavedProofIsSound
    <3> QED BY <3>2, <3>3, <3>4
  <2>5. CASE GuestCheck
    <3>1. /\ guest' = "halted" /\ public' = <<FixtureDigest(inputs), 0>>
          /\ inputs' = inputs
      BY <2>2, <2>3, <2>5, CheckHalts
    <3>2. Status' /\ Claim' /\ ProofOfInputs'
      BY <2>1, <3>1 DEF Status, Claim, ProofOfInputs, Hosts, Accepted
    <3>3. Guest'
      BY <2>1, <3>1 DEF Guest, Accepted
    <3>4. File'
      BY <2>1 DEF File, OutFileFollowsExit, SavedProofIsSound
    <3> QED BY <3>2, <3>3, <3>4
  <2> QED BY <1>5, <2>4, <2>5 DEF GuestRuns, GuestStep
<1>6. CASE ProveReturns
  <2> USE <1>6 DEF ProveReturns, End, runVars, guestVars
  <2>1. Status' /\ Claim'
    BY DEF Status, Claim, Hosts, Accepted, Running
  <2>2. ProofOfInputs'
    BY DEF Status, ProofOfInputs
  <2>3. Guest'
    BY DEF Status, Guest, Accepted
  <2>4. File'
    BY DEF File, OutFileFollowsExit, SavedProofIsSound
  <2> QED BY <2>1, <2>2, <2>3, <2>4
<1>7. CASE CheckPublicValues
  <2> USE <1>7 DEF CheckPublicValues, End, runVars, guestVars
  <2>1. Status' /\ Claim' /\ ProofOfInputs'
    BY DEF Status, Claim, ProofOfInputs, Hosts, Accepted, Running
  <2>2. Guest'
    BY DEF Guest, Accepted
  <2>3. File'
    BY DEF File, OutFileFollowsExit, SavedProofIsSound
  <2> QED BY <2>1, <2>2, <2>3
<1>8. CASE Verify
  <2> USE <1>8 DEF Verify, End, runVars, guestVars
  <2>1. Status' /\ Claim' /\ ProofOfInputs'
    BY DEF Status, Claim, ProofOfInputs, Hosts, Accepted, Running
  <2>2. Guest'
    BY DEF Guest, Accepted
  <2>3. File'
    BY DEF File, OutFileFollowsExit, SavedProofIsSound
  <2> QED BY <2>1, <2>2, <2>3
<1>9. CASE Save
  <2> USE <1>9 DEF Save, End, runVars, guestVars
  <2>1. Status' /\ Claim' /\ ProofOfInputs'
    BY DEF Status, Claim, ProofOfInputs, Hosts, Accepted, Running
  <2>2. Guest'
    BY DEF Guest, Accepted
  <2>3. Sound(proof)
    BY FixtureIsSound DEF Status, Claim, Guest, ProofOfInputs, Accepted
  <2>4. SavedProofIsSound'
    BY <2>3 DEF File, SavedProofIsSound
  <2>5. OutFileFollowsExit'
    <3>1. proof.kind = "proof" /\ proof.claim = BuildInputs(request)
      BY DEF Claim, ProofOfInputs
    <3>2. file = before /\ request.command # "smoke"
      BY DEF File, Claim, Accepted
    <3> QED BY <3>1, <3>2 DEF OutFileFollowsExit
  <2>6. File'
    BY <2>4, <2>5 DEF File
  <2> QED BY <2>1, <2>2, <2>6
<1>10. CASE NextRun
  <2> USE <1>10 DEF NextRun
  <2>1. Status' /\ Claim' /\ ProofOfInputs'
    BY DEF Status, Claim, ProofOfInputs, Hosts, Accepted, Running
  <2>2. Guest'
    BY DEF Guest, Accepted
  <2>3. File'
    BY DEF File, OutFileFollowsExit, SavedProofIsSound
  <2> QED BY <2>1, <2>2, <2>3
<1>11. CASE UNCHANGED proverVars
  <2> USE <1>11 DEF proverVars, runVars, guestVars
  <2>1. Status' /\ Claim' /\ ProofOfInputs'
    BY DEF Status, Claim, ProofOfInputs
  <2>2. Guest'
    BY DEF Guest, Queue
  <2>3. File'
    BY DEF File, OutFileFollowsExit, SavedProofIsSound
  <2> QED BY <2>1, <2>2, <2>3
<1> QED BY <1>1, <1>2, <1>3, <1>4, <1>5, <1>6, <1>7, <1>8, <1>9, <1>10, <1>11 DEF ProverNext

-----------------------------------------------------------------------------
THEOREM ProverInductive == ProverSpec => []ProverInv
BY ProverInvInit, ProverInvNext, PTL DEF ProverSpec

(* The host and the guest keep in step over any number of runs.            *)
THEOREM ProverTypes == ProverSpec => []ProverTypeOK
<1>1. Len(ReadTypes) = 5
  BY DEF ReadTypes
<1>2. ProverInv => ProverTypeOK
  BY <1>1, QueueLengths DEF ProverInv, Status, Guest, ProverTypeOK, Hosts
<1> QED BY <1>2, ProverInductive, PTL

(* Whatever the requests, the codec, the hash and the PSNR, and wherever SP1
   fails, --out only ever holds the proof of a claim that was built from a
   request, is signed over its own root and is within the tolerance.       *)
THEOREM SavedProofsAreSound == ProverSpec => []SavedProofIsSound
<1>1. ProverInv => SavedProofIsSound
  BY DEF ProverInv, File
<1> QED BY <1>1, ProverInductive, PTL

(* A fixture that passes the native check is never rejected by the guest.  *)
THEOREM SmokePredictsTheGuest == ProverSpec => []SmokePredictsGuest
<1>1. ProverInv => SmokePredictsGuest
  BY DEF ProverInv, Status, Guest, ProofOfInputs, SmokePredictsGuest, Accepted
<1> QED BY <1>1, ProverInductive, PTL

(* Exit code 0 of prove means that this request's proof is at --out.       *)
THEOREM ExitCodeIsHonest == ProverSpec => []OutFileFollowsExit
<1>1. ProverInv => OutFileFollowsExit
  BY DEF ProverInv, File
<1> QED BY <1>1, ProverInductive, PTL
=============================================================================
