-------------------------------- MODULE MCM2 --------------------------------
(* What lies below a claim and above it, one at a time: the loops of the Merkle
   tree, the values a claim is made of, and the prover host with its guest.
   part says which one runs; the others are at rest.                       *)
EXTENDS MerkleWalk, M2Values, M2Prover

(* Trees of every shape up to MaxLeaves leaves, with a symbolic hash: the digest
   of two digests is the pair of them, so distinct inputs collide nowhere. *)
CONSTANTS LeafValues, MaxLeaves

MCH(a, b) == <<a, b>>

MCLeafVecs ==
  UNION {{[len |-> n, at |-> f] : f \in [0..(n - 1) -> LeafValues]}
           : n \in 0..MaxLeaves}

MCIndices == 0..MaxLeaves

(* The loops have returned from a request for a path in no leaves.         *)
NoWalk ==
  /\ leaves = Empty /\ index = 0 /\ presented = ZeroHash /\ level = Empty
  /\ levels = Push(Empty, Empty) /\ trail = Push(Empty, 0) /\ pc = "invalid_path"
  /\ root = ZeroHash /\ curIdx = 0 /\ siblings = Empty
  /\ current = ZeroHash /\ idx = 0 /\ k = 0

-----------------------------------------------------------------------------
(* Planes of up to 24x16 samples whose pixels spread over the whole range, and
   planes of extremes.                                                     *)
CONSTANTS Sizes, Seeds

Pattern(w, h, seed) ==
  [width |-> w, height |-> h,
   at |-> [p \in 0..(w * h - 1) |-> (seed * p * p + 37 * p + 11 * seed) % 256]]

(* Black and white pixels, which drive single coefficients to the extreme. *)
Extreme(w, h, seed) ==
  [width |-> w, height |-> h,
   at |-> [p \in 0..(w * h - 1) |-> IF (p \div seed) % 2 = 0 THEN 0 ELSE 255]]

MCPlanes ==
  UNION {{Pattern(s[1], s[2], seed), Extreme(s[1], s[2], seed)} : s \in Sizes, seed \in Seeds}

MCSizes == {<<8, 8>>, <<16, 8>>, <<8, 24>>, <<24, 16>>}

(* Figures are taken against tolerances of either sign.                    *)
MCTolerances == (-1..11) \union {1000000}

(* Every pair of public inputs over small planes, with and without audio.
   Bytes are of base 2.                                                    *)
MaxCoeffs == 2     (* in the first plane; one in the others               *)
Coeffs == {-1, 0}

CoeffSeqs(n) == UNION {[1..m -> Coeffs] : m \in 0..n}

Audios == {[kind |-> "none"],
           [kind |-> "some", sample_rate |-> 1, channels |-> 1,
            sample_count |-> 0, merkle_root |-> <<1, 0>>]}

Bodies == {[version |-> 1, width |-> 2, height |-> 2, fps_num |-> 3,
            fps_den |-> 1, frame_count |-> 1, merkle_root |-> <<0, 1>>,
            audio |-> audio, created_at |-> 1, device_id |-> <<1, 1>>]
             : audio \in Audios}

Input(y, u, v, body, tolerance) ==
  [width |-> 2, height |-> 2, qp |-> 1, chroma_format |-> 1,
   coeffs_y |-> y, coeffs_u |-> u, coeffs_v |-> v, body |-> body,
   pubkey |-> <<0, 0>>, signature |-> <<1, 0, 0>>, tolerance |-> tolerance]

MCInputs == {Input(y, u, v, body, tolerance) :
               y \in CoeffSeqs(MaxCoeffs), u \in CoeffSeqs(1), v \in CoeffSeqs(1),
               body \in Bodies, tolerance \in {-1, 0}}

ValuesAtRest == NoPlane /\ v1 = 0 /\ v2 = 0

-----------------------------------------------------------------------------
(* Requests over 16x16 frames, one for each way the fixture can be refused,
   lossless and lossy QPs, and tolerances on both sides of the lossy PSNR. *)
CONSTANTS Dark, Light, Noise,     (* contents of half a block            *)
          Lumas

MCPlanePsnr(a, b) == IF a = b THEN Infinite ELSE 30

Luma(l) == [len |-> 4, at |-> [b \in 0..3 |-> l[b + 1]]]

(* Lossless at QP 0, else one block is off.                                *)
MCReconstruct(frame, q) ==
  IF q = 0 THEN frame ELSE [frame EXCEPT !.y.at[3] = <<Noise, Noise>>]

Raw(l, size) == [readable |-> TRUE, size |-> size, luma |-> Luma(l), chroma |-> "grey"]

Good(l) == [command |-> "prove", width |-> 16, height |-> 16, qp |-> 0,
            tolerance |-> 30, raw |-> Raw(l, 384), key |-> "default"]

RequestsFor(l) ==
  [command : {"smoke", "prove"}, width : {16}, height : {16}, qp : {0, 8, 51},
   tolerance : {30, 36}, raw : {Raw(l, 384), Raw(l, 400)}, key : {"default", "own"}]
  \union
  {[Good(l) EXCEPT !.width = 24], [Good(l) EXCEPT !.height = 0],
   [Good(l) EXCEPT !.qp = 52], [Good(l) EXCEPT !.key = "short"],
   [Good(l) EXCEPT !.key = "unreadable"], [Good(l) EXCEPT !.raw.size = 383],
   [Good(l) EXCEPT !.raw.readable = FALSE]}

MCRequests == UNION {RequestsFor(l) : l \in Lumas}

MCLumas == {<<<<Dark, Dark>>, <<Dark, Light>>, <<Dark, Dark>>, <<Dark, Light>>>>}
MCClaims == {}

(* A run that ended before it began.                                       *)
NoProver ==
  /\ request = [command |-> "none"] /\ inputs = None /\ before = None
  /\ host = "rest" /\ stdin = <<>> /\ guest = "idle" /\ taken = <<>> /\ public = <<>>
  /\ proof = None /\ file = None /\ exit = 1

-----------------------------------------------------------------------------
MCInit ==
  \/ part = "tree" /\ Init /\ ValuesAtRest /\ NoProver
  \/ ValuesInit /\ NoWalk /\ NoProver
  \/ part = "prover" /\ ProverInit /\ NoWalk /\ ValuesAtRest

Tree == part = "tree" /\ Next /\ UNCHANGED <<valuesVars, proverVars>>
Values == ValuesNext /\ UNCHANGED <<vars, proverVars>>
Prover == part = "prover" /\ ProverNext /\ UNCHANGED <<vars, valuesVars>>

MCNext == Tree \/ Values \/ Prover

MCSpec ==
  MCInit /\ [][MCNext]_<<vars, valuesVars, proverVars>> /\ WF_<<vars, part>>(Tree)
=============================================================================
