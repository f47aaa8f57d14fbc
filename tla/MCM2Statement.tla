--------------------------- MODULE MCM2Statement ----------------------------
(* verify_m2_claim, and then the guest on the same claim: the host's native call
   and its execution in the zkVM.  The claims are about 16x16 frames: the signed
   frame and the original offered for it need not agree, the paths are those of
   the signed frame, tampered with, or longer or shorter than its tree is high,
   and each guard of the decoder has a bitstream that fails it alone.      *)
EXTENDS M2Statement, M2Guest

CONSTANTS Dark, Light, Noise,     (* contents of half a block            *)
          SignedLuma, Tolerances

MCH(a, b) == <<a, b>>
MCPlanePsnr(a, b) == IF a = b THEN Infinite ELSE 30

Frame(w, h, luma, chroma) ==
  [width |-> w, height |-> h,
   y |-> [len |-> (w \div 8) * (h \div 8), at |-> luma],
   u |-> chroma, v |-> chroma]

DarkBlock == <<Dark, Dark>>
LightBlock == <<Dark, Light>>

(* Its first half is the digest of a block.                                *)
DigestBlock == <<MCH(Dark, Dark), Light>>

MCSignedLuma ==
  {<<DarkBlock, DarkBlock, DarkBlock, DarkBlock>>,
   <<DarkBlock, LightBlock, DarkBlock, LightBlock>>,
   <<DigestBlock, LightBlock, LightBlock, DarkBlock>>}

Square(luma) == Frame(16, 16, luma, "grey")
Signed(luma) == Square([b \in 0..3 |-> luma[b + 1]])

Originals == {Square(luma) : luma \in [0..3 -> {DarkBlock, LightBlock}]}
MCFrames == Originals \union {Signed(luma) : luma \in SignedLuma}

HonestPaths(leaves) == Vec(leaves.len, LAMBDA b : MerklePath(leaves, b))

(* A signed frame's block 0 replaced, with the path that leads from the
   replacement to the root: the two leaves below a node one level up, the two
   nodes below the root, the preimage of a half of the block.              *)
OtherLengths(frame) ==
  LET leaves == FrameMerkleLeaves(frame)
      level == LevelOf(leaves)[1]
      honest == HonestPaths(leaves)
      own == honest.at[0].siblings
      Replaced(block, siblings) ==
        [original |-> [frame EXCEPT !.y.at[0] = block],
         paths    |-> [honest EXCEPT !.at[0].siblings = siblings]]
  IN  {Replaced(<<leaves.at[0], leaves.at[1]>>, Vec(1, LAMBDA k : own.at[1])),
       Replaced(<<level.at[0], level.at[1]>>, Vec(0, LAMBDA k : ZeroHash)),
       Replaced(DarkBlock, Vec(3, LAMBDA k : IF k = 0 THEN Light ELSE own.at[k - 1]))}

(* As built; one path short; one too many; two swapped; one corrupted.     *)
PathVariants(honest) ==
  LET corrupt == [honest.at[2] EXCEPT !.siblings.at[0] = ZeroHash]
  IN  {honest,
       [len |-> 3, at |-> [b \in 0..2 |-> honest.at[b]]],
       Push(honest, honest.at[0]),
       [honest EXCEPT !.at[0] = honest.at[1], !.at[1] = honest.at[0]],
       [honest EXCEPT !.at[2] = corrupt]}

Lossless(original) ==
  [width |-> 16, height |-> 16, qp |-> 8, chroma_format |-> 1,
   lengths_fit |-> TRUE, decoded |-> original]

Noisy(original) ==
  [Lossless(original) EXCEPT !.decoded = Frame(16, 16, [b \in 0..3 |-> <<Noise, Noise>>], "grey")]

BadBitstreams(original) ==
  LET good == Lossless(original)
  IN  {[good EXCEPT !.height = 32,
                    !.decoded = Frame(16, 32, [b \in 0..7 |-> <<Noise, Noise>>], "grey")],
       [good EXCEPT !.height = 8], [good EXCEPT !.width = 0],
       [good EXCEPT !.qp = 52], [good EXCEPT !.chroma_format = 2],
       [good EXCEPT !.lengths_fit = FALSE]}

(* Every original and tampering with decodable bitstreams; every bad
   bitstream, and a bad signature, with the signed frame's own paths.      *)
ClaimsUnder(signedLuma) ==
  LET signedFrame == Signed(signedLuma)
      leaves == FrameMerkleLeaves(signedFrame)
      body == [root |-> MerkleRoot(leaves)]
      own == SignManifest(body, "key")
      forged == [own EXCEPT !.signature = Sign("other", body)]
      paths == PathVariants(HonestPaths(leaves))
  IN  UNION {[signed : {own}, bitstream : {Lossless(original), Noisy(original)},
              original : {original}, paths : paths, tolerance : Tolerances]
                : original \in Originals \union {signedFrame}}
      \union
      [signed : {own, forged},
       bitstream : BadBitstreams(signedFrame) \union {Lossless(signedFrame)},
       original : {signedFrame}, paths : paths, tolerance : {40}]
      \union
      {[signed |-> own, bitstream |-> Lossless(o.original), original |-> o.original,
        paths |-> o.paths, tolerance |-> 40] : o \in OtherLengths(signedFrame)}

MCClaims == UNION {ClaimsUnder(l) : l \in SignedLuma}

-----------------------------------------------------------------------------

MCInit == Init /\ GuestInit /\ inputs = claim

Native == Next /\ UNCHANGED <<inputs, guestVars>>
Proven == verdict # Pending /\ GuestStep /\ UNCHANGED vars

MCNext == Native \/ Proven

MCSpec == MCInit /\ [][MCNext]_<<vars, inputs, guestVars>> /\ WF_vars(Native)

(* The guest reads back the claim that was queued and commits its digest and,
   whichever it is, its verdict, the one of the native check; it halts exactly
   for the claims the host would accept: the host may rely on the check it
   makes before it pays for a proof (host 258-266, guest 53-78).           *)
GuestAgreesWithNative ==
  GuestReportsTheClaim /\
  (GuestEnded => /\ public[2] = StatusOf(verdict)
                /\ ((guest = "halted") <=> (verdict = Verdict("Ok"))))

(* One contract, kept twice: by the check as the host calls it, its verdict for
   the verdict, and by the guest, the status it commits for the verdict.   *)
BothKeepContract == ImplementsContract /\ GuestKeepsContract
=============================================================================
