------------------------------ MODULE M2Values ------------------------------
(***************************************************************************)
(* The values a claim is made of, each on its own: planes through the toy  *)
(* codec, PSNR figures through the comparator, and public inputs on their  *)
(* way into the digest.  part says which; v1 and v2 are the figures, or    *)
(* two public inputs.                                                      *)
(***************************************************************************)
EXTENDS ToyPlane, Comparator, PublicInputs

CONSTANTS
  Levels,       (* the finite figures of a plane                           *)
  Tolerances

(* An i64 has no more than Infinite.                                       *)
ASSUME FiguresAssumption ==
  Levels \subseteq 0..Infinite /\ Tolerances \subseteq {t \in Int : t <= Infinite}

VARIABLES part, v1, v2

Figures == [Planes -> Levels \union {Infinite}]

(* The plane at rest: one without samples, and nothing done with it.       *)
NoPlane ==
  /\ plane = [width |-> 0, height |-> 0, at |-> <<>>] /\ qp = 0 /\ phase = "encode"
  /\ by = 0 /\ bx = 0 /\ offset = 0
  /\ coeffs = [p \in 0..63 |-> 0] /\ out = [p \in 0..63 |-> 0]

ValuesInit ==
  \/ part = "plane" /\ PlaneInit /\ v1 = 0 /\ v2 = 0
  \/ part = "figures" /\ v1 \in Figures /\ v2 = 0 /\ NoPlane
  \/ part = "inputs" /\ v1 \in Inputs /\ v2 \in Inputs /\ NoPlane

ValuesNext == part = "plane" /\ PlaneNext /\ UNCHANGED <<part, v1, v2>>

valuesVars == <<part, planeVars, v1, v2>>

ValuesSpec == ValuesInit /\ [][ValuesNext]_valuesVars

-----------------------------------------------------------------------------
(* The combined figure lies between the worst and the best of the planes
   that differ: frame_psnr divides by the weight of just those.  So a frame
   none of whose planes falls short of the tolerance passes, and one all of
   whose planes fall short does not, for every tolerance and also when some
   planes are perfect (comparator 123-151).                                *)
FiguresFollowPlanes ==
  part = "figures" =>
    /\ Finite(v1) # {} =>
         /\ \E p \in Finite(v1) : Combined(v1) >= v1[p]
         /\ \E p \in Finite(v1) : Combined(v1) <= v1[p]
    /\ \A t \in Tolerances :
         /\ (\A p \in Planes : v1[p] >= t) => MeetsThreshold(v1, t)
         /\ (\A p \in Planes : v1[p] < t) => ~MeetsThreshold(v1, t)

(* The digest binds the public inputs: two that differ in any field, or in
   where one plane's coefficients end and the next one's begin, are hashed
   from different byte strings; and toy-encode writes different files of
   planes that differ in either way (m2-statement 102-130, toy-encode 73-94). *)
CoeffPlanes(p) == <<p.coeffs_y, p.coeffs_u, p.coeffs_v>>
BytesBind ==
  part = "inputs" =>
    /\ Preimage(v1) = Preimage(v2) => v1 = v2
    /\ EncodedFile(v1) = EncodedFile(v2) => CoeffPlanes(v1) = CoeffPlanes(v2)
=============================================================================
