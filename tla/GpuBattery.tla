----------------------------- MODULE GpuBattery -----------------------------
(***************************************************************************)
(* scripts/full_test_gpu.sh: nine phases, each a sequence of blocks of      *)
(* commands that succeed or fail.  A block runs under a guard, and its     *)
(* result enters the flag of the phase (X_OK) in one of three ways.        *)
(***************************************************************************)
EXTENDS Integers, Sequences

VARIABLES
  has_gpu,     (* HAS_GPU: nvidia-smi is there                             *)
  binary,      (* sonobe-script is executable, maybe from an earlier run   *)
  phase, k,    (* the phase, and its next block; 0 before phase_start      *)
  ok,          (* the X_OK flag of the phase                               *)
  outcome,     (* of each block gone through: how its commands have ended  *)
  status,      (* STATUS                                                   *)
  script_exit  (* the exit code, -1 while the script runs                  *)

batteryVars == <<has_gpu, binary, phase, k, ok, outcome, status, script_exit>>

Block(guard, commands, flag) == [guard |-> guard, commands |-> commands, flag |-> flag]
Always(c) == Block("always", <<c>>, "each")
IfOk(c) == Block("ok", <<c>>, "each")

Sanity == << Block("gpu", <<"nvidia-smi">>, "none"), Always("cargo"), Always("protoc") >>

Setup == << Block("gpu", <<"cuda">>, "each"),
            Block("always", <<"sonobe", "jolt", "sp1">>, "each") >>

UnitTests == << Always("test") >>

CudaSha256 == << Block("gpu", <<"bench">>, "each") >>

Sp1ToyDecode == << Always("build"), IfOk("bench") >>

(* The subshell of the two benches ends as the last of them does.          *)
Jolt == << Always("build"), Block("ok", <<"sha256", "toy-decode">>, "last") >>

(* Mutant: the benches share a subshell, as those of Jolt do.              *)
Bug_SonobeSubshell ==
  << Always("build"), Block("ok", <<"sha256-chain", "toy-decode">>, "last") >>

Sonobe == << Always("build"), Block("ok", <<"sha256-chain", "toy-decode">>, "each") >>

Decider == << Block("binary", <<"bench">>, "each") >>

M2Proving == << Always("fixture"), IfOk("build"), IfOk("smoke"), IfOk("prove") >>

Phases ==
  << <<"1-sanity", Sanity>>, <<"2-setup", Setup>>, <<"3-unit-tests", UnitTests>>,
     <<"4-cuda-sha256", CudaSha256>>, <<"5-sp1-toy-decode", Sp1ToyDecode>>,
     <<"6-jolt", Jolt>>, <<"7-sonobe-ivc", Sonobe>>, <<"8-sonobe-decider", Decider>>,
     <<"10-m2-prover", M2Proving>> >>

Name(p) == Phases[p][1]
Blocks(p) == Phases[p][2]
InPhase == phase \in DOMAIN Phases /\ k > 0
Current == Blocks(phase)[k]
GuardHolds(b) == CASE b.guard = "always" -> TRUE
                   [] b.guard = "ok" -> ok
                   [] b.guard = "gpu" -> has_gpu
                   [] b.guard = "binary" -> binary

BatteryInit ==
  /\ has_gpu \in BOOLEAN /\ binary \in BOOLEAN
  /\ phase = 1 /\ k = 0 /\ ok = TRUE
  /\ outcome = << >>
  /\ status = << >> /\ script_exit = -1

PhaseStart ==
  /\ phase \in DOMAIN Phases /\ k = 0
  /\ status' = Append(status, "RUN")
  /\ k' = 1 /\ ok' = TRUE /\ outcome' = << >>
  /\ UNCHANGED <<has_gpu, binary, phase, script_exit>>

Good(results) == \A i \in DOMAIN results : results[i]

RunBlock ==
  /\ InPhase /\ k <= Len(Blocks(phase)) /\ GuardHolds(Current)
  /\ \E results \in [DOMAIN Current.commands -> BOOLEAN] :
       /\ outcome' = Append(outcome, results)
       /\ ok' = (ok /\ CASE Current.flag = "each" -> Good(results)
                         [] Current.flag = "last" -> results[Len(results)]
                         [] Current.flag = "none" -> TRUE)
       /\ binary' = (binary \/ (Name(phase) = "7-sonobe-ivc" /\ k = 1 /\ Good(results)))
  /\ k' = k + 1
  /\ UNCHANGED <<has_gpu, phase, status, script_exit>>

(* Without its binary phase 8 fails; without its flag a block only waits.   *)
PassOver ==
  /\ InPhase /\ k <= Len(Blocks(phase)) /\ ~GuardHolds(Current)
  /\ ok' = (ok /\ Current.guard # "binary")
  /\ outcome' = Append(outcome, << >>)
  /\ k' = k + 1
  /\ UNCHANGED <<has_gpu, binary, phase, status, script_exit>>

Verdict == IF Name(phase) = "4-cuda-sha256" /\ ~has_gpu THEN "SKIP"
           ELSE IF ok THEN "PASS" ELSE "FAIL"

(* Mutant: phase_fail prints its line and leaves STATUS alone.             *)
Bug_FailNotRecorded ==
  /\ InPhase /\ k > Len(Blocks(phase))
  /\ status' = IF Verdict = "FAIL" THEN status ELSE [status EXCEPT ![phase] = Verdict]
  /\ phase' = phase + 1 /\ k' = 0
  /\ UNCHANGED <<has_gpu, binary, ok, outcome, script_exit>>

PhaseEnd ==
  /\ InPhase /\ k > Len(Blocks(phase))
  /\ status' = [status EXCEPT ![phase] = Verdict]
  /\ phase' = phase + 1 /\ k' = 0
  /\ UNCHANGED <<has_gpu, binary, ok, outcome, script_exit>>

Summary ==
  /\ phase > Len(Phases) /\ script_exit = -1
  /\ script_exit' = IF \E p \in DOMAIN status : status[p] = "FAIL" THEN 1 ELSE 0
  /\ UNCHANGED <<has_gpu, binary, phase, k, ok, outcome, status>>

BatteryNext == PhaseStart \/ RunBlock \/ PassOver \/ PhaseEnd \/ Summary

BatterySpec == BatteryInit /\ [][BatteryNext]_batteryVars

-----------------------------------------------------------------------------
(* A phase that is reported PASS ran all its commands, those of the GPU where
   there is one, and none of them failed but the two whose status the script
   throws away, phase, block and command: nvidia-smi, meant by `|| true`
   (109), and the first bench of Jolt (199), of which PASS says nothing.    *)
Ignored == {<<"1-sanity", 1, 1>>}
Lost == {<<"6-jolt", 2, 1>>}
Applies(b) == b.guard = "gpu" => has_gpu
LastEnded == IF k = 0 THEN phase - 1 ELSE phase
Complete(p, unseen) ==
  \A b \in DOMAIN Blocks(p) : Applies(Blocks(p)[b]) =>
    /\ DOMAIN outcome[b] = DOMAIN Blocks(p)[b].commands
    /\ \A c \in DOMAIN outcome[b] : <<Name(p), b, c>> \notin unseen => outcome[b][c]
PassMeans(unseen) ==
  LastEnded \in DOMAIN Phases /\ LastEnded \in DOMAIN status =>
    (status[LastEnded] = "PASS" => Complete(LastEnded, unseen))
Unseen == Ignored \cup Lost
PassMeansDone == PassMeans(Unseen)

(* "a failure in phase N is recorded and reported" (full_test_gpu.sh 49-50): so
   is that of each bench of Jolt, whose PASS says "sha256 + toy-decode rows
   written" (206).                                                          *)
FailureRecorded == PassMeans(Ignored)

(* "Safe to terminate the instance": on exit 0 every phase was reached and
   ended PASS, or SKIP where there is no GPU; any failure exits 1.          *)
SafeToTerminate ==
  script_exit # -1 =>
    /\ Len(status) = Len(Phases)
    /\ script_exit = 0 <=> \A p \in DOMAIN status :
         status[p] = "PASS" \/ (status[p] = "SKIP" /\ ~has_gpu)
=============================================================================
