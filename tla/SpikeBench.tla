----------------------------- MODULE SpikeBench -----------------------------
(***************************************************************************)
(* The bench subcommand of the four spikes and the two programs that run   *)
(* it: spike/bench-driver and spike/bench/run.sh.  A bench measures one    *)
(* fixture after the other and replaces its result file after each; the    *)
(* bench-driver reads the files of SP1 and RISC Zero back.  Any command    *)
(* may fail, all of them may be killed, and the machine may lose power,    *)
(* session after session over the same files.  What a bench prints is left *)
(* out: its documents go to the file it is given.                          *)
(*                                                                         *)
(* A rename is whole or not there, and what was synced before it stays     *)
(* whole; nobody syncs the directory, so that after a loss of power a name *)
(* may again stand for an earlier file.                                    *)
(***************************************************************************)
EXTENDS Integers, Sequences

CONSTANTS
  Sizes,        (* <<"1k", "1m", "10m">>: the labels, in their order       *)
  MaxSessions   (* bound: sessions over the same files                     *)

(* The labels are different, and none is the one of the toy benches.       *)
ASSUME SizesAssumption ==
  /\ Sizes \in Seq(STRING \ {"16x16"})
  /\ \A k1, k2 \in DOMAIN Sizes : Sizes[k1] = Sizes[k2] => k1 = k2

VARIABLES
  present,      (* the labels whose fixture-<label>.bin is there           *)
  session,      (* counts the sessions, and dates a row                    *)
  mode,         (* driver, script or alone: who runs the benches           *)
  queue,        (* the benches still to run, the running one first         *)
  stage,        (* what that one does next; off before it is spawned       *)
  place,        (* its place in the list of sizes                          *)
  rows,         (* partial.rows                                            *)
  captured,     (* CAPTURED_CYCLES of Jolt                                 *)
  tmp,          (* the file <path>.json.tmp of the running bench           *)
  file,         (* the result file of each bench                           *)
  older,        (* what power may bring back in its place                  *)
  acked,        (* the rows of the last write_partial that returned        *)
  results,      (* comparison.sp1 and comparison.risc0 of the bench-driver *)
  comparison,   (* comparison.json                                         *)
  session_exit  (* of the session: running, ok, failed or dead             *)

process == <<stage, place, rows, captured, tmp>>
disk == <<file, older>>
benchVars == <<present, session, mode, queue, process, disk, acked, results,
               comparison, session_exit>>

None == [kind |-> "none"]
Torn == [kind |-> "torn"]
Document(r) == [kind |-> "document", rows |-> r]

(* What the bench functions differ in: the sizes they go through, and where the
   count of a row comes from.  The toy-decode of SP1 and of Jolt make their
   one frame.                                                              *)
BenchKind(labels, cycles) == [labels |-> labels, cycles |-> cycles]
Sp1BenchSha256 == BenchKind(Sizes, "report")
Sp1BenchToyDecode == BenchKind(<<"16x16">>, "report")
Risc0Bench == BenchKind(Sizes, "session")
JoltBench(labels) == BenchKind(labels, "log")
SonobeBench == BenchKind(Sizes, "steps")

Kind ==
  [sp1 |-> Sp1BenchSha256, sp1_toy |-> Sp1BenchToyDecode, risc0 |-> Risc0Bench,
   jolt |-> JoltBench(Sizes), jolt_toy |-> JoltBench(<<"16x16">>), sonobe |-> SonobeBench]

Benches == DOMAIN Kind
Sides == {"sp1", "risc0"}

Labels(b) == Kind[b].labels
Found(label) == label = "16x16" \/ label \in present

Row(label, cycles) == [label |-> label, session |-> session, cycles |-> cycles]

-----------------------------------------------------------------------------
BenchInit ==
  /\ present \in SUBSET {Sizes[k] : k \in DOMAIN Sizes}
  /\ session = 0 /\ session_exit = "ok"
  /\ mode = "driver" /\ queue = << >>
  /\ stage = "off" /\ place = 0 /\ rows = << >> /\ captured = "none" /\ tmp = None
  /\ file = [b \in Benches |-> None] /\ older = [b \in Benches |-> {}]
  /\ acked = [b \in Benches |-> << >>]
  /\ results = [s \in Sides |-> None] /\ comparison = None

(* bench-driver [--only ..], which ignores a name it does not know.        *)
StartDriver ==
  /\ queue' \in {<<"sp1", "risc0">>, <<"sp1">>, <<"risc0">>, << >>}
  /\ mode' = "driver" /\ stage' = "off"

(* bench/run.sh, which asks for the first fixture.  It builds the host of RISC
   Zero without its feature: that program prints how to build it and exits 1. *)
StartScript ==
  /\ Sizes[1] \in present
  /\ queue' = <<"risc0", "sp1">> /\ mode' = "script" /\ stage' = "off"

(* A bench on its own, as in scripts/bench_all.sh.                         *)
StartAlone ==
  /\ \E b \in Benches : queue' = <<b>>
  /\ mode' = "alone" /\ stage' = "off"

(* Between two sessions gen.sh may have made fixtures, or someone cleaned up. *)
StartSession ==
  /\ session_exit # "running" /\ session < MaxSessions
  /\ StartDriver \/ StartScript \/ StartAlone
  /\ present' \in SUBSET {Sizes[k] : k \in DOMAIN Sizes}
  /\ session' = session + 1 /\ session_exit' = "running"
  /\ results' = [s \in Sides |-> None]
  /\ UNCHANGED <<place, rows, captured, tmp, disk, acked, comparison>>

-----------------------------------------------------------------------------
(* The bench: cmd_bench of Jolt and Sonobe, the two functions of SP1, the arm
   of RISC Zero.                                                           *)
Running == session_exit = "running" /\ stage # "off"
Bench == Head(queue)
InLoop == Running /\ stage = "next" /\ place <= Len(Labels(Bench))
Label == Labels(Bench)[place]

Spawn ==
  /\ session_exit = "running" /\ queue # << >> /\ stage = "off" /\ mode # "script"
  /\ stage' = "next" /\ place' = 1 /\ rows' = << >> /\ captured' = "none"
  /\ tmp' = None
  /\ acked' = [acked EXCEPT ![Bench] = << >>]
  /\ UNCHANGED <<present, session, mode, queue, disk, results, comparison, session_exit>>

Skip ==
  /\ InLoop /\ ~Found(Label)
  /\ place' = place + 1
  /\ UNCHANGED <<present, session, mode, queue, stage, rows, captured, tmp,
                 disk, acked, results, comparison, session_exit>>

(* reset_cycles, then CycleCapture::on_event if the log filter lets the line
   through; 0 otherwise.  The others are handed their count.               *)
CyclesSeen(logged) == IF logged THEN Label ELSE "none"

(* Execute, prove, verify, serialise; any `?` on the way is Fail.          *)
Measure ==
  /\ InLoop /\ Found(Label)
  /\ \E logged \in IF Kind[Bench].cycles = "log" THEN BOOLEAN ELSE {TRUE} :
       /\ captured' = CyclesSeen(logged)
       /\ rows' = Append(rows, Row(Label, captured'))
  /\ stage' = "create"
  /\ UNCHANGED <<present, session, mode, queue, place, tmp, disk, acked, results,
                 comparison, session_exit>>

(* write_partial.                                                          *)
WritePartial(from, to, content) ==
  /\ Running /\ stage = from
  /\ stage' = to /\ tmp' = content
  /\ UNCHANGED <<present, session, mode, queue, place, rows, captured, disk,
                 acked, results, comparison, session_exit>>

Unsynced(content) == [kind |-> "unsynced", content |-> content]
Create == WritePartial("create", "write", Unsynced(Torn))
WriteAll == WritePartial("write", "sync", Unsynced(Document(rows)))

(* Mutant: without sync_all.                                               *)
Bug_NoSync == WritePartial("sync", "rename", tmp)

SyncAll == WritePartial("sync", "rename", tmp.content)

Content(f) == IF f.kind = "unsynced" THEN f.content ELSE f

Rename ==
  /\ Running /\ stage = "rename"
  /\ older' = [older EXCEPT ![Bench] = @ \cup {file[Bench]}]
  /\ file' = [file EXCEPT ![Bench] = tmp]
  /\ acked' = [acked EXCEPT ![Bench] = rows]
  /\ tmp' = None /\ stage' = "next" /\ place' = place + 1
  /\ UNCHANGED <<present, session, mode, queue, rows, captured, results,
                 comparison, session_exit>>

Finish ==
  /\ Running /\ stage = "next" /\ place > Len(Labels(Bench))
  /\ stage' = "success"
  /\ UNCHANGED <<present, session, mode, queue, place, rows, captured, tmp, disk, acked,
                 results, comparison, session_exit>>

(* An error of any step, or of the spawn itself, as always in run.sh.      *)
Fail ==
  /\ session_exit = "running" /\ queue # << >> /\ stage # "success" /\ stage # "failure"
  /\ stage' = "failure"
  /\ UNCHANGED <<present, session, mode, queue, place, rows, captured, tmp, disk,
                 acked, results, comparison, session_exit>>

-----------------------------------------------------------------------------
(* What the session makes of it.                                           *)
SideEnded == Running /\ stage \in {"success", "failure"}

(* Mutant: the exit status is not looked at.                               *)
Bug_StatusIgnored(b) ==
  IF Content(file[b]).kind = "document" THEN Content(file[b]) ELSE None

(* run_side: None unless the child exited 0 and left a readable document.  *)
RunSide(b) ==
  IF stage = "success" /\ Content(file[b]).kind = "document" THEN Content(file[b]) ELSE None

(* `set -e` ends run.sh at the first side that fails.                      *)
SideEnds ==
  /\ SideEnded
  /\ \/ /\ mode = "driver"
        /\ results' = [results EXCEPT ![Bench] = RunSide(Bench)]
        /\ UNCHANGED session_exit
     \/ /\ mode # "driver"
        /\ session_exit' = IF stage = "success" THEN "ok" ELSE "failed"
        /\ UNCHANGED results
  /\ queue' = Tail(queue) /\ stage' = "off"
  /\ UNCHANGED <<present, session, mode, place, rows, captured, tmp, disk, acked,
                 comparison>>

Comparison == [kind |-> "comparison", sides |-> results, session |-> session]

(* main of bench-driver: exit 2 without a side; comparison.json is not written
   by write_partial, and may be left cut short.                            *)
CompareSides ==
  /\ session_exit = "running" /\ queue = << >>
  /\ LET fit == \E s \in Sides : results[s] # None
     IN  \/ fit /\ comparison' = Comparison /\ session_exit' = "ok"
         \/ fit /\ comparison' = Torn /\ session_exit' = "failed"
         \/ ~fit /\ UNCHANGED comparison /\ session_exit' = "failed"
  /\ UNCHANGED <<present, session, mode, queue, process, disk, acked, results>>

(* Everything that runs is killed, at any moment.                          *)
Kill ==
  /\ session_exit = "running" /\ session_exit' = "dead"
  /\ queue' = << >> /\ stage' = "off" /\ tmp' = None
  /\ UNCHANGED <<present, session, mode, place, rows, captured, disk, acked, results,
                 comparison>>

AfterLoss(f) == IF f.kind = "unsynced" THEN {Torn, f.content} ELSE {f}
Survivors(b) == UNION {AfterLoss(f) : f \in older[b] \cup {file[b]}}
AtRisk == {b \in Benches : Survivors(b) # {file[b]}}

PowerLoss ==
  /\ session > 0 /\ session_exit' = "dead"
  /\ queue' = << >> /\ stage' = "off" /\ tmp' = None
  /\ \E found \in [AtRisk -> UNION {Survivors(b) : b \in AtRisk}] :
       /\ \A b \in AtRisk : found[b] \in Survivors(b)
       /\ file' = [b \in Benches |-> IF b \in AtRisk THEN found[b] ELSE file[b]]
  /\ older' = [b \in Benches |-> {}] /\ acked' = [b \in Benches |-> << >>]
  /\ UNCHANGED <<present, session, mode, place, rows, captured, results, comparison>>

BenchNext == \/ StartSession
        \/ Spawn \/ Skip \/ Measure \/ Create \/ WriteAll \/ SyncAll \/ Rename \/ Finish
        \/ Fail \/ SideEnds \/ CompareSides
        \/ Kill \/ PowerLoss

BenchSpec == BenchInit /\ [][BenchNext]_benchVars

-----------------------------------------------------------------------------
(* "a crash mid-run never leaves a half-file, and the latest fully-completed
   row is always durable on disk" (spike/risc0/host/src/main.rs:111): whatever
   ends a bench, a result file is not there or is a document of one session,
   and until the machine itself fails it has every row whose write_partial
   returned.  No row of Jolt shows the cycles of another one.              *)
OneSession(r) == \A k \in DOMAIN r : r[k].session = r[1].session
ResultSurvivesCrash ==
  \A b \in Benches :
    /\ file[b].kind # "torn"
    /\ acked[b] # << >> => Content(file[b]) = Document(acked[b])
    /\ Content(file[b]).kind = "document" =>
         LET r == Content(file[b]).rows
         IN  /\ r # << >> /\ OneSession(r)
             /\ \A k \in DOMAIN r : r[k].cycles \in {r[k].label, "none"}

(* When bench-driver exits 0, each side in comparison.json that had a fixture to
   measure has a row of this session for every fixture there is, in order, so
   that rows printed next to each other are of the same fixture.  A side that
   found no fixture wrote nothing, and its file is an earlier one.         *)
Place(label) == CHOOSE at \in DOMAIN Sizes : Sizes[at] = label
RowPerFixture(r) ==
  /\ {r[j].label : j \in DOMAIN r} = present
  /\ \A j \in DOMAIN r : r[j] = Row(r[j].label, r[j].label)
  /\ \A j, later \in DOMAIN r : j < later => Place(r[j].label) < Place(r[later].label)
ComparisonIsFresh ==
  session_exit = "ok" /\ mode = "driver" /\ session > 0 =>
    /\ comparison.kind = "comparison" /\ comparison.session = session
    /\ present # {} =>
         \A s \in Sides :
           comparison.sides[s].kind = "document" => RowPerFixture(comparison.sides[s].rows)
=============================================================================
