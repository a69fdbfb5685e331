---------------------------- MODULE BranchOracle ----------------------------
(***************************************************************************)
(* The Stage-L same-state oracle of                                        *)
(* prototype_fixed_instruction_robotwin_client_diag.py: at one frame of a  *)
(* rollout, run the Student's next chunk several times (A/A), or it and a  *)
(* Bridge chunk loaded from an artifact (A/B), from one simulator state,   *)
(* and say whether what was run really was one experiment repeated.        *)
(*                                                                         *)
(* Clone says how the branches get their start: "loop" restores a snapshot *)
(* before each of them in the one process, "fork" forks a child per branch *)
(* at the frame, "early" forks the children before the episode, lets each  *)
(* play it, and leaves the verdict to finalize_fork_manifest.              *)
(*                                                                         *)
(* A simulator state is what a snapshot can see of it.  What it cannot see *)
(* (the solver's contact state, the planner's random numbers) makes every  *)
(* outcome of an action, and of a planner call, possible.                  *)
(***************************************************************************)
EXTENDS PlannerTrace, FiniteSets

CONSTANTS Clone, AB, Repeats,
          ChunkSteps,    \* actions of a chunk
          Poses,         \* visible simulator states
          Accelerations, \* values a snapshot may read back for qacc
          Generated,     \* Student actions that a rebuilt prefix may give
          Hashes,        \* runtime hashes of the Student's caches
          ExactRestore,  \* whether a restored state looks as it was saved
          StaleChildren, \* whether children's files of an earlier run may be there
          NoRecord, NoArtifact

ASSUME BranchAssumption ==
    /\ Clone \in {"loop", "fork", "early"} /\ AB \in BOOLEAN /\ Repeats \in Nat \ {0}
    /\ ChunkSteps \in Nat \ {0} /\ Generated # {} /\ "bridge" \notin Generated
    /\ Poses \subseteq Starts /\ Names = {"student", "bridge"} /\ Arms = {"left", "right"}
    /\ (Generated \cup {"bridge"}) \X (1..ChunkSteps) \subseteq Targets

VARIABLES phase,     \* what the client does next, or how it ended
          source,    \* the Student action the Bridge artifact was computed from
          canon,     \* the cache hashes of the rollout itself
          snap,      \* the snapshot taken at the frame
          sim,       \* the simulator of the client
          item, step,
          branch,    \* start, caches and Student action of the branch under way
          records,   \* the branches done
          children,  \* the files of the fork children
          ended,     \* early children whose episode ended before the frame
          oracle     \* the verdict, once written

oracleVars == <<phase, source, canon, snap, sim, item, step, branch, records, children, ended, oracle>>
vars == <<traceVars, oracleVars>>

\* the branches in the order they are run
Branches == IF Clone = "loop" \/ AB THEN <<"A", "B">> ELSE <<"A">>
Runs == Len(Branches) * Repeats
BranchOf(i) == Branches[((i - 1) % Len(Branches)) + 1]
FamilyOf(i) == IF BranchOf(i) = "A" \/ ~AB THEN "student" ELSE "bridge"
ActionOf(i, student) == IF FamilyOf(i) = "student" THEN student ELSE "bridge"
\* the first branch of a family is recorded
FirstOfFamily(i) == i <= Len(Branches) /\ (AB \/ BranchOf(i) = "A")

Sims == [pose : Poses, done : BOOLEAN]
Snapshots == [pose : Poses, done : BOOLEAN, qacc : Accelerations]
Captured(s) == {[pose |-> s.pose, done |-> s.done, qacc |-> q] : q \in Accelerations}

\* restore_simulator_snapshot: flags are set exactly, the physics as the simulator takes it
Restored(s) == {t \in Sims : t.done = s.done /\ (ExactRestore => t.pose = s.pose)}

NewRecord(i, b, end, seen) ==
    [ family |-> FamilyOf(i), start |-> b.start, kv |-> b.kv, canon |-> b.canon, student |-> b.student,
      action |-> ActionOf(i, b.student), end |-> end, seen |-> seen, calls |-> made,
      exact |-> TRUE, fresh |-> TRUE ]

Running == phase \notin {"ok", "failed"} /\ ~raised
Prefix == [start : Snapshots, kv : Hashes, canon : Hashes, student : Generated]

\* a rollout has come to the intervention frame; an early fork is before its first frame
Init ==
    /\ TraceInit
    /\ phase = CASE Clone = "loop" -> "restore" [] Clone = "fork" -> "rebuild" [] OTHER -> "child"
    /\ source \in IF AB THEN Generated \cup {NoArtifact} ELSE {NoArtifact}
    /\ canon \in Hashes /\ sim \in {s \in Sims : ~s.done} /\ snap \in Captured(sim)
    /\ item = 1 /\ step = 1 /\ records = << >> /\ branch = NoRecord /\ ended = {} /\ oracle = NoRecord
    /\ \/ children = [i \in 1..Runs |-> NoRecord]
       \/ /\ StaleChildren
          /\ \E b \in Prefix, end \in Snapshots :
               children = [i \in 1..Runs |-> [NewRecord(i, b, end, end.pose) EXCEPT !.fresh = FALSE]]

\* load_branch_intervention: the artifact must name this task, seed, frame and prompt
ArtifactRefused == AB /\ source = NoArtifact

\* the loop over the branches goes on here or, after the last one, there
NextBranch(here, there) ==
    /\ item' = IF item = Runs THEN 1 ELSE item + 1
    /\ phase' = IF item = Runs THEN there ELSE here

-----------------------------------------------------------------------------
(* The loop in one process *)

Restore ==
    /\ Running /\ phase = "restore"
    /\ IF ArtifactRefused
         THEN phase' = "failed" /\ UNCHANGED <<sim, branch>>
         ELSE /\ sim' \in Restored(snap)
              /\ \E start \in Captured(sim') : branch' = [start |-> start]
              /\ phase' = "rebuild"
    /\ UNCHANGED <<traceVars, source, canon, snap, item, step, records, children, ended, oracle>>

\* a change under which the Student action is not held against the artifact's
SourceUnchecked(student) == TRUE
SourceExact(student) == AB => student = source

\* rebuild_flashwam_prefix, for each branch of the loop and once before a fork
Rebuild ==
    /\ Running /\ phase = "rebuild"
    /\ \E kv \in Hashes, student \in Generated :
         /\ branch' = [ start |-> IF Clone = "loop" THEN branch.start ELSE snap,
                        kv |-> kv, canon |-> canon, student |-> student ]
         /\ phase' = CASE Clone = "fork" -> IF ArtifactRefused THEN "failed" ELSE "child"
                       [] Clone = "loop" -> IF SourceExact(student) THEN "begin" ELSE "failed"
    /\ UNCHANGED <<traceVars, source, canon, snap, sim, item, step, records, children, ended, oracle>>

Begin ==
    /\ Running /\ phase = "begin"
    /\ IF FirstOfFamily(item) THEN BeginRecord(FamilyOf(item)) ELSE BeginReplay(FamilyOf(item))
    /\ phase' = "left"
    /\ UNCHANGED <<source, canon, snap, sim, item, step, branch, records, children, ended, oracle>>

\* execute_env_action_chunk: every action asks both planners, then moves; none after success
PlanLeft ==
    /\ Running /\ phase = "left"
    /\ PlanCall("left", sim.pose, <<ActionOf(item, branch.student), step>>)
    /\ phase' = "right"
    /\ UNCHANGED <<source, canon, snap, sim, item, step, branch, records, children, ended, oracle>>

PlanRight ==
    /\ Running /\ phase = "right"
    /\ PlanCall("right", sim.pose, <<ActionOf(item, branch.student), step>>)
    /\ sim' \in IF raised' THEN {sim} ELSE Sims
    /\ step' = step + 1
    /\ phase' = IF step = ChunkSteps \/ sim'.done THEN "finish" ELSE "left"
    /\ UNCHANGED <<source, canon, snap, item, branch, records, children, ended, oracle>>

Finish ==
    /\ Running /\ phase = "finish"
    /\ FinishBranch
    /\ \E end \in Captured(sim) : records' = Append(records, NewRecord(item, branch, end, sim.pose))
    /\ step' = 1
    /\ NextBranch("restore", "judge")
    /\ UNCHANGED <<source, canon, snap, sim, branch, children, ended, oracle>>

-----------------------------------------------------------------------------
(* Children forked at the frame *)

\* a change under which a child's exit status is not looked at
StatusIgnored(here, there) == NextBranch(here, there)
\* waitpid: a child that failed ends the run
AfterFailure(here, there) == phase' = "failed" /\ UNCHANGED item

\* the child executes in its copy of the simulator, with the planner service's answers
ForkChild ==
    /\ Running /\ phase = "child" /\ Clone = "fork"
    /\ \/ \E start \in Captured(sim), end \in Snapshots :
            LET r == NewRecord(item, [branch EXCEPT !.start = start], end, NoRecord)
            IN  /\ children' = [children EXCEPT ![item] = r]
                /\ records' = Append(records, r)
                /\ NextBranch("child", "render")
       \/ AfterFailure("child", "render") /\ UNCHANGED <<children, records>>
    /\ UNCHANGED <<traceVars, source, canon, snap, sim, step, branch, ended, oracle>>

\* a change that renders what the parent shows
ParentAsIs(i) == {sim}
Shown(i) == Restored(records[i].end)

\* render_end_observation_in_parent: show the child's end, then the parent's state again
Render ==
    /\ Running /\ phase = "render"
    /\ \E shown \in Shown(item) : records' = [records EXCEPT ![item].seen = shown.pose]
    /\ sim' \in Restored(snap)
    /\ NextBranch("render", "judge")
    /\ UNCHANGED <<traceVars, source, canon, snap, step, branch, children, ended, oracle>>

-----------------------------------------------------------------------------
(* Children forked before the episode *)

\* each plays the episode on a connection of its own and may see it end before the frame
EarlyChild ==
    /\ Running /\ phase = "child" /\ Clone = "early"
    /\ \/ /\ ~ArtifactRefused
          /\ \E b \in Prefix, end \in Snapshots :
               children' = [children EXCEPT ![item] = NewRecord(item, b, end, end.pose)]
          /\ NextBranch("child", "collect") /\ UNCHANGED ended
       \/ ended' = ended \cup {item} /\ NextBranch("child", "collect") /\ UNCHANGED children
       \/ AfterFailure("child", "collect") /\ UNCHANGED <<children, ended>>
    /\ UNCHANGED <<traceVars, source, canon, snap, sim, step, branch, records, oracle>>

\* finalize_fork_manifest reads the file of every child the manifest names
Collect ==
    /\ Running /\ phase = "collect"
    /\ IF \E i \in 1..Runs : children[i] = NoRecord
         THEN phase' = "failed" /\ UNCHANGED records
         ELSE phase' = "judge" /\ records' = children
    /\ UNCHANGED <<traceVars, source, canon, snap, sim, item, step, branch, children, ended, oracle>>

-----------------------------------------------------------------------------
(* The verdict *)

AllSame(value(_)) == \A i \in 1..Runs : value(i) = value(1)
\* a change that holds every branch against itself
OwnReference(i) == i
FamilyReference(i) == CHOOSE j \in 1..Runs :
    /\ FamilyOf(j) = FamilyOf(i)
    /\ \A k \in 1..Runs : FamilyOf(k) = FamilyOf(i) => j <= k
SameInFamily(value(_)) == \A i \in 1..Runs : value(i) = value(FamilyReference(i))

Core(s) == [pose |-> s.pose, done |-> s.done]

\* compare_simulator_states: near strict, only a qacc may differ; the forks have no near strict
StateExact(near, s) == IF near /\ Clone = "loop" THEN Core(s) ELSE s

\* the causal contract
Contract(near) ==
    LET start(i)   == StateExact(near, records[i].start)
        end(i)     == StateExact(near, records[i].end)
        inputs(i)  == <<records[i].kv, records[i].student>>
        outcome(i) == <<records[i].action, records[i].seen>>
    IN  /\ \A i \in 1..Runs : records[i].kv = records[i].canon /\ records[i].exact
        /\ AllSame(inputs) /\ AllSame(start)
        /\ SameInFamily(outcome) /\ SameInFamily(end)

\* the outputs are written before the loop raises; a fork's verdict does not end the run
Judge ==
    /\ Running /\ phase = "judge"
    /\ oracle' = [strict |-> Contract(FALSE), near |-> Contract(TRUE)]
    /\ phase' = IF Clone = "loop" /\ ~oracle'.near THEN "failed" ELSE "ok"
    /\ UNCHANGED <<traceVars, source, canon, snap, sim, item, step, branch, records, children, ended>>

Next == Restore \/ Rebuild \/ Begin \/ PlanLeft \/ PlanRight \/ Finish
        \/ ForkChild \/ Render \/ EarlyChild \/ Collect \/ Judge

Spec == Init /\ [][Next]_vars

-----------------------------------------------------------------------------
(* Properties *)

TypeOK ==
    /\ TraceTypeOK
    /\ phase \in {"restore", "rebuild", "begin", "left", "right", "finish", "child", "render",
                  "collect", "judge", "ok", "failed"}
    /\ sim \in Sims /\ snap \in Snapshots /\ item \in 1..Runs /\ step \in 1..(ChunkSteps + 1)
    /\ Len(records) <= Runs /\ DOMAIN children = 1..Runs /\ ended \subseteq 1..Runs
    /\ oracle # NoRecord => oracle.strict \in BOOLEAN /\ oracle.near \in BOOLEAN

Go == oracle # NoRecord /\ oracle.near

\* A verdict that the contract holds, even near strict, means one experiment repeated: all
\* branches started alike and were computed from the rollout's own prefix, and those of one
\* family ran the same action through the same planner calls to the same visible end; under
\* one process, whose planner is replayed (2743-2852 of the client, finalize_fork_manifest).
GoMeansRepeated ==
    Go => \A i, j \in 1..Runs :
            LET a == records[i]  b == records[j]
            IN  /\ Core(a.start) = Core(b.start) /\ a.student = b.student /\ a.kv = a.canon
                /\ a.family = b.family =>
                     /\ a.action = b.action /\ Core(a.end) = Core(b.end) /\ a.seen = b.seen
                     /\ Clone = "loop" => a.calls = b.calls
                /\ oracle.strict => a.start = b.start /\ (a.family = b.family => a.end = b.end)

\* A Bridge chunk is run, and compared, only from the state it was computed for: the Student
\* action it corrects is the one generated here (load_branch_intervention, 2640-2653).
BridgeFromSource ==
    Go /\ AB => \A i \in 1..Runs : records[i].student = source

\* In the fork at the frame, the end a branch is judged by is what its own child left, and
\* after all of them the parent shows the intervention state again (render_end_observation_in_parent).
EndsSeenAsLeft ==
    oracle # NoRecord =>
        /\ \A i \in 1..Runs : records[i].seen = records[i].end.pose
        /\ Core(sim) = Core(snap)

\* A record of an earlier run enters a verdict only for a child whose episode ended before the
\* frame: a child that failed stops the run (waitpid at 1287-1300, run_forked_physical_branches).
OldRecordsOnlyOfEnded ==
    oracle # NoRecord => \A i \in 1..Runs : records[i].fresh \/ i \in ended

\* What a verdict rests on, in each way the branches may be run: in one process a Bridge chunk
\* is compared only where it belongs, of forked children the ends are those they left, and a
\* file of an earlier run stands only for an early child that saw its episode end.
BranchesSound ==
    /\ TypeOK /\ TraceFollowed /\ GoMeansRepeated
    /\ Clone = "loop" => BridgeFromSource
    /\ Clone = "fork" /\ ExactRestore => EndsSeenAsLeft
    /\ Clone = "early" => OldRecordsOnlyOfEnded
=============================================================================
