------------------------- MODULE BranchOracleProofs -------------------------
(***************************************************************************)
(* Proofs about PlannerTrace and BranchOracle.  Of the trace: its          *)
(* inductive invariant, and from it that a finished replay made exactly    *)
(* the recorded calls and that a record is changed by nothing but a new    *)
(* recording of its family.  Of the oracle, on top of it: that a verdict   *)
(* means what it says in each of the three ways the branches may be run.   *)
(***************************************************************************)
EXTENDS BranchOracle, TLAPS

\* A call, put at the end of an arm's list, leaves a list of calls per arm.
LEMMA AppendedCalls ==
    ASSUME NEW lists \in Records, NEW arm \in Arms, NEW call \in Calls
    PROVE  [lists EXCEPT ![arm] = Append(@, call)] \in Records
<1>1. Append(lists[arm], call) \in Seq(Calls)
  BY DEF Records
<1> QED BY <1>1 DEF Records

\* An empty list per arm is a record.
LEMMA EmptyRecord == NoCalls \in Records
BY DEF NoCalls, Records

\* The wrapper starts with no branch under way.
LEMMA InitInv == TraceInit => TraceInv
<1> SUFFICES ASSUME TraceInit PROVE TraceInv OBVIOUS
<1>1. TraceTypeOK BY EmptyRecord DEF TraceInit, TraceTypeOK
<1>2. TraceFollowed BY DEF TraceInit, TraceFollowed
<1> QED BY <1>1, <1>2 DEF TraceInv

\* begin_record keeps the invariant.
LEMMA BeginRecordInv ==
    ASSUME TraceInv, NEW n \in Names, BeginRecord(n) PROVE TraceInv'
<1> USE DEF TraceInv
<1>1. trace'.sets \in [Names -> Records \cup {NoTrace}]
  BY EmptyRecord DEF BeginRecord, TraceTypeOK
<1>2. trace'.sets[n] = NoCalls
  BY DEF BeginRecord, TraceTypeOK
<1>3. NoCalls # NoTrace
  BY EmptyRecord, NoTraceAssumption DEF Records, Calls
<1>4. TraceTypeOK'
  BY <1>1, <1>2, <1>3, EmptyRecord DEF BeginRecord, TraceTypeOK, Recorded
<1>5. TraceFollowed'
  BY <1>2 DEF BeginRecord, TraceFollowed, Recorded
<1> QED BY <1>4, <1>5

\* begin_replay keeps the invariant, whether it raises or not.
LEMMA BeginReplayInv ==
    ASSUME TraceInv, NEW n \in Names, BeginReplay(n) PROVE TraceInv'
<1> USE DEF TraceInv
<1>1. CASE Replayable(n)
  <2>1. /\ trace' = [trace EXCEPT !.mode = "replay", !.name = n, !.index = [arm \in Arms |-> 0]]
        /\ made' = NoCalls /\ raised' = FALSE
    BY <1>1 DEF BeginReplay
  <2>2. trace'.sets = trace.sets /\ trace'.mode = "replay" /\ trace'.name = n
        /\ trace'.index = [arm \in Arms |-> 0]
    BY <2>1 DEF TraceTypeOK
  <2>3. TraceTypeOK'
    BY <1>1, <2>1, <2>2, EmptyRecord DEF TraceTypeOK, Replayable, Recorded
  <2>4. \A arm \in Arms : Recorded'[arm] \in Seq(Calls)
    BY <1>1, <2>2 DEF TraceTypeOK, Replayable, Recorded, Records
  <2>5. TraceFollowed'
    BY <2>1, <2>2, <2>4 DEF TraceFollowed, NoCalls
  <2> QED BY <2>3, <2>5
<1>2. CASE ~Replayable(n)
  BY <1>2 DEF BeginReplay, TraceTypeOK, TraceFollowed, Recorded
<1> QED BY <1>1, <1>2

\* A planner call keeps the invariant: asked, answered from the record, or refused.
LEMMA PlanCallInv ==
    ASSUME TraceInv, NEW arm \in Arms, NEW start \in Starts, NEW target \in Targets,
           PlanCall(arm, start, target)
    PROVE  TraceInv'
<1> USE DEF TraceInv
<1>1. CASE raised' = TRUE /\ UNCHANGED <<trace, made>>
  BY <1>1 DEF TraceTypeOK, TraceFollowed, Recorded
<1>0. CASE raised' = TRUE /\ UNCHANGED made /\ trace' = [trace EXCEPT !.index[arm] = @ + 1]
  <2>1. /\ trace'.mode = trace.mode /\ trace'.name = trace.name /\ trace'.sets = trace.sets
        /\ trace'.index \in [Arms -> Nat] /\ trace' = [trace EXCEPT !.index = trace'.index]
    BY <1>0 DEF TraceTypeOK
  <2> QED BY <1>0, <2>1 DEF TraceTypeOK, TraceFollowed, Recorded
<1>2. ASSUME ~raised, NEW result \in Results, Asks(arm),
             Answered(arm, start, target, result),
             trace' = [trace EXCEPT !.index[arm] = @ + 1,
                         !.sets[trace.name][arm] =
                            Append(@, [start |-> start, target |-> target, result |-> result])]
      PROVE  TraceInv'
  <2> DEFINE call == [start |-> start, target |-> target, result |-> result]
  <2>1. call \in Calls BY DEF Calls
  <2>2. trace.mode = "record" /\ trace.name \in Names /\ Recorded \in Records /\ made = Recorded
    BY <1>2 DEF Asks, TraceTypeOK, TraceFollowed, Recorded
  <2>3. trace'.mode = "record" /\ trace'.name = trace.name
        /\ trace'.index = [trace.index EXCEPT ![arm] = @ + 1]
        /\ trace'.sets = [trace.sets EXCEPT ![trace.name] = [Recorded EXCEPT ![arm] = Append(@, call)]]
    BY <1>2, <2>2 DEF TraceTypeOK, Recorded
  <2>4. [Recorded EXCEPT ![arm] = Append(@, call)] \in Records
    BY <2>1, <2>2, AppendedCalls
  <2>5. made' = [made EXCEPT ![arm] = Append(@, call)] /\ raised' = FALSE
    BY <1>2 DEF Answered
  <2>6. Recorded' = [Recorded EXCEPT ![arm] = Append(@, call)]
    BY <2>2, <2>3 DEF TraceTypeOK, Recorded
  <2>7. Recorded' # NoTrace
    BY <2>4, <2>6, NoTraceAssumption DEF Records, Calls
  <2>8. TraceTypeOK'
    <3>1. trace'.index \in [Arms -> Nat] /\ trace'.sets \in [Names -> Records \cup {NoTrace}]
      BY <2>2, <2>3, <2>4 DEF TraceTypeOK
    <3>2. trace' = [trace EXCEPT !.index = trace'.index, !.sets = trace'.sets]
      BY <1>2, <2>2 DEF TraceTypeOK
    <3>3. made' \in Records
      BY <2>2, <2>4, <2>5
    <3> QED BY <2>2, <2>3, <2>5, <2>7, <3>1, <3>2, <3>3 DEF TraceTypeOK
  <2>9. TraceFollowed'
    BY <2>2, <2>3, <2>5, <2>6 DEF TraceFollowed
  <2> QED BY <2>8, <2>9
<1>3. ASSUME ~raised, trace.mode = "replay", Matches(arm, start, target),
             Answered(arm, start, target, Recorded[arm][Following(arm)].result),
             trace' = [trace EXCEPT !.index[arm] = @ + 1]
      PROVE  TraceInv'
  <2> DEFINE i == Following(arm)
             call == [start |-> start, target |-> target, result |-> Recorded[arm][i].result]
  <2>1. trace.name \in Names /\ Recorded \in Records /\ trace.index[arm] \in Nat
    BY <1>3 DEF TraceTypeOK, Recorded
  <2>2. i \in 1..Len(Recorded[arm]) /\ i = Len(made[arm]) + 1
    BY <1>3, <2>1 DEF Matches, Following, TraceFollowed, Records
  <2>3. Recorded[arm][i] \in Calls
    BY <2>1, <2>2 DEF Records
  <2>4. call = Recorded[arm][i]
    BY <1>3, <2>3 DEF Matches, Calls
  <2>5. made' = [made EXCEPT ![arm] = Append(@, call)] /\ raised' = FALSE
    BY <1>3 DEF Answered
  <2>6. made' \in Records
    BY <2>3, <2>4, <2>5, AppendedCalls DEF TraceTypeOK
  <2>7. trace'.mode = "replay" /\ trace'.name = trace.name /\ trace'.sets = trace.sets
        /\ trace'.index = [trace.index EXCEPT ![arm] = @ + 1] /\ Recorded' = Recorded
    BY <1>3 DEF TraceTypeOK, Recorded
  <2>8. TraceTypeOK'
    <3>1. trace'.index \in [Arms -> Nat]
      BY <2>1, <2>7 DEF TraceTypeOK
    <3>2. trace' = [trace EXCEPT !.index = trace'.index]
      BY <1>3 DEF TraceTypeOK
    <3> QED BY <1>3, <2>1, <2>5, <2>6, <2>7, <3>1, <3>2 DEF TraceTypeOK
  <2>9. ASSUME NEW other \in Arms
        PROVE  /\ trace'.index[other] = Len(made'[other])
               /\ Len(made'[other]) <= Len(Recorded[other])
               /\ \A j \in 1..Len(made'[other]) : made'[other][j] = Recorded[other][j]
    <3>1. /\ trace.index[other] = Len(made[other]) /\ Len(made[other]) <= Len(Recorded[other])
          /\ \A j \in 1..Len(made[other]) : made[other][j] = Recorded[other][j]
      BY <1>3 DEF TraceFollowed
    <3>2. made[other] \in Seq(Calls) /\ made[arm] \in Seq(Calls) /\ made \in [Arms -> Seq(Calls)]
      BY DEF TraceTypeOK, Records
    <3>3. CASE other # arm
      BY <2>5, <2>7, <3>1, <3>2, <3>3 DEF TraceTypeOK
    <3>4. CASE other = arm
      <4>1. made'[other] = Append(made[other], call) BY <2>5, <3>2, <3>4
      <4>2. Len(made'[other]) = i BY <2>2, <3>2, <3>4, <4>1
      <4>3. trace'.index[other] = i BY <2>1, <2>7, <3>4 DEF TraceTypeOK, Following
      <4>4. ASSUME NEW j \in 1..i PROVE made'[other][j] = Recorded[other][j]
        BY <2>2, <2>3, <2>4, <3>1, <3>2, <3>4, <4>1
      <4> QED BY <2>2, <3>4, <4>2, <4>3, <4>4
    <3> QED BY <3>3, <3>4
  <2>10. TraceFollowed'
    BY <2>7, <2>9 DEF TraceFollowed
  <2> QED BY <2>8, <2>10
<1> QED BY <1>0, <1>1, <1>2, <1>3 DEF PlanCall

\* finish_branch keeps the invariant, whether it raises or not.
LEMMA FinishBranchInv ==
    ASSUME TraceInv, FinishBranch PROVE TraceInv'
<1> USE DEF TraceInv
<1>1. CASE UNCHANGED <<trace, made>> /\ raised' = TRUE
  BY <1>1 DEF TraceTypeOK, TraceFollowed, Recorded
<1>2. CASE trace' = [trace EXCEPT !.mode = "none"] /\ UNCHANGED <<made, raised>>
  <2>1. trace'.mode = "none" BY <1>2 DEF TraceTypeOK
  <2>2. TraceTypeOK' BY <1>2, <2>1 DEF TraceTypeOK
  <2> QED BY <2>1, <2>2 DEF TraceFollowed
<1> QED BY <1>1, <1>2 DEF FinishBranch

\* Every step, and every stutter, keeps the invariant.
LEMMA NextInv == TraceInv /\ [TraceNext]_traceVars => TraceInv'
<1> SUFFICES ASSUME TraceInv, [TraceNext]_traceVars PROVE TraceInv' OBVIOUS
<1>1. CASE UNCHANGED traceVars
  BY <1>1 DEF TraceInv, traceVars, TraceTypeOK, TraceFollowed, Recorded
<1>2. CASE TraceNext
  BY <1>2, BeginRecordInv, BeginReplayInv, PlanCallInv, FinishBranchInv DEF TraceNext
<1> QED BY <1>1, <1>2

\* The wrapper's state is well formed, and a branch under way follows its record.
THEOREM TraceInvariant == TraceSpec => []TraceInv
BY InitInv, NextInv, PTL DEF TraceSpec

-----------------------------------------------------------------------------
\* Two lists of the same length that agree everywhere are the same list.
LEMMA SameCalls ==
    ASSUME NEW s \in Seq(Calls), NEW t \in Seq(Calls), Len(s) = Len(t),
           \A i \in 1..Len(s) : s[i] = t[i]
    PROVE  s = t
OBVIOUS

\* A replay that is finished has used its record up, so it made the calls on it.
LEMMA UsedUp ==
    ASSUME TraceInv, ~raised, trace.mode = "replay", AllUsed PROVE made = Recorded
<1>1. Recorded \in Records /\ made \in Records
  BY DEF TraceInv, TraceTypeOK, Recorded
<1>2. ASSUME NEW arm \in Arms PROVE made[arm] = Recorded[arm]
  <2>1. made[arm] \in Seq(Calls) /\ Recorded[arm] \in Seq(Calls) BY <1>1 DEF Records
  <2>2. Len(made[arm]) = Len(Recorded[arm]) /\ \A i \in 1..Len(made[arm]) : made[arm][i] = Recorded[arm][i]
    BY DEF AllUsed, TraceInv, TraceFollowed
  <2> QED BY <2>1, <2>2, SameCalls
<1> QED BY <1>1, <1>2 DEF Records

\* Only finish_branch ends a replay, and only when every recorded call was used.
LEMMA ReplayStep ==
    TraceInv /\ [TraceNext]_traceVars =>
        (trace.mode = "replay" /\ trace'.mode = "none" => made = Recorded)
<1> SUFFICES ASSUME TraceInv, [TraceNext]_traceVars, trace.mode = "replay", trace'.mode = "none"
             PROVE  made = Recorded
  OBVIOUS
<1> USE DEF TraceInv
<1>1. FinishBranch
  <2>1. ~UNCHANGED traceVars BY DEF traceVars
  <2>2. \A n \in Names : ~BeginRecord(n) BY DEF BeginRecord
  <2>3. \A n \in Names : ~BeginReplay(n) BY DEF BeginReplay, TraceTypeOK
  <2>4. \A arm \in Arms, start \in Starts, target \in Targets : ~PlanCall(arm, start, target)
    BY DEF PlanCall, Asks, TraceTypeOK
  <2> QED BY <2>1, <2>2, <2>3, <2>4 DEF TraceNext
<1>2. AllUsed /\ ~raised
  BY <1>1 DEF FinishBranch
<1> QED BY <1>2, UsedUp

\* A finished replay made exactly the calls its family's recorded branch made: the same
\* starts, targets and answers, arm by arm, none fewer and none more (finish_branch).
THEOREM ReplayIsExact == TraceSpec => ReplayExact
BY TraceInvariant, ReplayStep, PTL DEF TraceSpec, ReplayExact

\* The record of a family changes only while that family is recorded anew.
LEMMA RecordsStep ==
    TraceInv /\ [TraceNext]_traceVars =>
        \A n \in Names : trace.sets[n] # NoTrace /\ trace'.sets[n] # trace.sets[n] =>
            trace'.mode = "record" /\ trace'.name = n
<1> SUFFICES ASSUME TraceInv, [TraceNext]_traceVars, NEW n \in Names, trace'.sets[n] # trace.sets[n]
             PROVE  trace'.mode = "record" /\ trace'.name = n
  OBVIOUS
<1> USE DEF TraceInv
<1>1. CASE UNCHANGED traceVars BY <1>1 DEF traceVars
<1>2. ASSUME NEW m \in Names, BeginRecord(m) PROVE trace'.mode = "record" /\ trace'.name = n
  BY <1>2 DEF BeginRecord, TraceTypeOK
<1>3. ASSUME NEW m \in Names, BeginReplay(m) PROVE FALSE
  BY <1>3 DEF BeginReplay, TraceTypeOK
<1>4. ASSUME NEW arm \in Arms, NEW start \in Starts, NEW target \in Targets, PlanCall(arm, start, target)
      PROVE  trace'.mode = "record" /\ trace'.name = n
  <2>1. trace'.sets # trace.sets OBVIOUS
  <2>2. trace.mode = "record"
    BY <1>4, <2>1 DEF PlanCall, Asks, TraceTypeOK
  <2>3. trace'.mode = trace.mode /\ trace'.name = trace.name
    BY <1>4 DEF PlanCall, TraceTypeOK
  <2>4. trace.name = n
    <3>1. PICK lists : trace'.sets = [trace.sets EXCEPT ![trace.name] = lists]
      BY <1>4, <2>2 DEF PlanCall, Asks, TraceTypeOK
    <3> QED BY <3>1 DEF TraceTypeOK
  <2> QED BY <2>2, <2>3, <2>4
<1>5. CASE FinishBranch BY <1>5 DEF FinishBranch, TraceTypeOK
<1> QED BY <1>1, <1>2, <1>3, <1>4, <1>5 DEF TraceNext

\* A replay, of this family or another, and the end of a branch leave every record as it was.
THEOREM RecordsAreKept == TraceSpec => RecordsKept
BY TraceInvariant, RecordsStep, PTL DEF TraceSpec, RecordsKept

-----------------------------------------------------------------------------
(* The inductive invariant of the oracle *)

\* what one branch leaves behind
BranchRecords ==
    [ family : {"student", "bridge"}, start : Snapshots, kv : Hashes, canon : Hashes,
      student : Generated, action : Generated \cup {"bridge"}, end : Snapshots,
      seen : Poses \cup {NoRecord}, calls : Records, exact : {TRUE}, fresh : BOOLEAN ]

Phases ==
    CASE Clone = "loop" -> {"restore", "rebuild", "begin", "left", "right", "finish"}
      [] Clone = "fork" -> {"rebuild", "child", "render"}
      [] OTHER          -> {"child", "collect"}

\* Every variable is of its kind, and a chunk has an action left while one is planned.
Typed ==
    /\ TraceInv
    /\ phase \in Phases \cup {"judge", "ok", "failed"}
    /\ source \in Generated \cup {NoArtifact} /\ canon \in Hashes
    /\ snap \in Snapshots /\ sim \in Sims
    /\ item \in 1..Runs /\ step \in 1..(ChunkSteps + 1)
    /\ phase \in {"left", "right"} => step <= ChunkSteps
    /\ phase \in {"restore", "rebuild", "begin"} => step = 1
    /\ records \in Seq(BranchRecords) /\ Len(records) <= Runs
    /\ children \in [1..Runs -> BranchRecords \cup {NoRecord}] /\ ended \subseteq 1..Runs

\* The branch under way has the parts that its next step reads.
Prepared ==
    /\ Clone = "loop" /\ phase = "rebuild" => branch.start \in Snapshots
    /\ \/ phase \in {"begin", "left", "right", "finish"}
       \/ Clone = "fork" /\ phase = "child"
       => branch \in Prefix

\* There is a record for every branch done, in order, under its family's name.
Counted ==
    /\ Clone = "loop" /\ phase \in Phases => Len(records) = item - 1
    /\ Clone = "fork" /\ phase = "rebuild" => Len(records) = 0 /\ item = 1
    /\ Clone = "fork" /\ phase = "child" => Len(records) = item - 1
    /\ phase \in {"render", "judge", "ok"} => Len(records) = Runs
    /\ \A i \in 1..Len(records) : records[i].family = FamilyOf(i)
    /\ \A i \in 1..Runs : children[i] # NoRecord => children[i].family = FamilyOf(i)

\* In one process a branch made the calls on record for its family, from the artifact's action.
OnRecord ==
    Clone = "loop" /\ ~raised =>
        /\ \A i \in 1..Len(records) :
             /\ records[i].calls = trace.sets[FamilyOf(i)]
             /\ AB => records[i].student = source
        /\ phase \in {"begin", "left", "right", "finish"} /\ AB => branch.student = source
        /\ phase \in {"left", "right", "finish"} =>
             /\ trace.mode = IF FirstOfFamily(item) THEN "record" ELSE "replay"
             /\ trace.name = FamilyOf(item)

\* The parent of forked children stays at the frame, and has shown the ends up to item.
AtFrame ==
    Clone = "fork" /\ ExactRestore =>
        /\ Core(sim) = Core(snap)
        /\ phase \in {"render", "judge"} =>
             \A i \in 1..Runs : phase = "judge" \/ i < item => records[i].seen = records[i].end.pose

\* A file of an earlier run is left only where a child has not been, or has seen the end.
Replaced ==
    Clone = "early" =>
        /\ phase \in {"child", "collect"} =>
             \A i \in 1..Runs :
                 (phase = "collect" \/ i < item) /\ children[i] # NoRecord /\ ~children[i].fresh =>
                     i \in ended
        /\ phase = "judge" => \A i \in 1..Runs : records[i].fresh \/ i \in ended

\* There is a verdict only at the end.
Undecided == phase \notin {"ok", "failed"} => oracle = NoRecord

BranchInv ==
    /\ Typed /\ Prepared /\ Counted /\ OnRecord /\ AtFrame /\ Replaced /\ Undecided
    /\ BranchesSound

-----------------------------------------------------------------------------
(* The branches *)

\* There are one or two branches, repeated at least once.
LEMMA BranchCount ==
    /\ \/ Branches = <<"A", "B">> /\ Len(Branches) = 2
       \/ Branches = <<"A">> /\ Len(Branches) = 1
    /\ Runs \in Nat /\ Runs >= Len(Branches) /\ Runs >= 1
<1>1. Branches = <<"A", "B">> \/ Branches = <<"A">> BY DEF Branches
<1>2. Len(<<"A", "B">>) = 2 /\ Len(<<"A">>) = 1 OBVIOUS
<1>3. PICK n \in Nat : n = Repeats /\ n >= 1 BY BranchAssumption
<1>4. CASE Branches = <<"A", "B">>
  <2>1. Runs = 2 * n BY <1>2, <1>3, <1>4 DEF Runs
  <2> QED BY <1>2, <1>3, <1>4, <2>1
<1>5. CASE Branches = <<"A">>
  <2>1. Runs = 1 * n BY <1>2, <1>3, <1>5 DEF Runs
  <2> QED BY <1>2, <1>3, <1>5, <2>1
<1> QED BY <1>1, <1>4, <1>5

\* A branch is of one of the two families.
LEMMA FamilyNames == \A i \in 1..Runs : FamilyOf(i) \in Names
BY BranchAssumption DEF FamilyOf

\* No branch before the first of a family is of that family.
LEMMA FirstIsFirst ==
    ASSUME Clone = "loop", NEW i \in 1..Runs, NEW j \in 1..Runs, FirstOfFamily(i), j < i
    PROVE  FamilyOf(j) # FamilyOf(i)
<1>1. Branches = <<"A", "B">> /\ Len(Branches) = 2
  BY BranchCount DEF Branches
<1>2. i = 2 /\ j = 1
  BY <1>1, BranchCount DEF FirstOfFamily
<1>3. BranchOf(1) = "A" /\ BranchOf(2) = "B"
  <2>1. ((1 - 1) % 2) + 1 = 1 /\ ((2 - 1) % 2) + 1 = 2 OBVIOUS
  <2> QED BY <1>1, <2>1 DEF BranchOf
<1>4. AB
  BY <1>2, <1>3 DEF FirstOfFamily
<1> QED BY <1>2, <1>3, <1>4 DEF FamilyOf

\* The loop goes to the next branch, or from the last one on.
LEMMA NextBranchFacts ==
    ASSUME NEW here, NEW there, item \in 1..Runs, NextBranch(here, there)
    PROVE  /\ item' \in 1..Runs
           /\ \/ item = Runs /\ item' = 1 /\ phase' = there
              \/ item < Runs /\ item' = item + 1 /\ phase' = here
BY BranchCount DEF NextBranch

\* What a branch leaves behind is a record of its family.
LEMMA NewRecordFacts ==
    ASSUME NEW i \in 1..Runs, NEW b \in Prefix, NEW end \in Snapshots,
           NEW seen \in Poses \cup {NoRecord}, TraceTypeOK
    PROVE  /\ NewRecord(i, b, end, seen) \in BranchRecords
           /\ NewRecord(i, b, end, seen).family = FamilyOf(i)
           /\ NewRecord(i, b, end, seen).student = b.student
           /\ NewRecord(i, b, end, seen).calls = made
           /\ NewRecord(i, b, end, seen).fresh = TRUE
<1>1. FamilyOf(i) \in {"student", "bridge"} BY FamilyNames, BranchAssumption
<1>2. ActionOf(i, b.student) \in Generated \cup {"bridge"} BY DEF ActionOf, Prefix
<1>3. made \in Records BY DEF TraceTypeOK
<1> QED BY <1>1, <1>2, <1>3 DEF NewRecord, BranchRecords, Prefix

\* A restored state is a simulator state, and one that is captured is a snapshot.
LEMMA CaptureFacts ==
    /\ \A s \in Snapshots : Restored(s) \subseteq Sims
    /\ \A t \in Sims : Captured(t) \subseteq Snapshots
BY DEF Restored, Captured, Sims, Snapshots

\* Before the verdict the state is as sound as it is well formed.
LEMMA SoundBefore ==
    ASSUME Typed', oracle' = NoRecord PROVE BranchesSound'
<1>1. TypeOK'
  <2>1. phase' \in {"restore", "rebuild", "begin", "left", "right", "finish", "child", "render",
                    "collect", "judge", "ok", "failed"}
    BY DEF Typed, Phases
  <2> QED BY <2>1 DEF Typed, TypeOK, TraceInv
<1> QED BY <1>1 DEF Typed, TraceInv, BranchesSound, GoMeansRepeated, Go, BridgeFromSource,
           EndsSeenAsLeft, OldRecordsOnlyOfEnded
-----------------------------------------------------------------------------
(* The steps *)

\* An index of an empty list is none.
LEMMA NoIndex == \A i \in 1..0 : FALSE
OBVIOUS

\* At the frame nothing is done, and what files there are belong to another run.
LEMMA BranchInitInv == Init => BranchInv
<1> SUFFICES ASSUME Init PROVE BranchInv OBVIOUS
<1>1. TraceInv BY InitInv DEF Init
<1>2. sim \in Sims /\ snap \in Snapshots /\ Core(sim) = Core(snap)
  BY DEF Init, Captured, Sims, Snapshots, Core
<1>3. /\ children \in [1..Runs -> BranchRecords \cup {NoRecord}]
      /\ \A i \in 1..Runs : children[i] # NoRecord => children[i].family = FamilyOf(i)
  <2>1. CASE children = [i \in 1..Runs |-> NoRecord]
    BY <2>1
  <2>2. ASSUME NEW b \in Prefix, NEW end \in Snapshots,
               children = [i \in 1..Runs |-> [NewRecord(i, b, end, end.pose) EXCEPT !.fresh = FALSE]]
        PROVE  /\ children \in [1..Runs -> BranchRecords \cup {NoRecord}]
               /\ \A i \in 1..Runs : children[i] # NoRecord => children[i].family = FamilyOf(i)
    <3>1. ASSUME NEW i \in 1..Runs
          PROVE  /\ [NewRecord(i, b, end, end.pose) EXCEPT !.fresh = FALSE] \in BranchRecords
                 /\ [NewRecord(i, b, end, end.pose) EXCEPT !.fresh = FALSE].family = FamilyOf(i)
      <4>1. end.pose \in Poses \cup {NoRecord} BY DEF Snapshots
      <4>2. PICK r \in BranchRecords : r = NewRecord(i, b, end, end.pose) /\ r.family = FamilyOf(i)
        BY <1>1, <4>1, NewRecordFacts DEF TraceInv
      <4>3. [r EXCEPT !.fresh = FALSE] \in BranchRecords /\ [r EXCEPT !.fresh = FALSE].family = r.family
        BY DEF BranchRecords
      <4> QED BY <4>2, <4>3
    <3> QED BY <2>2, <3>1
  <2> QED BY <2>1, <2>2 DEF Init
<1>4. 1 \in 1..Runs /\ Runs \in Nat BY BranchCount
<1>5. phase \in Phases /\ phase \notin {"judge", "ok", "failed", "left", "right", "render", "collect"}
  BY BranchAssumption DEF Init, Phases
<1>6. records \in Seq(BranchRecords) /\ Len(records) = 0 /\ item = 1 /\ step = 1
  BY DEF Init
<1>7. step \in 1..(ChunkSteps + 1) BY <1>6, BranchAssumption
<1>8. source \in Generated \cup {NoArtifact} BY DEF Init
<1>9. Typed
  BY <1>1, <1>2, <1>3, <1>4, <1>5, <1>6, <1>7, <1>8 DEF Init, Typed
<1>10. Prepared
  BY BranchAssumption DEF Init, Prepared
<1>11. Counted
  BY <1>3, <1>4, <1>5, <1>6 DEF Counted
<1>12. OnRecord
  BY <1>6, BranchAssumption DEF Init, OnRecord
<1>13. AtFrame
  BY <1>2, <1>5 DEF AtFrame
<1>14. Replaced
  BY <1>4, <1>5, <1>6 DEF Replaced
<1>15. Undecided /\ oracle = NoRecord
  BY DEF Init, Undecided
<1>16. TypeOK
  BY <1>9, <1>15 DEF Typed, TypeOK, TraceInv, Phases
<1>17. BranchesSound
  BY <1>9, <1>15, <1>16 DEF Typed, TraceInv, BranchesSound, GoMeansRepeated, Go, BridgeFromSource,
     EndsSeenAsLeft, OldRecordsOnlyOfEnded
<1> QED BY <1>9, <1>10, <1>11, <1>12, <1>13, <1>14, <1>15, <1>17 DEF BranchInv

\* Nothing of the trace is touched: its part of the invariant stands.
LEMMA TraceStands ==
    ASSUME TraceInv, UNCHANGED traceVars PROVE TraceInv'
BY DEF traceVars, TraceInv, TraceTypeOK, TraceFollowed, Recorded

\* restore_simulator_snapshot leaves a state of the simulator and its capture.
LEMMA RestoreInv ==
    ASSUME BranchInv, Restore PROVE BranchInv'
<1> USE DEF BranchInv
<1>1. Clone = "loop" /\ ~raised /\ oracle = NoRecord
  BY BranchAssumption DEF Restore, Running, Typed, Phases, Undecided
<1>2. sim' \in Sims /\ (phase' = "rebuild" => branch'.start \in Snapshots)
      /\ phase' \in {"failed", "rebuild"}
  BY CaptureFacts DEF Restore, Typed
<1>3. TraceInv' BY TraceStands DEF Restore, Typed
<1>4. Typed'
  BY <1>1, <1>2, <1>3 DEF Restore, Typed, Phases
<1>5. Prepared' BY <1>1, <1>2 DEF Prepared
<1>6. Counted'
  BY <1>1, <1>2 DEF Restore, Counted, Phases
<1>7. OnRecord' BY <1>1, <1>2 DEF Restore, OnRecord, traceVars
<1>8. AtFrame' /\ Replaced' /\ Undecided' /\ oracle' = NoRecord
  BY <1>1, <1>2 DEF Restore, AtFrame, Replaced, Undecided
<1> QED BY <1>4, <1>5, <1>6, <1>7, <1>8, SoundBefore

\* rebuild_flashwam_prefix goes on to a branch only with the artifact's own Student action.
LEMMA RebuildInv ==
    ASSUME BranchInv, Rebuild PROVE BranchInv'
<1> USE DEF BranchInv
<1>1. Clone \in {"loop", "fork"} /\ ~raised /\ oracle = NoRecord
  BY BranchAssumption DEF Rebuild, Running, Typed, Phases, Undecided
<1>2. branch' \in Prefix
  BY <1>1 DEF Rebuild, Typed, Prepared, Prefix
<1>3. /\ Clone = "loop" => phase' \in {"begin", "failed"}
      /\ Clone = "fork" => phase' \in {"child", "failed"}
      /\ Clone = "loop" /\ AB /\ phase' = "begin" => branch'.student = source
  BY <1>1 DEF Rebuild, SourceExact
<1>4. TraceInv' BY TraceStands DEF Rebuild, Typed
<1>5. Typed'
  BY <1>1, <1>3, <1>4 DEF Rebuild, Typed, Phases
<1>6. Prepared' BY <1>1, <1>2, <1>3 DEF Prepared
<1>7. Counted'
  BY <1>1, <1>3 DEF Rebuild, Counted, Phases
<1>8. OnRecord' BY <1>1, <1>3 DEF Rebuild, OnRecord, traceVars
<1>9. AtFrame' /\ Replaced' /\ Undecided' /\ oracle' = NoRecord
  BY <1>1, <1>3 DEF Rebuild, AtFrame, Replaced, Undecided
<1> QED BY <1>5, <1>6, <1>7, <1>8, <1>9, SoundBefore
\* A branch begins by recording if it is the first of its family, and by replaying if not.
LEMMA BeginInv ==
    ASSUME BranchInv, Begin PROVE BranchInv'
<1> USE DEF BranchInv
<1>1. Clone = "loop" /\ ~raised /\ oracle = NoRecord /\ step = 1 /\ phase' = "left"
  BY BranchAssumption DEF Begin, Running, Typed, Phases, Undecided
<1>2. FamilyOf(item) \in Names BY FamilyNames DEF Typed
<1>3. TraceInv'
  BY <1>2, BeginRecordInv, BeginReplayInv DEF Begin, Typed
<1>4. 1 <= ChunkSteps BY BranchAssumption
<1>5. Typed'
  BY <1>1, <1>3, <1>4 DEF Begin, Typed, Phases
<1>6. Prepared' BY <1>1 DEF Begin, Prepared
<1>7. Counted'
  BY <1>1 DEF Begin, Counted, Phases
<1>8. OnRecord'
  <2> SUFFICES ASSUME ~raised' PROVE OnRecord' BY DEF OnRecord
  <2>1. Len(records) = item - 1 /\ item \in 1..Runs
    BY <1>1 DEF Begin, Counted, Phases, Typed
  <2>2. AB => branch.student = source
    BY <1>1 DEF Begin, OnRecord
  <2>3. \A i \in 1..Len(records) : records[i].calls = trace.sets[FamilyOf(i)]
                                   /\ (AB => records[i].student = source)
    BY <1>1 DEF OnRecord
  <2>4. CASE FirstOfFamily(item)
    <3>1. BeginRecord(FamilyOf(item)) BY <2>4 DEF Begin
    <3>2. trace'.mode = "record" /\ trace'.name = FamilyOf(item)
          /\ trace'.sets = [trace.sets EXCEPT ![FamilyOf(item)] = NoCalls]
      BY <3>1 DEF BeginRecord
    <3>3. ASSUME NEW i \in 1..Len(records)
          PROVE  trace'.sets[FamilyOf(i)] = trace.sets[FamilyOf(i)]
      <4>1. i \in 1..Runs /\ i < item BY <2>1, BranchCount
      <4>2. FamilyOf(i) # FamilyOf(item) BY <1>1, <2>1, <2>4, <4>1, FirstIsFirst
      <4>3. FamilyOf(i) \in Names BY <4>1, FamilyNames
      <4> QED BY <3>2, <4>2, <4>3 DEF Typed, TraceInv, TraceTypeOK
    <3> QED BY <1>1, <2>2, <2>3, <2>4, <3>2, <3>3 DEF Begin, OnRecord, FirstOfFamily
  <2>5. CASE ~FirstOfFamily(item)
    <3>1. BeginReplay(FamilyOf(item)) /\ ~raised' BY <2>5 DEF Begin
    <3>2. trace' = [trace EXCEPT !.mode = "replay", !.name = FamilyOf(item),
                                 !.index = [arm \in Arms |-> 0]]
      BY <3>1 DEF BeginReplay
    <3>3. trace'.mode = "replay" /\ trace'.name = FamilyOf(item) /\ trace'.sets = trace.sets
      BY <3>2 DEF Typed, TraceInv, TraceTypeOK
    <3> QED BY <1>1, <2>2, <2>3, <2>5, <3>3 DEF Begin, OnRecord, FirstOfFamily
  <2> QED BY <2>4, <2>5
<1>9. AtFrame' /\ Replaced' /\ Undecided' /\ oracle' = NoRecord
  BY <1>1 DEF Begin, AtFrame, Replaced, Undecided
<1> QED BY <1>5, <1>6, <1>7, <1>8, <1>9, SoundBefore

\* A planner call leaves the branch under way as it is, and the records of other families.
LEMMA PlanCallFacts ==
    ASSUME TraceInv, NEW arm, NEW start, NEW target, PlanCall(arm, start, target)
    PROVE  /\ trace'.mode = trace.mode /\ trace'.name = trace.name
           /\ trace.mode # "record" => trace'.sets = trace.sets
           /\ \A n \in Names : n # trace.name => trace'.sets[n] = trace.sets[n]
<1>1. trace.sets \in [Names -> Records \cup {NoTrace}] BY DEF TraceInv, TraceTypeOK
<1>2. CASE UNCHANGED trace BY <1>2
<1>3. CASE trace' = [trace EXCEPT !.index[arm] = @ + 1]
  BY <1>1, <1>3 DEF TraceInv, TraceTypeOK
<1>4. CASE Asks(arm)
  <2>1. trace.mode = "record" BY <1>4 DEF Asks
  <2>2. PICK result \in Results :
          trace' = [trace EXCEPT !.index[arm] = @ + 1,
                      !.sets[trace.name][arm] =
                         Append(@, [start |-> start, target |-> target, result |-> result])]
    BY <1>4 DEF PlanCall
  <2> QED BY <1>1, <2>1, <2>2 DEF TraceInv, TraceTypeOK
<1> QED BY <1>2, <1>3, <1>4 DEF PlanCall

\* While a branch runs, a call it makes goes on record for its own family and no other.
LEMMA CallOnRecord ==
    ASSUME BranchInv, Clone = "loop", ~raised, phase \in {"left", "right"},
           NEW arm, NEW start, NEW target, PlanCall(arm, start, target)
    PROVE  /\ trace'.mode = IF FirstOfFamily(item) THEN "record" ELSE "replay"
           /\ trace'.name = FamilyOf(item)
           /\ \A i \in 1..Len(records) : records[i].calls = trace'.sets[FamilyOf(i)]
<1> USE DEF BranchInv
<1>1. Len(records) = item - 1 /\ item \in 1..Runs
  BY DEF Counted, Phases, Typed
<1>2. /\ trace.mode = IF FirstOfFamily(item) THEN "record" ELSE "replay"
      /\ trace.name = FamilyOf(item)
      /\ \A i \in 1..Len(records) : records[i].calls = trace.sets[FamilyOf(i)]
  BY DEF OnRecord
<1>3. /\ trace'.mode = trace.mode /\ trace'.name = trace.name
      /\ trace.mode # "record" => trace'.sets = trace.sets
      /\ \A n \in Names : n # trace.name => trace'.sets[n] = trace.sets[n]
  BY PlanCallFacts DEF Typed
<1>4. ASSUME NEW i \in 1..Len(records) PROVE trace'.sets[FamilyOf(i)] = trace.sets[FamilyOf(i)]
  <2>1. i \in 1..Runs /\ i < item BY <1>1, BranchCount
  <2>2. FamilyOf(i) \in Names BY <2>1, FamilyNames
  <2>3. CASE FirstOfFamily(item)
    <3>1. FamilyOf(i) # FamilyOf(item) BY <1>1, <2>1, <2>3, FirstIsFirst
    <3> QED BY <1>2, <1>3, <2>2, <3>1
  <2>4. CASE ~FirstOfFamily(item) BY <1>2, <1>3, <2>4
  <2> QED BY <2>3, <2>4
<1> QED BY <1>2, <1>3, <1>4
\* The left arm's planner is asked; the right one's follows.
LEMMA PlanLeftInv ==
    ASSUME BranchInv, PlanLeft PROVE BranchInv'
<1> USE DEF BranchInv
<1>1. Clone = "loop" /\ ~raised /\ phase = "left" /\ oracle = NoRecord /\ phase' = "right"
  BY BranchAssumption DEF PlanLeft, Running, Typed, Phases, Undecided
<1>2. "left" \in Arms /\ sim.pose \in Starts /\ <<ActionOf(item, branch.student), step>> \in Targets
  <2>1. branch.student \in Generated BY <1>1 DEF Prepared, Prefix
  <2>2. step \in 1..ChunkSteps BY <1>1, BranchAssumption DEF Typed
  <2> QED BY <2>1, <2>2, BranchAssumption DEF Typed, Sims, ActionOf
<1>3. PlanCall("left", sim.pose, <<ActionOf(item, branch.student), step>>) BY DEF PlanLeft
<1>4. TraceInv'
  BY <1>2, <1>3, PlanCallInv DEF Typed
<1>5. Typed'
  BY <1>1, <1>4 DEF PlanLeft, Typed, Phases
<1>6. Prepared' BY <1>1 DEF PlanLeft, Prepared
<1>7. Counted'
  BY <1>1 DEF PlanLeft, Counted, Phases
<1>8. OnRecord'
  BY <1>1, <1>3, CallOnRecord DEF PlanLeft, OnRecord, FirstOfFamily
<1>9. AtFrame' /\ Replaced' /\ Undecided' /\ oracle' = NoRecord
  BY <1>1 DEF PlanLeft, AtFrame, Replaced, Undecided
<1> QED BY <1>5, <1>6, <1>7, <1>8, <1>9, SoundBefore

\* After the right arm's planner the robot moves, to the next action or the chunk's end.
LEMMA PlanRightInv ==
    ASSUME BranchInv, PlanRight PROVE BranchInv'
<1> USE DEF BranchInv
<1>1. Clone = "loop" /\ ~raised /\ phase = "right" /\ oracle = NoRecord
      /\ phase' \in {"left", "finish"}
  BY BranchAssumption DEF PlanRight, Running, Typed, Phases, Undecided
<1>2. step \in 1..ChunkSteps /\ ChunkSteps \in Nat
  BY <1>1, BranchAssumption DEF Typed
<1>3. "right" \in Arms /\ sim.pose \in Starts /\ <<ActionOf(item, branch.student), step>> \in Targets
  <2>1. branch.student \in Generated BY <1>1 DEF Prepared, Prefix
  <2> QED BY <1>2, <2>1, BranchAssumption DEF Typed, Sims, ActionOf
<1>4. PlanCall("right", sim.pose, <<ActionOf(item, branch.student), step>>) BY DEF PlanRight
<1>5. TraceInv'
  BY <1>3, <1>4, PlanCallInv DEF Typed
<1>6. step' \in 1..(ChunkSteps + 1) /\ (phase' = "left" => step' <= ChunkSteps)
  BY <1>2 DEF PlanRight
<1>7. sim' \in Sims BY DEF PlanRight, Typed
<1>8. Typed'
  BY <1>1, <1>5, <1>6, <1>7 DEF PlanRight, Typed, Phases
<1>9. Prepared' BY <1>1 DEF PlanRight, Prepared
<1>10. Counted'
  BY <1>1 DEF PlanRight, Counted, Phases
<1>11. OnRecord'
  BY <1>1, <1>4, CallOnRecord DEF PlanRight, OnRecord, FirstOfFamily
<1>12. AtFrame' /\ Replaced' /\ Undecided' /\ oracle' = NoRecord
  BY <1>1 DEF PlanRight, AtFrame, Replaced, Undecided
<1> QED BY <1>8, <1>9, <1>10, <1>11, <1>12, SoundBefore

\* finish_branch, and the record of the branch.
LEMMA FinishInv ==
    ASSUME BranchInv, Finish PROVE BranchInv'
<1> USE DEF BranchInv
<1>1. Clone = "loop" /\ ~raised /\ phase = "finish" /\ oracle = NoRecord
  BY BranchAssumption DEF Finish, Running, Typed, Phases, Undecided
<1>2. /\ item' \in 1..Runs
      /\ \/ item = Runs /\ item' = 1 /\ phase' = "judge"
         \/ item < Runs /\ item' = item + 1 /\ phase' = "restore"
  BY NextBranchFacts DEF Finish, Typed
<1>3. TraceInv' BY FinishBranchInv DEF Finish, Typed
<1>4. Len(records) = item - 1 /\ item \in 1..Runs /\ Runs \in Nat
  BY <1>1, BranchCount DEF Counted, Phases, Typed
<1>5. PICK r \in BranchRecords :
        /\ records' = Append(records, r) /\ r.family = FamilyOf(item)
        /\ r.student = branch.student /\ r.calls = made
  <2>1. branch \in Prefix BY <1>1 DEF Prepared
  <2>2. sim.pose \in Poses \cup {NoRecord} /\ Captured(sim) \subseteq Snapshots
    BY CaptureFacts DEF Typed, Sims
  <2>3. PICK end \in Captured(sim) : records' = Append(records, NewRecord(item, branch, end, sim.pose))
    BY DEF Finish
  <2> QED BY <1>4, <2>1, <2>2, <2>3, NewRecordFacts DEF Typed, TraceInv
<1>6. /\ records' \in Seq(BranchRecords) /\ Len(records') = item
      /\ \A i \in 1..Len(records) : records'[i] = records[i]
      /\ records'[item] = r
  BY <1>4, <1>5 DEF Typed
<1>7. step' = 1 /\ step' \in 1..(ChunkSteps + 1) BY BranchAssumption DEF Finish
<1>8. Typed'
  BY <1>1, <1>2, <1>3, <1>4, <1>6, <1>7 DEF Finish, Typed, Phases
<1>9. Prepared' BY <1>1, <1>2 DEF Prepared
<1>10. Counted'
  <2>1. \A i \in 1..Len(records') : records'[i].family = FamilyOf(i)
    BY <1>4, <1>5, <1>6 DEF Counted
  <2>2. \/ phase' = "restore" /\ Len(records') = item' - 1
        \/ phase' = "judge" /\ Len(records') = Runs
    <3>1. CASE item = Runs
      <4>1. phase' = "judge" BY <1>2, <1>4, <3>1
      <4> QED BY <1>6, <3>1, <4>1
    <3>2. CASE item < Runs
      <4>1. item' = item + 1 /\ phase' = "restore" BY <1>2, <1>4, <3>2
      <4>2. (item + 1) - 1 = item BY <1>4
      <4> QED BY <1>6, <4>1, <4>2
    <3> QED BY <1>2, <3>1, <3>2
  <2> QED BY <1>1, <1>2, <2>1, <2>2 DEF Finish, Counted, Phases
<1>11. OnRecord'
  <2> SUFFICES ASSUME ~raised' PROVE OnRecord' BY DEF OnRecord
  <2>1. /\ trace.mode = IF FirstOfFamily(item) THEN "record" ELSE "replay"
        /\ trace.name = FamilyOf(item)
        /\ AB => branch.student = source
    BY <1>1 DEF OnRecord
  <2>2. /\ trace' = [trace EXCEPT !.mode = "none"] /\ (trace.mode = "replay" => AllUsed)
        /\ ~raised
    BY DEF Finish, FinishBranch
  <2>3. made = Recorded
    BY <2>1, <2>2, UsedUp DEF Typed, TraceInv, TraceFollowed
  <2>4. trace'.sets = trace.sets BY <2>2 DEF Typed, TraceInv, TraceTypeOK
  <2>5. ASSUME NEW i \in 1..Len(records')
        PROVE  records'[i].calls = trace.sets[FamilyOf(i)] /\ (AB => records'[i].student = source)
    <3>1. CASE i = item BY <1>5, <1>6, <2>1, <2>3, <3>1 DEF Recorded
    <3>2. CASE i # item
      <4>1. i \in 1..Len(records) BY <1>4, <1>6, <3>2
      <4> QED BY <1>1, <1>6, <4>1 DEF OnRecord
    <3> QED BY <3>1, <3>2
  <2> QED BY <1>1, <1>2, <2>4, <2>5 DEF Finish, OnRecord
<1>12. AtFrame' /\ Replaced' /\ Undecided' /\ oracle' = NoRecord
  BY <1>1 DEF Finish, AtFrame, Replaced, Undecided
<1> QED BY <1>8, <1>9, <1>10, <1>11, <1>12, SoundBefore
\* A child forked at the frame leaves its record, or ends the run.
LEMMA ForkChildInv ==
    ASSUME BranchInv, ForkChild PROVE BranchInv'
<1> USE DEF BranchInv
<1>1. Clone = "fork" /\ phase = "child" /\ oracle = NoRecord /\ branch \in Prefix
  BY DEF ForkChild, Typed, Prepared, Undecided
<1>2. TraceInv' BY TraceStands DEF ForkChild, Typed
<1>3. Len(records) = item - 1 /\ item \in 1..Runs /\ Runs \in Nat
  BY <1>1, BranchCount DEF Counted, Typed
<1>4. CASE AfterFailure("child", "render") /\ UNCHANGED <<children, records>>
  <2>1. phase' = "failed" /\ item' = item BY <1>4 DEF AfterFailure
  <2>2. Typed'
    BY <1>1, <1>2, <1>4, <2>1 DEF ForkChild, Typed
  <2>3. Prepared' /\ Counted' /\ OnRecord' /\ AtFrame' /\ Replaced' /\ Undecided' /\ oracle' = NoRecord
    BY <1>1, <1>4, <2>1 DEF ForkChild, Prepared, Counted, OnRecord, AtFrame, Replaced, Undecided, Phases
  <2> QED BY <2>2, <2>3, SoundBefore
<1>5. ASSUME NEW start \in Captured(sim), NEW end \in Snapshots,
             children' = [children EXCEPT ![item] =
                            NewRecord(item, [branch EXCEPT !.start = start], end, NoRecord)],
             records' = Append(records,
                            NewRecord(item, [branch EXCEPT !.start = start], end, NoRecord)),
             NextBranch("child", "render")
      PROVE  BranchInv'
  <2>1. PICK r \in BranchRecords :
          /\ r = NewRecord(item, [branch EXCEPT !.start = start], end, NoRecord)
          /\ r.family = FamilyOf(item)
    <3>1. start \in Snapshots BY CaptureFacts DEF Typed
    <3>2. [branch EXCEPT !.start = start] \in Prefix BY <1>1, <3>1 DEF Prefix
    <3>3. NoRecord \in Poses \cup {NoRecord} OBVIOUS
    <3>4. TraceTypeOK BY DEF Typed, TraceInv
    <3> HIDE DEF BranchInv
    <3> QED BY <1>3, <3>2, <3>3, <3>4, NewRecordFacts
  <2>2. children' = [children EXCEPT ![item] = r] /\ records' = Append(records, r)
    BY <1>5, <2>1
  <2>3. /\ records' \in Seq(BranchRecords) /\ Len(records') = item
        /\ \A i \in 1..Len(records) : records'[i] = records[i]
        /\ records'[item] = r
    BY <1>3, <2>2 DEF Typed
  <2>4. /\ item' \in 1..Runs
        /\ \/ item = Runs /\ item' = 1 /\ phase' = "render"
           \/ item < Runs /\ item' = item + 1 /\ phase' = "child"
    BY <1>3, <1>5, NextBranchFacts
  <2>5. Typed'
    BY <1>1, <1>2, <1>3, <2>2, <2>3, <2>4 DEF ForkChild, Typed, Phases
  <2>6. Prepared' BY <1>1, <2>4 DEF ForkChild, Prepared
  <2>7. Counted'
    <3>1. \A i \in 1..Len(records') : records'[i].family = FamilyOf(i)
      BY <1>3, <2>1, <2>3 DEF Counted
    <3>2. \A i \in 1..Runs : children'[i] # NoRecord => children'[i].family = FamilyOf(i)
      BY <1>3, <2>1, <2>2 DEF Typed, Counted
    <3>3. \/ phase' = "child" /\ Len(records') = item' - 1
          \/ phase' = "render" /\ Len(records') = Runs
      <4>1. CASE item = Runs
        <5>1. phase' = "render" BY <1>3, <2>4, <4>1
        <5> QED BY <2>3, <4>1, <5>1
      <4>2. CASE item < Runs
        <5>1. item' = item + 1 /\ phase' = "child" BY <1>3, <2>4, <4>2
        <5>2. (item + 1) - 1 = item BY <1>3
        <5> QED BY <2>3, <5>1, <5>2
      <4> QED BY <2>4, <4>1, <4>2
    <3> QED BY <1>1, <3>1, <3>2, <3>3 DEF ForkChild, Counted, Phases
  <2>8. AtFrame'
    <3>1. phase' = "render" => item' = 1 BY <2>4
    <3>2. \A i \in 1..Runs : ~(i < 1) BY <1>3
    <3>3. ExactRestore => Core(sim') = Core(snap') BY <1>1 DEF ForkChild, AtFrame, Core
    <3> QED BY <2>4, <3>1, <3>2, <3>3 DEF AtFrame, Core
  <2>9. OnRecord' /\ Replaced' /\ Undecided' /\ oracle' = NoRecord
    BY <1>1, <2>4 DEF ForkChild, OnRecord, Replaced, Undecided
  <2> QED BY <2>5, <2>6, <2>7, <2>8, <2>9, SoundBefore
<1> QED BY <1>4, <1>5 DEF ForkChild

\* The parent shows what the child left, and its own frame after it.
LEMMA RenderInv ==
    ASSUME BranchInv, Render PROVE BranchInv'
<1> USE DEF BranchInv
<1>1. Clone = "fork" /\ phase = "render" /\ oracle = NoRecord
  BY BranchAssumption DEF Render, Running, Typed, Phases, Undecided
<1>2. TraceInv' BY TraceStands DEF Render, Typed
<1>3. Len(records) = Runs /\ item \in 1..Runs /\ Runs \in Nat /\ records \in [1..Runs -> BranchRecords]
  BY <1>1, BranchCount DEF Counted, Typed
<1>4. PICK shown \in Restored(records[item].end) : records' = [records EXCEPT ![item].seen = shown.pose]
  BY DEF Render, Shown
<1>5. shown \in Sims /\ (ExactRestore => shown.pose = records[item].end.pose)
  <2>1. records[item].end \in Snapshots BY <1>3 DEF BranchRecords
  <2> QED BY <2>1, CaptureFacts DEF Restored
<1>6. ASSUME NEW i \in 1..Runs
      PROVE  /\ records'[i] \in BranchRecords /\ records'[i].end = records[i].end
             /\ records'[i].family = records[i].family
             /\ records'[i].seen = IF i = item THEN shown.pose ELSE records[i].seen
  <2>1. records[i] \in BranchRecords BY <1>3
  <2>2. shown.pose \in Poses \cup {NoRecord} BY <1>5 DEF Sims
  <2>3. CASE i = item
    <3>1. records'[i] = [records[i] EXCEPT !.seen = shown.pose] BY <1>3, <1>4, <2>3
    <3> QED BY <2>1, <2>2, <2>3, <3>1 DEF BranchRecords
  <2>4. CASE i # item BY <1>3, <1>4, <2>1, <2>4
  <2> QED BY <2>3, <2>4
<1>7. DOMAIN records' = 1..Runs /\ records' \in [1..Runs -> BranchRecords]
  <2>1. DOMAIN records' = 1..Runs /\ records' = [i \in 1..Runs |-> records'[i]] BY <1>3, <1>4
  <2> QED BY <1>6, <2>1
<1>8. records' \in Seq(BranchRecords) /\ Len(records') = Runs
  BY <1>3, <1>7
<1>9. /\ item' \in 1..Runs
      /\ \/ item = Runs /\ item' = 1 /\ phase' = "judge"
         \/ item < Runs /\ item' = item + 1 /\ phase' = "render"
  BY <1>3, NextBranchFacts DEF Render
<1>10. sim' \in Restored(snap) /\ sim' \in Sims BY CaptureFacts DEF Render, Typed
<1>11. Typed'
  BY <1>1, <1>2, <1>3, <1>8, <1>9, <1>10 DEF Render, Typed, Phases
<1>12. Prepared' BY <1>1, <1>9 DEF Prepared
<1>13. Counted'
  <2>1. \A i \in 1..Runs : records'[i].family = FamilyOf(i)
    BY <1>3, <1>6 DEF Counted
  <2>2. \A i \in 1..Runs : children'[i] # NoRecord => children'[i].family = FamilyOf(i)
    BY DEF Render, Counted
  <2> QED BY <1>1, <1>8, <1>9, <2>1, <2>2 DEF Counted
<1>14. AtFrame'
  <2> SUFFICES ASSUME ExactRestore PROVE AtFrame' BY DEF AtFrame
  <2>1. Core(sim') = Core(snap') BY <1>10 DEF Render, Restored, Core
  <2>2. ASSUME NEW i \in 1..Runs, phase' = "judge" \/ i < item'
        PROVE  records'[i].seen = records'[i].end.pose
    <3>1. CASE i = item BY <1>5, <1>6, <3>1
    <3>2. CASE i # item
      <4>1. i < item BY <1>3, <1>9, <2>2, <3>2
      <4> QED BY <1>1, <1>6, <3>2, <4>1 DEF AtFrame
    <3> QED BY <3>1, <3>2
  <2> QED BY <2>1, <2>2 DEF AtFrame
<1>15. OnRecord' /\ Replaced' /\ Undecided' /\ oracle' = NoRecord
  BY <1>1, <1>9 DEF Render, OnRecord, Replaced, Undecided
<1> QED BY <1>11, <1>12, <1>13, <1>14, <1>15, SoundBefore
\* A child of the whole episode leaves its record, sees the episode end, or ends the run.
LEMMA EarlyChildInv ==
    ASSUME BranchInv, EarlyChild PROVE BranchInv'
<1> USE DEF BranchInv
<1>1. Clone = "early" /\ phase = "child" /\ oracle = NoRecord
  BY DEF EarlyChild, Undecided
<1>2. TraceInv' BY TraceStands DEF EarlyChild, Typed
<1>3. item \in 1..Runs /\ Runs \in Nat BY BranchCount DEF Typed
<1>4. CASE AfterFailure("child", "collect") /\ UNCHANGED <<children, ended>>
  <2>1. phase' = "failed" /\ item' = item BY <1>4 DEF AfterFailure
  <2>2. Typed'
    BY <1>1, <1>2, <1>4, <2>1 DEF EarlyChild, Typed
  <2>3. Prepared' /\ Counted' /\ OnRecord' /\ AtFrame' /\ Replaced' /\ Undecided' /\ oracle' = NoRecord
    BY <1>1, <1>4, <2>1 DEF EarlyChild, Prepared, Counted, OnRecord, AtFrame, Replaced, Undecided, Phases
  <2> QED BY <2>2, <2>3, SoundBefore
<1>5. ASSUME NextBranch("child", "collect"),
             children' \in [1..Runs -> BranchRecords \cup {NoRecord}],
             ended \subseteq ended', ended' \subseteq 1..Runs,
             \A i \in 1..Runs : i # item => children'[i] = children[i],
             children'[item] # NoRecord => children'[item].family = FamilyOf(item),
             item \in ended' \/ children'[item].fresh
      PROVE  BranchInv'
  <2>1. /\ item' \in 1..Runs
        /\ \/ item = Runs /\ item' = 1 /\ phase' = "collect"
           \/ item < Runs /\ item' = item + 1 /\ phase' = "child"
    BY <1>3, <1>5, NextBranchFacts
  <2>2. Typed'
    BY <1>1, <1>2, <1>5, <2>1 DEF EarlyChild, Typed, Phases
  <2>3. Counted'
    <3>1. \A i \in 1..Runs : children'[i] # NoRecord => children'[i].family = FamilyOf(i)
      BY <1>5 DEF Counted
    <3> QED BY <1>1, <2>1, <3>1 DEF EarlyChild, Counted
  <2>4. Replaced'
    <3>1. ASSUME NEW i \in 1..Runs, phase' = "collect" \/ i < item', children'[i] # NoRecord,
                 ~children'[i].fresh
          PROVE  i \in ended'
      <4>1. CASE i = item BY <1>5, <3>1, <4>1
      <4>2. CASE i # item
        <5>1. i < item BY <1>3, <2>1, <3>1, <4>2
        <5>2. children'[i] = children[i] BY <1>5, <4>2
        <5> QED BY <1>1, <1>5, <3>1, <5>1, <5>2 DEF Replaced
      <4> QED BY <4>1, <4>2
    <3> QED BY <2>1, <3>1 DEF Replaced
  <2>5. Prepared' /\ OnRecord' /\ AtFrame' /\ Undecided' /\ oracle' = NoRecord
    BY <1>1, <2>1 DEF EarlyChild, Prepared, OnRecord, AtFrame, Undecided
  <2> QED BY <2>2, <2>3, <2>4, <2>5, SoundBefore
<1>6. ASSUME NEW b \in Prefix, NEW end \in Snapshots,
             children' = [children EXCEPT ![item] = NewRecord(item, b, end, end.pose)],
             NextBranch("child", "collect"), UNCHANGED ended
      PROVE  BranchInv'
  <2>1. end.pose \in Poses \cup {NoRecord} /\ TraceTypeOK BY DEF Snapshots, Typed, TraceInv
  <2>2. PICK r \in BranchRecords :
          r = NewRecord(item, b, end, end.pose) /\ r.family = FamilyOf(item) /\ r.fresh = TRUE
    <3> HIDE DEF BranchInv
    <3> QED BY <1>3, <2>1, NewRecordFacts
  <2>3. children' = [children EXCEPT ![item] = r] BY <1>6, <2>2
  <2>4. /\ children' \in [1..Runs -> BranchRecords \cup {NoRecord}] /\ children'[item] = r
        /\ \A i \in 1..Runs : i # item => children'[i] = children[i]
    BY <1>3, <2>3 DEF Typed
  <2>5. ended' \subseteq 1..Runs /\ ended \subseteq ended' BY <1>6 DEF Typed
  <2> QED BY <1>5, <1>6, <2>2, <2>4, <2>5
<1>7. CASE ended' = ended \cup {item} /\ NextBranch("child", "collect") /\ UNCHANGED children
  <2>1. ended' \subseteq 1..Runs /\ ended \subseteq ended' /\ item \in ended' BY <1>3, <1>7 DEF Typed
  <2>2. /\ children' \in [1..Runs -> BranchRecords \cup {NoRecord}]
        /\ \A i \in 1..Runs : i # item => children'[i] = children[i]
        /\ children'[item] # NoRecord => children'[item].family = FamilyOf(item)
    BY <1>3, <1>7 DEF Typed, Counted
  <2> QED BY <1>5, <1>7, <2>1, <2>2
<1> QED BY <1>4, <1>6, <1>7 DEF EarlyChild

\* finalize_fork_manifest takes the files as they are, if there is one for every child.
LEMMA CollectInv ==
    ASSUME BranchInv, Collect PROVE BranchInv'
<1> USE DEF BranchInv
<1>1. Clone = "early" /\ phase = "collect" /\ oracle = NoRecord
  BY BranchAssumption DEF Collect, Running, Typed, Phases, Undecided
<1>2. TraceInv' BY TraceStands DEF Collect, Typed
<1>3. Runs \in Nat BY BranchCount
<1>4. CASE phase' = "failed" /\ UNCHANGED records
  <2>1. Typed' BY <1>1, <1>2, <1>4 DEF Collect, Typed
  <2>2. Prepared' /\ Counted' /\ OnRecord' /\ AtFrame' /\ Replaced' /\ Undecided' /\ oracle' = NoRecord
    BY <1>1, <1>4 DEF Collect, Prepared, Counted, OnRecord, AtFrame, Replaced, Undecided, Phases
  <2> QED BY <2>1, <2>2, SoundBefore
<1>5. CASE phase' = "judge" /\ records' = children /\ \A i \in 1..Runs : children[i] # NoRecord
  <2>1. children \in [1..Runs -> BranchRecords] BY <1>5 DEF Typed
  <2>2. records' \in Seq(BranchRecords) /\ Len(records') = Runs BY <1>3, <1>5, <2>1
  <2>3. Typed' BY <1>1, <1>2, <1>3, <1>5, <2>2 DEF Collect, Typed
  <2>4. Counted'
    BY <1>1, <1>5, <2>2 DEF Collect, Counted, Phases
  <2>5. Replaced' BY <1>1, <1>5, <2>1 DEF Collect, Replaced
  <2>6. Prepared' /\ OnRecord' /\ AtFrame' /\ Undecided' /\ oracle' = NoRecord
    BY <1>1, <1>5 DEF Collect, Prepared, OnRecord, AtFrame, Undecided
  <2> QED BY <2>3, <2>4, <2>5, <2>6, SoundBefore
<1> QED BY <1>4, <1>5 DEF Collect
-----------------------------------------------------------------------------
(* The verdict *)

\* the first branch of a family
FirstOf(f) == CHOOSE j \in 1..Runs :
    /\ FamilyOf(j) = f
    /\ \A k \in 1..Runs : FamilyOf(k) = f => j <= k

\* Branches of one family are held against the same branch.
LEMMA SameReference ==
    ASSUME NEW i \in 1..Runs, NEW j \in 1..Runs, FamilyOf(i) = FamilyOf(j)
    PROVE  FamilyReference(i) = FamilyReference(j)
<1>1. FamilyReference(i) = FirstOf(FamilyOf(i)) BY DEF FamilyReference, FirstOf
<1>2. FamilyReference(j) = FirstOf(FamilyOf(j)) BY DEF FamilyReference, FirstOf
<1> QED BY <1>1, <1>2

\* What the contract says of any two branches.
LEMMA ContractFacts ==
    ASSUME NEW near \in BOOLEAN, Contract(near), NEW i \in 1..Runs, NEW j \in 1..Runs
    PROVE  /\ records[i].kv = records[i].canon /\ records[i].student = records[j].student
           /\ StateExact(near, records[i].start) = StateExact(near, records[j].start)
           /\ FamilyOf(i) = FamilyOf(j) =>
                /\ records[i].action = records[j].action /\ records[i].seen = records[j].seen
                /\ StateExact(near, records[i].end) = StateExact(near, records[j].end)
<1>1. records[i].kv = records[i].canon
  BY DEF Contract
<1>2. /\ <<records[i].kv, records[i].student>> = <<records[1].kv, records[1].student>>
      /\ <<records[j].kv, records[j].student>> = <<records[1].kv, records[1].student>>
  BY DEF Contract, AllSame
<1>3. /\ StateExact(near, records[i].start) = StateExact(near, records[1].start)
      /\ StateExact(near, records[j].start) = StateExact(near, records[1].start)
  BY DEF Contract, AllSame
<1>4. ASSUME FamilyOf(i) = FamilyOf(j)
      PROVE  /\ records[i].action = records[j].action /\ records[i].seen = records[j].seen
             /\ StateExact(near, records[i].end) = StateExact(near, records[j].end)
  <2> DEFINE first == FamilyReference(i)
  <2>1. FamilyReference(j) = first BY <1>4, SameReference
  <2>2. /\ <<records[i].action, records[i].seen>> = <<records[first].action, records[first].seen>>
        /\ <<records[j].action, records[j].seen>> = <<records[first].action, records[first].seen>>
    BY <2>1 DEF Contract, SameInFamily
  <2>3. /\ StateExact(near, records[i].end) = StateExact(near, records[first].end)
        /\ StateExact(near, records[j].end) = StateExact(near, records[first].end)
    BY <2>1 DEF Contract, SameInFamily
  <2> QED BY <2>2, <2>3
<1> QED BY <1>1, <1>2, <1>3, <1>4

\* Two states that are the same strictly are the same as far as a snapshot is compared at all.
LEMMA CoreOfExact ==
    ASSUME NEW near \in BOOLEAN, NEW s, NEW t, StateExact(near, s) = StateExact(near, t)
    PROVE  Core(s) = Core(t)
<1>1. CASE near /\ Clone = "loop" BY <1>1 DEF StateExact
<1>2. CASE ~(near /\ Clone = "loop") BY <1>2 DEF StateExact
<1> QED BY <1>1, <1>2

\* A verdict is as sound as the branches it compares.
LEMMA JudgeInv ==
    ASSUME BranchInv, Judge PROVE BranchInv'
<1> USE DEF BranchInv
<1>1. ~raised /\ phase = "judge" /\ Len(records) = Runs /\ Runs \in Nat /\ phase' \in {"ok", "failed"}
  BY BranchCount DEF Judge, Running, Counted
<1>2. TraceInv' BY TraceStands DEF Judge, Typed
<1>3. Typed' BY <1>1, <1>2 DEF Judge, Typed, Phases
<1>4. Prepared' /\ Counted' /\ AtFrame' /\ Replaced' /\ Undecided'
  BY <1>1, BranchAssumption DEF Judge, Prepared, Counted, AtFrame, Replaced, Undecided, Phases
<1>5. OnRecord' BY <1>1 DEF Judge, OnRecord, traceVars
<1>6. /\ oracle'.strict \in BOOLEAN /\ oracle'.near \in BOOLEAN
      /\ oracle'.strict => Contract(FALSE)
      /\ oracle'.near => Contract(TRUE)
  <2>1. Contract(FALSE) \in BOOLEAN /\ Contract(TRUE) \in BOOLEAN BY DEF Contract
  <2>2. oracle'.strict = Contract(FALSE) /\ oracle'.near = Contract(TRUE) BY DEF Judge
  <2> QED BY <2>1, <2>2
<1>7. TypeOK'
  BY <1>3, <1>6 DEF Typed, TypeOK, TraceInv, Phases
<1>8. records \in [1..Runs -> BranchRecords] BY <1>1 DEF Typed
<1>9. GoMeansRepeated'
  <2> SUFFICES ASSUME oracle'.near, NEW i \in 1..Runs, NEW j \in 1..Runs
               PROVE  LET a == records[i]  b == records[j]
                      IN  /\ Core(a.start) = Core(b.start) /\ a.student = b.student /\ a.kv = a.canon
                          /\ a.family = b.family =>
                               /\ a.action = b.action /\ Core(a.end) = Core(b.end) /\ a.seen = b.seen
                               /\ Clone = "loop" => a.calls = b.calls
                          /\ oracle'.strict => a.start = b.start /\ (a.family = b.family => a.end = b.end)
    BY DEF Judge, GoMeansRepeated, Go
  <2>1. records[i].family = FamilyOf(i) /\ records[j].family = FamilyOf(j)
    BY <1>1 DEF Counted
  <2>2. /\ records[i].kv = records[i].canon /\ records[i].student = records[j].student
        /\ StateExact(TRUE, records[i].start) = StateExact(TRUE, records[j].start)
        /\ FamilyOf(i) = FamilyOf(j) =>
             /\ records[i].action = records[j].action /\ records[i].seen = records[j].seen
             /\ StateExact(TRUE, records[i].end) = StateExact(TRUE, records[j].end)
    BY <1>6, ContractFacts
  <2>3. Core(records[i].start) = Core(records[j].start)
    BY <2>2, CoreOfExact
  <2>4. FamilyOf(i) = FamilyOf(j) => Core(records[i].end) = Core(records[j].end)
    BY <2>2, CoreOfExact
  <2>5. Clone = "loop" /\ FamilyOf(i) = FamilyOf(j) => records[i].calls = records[j].calls
    BY <1>1 DEF OnRecord
  <2>6. ASSUME oracle'.strict
        PROVE  records[i].start = records[j].start
               /\ (FamilyOf(i) = FamilyOf(j) => records[i].end = records[j].end)
    <3>1. /\ StateExact(FALSE, records[i].start) = StateExact(FALSE, records[j].start)
          /\ FamilyOf(i) = FamilyOf(j) =>
               StateExact(FALSE, records[i].end) = StateExact(FALSE, records[j].end)
      BY <1>6, <2>6, ContractFacts
    <3> QED BY <3>1 DEF StateExact
  <2> QED BY <2>1, <2>2, <2>3, <2>4, <2>5, <2>6
<1>10. Clone = "loop" => BridgeFromSource'
  BY <1>1 DEF Judge, BridgeFromSource, OnRecord
<1>11. Clone = "fork" /\ ExactRestore => EndsSeenAsLeft'
  BY <1>1 DEF Judge, EndsSeenAsLeft, AtFrame, Core
<1>12. Clone = "early" => OldRecordsOnlyOfEnded'
  BY <1>1 DEF Judge, OldRecordsOnlyOfEnded, Replaced
<1> QED BY <1>2, <1>3, <1>4, <1>5, <1>7, <1>9, <1>10, <1>11, <1>12 DEF BranchesSound, TraceInv

\* Nothing changes, and nothing of the invariant.
LEMMA BranchStutterInv ==
    ASSUME BranchInv, UNCHANGED vars PROVE BranchInv'
<1>1. UNCHANGED <<trace, made, raised, phase, source, canon, snap, sim, item, step, branch, records,
                  children, ended, oracle>>
  BY DEF vars, traceVars, oracleVars
<1> USE <1>1 DEF BranchInv
<1>2. Typed' BY TraceStands DEF Typed, traceVars
<1>3. Prepared' /\ Counted' /\ OnRecord' /\ AtFrame' /\ Replaced' /\ Undecided'
  BY DEF Prepared, Counted, OnRecord, AtFrame, Replaced, Undecided, Core
<1>4. BranchesSound'
  BY <1>2 DEF BranchesSound, TypeOK, GoMeansRepeated, Go, BridgeFromSource, EndsSeenAsLeft,
     OldRecordsOnlyOfEnded, Core, Typed, TraceInv
<1> QED BY <1>2, <1>3, <1>4

\* Every step of the oracle keeps the invariant.
LEMMA BranchNextInv == BranchInv /\ [Next]_vars => BranchInv'
BY RestoreInv, RebuildInv, BeginInv, PlanLeftInv, PlanRightInv, FinishInv, ForkChildInv, RenderInv,
   EarlyChildInv, CollectInv, JudgeInv, BranchStutterInv DEF Next

\* A verdict that the contract holds, even near strict, means one experiment repeated.  All
\* branches started from one state and one prefix, those of a family ran the same action
\* through the same planner calls to the same end; a Bridge chunk was compared only with the
\* Student action it corrects; the ends of forked children are those they left; and a file of
\* an earlier run stands only for a child that saw its episode end (2640-2852 of the client,
\* robotwin_fork_clone_oracle.py).
THEOREM BranchesAreSound == Spec => []BranchesSound
<1>1. BranchInv => BranchesSound BY DEF BranchInv
<1> QED BY <1>1, BranchInitInv, BranchNextInv, PTL DEF Spec
-----------------------------------------------------------------------------
(* The oracle drives the trace as any caller of it may *)

\* Every step of the oracle is a call of the wrapper, or leaves it alone.
LEMMA OracleStep == BranchInv /\ [Next]_vars => [TraceNext]_traceVars
<1> SUFFICES ASSUME BranchInv, [Next]_vars PROVE TraceNext \/ UNCHANGED traceVars OBVIOUS
<1> USE DEF BranchInv
<1>1. FamilyOf(item) \in Names BY FamilyNames DEF Typed
<1>2. ASSUME phase \in {"left", "right"}
      PROVE  sim.pose \in Starts /\ <<ActionOf(item, branch.student), step>> \in Targets
  <2>1. branch.student \in Generated BY <1>2 DEF Prepared, Prefix
  <2>2. step \in 1..ChunkSteps BY <1>2, BranchAssumption DEF Typed
  <2> QED BY <2>1, <2>2, BranchAssumption DEF Typed, Sims, ActionOf
<1>3. CASE Begin BY <1>1, <1>3 DEF Begin, TraceNext
<1>4. CASE PlanLeft
  <2>1. "left" \in Arms BY BranchAssumption
  <2> QED BY <1>2, <1>4, <2>1 DEF PlanLeft, TraceNext
<1>5. CASE PlanRight
  <2>1. "right" \in Arms BY BranchAssumption
  <2> QED BY <1>2, <1>5, <2>1 DEF PlanRight, TraceNext
<1>6. CASE Finish BY <1>6 DEF Finish, TraceNext
<1>7. CASE Restore \/ Rebuild \/ ForkChild \/ Render \/ EarlyChild \/ Collect \/ Judge
  BY <1>7 DEF Restore, Rebuild, ForkChild, Render, EarlyChild, Collect, Judge
<1>8. CASE UNCHANGED vars BY <1>8 DEF vars
<1> QED BY <1>3, <1>4, <1>5, <1>6, <1>7, <1>8 DEF Next

\* The oracle implements the trace's specification: what holds of the wrapper under any use,
\* among it that a finished replay is exact and that records are kept, holds of every use the
\* oracle makes of it (Begin and Finish around execute_env_action_chunk, 2668-2760).
THEOREM OracleUsesTrace == Spec => TraceSpec /\ ReplayExact /\ RecordsKept
<1>1. Init => TraceInit BY DEF Init
<1>2. Spec => TraceSpec
  BY <1>1, BranchInitInv, BranchNextInv, OracleStep, PTL DEF Spec, TraceSpec
<1> QED BY <1>2, ReplayIsExact, RecordsAreKept

=============================================================================
