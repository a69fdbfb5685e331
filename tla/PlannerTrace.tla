---------------------------- MODULE PlannerTrace ----------------------------
(***************************************************************************)
(* BranchPlannerTrace of robotwin_branch_planner_trace.py: the wrapper     *)
(* around the two planners of a robot that records the calls of one branch *)
(* under a family's name and answers the calls of later branches of that   *)
(* family from the record.  Whoever drives it may begin a branch, make     *)
(* planner calls and finish the branch; every check that fails raises, and *)
(* an exception ends the client.                                           *)
(***************************************************************************)
EXTENDS Naturals, Sequences

CONSTANTS Names,     \* action families
          Arms,
          Starts,    \* joint positions a call may start from
          Targets,
          Results,   \* what the planner may answer
          NoTrace

ASSUME NoTraceAssumption ==
    NoTrace \notin [Arms -> Seq([start : Starts, target : Targets, result : Results])]

VARIABLES trace,    \* the BranchPlannerTrace object
          made,     \* the calls of the branch under way, and what they were answered
          raised    \* an exception has left the wrapper

traceVars == <<trace, made, raised>>

Calls == [start : Starts, target : Targets, result : Results]
Records == [Arms -> Seq(Calls)]
NoCalls == [arm \in Arms |-> << >>]

-----------------------------------------------------------------------------
TraceInit ==
    /\ trace = [ mode |-> "none", name |-> NoTrace,
                 sets |-> [n \in Names |-> NoTrace], index |-> [arm \in Arms |-> 0] ]
    /\ made = NoCalls /\ raised = FALSE

\* begin_record: a new record takes the place of the family's old one
BeginRecord(n) ==
    /\ ~raised
    /\ trace' = [ mode |-> "record", name |-> n, sets |-> [trace.sets EXCEPT ![n] = NoCalls],
                  index |-> [arm \in Arms |-> 0] ]
    /\ made' = NoCalls /\ raised' = FALSE

\* begin_replay: an unknown or empty record cannot be replayed
Replayable(n) == trace.sets[n] # NoTrace /\ \E arm \in Arms : trace.sets[n][arm] # << >>
BeginReplay(n) ==
    /\ ~raised
    /\ IF Replayable(n)
         THEN /\ trace' = [ trace EXCEPT !.mode = "replay", !.name = n,
                                         !.index = [arm \in Arms |-> 0] ]
              /\ made' = NoCalls /\ raised' = FALSE
         ELSE raised' = TRUE /\ UNCHANGED <<trace, made>>

Recorded == trace.sets[trace.name]
Following(arm) == trace.index[arm] + 1
\* a change under which a replay does not look where the robot starts from
MatchesTargetOnly(arm, start, target) ==
    /\ Following(arm) <= Len(Recorded[arm])
    /\ Recorded[arm][Following(arm)].target = target
\* in replay mode a call must be the next recorded one
Matches(arm, start, target) ==
    /\ Following(arm) <= Len(Recorded[arm])
    /\ Recorded[arm][Following(arm)].start = start
    /\ Recorded[arm][Following(arm)].target = target

Answered(arm, start, target, result) ==
    /\ made' = [made EXCEPT ![arm] = Append(@, [start |-> start, target |-> target, result |-> result])]
    /\ raised' = FALSE

\* a change under which a replay that has run out of calls asks the planner on
AsksWhenOut(arm) == trace.mode = "record" \/ (trace.mode = "replay" /\ Following(arm) > Len(Recorded[arm]))
Asks(arm) == trace.mode = "record"

\* the wrapper counts a call before it looks at it, so also one it then refuses
PlanCall(arm, start, target) ==
    /\ ~raised
    /\ \/ /\ Asks(arm)
          /\ \E result \in Results :
               /\ Answered(arm, start, target, result)
               /\ trace' = [trace EXCEPT !.index[arm] = @ + 1,
                              !.sets[trace.name][arm] =
                                 Append(@, [start |-> start, target |-> target, result |-> result])]
       \/ /\ ~Asks(arm) /\ trace.mode = "replay" /\ Matches(arm, start, target)
          /\ Answered(arm, start, target, Recorded[arm][Following(arm)].result)
          /\ trace' = [trace EXCEPT !.index[arm] = @ + 1]
       \/ /\ ~Asks(arm) /\ trace.mode = "replay" /\ ~Matches(arm, start, target)
          /\ trace' = [trace EXCEPT !.index[arm] = @ + 1]
          /\ raised' = TRUE /\ UNCHANGED made
       \/ /\ ~Asks(arm) /\ trace.mode = "none"
          /\ raised' = TRUE /\ UNCHANGED <<trace, made>>

\* a change under which calls left over are forgotten
AllUsedLax == TRUE
\* finish_branch: a replay must have used every recorded call
AllUsed == \A arm \in Arms : trace.index[arm] = Len(Recorded[arm])
FinishBranch ==
    /\ ~raised
    /\ IF trace.mode = "none" \/ (trace.mode = "replay" /\ ~AllUsed)
         THEN raised' = TRUE /\ UNCHANGED <<trace, made>>
         ELSE trace' = [trace EXCEPT !.mode = "none"] /\ UNCHANGED <<made, raised>>

TraceNext ==
    \/ \E n \in Names : BeginRecord(n) \/ BeginReplay(n)
    \/ \E arm \in Arms, start \in Starts, target \in Targets : PlanCall(arm, start, target)
    \/ FinishBranch

TraceSpec == TraceInit /\ [][TraceNext]_traceVars

-----------------------------------------------------------------------------
(* Properties *)

TraceTypeOK ==
    /\ trace \in [ mode : {"none", "record", "replay"}, name : Names \cup {NoTrace},
                   sets : [Names -> Records \cup {NoTrace}], index : [Arms -> Nat] ]
    /\ made \in Records /\ raised \in BOOLEAN
    /\ trace.mode # "none" => trace.name \in Names /\ Recorded # NoTrace

\* While a branch is replayed, what was made is a prefix of the record; while one is
\* recorded, the record is what was made (_wrapper, begin_record, begin_replay).  After an
\* exception the wrapper is not used again.
TraceFollowed ==
    \/ raised
    \/ trace.mode = "none"
    \/ trace.mode = "record" /\ made = Recorded
    \/ /\ trace.mode = "replay"
       /\ \A arm \in Arms : /\ trace.index[arm] = Len(made[arm])
                            /\ Len(made[arm]) <= Len(Recorded[arm])
                            /\ \A i \in 1..Len(made[arm]) : made[arm][i] = Recorded[arm][i]

TraceInv == TraceTypeOK /\ TraceFollowed

\* A replayed branch that is finished has made exactly the calls of its family's recorded
\* branch: from the same joint positions, to the same targets, with the same answers, none
\* fewer and none more (finish_branch).
ReplayExact ==
    [][trace.mode = "replay" /\ trace'.mode = "none" => made = Recorded]_traceVars

\* A record that is complete is never changed again but by a new recording of that family:
\* a replay, of this family or another, leaves it alone (_wrapper answers with copies).
RecordsKept ==
    [][\A n \in Names : trace.sets[n] # NoTrace /\ trace'.sets[n] # trace.sets[n] =>
           trace'.mode = "record" /\ trace'.name = n]_traceVars
=============================================================================
