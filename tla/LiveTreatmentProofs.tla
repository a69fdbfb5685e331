------------------------- MODULE LiveTreatmentProofs -------------------------
(***************************************************************************)
(* Proofs about the live treatments, for any number of clients, treatments *)
(* and attempts, with a schedule or an event, with and without kills: each *)
(* label is this attempt's, at this boundary, treatments keep the schedule *)
(* or their event, and a finished episode's files tell what happened.      *)
(* Then about the passive trace of the same events, StageOTrace.           *)
(***************************************************************************)
EXTENDS LiveTreatment, PassiveTrace, SequenceTheorems, TLAPS

-----------------------------------------------------------------------------
(***************************************************************************)
(* The inductive invariant.  A client and its files are looked at as two   *)
(* values r and f, so that what a step does to them is a constant fact.    *)
(***************************************************************************)
Samples == [frame : Nat, failures : Nat, quiet : BOOLEAN, terminal : BOOLEAN,
            ordinal : Nat, scalar : {NoScalar}]
Kinds == {"none", "planner_non_success", "observable_stall"}
Events == [index : Nat, kind : Kinds, frame : Nat, since : Int]
Detectors == [history : Seq(Samples), last : Nat \union {NoFrame}, emitted : Nat, charged : Nat]
Rows == [frame : Nat, label : Labels, applied : BOOLEAN, event : Events \union {NoEvent}]

Runs == [phase : Phases, attempt : 1..MaxAttempts, limit : StepLimits, frame : Nat,
         success : BOOLEAN, target : Nat, pending : Labels \union {NoLabel}, records : Seq(Rows),
         applied : Nat, calls : Nat, prefix : Nat, continuation : Nat,
         traced : {"prefix", "continuation"}, detector : Detectors, event : Events \union {NoEvent}]

\* what the paths hold; output, event and trace are files of several forms
FilesTyped(f) ==
    /\ f = [context |-> f.context, label |-> f.label, output |-> f.output,
            event |-> f.event, trace |-> f.trace]
    /\ f.context \in [1..Expected -> ContextIds \union {NoFile}]
    /\ f.label \in [1..Expected -> Labels \union {NoFile}]

Paused == {"pause", "wait", "query", "check", "record"}
Settled == Paused \union {"act", "end", "publish", "done"}
Own(c, r, i) == [client |-> c, attempt |-> r.attempt, index |-> i]
OwnLabel(c, r, i) == [semantic |-> Own(c, r, i), file |-> Own(c, r, i)]

\* treatments are applied one after the other, each before the next is due
Counting(r) ==
    /\ r.applied <= Len(r.records) /\ Len(r.records) <= r.applied + 1
    /\ Len(r.records) <= Expected
    /\ \A i \in 1..Len(r.records) : i <= r.applied => r.records[i].applied
    /\ r.calls = r.prefix + r.continuation
    /\ r.frame <= ChunkFrames * r.limit /\ r.frame % 2 = 0
    /\ r.phase = "infer" => (r.pending = NoLabel <=> r.applied = Len(r.records))
    /\ r.phase \in Settled => r.applied = Len(r.records)
    /\ r.phase \in Settled \ {"record"} => r.pending = NoLabel
    /\ r.phase = "act" => MoreChunks(r) /\ r.applied > 0

\* a label that is used is this attempt's, of this boundary
Labelled(c, r, f) ==
    /\ \A i \in 1..Len(r.records) : r.records[i].label = OwnLabel(c, r, i)
    /\ r.phase = "record" => r.pending = OwnLabel(c, r, Index(r))
    /\ r.phase \in {"wait", "query", "check"} => f.context[Index(r)] = ContextId(c, r)
    /\ r.phase = "check" => f.label[Index(r)] # NoFile
    /\ ~Kills => /\ \A i \in 1..Len(r.records) : f.label[i] = r.records[i].label
                 /\ r.phase = "record" => f.label[Index(r)] = r.pending

\* where the client is between the treatment behind it and the one before it
Targeted(r) ==
    /\ ~Dynamic \/ r.records # << >> => r.target = NextTarget(Index(r))
    /\ r.phase \in Paused => r.frame = r.target /\ Index(r) <= Expected
    /\ r.phase \in {"infer", "end", "publish", "done"} /\ Dynamic /\ r.records = << >> =>
          r.target = Never

Scheduled(r) ==
    ~Dynamic =>
      /\ \A i \in 1..Len(r.records) : r.records[i].frame = Frames[i]
      /\ r.phase # "failed" => /\ r.frame <= r.target
                               /\ r.applied < Len(r.records) => r.frame = Frames[Len(r.records)]
      /\ r.phase \in {"publish", "done"} => r.success \/ r.applied = Expected

\* the event that the detector and the event file tell of
Fired(r, f, frame) ==
    /\ r.event # NoEvent => r.event.frame = frame
    /\ f.event = [attempt |-> r.attempt, frame |-> frame]
    /\ r.detector.history # << >>
    /\ Latest(r.detector.history).frame = frame /\ ~Latest(r.detector.history).terminal

Caused(r, f) ==
    Dynamic =>
      /\ r.records = << >> /\ r.phase \in Paused => Fired(r, f, r.frame)
      /\ r.records # << >> => r.event # NoEvent /\ Fired(r, f, r.records[1].frame)
      /\ r.phase \in {"publish", "done"} =>
           /\ f.trace = [attempt |-> r.attempt, status |-> TraceStatus(r)]
           /\ r.records = << >> => f.event = [attempt |-> r.attempt, frame |-> NoFrame]

Finished(r, f) ==
    r.phase = "done" =>
      f.output = TreatmentOutput(r, IF NoEventTerminal(r) THEN "no_event" ELSE "completed")

Good(c, r, f) ==
    /\ r \in Runs /\ FilesTyped(f)
    /\ Counting(r) /\ Labelled(c, r, f) /\ Targeted(r) /\ Scheduled(r)
    /\ Caused(r, f) /\ Finished(r, f)

Awaited(t, r) == r.phase = "query" /\ ContextId(t.id.client, r) = t.id

TeacherOK(t) ==
    /\ t \in [id : ContextIds, loaded : ContextIds \union {NoContext}]
    /\ files[t.id.client].context[t.id.index] # NoFile
    /\ ~Kills => Awaited(t, client[t.id.client])

LiveInv ==
    /\ DOMAIN client = Clients /\ DOMAIN files = Clients
    /\ \A c \in Clients : Good(c, client[c], files[c])
    /\ \A c \in Clients : client[c].phase = "query" => lock = c
    /\ lock \in Clients \union {NoClient}
    /\ \A t \in teachers : TeacherOK(t)
    /\ ~Kills => \A t, u \in teachers : t.id.client = u.id.client => t = u

-----------------------------------------------------------------------------
(* What the assumptions say of the schedule.                               *)

LEMMA ScheduleFacts ==
  /\ Expected \in Nat /\ Expected > 0 /\ Frames \in Seq(Nat)
  /\ \A i \in 1..Expected : Frames[i] \in Nat /\ Frames[i] < Never
  /\ \A i, j \in 1..Expected : i < j => Frames[i] < Frames[j]
  /\ \A limit \in StepLimits : limit \in Nat \ {0} /\ ChunkFrames * limit < Never
<1>1. Frames \in Seq(Nat) /\ Frames # << >> /\ DOMAIN Frames = 1..Expected
  BY Schedule DEF Expected
<1>2. Expected \in Nat /\ Expected > 0
  BY <1>1, EmptySeq DEF Expected
<1>3. \A i \in 1..Expected : Frames[i] \in Nat
  BY <1>1, <1>2, ElementOfSeq DEF Expected
<1>4. \A i \in 1..Expected : Frames[i] < Never
  BY <1>1, Schedule
<1>5. \A i, j \in 1..Expected : i < j => Frames[i] < Frames[j]
  BY <1>1, Schedule
<1>6. \A limit \in StepLimits : limit \in Nat \ {0} /\ ChunkFrames * limit < Never
  BY Schedule
<1>7. QED
  BY <1>1, <1>2, <1>3, <1>4, <1>5, <1>6

(* A target that is due is that of a boundary of the schedule.             *)
LEMMA TargetFacts ==
  ASSUME NEW i \in Nat \ {0}
  PROVE  NextTarget(i) \in Nat /\ (NextTarget(i) < Never => i <= Expected)
BY ScheduleFacts DEF NextTarget, Never

\* Two records are one when their fields agree.
LEMMA LabelIs ==
  ASSUME NEW l \in Labels, NEW a, NEW b, l.semantic = a, l.file = b
  PROVE  l = [semantic |-> a, file |-> b]
BY DEF Labels

\* A client that only changes its phase.
Moved(r, next) == [r EXCEPT !.phase = next]

(* Moving on changes the phase only.                                       *)
LEMMA MovedFields ==
  ASSUME NEW r \in Runs, NEW p \in Phases
  PROVE  /\ Moved(r, p) \in Runs /\ Moved(r, p).phase = p
         /\ Moved(r, p).attempt = r.attempt /\ Moved(r, p).limit = r.limit
         /\ Moved(r, p).frame = r.frame /\ Moved(r, p).success = r.success
         /\ Moved(r, p).target = r.target /\ Moved(r, p).pending = r.pending
         /\ Moved(r, p).records = r.records /\ Moved(r, p).applied = r.applied
         /\ Moved(r, p).calls = r.calls /\ Moved(r, p).prefix = r.prefix
         /\ Moved(r, p).continuation = r.continuation /\ Moved(r, p).traced = r.traced
         /\ Moved(r, p).detector = r.detector /\ Moved(r, p).event = r.event
BY DEF Moved, Runs

-----------------------------------------------------------------------------
(* What each step makes of a client and its files.                         *)

LEMMA MovedOut ==
  ASSUME NEW c \in Clients, NEW r, NEW f, Good(c, r, f), NEW p \in {"failed", "killed"},
         p = "killed" => r.phase # "failed"
  PROVE  Good(c, Moved(r, p), f)
<1> DEFINE n == Moved(r, p)
<1>1. r \in Runs /\ p \in Phases
  BY DEF Good, Phases
<1>2. /\ n \in Runs /\ n.phase = p /\ n.attempt = r.attempt /\ n.limit = r.limit
      /\ n.frame = r.frame /\ n.success = r.success /\ n.target = r.target
      /\ n.pending = r.pending /\ n.records = r.records /\ n.applied = r.applied
      /\ n.calls = r.calls /\ n.prefix = r.prefix /\ n.continuation = r.continuation
      /\ n.detector = r.detector /\ n.event = r.event
  BY <1>1, MovedFields
<1> HIDE DEF n
<1>3. Counting(n)
  BY <1>2 DEF Good, Counting, Settled, Paused
<1>4. Labelled(c, n, f)
  BY <1>2 DEF Good, Labelled, OwnLabel, Own
<1>5. Targeted(n)
  BY <1>2 DEF Good, Targeted, Paused, Index
<1>6. Scheduled(n)
  BY <1>2 DEF Good, Scheduled
<1>7. Caused(n, f)
  BY <1>2 DEF Good, Caused, Fired, Paused
<1>8. Finished(n, f)
  BY <1>2 DEF Finished
<1>9. Good(c, n, f)
  BY <1>2, <1>3, <1>4, <1>5, <1>6, <1>7, <1>8 DEF Good
<1>10. QED
  BY <1>9 DEF n

(* Waiting, querying and checking follow each other without other effect.  *)
LEMMA MovedOn ==
  ASSUME NEW c \in Clients, NEW r, NEW f, Good(c, r, f), NEW p,
         \/ r.phase = "wait" /\ p = "query"
         \/ r.phase = "query" /\ p = "check" /\ f.label[Index(r)] # NoFile
  PROVE  Good(c, Moved(r, p), f)
<1> DEFINE n == Moved(r, p)
<1>1. r \in Runs /\ p \in Phases
  BY DEF Good, Phases
<1>2. /\ n \in Runs /\ n.phase = p /\ n.attempt = r.attempt /\ n.limit = r.limit
      /\ n.frame = r.frame /\ n.success = r.success /\ n.target = r.target
      /\ n.pending = r.pending /\ n.records = r.records /\ n.applied = r.applied
      /\ n.calls = r.calls /\ n.prefix = r.prefix /\ n.continuation = r.continuation
      /\ n.detector = r.detector /\ n.event = r.event
  BY <1>1, MovedFields
<1> HIDE DEF n
<1>3. Counting(n)
  BY <1>2 DEF Good, Counting, Settled, Paused
<1>4. Labelled(c, n, f)
  BY <1>2 DEF Good, Labelled, OwnLabel, Own, ContextId, Index
<1>5. Targeted(n)
  BY <1>2 DEF Good, Targeted, Paused, Index
<1>6. Scheduled(n)
  BY <1>2 DEF Good, Scheduled
<1>7. Caused(n, f)
  BY <1>2 DEF Good, Caused, Fired, Paused
<1>8. Finished(n, f)
  BY <1>2 DEF Finished
<1>9. Good(c, n, f)
  BY <1>2, <1>3, <1>4, <1>5, <1>6, <1>7, <1>8 DEF Good
<1>10. QED
  BY <1>9 DEF n

\* Only a client that waits for it may be given a label where kills are ruled out.
LEMMA LabelWritten ==
  ASSUME NEW c \in Clients, NEW r, NEW f, Good(c, r, f), NEW i \in 1..Expected, NEW l \in Labels,
         ~Kills => r.phase = "query" /\ i = Index(r)
  PROVE  LET g == [f EXCEPT !.label[i] = l]
         IN  Good(c, r, g) /\ g.context = f.context /\ g.label[i] = l
<1> DEFINE g == [f EXCEPT !.label[i] = l]
<1>1. FilesTyped(f) /\ r \in Runs
  BY DEF Good
<1>2. /\ g.context = f.context /\ g.output = f.output /\ g.event = f.event /\ g.trace = f.trace
      /\ g.label = [f.label EXCEPT ![i] = l]
  BY <1>1 DEF FilesTyped
<1>3. FilesTyped(g)
  <2>1. g = [context |-> f.context, label |-> [f.label EXCEPT ![i] = l], output |-> f.output,
             event |-> f.event, trace |-> f.trace]
    BY <1>1 DEF FilesTyped
  <2>2. [f.label EXCEPT ![i] = l] \in [1..Expected -> Labels \union {NoFile}]
    BY <1>1 DEF FilesTyped
  <2>3. QED
    BY <1>1, <1>2, <2>1, <2>2 DEF FilesTyped
<1>4. /\ g.label[i] = l /\ l # NoFile
      /\ \A j \in 1..Expected : j # i => g.label[j] = f.label[j]
  BY <1>1, <1>2, Sentinels DEF FilesTyped
<1> HIDE DEF g
<1>5. Len(r.records) \in Nat
  BY <1>1, LenProperties DEF Runs
<1>6. Labelled(c, r, g)
  <2>1. r.phase = "check" => g.label[Index(r)] # NoFile
    <3>1. r.phase = "check" => Index(r) \in 1..Expected
      BY <1>5 DEF Good, Targeted, Paused, Index
    <3>2. QED
      BY <3>1, <1>4 DEF Good, Labelled
  <2>2. ~Kills => \A k \in 1..Len(r.records) : g.label[k] = r.records[k].label
    BY <1>4, <1>5, ScheduleFacts DEF Good, Labelled, Index, Counting
  <2>3. QED
    BY <1>2, <2>1, <2>2 DEF Good, Labelled
<1>7. Caused(r, g) /\ Finished(r, g)
  BY <1>2 DEF Good, Caused, Finished, Fired
<1>8. Good(c, r, g)
  BY <1>3, <1>6, <1>7 DEF Good
<1>9. QED
  BY <1>2, <1>4, <1>8 DEF g

(* Before the end, what the output file holds is free.                     *)
LEMMA OutputWritten ==
  ASSUME NEW c \in Clients, NEW r, NEW f, Good(c, r, f), r.phase # "done", NEW o
  PROVE  LET g == [f EXCEPT !.output = o]
         IN  Good(c, r, g) /\ g.context = f.context /\ g.output = o
<1> DEFINE g == [f EXCEPT !.output = o]
<1>1. FilesTyped(f)
  BY DEF Good
<1>2. /\ g.context = f.context /\ g.label = f.label /\ g.event = f.event /\ g.trace = f.trace
      /\ g.output = o /\ FilesTyped(g)
  BY <1>1 DEF FilesTyped
<1> HIDE DEF g
<1>3. Labelled(c, r, g) /\ Caused(r, g) /\ Finished(r, g)
  BY <1>2 DEF Good, Labelled, Caused, Finished, Fired
<1>4. Good(c, r, g)
  BY <1>2, <1>3 DEF Good
<1>5. QED
  BY <1>2, <1>4 DEF g

Treated(r) == [r EXCEPT !.phase = "act", !.pending = NoLabel, !.applied = @ + 1,
                        !.records[Len(r.records)].applied = TRUE]

(* Applying the pending treatment counts it and advances to the next       *)
(* boundary.                                                               *)
LEMMA TreatGood ==
  ASSUME NEW c \in Clients, NEW r, NEW f, Good(c, r, f),
         r.phase = "infer", MoreChunks(r), r.pending # NoLabel
  PROVE  Good(c, Treated(r), f)
<1> DEFINE n == Treated(r)
           k == Len(r.records)
           row == [r.records[k] EXCEPT !.applied = TRUE]
<1>1. r \in Runs /\ Counting(r)
  BY DEF Good
<1>2. r.records \in Seq(Rows) /\ k \in Nat /\ r.applied \in Nat /\ k = r.applied + 1
  BY <1>1, LenProperties DEF Counting, Runs
<1>3. k \in 1..Len(r.records) /\ r.records[k] \in Rows
  BY <1>2, ElementOfSeq
<1>4. /\ row \in Rows /\ row.applied /\ row.frame = r.records[k].frame
      /\ row.label = r.records[k].label
  BY <1>3 DEF Rows
<1>5. /\ [r.records EXCEPT ![k] = row] \in Seq(Rows)
      /\ Len([r.records EXCEPT ![k] = row]) = k
      /\ \A j \in 1..k : [r.records EXCEPT ![k] = row][j] = IF j = k THEN row ELSE r.records[j]
  BY <1>2, <1>3, <1>4, ExceptSeq
<1>6. /\ n \in Runs /\ n.phase = "act" /\ n.attempt = r.attempt /\ n.limit = r.limit
      /\ n.frame = r.frame /\ n.success = r.success /\ n.target = r.target
      /\ n.pending = NoLabel /\ n.records = [r.records EXCEPT ![k] = row]
      /\ n.applied = r.applied + 1
      /\ n.calls = r.calls /\ n.prefix = r.prefix /\ n.continuation = r.continuation
      /\ n.detector = r.detector /\ n.event = r.event
  BY <1>1, <1>2, <1>5 DEF Treated, Runs, Phases
<1>7. /\ Len(n.records) = k /\ n.applied = k /\ n.records # << >> /\ r.records # << >>
      /\ \A j \in 1..k : /\ n.records[j].label = r.records[j].label
                         /\ n.records[j].frame = r.records[j].frame
                         /\ r.records[j].applied => n.records[j].applied
      /\ n.records[k].applied
  BY <1>2, <1>3, <1>4, <1>5, <1>6, EmptySeq
<1>7a. 1 \in 1..k /\ n.records[1].frame = r.records[1].frame
  BY <1>2, <1>7
<1> HIDE DEF n, k, row
<1>8. Counting(n)
  <2>1. \A i \in 1..k : n.records[i].applied
    BY <1>1, <1>2, <1>7 DEF Counting, k
  <2>2. MoreChunks(n)
    BY <1>6 DEF MoreChunks
  <2>3. QED
    BY <1>1, <1>2, <1>6, <1>7, <2>1, <2>2 DEF Counting, Settled, Paused, k
<1>9. Labelled(c, n, f)
  BY <1>6, <1>7 DEF Good, Labelled, OwnLabel, Own, k
<1>10. Targeted(n)
  BY <1>6, <1>7 DEF Good, Targeted, Paused, Index, k
<1>11. Scheduled(n)
  BY <1>1, <1>2, <1>6, <1>7 DEF Good, Scheduled, k
<1>12. Caused(n, f)
  BY <1>6, <1>7, <1>7a DEF Good, Caused, Fired, Paused
<1>13. Finished(n, f)
  BY <1>6 DEF Finished
<1>14. Good(c, n, f)
  BY <1>6, <1>8, <1>9, <1>10, <1>11, <1>12, <1>13 DEF Good
<1>15. QED
  BY <1>14 DEF n

(* A pause saves the context of this attempt at this boundary.             *)
LEMMA PauseGood ==
  ASSUME NEW c \in Clients, NEW r, NEW f, Good(c, r, f), r.phase = "pause"
  PROVE  LET n == [Traced(r) EXCEPT !.phase = "wait"]
             g == [f EXCEPT !.context[QueryPath(Index(r))] = ContextId(c, r)]
         IN  /\ Good(c, n, g) /\ n.phase = "wait"
             /\ \A i \in 1..Expected : f.context[i] # NoFile => g.context[i] # NoFile
<1> DEFINE n == [Traced(r) EXCEPT !.phase = "wait"]
           i == Index(r)
           g == [f EXCEPT !.context[QueryPath(i)] = ContextId(c, r)]
<1>1. r \in Runs /\ FilesTyped(f)
  BY DEF Good
<1>2. i \in 1..Expected /\ Len(r.records) \in Nat
  BY <1>1, LenProperties, ScheduleFacts DEF Good, Targeted, Paused, Index, Runs
<1>3. ContextId(c, r) \in ContextIds
  BY <1>1, <1>2 DEF ContextId, ContextIds, Runs
<1>4. Traced(r) \in Runs /\ Traced(r) = [r EXCEPT !.traced = Traced(r).traced]
  BY <1>1 DEF Traced, Runs
<1>5. /\ n \in Runs /\ n.phase = "wait" /\ n.attempt = r.attempt /\ n.limit = r.limit
      /\ n.frame = r.frame /\ n.success = r.success /\ n.target = r.target
      /\ n.pending = r.pending /\ n.records = r.records /\ n.applied = r.applied
      /\ n.calls = r.calls /\ n.prefix = r.prefix /\ n.continuation = r.continuation
      /\ n.detector = r.detector /\ n.event = r.event
  BY <1>1 DEF Traced, Runs, Phases
<1>6. /\ g.context = [f.context EXCEPT ![i] = ContextId(c, r)]
      /\ g.label = f.label /\ g.output = f.output /\ g.event = f.event /\ g.trace = f.trace
      /\ FilesTyped(g)
  BY <1>1, <1>2, <1>3 DEF FilesTyped, QueryPath
<1>7. /\ g.context[i] = ContextId(c, r) /\ ContextId(c, r) # NoFile
      /\ \A j \in 1..Expected : j # i => g.context[j] = f.context[j]
  BY <1>1, <1>2, <1>3, <1>6, Sentinels DEF FilesTyped
<1> HIDE DEF n, g, i
<1>8. Counting(n)
  BY <1>5 DEF Good, Counting, Settled, Paused
<1>9. Labelled(c, n, g)
  BY <1>5, <1>6, <1>7 DEF Good, Labelled, OwnLabel, Own, ContextId, Index, i
<1>10. Targeted(n) /\ Scheduled(n)
  BY <1>5 DEF Good, Targeted, Scheduled, Paused, Index
<1>11. Caused(n, g)
  BY <1>5, <1>6 DEF Good, Caused, Fired, Paused
<1>12. Finished(n, g)
  BY <1>5 DEF Finished
<1>13. Good(c, n, g)
  BY <1>5, <1>6, <1>8, <1>9, <1>10, <1>11, <1>12 DEF Good
<1>14. QED
  BY <1>5, <1>7, <1>13 DEF n, g, i

(* A label that passes the check names that context twice.                 *)
LEMMA CheckGood ==
  ASSUME NEW c \in Clients, NEW r, NEW f, Good(c, r, f), r.phase = "check",
         LabelMatches(ContextId(c, r), f.context[Index(r)], f.label[Index(r)])
  PROVE  Good(c, [r EXCEPT !.phase = "record", !.pending = f.label[Index(r)]], f)
<1> DEFINE i == Index(r)
           n == [r EXCEPT !.phase = "record", !.pending = f.label[i]]
<1>1. r \in Runs /\ FilesTyped(f)
  BY DEF Good
<1>2. i \in 1..Expected /\ Len(r.records) \in Nat
  BY <1>1, LenProperties, ScheduleFacts DEF Good, Targeted, Paused, Index, Runs
<1>3. f.label[i] \in Labels
  BY <1>1, <1>2 DEF FilesTyped, Good, Labelled
<1>4. f.label[i] = OwnLabel(c, r, i)
  <2>1. f.label[i].file = ContextId(c, r) /\ f.label[i].semantic = ContextId(c, r)
    BY DEF LabelMatches, Good, Labelled
  <2>2. ContextId(c, r) = Own(c, r, i)
    BY DEF ContextId, Own
  <2>3. QED
    BY <1>3, <2>1, <2>2, LabelIs DEF OwnLabel
<1>5. /\ n \in Runs /\ n.phase = "record" /\ n.attempt = r.attempt /\ n.limit = r.limit
      /\ n.frame = r.frame /\ n.success = r.success /\ n.target = r.target
      /\ n.pending = f.label[i] /\ n.records = r.records /\ n.applied = r.applied
      /\ n.calls = r.calls /\ n.prefix = r.prefix /\ n.continuation = r.continuation
      /\ n.detector = r.detector /\ n.event = r.event
  BY <1>1, <1>3 DEF Runs, Phases
<1> HIDE DEF n, i
<1>6. Counting(n)
  BY <1>5 DEF Good, Counting, Settled, Paused
<1>7. Labelled(c, n, f)
  BY <1>4, <1>5 DEF Good, Labelled, OwnLabel, Own, Index, i
<1>8. Targeted(n) /\ Scheduled(n)
  BY <1>5 DEF Good, Targeted, Scheduled, Paused, Index
<1>9. Caused(n, f) /\ Finished(n, f)
  BY <1>5 DEF Good, Caused, Fired, Paused, Finished
<1>10. Good(c, n, f)
  BY <1>1, <1>5, <1>6, <1>7, <1>8, <1>9 DEF Good
<1>11. QED
  BY <1>10 DEF n, i

(* Recording a treatment takes the label that was checked and sets the     *)
(* next target.                                                            *)
LEMMA RecordGood ==
  ASSUME NEW c \in Clients, NEW r, NEW f, Good(c, r, f), r.phase = "record",
         Dynamic => r.event # NoEvent
  PROVE  LET row == [frame |-> r.frame, label |-> r.pending, applied |-> FALSE,
                     event |-> r.event]
         IN  Good(c, [r EXCEPT !.phase = "infer", !.records = Append(@, row),
                               !.target = NextTarget(Len(r.records) + 2)], f)
<1> DEFINE k == Len(r.records)
           row == [frame |-> r.frame, label |-> r.pending, applied |-> FALSE,
                   event |-> r.event]
           all == Append(r.records, row)
           n == [r EXCEPT !.phase = "infer", !.records = all, !.target = NextTarget(k + 2)]
<1>1. r \in Runs /\ r.records \in Seq(Rows) /\ k \in Nat /\ r.applied = k
      /\ k + 1 <= Expected
  BY LenProperties DEF Good, Runs, Targeted, Index, Paused, Counting, Settled
<1>2. OwnLabel(c, r, k + 1) \in Labels /\ r.pending = OwnLabel(c, r, k + 1)
  <2>1. Own(c, r, k + 1) \in ContextIds
    BY <1>1, ScheduleFacts DEF Own, ContextIds, Runs
  <2>2. QED
    BY <2>1 DEF OwnLabel, Labels, Good, Labelled, Index
<1>3. row \in Rows /\ row.frame = r.frame /\ row.label = r.pending /\ row.event = r.event
  BY <1>1, <1>2 DEF Rows, Runs
<1> HIDE DEF row
<1>4. /\ all \in Seq(Rows) /\ Len(all) = k + 1 /\ all # << >>
      /\ \A i \in 1..k : all[i] = r.records[i]
      /\ all[k + 1] = row
  BY <1>1, <1>3, AppendProperties
<1> HIDE DEF all
<1>5. NextTarget(k + 2) \in Nat
  BY <1>1, TargetFacts
<1>6. /\ n \in Runs /\ n.phase = "infer" /\ n.attempt = r.attempt /\ n.limit = r.limit
      /\ n.frame = r.frame /\ n.success = r.success /\ n.target = NextTarget(k + 2)
      /\ n.pending = r.pending /\ n.records = all /\ n.applied = r.applied
      /\ n.calls = r.calls /\ n.prefix = r.prefix /\ n.continuation = r.continuation
      /\ n.detector = r.detector /\ n.event = r.event
  BY <1>1, <1>4, <1>5 DEF Runs, Phases
<1> HIDE DEF n
<1>7. Counting(n)
  BY <1>1, <1>2, <1>4, <1>6, Sentinels DEF Good, Counting, Settled, Paused, k
<1>8. Labelled(c, n, f)
  <2>1. \A i \in 1..(k + 1) : n.records[i].label = OwnLabel(c, n, i)
    BY <1>1, <1>2, <1>3, <1>4, <1>6 DEF Good, Labelled, OwnLabel, Own, k
  <2>2. ~Kills => \A i \in 1..(k + 1) : f.label[i] = n.records[i].label
    BY <1>1, <1>3, <1>4, <1>6 DEF Good, Labelled, Index, k
  <2>3. QED
    BY <1>4, <1>6, <2>1, <2>2 DEF Labelled
<1>9. Targeted(n)
  BY <1>1, <1>4, <1>6 DEF Targeted, Paused, Index
<1>10. Scheduled(n)
  <2> SUFFICES ASSUME ~Dynamic PROVE Scheduled(n)
    BY DEF Scheduled
  <2>1. r.frame = r.target /\ r.target = NextTarget(k + 1)
    BY DEF Good, Targeted, Paused, Index, k
  <2>2. r.frame = Frames[k + 1]
    BY <1>1, <2>1 DEF NextTarget
  <2>3. r.frame <= NextTarget(k + 2)
    BY <1>1, <2>2, ScheduleFacts DEF NextTarget, Never
  <2>4. \A i \in 1..(k + 1) : n.records[i].frame = Frames[i]
    BY <1>1, <1>3, <1>4, <1>6, <2>2 DEF Good, Scheduled, k
  <2>5. QED
    BY <1>1, <1>4, <1>6, <2>2, <2>3, <2>4 DEF Scheduled
<1>11. Caused(n, f)
  <2> SUFFICES ASSUME Dynamic PROVE Caused(n, f)
    BY DEF Caused
  <2>1. CASE r.records = << >>
    <3>1. k = 0
      BY <2>1, EmptySeq DEF k
    <3>2. Fired(r, f, r.frame) /\ n.records[1].frame = r.frame
      BY <1>3, <1>4, <1>6, <2>1, <3>1 DEF Good, Caused, Paused
    <3>3. QED
      BY <1>4, <1>6, <3>2 DEF Caused, Fired, Paused
  <2>2. CASE r.records # << >>
    <3>1. k > 0
      BY <1>1, <2>2, EmptySeq DEF k
    <3>2. Fired(r, f, r.records[1].frame) /\ n.records[1].frame = r.records[1].frame
      BY <1>1, <1>4, <1>6, <2>2, <3>1 DEF Good, Caused
    <3>3. QED
      BY <1>4, <1>6, <3>2 DEF Caused, Fired, Paused
  <2>3. QED
    BY <2>1, <2>2
<1>12. Finished(n, f)
  BY <1>6 DEF Finished
<1>13. Good(c, n, f)
  BY <1>6, <1>7, <1>8, <1>9, <1>10, <1>11, <1>12 DEF Good
<1>14. QED
  BY <1>13 DEF n, all, row, k

(* The schedule's verdict, and the last trace and event files of a dynamic *)
(* episode.                                                                *)
LEMMA EndGood ==
  ASSUME NEW c \in Clients, NEW r, NEW f, Good(c, r, f), Ended(r),
         NoEventTerminal(r) \/ ScheduleCompleted(r), NEW g,
         ~Dynamic => g = f,
         Dynamic => g = [f EXCEPT !.trace = [attempt |-> r.attempt, status |-> TraceStatus(r)],
                                  !.event = IF NoEventTerminal(r)
                                            THEN [attempt |-> r.attempt, frame |-> NoFrame]
                                            ELSE @]
  PROVE  Good(c, Moved(r, "publish"), g) /\ g.context = f.context
<1> DEFINE n == Moved(r, "publish")
<1>1. r \in Runs /\ FilesTyped(f) /\ "publish" \in Phases
  BY DEF Good, Phases
<1>2. /\ n \in Runs /\ n.phase = "publish" /\ n.attempt = r.attempt /\ n.limit = r.limit
      /\ n.frame = r.frame /\ n.success = r.success /\ n.target = r.target
      /\ n.pending = r.pending /\ n.records = r.records /\ n.applied = r.applied
      /\ n.calls = r.calls /\ n.prefix = r.prefix /\ n.continuation = r.continuation
      /\ n.detector = r.detector /\ n.event = r.event
  BY <1>1, MovedFields
<1> HIDE DEF n
<1>3. /\ g.context = f.context /\ g.label = f.label /\ g.output = f.output /\ FilesTyped(g)
      /\ Dynamic => g.trace = [attempt |-> r.attempt, status |-> TraceStatus(r)]
      /\ Dynamic /\ ~NoEventTerminal(r) => g.event = f.event
      /\ Dynamic /\ NoEventTerminal(r) => g.event = [attempt |-> r.attempt, frame |-> NoFrame]
  <2> DEFINE a == [attempt |-> r.attempt, status |-> TraceStatus(r)]
             e == IF NoEventTerminal(r) THEN [attempt |-> r.attempt, frame |-> NoFrame]
                  ELSE f.event
  <2>1. Dynamic => g = [f EXCEPT !.trace = a, !.event = e]
    BY <1>1 DEF FilesTyped
  <2>2. /\ ~NoEventTerminal(r) => e = f.event
        /\ NoEventTerminal(r) => e = [attempt |-> r.attempt, frame |-> NoFrame]
    OBVIOUS
  <2> HIDE DEF a, e
  <2>3. Dynamic => /\ g.context = f.context /\ g.label = f.label /\ g.output = f.output
                   /\ g.trace = a /\ g.event = e /\ FilesTyped(g)
    BY <1>1, <2>1 DEF FilesTyped
  <2>4. QED
    BY <1>1, <2>2, <2>3 DEF a
<1>4. r.phase \in {"infer", "end"} /\ r.pending = NoLabel /\ r.applied = Len(r.records)
  BY DEF Ended, NoEventTerminal, ScheduleCompleted, Good, Counting, Settled
<1>5. r.records = << >> <=> r.applied = 0
  BY <1>1, <1>4, EmptySeq DEF Runs
<1>6. Dynamic /\ r.records = << >> <=> NoEventTerminal(r)
  BY <1>4, <1>5 DEF NoEventTerminal
<1>7. Counting(n)
  BY <1>2, <1>4 DEF Good, Counting, Settled, Paused
<1>8. Labelled(c, n, g)
  BY <1>2, <1>3 DEF Good, Labelled, OwnLabel, Own
<1>9. Targeted(n)
  BY <1>2, <1>4 DEF Good, Targeted, Paused, Index
<1>10. Scheduled(n)
  <2>1. ~Dynamic => r.success \/ r.applied = Expected
    BY <1>1, ScheduleFacts DEF NoEventTerminal, ScheduleCompleted, Runs
  <2>2. QED
    BY <1>2, <1>4, <2>1 DEF Good, Scheduled
<1>11. Caused(n, g)
  <2>1. TraceStatus(n) = TraceStatus(r)
    BY <1>2 DEF TraceStatus, NoEventTerminal
  <2>2. QED
    BY <1>2, <1>3, <1>6, <2>1 DEF Good, Caused, Fired, Paused
<1>12. Finished(n, g)
  BY <1>2 DEF Finished
<1>13. Good(c, n, g)
  BY <1>2, <1>3, <1>7, <1>8, <1>9, <1>10, <1>11, <1>12 DEF Good
<1>14. QED
  BY <1>3, <1>13 DEF n

(* The output that completes an episode.                                   *)
LEMMA PublishGood ==
  ASSUME NEW c \in Clients, NEW r, NEW f, Good(c, r, f), r.phase = "publish",
         f.output = TreatmentOutput(r, IF NoEventTerminal(r) THEN "no_event" ELSE "completed")
  PROVE  Good(c, Moved(r, "done"), f)
<1> DEFINE n == Moved(r, "done")
<1>1. r \in Runs /\ "done" \in Phases
  BY DEF Good, Phases
<1>2. /\ n \in Runs /\ n.phase = "done" /\ n.attempt = r.attempt /\ n.limit = r.limit
      /\ n.frame = r.frame /\ n.success = r.success /\ n.target = r.target
      /\ n.pending = r.pending /\ n.records = r.records /\ n.applied = r.applied
      /\ n.calls = r.calls /\ n.prefix = r.prefix /\ n.continuation = r.continuation
      /\ n.detector = r.detector /\ n.event = r.event
  BY <1>1, MovedFields
<1> HIDE DEF n
<1>3. Counting(n) /\ Labelled(c, n, f)
  BY <1>2 DEF Good, Counting, Settled, Paused, Labelled, OwnLabel, Own
<1>4. Targeted(n) /\ Scheduled(n)
  BY <1>2 DEF Good, Targeted, Scheduled, Paused, Index
<1>5. NoEventTerminal(n) = NoEventTerminal(r) /\ TraceStatus(n) = TraceStatus(r)
  BY <1>2 DEF TraceStatus, NoEventTerminal
<1>6. Caused(n, f)
  BY <1>2, <1>5 DEF Good, Caused, Fired, Paused
<1>7. Finished(n, f)
  BY <1>2, <1>5 DEF Finished, TreatmentOutput
<1>8. Good(c, n, f)
  BY <1>2, <1>3, <1>4, <1>6, <1>7 DEF Good
<1>9. QED
  BY <1>8 DEF n

(* A new attempt starts with whatever files earlier ones left.             *)
LEMMA NewGood ==
  ASSUME NEW c \in Clients, NEW attempt \in 1..MaxAttempts, NEW limit \in StepLimits, NEW f,
         FilesTyped(f)
  PROVE  Good(c, NewClient(attempt, limit), f) /\ NewClient(attempt, limit).phase = "infer"
<1> DEFINE n == NewClient(attempt, limit)
<1>1. Frames[1] \in Nat /\ NextTarget(1) = Frames[1] /\ limit \in Nat
  BY ScheduleFacts DEF NextTarget
<1>2. NewDetector \in Detectors
  BY EmptySeq DEF NewDetector, Detectors
<1>3. /\ n.phase = "infer" /\ n.attempt = attempt /\ n.limit = limit /\ n.frame = 0
      /\ n.success = FALSE /\ n.target = IF Dynamic THEN Never ELSE Frames[1]
      /\ n.pending = NoLabel /\ n.records = << >> /\ n.applied = 0
      /\ n.calls = 0 /\ n.prefix = 0 /\ n.continuation = 0
      /\ n.detector = NewDetector /\ n.event = NoEvent
  BY DEF NewClient
<1>4. n \in Runs
  <2>1. << >> \in Seq(Rows)
    BY EmptySeq
  <2>2. Never \in Nat
    BY DEF Never
  <2>3. QED
    BY <1>1, <1>2, <2>1, <2>2 DEF NewClient, Runs, Phases
<1> HIDE DEF n
<1>5. Len(n.records) = 0
  BY <1>3, EmptySeq
<1>6. Counting(n)
  BY <1>1, <1>3, <1>5, ScheduleFacts DEF Counting, Settled, Paused, ChunkFrames
<1>7. Labelled(c, n, f)
  BY <1>3, <1>5 DEF Labelled
<1>8. Targeted(n)
  BY <1>1, <1>3, <1>5 DEF Targeted, Paused, Index
<1>9. Scheduled(n)
  BY <1>1, <1>3, <1>5 DEF Scheduled
<1>10. Caused(n, f) /\ Finished(n, f)
  BY <1>3 DEF Caused, Finished, Paused
<1>11. Good(c, n, f)
  BY <1>4, <1>6, <1>7, <1>8, <1>9, <1>10 DEF Good
<1>12. QED
  BY <1>3, <1>11 DEF n

(* What the observable detector leaves behind, and the event it returns.   *)
LEMMA ObserveFacts ==
  ASSUME NEW d \in Detectors, NEW s \in Samples
  PROVE  LET seen == ObserveObservable(d, s, 1)
         IN  /\ seen.detector \in Detectors
             /\ seen.detector.history # << >> /\ Latest(seen.detector.history) = s
             /\ seen.events # << >> =>
                  /\ seen.events[1] \in Events /\ seen.events[1].frame = s.frame
                  /\ ~s.terminal
<1> DEFINE seen == Record(d, s)
           kind == ObservableTrigger(d, seen.history, s, 1)
           fired == [index |-> d.emitted, kind |-> kind, frame |-> Boundary(seen.history),
                     since |-> s.failures - d.charged]
           all == Append(d.history, s)
<1>1. /\ d.history \in Seq(Samples) /\ d.emitted \in Nat /\ d.charged \in Nat
      /\ s.frame \in Nat /\ s.failures \in Nat
  BY DEF Detectors, Samples
<1>2. all \in Seq(Samples) /\ all # << >> /\ Len(all) = Len(d.history) + 1
      /\ all[Len(d.history) + 1] = s
  BY <1>1, AppendProperties
<1>3. Latest(all) = s /\ Len(all) \in Nat
  BY <1>1, <1>2, LenProperties DEF Latest
<1>4. seen \in Detectors /\ seen.history = all
  BY <1>2 DEF Record, Detectors
<1>5. /\ kind \in Kinds
      /\ kind # "none" => ~s.terminal
  <2>1. Len(seen.history) < Window <=> ~(Len(seen.history) >= Window)
    BY <1>3, <1>4, EventConfigValid
  <2>2. CASE s.terminal \/ ~MayFire(d, s.frame, 1) \/ Len(seen.history) < Window
    <3>1. kind = "none"
      BY <2>1, <2>2 DEF ObservableTrigger
    <3>2. QED
      BY <3>1 DEF Kinds
  <2>3. CASE ~s.terminal /\ MayFire(d, s.frame, 1) /\ Len(seen.history) >= Window
    <3>1. kind = IF FailedSince(d, seen.history) THEN "planner_non_success"
                 ELSE IF AllQuiet(Recent(seen.history)) THEN "observable_stall" ELSE "none"
      BY <2>1, <2>3 DEF ObservableTrigger
    <3>2. QED
      BY <2>3, <3>1 DEF Kinds
  <2>4. QED
    BY <2>1, <2>2, <2>3
<1> HIDE DEF seen, kind, all
<1>6. fired \in Events /\ fired.frame = s.frame
  <2>1. Boundary(seen.history) \in Nat /\ Boundary(seen.history) = s.frame
    BY <1>1, <1>3, <1>4 DEF Boundary
  <2>2. s.failures - d.charged \in Int /\ kind \in Kinds
    BY <1>1, <1>5
  <2>3. QED
    BY <1>1, <2>1, <2>2 DEF Events
<1>7. Emit(seen, s, Charge(d, s)) \in Detectors /\ Emit(seen, s, Charge(d, s)).history = all
  <2>1. /\ seen.last \in Nat \union {NoFrame} /\ seen.emitted + 1 \in Nat
        /\ s.failures \in Nat /\ s.frame \in Nat /\ seen.history \in Seq(Samples)
    BY <1>1, <1>4 DEF Detectors
  <2>2. Emit(seen, s, Charge(d, s)) =
          [seen EXCEPT !.emitted = @ + 1, !.last = s.frame, !.charged = s.failures]
    BY DEF Emit, Charge
  <2>3. QED
    BY <1>4, <2>1, <2>2 DEF Detectors
<1>8. ObserveObservable(d, s, 1) =
        [detector |-> IF kind = "none" THEN seen ELSE Emit(seen, s, Charge(d, s)),
         events |-> IF kind = "none" THEN << >> ELSE << fired >>]
  BY DEF ObserveObservable, seen, kind
<1> HIDE DEF fired
<1>9. QED
  BY <1>2, <1>3, <1>4, <1>5, <1>6, <1>7, <1>8

\* one chunk of a client, before what the detector makes of it
Driven(r, success, failed) ==
    Counted([r EXCEPT !.frame = @ + ChunkFrames, !.success = @ \/ success],
            IF r.success THEN 0 ELSE failed)

(* What a chunk of the Student changes of a run.                           *)
LEMMA DrivenFields ==
  ASSUME NEW r \in Runs, r.calls = r.prefix + r.continuation,
         NEW success \in BOOLEAN, NEW failed \in Nat
  PROVE  LET m == Driven(r, success, failed)
         IN  /\ m \in Runs /\ m.phase = r.phase /\ m.attempt = r.attempt /\ m.limit = r.limit
             /\ m.frame = r.frame + 2 /\ m.target = r.target /\ m.pending = r.pending
             /\ m.records = r.records /\ m.applied = r.applied
             /\ m.calls = m.prefix + m.continuation
             /\ m.detector = r.detector /\ m.event = r.event
<1> DEFINE k == IF r.success THEN 0 ELSE failed
           q == [r EXCEPT !.frame = @ + ChunkFrames, !.success = @ \/ success]
           m == Driven(r, success, failed)
           won == r.success \/ success
<1>1. k \in Nat /\ won \in BOOLEAN
  OBVIOUS
<1>1a. q = [r EXCEPT !.frame = @ + ChunkFrames, !.success = won]
  OBVIOUS
<1> HIDE DEF won, q, k
<1>2. /\ q \in Runs /\ q.phase = r.phase /\ q.attempt = r.attempt /\ q.limit = r.limit
      /\ q.frame = r.frame + 2
      /\ q.target = r.target /\ q.pending = r.pending /\ q.records = r.records
      /\ q.applied = r.applied /\ q.calls = r.calls /\ q.prefix = r.prefix
      /\ q.continuation = r.continuation /\ q.traced = r.traced
      /\ q.detector = r.detector /\ q.event = r.event
  <2> DEFINE on == r.frame + 2
  <2>1. q = [r EXCEPT !.frame = on, !.success = won] /\ on \in Nat
    BY <1>1a DEF Runs, ChunkFrames
  <2> HIDE DEF on
  <2>2. q \in Runs
    BY <1>1, <2>1 DEF Runs
  <2>3. q.frame = r.frame + 2
    BY <2>1 DEF Runs, on
  <2>4. QED
    BY <2>1, <2>2, <2>3 DEF Runs
<1>3. m = [q EXCEPT !.calls = @ + k,
                    !.prefix = IF q.traced = "prefix" THEN @ + k ELSE @,
                    !.continuation = IF q.traced = "continuation" THEN @ + k ELSE @]
  BY DEF Driven, Counted, q, k
<1> HIDE DEF m
<1>4. /\ m.phase = q.phase /\ m.attempt = q.attempt /\ m.limit = q.limit
      /\ m.frame = q.frame /\ m.target = q.target
      /\ m.pending = q.pending /\ m.records = q.records /\ m.applied = q.applied
      /\ m.detector = q.detector /\ m.event = q.event
      /\ m.calls = q.calls + k
      /\ m.prefix = (IF q.traced = "prefix" THEN q.prefix + k ELSE q.prefix)
      /\ m.continuation =
           (IF q.traced = "continuation" THEN q.continuation + k ELSE q.continuation)
  BY <1>2, <1>3 DEF Runs
<1>5. m \in Runs
  <2> DEFINE x == q.calls + k
             y == IF q.traced = "prefix" THEN q.prefix + k ELSE q.prefix
             z == IF q.traced = "continuation" THEN q.continuation + k ELSE q.continuation
  <2>1. x \in Nat /\ y \in Nat /\ z \in Nat
    BY <1>1, <1>2 DEF Runs
  <2>2. m = [q EXCEPT !.calls = x, !.prefix = y, !.continuation = z]
    BY <1>3
  <2> HIDE DEF x, y, z
  <2>3. QED
    BY <1>2, <2>1, <2>2 DEF Runs
<1>6. m.calls = m.prefix + m.continuation
  BY <1>1, <1>2, <1>4 DEF Runs
<1>7. QED
  BY <1>2, <1>4, <1>5, <1>6 DEF m

\* what the detector makes of it: the model's LET in Chunk
Watched(r, m, seen) ==
    IF ~Sampled(r) THEN m
    ELSE [m EXCEPT !.detector = seen.detector,
                   !.event = IF seen.events # << >> THEN seen.events[1] ELSE @,
                   !.target = IF seen.events # << >> THEN EventTarget(m.frame) ELSE @]

Seen(r, m, quiet) ==
    ObserveObservable(r.detector,
        [frame |-> m.frame, failures |-> m.prefix, quiet |-> quiet,
         terminal |-> m.success, ordinal |-> 0, scalar |-> NoScalar], 1)

Noted(f, r, m, seen) ==
    IF ~Sampled(r) THEN f
    ELSE [f EXCEPT !.trace = [attempt |-> r.attempt,
                              status |-> IF seen.events # << >> THEN "event_triggered"
                                         ELSE "pending"],
                   !.event = IF seen.events # << >>
                             THEN [attempt |-> r.attempt, frame |-> m.frame] ELSE @]

(* A chunk of the Student ends at the target, at an event, or before both. *)
LEMMA ChunkGood ==
  ASSUME NEW c \in Clients, NEW r, NEW f, Good(c, r, f),
         \/ r.phase = "act"
         \/ r.phase = "infer" /\ MoreChunks(r) /\ r.pending = NoLabel,
         NEW success \in BOOLEAN, NEW failed \in Nat, NEW quiet \in BOOLEAN
  PROVE  LET m == Driven(r, success, failed)
             seen == Seen(r, m, quiet)
             next == Watched(r, m, seen)
             n == [next EXCEPT !.phase = NextPhase(next)]
             g == Noted(f, r, m, seen)
         IN  Good(c, n, g) /\ n.phase # "query" /\ g.context = f.context
<1> DEFINE m == Driven(r, success, failed)
           sample == [frame |-> m.frame, failures |-> m.prefix, quiet |-> quiet,
                      terminal |-> m.success, ordinal |-> 0, scalar |-> NoScalar]
           seen == Seen(r, m, quiet)
           fired == Sampled(r) /\ seen.events # << >>
           next == Watched(r, m, seen)
           n == [next EXCEPT !.phase = NextPhase(next)]
           g == Noted(f, r, m, seen)
<1>1. r \in Runs /\ FilesTyped(f) /\ Counting(r)
  BY DEF Good
<1>2. /\ m \in Runs /\ m.attempt = r.attempt /\ m.limit = r.limit
      /\ m.frame = r.frame + 2 /\ m.target = r.target /\ m.pending = r.pending /\ m.records = r.records
      /\ m.applied = r.applied /\ m.calls = m.prefix + m.continuation
      /\ m.detector = r.detector /\ m.event = r.event
  BY <1>1, DrivenFields DEF Counting
<1> HIDE DEF m
<1>3. sample \in Samples /\ sample.frame = m.frame /\ sample.terminal = m.success
  BY <1>2 DEF Samples, Runs
<1>4. seen = ObserveObservable(r.detector, sample, 1) /\ r.detector \in Detectors
  BY <1>1 DEF Seen, Runs
<1> HIDE DEF sample, seen
<1>5. /\ seen.detector \in Detectors
      /\ seen.detector.history # << >> /\ Latest(seen.detector.history) = sample
      /\ seen.events # << >> => /\ seen.events[1] \in Events /\ seen.events[1].frame = m.frame
                                /\ ~m.success
  BY <1>3, <1>4, ObserveFacts
<1>6. /\ next \in Runs /\ next.attempt = r.attempt /\ next.limit = r.limit
      /\ next.frame = r.frame + 2 /\ next.success = m.success
      /\ next.pending = r.pending /\ next.records = r.records /\ next.applied = r.applied
      /\ next.calls = next.prefix + next.continuation
      /\ next.target = (IF fired THEN next.frame ELSE r.target)
      /\ next.event = (IF fired THEN seen.events[1] ELSE r.event)
      /\ next.detector = (IF Sampled(r) THEN seen.detector ELSE r.detector)
  BY <1>2, <1>5 DEF Watched, EventTarget, Runs
<1> HIDE DEF next
<1>7. /\ NextPhase(next) \in {"failed", "pause", "end", "infer"}
      /\ NextPhase(next) = "failed" <=> next.frame > next.target
      /\ NextPhase(next) = "pause" <=> next.frame = next.target
  <2>1. next.frame \in Nat /\ next.target \in Nat
    BY <1>6 DEF Runs
  <2>2. CASE next.frame > next.target
    BY <2>1, <2>2 DEF NextPhase
  <2>3. CASE next.frame = next.target
    BY <2>1, <2>3 DEF NextPhase
  <2>4. CASE next.frame < next.target
    BY <2>1, <2>4 DEF NextPhase
  <2>5. QED
    BY <2>1, <2>2, <2>3, <2>4
<1>8. /\ n \in Runs /\ n.phase = NextPhase(next)
      /\ n.attempt = r.attempt /\ n.limit = r.limit
      /\ n.frame = r.frame + 2 /\ n.success = m.success
      /\ n.pending = r.pending /\ n.records = r.records /\ n.applied = r.applied
      /\ n.calls = n.prefix + n.continuation
      /\ n.target = next.target /\ n.event = next.event /\ n.detector = next.detector
  BY <1>6, <1>7 DEF Runs, Phases
<1> HIDE DEF n
<1>9. /\ g.context = f.context /\ g.label = f.label /\ g.output = f.output /\ FilesTyped(g)
      /\ ~Sampled(r) => g.event = f.event /\ g.trace = f.trace
      /\ fired => g.event = [attempt |-> r.attempt, frame |-> m.frame]
  BY <1>1 DEF FilesTyped, Noted
<1> HIDE DEF g
<1>10. /\ r.pending = NoLabel /\ r.applied = Len(r.records) /\ r.applied \in Nat
       /\ MoreChunks(r) /\ r.records = << >> <=> r.applied = 0
  <2>1. r.pending = NoLabel /\ r.applied = Len(r.records) /\ MoreChunks(r)
    BY <1>1 DEF Counting, Settled
  <2>2. QED
    BY <1>1, <2>1, EmptySeq DEF Runs
<1>11. Sampled(r) <=> Dynamic /\ r.records = << >>
  BY <1>10 DEF Sampled
<1>12. Sampled(r) => r.target = Never
  <2>1. r.phase = "act" => r.applied > 0
    BY <1>1 DEF Counting
  <2>2. QED
    BY <1>10, <1>11, <2>1 DEF Good, Targeted
<1>13. n.frame <= ChunkFrames * n.limit /\ n.frame % 2 = 0 /\ n.frame < Never
  <2>1. r.frame \in Nat /\ r.limit \in Nat /\ r.frame < 2 * r.limit /\ r.frame % 2 = 0
    BY <1>1, <1>10, ScheduleFacts DEF Counting, MoreChunks, ChunkFrames, Runs
  <2>2. ChunkFrames * r.limit < Never
    BY <1>1, ScheduleFacts DEF Runs
  <2>3. QED
    BY <1>8, <2>1, <2>2 DEF ChunkFrames, Never
<1>14. Counting(n)
  BY <1>1, <1>7, <1>8, <1>10, <1>13 DEF Counting, Settled, Paused
<1>15. Labelled(c, n, g)
  BY <1>7, <1>8, <1>9 DEF Good, Labelled, OwnLabel, Own
<1>16. ~Sampled(r) => n.target = NextTarget(Index(n)) /\ n.target = r.target
  BY <1>6, <1>8, <1>11 DEF Good, Targeted, Index
<1>17. Sampled(r) /\ ~fired => n.target = Never /\ n.event = r.event
  BY <1>6, <1>8, <1>12
<1>18. Targeted(n)
  <2>1. n.phase \in Paused => n.frame = n.target /\ Index(n) <= Expected
    <3>1. n.phase \in Paused => n.frame = n.target
      BY <1>6, <1>7, <1>8 DEF Paused
    <3>2. CASE Sampled(r)
      BY <1>8, <1>10, <1>11, <3>1, <3>2, ScheduleFacts DEF Index
    <3>3. CASE ~Sampled(r)
      <4>1. Index(n) \in Nat \ {0}
        BY <1>8, <1>10 DEF Index
      <4>2. QED
        BY <1>13, <1>16, <3>1, <3>3, <4>1, TargetFacts
    <3>4. QED
      BY <3>2, <3>3
  <2>2. ~Dynamic \/ n.records # << >> => n.target = NextTarget(Index(n))
    BY <1>8, <1>11, <1>16
  <2>3. n.phase \in {"infer", "end", "publish", "done"} /\ Dynamic /\ n.records = << >>
           => n.target = Never
    BY <1>6, <1>7, <1>8, <1>11, <1>17
  <2>4. QED
    BY <2>1, <2>2, <2>3 DEF Targeted
<1>19. Scheduled(n)
  <2>1. n.phase # "failed" => n.frame <= n.target
    <3>1. next.frame \in Nat /\ next.target \in Nat
      BY <1>6 DEF Runs
    <3>2. QED
      BY <1>6, <1>7, <1>8, <3>1
  <2>2. QED
    BY <1>7, <1>8, <1>10, <2>1 DEF Good, Scheduled
<1>20. Caused(n, g)
  <2> SUFFICES ASSUME Dynamic PROVE Caused(n, g)
    BY DEF Caused
  <2>1. CASE Sampled(r)
    <3>1. n.phase \in Paused => fired
      BY <1>6, <1>7, <1>8, <1>13, <1>17, <2>1 DEF Paused
    <3>2. fired => Fired(n, g, n.frame)
      BY <1>2, <1>3, <1>5, <1>6, <1>8, <1>9, <2>1 DEF Fired
    <3>3. n.records = << >>
      BY <1>8, <1>11, <2>1
    <3>4. QED
      BY <1>7, <1>8, <3>1, <3>2, <3>3 DEF Caused
  <2>2. CASE ~Sampled(r)
    <3>1. n.records # << >> /\ n.records = r.records /\ n.event = r.event
          /\ n.detector = r.detector /\ g.event = f.event
      BY <1>6, <1>8, <1>9, <1>11, <2>2
    <3>2. QED
      BY <1>7, <1>8, <3>1 DEF Good, Caused, Fired
  <2>3. QED
    BY <2>1, <2>2
<1>21. Finished(n, g)
  BY <1>7, <1>8 DEF Finished
<1>22. Good(c, n, g)
  BY <1>8, <1>9, <1>14, <1>15, <1>18, <1>19, <1>20, <1>21 DEF Good
<1>23. n.phase # "query"
  BY <1>7, <1>8
<1>24. QED
  BY <1>9, <1>22, <1>23 DEF n, g, next, seen, m

-----------------------------------------------------------------------------
(* Every step keeps the invariant.                                         *)

\* what happens to the files of a client that leaves those of the others alone
FilesBecome(c, g) == \/ files' = [files EXCEPT ![c] = g]
                     \/ files' = files /\ g = files[c]

(* A step of one client leaves the others and their files alone.           *)
LEMMA OthersStay ==
  ASSUME LiveInv, NEW c \in Clients, NEW n, NEW g, Good(c, n, g),
         client' = [client EXCEPT ![c] = n], FilesBecome(c, g)
  PROVE  /\ DOMAIN client' = Clients /\ DOMAIN files' = Clients
         /\ client'[c] = n /\ files'[c] = g
         /\ \A d \in Clients : d # c => client'[d] = client[d] /\ files'[d] = files[d]
         /\ (\A d \in Clients : Good(d, client[d], files[d]))'
<1>1. /\ DOMAIN client' = Clients /\ DOMAIN files' = Clients
      /\ client'[c] = n /\ files'[c] = g
      /\ \A d \in Clients : d # c => client'[d] = client[d] /\ files'[d] = files[d]
  BY DEF LiveInv, FilesBecome
<1>2. ASSUME NEW d \in Clients PROVE Good(d, client'[d], files'[d])
  BY <1>1 DEF LiveInv
<1>3. QED
  BY <1>1, <1>2

(* A step outside of the query changes neither Teachers nor lock.          *)
LEMMA QuietStep ==
  ASSUME LiveInv, NEW c \in Clients, NEW n, NEW g, Good(c, n, g),
         client' = [client EXCEPT ![c] = n], FilesBecome(c, g),
         \A i \in 1..Expected : files[c].context[i] # NoFile => g.context[i] # NoFile,
         client[c].phase # "query", n.phase # "query", UNCHANGED <<teachers, lock>>
  PROVE  LiveInv'
<1>1. /\ DOMAIN client' = Clients /\ DOMAIN files' = Clients
      /\ client'[c] = n /\ files'[c] = g
      /\ \A d \in Clients : d # c => client'[d] = client[d] /\ files'[d] = files[d]
      /\ (\A d \in Clients : Good(d, client[d], files[d]))'
  BY OthersStay
<1>2. \A d \in Clients : client'[d].phase = "query" => lock' = d
  BY <1>1 DEF LiveInv
<1>3. ASSUME NEW t \in teachers' PROVE TeacherOK(t)'
  <2>1. /\ TeacherOK(t) /\ t.id.client \in Clients /\ t.id.index \in 1..Expected
        /\ t \in [id : ContextIds, loaded : ContextIds \union {NoContext}]
    BY DEF LiveInv, TeacherOK, ContextIds
  <2>2. files'[t.id.client].context[t.id.index] # NoFile
    BY <1>1, <2>1 DEF TeacherOK
  <2>3. ~Kills => Awaited(t, client'[t.id.client])
    BY <1>1, <2>1 DEF TeacherOK, Awaited
  <2>4. QED
    BY <2>1, <2>2, <2>3 DEF TeacherOK
<1>4. QED
  BY <1>1, <1>2, <1>3 DEF LiveInv

(* Applying a treatment keeps the invariant.                               *)
LEMMA TreatKeeps == ASSUME LiveInv, NEW c \in Clients, Treat(c) PROVE LiveInv'
<1> DEFINE r == client[c]
           f == files[c]
           o == TreatmentOutput(Treated(r), "partial")
           g == [f EXCEPT !.output = o]
<1>1. /\ r.phase = "infer" /\ MoreChunks(r) /\ r.pending # NoLabel
      /\ client' = [client EXCEPT ![c] = Treated(r)]
      /\ files' = [files EXCEPT ![c] = g] /\ UNCHANGED <<teachers, lock>>
  BY DEF Treat, Treated
<1>2. Good(c, r, f)
  BY DEF LiveInv
<1> HIDE DEF o
<1>3. Good(c, r, g) /\ g.context = f.context
  BY <1>1, <1>2, OutputWritten
<1>4. Treated(r).phase # "query"
  BY <1>2 DEF Good, Treated, Runs
<1>5. Good(c, Treated(r), g)
  BY <1>1, <1>3, TreatGood
<1> HIDE DEF g
<1>6. QED
  BY <1>1, <1>3, <1>4, <1>5, QuietStep DEF FilesBecome

(* A chunk keeps the invariant.                                            *)
LEMMA ChunkKeeps == ASSUME LiveInv, NEW c \in Clients, Chunk(c) PROVE LiveInv'
<1> DEFINE r == client[c]
           f == files[c]
<1>1. Good(c, r, f)
  BY DEF LiveInv
<1>2. /\ \/ r.phase = "act"
         \/ r.phase = "infer" /\ MoreChunks(r) /\ r.pending = NoLabel
      /\ UNCHANGED <<teachers, lock>>
  BY DEF Chunk
<1>3. PICK success \in BOOLEAN, failed \in Failures, quiet \in Quiets :
        LET moved == Driven(r, success, failed)
            seen == Seen(r, moved, quiet)
            fired == Sampled(r) /\ seen.events # << >>
            next == IF ~Sampled(r) THEN moved
                    ELSE [moved EXCEPT !.detector = seen.detector,
                                       !.event = IF fired THEN seen.events[1] ELSE @,
                                       !.target = IF fired THEN EventTarget(moved.frame) ELSE @]
        IN  /\ client' = [client EXCEPT ![c] = [next EXCEPT !.phase = NextPhase(next)]]
            /\ files' = IF ~Sampled(r) THEN files
                        ELSE [files EXCEPT
                          ![c].trace = [attempt |-> r.attempt,
                                        status |-> IF fired THEN "event_triggered" ELSE "pending"],
                          ![c].event = IF fired THEN [attempt |-> r.attempt, frame |-> next.frame]
                                       ELSE @]
  BY Zenon DEF Chunk, Driven, Seen
<1>4. failed \in Nat /\ quiet \in BOOLEAN
  BY Schedule
<1> DEFINE m == Driven(r, success, failed)
           seen == Seen(r, m, quiet)
           next == Watched(r, m, seen)
           n == [next EXCEPT !.phase = NextPhase(next)]
           g == Noted(f, r, m, seen)
<1>5. Good(c, n, g) /\ n.phase # "query" /\ g.context = f.context
  BY <1>1, <1>2, <1>4, ChunkGood
<1>6. client' = [client EXCEPT ![c] = n] /\ FilesBecome(c, g)
  <2>1. m \in Runs
    BY <1>1, <1>4, DrivenFields DEF Good, Counting
  <2> HIDE DEF m, seen
  <2>2. CASE ~Sampled(r)
    <3>1. next = m /\ g = f
      BY <2>2 DEF Watched, Noted
    <3>2. client' = [client EXCEPT ![c] = [m EXCEPT !.phase = NextPhase(m)]] /\ files' = files
      BY <1>3, <2>2 DEF m, seen
    <3>3. QED
      BY <3>1, <3>2 DEF FilesBecome
  <2>3. CASE Sampled(r)
    <3>1. next.frame = m.frame
      BY <2>1 DEF Watched, Runs
    <3>2. next = [m EXCEPT !.detector = seen.detector,
                           !.event = IF seen.events # << >> THEN seen.events[1] ELSE @,
                           !.target = IF seen.events # << >> THEN EventTarget(m.frame) ELSE @]
      BY <2>3 DEF Watched
    <3>3. client' = [client EXCEPT ![c] = n]
      BY <1>3, <2>3, <3>2 DEF m, seen
    <3>4. files' = [files EXCEPT
                      ![c].trace = [attempt |-> r.attempt,
                                    status |-> IF seen.events # << >> THEN "event_triggered"
                                               ELSE "pending"],
                      ![c].event = IF seen.events # << >>
                                   THEN [attempt |-> r.attempt, frame |-> next.frame] ELSE @]
      BY <1>3, <2>3, <3>2 DEF m, seen
    <3>5. files' = [files EXCEPT ![c] = g]
      BY <2>3, <3>1, <3>4 DEF Noted, LiveInv
    <3>6. QED
      BY <3>3, <3>5 DEF FilesBecome
  <2>4. QED
    BY <2>2, <2>3
<1> HIDE DEF n, g
<1>7. QED
  BY <1>2, <1>5, <1>6, QuietStep

(* A pause keeps the invariant.                                            *)
LEMMA PauseKeeps == ASSUME LiveInv, NEW c \in Clients, Pause(c) PROVE LiveInv'
<1> DEFINE r == client[c]
           f == files[c]
           n == [Traced(r) EXCEPT !.phase = "wait"]
           g == [f EXCEPT !.context[QueryPath(Index(r))] = ContextId(c, r)]
<1>1. /\ r.phase = "pause" /\ UNCHANGED <<teachers, lock>>
      /\ client' = [client EXCEPT ![c] = n] /\ files' = [files EXCEPT ![c] = g]
  BY DEF Pause
<1>2. /\ Good(c, n, g) /\ n.phase = "wait"
      /\ \A i \in 1..Expected : f.context[i] # NoFile => g.context[i] # NoFile
  BY <1>1, PauseGood DEF LiveInv
<1> HIDE DEF n, g
<1>3. QED
  BY <1>1, <1>2, QuietStep DEF FilesBecome

(* A check keeps the invariant, failing or not.                            *)
LEMMA CheckKeeps == ASSUME LiveInv, NEW c \in Clients, Check(c) PROVE LiveInv'
<1> DEFINE r == client[c]
           f == files[c]
<1>1. r.phase = "check" /\ UNCHANGED <<files, teachers, lock>> /\ Good(c, r, f) /\ r \in Runs
  BY DEF Check, LiveInv, Good
<1>2. CASE LabelMatches(ContextId(c, r), f.context[Index(r)], f.label[Index(r)])
  <2> DEFINE n == [r EXCEPT !.phase = "record", !.pending = f.label[Index(r)]]
  <2>1. client' = [client EXCEPT ![c] = n]
    BY <1>2 DEF Check, QueryPath
  <2>2. Good(c, n, f)
    BY <1>1, <1>2, CheckGood
  <2>3. n.phase # "query"
    BY <1>1 DEF Runs
  <2> HIDE DEF n
  <2>4. QED
    BY <1>1, <2>1, <2>2, <2>3, QuietStep DEF FilesBecome
<1>3. CASE ~LabelMatches(ContextId(c, r), f.context[Index(r)], f.label[Index(r)])
  <2>1. client' = [client EXCEPT ![c] = Moved(r, "failed")]
    BY <1>3 DEF Check, QueryPath, Moved
  <2>2. Good(c, Moved(r, "failed"), f)
    BY <1>1, MovedOut
  <2>3. Moved(r, "failed").phase # "query"
    BY <1>1, MovedFields DEF Phases
  <2>4. QED
    BY <1>1, <2>1, <2>2, <2>3, QuietStep DEF FilesBecome
<1>4. QED
  BY <1>2, <1>3

(* Recording a treatment keeps the invariant.                              *)
LEMMA RecordKeeps == ASSUME LiveInv, NEW c \in Clients, RecordTreatment(c) PROVE LiveInv'
<1> DEFINE r == client[c]
           f == files[c]
           row == [frame |-> r.frame, label |-> r.pending, applied |-> FALSE,
                   event |-> r.event]
           n == [r EXCEPT !.phase = "infer", !.records = Append(@, row),
                          !.target = NextTarget(Len(r.records) + 2)]
           o == TreatmentOutput(n, "pending")
           g == [f EXCEPT !.output = o]
<1>1. /\ r.phase = "record"
      /\ Dynamic => r.event # NoEvent
      /\ UNCHANGED <<teachers, lock>>
      /\ client' = [client EXCEPT ![c] = n] /\ files' = [files EXCEPT ![c] = g]
  BY DEF RecordTreatment
<1>2. Good(c, r, f) /\ r \in Runs
  BY DEF LiveInv, Good
<1>3. n.phase # "query"
  BY <1>2 DEF Runs
<1> HIDE DEF o
<1>4. Good(c, r, g) /\ g.context = f.context
  BY <1>1, <1>2, OutputWritten
<1>5. Good(c, n, g)
  BY <1>1, <1>4, RecordGood
<1> HIDE DEF n, g
<1>6. QED
  BY <1>1, <1>3, <1>4, <1>5, QuietStep DEF FilesBecome

(* The end of an episode keeps the invariant.                              *)
LEMMA EndKeeps == ASSUME LiveInv, NEW c \in Clients, End(c) PROVE LiveInv'
<1> DEFINE r == client[c]
           f == files[c]
           g == IF ~Dynamic THEN f
                ELSE [f EXCEPT !.trace = [attempt |-> r.attempt, status |-> TraceStatus(r)],
                               !.event = IF NoEventTerminal(r)
                                         THEN [attempt |-> r.attempt, frame |-> NoFrame] ELSE @]
<1>1. Ended(r) /\ UNCHANGED <<teachers, lock>> /\ Good(c, r, f) /\ r \in Runs
  BY DEF End, LiveInv, Good
<1>2. r.phase # "query"
  BY <1>1 DEF Ended
<1>3. CASE NoEventTerminal(r) \/ ScheduleCompleted(r)
  <2>1. client' = [client EXCEPT ![c] = Moved(r, "publish")]
    BY <1>3 DEF End, Moved
  <2>2. FilesBecome(c, g)
    BY <1>3 DEF End, FilesBecome, LiveInv
  <2>3. Moved(r, "publish").phase # "query"
    BY <1>1, MovedFields DEF Phases
  <2>4. /\ ~Dynamic => g = f
        /\ Dynamic => g = [f EXCEPT !.trace = [attempt |-> r.attempt, status |-> TraceStatus(r)],
                                    !.event = IF NoEventTerminal(r)
                                              THEN [attempt |-> r.attempt, frame |-> NoFrame]
                                              ELSE @]
    OBVIOUS
  <2> HIDE DEF g
  <2>5. Good(c, Moved(r, "publish"), g) /\ g.context = f.context
    BY <1>1, <1>3, <2>4, EndGood
  <2>6. QED
    BY <1>1, <1>2, <2>1, <2>2, <2>3, <2>5, QuietStep
<1>4. CASE ~(NoEventTerminal(r) \/ ScheduleCompleted(r))
  <2>1. client' = [client EXCEPT ![c] = Moved(r, "failed")] /\ UNCHANGED files
    BY <1>4 DEF End, Moved
  <2>2. Good(c, Moved(r, "failed"), f)
    BY <1>1, MovedOut
  <2>3. Moved(r, "failed").phase # "query"
    BY <1>1, MovedFields DEF Phases
  <2>4. QED
    BY <1>1, <1>2, <2>1, <2>2, <2>3, QuietStep DEF FilesBecome
<1>5. QED
  BY <1>3, <1>4

(* Publishing the output keeps the invariant.                              *)
LEMMA PublishKeeps == ASSUME LiveInv, NEW c \in Clients, Publish(c) PROVE LiveInv'
<1> DEFINE r == client[c]
           f == files[c]
           o == TreatmentOutput(r, IF NoEventTerminal(r) THEN "no_event" ELSE "completed")
           g == [f EXCEPT !.output = o]
<1>1. /\ r.phase = "publish" /\ UNCHANGED <<teachers, lock>>
      /\ client' = [client EXCEPT ![c] = Moved(r, "done")]
      /\ files' = [files EXCEPT ![c] = g]
  BY DEF Publish, Moved
<1>2. Good(c, r, f) /\ r \in Runs
  BY DEF LiveInv, Good
<1>3. Moved(r, "done").phase # "query"
  BY <1>2, MovedFields DEF Phases
<1>4. Good(c, r, g) /\ g.context = f.context /\ g.output = o
  BY <1>1, <1>2, OutputWritten
<1>5. Good(c, Moved(r, "done"), g)
  BY <1>1, <1>4, PublishGood
<1> HIDE DEF g
<1>6. QED
  BY <1>1, <1>3, <1>4, <1>5, QuietStep DEF FilesBecome

(* An exception keeps the invariant.                                       *)
LEMMA RaiseKeeps == ASSUME LiveInv, NEW c \in Clients, Raise(c) PROVE LiveInv'
<1> DEFINE r == client[c]
<1>1. /\ r.phase # "query" /\ UNCHANGED <<files, teachers, lock>>
      /\ client' = [client EXCEPT ![c] = Moved(r, "failed")]
  BY DEF Raise, Moved
<1>2. Good(c, r, files[c]) /\ r \in Runs
  BY DEF LiveInv, Good
<1>3. Good(c, Moved(r, "failed"), files[c])
  BY <1>2, MovedOut
<1>4. Moved(r, "failed").phase # "query"
  BY <1>2, MovedFields DEF Phases
<1>5. QED
  BY <1>1, <1>3, <1>4, QuietStep DEF FilesBecome

(* Another attempt on the same paths keeps the invariant.                  *)
LEMMA RerunKeeps == ASSUME LiveInv, NEW c \in Clients, Rerun(c) PROVE LiveInv'
<1> DEFINE r == client[c]
           n == NewClient(r.attempt + 1, r.limit)
<1>1. /\ r.phase # "query" /\ r.attempt < MaxAttempts /\ UNCHANGED <<files, teachers, lock>>
      /\ client' = [client EXCEPT ![c] = n]
  BY DEF Rerun
<1>2. r \in Runs /\ FilesTyped(files[c])
  BY DEF LiveInv, Good
<1>3. r.attempt + 1 \in 1..MaxAttempts /\ r.limit \in StepLimits
  BY <1>1, <1>2, Schedule DEF Runs
<1>4. Good(c, n, files[c]) /\ n.phase = "infer"
  BY <1>2, <1>3, NewGood
<1> HIDE DEF n
<1>5. QED
  BY <1>1, <1>4, QuietStep DEF FilesBecome

(* A query takes the lock and starts a Teacher for the context just saved. *)
LEMMA QueryKeeps == ASSUME LiveInv, NEW c \in Clients, Query(c) PROVE LiveInv'
<1> DEFINE r == client[c]
           f == files[c]
           n == Moved(r, "query")
           new == [id |-> ContextId(c, r), loaded |-> NoContext]
<1>1. /\ r.phase = "wait" /\ lock = NoClient /\ lock' = c /\ UNCHANGED files
      /\ teachers' = teachers \union {new}
      /\ client' = [client EXCEPT ![c] = n]
  BY DEF Query, LockFree, Moved
<1>2. Good(c, r, f) /\ r \in Runs /\ FilesTyped(f)
  BY DEF LiveInv, Good
<1>3. Good(c, n, f) /\ n.phase = "query" /\ n.attempt = r.attempt /\ n.records = r.records
  BY <1>1, <1>2, MovedOn, MovedFields DEF Phases
<1> HIDE DEF n
<1>4. /\ DOMAIN client' = Clients /\ DOMAIN files' = Clients
      /\ client'[c] = n /\ files'[c] = f
      /\ \A d \in Clients : d # c => client'[d] = client[d] /\ files'[d] = files[d]
      /\ (\A d \in Clients : Good(d, client[d], files[d]))'
  BY <1>1, <1>3, OthersStay DEF FilesBecome
<1>5. \A d \in Clients : client[d].phase # "query"
  BY <1>1, Sentinels DEF LiveInv
<1>6. \A d \in Clients : client'[d].phase = "query" => lock' = d
  BY <1>1, <1>4, <1>5
<1>7. \A t \in teachers : Kills /\ TeacherOK(t)
  BY <1>5 DEF LiveInv, TeacherOK, Awaited, ContextIds
<1>8. ASSUME NEW t \in teachers PROVE TeacherOK(t)'
  BY <1>1, <1>7 DEF TeacherOK
<1>9. /\ new \in [id : ContextIds, loaded : ContextIds \union {NoContext}]
      /\ files'[new.id.client].context[new.id.index] # NoFile
      /\ Awaited(new, client'[new.id.client])
  <2>1. Index(r) \in 1..Expected
    BY <1>1, <1>2, LenProperties, ScheduleFacts DEF Good, Targeted, Paused, Index, Runs
  <2>2. ContextId(c, r) \in ContextIds /\ ContextId(c, n) = ContextId(c, r)
    BY <1>2, <1>3, <2>1 DEF ContextId, ContextIds, Runs, Index
  <2>3. /\ new.id = ContextId(c, r) /\ new.id.client = c /\ new.id.index = Index(r)
        /\ new \in [id : ContextIds, loaded : ContextIds \union {NoContext}]
    BY <2>2 DEF ContextId
  <2> HIDE DEF new
  <2>4. f.context[Index(r)] # NoFile
    BY <1>1, <1>2, <2>2, Sentinels DEF Good, Labelled
  <2>5. Awaited(new, n)
    BY <1>3, <2>2, <2>3 DEF Awaited
  <2>6. QED
    BY <1>1, <1>4, <2>3, <2>4, <2>5
<1> HIDE DEF new
<1>10. ~Kills => teachers' = {new}
  BY <1>1, <1>7
<1>11. ASSUME NEW t \in teachers' PROVE TeacherOK(t)'
  <2>1. CASE t = new
    BY <1>9, <2>1 DEF TeacherOK
  <2>2. QED
    BY <1>1, <1>8, <2>1
<1>12. ~Kills => \A t, u \in teachers' : t.id.client = u.id.client => t = u
  BY <1>10
<1>13. QED
  BY <1>1, <1>4, <1>6, <1>11, <1>12 DEF LiveInv

(* A kill frees the lock and leaves the Teacher behind.                    *)
LEMMA KillKeeps == ASSUME LiveInv, NEW c \in Clients, Kill(c) PROVE LiveInv'
<1> DEFINE r == client[c]
           n == Moved(r, "killed")
<1>1. /\ Kills /\ r.phase # "failed" /\ UNCHANGED <<files, teachers>>
      /\ client' = [client EXCEPT ![c] = n]
      /\ lock' = IF lock = c THEN NoClient ELSE lock
  BY DEF Kill, Moved
<1>2. Good(c, r, files[c]) /\ r \in Runs
  BY DEF LiveInv, Good
<1>3. Good(c, n, files[c]) /\ n.phase = "killed"
  BY <1>1, <1>2, MovedOut, MovedFields DEF Phases
<1> HIDE DEF n
<1>4. /\ DOMAIN client' = Clients /\ DOMAIN files' = Clients
      /\ client'[c] = n
      /\ \A d \in Clients : d # c => client'[d] = client[d] /\ files'[d] = files[d]
      /\ (\A d \in Clients : Good(d, client[d], files[d]))'
  BY <1>1, <1>3, OthersStay DEF FilesBecome
<1>5. \A d \in Clients : client'[d].phase = "query" => lock' = d
  BY <1>1, <1>3, <1>4 DEF LiveInv
<1>6. ASSUME NEW t \in teachers PROVE TeacherOK(t)'
  BY <1>1 DEF LiveInv, TeacherOK
<1>7. lock' \in Clients \union {NoClient}
  BY <1>1 DEF LiveInv
<1>8. QED
  BY <1>1, <1>4, <1>5, <1>6, <1>7 DEF LiveInv

(* A Teacher reads the context that is in the file by then.                *)
LEMMA LoadKeeps == ASSUME LiveInv, NEW t \in teachers, TeacherLoads(t) PROVE LiveInv'
<1> DEFINE u == [t EXCEPT !.loaded = files[t.id.client].context[t.id.index]]
<1>1. /\ UNCHANGED <<client, files, lock>> /\ teachers' = (teachers \ {t}) \union {u}
  BY DEF TeacherLoads, QueryPath
<1>2. TeacherOK(t) /\ t.id.client \in Clients /\ t.id.index \in 1..Expected
  BY DEF LiveInv, TeacherOK, ContextIds
<1>3. files[t.id.client].context[t.id.index] \in ContextIds
  <2>1. FilesTyped(files[t.id.client])
    BY <1>2 DEF LiveInv, Good
  <2>2. files[t.id.client].context[t.id.index] # NoFile
    BY <1>2 DEF TeacherOK
  <2>3. QED
    BY <1>2, <2>1, <2>2 DEF FilesTyped
<1>4. /\ u.id = t.id
      /\ u \in [id : ContextIds, loaded : ContextIds \union {NoContext}]
  BY <1>2, <1>3 DEF TeacherOK
<1> HIDE DEF u
<1>5. TeacherOK(u)
  BY <1>2, <1>4 DEF TeacherOK, Awaited
<1>6. \A v \in teachers' : TeacherOK(v)
  BY <1>1, <1>5 DEF LiveInv
<1>7. (\A v \in teachers : TeacherOK(v))'
  BY <1>1, <1>6 DEF TeacherOK
<1>8. ~Kills => \A v, w \in teachers' : v.id.client = w.id.client => v = w
  BY <1>1, <1>4 DEF LiveInv
<1>9. (\A d \in Clients : Good(d, client[d], files[d]))'
  BY <1>1 DEF LiveInv
<1>10. QED
  BY <1>1, <1>7, <1>8, <1>9 DEF LiveInv

\* The Teacher is gone, and its client goes on if it waits for it.
LEMMA ExitStep ==
  ASSUME LiveInv, NEW t \in teachers, NEW next \in {"check", "failed"}, Exit(t, next),
         NEW g, FilesBecome(t.id.client, g), g.context = files[t.id.client].context,
         Good(t.id.client, client[t.id.client], g),
         Awaited(t, client[t.id.client]) =>
            Good(t.id.client, Moved(client[t.id.client], next), g)
  PROVE  LiveInv'
<1> DEFINE c == t.id.client
           r == client[c]
           n == IF Awaited(t, r) THEN Moved(r, next) ELSE r
<1>1. c \in Clients /\ r \in Runs
  BY DEF LiveInv, TeacherOK, ContextIds, Good
<1>2. /\ teachers' = teachers \ {t}
      /\ client' = IF Awaited(t, r) THEN [client EXCEPT ![c] = Moved(r, next)] ELSE client
      /\ lock' = IF Awaited(t, r) THEN NoClient ELSE lock
  BY DEF Exit, Awaited, Moved, LockAfter
<1>3. /\ DOMAIN client' = Clients /\ DOMAIN files' = Clients
      /\ client'[c] = n /\ files'[c] = g
      /\ \A d \in Clients : d # c => client'[d] = client[d] /\ files'[d] = files[d]
  BY <1>1, <1>2 DEF LiveInv, FilesBecome
<1>4. Good(c, n, g)
  OBVIOUS
<1>5. Awaited(t, r) => r.phase = "query" /\ n.phase # "query"
  BY <1>1, MovedFields DEF Phases, Awaited
<1>6. ~Awaited(t, r) => n = r
  OBVIOUS
<1> HIDE DEF n
<1>7. ASSUME NEW d \in Clients PROVE Good(d, client'[d], files'[d])
  BY <1>3, <1>4 DEF LiveInv
<1>8. \A d \in Clients : client'[d].phase = "query" => lock' = d
  BY <1>1, <1>2, <1>3, <1>5, <1>6 DEF LiveInv
<1>9. lock' \in Clients \union {NoClient}
  BY <1>2 DEF LiveInv
<1>10. ASSUME NEW u \in teachers' PROVE TeacherOK(u)'
  <2>1. /\ u \in teachers /\ u # t /\ TeacherOK(u) /\ u.id.client \in Clients
        /\ u.id.index \in 1..Expected
        /\ u \in [id : ContextIds, loaded : ContextIds \union {NoContext}]
    BY <1>2 DEF LiveInv, TeacherOK, ContextIds
  <2>2. files'[u.id.client].context[u.id.index] # NoFile
    BY <1>3, <2>1 DEF TeacherOK
  <2>3. ~Kills => u.id.client # c
    BY <2>1 DEF LiveInv
  <2>4. ~Kills => Awaited(u, client'[u.id.client])
    BY <1>3, <2>1, <2>3 DEF TeacherOK
  <2>5. QED
    BY <2>1, <2>2, <2>4 DEF TeacherOK
<1>11. ~Kills => \A u, v \in teachers' : u.id.client = v.id.client => u = v
  BY <1>2 DEF LiveInv
<1>12. QED
  BY <1>3, <1>7, <1>8, <1>9, <1>10, <1>11 DEF LiveInv

(* A Teacher writes its label and, if it is awaited, its client goes on to *)
(* the check.                                                              *)
LEMMA LabelKeeps == ASSUME LiveInv, NEW t \in teachers, TeacherLabels(t) PROVE LiveInv'
<1> DEFINE c == t.id.client
           i == t.id.index
           r == client[c]
           f == files[c]
           l == [semantic |-> t.loaded, file |-> f.context[i]]
           g == [f EXCEPT !.label[i] = l]
<1>1. /\ t.loaded # NoContext /\ Exit(t, "check")
      /\ files' = [files EXCEPT ![c] = g]
  BY DEF TeacherLabels, QueryPath
<1>2. TeacherOK(t) /\ c \in Clients /\ i \in 1..Expected
  BY DEF LiveInv, TeacherOK, ContextIds
<1>3. Good(c, r, f)
  BY <1>2 DEF LiveInv
<1>4. l \in Labels
  <2>1. f.context[i] \in ContextIds
    BY <1>2, <1>3 DEF Good, FilesTyped, TeacherOK
  <2>2. t.loaded \in ContextIds
    BY <1>1, <1>2 DEF TeacherOK
  <2>3. QED
    BY <2>1, <2>2 DEF Labels
<1>5. Awaited(t, r) => r.phase = "query" /\ i = Index(r)
  BY DEF Awaited, ContextId
<1>6. ~Kills => Awaited(t, r)
  BY <1>2 DEF TeacherOK
<1> HIDE DEF l
<1>7. Good(c, r, g) /\ g.context = f.context /\ g.label[i] = l
  BY <1>2, <1>3, <1>4, <1>5, <1>6, LabelWritten
<1>8. Awaited(t, r) => Good(c, Moved(r, "check"), g)
  BY <1>2, <1>4, <1>5, <1>7, MovedOn, Sentinels
<1> HIDE DEF g
<1>9. QED
  BY <1>1, <1>7, <1>8, ExitStep DEF FilesBecome

(* A Teacher that fails, fails the client that awaits it.                  *)
LEMMA FailKeeps == ASSUME LiveInv, NEW t \in teachers, TeacherFails(t) PROVE LiveInv'
<1>1. UNCHANGED files /\ Exit(t, "failed")
  BY DEF TeacherFails
<1>2. t.id.client \in Clients
  BY DEF LiveInv, TeacherOK, ContextIds
<1>3. Good(t.id.client, client[t.id.client], files[t.id.client])
  BY <1>2 DEF LiveInv
<1>4. Good(t.id.client, Moved(client[t.id.client], "failed"), files[t.id.client])
  BY <1>2, <1>3, MovedOut
<1>5. QED
  BY <1>1, <1>3, <1>4, ExitStep DEF FilesBecome

-----------------------------------------------------------------------------

(* Initially nothing has been done and every file is missing.              *)
LEMMA InitHolds == ASSUME Init PROVE LiveInv
<1>1. PICK limit \in StepLimits : client = [c \in Clients |-> NewClient(1, limit)]
  BY DEF Init
<1>2. /\ files = [c \in Clients |-> [context |-> [i \in 1..Expected |-> NoFile],
                                     label |-> [i \in 1..Expected |-> NoFile],
                                     output |-> NoFile, event |-> NoFile, trace |-> NoFile]]
      /\ teachers = {} /\ lock = NoClient
  BY DEF Init
<1>3. ASSUME NEW c \in Clients
      PROVE  Good(c, client[c], files[c]) /\ client[c].phase = "infer"
  <2>1. FilesTyped(files[c])
    BY <1>2 DEF FilesTyped
  <2>2. 1 \in 1..MaxAttempts
    BY Schedule
  <2>3. QED
    BY <1>1, <2>1, <2>2, NewGood
<1>4. QED
  BY <1>1, <1>2, <1>3 DEF LiveInv

(* Clients, files, Teachers and lock agree in every reachable state.       *)
THEOREM TreatmentInvariance == Spec => []LiveInv
<1>1. Init => LiveInv
  BY InitHolds
<1>2. LiveInv /\ [Next]_vars => LiveInv'
  <2> SUFFICES ASSUME LiveInv, [Next]_vars PROVE LiveInv'
    OBVIOUS
  <2>1. ASSUME NEW c \in Clients, ClientStep(c) PROVE LiveInv'
    BY <2>1, TreatKeeps, ChunkKeeps, PauseKeeps, QueryKeeps, CheckKeeps, RecordKeeps,
       EndKeeps, PublishKeeps DEF ClientStep
  <2>2. ASSUME NEW c \in Clients, Raise(c) \/ Kill(c) \/ Rerun(c) PROVE LiveInv'
    BY <2>2, RaiseKeeps, KillKeeps, RerunKeeps
  <2>3. ASSUME NEW t \in teachers, TeacherStep(t) PROVE LiveInv'
    BY <2>3, LoadKeeps, LabelKeeps, FailKeeps DEF TeacherStep
  <2>4. ASSUME UNCHANGED vars PROVE LiveInv'
    BY <2>4 DEF vars, LiveInv, TeacherOK
  <2>5. QED
    BY <2>1, <2>2, <2>3, <2>4 DEF Next
<1>3. QED
  BY <1>1, <1>2, PTL DEF Spec

(* The type invariant.                                                     *)
LEMMA TypesHold == ASSUME LiveInv PROVE TypeOK
<1>1. ASSUME NEW c \in Clients
      PROVE  LET r == client[c]
             IN  /\ r.phase \in Phases /\ r.attempt \in 1..MaxAttempts
                 /\ r.frame \in 0..(ChunkFrames * r.limit) /\ r.target \in Nat
                 /\ r.applied \in 0..Expected /\ Len(r.records) \in r.applied..(r.applied + 1)
                 /\ r.traced \in {"prefix", "continuation"}
                 /\ \A i \in 1..Expected : files[c].context[i] \in ContextIds \union {NoFile}
  <2> DEFINE r == client[c]
  <2>1. r \in Runs /\ Counting(r) /\ FilesTyped(files[c])
    BY DEF LiveInv, Good
  <2>2. Len(r.records) \in Nat /\ r.limit \in Nat /\ r.frame \in Nat /\ r.applied \in Nat
    BY <2>1, LenProperties, ScheduleFacts DEF Runs
  <2>3. r.frame \in 0..(ChunkFrames * r.limit)
    BY <2>1, <2>2 DEF Counting, ChunkFrames
  <2>4. r.applied \in 0..Expected /\ Len(r.records) \in r.applied..(r.applied + 1)
    BY <2>1, <2>2, ScheduleFacts DEF Counting
  <2>5. /\ r.phase \in Phases /\ r.attempt \in 1..MaxAttempts /\ r.target \in Nat
        /\ r.traced \in {"prefix", "continuation"}
    BY <2>1 DEF Runs
  <2>6. \A i \in 1..Expected : files[c].context[i] \in ContextIds \union {NoFile}
    BY <2>1 DEF FilesTyped
  <2>7. QED
    BY <2>3, <2>4, <2>5, <2>6
<1>2. \A t \in teachers : t.id \in ContextIds /\ t.loaded \in ContextIds \union {NoContext}
  BY DEF LiveInv, TeacherOK
<1>3. QED
  BY <1>1, <1>2 DEF TypeOK, LiveInv

(* Labels are of this attempt and boundary.                                *)
LEMMA LabelsFresh == ASSUME LiveInv PROVE LabelFresh
<1> SUFFICES ASSUME NEW c \in Clients, NEW i \in DOMAIN client[c].records
             PROVE  client[c].records[i].label = OwnLabel(c, client[c], i)
  BY DEF LabelFresh, OwnLabel, Own
<1>1. client[c] \in Runs /\ Labelled(c, client[c], files[c])
  BY DEF LiveInv, Good
<1>2. i \in 1..Len(client[c].records)
  BY <1>1, LenProperties DEF Runs
<1>3. QED
  BY <1>1, <1>2 DEF Labelled

(* The lock admits one query.                                              *)
LEMMA OneWaits == ASSUME LiveInv PROVE OneTeacher
BY DEF LiveInv, OneTeacher

(* A completed output has all calls.                                       *)
LEMMA CallsAddUp == ASSUME LiveInv PROVE CallsCounted
<1> SUFFICES ASSUME NEW c \in Clients, client[c].phase = "done"
             PROVE  files[c].output.calls = client[c].calls
  BY DEF CallsCounted
<1>1. Counting(client[c]) /\ Finished(client[c], files[c])
  BY DEF LiveInv, Good
<1>2. files[c].output.calls = client[c].prefix + client[c].continuation
  BY <1>1 DEF Finished, TreatmentOutput
<1>3. QED
  BY <1>1, <1>2 DEF Counting

(* Scheduled treatments are neither missed nor reordered.                  *)
LEMMA ScheduleKept == ASSUME LiveInv, ~Dynamic PROVE NoBoundaryMissed
<1> SUFFICES ASSUME NEW c \in Clients
             PROVE  LET r == client[c]
                    IN  /\ \A i \in DOMAIN r.records : r.records[i].frame = Frames[i]
                        /\ r.phase # "failed" =>
                             \A i \in DOMAIN Frames : r.frame > Frames[i] =>
                                 i \in DOMAIN r.records /\ r.records[i].applied
                        /\ r.phase = "done" => \/ r.success
                                               \/ \A i \in DOMAIN Frames :
                                                     i \in DOMAIN r.records /\ r.records[i].applied
  BY DEF NoBoundaryMissed
<1> DEFINE r == client[c]
           k == Len(r.records)
<1>1. r \in Runs /\ Counting(r) /\ Targeted(r) /\ Scheduled(r)
  BY DEF LiveInv, Good
<1>2. /\ DOMAIN r.records = 1..k /\ k \in Nat /\ r.applied \in Nat /\ r.frame \in Nat
      /\ DOMAIN Frames = 1..Expected
  BY <1>1, LenProperties, Schedule DEF Runs, Expected
<1>3. /\ r.applied <= k /\ k <= r.applied + 1 /\ k <= Expected
      /\ \A i \in 1..k : i <= r.applied => r.records[i].applied
      /\ r.target = NextTarget(k + 1)
      /\ \A i \in 1..k : r.records[i].frame = Frames[i]
      /\ r.phase # "failed" => r.frame <= r.target
      /\ r.phase # "failed" /\ r.applied < k => r.frame = Frames[k]
      /\ r.phase = "done" => r.success \/ r.applied = Expected
  BY <1>1 DEF Counting, Targeted, Scheduled, Index
<1> HIDE DEF r, k
<1>4. ASSUME r.phase # "failed", NEW i \in 1..Expected, r.frame > Frames[i]
      PROVE  i \in 1..k /\ r.records[i].applied
  <2>1. Frames[i] \in Nat /\ Expected \in Nat
    BY ScheduleFacts
  <2>2. i <= k
    <3> SUFFICES ASSUME i > k PROVE FALSE
      BY <1>2
    <3>1. k + 1 \in 1..Expected /\ r.target = Frames[k + 1]
      BY <1>2, <1>3, <2>1 DEF NextTarget
    <3>2. Frames[k + 1] <= Frames[i] /\ Frames[k + 1] \in Nat
      BY <1>2, <2>1, <3>1, ScheduleFacts
    <3>3. QED
      BY <1>2, <1>3, <1>4, <2>1, <3>1, <3>2
  <2>3. i <= r.applied
    <3> SUFFICES ASSUME i > r.applied PROVE FALSE
      BY <1>2
    <3>1. i = k /\ r.applied < k
      BY <1>2, <1>3, <2>2
    <3>2. QED
      BY <1>2, <1>3, <1>4, <2>1, <3>1
  <2>4. QED
    BY <1>3, <2>2, <2>3
<1>5. ASSUME r.phase = "done", r.applied = Expected, NEW i \in 1..Expected
      PROVE  i \in 1..k /\ r.records[i].applied
  BY <1>2, <1>3, <1>5, ScheduleFacts
<1>6. QED
  BY <1>2, <1>3, <1>4, <1>5 DEF r

(* Dynamic treatments follow their event.                                  *)
LEMMA EventsCause == ASSUME LiveInv, Dynamic PROVE EventCausal
<1> SUFFICES ASSUME NEW c \in Clients, client[c].records # << >>
             PROVE  LET r == client[c]
                    IN  /\ r.event # NoEvent
                        /\ r.records[1].frame = r.event.frame
                        /\ files[c].event = [attempt |-> r.attempt, frame |-> r.event.frame]
                        /\ ~Latest(r.detector.history).terminal
                        /\ Latest(r.detector.history).frame = r.event.frame
  BY DEF EventCausal
<1>1. Caused(client[c], files[c])
  BY DEF LiveInv, Good
<1>2. client[c].event # NoEvent /\ Fired(client[c], files[c], client[c].records[1].frame)
  BY <1>1 DEF Caused
<1>3. QED
  BY <1>2 DEF Fired

(* The files of a completed dynamic episode agree.                         *)
LEMMA StoriesAgree == ASSUME LiveInv, Dynamic PROVE CompletedTogether
<1> SUFFICES ASSUME NEW c \in Clients, client[c].phase = "done"
             PROVE  LET f == files[c]
                    IN  /\ f.output.attempt = client[c].attempt
                        /\ f.trace.attempt = client[c].attempt
                        /\ f.event.attempt = client[c].attempt
                        /\ f.output.kind = "no_event" <=> f.trace.status = "no_event_terminal"
                        /\ f.output.kind = "no_event" <=> f.event.frame = NoFrame
                        /\ f.output.kind = "completed" <=>
                              f.trace.status = "completed_event_treatment"
  BY DEF CompletedTogether
<1> DEFINE r == client[c]
           f == files[c]
<1>1. r \in Runs /\ Counting(r) /\ Caused(r, f) /\ Finished(r, f)
  BY DEF LiveInv, Good
<1>2. NoEventTerminal(r) <=> r.records = << >>
  <2>1. r.pending = NoLabel /\ r.applied = Len(r.records)
    BY <1>1 DEF Counting, Settled, Paused
  <2>2. QED
    BY <1>1, <2>1, EmptySeq DEF NoEventTerminal, Runs
<1>3. /\ f.output.attempt = r.attempt
      /\ f.output.kind = IF NoEventTerminal(r) THEN "no_event" ELSE "completed"
  BY <1>1 DEF Finished, TreatmentOutput
<1>4. f.trace = [attempt |-> r.attempt, status |-> TraceStatus(r)]
  BY <1>1 DEF Caused
<1>5. CASE r.records = << >>
  <2>1. f.event = [attempt |-> r.attempt, frame |-> NoFrame]
    BY <1>1, <1>5 DEF Caused
  <2>2. QED
    BY <1>2, <1>3, <1>4, <1>5, <2>1 DEF TraceStatus
<1>6. CASE r.records # << >>
  <2>1. f.event = [attempt |-> r.attempt, frame |-> r.records[1].frame]
    BY <1>1, <1>6 DEF Caused, Fired
  <2>2. r.records \in Seq(Rows) /\ 1 \in 1..Len(r.records)
    BY <1>1, <1>6, EmptySeq DEF Runs
  <2>3. r.records[1].frame \in Nat
    <3>1. r.records[1] \in Rows
      BY <2>2, ElementOfSeq
    <3>2. QED
      BY <3>1 DEF Rows
  <2>4. f.event.frame # NoFrame /\ f.event.attempt = r.attempt
    BY <2>1, <2>3, Sentinels
  <2>5. QED
    BY <1>2, <1>3, <1>4, <1>6, <2>4 DEF TraceStatus
<1>7. QED
  BY <1>5, <1>6

(* Without kills the label files hold the labels applied.                  *)
LEMMA FilesAgree == ASSUME LiveInv, ~Kills PROVE LabelsOnDisk
<1> SUFFICES ASSUME NEW c \in Clients, NEW i \in DOMAIN client[c].records
             PROVE  files[c].label[i] = client[c].records[i].label
  BY DEF LabelsOnDisk
<1>1. client[c] \in Runs /\ Labelled(c, client[c], files[c])
  BY DEF LiveInv, Good
<1>2. i \in 1..Len(client[c].records)
  BY <1>1, LenProperties DEF Runs
<1>3. QED
  BY <1>1, <1>2 DEF Labelled

(* Treatments are labelled by this attempt at this boundary, on schedule   *)
(* or at their event, and what a finished episode wrote is what happened.  *)
THEOREM TreatmentsAreSound == Spec => []TreatmentsSound
<1>1. LiveInv => TreatmentsSound
  BY TypesHold, LabelsFresh, OneWaits, CallsAddUp, ScheduleKept, EventsCause, StoriesAgree,
     FilesAgree DEF TreatmentsSound
<1>2. QED
  BY <1>1, TreatmentInvariance, PTL
-----------------------------------------------------------------------------
(* StageOTrace: the passive trace of the same events, of any rollout and   *)
(* with any budget, window and cooldown.                                   *)
\* Of a list that is one longer: its length and its elements.
LEMMA OneMore ==
    ASSUME NEW S, NEW list \in Seq(S), NEW x \in S
    PROVE  /\ Append(list, x) \in Seq(S) /\ Len(Append(list, x)) = Len(list) + 1
           /\ Append(list, x)[Len(list) + 1] = x /\ Append(list, x) # << >>
           /\ \A i \in 1..Len(list) : Append(list, x)[i] = list[i]
           /\ list \o << x >> = Append(list, x) /\ list \o << >> = list
           /\ Len(list) \in Nat /\ (list = << >> <=> Len(list) = 0)
OBVIOUS

\* Multiples of a chunk are ordered as what they are multiples of.
LEMMA Multiples ==
    ASSUME NEW c \in Nat \ {0}, NEW a \in Nat, NEW b \in Nat
    PROVE  c * a \in Nat /\ (a < b => c * a < c * b) /\ (c * a = c * b => a = b)
<1>1. c * a \in Nat OBVIOUS
<1>2. ASSUME NEW m \in Nat, NEW n \in Nat, m < n PROVE c * m < c * n
  <2>1. PICK d \in Nat : n = m + d /\ d > 0
    <3>1. n - m \in Nat /\ n = m + (n - m) /\ n - m > 0 BY <1>2
    <3> QED BY <3>1
  <2>2. c * n = c * m + c * d BY <2>1
  <2>3. c * d > 0 /\ c * d \in Nat BY <2>1
  <2>4. c * m \in Nat OBVIOUS
  <2>5. PICK x \in Nat, y \in Nat : x = c * m /\ y = c * d BY <2>3, <2>4
  <2> QED BY <2>2, <2>3, <2>5
<1>3. c * a = c * b => a = b
  <2>1. CASE a < b BY <1>2, <2>1
  <2>2. CASE b < a BY <1>2, <2>2
  <2> QED BY <2>1, <2>2
<1> QED BY <1>1, <1>2, <1>3

(* What is said of the samples and the events of a trace, as values.       *)
PlaceIn(trace, frame) == CHOOSE i \in DOMAIN trace : trace[i].frame = frame
FailAt(trace, list, i) == IF i = 0 THEN 0 ELSE trace[PlaceIn(trace, list[i].frame)].failures
LastIn(trace, list) == IF list = << >> THEN 0 ELSE PlaceIn(trace, list[Len(list)].frame)

InFrames(trace) == trace \in Seq(Trace!Sample) /\ \A i \in 1..Len(trace) : trace[i].frame = TraceFrames * i

ChargedOnce(trace, list) ==
    \A i \in 1..Len(list) : list[i].since = FailAt(trace, list, i) - FailAt(trace, list, i - 1)

Due(trace, list, last, i) ==
    /\ i > last /\ i >= Window /\ ~trace[i].terminal
    /\ Len(list) < MaxEvents
    /\ trace[i].frame >= MinFrame
    /\ (last = 0 \/ trace[i].frame - trace[last].frame >= Cooldown)

NotLost(trace, list, last) ==
    \A i \in 1..Len(trace) :
        Due(trace, list, last, i) =>
            trace[i].failures = IF last = 0 THEN 0 ELSE trace[last].failures

Stall(trace, last, cont) ==
    /\ last - Window + 1 >= 1
    /\ \A i \in (last - Window + 1)..last : trace[i].ordinal = trace[last].ordinal
    /\ IF cont THEN trace[last].scalar <= trace[last - Window + 1].scalar + Epsilon
       ELSE trace[last].failures > trace[last - Window + 1].failures

Stalls(trace, list, cont) ==
    \A e \in 1..Len(list) :
        list[e].kind = "stalled_progress" => Stall(trace, PlaceIn(trace, list[e].frame), cont)

\* These are what the properties of the trace say.
LEMMA AsValues ==
    ASSUME Trace!Typed
    PROVE  /\ Trace!FailuresChargedOnce <=> ChargedOnce(samples, observableEvents)
           /\ Trace!FailuresNotLost <=> NotLost(samples, observableEvents, LastIn(samples, observableEvents))
           /\ Trace!StallsSustained <=> Stalls(samples, events, continuous)
           /\ \A i : Trace!FailuresAt(i) = FailAt(samples, observableEvents, i)
<1>1. DOMAIN samples = 1..Len(samples) /\ DOMAIN events = 1..Len(events)
      /\ DOMAIN observableEvents = 1..Len(observableEvents)
  BY DEF Trace!Typed
<1>2. \A f : Trace!SampleAt(f) = PlaceIn(samples, f) BY DEF Trace!SampleAt, PlaceIn
<1>3. \A i : Trace!FailuresAt(i) = FailAt(samples, observableEvents, i)
  BY <1>2 DEF Trace!FailuresAt, FailAt
<1>4. Trace!FailuresChargedOnce <=> ChargedOnce(samples, observableEvents)
  BY <1>1, <1>3 DEF Trace!FailuresChargedOnce, ChargedOnce
<1>5. Trace!FailuresNotLost <=> NotLost(samples, observableEvents, LastIn(samples, observableEvents))
  BY <1>1, <1>2 DEF Trace!FailuresNotLost, NotLost, Due, LastIn, Trace!Latest
<1>6. Trace!StallsSustained <=> Stalls(samples, events, continuous)
  BY <1>1, <1>2 DEF Trace!StallsSustained, Stalls, Stall
<1> QED BY <1>3, <1>4, <1>5, <1>6

\* The same of the state after a step.
LEMMA AsValuesNext ==
    ASSUME Trace!Typed'
    PROVE  /\ Trace!FailuresChargedOnce' <=> ChargedOnce(samples', observableEvents')
           /\ Trace!FailuresNotLost' <=> NotLost(samples', observableEvents', LastIn(samples', observableEvents'))
           /\ Trace!StallsSustained' <=> Stalls(samples', events', continuous')
           /\ \A i : Trace!FailuresAt(i)' = FailAt(samples', observableEvents', i)
<1>1. DOMAIN samples' = 1..Len(samples') /\ DOMAIN events' = 1..Len(events')
      /\ DOMAIN observableEvents' = 1..Len(observableEvents')
  BY DEF Trace!Typed
<1>2. \A f : Trace!SampleAt(f)' = PlaceIn(samples', f) BY DEF Trace!SampleAt, PlaceIn
<1>3. \A i : Trace!FailuresAt(i)' = FailAt(samples', observableEvents', i)
  BY <1>2 DEF Trace!FailuresAt, FailAt
<1>4. Trace!FailuresChargedOnce' <=> ChargedOnce(samples', observableEvents')
  BY <1>1, <1>3 DEF Trace!FailuresChargedOnce, ChargedOnce
<1>5. Trace!FailuresNotLost' <=> NotLost(samples', observableEvents', LastIn(samples', observableEvents'))
  BY <1>1, <1>2 DEF Trace!FailuresNotLost, NotLost, Due, LastIn, Trace!Latest
<1>6. Trace!StallsSustained' <=> Stalls(samples', events', continuous')
  BY <1>1, <1>2 DEF Trace!StallsSustained, Stalls, Stall
<1> QED BY <1>3, <1>4, <1>5, <1>6

\* A frame of a trace belongs to one sample of it.
LEMMA PlaceIs ==
    ASSUME Trace!Configured, NEW trace, InFrames(trace), NEW k \in 1..Len(trace)
    PROVE  PlaceIn(trace, TraceFrames * k) = k
<1>1. trace[k].frame = TraceFrames * k BY DEF InFrames
<1>2. DOMAIN trace = 1..Len(trace) /\ Len(trace) \in Nat BY DEF InFrames
<1>3. PlaceIn(trace, TraceFrames * k) \in 1..Len(trace)
      /\ trace[PlaceIn(trace, TraceFrames * k)].frame = TraceFrames * k
  BY <1>1, <1>2 DEF PlaceIn
<1>4. PICK n \in 1..Len(trace) : n = PlaceIn(trace, TraceFrames * k) BY <1>3
<1>5. TraceFrames * n = TraceFrames * k BY <1>3, <1>4 DEF InFrames
<1> QED BY <1>2, <1>4, <1>5, Multiples DEF Trace!Configured

\* What the recorder is given after a chunk.
Given(sample) ==
    /\ sample \in Trace!Sample /\ sample.frame = TraceFrames * (Len(samples) + 1)
    /\ calls <= sample.failures /\ calls' = sample.failures
    /\ sample.scalar = NoScalar <=> ~continuous

\* A chunk gives the recorder such a sample.
LEMMA ChunkGives ==
    ASSUME Trace!Configured, Trace!Typed, Trace!Chunk
    PROVE  /\ phase = "running" /\ ~Trace!Succeeded /\ UNCHANGED <<phase, continuous>>
           /\ \E sample \in Trace!Sample : Given(sample) /\ Trace!Observe(sample)
<1>1. phase = "running" /\ ~Trace!Succeeded /\ UNCHANGED <<phase, continuous>>
  BY DEF Trace!Chunk, Trace!MoreChunks
<1>2. PICK ordinal \in Ordinals, scalar \in Scalars, failed \in TraceFailures,
           quiet \in TraceQuiets, terminal \in BOOLEAN :
        /\ calls' = calls + failed
        /\ Trace!Observe([ frame |-> TraceFrames * (Len(samples) + 1), ordinal |-> ordinal,
                     scalar |-> IF continuous THEN scalar ELSE NoScalar,
                     failures |-> calls + failed, quiet |-> quiet, terminal |-> terminal ])
  BY DEF Trace!Chunk
<1> DEFINE sample == [ frame |-> TraceFrames * (Len(samples) + 1), ordinal |-> ordinal,
                     scalar |-> IF continuous THEN scalar ELSE NoScalar,
                     failures |-> calls + failed, quiet |-> quiet, terminal |-> terminal ]
<1>3. Len(samples) \in Nat /\ calls \in Nat BY DEF Trace!Typed
<1>4. TraceFrames * (Len(samples) + 1) \in Nat BY <1>3, Multiples DEF Trace!Configured
<1>5. /\ ordinal \in Nat /\ scalar \in Nat /\ failed \in Nat /\ quiet \in BOOLEAN
      /\ calls + failed \in Nat
  BY <1>2, <1>3 DEF Trace!Configured
<1>6. sample \in Trace!Sample BY <1>4, <1>5 DEF Trace!Sample
<1>7. Given(sample)
  <2>1. (sample.scalar = NoScalar) <=> ~continuous BY <1>5 DEF Trace!Configured
  <2>2. /\ sample.frame = TraceFrames * (Len(samples) + 1) /\ sample.failures = calls + failed
    OBVIOUS
  <2>3. calls <= calls + failed BY <1>3, <1>5
  <2> QED BY <1>2, <1>6, <2>1, <2>2, <2>3 DEF Given
<1> QED BY <1>1, <1>2, <1>6, <1>7

\* The longer trace: the new sample is the last, the others stay where they were.
LEMMA LongerTrace ==
    ASSUME Trace!Configured, Trace!Typed, Trace!Sampled, ~Trace!Succeeded, UNCHANGED continuous,
           NEW sample \in Trace!Sample, Given(sample), samples' = Append(samples, sample)
    PROVE  /\ samples' \in Seq(Trace!Sample) /\ Len(samples') = Len(samples) + 1
           /\ samples'[Len(samples) + 1] = sample
           /\ \A i \in 1..Len(samples) : samples'[i] = samples[i] /\ ~samples'[i].terminal
           /\ calls' \in Nat /\ Trace!Sampled'
<1>1. /\ samples' \in Seq(Trace!Sample) /\ Len(samples') = Len(samples) + 1
      /\ Len(samples) \in Nat
      /\ samples'[Len(samples) + 1] = sample
      /\ \A i \in 1..Len(samples) : samples'[i] = samples[i]
  BY OneMore DEF Trace!Typed
<1>2. calls \in Nat /\ calls' \in Nat /\ calls <= calls' /\ sample.failures = calls'
  BY DEF Trace!Typed, Given, Trace!Sample
<1>3. \A i \in 1..Len(samples) : ~samples[i].terminal
  BY <1>1 DEF Trace!Sampled, Trace!Succeeded, Trace!Latest
<1>4. \A i \in 1..Len(samples) : samples[i].failures \in Nat /\ samples[i].failures <= calls
  <2>1. \A i \in 1..Len(samples) : samples[i] \in Trace!Sample BY DEF Trace!Typed
  <2> QED BY <2>1 DEF Trace!Sampled, Trace!Sample
<1>5. ASSUME NEW i \in 1..Len(samples')
      PROVE  /\ samples'[i].frame = TraceFrames * i
             /\ samples'[i].failures <= calls'
             /\ (samples'[i].scalar = NoScalar) <=> ~continuous'
             /\ samples'[i].terminal => i = Len(samples')
  <2>1. CASE i = Len(samples) + 1 BY <1>1, <1>2, <2>1 DEF Given
  <2>2. CASE i # Len(samples) + 1
    <3>1. i \in 1..Len(samples) BY <1>1, <2>2
    <3> QED BY <1>1, <1>2, <1>3, <1>4, <3>1 DEF Trace!Sampled
  <2> QED BY <2>1, <2>2
<1>6. ASSUME NEW i \in 1..Len(samples'), NEW j \in 1..Len(samples'), i <= j
      PROVE  samples'[i].failures <= samples'[j].failures
  <2>1. CASE j = Len(samples) + 1
    <3>1. samples'[j].failures = calls' BY <1>1, <1>2, <2>1
    <3> QED BY <1>5, <3>1
  <2>2. CASE j # Len(samples) + 1
    <3>1. i \in 1..Len(samples) /\ j \in 1..Len(samples) BY <1>1, <1>6, <2>2
    <3> QED BY <1>1, <1>6, <3>1 DEF Trace!Sampled
  <2> QED BY <2>1, <2>2
<1>7. Trace!Sampled' BY <1>5, <1>6 DEF Trace!Sampled
<1> QED BY <1>1, <1>2, <1>3, <1>7

\* a detector by its fields
Holds(d, h, last, emitted, charged) ==
    d \in Trace!Detector /\ d.history = h /\ d.last = last /\ d.emitted = emitted /\ d.charged = charged

\* What recording a sample and emitting an event at it leave behind.
LEMMA LeftBehind ==
    ASSUME NEW d \in Trace!Detector, NEW sample \in Trace!Sample, NEW charged \in Nat
    PROVE  LET h == Append(d.history, sample) IN
           /\ Len(h) \in Nat /\ Trace!Latest(h) = sample
           /\ Holds(Trace!Record(d, sample), h, d.last, d.emitted, d.charged)
           /\ Holds(Trace!Emit(Trace!Record(d, sample), sample, charged), h, sample.frame, d.emitted + 1, charged)
<1> DEFINE h == Append(d.history, sample)
<1>1. d.history \in Seq(Trace!Sample) /\ d.emitted \in Nat /\ sample.frame \in Nat
  BY DEF Trace!Detector, Trace!Sample
<1>2. h \in Seq(Trace!Sample) /\ Len(h) \in Nat /\ Trace!Latest(h) = sample
  BY <1>1, OneMore DEF Trace!Latest
<1> DEFINE seen == Trace!Record(d, sample)
<1>3. seen = [d EXCEPT !.history = h] BY DEF Trace!Record
<1> HIDE DEF h, seen
<1>4. /\ seen \in Trace!Detector /\ seen.history = h /\ seen.last = d.last
      /\ seen.emitted = d.emitted
      /\ seen.charged = d.charged
  BY <1>2, <1>3 DEF Trace!Detector
<1>5. Trace!Emit(seen, sample, charged) =
        [seen EXCEPT !.emitted = @ + 1, !.last = sample.frame, !.charged = charged]
  BY DEF Trace!Emit
<1>6. Holds(Trace!Emit(seen, sample, charged), h, sample.frame, d.emitted + 1, charged)
  <2> DEFINE e == [seen EXCEPT !.emitted = @ + 1, !.last = sample.frame, !.charged = charged]
  <2>1. seen.emitted + 1 \in Nat /\ seen.history \in Seq(Trace!Sample)
    BY <1>4 DEF Trace!Detector
  <2>2. e \in Trace!Detector BY <1>1, <1>4, <2>1 DEF Trace!Detector
  <2>3. e.history = seen.history /\ e.last = sample.frame BY <1>4 DEF Trace!Detector
  <2>4. e.emitted = seen.emitted + 1 /\ e.charged = charged BY <1>4 DEF Trace!Detector
  <2> HIDE DEF e
  <2>5. Holds(e, h, sample.frame, d.emitted + 1, charged) BY <1>4, <2>2, <2>3, <2>4 DEF Holds
  <2> QED BY <1>5, <2>5 DEF e
<1>7. Holds(seen, h, d.last, d.emitted, d.charged) BY <1>4 DEF Holds
<1> QED BY <1>2, <1>6, <1>7 DEF h, seen

ProgressQuiet(d, seen, h) ==
    seen.events = << >> /\ Holds(seen.detector, h, d.last, d.emitted, d.charged)
ProgressFires(d, sample, max, seen, h) ==
    /\ Trace!MayFire(d, sample.frame, max)
    /\ Holds(seen.detector, h, sample.frame, d.emitted + 1, 0)
    /\ \E kind \in {"phase_transition", "stalled_progress"} :
          /\ seen.events = << [index |-> d.emitted, kind |-> kind,
                               frame |-> sample.frame, since |-> 0] >>
          /\ kind = "stalled_progress" => Len(h) >= Window /\ Trace!Stalled(Trace!Recent(h))

\* What the progress detector answers: nothing, or one event it may fire at the sample.
LEMMA ProgressAnswer ==
    ASSUME NEW d \in Trace!Detector, NEW sample \in Trace!Sample, NEW max,
           NEW seen, seen = Trace!ObserveProgress(d, sample, max), NEW h, h = Append(d.history, sample)
    PROVE  \/ ProgressQuiet(d, seen, h)
           \/ ProgressFires(d, sample, max, seen, h)
<1> DEFINE kind == Trace!ProgressTrigger(d, h, sample.frame, max)
<1>1. Trace!Record(d, sample).history = h /\ Trace!Latest(h).frame = sample.frame
  BY LeftBehind DEF Holds
<1>2. /\ seen.detector = IF kind = "none" THEN Trace!Record(d, sample) ELSE Trace!Emit(Trace!Record(d, sample), sample, 0)
      /\ seen.events = IF kind = "none" THEN << >>
                       ELSE << [index |-> d.emitted, kind |-> kind, frame |-> sample.frame, since |-> 0] >>
  BY <1>1 DEF Trace!ObserveProgress, Trace!Boundary
<1>3. /\ kind \in {"none", "phase_transition", "stalled_progress"}
      /\ kind # "none" => Trace!MayFire(d, sample.frame, max)
      /\ kind = "stalled_progress" => Len(h) >= Window /\ Trace!Stalled(Trace!Recent(h))
  BY DEF Trace!ProgressTrigger
<1>4. /\ Holds(Trace!Record(d, sample), h, d.last, d.emitted, d.charged)
      /\ Holds(Trace!Emit(Trace!Record(d, sample), sample, 0), h, sample.frame, d.emitted + 1, 0)
  BY LeftBehind
<1> HIDE DEF kind
<1>5. CASE kind = "none" BY <1>2, <1>4, <1>5 DEF ProgressQuiet
<1>6. CASE kind # "none" BY <1>2, <1>3, <1>4, <1>6 DEF ProgressFires
<1> QED BY <1>5, <1>6

ObservableQuiet(d, sample, max, seen, h) ==
    /\ seen.events = << >>
    /\ Holds(seen.detector, h, d.last, d.emitted, d.charged)
    /\ ~sample.terminal /\ Trace!MayFire(d, sample.frame, max) /\ Len(h) >= Window =>
          ~(sample.failures > d.charged)
ObservableFires(d, sample, max, seen, h) ==
    /\ Trace!MayFire(d, sample.frame, max) /\ ~sample.terminal
    /\ Holds(seen.detector, h, sample.frame, d.emitted + 1, sample.failures)
    /\ \E kind \in {"planner_non_success", "observable_stall"} :
          seen.events = << [index |-> d.emitted, kind |-> kind, frame |-> sample.frame,
                            since |-> sample.failures - d.charged] >>

\* What the observable detector answers; when it may fire and does not, nothing has failed since.
LEMMA ObservableAnswer ==
    ASSUME Trace!Configured, NEW d \in Trace!Detector, NEW sample \in Trace!Sample, NEW max,
           NEW seen, seen = Trace!ObserveObservable(d, sample, max), NEW h, h = Append(d.history, sample)
    PROVE  \/ ObservableQuiet(d, sample, max, seen, h)
           \/ ObservableFires(d, sample, max, seen, h)
<1> DEFINE kind == Trace!ObservableTrigger(d, h, sample, max)
<1>1. sample.failures \in Nat /\ sample.terminal \in BOOLEAN BY DEF Trace!Sample
<1>2. /\ Trace!Record(d, sample).history = h /\ Trace!Latest(h) = sample /\ Len(h) \in Nat
      /\ Window \in Nat
  BY LeftBehind DEF Holds, Trace!Configured, EventConfigValid
<1>3. /\ seen.detector = IF kind = "none" THEN Trace!Record(d, sample)
                         ELSE Trace!Emit(Trace!Record(d, sample), sample, sample.failures)
      /\ seen.events = IF kind = "none" THEN << >>
                       ELSE << [index |-> d.emitted, kind |-> kind, frame |-> sample.frame,
                                since |-> sample.failures - d.charged] >>
  BY <1>2 DEF Trace!ObserveObservable, Trace!Boundary, Trace!Charge
<1>4. /\ kind \in {"none", "planner_non_success", "observable_stall"}
      /\ kind # "none" => Trace!MayFire(d, sample.frame, max) /\ ~sample.terminal
      /\ kind = "none" => (~sample.terminal /\ Trace!MayFire(d, sample.frame, max) /\ Len(h) >= Window =>
                             ~(sample.failures > d.charged))
  <2> DEFINE fires == ~sample.terminal /\ Trace!MayFire(d, sample.frame, max) /\ Len(h) >= Window
  <2>1. CASE fires
    <3>1. kind = IF Trace!FailedSince(d, h) THEN "planner_non_success"
                 ELSE IF Trace!AllQuiet(Trace!Recent(h)) THEN "observable_stall" ELSE "none"
      BY <1>1, <1>2, <2>1 DEF Trace!ObservableTrigger
    <3>2. Trace!FailedSince(d, h) <=> sample.failures > d.charged BY <1>2 DEF Trace!FailedSince
    <3> HIDE DEF kind
    <3> QED BY <2>1, <3>1, <3>2
  <2>2. CASE ~fires
    <3>1. kind = "none" BY <1>1, <1>2, <2>2 DEF Trace!ObservableTrigger
    <3> HIDE DEF kind
    <3> QED BY <2>2, <3>1
  <2> QED BY <2>1, <2>2
<1>5. /\ Holds(Trace!Record(d, sample), h, d.last, d.emitted, d.charged)
      /\ Holds(Trace!Emit(Trace!Record(d, sample), sample, sample.failures), h, sample.frame, d.emitted + 1,
               sample.failures)
  BY <1>1, LeftBehind
<1> HIDE DEF kind
<1>6. CASE kind = "none" BY <1>3, <1>4, <1>5, <1>6 DEF ObservableQuiet
<1>7. CASE kind # "none" BY <1>3, <1>4, <1>5, <1>7 DEF ObservableFires
<1> QED BY <1>6, <1>7

\* A longer trace disturbs nothing that is remembered.
LEMMA StillRemembered ==
    ASSUME NEW d, NEW new, NEW list, NEW trace, NEW longer, Trace!Remembered(d, list, trace),
           new.emitted = d.emitted, new.last = d.last,
           Len(trace) \in Nat, Len(longer) \in Nat, Len(trace) <= Len(longer),
           \A i \in 1..Len(trace) : longer[i] = trace[i]
    PROVE  Trace!Remembered(new, list, longer)
<1>1. 1..Len(trace) \subseteq 1..Len(longer) OBVIOUS
<1> QED BY <1>1 DEF Trace!Remembered

\* An event that may fire at the newest sample is remembered after those before it.
LEMMA NewlyRemembered ==
    ASSUME Trace!Configured, NEW d \in Trace!Detector, NEW list \in Seq(Trace!Event),
           NEW trace, NEW longer,
           Trace!Remembered(d, list, trace), Trace!MayFire(d, longer[Len(longer)].frame, MaxEvents),
           Len(trace) \in Nat, Len(longer) = Len(trace) + 1,
           \A i \in 1..Len(trace) : longer[i] = trace[i],
           longer[Len(longer)].frame = TraceFrames * Len(longer), ~longer[Len(longer)].terminal,
           NEW e \in Trace!Event, e.index = d.emitted, e.frame = longer[Len(longer)].frame,
           NEW new, new.emitted = d.emitted + 1, new.last = e.frame
    PROVE  Trace!Remembered(new, Append(list, e), longer)
<1>1. /\ Append(list, e) \in Seq(Trace!Event) /\ Len(Append(list, e)) = Len(list) + 1
      /\ Append(list, e)[Len(list) + 1] = e /\ Append(list, e) # << >>
      /\ \A i \in 1..Len(list) : Append(list, e)[i] = list[i]
      /\ Len(list) \in Nat /\ (list = << >> <=> Len(list) = 0)
  BY OneMore
<1>2. /\ d.emitted = Len(list) /\ Len(list) < MaxEvents /\ MaxEvents \in Nat
      /\ e.frame >= MinFrame /\ (d.last = NoFrame \/ e.frame - d.last >= Cooldown)
      /\ MinFrame \in Nat /\ Cooldown \in Nat /\ NoFrame \notin Nat
  BY DEF Trace!Remembered, Trace!MayFire, Trace!CooldownElapsed, Trace!Configured,
         EventConfigValid
<1>3. e.frame \in Nat /\ \A i \in 1..Len(list) : list[i].frame \in Nat
  <2>1. \A i \in 1..Len(list) : list[i] \in Trace!Event OBVIOUS
  <2> QED BY <2>1 DEF Trace!Event
<1>4. ASSUME NEW j \in 1..Len(list) PROVE e.frame - list[j].frame >= Cooldown
  <2>1. Len(list) \in 1..Len(list) /\ list # << >> BY <1>1, <1>4
  <2>2. d.last = list[Len(list)].frame /\ d.last # NoFrame
    BY <1>2, <1>3, <2>1 DEF Trace!Remembered
  <2>3. e.frame - list[Len(list)].frame >= Cooldown BY <1>2, <2>2
  <2>4. CASE j = Len(list) BY <2>3, <2>4
  <2>5. CASE j # Len(list)
    <3>1. j \in 1..(Len(list) - 1) BY <1>1, <2>5
    <3>2. list[Len(list)].frame - list[j].frame >= Cooldown BY <2>1, <3>1 DEF Trace!Remembered
    <3>3. PICK a \in Nat, b \in Nat, c \in Nat :
            a = e.frame /\ b = list[Len(list)].frame /\ c = list[j].frame
      BY <1>3, <2>1
    <3>4. a - b >= Cooldown /\ b - c >= Cooldown BY <2>3, <3>2, <3>3
    <3>5. a - c >= Cooldown BY <1>2, <3>4
    <3> QED BY <3>3, <3>5
  <2> QED BY <2>4, <2>5
<1>5. ASSUME NEW i \in 1..Len(Append(list, e))
      PROVE  /\ Append(list, e)[i].index = i - 1 /\ Append(list, e)[i].frame >= MinFrame
             /\ \E k \in 1..Len(longer) :
                   Append(list, e)[i].frame = TraceFrames * k /\ ~longer[k].terminal
             /\ \A j \in 1..(i - 1) : Append(list, e)[i].frame - Append(list, e)[j].frame >= Cooldown
  <2>1. CASE i = Len(list) + 1
    <3>1. i - 1 = Len(list) BY <1>1, <2>1
    <3>2. Append(list, e)[i] = e /\ e.index = i - 1 BY <1>1, <1>2, <2>1, <3>1
    <3>3. Len(longer) \in 1..Len(longer) OBVIOUS
    <3>4. \A j \in 1..(i - 1) : Append(list, e)[j] = list[j] /\ e.frame - list[j].frame >= Cooldown
      BY <1>1, <1>4, <3>1
    <3> QED BY <1>2, <3>2, <3>3, <3>4
  <2>2. CASE i # Len(list) + 1
    <3>1. i \in 1..Len(list) BY <1>1, <2>2
    <3>2. Append(list, e)[i] = list[i] /\ \A j \in 1..(i - 1) : Append(list, e)[j] = list[j]
      BY <1>1, <3>1
    <3>3. \A k \in 1..Len(trace) : k \in 1..Len(longer) /\ longer[k] = trace[k] OBVIOUS
    <3> QED BY <3>1, <3>2, <3>3 DEF Trace!Remembered
  <2> QED BY <2>1, <2>2
<1>6. /\ new.emitted = Len(Append(list, e)) /\ Len(Append(list, e)) <= MaxEvents
      /\ new.last = Append(list, e)[Len(Append(list, e))].frame
  BY <1>1, <1>2
<1> QED BY <1>1, <1>5, <1>6 DEF Trace!Remembered

(* A trace and the one that is a sample longer.                            *)
Longer(trace, sample, longer) ==
    /\ InFrames(trace) /\ InFrames(longer) /\ sample \in Trace!Sample
    /\ longer = Append(trace, sample) /\ Len(longer) = Len(trace) + 1
    /\ longer[Len(longer)] = sample
    /\ \A i \in 1..Len(trace) : longer[i] = trace[i] /\ ~longer[i].terminal
    /\ \A i, j \in 1..Len(longer) : i <= j => longer[i].failures <= longer[j].failures

\* The sample an event names is found where it was.
LEMMA PlaceStays ==
    ASSUME Trace!Configured, NEW trace, NEW sample, NEW longer, Longer(trace, sample, longer),
           NEW d, NEW list, Trace!Remembered(d, list, trace), NEW i \in 1..Len(list)
    PROVE  \E k \in 1..Len(trace) :
             /\ list[i].frame = TraceFrames * k /\ ~trace[k].terminal
             /\ PlaceIn(trace, list[i].frame) = k /\ PlaceIn(longer, list[i].frame) = k
             /\ longer[k] = trace[k] /\ k < Len(longer)
<1>1. PICK k \in 1..Len(trace) : list[i].frame = TraceFrames * k /\ ~trace[k].terminal
  BY DEF Trace!Remembered
<1>2. Len(trace) \in Nat /\ Len(longer) = Len(trace) + 1 BY DEF Longer, InFrames
<1>3. k \in 1..Len(longer) /\ k < Len(longer) BY <1>2
<1>4. PlaceIn(trace, TraceFrames * k) = k BY PlaceIs DEF Longer
<1>5. PlaceIn(longer, TraceFrames * k) = k BY <1>3, PlaceIs DEF Longer
<1>6. longer[k] = trace[k] BY DEF Longer
<1> QED BY <1>1, <1>3, <1>4, <1>5, <1>6

\* The failures an event accounts for do not change with the trace or with later events.
LEMMA FailStays ==
    ASSUME Trace!Configured, NEW trace, NEW sample, NEW longer, Longer(trace, sample, longer),
           NEW d, NEW list \in Seq(Trace!Event), Trace!Remembered(d, list, trace), NEW i \in 0..Len(list)
    PROVE  /\ FailAt(longer, list, i) = FailAt(trace, list, i)
           /\ FailAt(trace, list, i) \in Nat /\ FailAt(trace, list, i) <= sample.failures
           /\ \A e : FailAt(longer, Append(list, e), i) = FailAt(trace, list, i)
<1>1. CASE i = 0
  <2>1. sample.failures \in Nat BY DEF Longer, Trace!Sample
  <2> QED BY <1>1, <2>1 DEF FailAt
<1>2. CASE i # 0
  <2>1. i \in 1..Len(list) /\ Len(list) \in Nat BY <1>2
  <2>2. PICK k \in 1..Len(trace) :
          /\ list[i].frame = TraceFrames * k /\ ~trace[k].terminal
          /\ PlaceIn(trace, list[i].frame) = k /\ PlaceIn(longer, list[i].frame) = k
          /\ longer[k] = trace[k] /\ k < Len(longer)
    BY <2>1, PlaceStays
  <2>3. \A e : Append(list, e)[i] = list[i] BY <2>1
  <2>4. trace[k].failures \in Nat
    <3>1. trace[k] \in Trace!Sample BY DEF Longer, InFrames
    <3> QED BY <3>1 DEF Trace!Sample
  <2>5. trace[k].failures <= sample.failures
    <3>1. Len(longer) \in Nat BY DEF Longer, InFrames
    <3>2. k \in 1..Len(longer) /\ Len(longer) \in 1..Len(longer) /\ k <= Len(longer)
      BY <2>2, <3>1
    <3>3. longer[k].failures <= longer[Len(longer)].failures BY <3>2 DEF Longer
    <3> QED BY <2>2, <3>3 DEF Longer
  <2> QED BY <1>2, <2>2, <2>3, <2>4, <2>5 DEF FailAt
<1> QED BY <1>1, <1>2

\* What was found of failures before holds for the longer trace, but for its newest sample.
LEMMA StillNotLost ==
    ASSUME Trace!Configured, NEW trace, NEW sample, NEW longer, Longer(trace, sample, longer),
           NEW list, NEW last \in 0..Len(trace), NotLost(trace, list, last),
           Due(longer, list, last, Len(longer)) =>
             sample.failures = IF last = 0 THEN 0 ELSE longer[last].failures
    PROVE  NotLost(longer, list, last)
<1>1. Len(trace) \in Nat /\ Len(longer) = Len(trace) + 1 /\ longer[Len(longer)] = sample
  BY DEF Longer, InFrames
<1>2. \A i \in 1..Len(trace) : longer[i] = trace[i] BY DEF Longer
<1>3. last # 0 => longer[last] = trace[last] BY <1>1, <1>2
<1>4. ASSUME NEW i \in 1..Len(longer), Due(longer, list, last, i)
      PROVE  longer[i].failures = IF last = 0 THEN 0 ELSE longer[last].failures
  <2>1. CASE i = Len(longer) BY <1>1, <1>4, <2>1
  <2>2. CASE i # Len(longer)
    <3>1. i \in 1..Len(trace) BY <1>1, <2>2
    <3>2. Due(trace, list, last, i) BY <1>2, <1>3, <1>4, <3>1 DEF Due
    <3>3. trace[i].failures = IF last = 0 THEN 0 ELSE trace[last].failures
      BY <3>1, <3>2 DEF NotLost
    <3> QED BY <1>2, <1>3, <3>1, <3>3
  <2> QED BY <2>1, <2>2
<1> QED BY <1>4 DEF NotLost

\* a list of events with what a detector answered added to it
Grown(list, new, now) ==
    \/ new = << >> /\ now = list
    \/ \E e \in Trace!Event : new = << e >> /\ now = Append(list, e)

\* what is known of a detector that has seen a trace and emitted a list of events
ObservableSaw(d, list, trace) ==
    /\ d \in Trace!Detector /\ d.history = trace /\ list \in Seq(Trace!Event)
    /\ Trace!Remembered(d, list, trace) /\ d.charged = FailAt(trace, list, Len(list))
    /\ ChargedOnce(trace, list) /\ NotLost(trace, list, LastIn(trace, list))
ObservableAnswers(d, sample, seen) == seen = Trace!ObserveObservable(d, sample, MaxEvents)

ProgressSaw(d, list, trace, cont) ==
    /\ d \in Trace!Detector /\ d.history = trace /\ list \in Seq(Trace!Event)
    /\ Trace!Remembered(d, list, trace) /\ Stalls(trace, list, cont)
ProgressAnswers(d, sample, seen) == seen = Trace!ObserveProgress(d, sample, MaxEvents)

\* The observable detector on the longer trace: no failure is charged twice or lost.
LEMMA ObservableKeeps ==
    ASSUME Trace!Configured, NEW trace, NEW sample, NEW longer, Longer(trace, sample, longer),
           NEW d, NEW list, ObservableSaw(d, list, trace),
           NEW seen, ObservableAnswers(d, sample, seen)
    PROVE  \E now : /\ now = list \o seen.events /\ Grown(list, seen.events, now)
                    /\ ObservableSaw(seen.detector, now, longer)
<1>0. /\ d \in Trace!Detector /\ d.history = trace /\ list \in Seq(Trace!Event)
      /\ Trace!Remembered(d, list, trace) /\ d.charged = FailAt(trace, list, Len(list))
      /\ ChargedOnce(trace, list) /\ NotLost(trace, list, LastIn(trace, list))
      /\ seen = Trace!ObserveObservable(d, sample, MaxEvents)
  BY DEF ObservableSaw, ObservableAnswers
<1> USE <1>0
<1>1. /\ Len(trace) \in Nat /\ Len(longer) = Len(trace) + 1 /\ longer[Len(longer)] = sample
      /\ sample \in Trace!Sample /\ longer = Append(d.history, sample) /\ Len(list) \in Nat
      /\ \A i \in 1..Len(trace) : longer[i] = trace[i]
  BY DEF Longer, InFrames
<1>2. sample.failures \in Nat /\ sample.frame \in Nat BY <1>1 DEF Trace!Sample
<1>3. \A i \in 0..Len(list) : FailAt(longer, list, i) = FailAt(trace, list, i)
  BY FailStays
<1>4. d.charged \in Nat /\ d.charged <= sample.failures
  <2>1. Len(list) \in 0..Len(list) BY <1>1
  <2> QED BY <2>1, FailStays
<1>5. \/ ObservableQuiet(d, sample, MaxEvents, seen, longer)
      \/ ObservableFires(d, sample, MaxEvents, seen, longer)
  BY <1>1, ObservableAnswer
<1>6. LastIn(trace, list) \in 0..Len(trace) /\ LastIn(longer, list) = LastIn(trace, list)
      /\ (list = << >> <=> LastIn(trace, list) = 0)
      /\ (list # << >> => list[Len(list)].frame = TraceFrames * LastIn(trace, list))
  <2>1. CASE list = << >> BY <1>1, <2>1 DEF LastIn
  <2>2. CASE list # << >>
    <3>1. Len(list) \in 1..Len(list) BY <2>2
    <3>2. PICK k \in 1..Len(trace) :
            /\ list[Len(list)].frame = TraceFrames * k
            /\ PlaceIn(trace, list[Len(list)].frame) = k
            /\ PlaceIn(longer, list[Len(list)].frame) = k
      BY <3>1, PlaceStays
    <3> QED BY <2>2, <3>2 DEF LastIn
  <2> QED BY <2>1, <2>2
<1>7. CASE ObservableQuiet(d, sample, MaxEvents, seen, longer)
  <2> USE <1>7 DEF ObservableQuiet
  <2>1. list \o seen.events = list /\ Grown(list, seen.events, list) BY <1>7 DEF Grown
  <2>2. Trace!Remembered(seen.detector, list, longer)
    <3>1. seen.detector.emitted = d.emitted /\ seen.detector.last = d.last BY DEF Holds
    <3>2. Len(longer) \in Nat /\ Len(trace) <= Len(longer) BY <1>1
    <3> HIDE <1>7 DEF ObservableQuiet
    <3> QED BY <1>1, <3>1, <3>2, StillRemembered
  <2>3. seen.detector.charged = FailAt(longer, list, Len(list))
    <3>1. Len(list) \in 0..Len(list) BY <1>1
    <3> QED BY <1>3, <1>7, <3>1 DEF Holds
  <2>4. ChargedOnce(longer, list)
    <3>1. \A i \in 1..Len(list) : i \in 0..Len(list) /\ i - 1 \in 0..Len(list) BY <1>1
    <3> QED BY <1>3, <3>1 DEF ChargedOnce
  <2>5. NotLost(longer, list, LastIn(longer, list))
    <3> DEFINE last == LastIn(trace, list)
    <3>1. ASSUME Due(longer, list, last, Len(longer))
          PROVE  sample.failures = IF last = 0 THEN 0 ELSE longer[last].failures
      <4>1. /\ ~sample.terminal /\ Len(longer) >= Window /\ Len(list) < MaxEvents
            /\ sample.frame >= MinFrame
            /\ (last = 0 \/ sample.frame - longer[last].frame >= Cooldown)
        BY <1>1, <3>1 DEF Due
      <4>2. Trace!MayFire(d, sample.frame, MaxEvents)
        <5>1. d.emitted = Len(list)
              /\ d.last = IF list = << >> THEN NoFrame ELSE list[Len(list)].frame
          BY DEF Trace!Remembered
        <5>2. list # << >> => longer[last].frame = list[Len(list)].frame
          <6>1. list # << >> => last \in 1..Len(trace) BY <1>1, <1>6
          <6>2. \A i \in 1..Len(trace) : longer[i].frame = TraceFrames * i
            BY <1>1 DEF Longer, InFrames
          <6> QED BY <1>6, <6>1, <6>2
        <5> QED BY <1>6, <4>1, <5>1, <5>2 DEF Trace!MayFire, Trace!CooldownElapsed
      <4>3. sample.failures = d.charged BY <1>2, <1>4, <1>7, <4>1, <4>2
      <4>4. d.charged = IF last = 0 THEN 0 ELSE longer[last].failures
        <5>1. CASE list = << >> BY <1>6, <5>1 DEF FailAt
        <5>2. CASE list # << >>
          <6>1. Len(list) # 0 /\ last # 0 /\ last \in 1..Len(trace) BY <1>1, <1>6, <5>2
          <6>2. d.charged = trace[last].failures BY <5>2, <6>1 DEF FailAt, LastIn
          <6> QED BY <1>1, <6>1, <6>2
        <5> QED BY <5>1, <5>2
      <4> QED BY <4>3, <4>4
    <3>2. NotLost(longer, list, last) BY <1>6, <3>1, StillNotLost
    <3> QED BY <1>6, <3>2
  <2>6. seen.detector \in Trace!Detector /\ seen.detector.history = longer BY <1>7 DEF Holds
  <2>7. ObservableSaw(seen.detector, list, longer)
    BY <2>2, <2>3, <2>4, <2>5, <2>6 DEF ObservableSaw
  <2> QED BY <2>1, <2>7
<1>8. CASE ObservableFires(d, sample, MaxEvents, seen, longer)
  <2>1. PICK kind \in {"planner_non_success", "observable_stall"} :
          seen.events = << [index |-> d.emitted, kind |-> kind, frame |-> sample.frame,
                            since |-> sample.failures - d.charged] >>
    BY <1>8 DEF ObservableFires
  <2>2. d.emitted \in Nat /\ kind \in Trace!Kinds /\ sample.failures - d.charged \in Int
    BY <1>2, <1>4 DEF Trace!Detector, Trace!Kinds
  <2>3. PICK e \in Trace!Event : /\ seen.events = << e >> /\ e.index = d.emitted /\ e.frame = sample.frame
                           /\ e.since = sample.failures - d.charged
    <3> DEFINE e == [index |-> d.emitted, kind |-> kind, frame |-> sample.frame,
                     since |-> sample.failures - d.charged]
    <3>1. e \in Trace!Event BY <1>2, <2>2 DEF Trace!Event
    <3>2. /\ seen.events = << e >> /\ e.index = d.emitted /\ e.frame = sample.frame
          /\ e.since = sample.failures - d.charged
      BY <2>1
    <3> QED BY <3>1, <3>2
  <2>4. list \o seen.events = Append(list, e) BY <2>3, OneMore
  <2>5. PICK now \in Seq(Trace!Event) : now = Append(list, e) /\ Grown(list, seen.events, now)
    <3>1. Append(list, e) \in Seq(Trace!Event) BY OneMore
    <3> QED BY <2>3, <3>1 DEF Grown
  <2>6. /\ Len(now) = Len(list) + 1 /\ now[Len(now)] = e /\ now # << >>
        /\ \A i \in 1..Len(list) : now[i] = list[i]
    BY <2>5, OneMore
  <2>7. seen.detector \in Trace!Detector /\ seen.detector.history = longer
        /\ seen.detector.emitted = d.emitted + 1 /\ seen.detector.last = e.frame
        /\ seen.detector.charged = sample.failures
    BY <1>8, <2>3 DEF ObservableFires, Holds
  <2>8. longer[Len(longer)].frame = TraceFrames * Len(longer) /\ Len(longer) \in 1..Len(longer)
    <3>1. Len(longer) \in 1..Len(longer) BY <1>1
    <3> QED BY <3>1 DEF Longer, InFrames
  <2>9. Trace!Remembered(seen.detector, now, longer)
    <3>1. /\ Trace!MayFire(d, longer[Len(longer)].frame, MaxEvents)
          /\ ~longer[Len(longer)].terminal
      BY <1>1, <1>8 DEF ObservableFires
    <3> QED BY <1>1, <2>3, <2>5, <2>7, <2>8, <3>1, NewlyRemembered
  <2>10. PlaceIn(longer, e.frame) = Len(longer)
    <3>1. e.frame = TraceFrames * Len(longer) BY <1>1, <2>3, <2>8
    <3> QED BY <2>8, <3>1, PlaceIs DEF Longer
  <2>11. FailAt(longer, now, Len(now)) = sample.failures
    BY <1>1, <2>6, <2>10 DEF FailAt
  <2>12. \A i \in 0..Len(list) : FailAt(longer, now, i) = FailAt(trace, list, i)
    BY <2>5, FailStays
  <2>13. ChargedOnce(longer, now)
    <3>1. ASSUME NEW i \in 1..Len(now)
          PROVE  now[i].since = FailAt(longer, now, i) - FailAt(longer, now, i - 1)
      <4>1. CASE i = Len(now)
        <5>1. i - 1 = Len(list) /\ Len(list) \in 0..Len(list) BY <1>1, <2>6, <4>1
        <5>2. FailAt(longer, now, i - 1) = d.charged BY <2>12, <5>1
        <5> QED BY <2>3, <2>6, <2>11, <4>1, <5>2
      <4>2. CASE i # Len(now)
        <5>1. i \in 1..Len(list) /\ i \in 0..Len(list) /\ i - 1 \in 0..Len(list)
          BY <1>1, <2>6, <4>2
        <5> QED BY <2>6, <2>12, <5>1 DEF ChargedOnce
      <4> QED BY <4>1, <4>2
    <3> QED BY <3>1 DEF ChargedOnce
  <2>14. NotLost(longer, now, LastIn(longer, now))
    <3>1. LastIn(longer, now) = Len(longer) BY <2>6, <2>10 DEF LastIn
    <3>2. \A i \in 1..Len(longer) : ~(i > Len(longer)) BY <1>1
    <3> QED BY <3>1, <3>2 DEF NotLost, Due
  <2>15. ObservableSaw(seen.detector, now, longer)
    BY <2>5, <2>7, <2>9, <2>11, <2>13, <2>14 DEF ObservableSaw
  <2>16. now = list \o seen.events BY <2>4, <2>5
  <2> QED BY <2>5, <2>15, <2>16
<1> QED BY <1>5, <1>7, <1>8

\* The newest samples of a trace, as the detector looks at them.
LEMMA RecentIs ==
    ASSUME Trace!Configured, NEW h \in Seq(Trace!Sample), Len(h) >= Window
    PROVE  /\ Len(Trace!Recent(h)) = Window /\ DOMAIN Trace!Recent(h) = 1..Window
           /\ Window \in Nat \ {0, 1}
           /\ \A j \in 1..Window : Trace!Recent(h)[j] = h[Len(h) - Window + j]
<1>1. Window \in Nat \ {0, 1} /\ Len(h) \in Nat BY DEF Trace!Configured, EventConfigValid
<1>2. PICK m \in Nat : m = Len(h) - Window BY <1>1
<1>3. Trace!Recent(h) = SubSeq(h, m + 1, Len(h)) BY <1>2 DEF Trace!Recent
<1>4. /\ Len(SubSeq(h, m + 1, Len(h))) = Window
      /\ \A j \in 1..Window : SubSeq(h, m + 1, Len(h))[j] = h[m + j]
  <2>1. m + 1 \in 1..Len(h) + 1 /\ Len(h) - (m + 1) + 1 = Window BY <1>1, <1>2
  <2>2. \A j \in 1..Window : (m + 1) + j - 1 = m + j BY <1>1, <1>2
  <2> QED BY <1>1, <1>2, <2>1, <2>2
<1>5. SubSeq(h, m + 1, Len(h)) \in Seq(Trace!Sample)
  <2>1. \A k \in (m + 1)..Len(h) : h[k] \in Trace!Sample BY <1>1, <1>2
  <2> QED BY <1>1, <1>2, <2>1
<1>6. DOMAIN SubSeq(h, m + 1, Len(h)) = 1..Window BY <1>4, <1>5
<1>7. \A j \in 1..Window : SubSeq(h, m + 1, Len(h))[j] = h[Len(h) - Window + j]
  BY <1>2, <1>4
<1> QED BY <1>1, <1>3, <1>4, <1>6, <1>7

\* A stall that the detector sees is one of the trace it saw.
LEMMA NewStall ==
    ASSUME Trace!Configured, NEW h \in Seq(Trace!Sample), NEW cont \in BOOLEAN,
           Len(h) >= Window,
           \A i \in 1..Len(h) : (h[i].scalar = NoScalar) <=> ~cont, Trace!Stalled(Trace!Recent(h))
    PROVE  Stall(h, Len(h), cont)
<1>1. /\ Len(Trace!Recent(h)) = Window /\ DOMAIN Trace!Recent(h) = 1..Window
      /\ Window \in Nat \ {0, 1}
      /\ \A j \in 1..Window : Trace!Recent(h)[j] = h[Len(h) - Window + j]
  BY RecentIs
<1>2. PICK n \in Nat, m \in Nat, w \in Nat \ {0, 1} :
        n = Len(h) /\ w = Window /\ m = n - w
  <2>1. Len(h) \in Nat /\ Len(h) - Window \in Nat BY <1>1
  <2> QED BY <1>1, <2>1
<1>3. /\ n - w + 1 = m + 1 /\ m + w = n /\ m + 1 \in 1..n /\ n \in 1..n /\ 1 \in 1..w
      /\ w \in 1..w
  BY <1>2
<1>4. Trace!Recent(h)[1] = h[m + 1] /\ Trace!Recent(h)[w] = h[n]
  BY <1>1, <1>2, <1>3
<1>5. \A k \in (m + 1)..n : h[k].ordinal = h[n].ordinal
  <2>1. \A j \in 1..w : Trace!Recent(h)[j].ordinal = Trace!Recent(h)[1].ordinal
    BY <1>1, <1>2 DEF Trace!Stalled, Trace!SameStage
  <2>2. ASSUME NEW k \in (m + 1)..n PROVE h[k].ordinal = h[m + 1].ordinal
    <3>1. PICK j \in 1..w : k = m + j
      <4>1. k - m \in 1..w /\ k = m + (k - m) BY <1>2, <1>3
      <4> QED BY <4>1
    <3>2. Trace!Recent(h)[j] = h[k] BY <1>1, <1>2, <3>1
    <3> QED BY <1>4, <2>1, <3>2
  <2> QED BY <1>2, <1>3, <2>2
<1>6. IF cont THEN h[n].scalar <= h[m + 1].scalar + Epsilon ELSE h[n].failures > h[m + 1].failures
  <2>1. h[n] \in Trace!Sample /\ h[m + 1] \in Trace!Sample BY <1>2, <1>3
  <2>2. (h[n].scalar = NoScalar <=> ~cont) /\ (h[m + 1].scalar = NoScalar <=> ~cont)
    BY <1>2, <1>3
  <2>3. \/ Trace!Recent(h)[1].scalar = NoScalar /\ Trace!Recent(h)[w].failures > Trace!Recent(h)[1].failures
        \/ Trace!Recent(h)[1].scalar # NoScalar /\ Trace!Recent(h)[w].scalar - Trace!Recent(h)[1].scalar <= Epsilon
    BY <1>1, <1>2, <1>3 DEF Trace!Stalled
  <2>4. CASE cont
    <3>1. h[n].scalar \in Nat /\ h[m + 1].scalar \in Nat BY <2>1, <2>2, <2>4 DEF Trace!Sample
    <3>2. h[n].scalar - h[m + 1].scalar <= Epsilon BY <1>4, <2>2, <2>3, <2>4
    <3>3. Epsilon \in Nat BY DEF Trace!Configured, EventConfigValid
    <3> QED BY <2>4, <3>1, <3>2, <3>3
  <2>5. CASE ~cont BY <1>4, <2>2, <2>3, <2>5
  <2> QED BY <2>4, <2>5
<1> QED BY <1>2, <1>3, <1>5, <1>6 DEF Stall

\* A stall of a trace stays one of the longer trace.
LEMMA StallStays ==
    ASSUME Trace!Configured, NEW trace, NEW sample, NEW longer, Longer(trace, sample, longer),
           NEW last \in 1..Len(trace), NEW cont, Stall(trace, last, cont)
    PROVE  Stall(longer, last, cont)
<1>1. Len(trace) \in Nat /\ Window \in Nat \ {0, 1}
  BY DEF Longer, InFrames, Trace!Configured, EventConfigValid
<1>2. PICK first \in 1..Len(trace) : first = last - Window + 1 /\ first <= last
  BY <1>1 DEF Stall
<1>3. \A k \in first..last : longer[k] = trace[k]
  <2>1. \A k \in first..last : k \in 1..Len(trace) BY <1>1, <1>2
  <2> QED BY <2>1 DEF Longer
<1>4. last \in first..last /\ first \in first..last BY <1>2
<1>5. longer[last] = trace[last] /\ longer[first] = trace[first] BY <1>3, <1>4
<1> QED BY <1>2, <1>3, <1>5 DEF Stall

\* The progress detector on the longer trace: it reports stalls of the trace only.
LEMMA ProgressKeeps ==
    ASSUME Trace!Configured, NEW trace, NEW sample, NEW longer, Longer(trace, sample, longer),
           ~sample.terminal, NEW cont \in BOOLEAN,
           \A i \in 1..Len(longer) : (longer[i].scalar = NoScalar) <=> ~cont,
           NEW d, NEW list, ProgressSaw(d, list, trace, cont),
           NEW seen, ProgressAnswers(d, sample, seen)
    PROVE  \E now : /\ now = list \o seen.events
                    /\ ProgressSaw(seen.detector, now, longer, cont)
<1>0. /\ d \in Trace!Detector /\ d.history = trace /\ list \in Seq(Trace!Event)
      /\ Trace!Remembered(d, list, trace) /\ Stalls(trace, list, cont)
      /\ seen = Trace!ObserveProgress(d, sample, MaxEvents)
  BY DEF ProgressSaw, ProgressAnswers
<1> USE <1>0
<1>1. /\ Len(trace) \in Nat /\ Len(longer) = Len(trace) + 1 /\ longer[Len(longer)] = sample
      /\ sample \in Trace!Sample /\ longer = Append(d.history, sample) /\ Len(list) \in Nat
      /\ longer \in Seq(Trace!Sample) /\ \A i \in 1..Len(trace) : longer[i] = trace[i]
  BY DEF Longer, InFrames
<1>2. sample.frame \in Nat BY <1>1 DEF Trace!Sample
<1>3. \/ ProgressQuiet(d, seen, longer)
      \/ ProgressFires(d, sample, MaxEvents, seen, longer)
  BY <1>1, ProgressAnswer
<1>4. ASSUME NEW i \in 1..Len(list), list[i].kind = "stalled_progress"
      PROVE  Stall(longer, PlaceIn(longer, list[i].frame), cont)
  <2>1. PICK k \in 1..Len(trace) :
          /\ list[i].frame = TraceFrames * k /\ ~trace[k].terminal
          /\ PlaceIn(trace, list[i].frame) = k /\ PlaceIn(longer, list[i].frame) = k
          /\ longer[k] = trace[k] /\ k < Len(longer)
    BY PlaceStays
  <2>2. Stall(trace, k, cont) BY <1>4, <2>1 DEF Stalls
  <2>3. Stall(longer, k, cont) BY <2>2, StallStays
  <2> QED BY <2>1, <2>3
<1>5. CASE ProgressQuiet(d, seen, longer)
  <2>1. list \o seen.events = list BY <1>5 DEF ProgressQuiet
  <2>2. seen.detector \in Trace!Detector /\ seen.detector.history = longer
        /\ seen.detector.emitted = d.emitted /\ seen.detector.last = d.last
    BY <1>5 DEF ProgressQuiet, Holds
  <2>3. Trace!Remembered(seen.detector, list, longer)
    <3>1. Len(longer) \in Nat /\ Len(trace) <= Len(longer) BY <1>1
    <3> QED BY <1>1, <2>2, <3>1, StillRemembered
  <2>4. Stalls(longer, list, cont) BY <1>4 DEF Stalls
  <2>5. ProgressSaw(seen.detector, list, longer, cont) BY <2>2, <2>3, <2>4 DEF ProgressSaw
  <2> QED BY <2>1, <2>5
<1>6. CASE ProgressFires(d, sample, MaxEvents, seen, longer)
  <2>1. PICK kind \in {"phase_transition", "stalled_progress"} :
          /\ seen.events = << [index |-> d.emitted, kind |-> kind,
                               frame |-> sample.frame, since |-> 0] >>
          /\ kind = "stalled_progress" => Len(longer) >= Window /\ Trace!Stalled(Trace!Recent(longer))
    BY <1>6 DEF ProgressFires
  <2>2. d.emitted \in Nat /\ kind \in Trace!Kinds BY DEF Trace!Detector, Trace!Kinds
  <2>3. PICK e \in Trace!Event : /\ seen.events = << e >> /\ e.index = d.emitted /\ e.frame = sample.frame
                           /\ e.kind = kind
    <3> DEFINE e == [index |-> d.emitted, kind |-> kind, frame |-> sample.frame, since |-> 0]
    <3>1. e \in Trace!Event BY <1>2, <2>2 DEF Trace!Event
    <3>2. /\ seen.events = << e >> /\ e.index = d.emitted /\ e.frame = sample.frame
          /\ e.kind = kind
      BY <2>1
    <3> QED BY <3>1, <3>2
  <2>4. list \o seen.events = Append(list, e) BY <2>3, OneMore
  <2>5. PICK now \in Seq(Trace!Event) : now = Append(list, e) BY OneMore
  <2>6. /\ Len(now) = Len(list) + 1 /\ now[Len(now)] = e
        /\ \A i \in 1..Len(list) : now[i] = list[i]
    BY <2>5, OneMore
  <2>7. seen.detector \in Trace!Detector /\ seen.detector.history = longer
        /\ seen.detector.emitted = d.emitted + 1 /\ seen.detector.last = e.frame
    BY <1>6, <2>3 DEF ProgressFires, Holds
  <2>8. longer[Len(longer)].frame = TraceFrames * Len(longer) /\ Len(longer) \in 1..Len(longer)
    <3>1. Len(longer) \in 1..Len(longer) BY <1>1
    <3> QED BY <3>1 DEF Longer, InFrames
  <2>9. Trace!Remembered(seen.detector, now, longer)
    <3>1. /\ Trace!MayFire(d, longer[Len(longer)].frame, MaxEvents)
          /\ ~longer[Len(longer)].terminal
      BY <1>1, <1>6 DEF ProgressFires
    <3> QED BY <1>1, <2>3, <2>5, <2>7, <2>8, <3>1, NewlyRemembered
  <2>10. PlaceIn(longer, e.frame) = Len(longer)
    <3>1. e.frame = TraceFrames * Len(longer) BY <1>1, <2>3, <2>8
    <3> QED BY <2>8, <3>1, PlaceIs DEF Longer
  <2>11. Stalls(longer, now, cont)
    <3>1. ASSUME NEW i \in 1..Len(now), now[i].kind = "stalled_progress"
          PROVE  Stall(longer, PlaceIn(longer, now[i].frame), cont)
      <4>1. CASE i = Len(now)
        <5>1. now[i] = e /\ Len(longer) >= Window /\ Trace!Stalled(Trace!Recent(longer))
          BY <2>1, <2>3, <2>6, <3>1, <4>1
        <5>2. Stall(longer, Len(longer), cont) BY <1>1, <5>1, NewStall
        <5> QED BY <2>10, <5>1, <5>2
      <4>2. CASE i # Len(now)
        <5>1. i \in 1..Len(list) /\ now[i] = list[i] BY <1>1, <2>6, <4>2
        <5> QED BY <1>4, <3>1, <5>1
      <4> QED BY <4>1, <4>2
    <3> QED BY <3>1 DEF Stalls
  <2>12. ProgressSaw(seen.detector, now, longer, cont)
    BY <2>5, <2>7, <2>9, <2>11 DEF ProgressSaw
  <2>13. now = list \o seen.events BY <2>4, <2>5
  <2> QED BY <2>12, <2>13
<1> QED BY <1>3, <1>5, <1>6

\* Stalls that were reported before are stalls of the longer trace.
LEMMA StallsStay ==
    ASSUME Trace!Configured, NEW trace, NEW sample, NEW longer, Longer(trace, sample, longer),
           NEW cont, NEW d, NEW list, Trace!Remembered(d, list, trace), Stalls(trace, list, cont)
    PROVE  Stalls(longer, list, cont)
<1>1. ASSUME NEW i \in 1..Len(list), list[i].kind = "stalled_progress"
      PROVE  Stall(longer, PlaceIn(longer, list[i].frame), cont)
  <2>1. PICK k \in 1..Len(trace) :
          /\ list[i].frame = TraceFrames * k /\ ~trace[k].terminal
          /\ PlaceIn(trace, list[i].frame) = k /\ PlaceIn(longer, list[i].frame) = k
          /\ longer[k] = trace[k] /\ k < Len(longer)
    BY PlaceStays
  <2>2. Stall(trace, k, cont) BY <1>1, <2>1 DEF Stalls
  <2>3. Stall(longer, k, cont) BY <2>2, StallStays
  <2> QED BY <2>1, <2>3
<1> QED BY <1>1 DEF Stalls

\* Until a detector has fired, a budget of one event is as good as a larger one.
LEMMA SameAnswer ==
    ASSUME Trace!Configured, NEW d, NEW sample, d.emitted = 0
    PROVE  Trace!ObserveObservable(d, sample, 1) = Trace!ObserveObservable(d, sample, MaxEvents)
<1>1. MaxEvents \in Nat \ {0} BY DEF Trace!Configured
<1>2. \A f : Trace!MayFire(d, f, 1) <=> Trace!MayFire(d, f, MaxEvents) BY <1>1 DEF Trace!MayFire
<1>3. \A h : Trace!ObservableTrigger(d, h, sample, 1) = Trace!ObservableTrigger(d, h, sample, MaxEvents)
  BY <1>2 DEF Trace!ObservableTrigger
<1> QED BY <1>3 DEF Trace!ObserveObservable

\* A chunk keeps the invariant.
LEMMA SampleKeeps ==
    ASSUME Trace!Configured, Trace!TraceInv, Trace!Chunk
    PROVE  Trace!TraceInv'
<1>1. /\ Trace!Typed /\ Trace!Sampled /\ Trace!Followed /\ Trace!Alike
      /\ Trace!StallsSustained /\ Trace!FailuresChargedOnce /\ Trace!FailuresNotLost
  BY DEF Trace!TraceInv
<1>2. phase = "running" /\ ~Trace!Succeeded /\ UNCHANGED <<phase, continuous>>
      /\ \E sample \in Trace!Sample : Given(sample) /\ Trace!Observe(sample)
  BY <1>1, ChunkGives
<1>3. PICK sample \in Trace!Sample : Given(sample) /\ Trace!Observe(sample) BY <1>2
<1>4. samples' = Append(samples, sample) BY <1>3 DEF Trace!Observe
<1>5. /\ samples' \in Seq(Trace!Sample) /\ Len(samples') = Len(samples) + 1
      /\ samples'[Len(samples) + 1] = sample
      /\ \A i \in 1..Len(samples) : samples'[i] = samples[i] /\ ~samples'[i].terminal
      /\ calls' \in Nat /\ Trace!Sampled'
  BY <1>1, <1>2, <1>3, <1>4, LongerTrace
<1>6. samples \in Seq(Trace!Sample) /\ Len(samples) \in Nat /\ continuous \in BOOLEAN
  BY <1>1 DEF Trace!Typed
<1>7. Longer(samples, sample, samples')
  <2>1. InFrames(samples) BY <1>1, <1>6 DEF InFrames, Trace!Sampled
  <2>2. InFrames(samples') BY <1>5 DEF InFrames, Trace!Sampled
  <2>3. \A i, j \in 1..Len(samples') : i <= j => samples'[i].failures <= samples'[j].failures
    BY <1>5 DEF Trace!Sampled
  <2> QED BY <1>4, <1>5, <2>1, <2>2, <2>3 DEF Longer
<1>8. /\ Trace!FailuresAt(Len(observableEvents)) = FailAt(samples, observableEvents, Len(observableEvents))
      /\ ChargedOnce(samples, observableEvents)
      /\ NotLost(samples, observableEvents, LastIn(samples, observableEvents))
      /\ Stalls(samples, events, continuous)
  BY <1>1, AsValues
<1>9. PICK obs : obs = Trace!ObserveObservable(observable, sample, MaxEvents) OBVIOUS
<1>10. observable' = obs.detector /\ observableEvents' = observableEvents \o obs.events
  BY <1>3, <1>9 DEF Trace!Observe
<1>11. PICK now : /\ now = observableEvents \o obs.events /\ Grown(observableEvents, obs.events, now)
                   /\ ObservableSaw(obs.detector, now, samples')
  <2>1. ObservableSaw(observable, observableEvents, samples)
    <3>1. observable \in Trace!Detector /\ observableEvents \in Seq(Trace!Event)
      BY <1>1 DEF Trace!Typed
    <3>2. /\ observable.history = samples
          /\ Trace!Remembered(observable, observableEvents, samples)
          /\ observable.charged = FailAt(samples, observableEvents, Len(observableEvents))
      BY <1>1, <1>8 DEF Trace!Followed
    <3> QED BY <1>8, <3>1, <3>2 DEF ObservableSaw
  <2>2. ObservableAnswers(observable, sample, obs) BY <1>9 DEF ObservableAnswers
  <2> QED BY <1>7, <2>1, <2>2, ObservableKeeps
<1>11a. /\ obs.detector \in Trace!Detector /\ obs.detector.history = samples' /\ now \in Seq(Trace!Event)
       /\ Trace!Remembered(obs.detector, now, samples')
       /\ obs.detector.charged = FailAt(samples', now, Len(now))
       /\ ChargedOnce(samples', now) /\ NotLost(samples', now, LastIn(samples', now))
  BY <1>11 DEF ObservableSaw
<1>12. now = observableEvents' BY <1>10, <1>11, <1>11a
<1>13. /\ progress' \in Trace!Detector /\ events' \in Seq(Trace!Event)
       /\ ~sample.terminal => progress'.history = samples'
       /\ Trace!Remembered(progress', events', samples')
       /\ Stalls(samples', events', continuous)
  <2>1. progress \in Trace!Detector /\ events \in Seq(Trace!Event) BY <1>1 DEF Trace!Typed
  <2>2. progress.history = samples /\ Trace!Remembered(progress, events, samples)
    BY <1>1, <1>2 DEF Trace!Followed
  <2>3. CASE sample.terminal
    <3>1. progress' = progress /\ events' = events BY <1>3, <2>3 DEF Trace!Observe
    <3>2. Trace!Remembered(progress', events', samples')
      <4>1. Len(samples') \in Nat /\ Len(samples) <= Len(samples') BY <1>5, <1>6
      <4> QED BY <1>5, <1>6, <2>2, <3>1, <4>1, StillRemembered
    <3>3. Stalls(samples', events, continuous) BY <1>7, <1>8, <2>2, StallsStay
    <3> QED BY <2>1, <2>3, <3>1, <3>2, <3>3
  <2>4. CASE ~sample.terminal
    <3>1. PICK seen : seen = Trace!ObserveProgress(progress, sample, MaxEvents) OBVIOUS
    <3>2. progress' = seen.detector /\ events' = events \o seen.events
      BY <1>3, <2>4, <3>1 DEF Trace!Observe
    <3>3. \A i \in 1..Len(samples') : (samples'[i].scalar = NoScalar) <=> ~continuous
      BY <1>2, <1>5 DEF Trace!Sampled
    <3>4. ProgressSaw(progress, events, samples, continuous) BY <1>8, <2>1, <2>2 DEF ProgressSaw
    <3>5. ProgressAnswers(progress, sample, seen) BY <3>1 DEF ProgressAnswers
    <3>6. PICK list : /\ list = events \o seen.events
                      /\ ProgressSaw(seen.detector, list, samples', continuous)
      BY <1>6, <1>7, <2>4, <3>3, <3>4, <3>5, ProgressKeeps
    <3>7. list = events' BY <3>2, <3>6
    <3>8. ProgressSaw(progress', events', samples', continuous) BY <3>2, <3>6, <3>7
    <3> QED BY <3>8 DEF ProgressSaw
  <2>5. sample.terminal \in BOOLEAN BY DEF Trace!Sample
  <2> QED BY <2>3, <2>4, <2>5
<1>14. PICK one : one = Trace!ObserveObservable(live, sample, 1) OBVIOUS
<1>15. /\ live' = IF liveEvents = << >> THEN one.detector ELSE live
       /\ liveEvents' = IF liveEvents = << >> THEN one.events ELSE liveEvents
  BY <1>3, <1>14 DEF Trace!Observe
<1>16. live' \in Trace!Detector /\ liveEvents' \in Seq(Trace!Event) /\ Trace!Alike'
  <2>1. live \in Trace!Detector /\ observableEvents \in Seq(Trace!Event) BY <1>1 DEF Trace!Typed
  <2>2. CASE observableEvents = << >>
    <3>1. live = observable /\ liveEvents = << >> BY <1>1, <2>2 DEF Trace!Alike
    <3>2. observable.emitted = 0 BY <1>1, <2>2 DEF Trace!Followed, Trace!Remembered
    <3>3. one = obs BY <1>9, <1>14, <3>1, <3>2, SameAnswer
    <3>4. live' = observable' /\ live' \in Trace!Detector /\ liveEvents' = obs.events
      BY <1>10, <1>11, <1>11a, <1>15, <3>1, <3>3
    <3>5. CASE obs.events = << >>
      <4>1. now = << >> BY <1>11, <1>11a, <2>2, <3>5 DEF Grown
      <4> QED BY <1>12, <3>4, <3>5, <4>1 DEF Trace!Alike
    <3>6. CASE obs.events # << >>
      <4>1. PICK e \in Trace!Event : obs.events = << e >> /\ now = Append(observableEvents, e)
        BY <1>11, <1>11a, <3>6 DEF Grown
      <4>2. now = << e >> BY <2>2, <4>1
      <4>3. liveEvents' = << now[1] >> /\ now # << >> /\ << e >> \in Seq(Trace!Event)
        BY <3>4, <4>1, <4>2
      <4> QED BY <1>12, <3>4, <4>1, <4>3 DEF Trace!Alike
    <3> QED BY <3>5, <3>6
  <2>3. CASE observableEvents # << >>
    <3>1. liveEvents = << observableEvents[1] >> BY <1>1, <2>3 DEF Trace!Alike
    <3>2. live' = live /\ liveEvents' = << observableEvents[1] >> BY <1>15, <3>1
    <3>3. 1 \in 1..Len(observableEvents) /\ observableEvents[1] \in Trace!Event BY <2>1, <2>3
    <3>4. now # << >> /\ now[1] = observableEvents[1]
      <4>1. CASE now = observableEvents BY <2>3, <4>1
      <4>2. CASE now # observableEvents
        <5>1. PICK e \in Trace!Event : now = Append(observableEvents, e)
          BY <1>11, <1>11a, <4>2 DEF Grown
        <5> QED BY <2>1, <3>3, <5>1, OneMore
      <4> QED BY <4>1, <4>2
    <3>5. << observableEvents[1] >> \in Seq(Trace!Event) BY <3>3
    <3> QED BY <1>12, <2>1, <3>2, <3>4, <3>5 DEF Trace!Alike
  <2> QED BY <2>2, <2>3
<1>17. Trace!Typed'
  <2>1. phase' = phase /\ continuous' = continuous BY <1>2
  <2>2. phase' \in {"running", "written", "failed"} /\ continuous' \in BOOLEAN
    BY <1>1, <2>1 DEF Trace!Typed
  <2>3. observable' \in Trace!Detector /\ observableEvents' \in Seq(Trace!Event)
    BY <1>10, <1>11, <1>11a, <1>12
  <2> QED BY <1>5, <1>13, <1>16, <2>2, <2>3 DEF Trace!Typed
<1>18. /\ Trace!FailuresChargedOnce' /\ Trace!FailuresNotLost' /\ Trace!StallsSustained'
       /\ Trace!FailuresAt(Len(observableEvents))' = FailAt(samples', observableEvents', Len(observableEvents'))
  <2>1. /\ Trace!FailuresChargedOnce' <=> ChargedOnce(samples', observableEvents')
        /\ Trace!FailuresNotLost' <=> NotLost(samples', observableEvents', LastIn(samples', observableEvents'))
        /\ Trace!StallsSustained' <=> Stalls(samples', events', continuous')
    BY <1>17, AsValuesNext
  <2>2. Trace!FailuresAt(Len(observableEvents))' = FailAt(samples', observableEvents', Len(observableEvents'))
    BY DEF Trace!FailuresAt, FailAt, Trace!SampleAt, PlaceIn
  <2>3. continuous' = continuous BY <1>2
  <2> QED BY <1>11, <1>11a, <1>12, <1>13, <2>1, <2>2, <2>3
<1>19. Trace!Followed'
  <2>1. Trace!Succeeded' <=> sample.terminal
    <3>1. samples' # << >> /\ Trace!Latest(samples') = sample BY <1>5, <1>6 DEF Trace!Latest
    <3> QED BY <3>1 DEF Trace!Succeeded
  <2>2. ~Trace!Succeeded' => progress'.history = samples' BY <1>13, <2>1
  <2>3. observable'.history = samples' BY <1>10, <1>11, <1>11a
  <2>4. Trace!Remembered(progress', events', samples') BY <1>13
  <2>5. Trace!Remembered(observable', observableEvents', samples')
    BY <1>10, <1>11, <1>11a, <1>12
  <2>6. observable'.charged = Trace!FailuresAt(Len(observableEvents))'
    BY <1>10, <1>11, <1>11a, <1>12, <1>18
  <2> QED BY <2>2, <2>3, <2>4, <2>5, <2>6 DEF Trace!Followed, Trace!Remembered
<1> QED BY <1>5, <1>16, <1>17, <1>18, <1>19 DEF Trace!TraceInv

\* What the invariant says depends on the trace only, and not on how it ends.
LEMMA EndingKeeps ==
    ASSUME Trace!TraceInv, phase' \in {"running", "written", "failed"},
           UNCHANGED <<continuous, calls, samples, progress, observable, events,
                       observableEvents, live, liveEvents>>
    PROVE  Trace!TraceInv'
<1>1. /\ continuous' = continuous /\ calls' = calls /\ samples' = samples
      /\ progress' = progress /\ observable' = observable /\ events' = events
      /\ observableEvents' = observableEvents /\ live' = live /\ liveEvents' = liveEvents
  OBVIOUS
<1>2. Trace!Typed' BY <1>1 DEF Trace!TraceInv, Trace!Typed
<1>3. Trace!Sampled' BY <1>1 DEF Trace!TraceInv, Trace!Sampled
<1>4. Trace!Alike' BY <1>1 DEF Trace!TraceInv, Trace!Alike
<1>5. Trace!FailuresAt(Len(observableEvents))' = Trace!FailuresAt(Len(observableEvents))
  BY <1>1 DEF Trace!FailuresAt, Trace!SampleAt
<1>6. Trace!Followed'
  BY <1>1, <1>5
  DEF Trace!TraceInv, Trace!Followed, Trace!Succeeded, Trace!Latest, Trace!Remembered
<1>7. Trace!FailuresChargedOnce' /\ Trace!FailuresNotLost' /\ Trace!StallsSustained'
  <2>1. /\ ChargedOnce(samples, observableEvents)
        /\ NotLost(samples, observableEvents, LastIn(samples, observableEvents))
        /\ Stalls(samples, events, continuous)
    BY AsValues DEF Trace!TraceInv
  <2>2. /\ Trace!FailuresChargedOnce' <=> ChargedOnce(samples', observableEvents')
        /\ Trace!FailuresNotLost' <=> NotLost(samples', observableEvents', LastIn(samples', observableEvents'))
        /\ Trace!StallsSustained' <=> Stalls(samples', events', continuous')
    BY <1>2, AsValuesNext
  <2> QED BY <1>1, <2>1, <2>2
<1> QED BY <1>2, <1>3, <1>4, <1>6, <1>7 DEF Trace!TraceInv

\* A rollout starts with an empty trace and with detectors that remember nothing.
LEMMA TraceStarts ==
    ASSUME Trace!Configured, Trace!Init
    PROVE  Trace!TraceInv
<1>1. /\ samples = << >> /\ events = << >> /\ observableEvents = << >> /\ liveEvents = << >>
      /\ progress = Trace!NewDetector /\ observable = Trace!NewDetector
      /\ live = Trace!NewDetector
      /\ phase = "running" /\ continuous \in BOOLEAN /\ calls = 0
  BY DEF Trace!Init
<1>2. /\ Trace!NewDetector \in Trace!Detector /\ Trace!NewDetector.history = << >>
      /\ Trace!NewDetector.emitted = 0
      /\ Trace!NewDetector.last = NoFrame /\ Trace!NewDetector.charged = 0
  BY DEF Trace!NewDetector, Trace!Detector
<1>3. Trace!Typed BY <1>1, <1>2 DEF Trace!Typed
<1>4. Len(samples) = 0 /\ Len(events) = 0 /\ Len(observableEvents) = 0 BY <1>1
<1>5. Trace!Sampled BY <1>4 DEF Trace!Sampled
<1>6. Trace!Alike BY <1>1 DEF Trace!Alike
<1>7. MaxEvents \in Nat BY DEF Trace!Configured
<1>8. Trace!Followed
  <2>1. Trace!Remembered(progress, events, samples)
    BY <1>1, <1>2, <1>4, <1>7 DEF Trace!Remembered
  <2>2. Trace!Remembered(observable, observableEvents, samples)
    BY <1>1, <1>2, <1>4, <1>7 DEF Trace!Remembered
  <2>3. Trace!FailuresAt(Len(observableEvents)) = 0 BY <1>4 DEF Trace!FailuresAt
  <2> QED BY <1>1, <1>2, <2>1, <2>2, <2>3 DEF Trace!Followed
<1>9. Trace!FailuresChargedOnce /\ Trace!FailuresNotLost /\ Trace!StallsSustained
  <2>1. ChargedOnce(samples, observableEvents) BY <1>4 DEF ChargedOnce
  <2>2. NotLost(samples, observableEvents, LastIn(samples, observableEvents))
    BY <1>4 DEF NotLost
  <2>3. Stalls(samples, events, continuous) BY <1>4 DEF Stalls
  <2> QED BY <1>3, <2>1, <2>2, <2>3, AsValues
<1> QED BY <1>3, <1>5, <1>6, <1>8, <1>9 DEF Trace!TraceInv

\* What the invariant says is what the properties of a trace say.
LEMMA TraceJust ==
    ASSUME Trace!Configured, Trace!TraceInv
    PROVE  Trace!EventsJust
<1>1. Trace!Typed /\ Trace!Sampled /\ Trace!Followed /\ Trace!Alike BY DEF Trace!TraceInv
<1>2. /\ samples \in Seq(Trace!Sample) /\ events \in Seq(Trace!Event)
      /\ observableEvents \in Seq(Trace!Event)
      /\ liveEvents \in Seq(Trace!Event)
  BY <1>1 DEF Trace!Typed
<1>3. Trace!TypeOK
  <2>1. phase \in {"running", "written", "failed"} /\ continuous \in BOOLEAN /\ calls \in Nat
    BY <1>1 DEF Trace!Typed
  <2>2. \A i \in DOMAIN samples : samples[i] \in Trace!Sample BY <1>2
  <2>3. ASSUME NEW d \in {progress, observable, live}
        PROVE  /\ d.emitted \in Nat /\ d.charged \in Nat /\ d.last \in Nat \union {NoFrame}
               /\ \A i \in DOMAIN d.history : d.history[i] \in Trace!Sample
    <3>1. d \in Trace!Detector BY <1>1 DEF Trace!Typed
    <3>2. d.history \in Seq(Trace!Sample) BY <3>1 DEF Trace!Detector
    <3> QED BY <3>1, <3>2 DEF Trace!Detector
  <2>4. ASSUME NEW list \in {events, observableEvents, liveEvents}, NEW i \in DOMAIN list
        PROVE  list[i].index \in Nat /\ list[i].frame \in Nat
    <3>1. list \in Seq(Trace!Event) BY <1>2
    <3>2. list[i] \in Trace!Event BY <3>1
    <3> QED BY <3>2 DEF Trace!Event
  <2> QED BY <2>1, <2>2, <2>3, <2>4 DEF Trace!TypeOK
<1>4. Trace!EventsPaced
  <2>1. ASSUME NEW list \in {events, observableEvents}
        PROVE  /\ Len(list) <= MaxEvents
               /\ \A i \in DOMAIN list :
                     /\ list[i].index = i - 1
                     /\ list[i].frame >= MinFrame
                     /\ \E k \in DOMAIN samples :
                           samples[k].frame = list[i].frame /\ ~samples[k].terminal
                     /\ \A j \in 1..(i - 1) : list[i].frame - list[j].frame >= Cooldown
    <3>1. DOMAIN list = 1..Len(list) /\ DOMAIN samples = 1..Len(samples) BY <1>2, <2>1
    <3>2. \A k \in 1..Len(samples) : samples[k].frame = TraceFrames * k
      BY <1>1 DEF Trace!Sampled
    <3>3. PICK d : Trace!Remembered(d, list, samples)
      <4>1. /\ Trace!Remembered(progress, events, samples)
            /\ Trace!Remembered(observable, observableEvents, samples)
        BY <1>1 DEF Trace!Followed
      <4> QED BY <4>1
    <3> QED BY <3>1, <3>2, <3>3 DEF Trace!Remembered
  <2> QED BY <2>1 DEF Trace!EventsPaced
<1>5. Trace!LiveAgrees
  <2>1. observableEvents # << >> => Head(observableEvents) = observableEvents[1] BY <1>2
  <2> QED BY <1>1, <2>1 DEF Trace!Alike, Trace!LiveAgrees
<1> QED BY <1>3, <1>4, <1>5 DEF Trace!EventsJust, Trace!TraceInv

\* Of every rollout the trace tells no more and no less than what its samples
\* show: events keep their budget and cooldown, stalls are stalls of the
\* samples, and every planner failure is charged once and none is lost.
THEOREM EventsAreJust == Trace!Configured => (Trace!Spec => []EventsJust)
<1> SUFFICES ASSUME Trace!Configured PROVE Trace!Spec => []EventsJust OBVIOUS
<1>1. Trace!Init => Trace!TraceInv BY TraceStarts
<1>2. Trace!TraceInv /\ [Trace!Next]_(Trace!vars) => Trace!TraceInv'
  <2> SUFFICES ASSUME Trace!TraceInv, [Trace!Next]_(Trace!vars) PROVE Trace!TraceInv' OBVIOUS
  <2>1. CASE Trace!Chunk BY <2>1, SampleKeeps
  <2>2. CASE Trace!Raise BY <2>2, EndingKeeps DEF Trace!Raise
  <2>3. CASE Trace!Finalize BY <2>3, EndingKeeps DEF Trace!Finalize
  <2>4. CASE UNCHANGED Trace!vars
    <3>1. phase' \in {"running", "written", "failed"}
      BY <2>4 DEF Trace!vars, Trace!TraceInv, Trace!Typed
    <3> QED BY <2>4, <3>1, EndingKeeps DEF Trace!vars
  <2> QED BY <2>1, <2>2, <2>3, <2>4 DEF Trace!Next
<1>3. Trace!TraceInv => EventsJust BY TraceJust DEF EventsJust
<1> QED BY <1>1, <1>2, <1>3, PTL DEF Trace!Spec
=============================================================================
