---------------------------- MODULE LiveEpisode ----------------------------
(***************************************************************************)
(* The native closed-loop runner (waopd_native_closed_loop_runner.py): one *)
(* process runs an episode for every arm of a comparison, one after the    *)
(* other, on one pair of models and one rendering simulator.               *)
(*                                                                         *)
(* An arm names who plans the video and who solves the action: SS, ST, TS  *)
(* and TT (S the Student, T the Teacher).  An episode is a loop of chunks: *)
(* plan, solve, let the arm's own physics worker move, render its snapshots*)
(* in the parent simulator, encode them and append what was executed to the*)
(* history and to the Student's cache.                                     *)
(*                                                                         *)
(* A cache holds what a model is conditioned on: the executed records it   *)
(* has been shown ("seen", update_cache=2 in the code) and the predictions *)
(* it keeps until they are cleared ("guess", update_cache=1).  Tensors are *)
(* abstracted to what they were made from.                                 *)
(***************************************************************************)
EXTENDS Integers, Sequences, SequencesExt

CONSTANTS
  Arms,           \* the arms to run, in the order of --arms
  Chunks,         \* --chunks: the most plans of an episode
  Frames,         \* frame_chunk_size: model frames in a plan (2 in the code)
  KeyFrames,      \* snapshots the worker takes per model frame (4 in the code)
  Quarter,        \* controls between two snapshots (4 in the code)
  MaxControls,    \* --max-control-steps
  StopOnSuccess,  \* stop_on_success
  Shared,         \* --shared-noise-across-arms
  Progress        \* --collect-task-progress

\* what main requires of its arguments, and the server's configuration of a chunk
Configured ==
  /\ Arms \in Seq({"SS", "ST", "TS", "TT"}) /\ Len(Arms) > 0
  /\ Chunks \in Nat \ {0} /\ MaxControls \in Nat \ {0}
  /\ Frames \in Nat \ {0, 1} /\ KeyFrames \in Nat \ {0} /\ Quarter \in Nat \ {0}
  /\ StopOnSuccess \in BOOLEAN /\ Shared \in BOOLEAN /\ Progress \in BOOLEAN

VARIABLES
  turn,       \* index in Arms of the arm that runs
  at,         \* where the runner is
  chunk,      \* chunk_id: plans made so far in this episode
  student,    \* the Student's cache
  teacher,    \* the Teacher's caches by name
  frameSt,    \* server.frame_st_id, moved by append_student_history
  encoded,    \* the batches the streaming VAE has encoded since its reset
  history,    \* the executed records of this episode
  plan,       \* the video plan of this chunk
  conds,      \* what each owner's action solve of this chunk was conditioned on
  world,      \* the simulator of the arm's physics worker
  parent,     \* the scene in the parent simulator
  reply,      \* the worker's answer to the last step
  shown,      \* the observations given to the observation callback
  total,      \* cumulative_control_steps
  success,    \* the episode's success so far
  episodes,   \* episode_rows: the noise of their chunks
  workers,    \* the arms whose worker is open
  outcome     \* the status in the result file

models == <<student, teacher, frameSt, encoded, history, plan, conds>>
scenes == <<world, parent, reply, shown>>
vars == <<turn, at, chunk, models, scenes, total, success, episodes, workers, outcome>>

Nobody == "nobody"
Arm == Arms[turn]
PerFrame == KeyFrames * Quarter
EmptyCache == [seen |-> <<>>, guess |-> <<>>]
Start == [done |-> 0, latched |-> FALSE]
Initial == [arm |-> Nobody, scene |-> Start]
NoPlan == [owner |-> Nobody, chunk |-> 0, noise |-> <<>>]
NoReply == [steps |-> 0, terminal |-> FALSE, snapshots |-> <<>>]
NoConds == [student |-> EmptyCache, teacher |-> EmptyCache]

Init ==
  /\ turn = 1 /\ at = "start" /\ chunk = 0
  /\ student = EmptyCache /\ teacher = <<>> /\ frameSt = 0
  /\ encoded = <<>> /\ history = <<>> /\ plan = NoPlan /\ conds = NoConds
  /\ world = Start /\ parent = Initial /\ reply = NoReply /\ shown = <<>>
  /\ total = 0 /\ success = FALSE /\ episodes = <<>>
  /\ workers = ToSet(Arms) /\ outcome = Nobody

-----------------------------------------------------------------------------
(* Noise.  A family's tensors are derived from the chunk alone.            *)

FamilyOfOwner(arm) == IF arm \in {"SS", "ST"} THEN "student" ELSE "teacher"
Family(arm) == IF Shared \/ arm \in {"SS", "ST"} THEN "student" ELSE "teacher"
Noise(arm, c) == <<Family(arm), c>>

(* _replay_history recreates the cache before it shows the records.        *)
ReplayedOnTop(cache, records) == [cache EXCEPT !.seen = @ \o records]
Replayed(cache, records) == [seen |-> records, guess |-> <<>>]

Predict(cache, what) == [cache EXCEPT !.guess = Append(@, what)]
Video(owner) == [owner |-> owner, chunk |-> chunk, noise |-> Noise(Arm, chunk)]
Action(owner) == [owner |-> owner, chunk |-> chunk]

CacheName == <<Arm, chunk>>
CacheAt(name) == IF name \in DOMAIN teacher THEN teacher[name] ELSE EmptyCache
WithCache(name, cache) ==
  [n \in DOMAIN teacher \cup {name} |-> IF n = name THEN cache ELSE teacher[n]]
Cleared(name) == [n \in DOMAIN teacher \ {name} |-> teacher[n]]

-----------------------------------------------------------------------------
(* reset: the server forgets the prompt's caches and the VAE's chronology, *)
(* then the initial observation is encoded.                                *)

ResetKeepingVAE ==
  /\ student' = EmptyCache
  /\ frameSt' = 0
  /\ encoded' = Append(encoded, CacheName)

Reset ==
  /\ student' = EmptyCache
  /\ frameSt' = 0
  /\ encoded' = <<CacheName>>

(* --arms may name an arm twice: the second worker takes the first one's   *)
(* place, and the second episode finds none (Fail).                        *)
Begin ==
  /\ at = "start" /\ Arm \in workers
  /\ Reset
  /\ history' = <<>> /\ total' = 0 /\ success' = FALSE
  /\ world' = Start
  /\ shown' = <<[step |-> 0, scene |-> Start]>>
  /\ plan' = NoPlan /\ conds' = NoConds /\ reply' = NoReply
  /\ at' = "video"
  /\ UNCHANGED <<turn, chunk, teacher, parent, episodes, workers, outcome>>

(* The Student plans the video on its own cache and solves the action.     *)
StudentPlan ==
  /\ at = "video" /\ Arm \in {"SS", "ST"}
  /\ LET planned == Predict(student, Video("student"))
     IN /\ plan' = Video("student")
        /\ conds' = [NoConds EXCEPT !.student = planned]
        /\ student' = Predict(planned, Action("student"))
  /\ at' = IF Arm = "SS" THEN "step" ELSE "teacher"
  /\ UNCHANGED <<turn, chunk, teacher, frameSt, encoded, history, scenes, total, success,
                 episodes, workers, outcome>>

(* ST: the Teacher replays the history and takes the Student's plan.       *)
TeacherOnStudentPlan ==
  /\ at = "teacher"
  /\ teacher' = WithCache(CacheName, Predict(Replayed(CacheAt(CacheName), history), plan))
  /\ at' = "act"
  /\ UNCHANGED <<turn, chunk, student, frameSt, encoded, history, plan, conds, scenes, total,
                 success, episodes, workers, outcome>>

(* TS and TT: the Teacher replays the history and plans the video.         *)
TeacherPlan ==
  /\ at = "video" /\ Arm \in {"TS", "TT"}
  /\ plan' = Video("teacher")
  /\ teacher' = WithCache(CacheName,
                  Predict(Replayed(CacheAt(CacheName), history), Video("teacher")))
  /\ conds' = NoConds
  /\ at' = "act"
  /\ UNCHANGED <<turn, chunk, student, frameSt, encoded, history, scenes, total, success,
                 episodes, workers, outcome>>

TeacherAction ==
  /\ at = "act" /\ Arm \in {"ST", "TT"}
  /\ conds' = [conds EXCEPT !.teacher = CacheAt(CacheName)]
  /\ teacher' = WithCache(CacheName, Predict(CacheAt(CacheName), Action("teacher")))
  /\ at' = IF Arm = "ST" THEN "compare" ELSE "step"
  /\ UNCHANGED <<turn, chunk, student, frameSt, encoded, history, plan, scenes, total, success,
                 episodes, workers, outcome>>

(* TS: the Student's cache is rebuilt from the history for the Teacher's   *)
(* plan; the Teacher's cache is only measured.                             *)
StudentActionOnTeacherPlan ==
  /\ at = "act" /\ Arm = "TS"
  /\ LET told == Predict(Replayed(student, history), plan)
     IN /\ conds' = [student |-> told, teacher |-> CacheAt(CacheName)]
        /\ student' = Predict(told, Action("student"))
  /\ at' = "compare"
  /\ UNCHANGED <<turn, chunk, teacher, frameSt, encoded, history, plan, scenes, total, success,
                 episodes, workers, outcome>>

CacheLength(cache) == 2 * Len(cache.seen) + Len(cache.guess)

(* What ends the process: the finally clauses put the parent back and      *)
(* close the arm's worker, and main writes a BLOCKED result.               *)
Block ==
  /\ outcome' = "BLOCKED" /\ at' = "close"
  /\ parent' = Initial
  /\ workers' = workers \ {Arm}

(* Fingerprints are made from the history list and the length of the       *)
(* cache: what the cache holds is not hashed.                              *)
Compare ==
  /\ at = "compare"
  /\ IF CacheLength(conds.student) = CacheLength(conds.teacher)
     THEN at' = "step" /\ UNCHANGED <<parent, workers, outcome>>
     ELSE Block
  /\ UNCHANGED <<turn, chunk, models, world, reply, shown, total, success, episodes>>

-----------------------------------------------------------------------------
(* EndChunk leaves the loop at the horizon, so the code's own break on      *)
(* remaining_action_steps <= 0 has nothing to do: Limit is never zero here. *)
(*                                                                         *)
(* The worker's step: at most "limit" controls, none once the task has     *)
(* succeeded; a snapshot after every Quarter controls of the plan, acted   *)
(* on or not.  "hit" is the control at which eval_success is latched.      *)

StartFrame == IF chunk = 0 THEN 1 ELSE 0
Available == (Frames - StartFrame) * PerFrame
Smaller(a, b) == IF a < b THEN a ELSE b
LimitOfChunk == Available
Limit == Smaller(Available, MaxControls - total)

SceneAfter(local, steps, hit) ==
  [done |-> world.done + Smaller(local, steps),
   latched |-> world.latched \/ (hit > 0 /\ local >= hit)]

Step ==
  /\ at = "step" /\ Limit > 0
  /\ \E hit \in 0..(IF world.latched THEN 0 ELSE Limit) :
       LET steps == IF world.latched THEN 0 ELSE IF hit > 0 THEN hit ELSE Limit
       IN /\ world' = SceneAfter(Available, steps, hit)
          /\ reply' = [steps |-> steps, terminal |-> world'.latched,
                       snapshots |-> [k \in 1..((Frames - StartFrame) * KeyFrames) |->
                                        SceneAfter(k * Quarter, steps, hit)]]
  /\ at' = "render"
  /\ UNCHANGED <<turn, chunk, models, parent, shown, total, success, episodes, workers, outcome>>

\* of the observations, those of this chunk; the first one shows the initial scene
BeforeChunk(c) == IF c = 0 THEN 0 ELSE (Frames - 1) * KeyFrames + (c - 1) * (Frames * KeyFrames)
Rendered == Len(shown) - 1 - BeforeChunk(chunk)

(* _render_parent_snapshot: the snapshot is put in the parent simulator ... *)
ShowNext ==
  /\ at = "render" /\ Rendered < Len(reply.snapshots)
  /\ parent' = [arm |-> Arm, scene |-> world]
  /\ at' = "observe"
  /\ UNCHANGED <<turn, chunk, models, world, reply, shown, total, success, episodes, workers,
                 outcome>>

Show ==
  /\ at = "render" /\ Rendered < Len(reply.snapshots)
  /\ parent' = [arm |-> Arm, scene |-> reply.snapshots[Rendered + 1]]
  /\ at' = "observe"
  /\ UNCHANGED <<turn, chunk, models, world, reply, shown, total, success, episodes, workers,
                 outcome>>

(* ... observed, and the finally clause puts the parent's own scene back.  *)
(* The control_step counts the plan's controls, acted on or not.           *)
ObserveLeaving ==
  /\ at = "observe"
  /\ shown' = Append(shown, [step |-> total + (Rendered + 1) * Quarter,
                             scene |-> parent.scene])
  /\ parent' = parent
  /\ at' = IF Rendered + 1 = Len(reply.snapshots) THEN "record" ELSE "render"
  /\ UNCHANGED <<turn, chunk, models, world, reply, total, success, episodes, workers, outcome>>

Observe ==
  /\ at = "observe"
  /\ shown' = Append(shown, [step |-> total + (Rendered + 1) * Quarter,
                             scene |-> parent.scene])
  /\ parent' = Initial
  /\ at' = IF Rendered + 1 = Len(reply.snapshots) THEN "record" ELSE "render"
  /\ UNCHANGED <<turn, chunk, models, world, reply, total, success, episodes, workers, outcome>>

-----------------------------------------------------------------------------
(* capture_history_input and append_student_history.                       *)

Record == [arm |-> Arm, chunk |-> chunk, latent |-> Append(encoded, <<Arm, chunk + 1>>)]

AppendStudentStale(record) ==
  /\ student' = [student EXCEPT !.seen = Append(@, record)]
  /\ frameSt' = frameSt + Frames

AppendStudent(record) ==
  /\ student' = [seen |-> Append(student.seen, record), guess |-> <<>>]
  /\ frameSt' = frameSt + Frames

(* success = terminal_reached or frame_success or eval_success: the last   *)
(* two are read in the parent at the chunk's last snapshot.                *)
SucceedsNow(seenDone) == seenDone
Succeeds(seenDone) == reply.terminal \/ seenDone

EpisodeOver(succeeded, controls) ==
  \/ succeeded /\ StopOnSuccess
  \/ controls >= MaxControls
  \/ chunk + 1 = Chunks

EndChunk ==
  /\ at = "record"
  /\ encoded' = Record.latent
  /\ history' = Append(history, Record)
  /\ IF Arm # "TT" THEN AppendStudent(Record) ELSE UNCHANGED <<student, frameSt>>
  /\ teacher' = IF Arm # "SS" THEN Cleared(CacheName) ELSE teacher
  /\ total' = total + reply.steps
  /\ \E seenDone \in BOOLEAN :
       /\ success' = Succeeds(seenDone)
       /\ IF EpisodeOver(success', total')
          THEN at' = "ended" /\ chunk' = chunk + 1
          ELSE at' = "video" /\ chunk' = chunk + 1
  /\ UNCHANGED <<turn, plan, conds, scenes, episodes, workers, outcome>>

(* _collect_worker_progress: the worker's last scene in the parent.        *)
ShowProgress ==
  /\ at = "ended" /\ Progress
  /\ parent' = [arm |-> Arm, scene |-> world]
  /\ at' = "measure"
  /\ UNCHANGED <<turn, chunk, models, world, reply, shown, total, success, episodes, workers,
                 outcome>>

(* main: the row is kept, the arm's worker closed, the next arm started.   *)
EndArm ==
  /\ at = IF Progress THEN "measure" ELSE "ended"
  /\ parent' = Initial
  /\ episodes' = Append(episodes, [c \in 1..chunk |-> Noise(Arm, c - 1)])
  /\ workers' = workers \ {Arm}
  /\ chunk' = 0
  /\ IF turn = Len(Arms)
     THEN at' = "report" /\ turn' = turn
     ELSE at' = "start" /\ turn' = turn + 1
  /\ UNCHANGED <<models, world, reply, shown, total, success, outcome>>

(* _assert_shared_base_noise compares every arm with the first one.        *)
Common(c) == \A e \in ToSet(episodes) : c <= Len(e)
NoiseShared ==
  /\ Len(episodes) > 1 /\ Common(1)
  /\ \A e \in ToSet(episodes), c \in 1..Chunks : Common(c) => e[c] = episodes[1][c]

Report ==
  /\ at = "report"
  /\ outcome' = IF Shared => NoiseShared THEN "PASS" ELSE "BLOCKED"
  /\ at' = "close"
  /\ UNCHANGED <<turn, chunk, models, scenes, total, success, episodes, workers>>

(* A model call, the worker or the renderer raises: main's except.         *)
Fail ==
  /\ at \notin {"report", "close", "closed"}
  /\ Block
  /\ UNCHANGED <<turn, chunk, models, world, reply, shown, total, success, episodes>>

(* main's finally closes the workers of the arms that never ran.           *)
CloseOwn ==
  /\ at = "close"
  /\ workers' = workers \ {Arm}
  /\ at' = "closed"
  /\ UNCHANGED <<turn, chunk, models, scenes, total, success, episodes, outcome>>

Close ==
  /\ at = "close"
  /\ workers' = {}
  /\ at' = "closed"
  /\ UNCHANGED <<turn, chunk, models, scenes, total, success, episodes, outcome>>

Done == at = "closed" /\ UNCHANGED vars

Next ==
  \/ Begin \/ StudentPlan \/ TeacherOnStudentPlan \/ TeacherPlan \/ TeacherAction
  \/ StudentActionOnTeacherPlan \/ Compare \/ Step \/ Show \/ Observe \/ EndChunk
  \/ ShowProgress \/ EndArm \/ Report \/ Fail \/ Close \/ Done

Spec == Init /\ [][Next]_vars

(* The runner is one process and every call of it returns or raises.       *)
FairSpec == Spec /\ WF_vars(Next)

-----------------------------------------------------------------------------
(* Properties                                                              *)

Cache(c) == c.seen \in Seq([arm : ToSet(Arms), chunk : 0..Chunks, latent : Seq(ToSet(Arms) \X Nat)])

(* Type invariant of the runner.                                           *)
TypeOK ==
  /\ turn \in 1..Len(Arms) /\ chunk \in 0..Chunks
  /\ at \in {"start", "video", "teacher", "act", "compare", "step", "render", "observe",
             "record", "ended", "measure", "report", "close", "closed"}
  /\ Cache(student) /\ \A name \in DOMAIN teacher : Cache(teacher[name])
  /\ frameSt \in Nat /\ total \in 0..MaxControls
  /\ workers \subseteq ToSet(Arms) /\ outcome \in {Nobody, "PASS", "BLOCKED"}
  /\ parent.arm \in ToSet(Arms) \cup {Nobody}

(* A Student that plans has been shown exactly the executed records of its *)
(* own episode, and holds no prediction of an earlier chunk                *)
(* (append_student_history clears them before it appends).                 *)
StudentHears ==
  at = "video" /\ Arm \in {"SS", "ST"} =>
    student = [seen |-> history, guess |-> <<>>] /\ frameSt = Frames * Len(history)

(* The history of an episode is its own arm's chunks in order, each latent *)
(* encoded after exactly the batches of the arm's earlier chunks: nothing  *)
(* of an arm that ran before reaches the models of the next one.           *)
ArmsApart ==
  at \notin {"start", "report", "close", "closed"} =>
    \A i \in 1..Len(history) :
      history[i] = [arm |-> Arm, chunk |-> i - 1, latent |-> [k \in 1..i + 1 |-> <<Arm, k - 1>>]]

(* When a chunk has two owners, their action solves are conditioned on the *)
(* same records and the same video plan: what the caches hold agrees, of   *)
(* which assert_fingerprint_match only compares the length.                *)
SameCondition ==
  at = "compare" => conds.student = conds.teacher /\ conds.student.guess = <<plan>>

(* The Teacher holds at most one cache, and none between the chunks of a   *)
(* long episode or between two arms: its caches do not pile up in memory.  *)
TeacherForgets ==
  /\ \A m, n \in DOMAIN teacher : m = n
  /\ at \in {"start", "video", "ended", "report"} => DOMAIN teacher = {}

(* The parent simulator, which every worker was forked from and every      *)
(* comparison starts in, shows its own scene whenever no snapshot is being *)
(* rendered, however the episode ends.                                     *)
ParentAtRest == at \notin {"observe", "measure"} => parent = Initial

(* Arms that were run with shared noise pass the shared-noise gate however *)
(* many chunks each of them took.                                          *)
NoiseAgrees == at = "report" /\ Shared /\ Len(Arms) > 1 => NoiseShared

(* An observation's control_step is the number of controls the arm has     *)
(* made when the scene moved up to it, is never less, and the first        *)
(* observation of a scene is less than Quarter too high; an episode that   *)
(* stops at success also numbers its observations in strict order.         *)
StepsShown ==
  /\ \A i \in 1..Len(shown) :
       /\ shown[i].step >= shown[i].scene.done
       /\ i > 1 /\ shown[i].scene.done # shown[i - 1].scene.done =>
            shown[i].step - shown[i].scene.done < Quarter
  /\ StopOnSuccess => \A i \in 2..Len(shown) : shown[i - 1].step < shown[i].step

(* The controls counted are the controls the worker made, and never more   *)
(* than the horizon, also when it falls inside a chunk.                    *)
HorizonKept ==
  at \in {"video", "step", "ended"} => total = world.done /\ total <= MaxControls

(* A success the worker latched is never reported as a failure at a later  *)
(* chunk, although each chunk's result overwrites the one before it.       *)
SuccessStays ==
  at = "record" /\ at' # "close" /\ world.latched => success'

(* Whatever two owners share is the same for both, nothing is left of the  *)
(* chunk, the arm or the comparison before, and controls and observations  *)
(* are numbered by what the worker has done.                               *)
ArmsComparable ==
  /\ TypeOK
  /\ StudentHears /\ ArmsApart /\ SameCondition /\ TeacherForgets
  /\ ParentAtRest /\ NoiseAgrees /\ StepsShown /\ HorizonKept

SuccessKept == [][SuccessStays]_vars

(* A run ends with a result file and no worker left, whatever raises.      *)
Reported == <>(outcome # Nobody /\ workers = {} /\ at = "closed")

-----------------------------------------------------------------------------
(* The inductive invariant behind them.                                    *)

Scene == [done : Nat, latched : BOOLEAN]
HistoryRecord == [arm : ToSet(Arms), chunk : 0..Chunks, latent : Seq(ToSet(Arms) \X Nat)]
InEpisode == at \notin {"start", "report", "close", "closed"}
Thinking == at \in {"video", "teacher", "act", "compare", "step"}
Rendering == at \in {"render", "observe", "record"}
Latest == shown[Len(shown)]

Typed ==
  /\ TypeOK /\ success \in BOOLEAN
  /\ world \in Scene /\ shown \in Seq([step : Nat, scene : Scene])
  /\ reply \in [steps : Nat, terminal : BOOLEAN, snapshots : Seq(Scene)]
  /\ history \in Seq(HistoryRecord) /\ encoded \in Seq(ToSet(Arms) \X Nat)
  /\ at = "start" => chunk = 0
  /\ Thinking \/ Rendering => chunk < Chunks
  /\ at \in {"ended", "measure"} => chunk > 0

\* What the models of the arm under way have been shown.
Shown ==
  /\ InEpisode =>
       /\ encoded = [k \in 1..(chunk + 1) |-> <<Arm, k - 1>>]
       /\ Len(history) = chunk
       /\ Arm # "TT" => student.seen = history /\ frameSt = Frames * chunk
       /\ Arm # "TT" /\ at = "video" => student = [seen |-> history, guess |-> <<>>]
  /\ DOMAIN teacher \subseteq {CacheName}
  /\ at \in {"start", "video", "ended", "measure", "report"} => DOMAIN teacher = {}
  /\ InEpisode /\ Arm = "SS" => DOMAIN teacher = {}

\* A cache that was told the records of the episode and the plan of the chunk, as each owner's is.
Told == [seen |-> history, guess |-> <<plan>>]
Conditioned ==
  /\ conds = [student |-> conds.student, teacher |-> conds.teacher]
  /\ at = "teacher" => Arm = "ST" /\ conds.student = Told
  /\ at = "act" => Arm # "SS" /\ CacheAt(CacheName) = Told /\ (Arm = "ST" => conds.student = Told)
  /\ at = "compare" => Arm # "SS" /\ conds.student = Told /\ conds.teacher = Told

\* How far the worker, the answer and the observations are from each other.
Moved ==
  /\ InEpisode => shown # <<>>
  /\ at \in {"ended", "measure"} => total = world.done
  /\ Thinking =>
       /\ total = world.done /\ Rendered = 0 /\ Latest.scene.done = total
       /\ StopOnSuccess => ~world.latched /\ Latest.step = total
  /\ Rendering =>
       /\ world.done = total + reply.steps /\ world.done <= MaxControls
       /\ reply.terminal = world.latched /\ reply.steps <= Available
       /\ Len(reply.snapshots) = (Frames - StartFrame) * KeyFrames
       /\ \A k \in 1..Len(reply.snapshots) :
            reply.snapshots[k].done = total + Smaller(k * Quarter, reply.steps)
       /\ Rendered \in 0..Len(reply.snapshots)
       /\ at = "record" <=> Rendered = Len(reply.snapshots)
       /\ at = "observe" => parent.scene = reply.snapshots[Rendered + 1]
       /\ Latest.scene.done = total + Smaller(Rendered * Quarter, reply.steps)
       /\ StopOnSuccess =>
            /\ Latest.step = total + Rendered * Quarter
            /\ world.latched \/ reply.steps = Available \/ world.done = MaxControls

\* The noise of the arms that are done, whatever the number of their chunks.
NoiseKept ==
  /\ episodes \in Seq(Seq({"student", "teacher"} \X Nat))
  /\ at \notin {"close", "closed"} => Len(episodes) = IF at = "report" THEN Len(Arms) ELSE turn - 1
  /\ \A i \in 1..Len(episodes) :
       /\ Len(episodes[i]) > 0
       /\ Shared => \A c \in 1..Len(episodes[i]) : episodes[i][c] = <<"student", c - 1>>

EpisodeInv ==
  /\ Typed /\ Shown /\ Conditioned /\ Moved /\ NoiseKept
  /\ ArmsApart /\ ParentAtRest /\ StepsShown
=============================================================================
