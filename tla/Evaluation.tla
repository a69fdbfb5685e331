----------------------------- MODULE Evaluation -----------------------------
(***************************************************************************)
(* Screening and held-out evaluation,                                      *)
(* experiments/run_handover_mic_success_path_eval.py, with the episode     *)
(* runner experiments/waopd_v0j_teacher_free_behavior.py that its child    *)
(* processes execute.                                                      *)
(*                                                                         *)
(* An evaluator is ONE invocation of screen-epoch, screen or heldout.  It  *)
(* runs one queue of units per GPU in a thread each; a thread reuses what  *)
(* a slot (a unit directory and condition) already holds or starts a child *)
(* that fills it.  A killed evaluator leaves its children running.         *)
(*                                                                         *)
(* A model is <<epoch, content>>: the content some file of that epoch's    *)
(* checkpoint has or had.  <<0, 0>> is the released policy, whose episodes *)
(* carry no adapter hash.                                                  *)
(***************************************************************************)
EXTENDS Naturals, Sequences, FiniteSets

CONSTANTS
    Evaluators,   \* invocations of the evaluation
    Reliable,     \* those that are not killed and whose children do not fail
    Units,        \* units of a phase
    Epochs,       \* epoch checkpoints of the training run
    Gpus,         \* GPUs, and so queues, of an invocation
    Modes,        \* subcommands in use
    MaxEdits,     \* bound: how often a checkpoint file is replaced
    Overlap,      \* may an evaluator start while another one runs?
    Orphans,      \* may it start while a child of a killed one still runs?
    Absent, Truncated, Blocked

ASSUME SizeAssumption ==
    /\ Units \in Nat \ {0} /\ Epochs \in Nat \ {0} /\ Gpus \in Nat \ {0}
    /\ MaxEdits \in Nat
ASSUME ModeAssumption ==
    /\ Modes \subseteq {"screen_epoch", "screen", "heldout"}
    /\ Reliable \subseteq Evaluators
    /\ Overlap \in BOOLEAN /\ Orphans \in BOOLEAN

Conditions == 0 .. Epochs
Models == Conditions \X (0 .. MaxEdits)
ReleasedModel == <<0, 0>>

(* The held-out condition "adapted" is one directory for every epoch.      *)
Slots == {"screen", "heldout"} \X (1 .. Units) \X Conditions

(* episode.json; ran is the model that drove the episode, which no file    *)
(* says, hash the one named in it.                                         *)
Episode == [by: Evaluators, ran: Models, hash: Models]
(* unit_summary.json with status PASS: names the checkpoint path, and      *)
(* carries the progress of its writer's episode.                           *)
Receipt == [by: Evaluators, epoch: Conditions]

(* One exact Released/Adapted pair: hashes and success from the episodes,  *)
(* progress from the receipts.                                             *)
Pair == [unit: 1 .. Units, ran: Models, hash: Models, by: Evaluators,
         releasedBy: Evaluators, progress: Evaluators, releasedProgress: Evaluators]

ASSUME FileAssumption ==
    /\ Absent \notin Episode /\ Truncated \notin Episode /\ Absent # Truncated
    /\ Absent \notin Receipt /\ Blocked \notin Receipt

VARIABLES
    \* -- files ----------------------------------------------------------------
    content,       \* content of each epoch's checkpoint
    episode,       \* episode.json of each slot
    receipt,       \* unit_summary.json of each slot
    epochReceipt,  \* epoch_XX_receipt.json
    selection,     \* screen/selection.json
    heldout,       \* heldout/summary.json
    \* -- processes ------------------------------------------------------------
    child,         \* child of an evaluator in a slot
    pc,            \* evaluator: idle, resolve, run, rehash, commit, or how it ended
    mode,          \* its subcommand
    todo,          \* epochs it has to resolve
    want,          \* models it resolved: its candidates and their hashes
    thread,        \* its queue on each GPU
    rows           \* pairs its threads have built

files == <<content, episode, receipt, epochReceipt, selection, heldout>>
local == <<mode, todo, want, thread, rows>>
vars == <<files, child, pc, local>>

ChildSteps == {"none", "spawned", "loaded", "writing", "written", "zero", "nonzero"}
NoChild == [step |-> "none", ran |-> ReleasedModel, hash |-> ReleasedModel]
IdleThread == [unit |-> 1, at |-> 0, step |-> "done", progress |-> <<>>]

Live(v) == pc[v] \in {"resolve", "run", "rehash", "commit"}
Alive(v, s) == child[v][s].step \in {"spawned", "loaded", "writing", "written"}

TypeOK ==
    /\ content \in [1 .. Epochs -> 0 .. MaxEdits]
    /\ episode \in [Slots -> Episode \cup {Absent, Truncated}]
    /\ receipt \in [Slots -> Receipt \cup {Absent, Blocked}]
    /\ \A e \in 1 .. Epochs : epochReceipt[e] = Absent \/ epochReceipt[e] \subseteq Pair
    /\ \A summary \in {selection, heldout} :
          summary = Absent \/ (summary.model \in Models /\ summary.rows \subseteq Pair)
    /\ child \in [Evaluators -> [Slots -> [step: ChildSteps, ran: Models, hash: Models]]]
    /\ pc \in [Evaluators -> {"idle", "resolve", "run", "rehash", "commit", "committed", "failed"}]
    /\ mode \in [Evaluators -> {"screen_epoch", "screen", "heldout"}]
    /\ \A v \in Evaluators :
          /\ todo[v] \in Seq(1 .. Epochs) /\ want[v] \in Seq(Models)
          /\ rows[v] \subseteq Pair
          /\ \A g \in 1 .. Gpus : thread[v][g].step \in {"check", "wait", "pair", "done", "raised"}

Init ==
    /\ content = [e \in 1 .. Epochs |-> 0]
    /\ episode = [s \in Slots |-> Absent]
    /\ receipt = [s \in Slots |-> Absent]
    /\ epochReceipt = [e \in 1 .. Epochs |-> Absent]
    /\ selection = Absent
    /\ heldout = Absent
    /\ child = [v \in Evaluators |-> [s \in Slots |-> NoChild]]
    /\ pc = [v \in Evaluators |-> "idle"]
    /\ mode = [v \in Evaluators |-> "screen"]
    /\ todo = [v \in Evaluators |-> <<>>]
    /\ want = [v \in Evaluators |-> <<>>]
    /\ thread = [v \in Evaluators |-> [g \in 1 .. Gpus |-> IdleThread]]
    /\ rows = [v \in Evaluators |-> {}]

Goto(v, step) == pc' = [pc EXCEPT ![v] = step]

-----------------------------------------------------------------------------
(* Which slot holds what an evaluator wants.                               *)

(* Candidate i of evaluator v; 0 is the released policy.                   *)
Want(v, i) == IF i = 0 THEN ReleasedModel ELSE want[v][i]

Slot(v, u, i) ==
    IF mode[v] = "heldout" THEN <<"heldout", u, IF i = 0 THEN 0 ELSE 1>>
                           ELSE <<"screen", u, Want(v, i)[1]>>

(* The checkpoint a child of v loads in slot s.                            *)
EpochIn(v, s) == IF s[3] = 0 THEN 0 ELSE IF s[1] = "heldout" THEN want[v][1][1] ELSE s[3]
OnDisk(e) == IF e = 0 THEN ReleasedModel ELSE <<e, content[e]>>

(* _unit_complete: a PASS receipt for this checkpoint path beside an       *)
(* episode with its hash.  What cannot be read is not complete.            *)
Complete(s, m) ==
    /\ receipt[s] \notin {Absent, Blocked}
    /\ receipt[s].epoch = m[1]
    /\ episode[s] \notin {Absent, Truncated}
    /\ episode[s].hash = m

(* Units go to the queues in turn.                                         *)
FirstOf(g) == [IdleThread EXCEPT !.unit = g, !.step = IF g <= Units THEN "check" ELSE "done"]

-----------------------------------------------------------------------------
(* The evaluator: what it evaluates.                                       *)

MayStart ==
    /\ Overlap \/ \A w \in Evaluators : ~Live(w)
    /\ Orphans \/ \A w \in Evaluators, s \in Slots : ~Alive(w, s)

(* screen and screen-epoch resolve their candidates next.                  *)
StartScreening(v) ==
    /\ pc[v] = "idle" /\ MayStart
    /\ \/ /\ "screen" \in Modes
          /\ mode' = [mode EXCEPT ![v] = "screen"]
          /\ todo' = [todo EXCEPT ![v] = [e \in 1 .. Epochs |-> e]]
       \/ /\ "screen_epoch" \in Modes
          /\ mode' = [mode EXCEPT ![v] = "screen_epoch"]
          /\ \E e \in 1 .. Epochs : todo' = [todo EXCEPT ![v] = <<e>>]
    /\ Goto(v, "resolve")
    /\ UNCHANGED <<files, child, want, thread, rows>>

(* Mutant: heldout evaluates what the selected path holds now.             *)
StartHeldoutUnbound(v) ==
    /\ pc[v] = "idle" /\ MayStart
    /\ "heldout" \in Modes /\ selection # Absent
    /\ mode' = [mode EXCEPT ![v] = "heldout"]
    /\ want' = [want EXCEPT ![v] = <<OnDisk(selection.model[1])>>]
    /\ Goto(v, "run")
    /\ thread' = [thread EXCEPT ![v] = [g \in 1 .. Gpus |-> FirstOf(g)]]
    /\ UNCHANGED <<files, child, todo, rows>>

(* heldout is bound to the selection receipt and to its hash.              *)
StartHeldout(v) ==
    /\ pc[v] = "idle" /\ MayStart
    /\ "heldout" \in Modes /\ selection # Absent
    /\ mode' = [mode EXCEPT ![v] = "heldout"]
    /\ want' = [want EXCEPT ![v] = <<selection.model>>]
    /\ IF selection.model = OnDisk(selection.model[1])
       THEN Goto(v, "run") /\ thread' = [thread EXCEPT ![v] = [g \in 1 .. Gpus |-> FirstOf(g)]]
       ELSE Goto(v, "failed") /\ UNCHANGED thread
    /\ UNCHANGED <<files, child, todo, rows>>

(* _resolve_epoch_candidate_checkpoint, one epoch after the other.  The    *)
(* last epoch has only the final checkpoint, which must be the content the *)
(* training summary names (0); then the queues start.                      *)
Resolve(v) ==
    LET i == Len(want[v]) + 1
        e == todo[v][i]
    IN /\ pc[v] = "resolve"
       /\ IF e = Epochs /\ content[e] # 0
          THEN Goto(v, "failed") /\ UNCHANGED <<want, thread>>
          ELSE /\ want' = [want EXCEPT ![v] = Append(@, OnDisk(e))]
               /\ IF i < Len(todo[v]) THEN UNCHANGED <<pc, thread>>
                  ELSE /\ Goto(v, "run")
                       /\ thread' = [thread EXCEPT ![v] = [g \in 1 .. Gpus |-> FirstOf(g)]]
       /\ UNCHANGED <<files, child, mode, todo, rows>>

-----------------------------------------------------------------------------
(* The evaluator: its queues.  A thread takes each of its units through    *)
(* the released policy and then every candidate.                           *)

Here(v, g) == Slot(v, thread[v][g].unit, thread[v][g].at)
Wanted(v, g) == Want(v, thread[v][g].at)

(* _run_policy returns the receipt: released episodes are followed by the  *)
(* first candidate, adapted ones by their pair.                            *)
Take(v, g) ==
    LET t == thread[v][g] IN
    thread' = [thread EXCEPT ![v][g] =
        IF t.at = 0
        THEN [t EXCEPT !.progress = <<receipt[Here(v, g)].by>>, !.at = 1, !.step = "check"]
        ELSE [t EXCEPT !.progress = <<t.progress[1], receipt[Here(v, g)].by>>, !.step = "pair"]]

Raise(v, g) == thread' = [thread EXCEPT ![v][g].step = "raised"]

(* Mutant: nothing that exists is reused.                                  *)
CheckAlwaysRuns(v, g) ==
    /\ pc[v] = "run" /\ thread[v][g].step = "check"
    /\ thread' = [thread EXCEPT ![v][g].step = "wait"]
    /\ child' = [child EXCEPT ![v][Here(v, g)].step = "spawned"]
    /\ UNCHANGED <<files, pc, mode, todo, want, rows>>

(* Mutant: a truncated episode is an error, not an incomplete unit.        *)
CheckDecodes(v, g) ==
    /\ pc[v] = "run" /\ thread[v][g].step = "check"
    /\ IF episode[Here(v, g)] = Truncated THEN Raise(v, g) /\ UNCHANGED child
       ELSE IF Complete(Here(v, g), Wanted(v, g)) THEN Take(v, g) /\ UNCHANGED child
       ELSE /\ thread' = [thread EXCEPT ![v][g].step = "wait"]
            /\ child' = [child EXCEPT ![v][Here(v, g)].step = "spawned"]
    /\ UNCHANGED <<files, pc, mode, todo, want, rows>>

(* A complete slot is reused, any other is run again.                      *)
Check(v, g) ==
    /\ pc[v] = "run" /\ thread[v][g].step = "check"
    /\ IF Complete(Here(v, g), Wanted(v, g)) THEN Take(v, g) /\ UNCHANGED child
       ELSE /\ thread' = [thread EXCEPT ![v][g].step = "wait"]
            /\ child' = [child EXCEPT ![v][Here(v, g)].step = "spawned"]
    /\ UNCHANGED <<files, pc, mode, todo, want, rows>>

(* subprocess.run has returned: the slot must be complete now.             *)
Wait(v, g) ==
    /\ pc[v] = "run" /\ thread[v][g].step = "wait"
    /\ ~Alive(v, Here(v, g))
    /\ IF child[v][Here(v, g)].step = "zero" /\ Complete(Here(v, g), Wanted(v, g))
       THEN Take(v, g) ELSE Raise(v, g)
    /\ UNCHANGED <<files, child, pc, mode, todo, want, rows>>

(* Mutant: the last unit of a queue is missed.                             *)
NextInQueueShort(v, t) ==
    IF t.at < Len(want[v]) THEN [t EXCEPT !.at = @ + 1, !.step = "check"]
    ELSE IF t.unit + Gpus < Units
    THEN [IdleThread EXCEPT !.unit = t.unit + Gpus, !.step = "check"]
    ELSE [t EXCEPT !.step = "done"]

(* The queue after its thread t has built a pair.                          *)
NextInQueue(v, t) ==
    IF t.at < Len(want[v]) THEN [t EXCEPT !.at = @ + 1, !.step = "check"]
    ELSE IF t.unit + Gpus <= Units
    THEN [IdleThread EXCEPT !.unit = t.unit + Gpus, !.step = "check"]
    ELSE [t EXCEPT !.step = "done"]

(* Mutant: the released progress stands for both.                          *)
PairOfReleased(u, a, r, progress) ==
    [unit |-> u, ran |-> a.ran, hash |-> a.hash, by |-> a.by, releasedBy |-> r.by,
     progress |-> progress[1], releasedProgress |-> progress[1]]

(* The pair of the episodes a and r, under progress read before.           *)
PairOf(u, a, r, progress) ==
    [unit |-> u, ran |-> a.ran, hash |-> a.hash, by |-> a.by, releasedBy |-> r.by,
     progress |-> progress[2], releasedProgress |-> progress[1]]

(* _build_pair reads both episodes again; then the next candidate, or the  *)
(* next unit of the queue.                                                 *)
BuildPair(v, g) ==
    LET t == thread[v][g]
        released == episode[Slot(v, t.unit, 0)]
        adapted == episode[Here(v, g)]
    IN /\ pc[v] = "run" /\ t.step = "pair"
       /\ IF released # Truncated /\ adapted # Truncated /\ adapted.hash = Wanted(v, g)
          THEN /\ rows' = [rows EXCEPT ![v] =
                             @ \cup {PairOf(t.unit, adapted, released, t.progress)}]
               /\ thread' = [thread EXCEPT ![v][g] = NextInQueue(v, t)]
          ELSE Raise(v, g) /\ UNCHANGED rows
       /\ UNCHANGED <<files, child, pc, mode, todo, want>>

-----------------------------------------------------------------------------
(* The evaluator: what it concludes.                                       *)

(* The pool waits for every queue; the first exception is raised again.    *)
Gather(v) ==
    /\ pc[v] = "run"
    /\ \A g \in 1 .. Gpus : thread[v][g].step \in {"done", "raised"}
    /\ Goto(v, IF \E g \in 1 .. Gpus : thread[v][g].step = "raised" THEN "failed" ELSE "rehash")
    /\ UNCHANGED <<files, child, local>>

(* The checkpoints must still be what the candidates were resolved to.     *)
Rehash(v) ==
    /\ pc[v] = "rehash"
    /\ Goto(v, IF \A i \in 1 .. Len(want[v]) : want[v][i] = OnDisk(want[v][i][1])
               THEN "commit" ELSE "failed")
    /\ UNCHANGED <<files, child, local>>

(* The receipt of the mode; which candidate wins is left to the scores.    *)
Commit(v) ==
    /\ pc[v] = "commit"
    /\ \/ /\ mode[v] = "screen_epoch"
          /\ epochReceipt' = [epochReceipt EXCEPT ![want[v][1][1]] = rows[v]]
          /\ UNCHANGED <<selection, heldout>>
       \/ /\ mode[v] = "screen"
          /\ \E i \in 1 .. Len(want[v]) :
                selection' = [model |-> want[v][i], rows |-> rows[v]]
          /\ UNCHANGED <<epochReceipt, heldout>>
       \/ /\ mode[v] = "heldout"
          /\ heldout' = [model |-> want[v][1], rows |-> rows[v]]
          /\ UNCHANGED <<epochReceipt, selection>>
    /\ Goto(v, "committed")
    /\ UNCHANGED <<content, episode, receipt, child, local>>

(* An interrupt or a kill.                                                 *)
Abort(v) ==
    /\ Live(v) /\ v \notin Reliable
    /\ Goto(v, "failed")
    /\ UNCHANGED <<files, child, local>>

Proceed(v) ==
    \/ Resolve(v) \/ Gather(v) \/ Rehash(v) \/ Commit(v)
    \/ \E g \in 1 .. Gpus : Check(v, g) \/ Wait(v, g) \/ BuildPair(v, g)

-----------------------------------------------------------------------------
(* The child of evaluator v in slot s: _run_unit and run_one.              *)

StepChild(v, s, from, to) ==
    /\ child[v][s].step = from
    /\ child' = [child EXCEPT ![v][s].step = to]

(* The adapter is loaded once, before the episode.                         *)
LoadAdapter(v, s) ==
    /\ child[v][s].step = "spawned"
    /\ child' = [child EXCEPT ![v][s].step = "loaded", ![v][s].ran = OnDisk(EpochIn(v, s))]
    /\ UNCHANGED <<files, pc, local>>

(* Mutant: the episode is labelled with the hash its parent expects.       *)
OpenEpisodeLabelled(v, s) ==
    /\ child[v][s].step = "loaded"
    /\ child' = [child EXCEPT ![v][s].step = "writing",
                              ![v][s].hash = IF s[3] = 0 THEN ReleasedModel ELSE
                                  CHOOSE m \in {want[v][i] : i \in 1 .. Len(want[v])} :
                                      m[1] = EpochIn(v, s)]
    /\ episode' = [episode EXCEPT ![s] = Truncated]
    /\ UNCHANGED <<content, receipt, epochReceipt, selection, heldout, pc, local>>

(* After it the checkpoint file is hashed for the result, and write_text   *)
(* truncates the old episode.                                              *)
OpenEpisode(v, s) ==
    /\ child[v][s].step = "loaded"
    /\ child' = [child EXCEPT ![v][s].step = "writing",
                              ![v][s].hash = OnDisk(EpochIn(v, s))]
    /\ episode' = [episode EXCEPT ![s] = Truncated]
    /\ UNCHANGED <<content, receipt, epochReceipt, selection, heldout, pc, local>>

WriteEpisode(v, s) ==
    /\ StepChild(v, s, "writing", "written")
    /\ episode' = [episode EXCEPT ![s] =
           [by |-> v, ran |-> child[v][s].ran, hash |-> child[v][s].hash]]
    /\ UNCHANGED <<content, receipt, epochReceipt, selection, heldout, pc, local>>

(* The PASS receipt is published last; the process may still be killed.    *)
WriteReceipt(v, s) ==
    /\ \/ StepChild(v, s, "written", "zero")
       \/ v \notin Reliable /\ StepChild(v, s, "written", "nonzero")
    /\ receipt' = [receipt EXCEPT ![s] = [by |-> v, epoch |-> EpochIn(v, s)]]
    /\ UNCHANGED <<content, episode, epochReceipt, selection, heldout, pc, local>>

(* An exception anywhere: a BLOCKED receipt and exit status 2.             *)
Block(v, s) ==
    /\ v \notin Reliable /\ Alive(v, s)
    /\ child' = [child EXCEPT ![v][s].step = "nonzero"]
    /\ receipt' = [receipt EXCEPT ![s] = Blocked]
    /\ UNCHANGED <<content, episode, epochReceipt, selection, heldout, pc, local>>

(* A kill.                                                                 *)
Kill(v, s) ==
    /\ v \notin Reliable /\ Alive(v, s)
    /\ child' = [child EXCEPT ![v][s].step = "nonzero"]
    /\ UNCHANGED <<files, pc, local>>

Work(v, s) == LoadAdapter(v, s) \/ OpenEpisode(v, s) \/ WriteEpisode(v, s) \/ WriteReceipt(v, s)

-----------------------------------------------------------------------------
(* A checkpoint file is replaced, by new content.                          *)
Edit(e) ==
    /\ content[e] < MaxEdits
    /\ content' = [content EXCEPT ![e] = @ + 1]
    /\ UNCHANGED <<episode, receipt, epochReceipt, selection, heldout, child, pc, local>>

Next ==
    \/ \E v \in Evaluators : StartScreening(v) \/ StartHeldout(v) \/ Proceed(v) \/ Abort(v)
    \/ \E v \in Evaluators, s \in Slots : Work(v, s) \/ Block(v, s) \/ Kill(v, s)
    \/ \E e \in 1 .. Epochs : Edit(e)

Spec == Init /\ [][Next]_vars

(* Threads and children run on; a child ends, one way or the other.        *)
Fairness ==
    /\ \A v \in Evaluators : WF_vars(Proceed(v))
    /\ \A v \in Evaluators, s \in Slots : WF_vars(Work(v, s))

FairSpec == Spec /\ Fairness

-----------------------------------------------------------------------------
(* Properties.                                                             *)

(* The evaluator that had the episode of a pair run had resolved, before   *)
(* that, the content which the pair names.                                 *)
Attested(p) == \E i \in 1 .. Len(want[p.by]) : want[p.by][i] = p.hash

(* An attested episode was driven by the very content it is counted for:   *)
(* the file is hashed only after the episode, but between the resolution   *)
(* and that hash no replacement goes unnoticed.                            *)
AttestedPairsRan ==
    \A v \in DOMAIN rows : \A p \in rows[v] : Attested(p) => p.ran = p.hash

(* test_success_path_eval_task_portability.py:1485, "same path mutated     *)
(* checkpoint rejects old episode": no pair, reused ones included, counts  *)
(* an episode of older content for the checkpoint of now.                  *)
PairsRan == \A v \in Evaluators : \A p \in rows[v] : p.ran = p.hash

(* The two halves of a pair are the halves of one episode: success, from   *)
(* episode.json, and progress, from unit_summary.json, have one writer, on *)
(* the adapted side as long as the checkpoint has not been replaced.       *)
PairsUnmixed ==
    \A v \in DOMAIN rows : mode[v] # "heldout" =>
        \A p \in rows[v] :
            /\ p.releasedBy = p.releasedProgress
            /\ content[p.hash[1]] = 0 => p.by = p.progress

(* Nobody reruns what a committed receipt of current content counts: the   *)
(* episodes it was made from are still there.                              *)
EvidenceKept ==
    \A e \in DOMAIN epochReceipt : epochReceipt[e] # Absent =>
        \A p \in epochReceipt[e] : p.hash = OnDisk(e) =>
            /\ episode[<<"screen", p.unit, e>>] = [by |-> p.by, ran |-> p.ran, hash |-> p.hash]
            /\ episode[<<"screen", p.unit, 0>>] =
                  [by |-> p.releasedBy, ran |-> ReleasedModel, hash |-> ReleasedModel]

(* What evaluators that run one after the other count is what was run, and *)
(* what they have counted stays there.                                     *)
EvidenceSound == AttestedPairsRan /\ EvidenceKept

(* Screening and held-out judge one model: when a held-out summary is      *)
(* committed, its episodes were run with the content whose episodes earned *)
(* the selection.                                                          *)
HeldoutRanSelected ==
    heldout' # heldout =>
        \A p \in heldout'.rows, q \in selection.rows :
            /\ q.hash = selection.model
            /\ Attested(p) /\ Attested(q)
            => p.ran = q.ran

HeldoutIsOfSelected == [][HeldoutRanSelected]_vars

(* Every receipt that counts pairs counts each unit once per candidate.    *)
UnitsOnce(pairs, e) ==
    \A u \in {s[2] : s \in DOMAIN episode} :
        Cardinality({p \in pairs : p.unit = u /\ p.hash[1] = e}) = 1
CountsEachUnitOnce ==
    /\ \A e \in DOMAIN epochReceipt :
          epochReceipt[e] # Absent => UnitsOnce(epochReceipt[e], e)
    /\ selection # Absent => \A e \in DOMAIN epochReceipt : UnitsOnce(selection.rows, e)
    /\ heldout # Absent => UnitsOnce(heldout.rows, heldout.model[1])

(* A pair of evaluators that run one after the other is made of two whole  *)
(* episodes, and a receipt counts each unit once per candidate, whatever   *)
(* earlier invocations and other queues have left behind.                  *)
PairsWhole == PairsUnmixed /\ CountsEachUnitOnce

(* An evaluation that is not disturbed itself completes, whatever killed   *)
(* evaluators and children have left in its slots.                         *)
RerunCompletes ==
    \A v \in Reliable : pc[v] = "resolve" ~> pc[v] = "committed"
=============================================================================
