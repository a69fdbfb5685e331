--------------------------- MODULE EvaluationProofs ---------------------------
(***************************************************************************)
(* Safety of Evaluation for every number of evaluators, units, epochs,     *)
(* GPUs and replaced checkpoints.                                          *)
(***************************************************************************)
EXTENDS Evaluation, FiniteSetTheorems, TLAPS

-----------------------------------------------------------------------------
(* Types.                                                                  *)

ThreadSteps == {"check", "wait", "pair", "done", "raised"}
Thread == [unit : Nat, at : Nat, step : ThreadSteps, progress : Seq(Evaluators)]

(* What an evaluator has resolved does not change any more.                *)
Fixed(v) == pc[v] \notin {"idle", "resolve"}

FilesTyped ==
    /\ content \in [1 .. Epochs -> 0 .. MaxEdits]
    /\ episode \in [Slots -> Episode \cup {Absent, Truncated}]
    /\ receipt \in [Slots -> Receipt \cup {Absent, Blocked}]
    /\ epochReceipt \in [1 .. Epochs -> {Absent} \cup SUBSET Pair]
    /\ \A summary \in {selection, heldout} :
          summary = Absent \/ (summary.model \in Models /\ summary.rows \subseteq Pair)
ChildTyped ==
    child \in [Evaluators -> [Slots -> [step : ChildSteps, ran : Models, hash : Models]]]
EvaluatorTyped ==
    /\ pc \in [Evaluators -> {"idle", "resolve", "run", "rehash", "commit", "committed", "failed"}]
    /\ mode \in [Evaluators -> {"screen_epoch", "screen", "heldout"}]
    /\ todo \in [Evaluators -> Seq(1 .. Epochs)]
    /\ want \in [Evaluators -> Seq(Models)]
    /\ thread \in [Evaluators -> [1 .. Gpus -> Thread]]
    /\ rows \in [Evaluators -> SUBSET Pair]

(* A queue is at one of its units, and what it has read of it was there.   *)
AtWork(v, g) == thread[v][g].step \in {"check", "wait", "pair"}
QueueTyped(v, g) ==
    AtWork(v, g) =>
        /\ Fixed(v) /\ want[v] # <<>>
        /\ thread[v][g].unit \in 1 .. Units /\ thread[v][g].at \in 0 .. Len(want[v])
        /\ thread[v][g].at > 0 =>
              /\ Len(thread[v][g].progress) > 0
              /\ episode[Slot(v, thread[v][g].unit, 0)] # Absent
        /\ thread[v][g].step = "pair" =>
              /\ thread[v][g].at > 0 /\ Len(thread[v][g].progress) = 2
              /\ episode[Here(v, g)] # Absent

(* Candidates are of epochs, and there is one more to resolve, until the   *)
(* queues start; children are started by queues.                           *)
StageTyped(v) ==
    /\ pc[v] = "idle" => want[v] = <<>>
    /\ pc[v] = "resolve" => Len(want[v]) < Len(todo[v])
    /\ pc[v] \in {"run", "rehash", "commit", "committed"} => want[v] # <<>>
    /\ \A i \in 1 .. Len(want[v]) : want[v][i][1] \in 1 .. Epochs
    /\ \A s \in Slots : child[v][s].step # "none" => Fixed(v) /\ want[v] # <<>>

Typed ==
    /\ FilesTyped /\ ChildTyped /\ EvaluatorTyped
    /\ \A v \in Evaluators : StageTyped(v)
    /\ \A v \in Evaluators, g \in 1 .. Gpus : QueueTyped(v, g)
    /\ selection # Absent => selection.model[1] \in 1 .. Epochs

-----------------------------------------------------------------------------
(* Attested episodes.                                                      *)

(* A model that a checkpoint has, or had before.                           *)
Seen(m) == IF m[1] = 0 THEN m = ReleasedModel ELSE m[2] <= content[m[1]]

(* What evaluator v wanted was there before m was.                         *)
WantedBefore(v, m) ==
    \A i \in 1 .. Len(want[v]) : want[v][i][1] = m[1] => want[v][i][2] <= m[2]

(* An episode was driven by what was in the checkpoint after its evaluator *)
(* had resolved it and before the file was hashed.                         *)
Between(by, ran, hash) ==
    /\ Fixed(by) /\ ran[1] = hash[1] /\ ran[2] <= hash[2] /\ WantedBefore(by, ran)

ChildBetween(v, s) ==
    /\ child[v][s].step = "loaded" =>
          /\ Seen(child[v][s].ran) /\ child[v][s].ran[1] = EpochIn(v, s)
          /\ WantedBefore(v, child[v][s].ran)
    /\ child[v][s].step \in {"writing", "written"} =>
          Between(v, child[v][s].ran, child[v][s].hash)
PairsBetween(pairs) == \A p \in pairs : Between(p.by, p.ran, p.hash)

EpisodesBetween ==
    /\ \A v \in Evaluators : \A i \in 1 .. Len(want[v]) : Seen(want[v][i])
    /\ \A v \in Evaluators, s \in Slots : ChildBetween(v, s)
    /\ \A s \in Slots : episode[s] \in Episode =>
          Between(episode[s].by, episode[s].ran, episode[s].hash)
    /\ \A v \in Evaluators : PairsBetween(rows[v])
    /\ \A e \in 1 .. Epochs : epochReceipt[e] # Absent => PairsBetween(epochReceipt[e])
    /\ selection # Absent => Seen(selection.model) /\ PairsBetween(selection.rows)

(* Pairs are of candidates; and a held-out evaluation is about the model   *)
(* selected, if no other evaluator runs beside it.                         *)
PairsOfWanted ==
    \A v \in Evaluators : \A p \in rows[v] : \E i \in 1 .. Len(want[v]) : p.hash = want[v][i]
OneLive == \A v, w \in Evaluators : Live(v) /\ Live(w) => v = w
HeldoutBound ==
    \A v \in Evaluators : Live(v) /\ mode[v] = "heldout" =>
        pc[v] # "resolve" /\ selection # Absent /\ want[v] = <<selection.model>>

(* Evaluators run one after the other, alone with their children; a child  *)
(* of theirs has a queue that waits for it.                                *)
Alone ==
    \A v \in Evaluators : Live(v) =>
        /\ \A w \in Evaluators, s \in Slots : Alive(w, s) => w = v
        /\ \A s \in Slots : Alive(v, s) =>
              \E g \in 1 .. Gpus : thread[v][g].step = "wait" /\ Here(v, g) = s

(* Queues have units of their own, candidates are of different epochs.     *)
OwnUnits ==
    \A v \in Evaluators, g \in 1 .. Gpus : AtWork(v, g) =>
        \E k \in Nat : thread[v][g].unit = g + k * Gpus
OwnEpochs ==
    \A v \in Evaluators :
        /\ \A i, j \in 1 .. Len(todo[v]) : todo[v][i] = todo[v][j] => i = j
        /\ Live(v) /\ mode[v] # "heldout" =>
              \A i \in 1 .. Len(want[v]) : i <= Len(todo[v]) /\ want[v][i][1] = todo[v][i]

(* Nobody has a reason to run a slot again: it is complete, and no child   *)
(* is in it.                                                               *)
Settled(s, m) == Complete(s, m) /\ \A w \in Evaluators : ~Alive(w, s)

(* The two episodes of a pair are there, and settled.                      *)
ReleasedKept(p) ==
    /\ Settled(<<"screen", p.unit, 0>>, ReleasedModel)
    /\ episode[<<"screen", p.unit, 0>>] =
          [by |-> p.releasedBy, ran |-> ReleasedModel, hash |-> ReleasedModel]
AdaptedKept(p) ==
    /\ Settled(<<"screen", p.unit, p.hash[1]>>, p.hash)
    /\ episode[<<"screen", p.unit, p.hash[1]>>] = [by |-> p.by, ran |-> p.ran, hash |-> p.hash]

Screening(v) == Live(v) /\ mode[v] # "heldout"

QueuesSettled ==
    \A v \in Evaluators, g \in 1 .. Gpus : Screening(v) /\ AtWork(v, g) =>
        /\ thread[v][g].at > 0 => Settled(<<"screen", thread[v][g].unit, 0>>, ReleasedModel)
        /\ thread[v][g].step = "pair" =>
              Settled(<<"screen", thread[v][g].unit, Wanted(v, g)[1]>>, Wanted(v, g))
RowsSettled ==
    \A v \in Evaluators : Screening(v) => \A p \in rows[v] : ReleasedKept(p) /\ AdaptedKept(p)

(* What is committed is settled as long as its checkpoint is what it was;  *)
(* who screens now has seen that or newer content.                         *)
PairSettled(p) ==
    /\ p.hash[1] \in 1 .. Epochs /\ Seen(p.hash)
    /\ \A v \in Evaluators : Screening(v) =>
          \A i \in 1 .. Len(want[v]) : want[v][i][1] = p.hash[1] => p.hash[2] <= want[v][i][2]
    /\ ReleasedKept(p)
    /\ p.hash = OnDisk(p.hash[1]) => AdaptedKept(p)
CommittedSettled ==
    \A e \in 1 .. Epochs : epochReceipt[e] # Absent => \A p \in epochReceipt[e] : PairSettled(p)

-----------------------------------------------------------------------------
(* Slots and models.                                                       *)

(* Elements of a sequence are in the set it is over.                       *)
LEMMA ElementIn ==
    ASSUME NEW S, NEW q \in Seq(S), NEW i \in 1 .. Len(q)
    PROVE  q[i] \in S
OBVIOUS

(* A slot is a bank, a unit and a condition.                               *)
LEMMA SlotFacts ==
    ASSUME NEW s \in Slots
    PROVE  /\ s = <<s[1], s[2], s[3]>> /\ s[1] \in {"screen", "heldout"}
           /\ s[2] \in 1 .. Units /\ s[3] \in Conditions
BY DEF Slots

(* The slots of a screening and of a held-out evaluation.                  *)
LEMMA SlotIntro ==
    /\ \A u \in 1 .. Units, e \in Conditions : <<"screen", u, e>> \in Slots
    /\ \A u \in 1 .. Units : <<"heldout", u, 0>> \in Slots /\ <<"heldout", u, 1>> \in Slots
BY SizeAssumption DEF Slots, Conditions

(* A model is an epoch, or the released policy as 0, and a version of its  *)
(* content.                                                                *)
LEMMA ModelFacts ==
    /\ \A m \in Models : m = <<m[1], m[2]>> /\ m[1] \in Conditions /\ m[2] \in 0 .. MaxEdits
    /\ \A e \in Conditions, c \in 0 .. MaxEdits : <<e, c>> \in Models
    /\ ReleasedModel \in Models /\ ReleasedModel[1] = 0 /\ ReleasedModel[2] = 0
    /\ \A e \in 1 .. Epochs : e \in Conditions
BY SizeAssumption DEF Models, Conditions, ReleasedModel

(* What is in a checkpoint now is a model, and has been seen.              *)
LEMMA OnDiskFacts ==
    ASSUME FilesTyped, NEW e \in Conditions
    PROVE  /\ OnDisk(e) \in Models /\ OnDisk(e)[1] = e /\ Seen(OnDisk(e))
           /\ e # 0 => e \in 1 .. Epochs /\ OnDisk(e)[2] = content[e]
<1>1. CASE e = 0
  BY <1>1, ModelFacts DEF OnDisk, Seen
<1>2. CASE e # 0
  <2>1. e \in 1 .. Epochs
    BY <1>2, SizeAssumption DEF Conditions
  <2>2. content[e] \in 0 .. MaxEdits
    BY <2>1 DEF FilesTyped
  <2>3. QED
    BY <1>2, <2>1, <2>2, ModelFacts DEF OnDisk, Seen
<1>3. QED
  BY <1>1, <1>2

(* Candidates are models, of the epochs, and so are the slots they fill.   *)
LEMMA WantFacts ==
    ASSUME EvaluatorTyped, NEW v \in Evaluators, StageTyped(v)
    PROVE  /\ \A i \in 1 .. Len(want[v]) : want[v][i] \in Models /\ want[v][i][1] \in 1 .. Epochs
           /\ \A i \in 0 .. Len(want[v]) : Want(v, i) \in Models
           /\ \A u \in 1 .. Units, i \in 0 .. Len(want[v]) : Slot(v, u, i) \in Slots
<1>1. \A i \in 1 .. Len(want[v]) : want[v][i] \in Models /\ want[v][i][1] \in 1 .. Epochs
  BY DEF EvaluatorTyped, StageTyped
<1>2. \A i \in 0 .. Len(want[v]) : Want(v, i) \in Models
  BY <1>1, ModelFacts DEF Want, EvaluatorTyped
<1>3. ASSUME NEW u \in 1 .. Units, NEW i \in 0 .. Len(want[v]) PROVE Slot(v, u, i) \in Slots
  BY <1>2, SlotIntro, ModelFacts DEF Slot
<1>4. QED
  BY <1>1, <1>2, <1>3

(* The checkpoint that a child loads for a slot is one of the conditions.  *)
LEMMA EpochInFacts ==
    ASSUME EvaluatorTyped, NEW v \in Evaluators, StageTyped(v), want[v] # <<>>, NEW s \in Slots
    PROVE  EpochIn(v, s) \in Conditions
<1>1. want[v] \in Seq(Models)
  BY DEF EvaluatorTyped
<1>2. 1 \in 1 .. Len(want[v])
  BY <1>1
<1>3. want[v][1][1] \in Conditions
  BY <1>2, WantFacts, ModelFacts
<1>4. QED
  BY <1>3, SlotFacts, SizeAssumption DEF EpochIn, Conditions

(* A queue's place and the released episode it goes with.                  *)
LEMMA QueueFacts ==
    ASSUME Typed, NEW v \in Evaluators, NEW g \in 1 .. Gpus, AtWork(v, g)
    PROVE  /\ Fixed(v) /\ want[v] # <<>> /\ want[v] \in Seq(Models)
           /\ thread[v][g] \in Thread
           /\ thread[v][g].unit \in 1 .. Units /\ thread[v][g].at \in 0 .. Len(want[v])
           /\ Here(v, g) \in Slots /\ Slot(v, thread[v][g].unit, 0) \in Slots
           /\ Wanted(v, g) \in Models
<1>1. QueueTyped(v, g) /\ StageTyped(v) /\ EvaluatorTyped
  BY DEF Typed
<1>2. want[v] \in Seq(Models) /\ thread[v][g] \in Thread
  BY <1>1 DEF EvaluatorTyped
<1>3. 0 \in 0 .. Len(want[v])
  BY <1>2
<1>4. QED
  BY <1>1, <1>2, <1>3, WantFacts DEF QueueTyped, Here, Wanted

-----------------------------------------------------------------------------
(* Frames: what no step takes back.                                        *)

(* An evaluator that has resolved its candidates keeps them.               *)
LEMMA FixedKept ==
    ASSUME Typed, [Next]_vars, NEW v \in Evaluators, Fixed(v)
    PROVE  Fixed(v)' /\ want'[v] = want[v] /\ mode'[v] = mode[v]
<1> USE DEF Typed, EvaluatorTyped, Fixed, Goto
<1>1. ASSUME NEW w \in Evaluators, StartScreening(w) PROVE Fixed(v)' /\ want'[v] = want[v] /\ mode'[v] = mode[v]
  BY <1>1 DEF StartScreening
<1>2. ASSUME NEW w \in Evaluators, StartHeldout(w) PROVE Fixed(v)' /\ want'[v] = want[v] /\ mode'[v] = mode[v]
  BY <1>2 DEF StartHeldout
<1>3. ASSUME NEW w \in Evaluators, Resolve(w) PROVE Fixed(v)' /\ want'[v] = want[v] /\ mode'[v] = mode[v]
  BY <1>3 DEF Resolve
<1>4. ASSUME NEW w \in Evaluators, Gather(w) \/ Rehash(w) \/ Commit(w) \/ Abort(w)
      PROVE  Fixed(v)' /\ want'[v] = want[v] /\ mode'[v] = mode[v]
  BY <1>4 DEF Gather, Rehash, Commit, Abort, local
<1>5. ASSUME NEW w \in Evaluators, NEW g \in 1 .. Gpus, Check(w, g) \/ Wait(w, g) \/ BuildPair(w, g)
      PROVE  Fixed(v)' /\ want'[v] = want[v] /\ mode'[v] = mode[v]
  BY <1>5 DEF Check, Wait, BuildPair
<1>6. ASSUME NEW w \in Evaluators, NEW s \in Slots, Work(w, s) \/ Block(w, s) \/ Kill(w, s)
      PROVE  Fixed(v)' /\ want'[v] = want[v] /\ mode'[v] = mode[v]
  BY <1>6 DEF Work, LoadAdapter, OpenEpisode, WriteEpisode, WriteReceipt, Block, Kill, local
<1>7. ASSUME NEW e \in 1 .. Epochs, Edit(e)
      PROVE  Fixed(v)' /\ want'[v] = want[v] /\ mode'[v] = mode[v]
  BY <1>7 DEF Edit, local
<1>8. CASE UNCHANGED vars
  BY <1>8 DEF vars, local
<1>9. QED
  BY <1>1, <1>2, <1>3, <1>4, <1>5, <1>6, <1>7, <1>8 DEF Next, Proceed

(* Contents only move on.                                                  *)
LEMMA ContentGrows ==
    ASSUME Typed, [Next]_vars, NEW e \in 1 .. Epochs
    PROVE  content[e] \in Nat /\ content'[e] \in Nat /\ content[e] <= content'[e]
<1>1. content[e] \in 0 .. MaxEdits
  BY DEF Typed, FilesTyped
<1>2. CASE ~\E d \in 1 .. Epochs : Edit(d)
  <2>1. ASSUME NEW v \in Evaluators, StartScreening(v) \/ StartHeldout(v) \/ Proceed(v) \/ Abort(v)
        PROVE  content' = content
    BY <2>1 DEF files, StartScreening, StartHeldout, Proceed, Resolve, Gather, Rehash, Commit,
       Check, Wait, BuildPair, Abort
  <2>2. ASSUME NEW v \in Evaluators, NEW s \in Slots, Work(v, s) \/ Block(v, s) \/ Kill(v, s)
        PROVE  content' = content
    BY <2>2 DEF files, Work, LoadAdapter, OpenEpisode, WriteEpisode, WriteReceipt, Block, Kill
  <2>3. content' = content
    BY <1>2, <2>1, <2>2 DEF Next, vars, files
  <2>4. QED
    BY <1>1, <2>3
<1>3. ASSUME NEW d \in 1 .. Epochs, Edit(d) PROVE content'[e] \in {content[e], content[e] + 1}
  BY <1>3 DEF Edit, Typed, FilesTyped
<1>4. QED
  BY <1>1, <1>2, <1>3

(* An episode file that is there may be truncated, but does not vanish.    *)
LEMMA EpisodeStays ==
    ASSUME Typed, [Next]_vars, NEW s \in Slots, episode[s] # Absent
    PROVE  episode'[s] # Absent
<1>1. CASE episode' = episode
  BY <1>1
<1>2. ASSUME NEW v \in Evaluators, NEW t \in Slots, OpenEpisode(v, t) PROVE episode'[s] # Absent
  BY <1>2, FileAssumption DEF OpenEpisode, Typed, FilesTyped
<1>3. ASSUME NEW v \in Evaluators, NEW t \in Slots, WriteEpisode(v, t) PROVE episode'[s] # Absent
  <2> DEFINE new == [by |-> v, ran |-> child[v][t].ran, hash |-> child[v][t].hash]
  <2>1. new \in Episode
    BY DEF Typed, ChildTyped, Episode
  <2>2. new # Absent
    BY <2>1, FileAssumption
  <2> HIDE DEF new
  <2>3. episode' = [episode EXCEPT ![t] = new]
    BY <1>3 DEF WriteEpisode, new
  <2>4. QED
    BY <2>2, <2>3 DEF Typed, FilesTyped
<1>4. ASSUME NEW v \in Evaluators, StartScreening(v) \/ StartHeldout(v) \/ Proceed(v) \/ Abort(v)
      PROVE  episode' = episode
  BY <1>4 DEF files, StartScreening, StartHeldout, Proceed, Resolve, Gather, Rehash, Commit,
     Check, Wait, BuildPair, Abort
<1>5. ASSUME NEW v \in Evaluators, NEW t \in Slots,
             LoadAdapter(v, t) \/ WriteReceipt(v, t) \/ Block(v, t) \/ Kill(v, t)
      PROVE  episode' = episode
  BY <1>5 DEF files, LoadAdapter, WriteReceipt, Block, Kill
<1>6. ASSUME NEW e \in 1 .. Epochs, Edit(e) PROVE episode' = episode
  BY <1>6 DEF Edit
<1>7. CASE UNCHANGED vars
  BY <1>1, <1>7 DEF vars, files
<1>8. QED
  BY <1>1, <1>2, <1>3, <1>4, <1>5, <1>6, <1>7 DEF Next, Work

(* What FirstOf and Take make of a queue.                                  *)
LEMMA FirstOfFacts ==
    ASSUME NEW g \in 1 .. Gpus
    PROVE  /\ FirstOf(g) \in Thread /\ FirstOf(g).unit = g /\ FirstOf(g).at = 0
           /\ FirstOf(g).step \in {"check", "done"}
           /\ FirstOf(g).step = "check" => g \in 1 .. Units
<1>1. <<>> \in Seq(Evaluators) /\ g \in Nat
  BY SizeAssumption
<1>2. IdleThread \in Thread /\ IdleThread.at = 0
  BY <1>1 DEF IdleThread, Thread, ThreadSteps
<1>3. CASE g <= Units
  <2>1. FirstOf(g) = [IdleThread EXCEPT !.unit = g, !.step = "check"]
    BY <1>3 DEF FirstOf
  <2>2. g \in 1 .. Units
    BY <1>3, SizeAssumption
  <2>3. FirstOf(g) \in Thread /\ FirstOf(g).at = 0
    BY <1>1, <1>2, <2>1 DEF Thread, ThreadSteps
  <2>4. FirstOf(g).unit = g /\ FirstOf(g).step = "check"
    BY <1>2, <2>1 DEF Thread
  <2>5. QED
    BY <2>2, <2>3, <2>4
<1>4. CASE ~(g <= Units)
  <2>1. FirstOf(g) = [IdleThread EXCEPT !.unit = g, !.step = "done"]
    BY <1>4 DEF FirstOf
  <2>2. QED
    BY <1>1, <1>2, <1>4, <2>1, SizeAssumption DEF Thread, ThreadSteps
<1>5. QED
  BY <1>3, <1>4

(* What a queue takes is an episode that is there, and its receipt.        *)
LEMMA TakeFacts ==
    ASSUME Typed, NEW v \in Evaluators, NEW g \in 1 .. Gpus, AtWork(v, g),
           Complete(Here(v, g), Wanted(v, g)), Take(v, g)
    PROVE  /\ thread' \in [Evaluators -> [1 .. Gpus -> Thread]]
           /\ \A w \in Evaluators, h \in 1 .. Gpus : <<w, h>> # <<v, g>> => thread'[w][h] = thread[w][h]
           /\ thread'[v][g].unit = thread[v][g].unit
           /\ episode[Here(v, g)] \in Episode
           /\ \/ /\ thread[v][g].at = 0 /\ thread'[v][g].at = 1
                 /\ thread'[v][g].step = "check" /\ Len(thread'[v][g].progress) = 1
              \/ /\ thread[v][g].at > 0 /\ thread'[v][g].at = thread[v][g].at
                 /\ thread'[v][g].step = "pair" /\ Len(thread'[v][g].progress) = 2
<1> DEFINE t == thread[v][g]
           new == IF t.at = 0
                  THEN [t EXCEPT !.progress = <<receipt[Here(v, g)].by>>, !.at = 1, !.step = "check"]
                  ELSE [t EXCEPT !.progress = <<t.progress[1], receipt[Here(v, g)].by>>,
                                 !.step = "pair"]
<1>1. t \in Thread /\ Here(v, g) \in Slots /\ QueueTyped(v, g) /\ t.at \in Nat
  BY QueueFacts DEF Typed, Thread
<1>2. receipt[Here(v, g)] \in Receipt /\ episode[Here(v, g)] \in Episode
  BY <1>1 DEF Complete, Typed, FilesTyped
<1>3. receipt[Here(v, g)].by \in Evaluators
  BY <1>2 DEF Receipt
<1>4. CASE t.at = 0
  <2>1. new = [unit |-> t.unit, at |-> 1, step |-> "check", progress |-> <<receipt[Here(v, g)].by>>]
    BY <1>1, <1>4 DEF Thread
  <2>2. <<receipt[Here(v, g)].by>> \in Seq(Evaluators)
    BY <1>3
  <2>3. new \in Thread /\ new.unit = t.unit /\ new.at = 1 /\ new.step = "check" /\ Len(new.progress) = 1
    BY <1>1, <2>1, <2>2 DEF Thread, ThreadSteps
  <2> HIDE DEF new
  <2>4. thread' = [thread EXCEPT ![v][g] = new]
    BY DEF Take, new
  <2>5. thread \in [Evaluators -> [1 .. Gpus -> Thread]]
    BY DEF Typed, EvaluatorTyped
  <2>6. QED
    BY <1>2, <1>4, <2>3, <2>4, <2>5
<1>5. CASE t.at # 0
  <2>1. new = [unit |-> t.unit, at |-> t.at, step |-> "pair",
               progress |-> <<t.progress[1], receipt[Here(v, g)].by>>]
    BY <1>1, <1>5 DEF Thread
  <2>2. t.progress \in Seq(Evaluators) /\ Len(t.progress) > 0
    BY <1>1, <1>5 DEF QueueTyped, Thread
  <2>3. <<t.progress[1], receipt[Here(v, g)].by>> \in Seq(Evaluators)
    BY <1>3, <2>2
  <2>4. new \in Thread /\ new.unit = t.unit /\ new.at = t.at /\ new.step = "pair" /\ Len(new.progress) = 2
    BY <1>1, <2>1, <2>3 DEF Thread, ThreadSteps
  <2> HIDE DEF new
  <2>5. thread' = [thread EXCEPT ![v][g] = new]
    BY DEF Take, new
  <2>6. thread \in [Evaluators -> [1 .. Gpus -> Thread]]
    BY DEF Typed, EvaluatorTyped
  <2>7. t.at > 0
    BY <1>1, <1>5
  <2>8. QED
    BY <1>2, <2>4, <2>5, <2>6, <2>7
<1>6. QED
  BY <1>4, <1>5

(* A queue that raises does nothing more.                                  *)
LEMMA RaiseFacts ==
    ASSUME Typed, NEW v \in Evaluators, NEW g \in 1 .. Gpus, Raise(v, g)
    PROVE  /\ thread' \in [Evaluators -> [1 .. Gpus -> Thread]]
           /\ \A w \in Evaluators, h \in 1 .. Gpus : <<w, h>> # <<v, g>> => thread'[w][h] = thread[w][h]
           /\ thread'[v][g].step = "raised"
<1> DEFINE new == [thread[v][g] EXCEPT !.step = "raised"]
<1>1. thread \in [Evaluators -> [1 .. Gpus -> Thread]]
  BY DEF Typed, EvaluatorTyped
<1>2. new \in Thread /\ new.step = "raised"
  BY <1>1 DEF Thread, ThreadSteps
<1>3. thread' = [thread EXCEPT ![v][g] = new]
  BY DEF Raise
<1> HIDE DEF new
<1>4. QED
  BY <1>1, <1>2, <1>3

-----------------------------------------------------------------------------
(* Types are preserved.                                                    *)

(* At first nothing is written and nobody is at work.                      *)
LEMMA InitTyped == Init => Typed
<1> SUFFICES ASSUME Init PROVE Typed
  OBVIOUS
<1>1. FilesTyped
  BY SizeAssumption DEF Init, FilesTyped
<1>2. ChildTyped
  BY ModelFacts DEF Init, ChildTyped, NoChild, ChildSteps
<1>3. EvaluatorTyped
  <2>1. IdleThread \in Thread
    <3>1. <<>> \in Seq(Evaluators)
      OBVIOUS
    <3>2. QED
      BY <3>1 DEF IdleThread, Thread, ThreadSteps
  <2>2. QED
    BY <2>1 DEF Init, EvaluatorTyped
<1>4. \A v \in Evaluators : StageTyped(v)
  BY DEF Init, StageTyped, NoChild
<1>5. \A v \in Evaluators, g \in 1 .. Gpus : QueueTyped(v, g)
  BY DEF Init, QueueTyped, AtWork, IdleThread
<1>6. QED
  BY <1>1, <1>2, <1>3, <1>4, <1>5 DEF Typed, Init

(* A queue that does not move is still where it was.                       *)
LEMMA QueueKept ==
    ASSUME Typed, [Next]_vars, NEW v \in Evaluators, NEW g \in 1 .. Gpus,
           thread'[v][g] = thread[v][g]
    PROVE  QueueTyped(v, g)'
<1>1. CASE ~AtWork(v, g)
  BY <1>1 DEF QueueTyped, AtWork
<1>2. CASE AtWork(v, g)
  <2>1. Fixed(v)' /\ want'[v] = want[v] /\ mode'[v] = mode[v]
    BY <1>2, QueueFacts, FixedKept
  <2>2. /\ Here(v, g)' = Here(v, g)
        /\ Slot(v, thread[v][g].unit, 0)' = Slot(v, thread[v][g].unit, 0)
    BY <2>1 DEF Here, Slot, Want
  <2>3. Here(v, g) \in Slots /\ Slot(v, thread[v][g].unit, 0) \in Slots
    BY <1>2, QueueFacts
  <2>4. QueueTyped(v, g)
    BY DEF Typed
  <2>5. thread[v][g].at > 0 => episode'[Slot(v, thread[v][g].unit, 0)] # Absent
    BY <1>2, <2>3, <2>4, EpisodeStays DEF QueueTyped
  <2>6. thread[v][g].step = "pair" => episode'[Here(v, g)] # Absent
    BY <1>2, <2>3, <2>4, EpisodeStays DEF QueueTyped
  <2>7. QED
    BY <1>2, <2>1, <2>2, <2>4, <2>5, <2>6 DEF QueueTyped
<1>3. QED
  BY <1>1, <1>2

(* Nor has an evaluator changed whose children have not.                   *)
LEMMA StageKept ==
    ASSUME NEW v \in Evaluators, StageTyped(v), pc'[v] = pc[v], want'[v] = want[v],
           todo'[v] = todo[v],
           \A s \in Slots : child'[v][s].step # "none" => child[v][s].step # "none"
    PROVE  StageTyped(v)'
BY DEF StageTyped, Fixed

(* The evaluator resolves its candidates, which starts its queues.         *)
LEMMA StartTyped ==
    ASSUME Typed, [Next]_vars, NEW v \in Evaluators,
           StartScreening(v) \/ StartHeldout(v) \/ Resolve(v)
    PROVE  Typed'
<1> USE DEF Goto
<1>1. FilesTyped' /\ ChildTyped' /\ UNCHANGED <<child, rows>>
  BY DEF StartScreening, StartHeldout, Resolve, files, Typed, FilesTyped, ChildTyped
<1>2. selection' = selection
  BY DEF StartScreening, StartHeldout, Resolve, files
<1>3. ~Fixed(v) /\ \A s \in Slots : child[v][s].step = "none"
  BY DEF StartScreening, StartHeldout, Resolve, Typed, StageTyped, Fixed
<1>4. \A g \in 1 .. Gpus : ~AtWork(v, g)
  BY <1>3 DEF Typed, QueueTyped
<1>5. /\ EvaluatorTyped' /\ StageTyped(v)'
      /\ \A w \in Evaluators \ {v} : pc'[w] = pc[w] /\ want'[w] = want[w] /\ todo'[w] = todo[w]
      /\ \A w \in Evaluators, g \in 1 .. Gpus : thread'[w][g] # thread[w][g] =>
            w = v /\ thread'[w][g] = FirstOf(g) /\ Fixed(v)' /\ want'[v] # <<>>
  <2>1. CASE StartScreening(v)
    <3>1. \A e \in 1 .. Epochs : <<e>> \in Seq(1 .. Epochs) /\ Len(<<e>>) = 1
      OBVIOUS
    <3>2. /\ [e \in 1 .. Epochs |-> e] \in Seq(1 .. Epochs)
          /\ Len([e \in 1 .. Epochs |-> e]) = Epochs
      BY SizeAssumption
    <3>3. todo' \in [Evaluators -> Seq(1 .. Epochs)] /\ Len(todo'[v]) > 0
      <4>1. \/ todo' = [todo EXCEPT ![v] = [e \in 1 .. Epochs |-> e]]
            \/ \E e \in 1 .. Epochs : todo' = [todo EXCEPT ![v] = <<e>>]
        BY <2>1 DEF StartScreening
      <4>2. todo \in [Evaluators -> Seq(1 .. Epochs)]
        BY DEF Typed, EvaluatorTyped
      <4>3. ASSUME NEW new \in Seq(1 .. Epochs), Len(new) > 0, todo' = [todo EXCEPT ![v] = new]
            PROVE  todo' \in [Evaluators -> Seq(1 .. Epochs)] /\ Len(todo'[v]) > 0
        BY <4>2, <4>3
      <4>4. Epochs > 0
        BY SizeAssumption
      <4>5. CASE todo' = [todo EXCEPT ![v] = [e \in 1 .. Epochs |-> e]]
        <5> DEFINE all == [e \in 1 .. Epochs |-> e]
        <5>1. all \in Seq(1 .. Epochs) /\ Len(all) > 0
          BY <3>2, <4>4
        <5> HIDE DEF all
        <5>2. todo' = [todo EXCEPT ![v] = all]
          BY <4>5 DEF all
        <5>3. QED
          BY <4>3, <5>1, <5>2
      <4>6. ASSUME NEW e \in 1 .. Epochs, todo' = [todo EXCEPT ![v] = <<e>>]
            PROVE  todo' \in [Evaluators -> Seq(1 .. Epochs)] /\ Len(todo'[v]) > 0
        <5>1. <<e>> \in Seq(1 .. Epochs) /\ Len(<<e>>) > 0
          BY <3>1
        <5>2. QED
          BY <4>3, <4>6, <5>1
      <4>7. QED
        BY <4>1, <4>5, <4>6
    <3>4. want[v] = <<>>
      BY <2>1 DEF StartScreening, Typed, StageTyped
    <3>5. EvaluatorTyped'
      BY <2>1, <3>3 DEF StartScreening, Typed, EvaluatorTyped
    <3>6. StageTyped(v)'
      <4>1. pc'[v] = "resolve" /\ want'[v] = <<>> /\ child' = child
        BY <2>1, <3>4 DEF StartScreening, Typed, EvaluatorTyped
      <4>2. QED
        BY <1>3, <3>3, <4>1 DEF StageTyped
    <3>7. QED
      BY <2>1, <3>5, <3>6 DEF StartScreening, Typed, EvaluatorTyped
  <2>2. CASE StartHeldout(v)
    <3>1. selection.model \in Models /\ selection.model[1] \in 1 .. Epochs
      BY <2>2 DEF StartHeldout, Typed, FilesTyped
    <3>2. want' \in [Evaluators -> Seq(Models)] /\ want'[v] = <<selection.model>>
      BY <2>2, <3>1 DEF StartHeldout, Typed, EvaluatorTyped
    <3>3. \A g \in 1 .. Gpus : FirstOf(g) \in Thread
      BY FirstOfFacts
    <3>4. /\ pc' \in [Evaluators -> {"idle", "resolve", "run", "rehash", "commit", "committed", "failed"}]
          /\ pc'[v] \in {"run", "failed"}
      BY <2>2 DEF StartHeldout, Typed, EvaluatorTyped
    <3>5. thread' \in [Evaluators -> [1 .. Gpus -> Thread]]
      BY <2>2, <3>3 DEF StartHeldout, Typed, EvaluatorTyped
    <3>6. EvaluatorTyped'
      BY <2>2, <3>2, <3>4, <3>5 DEF StartHeldout, Typed, EvaluatorTyped
    <3>7. StageTyped(v)'
      BY <1>1, <1>3, <3>1, <3>2, <3>4 DEF StageTyped
    <3>8. \A w \in Evaluators, g \in 1 .. Gpus : thread'[w][g] # thread[w][g] =>
            w = v /\ thread'[w][g] = FirstOf(g)
      <4>1. \/ thread' = [thread EXCEPT ![v] = [g \in 1 .. Gpus |-> FirstOf(g)]]
            \/ thread' = thread
        BY <2>2 DEF StartHeldout
      <4>2. thread \in [Evaluators -> [1 .. Gpus -> Thread]]
        BY DEF Typed, EvaluatorTyped
      <4>3. CASE thread' = [thread EXCEPT ![v] = [g \in 1 .. Gpus |-> FirstOf(g)]]
        <5> DEFINE new == [g \in 1 .. Gpus |-> FirstOf(g)]
        <5>1. \A g \in 1 .. Gpus : new[g] = FirstOf(g)
          OBVIOUS
        <5>2. thread' = [thread EXCEPT ![v] = new]
          BY <4>3
        <5> HIDE DEF new
        <5>3. QED
          BY <4>2, <5>1, <5>2
      <4>4. QED
        BY <4>1, <4>3
    <3>9. QED
      BY <2>2, <3>2, <3>4, <3>6, <3>7, <3>8 DEF StartHeldout, Typed, EvaluatorTyped, Fixed
  <2>3. CASE Resolve(v)
    <3> DEFINE i == Len(want[v]) + 1
               e == todo[v][i]
    <3>1. want[v] \in Seq(Models) /\ todo[v] \in Seq(1 .. Epochs) /\ Len(want[v]) < Len(todo[v])
      <4>1. pc[v] = "resolve"
        BY <2>3 DEF Resolve
      <4>2. Len(want[v]) < Len(todo[v])
        BY <4>1 DEF Typed, StageTyped
      <4>3. QED
        BY <4>2 DEF Typed, EvaluatorTyped
    <3>2. e \in 1 .. Epochs
      <4>1. Len(want[v]) \in Nat /\ Len(todo[v]) \in Nat
        BY <3>1
      <4>2. i \in 1 .. Len(todo[v])
        BY <3>1, <4>1
      <4> HIDE DEF i
      <4>3. QED
        BY <3>1, <4>2, ElementIn
    <3>3. OnDisk(e) \in Models /\ OnDisk(e)[1] = e
      BY <3>2, ModelFacts, OnDiskFacts DEF Typed
    <3> HIDE DEF e
    <3>4. CASE UNCHANGED <<want, thread>> /\ pc' = [pc EXCEPT ![v] = "failed"]
      <4>1. EvaluatorTyped'
        BY <2>3, <3>4 DEF Resolve, Typed, EvaluatorTyped
      <4>2. pc'[v] = "failed" /\ want'[v] = want[v]
        BY <3>4 DEF Typed, EvaluatorTyped
      <4>3. StageTyped(v)'
        BY <1>1, <1>3, <4>2 DEF Typed, StageTyped
      <4>4. QED
        BY <2>3, <3>4, <4>1, <4>3 DEF Resolve, Typed, EvaluatorTyped
    <3>5. CASE /\ want' = [want EXCEPT ![v] = Append(@, OnDisk(e))]
               /\ IF i < Len(todo[v]) THEN UNCHANGED <<pc, thread>>
                  ELSE /\ pc' = [pc EXCEPT ![v] = "run"]
                       /\ thread' = [thread EXCEPT ![v] = [g \in 1 .. Gpus |-> FirstOf(g)]]
      <4>1. /\ want' \in [Evaluators -> Seq(Models)] /\ want'[v] = Append(want[v], OnDisk(e))
            /\ \A w \in Evaluators \ {v} : want'[w] = want[w]
        BY <3>3, <3>5 DEF Typed, EvaluatorTyped
      <4>2. /\ Len(want'[v]) = i /\ want'[v] # <<>>
            /\ \A j \in 1 .. Len(want'[v]) : want'[v][j][1] \in 1 .. Epochs
        BY <3>1, <3>2, <3>3, <4>1 DEF Typed, StageTyped
      <4>3. CASE i < Len(todo[v]) /\ UNCHANGED <<pc, thread>>
        <5>1. EvaluatorTyped'
          BY <2>3, <4>1, <4>3 DEF Resolve, Typed, EvaluatorTyped
        <5>2. pc'[v] = "resolve" /\ todo'[v] = todo[v]
          BY <2>3, <4>3 DEF Resolve
        <5>3. StageTyped(v)'
          BY <1>1, <1>3, <4>2, <4>3, <5>2 DEF StageTyped
        <5>4. QED
          BY <2>3, <4>1, <4>3, <5>1, <5>3 DEF Resolve
      <4>4. CASE /\ pc' = [pc EXCEPT ![v] = "run"]
                 /\ thread' = [thread EXCEPT ![v] = [g \in 1 .. Gpus |-> FirstOf(g)]]
        <5>1. \A g \in 1 .. Gpus : FirstOf(g) \in Thread
          BY FirstOfFacts
        <5>2. EvaluatorTyped'
          BY <2>3, <4>1, <4>4, <5>1 DEF Resolve, Typed, EvaluatorTyped
        <5>3. pc'[v] = "run" /\ \A w \in Evaluators \ {v} : pc'[w] = pc[w]
          BY <4>4 DEF Typed, EvaluatorTyped
        <5>4. StageTyped(v)'
          BY <1>1, <1>3, <4>2, <5>3 DEF StageTyped
        <5>5. \A w \in Evaluators, g \in 1 .. Gpus : thread'[w][g] # thread[w][g] =>
                w = v /\ thread'[w][g] = FirstOf(g)
          <6> DEFINE new == [g \in 1 .. Gpus |-> FirstOf(g)]
          <6>1. \A g \in 1 .. Gpus : new[g] = FirstOf(g)
            OBVIOUS
          <6>2. thread' = [thread EXCEPT ![v] = new]
            BY <4>4
          <6>3. thread \in [Evaluators -> [1 .. Gpus -> Thread]]
            BY DEF Typed, EvaluatorTyped
          <6> HIDE DEF new
          <6>4. QED
            BY <6>1, <6>2, <6>3
        <5>6. QED
          BY <2>3, <4>1, <4>2, <5>2, <5>3, <5>4, <5>5 DEF Resolve, Fixed
      <4>5. QED
        BY <3>5, <4>3, <4>4
    <3>6. QED
      BY <2>3, <3>4, <3>5 DEF Resolve, e
  <2>4. QED
    BY <2>1, <2>2, <2>3
<1>6. \A w \in Evaluators : StageTyped(w)'
  BY <1>1, <1>5, StageKept DEF Typed
<1>7. ASSUME NEW w \in Evaluators, NEW g \in 1 .. Gpus PROVE QueueTyped(w, g)'
  <2>1. CASE thread'[w][g] = thread[w][g]
    BY <2>1, QueueKept
  <2>2. CASE thread'[w][g] # thread[w][g]
    <3>1. w = v /\ thread'[w][g] = FirstOf(g) /\ Fixed(v)' /\ want'[v] # <<>>
      BY <1>5, <2>2
    <3>2. want'[v] \in Seq(Models)
      BY <1>5 DEF EvaluatorTyped
    <3>3. QED
      BY <3>1, <3>2, FirstOfFacts DEF QueueTyped, AtWork
  <2>3. QED
    BY <2>1, <2>2
<1>8. QED
  BY <1>1, <1>2, <1>5, <1>6, <1>7 DEF Typed

(* A queue moves on one place.                                             *)
LEMMA MovedTyped ==
    ASSUME Typed, [Next]_vars, NEW v \in Evaluators, NEW g \in 1 .. Gpus, AtWork(v, g),
           UNCHANGED <<content, receipt, epochReceipt, selection, heldout, pc, mode, todo, want>>,
           episode' = episode, ChildTyped', rows' \in [Evaluators -> SUBSET Pair],
           \A w \in Evaluators, s \in Slots :
              child'[w][s].step # "none" => w = v \/ child[w][s].step # "none",
           thread' \in [Evaluators -> [1 .. Gpus -> Thread]],
           \A w \in Evaluators, h \in 1 .. Gpus :
              <<w, h>> # <<v, g>> => thread'[w][h] = thread[w][h],
           QueueTyped(v, g)'
    PROVE  Typed'
<1>1. FilesTyped' /\ EvaluatorTyped'
  BY DEF Typed, FilesTyped, EvaluatorTyped
<1>2. Fixed(v) /\ want[v] # <<>>
  BY QueueFacts
<1>3. \A w \in Evaluators : StageTyped(w)'
  <2> SUFFICES ASSUME NEW w \in Evaluators PROVE StageTyped(w)'
    OBVIOUS
  <2>1. StageTyped(w)
    BY DEF Typed
  <2>2. QED
    BY <1>2, <2>1 DEF StageTyped, Fixed
<1>4. \A w \in Evaluators, h \in 1 .. Gpus : QueueTyped(w, h)'
  BY QueueKept
<1>5. QED
  BY <1>1, <1>3, <1>4 DEF Typed

(* After Take and after Raise the queue is where QueueTyped has it.        *)
LEMMA TakenQueue ==
    ASSUME Typed, NEW v \in Evaluators, NEW g \in 1 .. Gpus, AtWork(v, g),
           Complete(Here(v, g), Wanted(v, g)), Take(v, g),
           UNCHANGED <<episode, pc, mode, want>>
    PROVE  QueueTyped(v, g)'
<1>1. /\ Fixed(v) /\ want[v] # <<>> /\ want[v] \in Seq(Models)
      /\ thread[v][g].unit \in 1 .. Units /\ thread[v][g].at \in 0 .. Len(want[v])
  BY QueueFacts
<1>2. /\ thread'[v][g].unit = thread[v][g].unit
      /\ episode[Here(v, g)] # Absent
      /\ \/ /\ thread[v][g].at = 0 /\ thread'[v][g].at = 1
            /\ thread'[v][g].step = "check" /\ Len(thread'[v][g].progress) = 1
         \/ /\ thread[v][g].at > 0 /\ thread'[v][g].at = thread[v][g].at
            /\ thread'[v][g].step = "pair" /\ Len(thread'[v][g].progress) = 2
  BY TakeFacts, FileAssumption
<1>3. Len(want[v]) \in Nat /\ Len(want[v]) >= 1
  BY <1>1
<1>4. Fixed(v)' /\ want'[v] = want[v]
  BY <1>1 DEF Fixed
<1>5. \A u, i : Slot(v, u, i)' = Slot(v, u, i)
  BY DEF Slot, Want
<1>6. CASE thread[v][g].at = 0
  <2>1. Here(v, g) = Slot(v, thread[v][g].unit, 0)
    BY <1>6 DEF Here
  <2>2. thread'[v][g].at = 1 /\ thread'[v][g].step = "check" /\ Len(thread'[v][g].progress) = 1
    BY <1>2, <1>6
  <2>3. thread'[v][g].at \in 0 .. Len(want'[v])
    BY <1>3, <1>4, <2>2
  <2>4. episode'[Slot(v, thread[v][g].unit, 0)'] # Absent
    BY <1>2, <1>5, <2>1
  <2>5. QED
    BY <1>1, <1>2, <1>4, <1>5, <2>2, <2>3, <2>4 DEF QueueTyped
<1>7. CASE thread[v][g].at # 0
  <2>1. episode[Slot(v, thread[v][g].unit, 0)] # Absent
    BY <1>1, <1>7 DEF Typed, QueueTyped
  <2>2. thread'[v][g].at = thread[v][g].at /\ thread'[v][g].step = "pair" /\ Len(thread'[v][g].progress) = 2
    BY <1>2, <1>7
  <2>3. Here(v, g)' = Here(v, g)
    BY <1>2, <1>5, <2>2 DEF Here
  <2>4. QED
    BY <1>1, <1>2, <1>4, <1>5, <1>7, <2>1, <2>2, <2>3 DEF QueueTyped
<1>8. QED
  BY <1>6, <1>7

(* An exception in a queue's thread leaves its position as it was.         *)
LEMMA RaisedQueue ==
    ASSUME Typed, NEW v \in Evaluators, NEW g \in 1 .. Gpus, Raise(v, g)
    PROVE  QueueTyped(v, g)'
BY RaiseFacts DEF QueueTyped, AtWork

(* Reusing or launching what _unit_complete says keeps the types.          *)
LEMMA CheckTyped ==
    ASSUME Typed, [Next]_vars, NEW v \in Evaluators, NEW g \in 1 .. Gpus, Check(v, g)
    PROVE  Typed'
<1>1. /\ AtWork(v, g)
      /\ UNCHANGED <<content, receipt, epochReceipt, selection, heldout, pc, mode, todo, want>>
      /\ episode' = episode /\ rows' = rows
  BY DEF Check, AtWork, files
<1>2. rows' \in [Evaluators -> SUBSET Pair]
  BY <1>1 DEF Typed, EvaluatorTyped
<1>3. CASE Complete(Here(v, g), Wanted(v, g))
  <2>1. Take(v, g) /\ child' = child
    BY <1>3 DEF Check
  <2>2. ChildTyped'
    BY <2>1 DEF Typed, ChildTyped
  <2>3. QueueTyped(v, g)'
    BY <1>1, <1>3, <2>1, TakenQueue
  <2>4. /\ thread' \in [Evaluators -> [1 .. Gpus -> Thread]]
        /\ \A w \in Evaluators, h \in 1 .. Gpus : <<w, h>> # <<v, g>> => thread'[w][h] = thread[w][h]
    BY <1>1, <1>3, <2>1, TakeFacts
  <2>5. QED
    BY <1>1, <1>2, <2>1, <2>2, <2>3, <2>4, MovedTyped
<1>4. CASE ~Complete(Here(v, g), Wanted(v, g))
  <2> DEFINE s == Here(v, g)
             new == [thread[v][g] EXCEPT !.step = "wait"]
             born == [child[v][s] EXCEPT !.step = "spawned"]
  <2>1. thread \in [Evaluators -> [1 .. Gpus -> Thread]]
    BY DEF Typed, EvaluatorTyped
  <2>2. /\ new \in Thread /\ new.unit = thread[v][g].unit /\ new.at = thread[v][g].at
        /\ new.step = "wait" /\ new.progress = thread[v][g].progress
    <3>1. thread[v][g] \in Thread
      BY <2>1
    <3>2. new = [unit |-> thread[v][g].unit, at |-> thread[v][g].at, step |-> "wait",
                 progress |-> thread[v][g].progress]
      BY <3>1 DEF Thread
    <3>3. QED
      BY <3>1, <3>2 DEF Thread, ThreadSteps
  <2>3. s \in Slots
    BY <1>1, QueueFacts
  <2>4. child \in [Evaluators -> [Slots -> [step : ChildSteps, ran : Models, hash : Models]]]
    BY DEF Typed, ChildTyped
  <2>5. born \in [step : ChildSteps, ran : Models, hash : Models]
    BY <2>3, <2>4 DEF ChildSteps
  <2>6. thread' = [thread EXCEPT ![v][g] = new] /\ child' = [child EXCEPT ![v][s] = born]
    BY <1>4 DEF Check
  <2> HIDE DEF new, born, s
  <2>7. ChildTyped'
    BY <2>3, <2>4, <2>5, <2>6 DEF ChildTyped
  <2>8. \A w \in Evaluators, r \in Slots :
           child'[w][r].step # "none" => w = v \/ child[w][r].step # "none"
    BY <2>3, <2>4, <2>6
  <2>9. /\ thread' \in [Evaluators -> [1 .. Gpus -> Thread]]
        /\ \A w \in Evaluators, h \in 1 .. Gpus : <<w, h>> # <<v, g>> => thread'[w][h] = thread[w][h]
        /\ thread'[v][g] = new
    BY <2>1, <2>2, <2>6
  <2>10. QueueTyped(v, g)'
    <3>1. QueueTyped(v, g)
      BY DEF Typed
    <3>2. \A u, i : Slot(v, u, i)' = Slot(v, u, i)
      BY <1>1 DEF Slot, Want
    <3>3. Fixed(v)' = Fixed(v)
      BY <1>1 DEF Fixed
    <3>4. QED
      BY <1>1, <2>2, <2>9, <3>1, <3>2, <3>3 DEF QueueTyped, AtWork
  <2>11. QED
    BY <1>1, <1>2, <2>7, <2>8, <2>9, <2>10, MovedTyped
<1>5. QED
  BY <1>3, <1>4

(* Waiting for a child keeps the types: the queue goes on only from a      *)
(* complete episode.                                                       *)
LEMMA WaitTyped ==
    ASSUME Typed, [Next]_vars, NEW v \in Evaluators, NEW g \in 1 .. Gpus, Wait(v, g)
    PROVE  Typed'
<1>1. /\ AtWork(v, g)
      /\ UNCHANGED <<content, receipt, epochReceipt, selection, heldout, pc, mode, todo, want>>
      /\ episode' = episode /\ rows' = rows /\ child' = child
  BY DEF Wait, AtWork, files
<1>2. rows' \in [Evaluators -> SUBSET Pair] /\ ChildTyped'
  BY <1>1 DEF Typed, EvaluatorTyped, ChildTyped
<1>3. /\ thread' \in [Evaluators -> [1 .. Gpus -> Thread]]
      /\ \A w \in Evaluators, h \in 1 .. Gpus : <<w, h>> # <<v, g>> => thread'[w][h] = thread[w][h]
      /\ QueueTyped(v, g)'
  <2>1. CASE Complete(Here(v, g), Wanted(v, g)) /\ Take(v, g)
    BY <1>1, <2>1, TakeFacts, TakenQueue
  <2>2. CASE Raise(v, g)
    BY <2>2, RaiseFacts, RaisedQueue
  <2>3. QED
    BY <2>1, <2>2 DEF Wait
<1>4. QED
  BY <1>1, <1>2, <1>3, MovedTyped

(* After a pair the queue is at the next candidate or at the next unit.    *)
LEMMA NextFacts ==
    ASSUME Typed, NEW v \in Evaluators, NEW g \in 1 .. Gpus, thread[v][g].step = "pair"
    PROVE  LET new == NextInQueue(v, thread[v][g]) IN
           /\ new \in Thread /\ new.step \in {"check", "done"}
           /\ \/ /\ new.step = "check" /\ new.unit = thread[v][g].unit
                 /\ new.at = thread[v][g].at + 1 /\ new.at <= Len(want[v])
                 /\ new.progress = thread[v][g].progress
              \/ /\ new.step = "check" /\ new.unit = thread[v][g].unit + Gpus
                 /\ new.unit <= Units /\ new.at = 0
              \/ new.step = "done"
<1> DEFINE t == thread[v][g]
<1>1. t \in Thread /\ Len(want[v]) \in Nat
  <2>1. thread \in [Evaluators -> [1 .. Gpus -> Thread]] /\ want[v] \in Seq(Models)
    BY DEF Typed, EvaluatorTyped
  <2>2. thread[v][g] \in Thread
    BY <2>1
  <2>3. \A q \in Seq(Models) : Len(q) \in Nat
    OBVIOUS
  <2>4. QED
    BY <2>1, <2>2, <2>3
<1>2. t = [unit |-> t.unit, at |-> t.at, step |-> t.step, progress |-> t.progress]
  BY <1>1 DEF Thread
<1>3. t.unit \in Nat /\ t.at \in Nat /\ t.progress \in Seq(Evaluators)
  BY <1>1 DEF Thread
<1>4. CASE t.at < Len(want[v])
  <2>1. NextInQueue(v, t) = [t EXCEPT !.at = @ + 1, !.step = "check"]
    BY <1>4 DEF NextInQueue
  <2>2. NextInQueue(v, t) = [unit |-> t.unit, at |-> t.at + 1, step |-> "check", progress |-> t.progress]
    BY <1>2, <2>1
  <2>3. t.at + 1 \in Nat /\ t.at + 1 <= Len(want[v])
    BY <1>1, <1>3, <1>4
  <2>4. QED
    BY <1>3, <2>2, <2>3 DEF Thread, ThreadSteps
<1>5. CASE ~(t.at < Len(want[v])) /\ t.unit + Gpus <= Units
  <2>1. NextInQueue(v, t) = [IdleThread EXCEPT !.unit = t.unit + Gpus, !.step = "check"]
    BY <1>5 DEF NextInQueue
  <2>2. NextInQueue(v, t) = [unit |-> t.unit + Gpus, at |-> 0, step |-> "check", progress |-> <<>>]
    BY <2>1 DEF IdleThread
  <2>3. t.unit + Gpus \in Nat /\ <<>> \in Seq(Evaluators)
    BY <1>3, SizeAssumption
  <2>4. QED
    BY <1>5, <2>2, <2>3 DEF Thread, ThreadSteps
<1>6. CASE ~(t.at < Len(want[v])) /\ ~(t.unit + Gpus <= Units)
  <2>1. NextInQueue(v, t) = [t EXCEPT !.step = "done"]
    BY <1>6 DEF NextInQueue
  <2>2. NextInQueue(v, t) = [unit |-> t.unit, at |-> t.at, step |-> "done", progress |-> t.progress]
    BY <1>2, <2>1
  <2>3. QED
    BY <1>3, <2>2 DEF Thread, ThreadSteps
<1>7. QED
  BY <1>4, <1>5, <1>6

(* The pair of a queue that has its episode, and both progresses.          *)
LEMMA PairFacts ==
    ASSUME Typed, NEW v \in Evaluators, NEW g \in 1 .. Gpus, thread[v][g].step = "pair",
           episode[Slot(v, thread[v][g].unit, 0)] # Truncated, episode[Here(v, g)] # Truncated
    PROVE  /\ episode[Slot(v, thread[v][g].unit, 0)] \in Episode /\ episode[Here(v, g)] \in Episode
           /\ PairOf(thread[v][g].unit, episode[Here(v, g)],
                     episode[Slot(v, thread[v][g].unit, 0)], thread[v][g].progress) \in Pair
<1>1. /\ AtWork(v, g) /\ thread[v][g] \in Thread /\ thread[v][g].unit \in 1 .. Units
      /\ Here(v, g) \in Slots /\ Slot(v, thread[v][g].unit, 0) \in Slots /\ QueueTyped(v, g)
  BY QueueFacts DEF AtWork, Typed
<1>2. episode[Slot(v, thread[v][g].unit, 0)] \in Episode /\ episode[Here(v, g)] \in Episode
  BY <1>1 DEF QueueTyped, Typed, FilesTyped
<1>3. thread[v][g].progress \in Seq(Evaluators) /\ Len(thread[v][g].progress) = 2
  BY <1>1 DEF QueueTyped, Thread
<1>4. thread[v][g].progress[1] \in Evaluators /\ thread[v][g].progress[2] \in Evaluators
  BY <1>3
<1>5. QED
  BY <1>1, <1>2, <1>4 DEF PairOf, Pair, Episode

(* Building a pair keeps the types: both episodes are there.               *)
LEMMA PairTyped ==
    ASSUME Typed, [Next]_vars, NEW v \in Evaluators, NEW g \in 1 .. Gpus, BuildPair(v, g)
    PROVE  Typed'
<1>1. /\ AtWork(v, g) /\ thread[v][g].step = "pair"
      /\ UNCHANGED <<content, receipt, epochReceipt, selection, heldout, pc, mode, todo, want>>
      /\ episode' = episode /\ child' = child
  BY DEF BuildPair, AtWork, files
<1>2. ChildTyped' /\ rows \in [Evaluators -> SUBSET Pair]
  BY <1>1 DEF Typed, ChildTyped, EvaluatorTyped
<1>3. CASE Raise(v, g) /\ UNCHANGED rows
  <2>1. /\ thread' \in [Evaluators -> [1 .. Gpus -> Thread]]
        /\ \A w \in Evaluators, h \in 1 .. Gpus : <<w, h>> # <<v, g>> => thread'[w][h] = thread[w][h]
        /\ QueueTyped(v, g)'
    BY <1>3, RaiseFacts, RaisedQueue
  <2>2. QED
    BY <1>1, <1>2, <1>3, <2>1, MovedTyped
<1>4. CASE ~(Raise(v, g) /\ UNCHANGED rows)
  <2> DEFINE new == NextInQueue(v, thread[v][g])
             pair == PairOf(thread[v][g].unit, episode[Here(v, g)],
                            episode[Slot(v, thread[v][g].unit, 0)], thread[v][g].progress)
  <2>1. /\ episode[Slot(v, thread[v][g].unit, 0)] # Truncated /\ episode[Here(v, g)] # Truncated
        /\ rows' = [rows EXCEPT ![v] = @ \cup {pair}]
        /\ thread' = [thread EXCEPT ![v][g] = new]
    BY <1>4 DEF BuildPair
  <2>2. pair \in Pair
    BY <1>1, <2>1, PairFacts
  <2>3. /\ new \in Thread /\ new.step \in {"check", "done"}
        /\ \/ /\ new.step = "check" /\ new.unit = thread[v][g].unit
              /\ new.at = thread[v][g].at + 1 /\ new.at <= Len(want[v])
              /\ new.progress = thread[v][g].progress
           \/ /\ new.step = "check" /\ new.unit = thread[v][g].unit + Gpus
              /\ new.unit <= Units /\ new.at = 0
           \/ new.step = "done"
    BY <1>1, NextFacts
  <2> HIDE DEF new, pair
  <2>4. rows' \in [Evaluators -> SUBSET Pair]
    BY <1>2, <2>1, <2>2
  <2>5. thread \in [Evaluators -> [1 .. Gpus -> Thread]]
    BY DEF Typed, EvaluatorTyped
  <2>6. /\ thread' \in [Evaluators -> [1 .. Gpus -> Thread]]
        /\ \A w \in Evaluators, h \in 1 .. Gpus : <<w, h>> # <<v, g>> => thread'[w][h] = thread[w][h]
        /\ thread'[v][g] = new
    BY <2>1, <2>3, <2>5
  <2>7. QueueTyped(v, g)'
    <3>1. QueueTyped(v, g) /\ thread[v][g] \in Thread /\ Len(want[v]) \in Nat
      BY <1>1, QueueFacts DEF Typed
    <3>2. \A u, i : Slot(v, u, i)' = Slot(v, u, i)
      BY <1>1 DEF Slot, Want
    <3>3. Fixed(v)' = Fixed(v)
      BY <1>1 DEF Fixed
    <3>4. new.unit \in Nat /\ new.at \in Nat /\ thread[v][g].unit \in Nat
      BY <2>3, <3>1 DEF Thread
    <3>5. CASE new.step = "done"
      BY <2>6, <3>5 DEF QueueTyped, AtWork
    <3>6. CASE /\ new.step = "check" /\ new.unit = thread[v][g].unit
               /\ new.at = thread[v][g].at + 1 /\ new.at <= Len(want[v])
               /\ new.progress = thread[v][g].progress
      BY <1>1, <2>6, <3>1, <3>2, <3>3, <3>4, <3>6 DEF QueueTyped
    <3>7. CASE /\ new.step = "check" /\ new.unit = thread[v][g].unit + Gpus
               /\ new.unit <= Units /\ new.at = 0
      <4>1. new.unit \in 1 .. Units /\ new.at \in 0 .. Len(want[v])
        BY <1>1, <3>1, <3>4, <3>7, SizeAssumption DEF QueueTyped
      <4>2. QED
        BY <1>1, <2>6, <3>1, <3>3, <3>7, <4>1 DEF QueueTyped
    <3>8. QED
      BY <2>3, <3>5, <3>6, <3>7
  <2>8. QED
    BY <1>1, <1>2, <2>4, <2>6, <2>7, MovedTyped
<1>5. QED
  BY <1>3, <1>4

(* The evaluator concludes, or is killed.                                  *)
LEMMA EndTyped ==
    ASSUME Typed, [Next]_vars, NEW v \in Evaluators,
           Gather(v) \/ Rehash(v) \/ Commit(v) \/ Abort(v)
    PROVE  Typed'
<1> USE DEF Goto, local
<1>1. /\ UNCHANGED <<content, episode, receipt, child, mode, todo, want, thread, rows>>
      /\ ChildTyped'
  BY DEF Gather, Rehash, Commit, Abort, files, Typed, ChildTyped
<1>2. Live(v) /\ \A w \in Evaluators \ {v} : pc'[w] = pc[w]
  BY DEF Gather, Rehash, Commit, Abort, Live, Typed, EvaluatorTyped
<1>3. /\ pc' \in [Evaluators -> {"idle", "resolve", "run", "rehash", "commit", "committed", "failed"}]
      /\ \/ pc'[v] = "failed"
         \/ pc[v] # "resolve" /\ pc'[v] \in {"rehash", "commit", "committed"}
  BY DEF Gather, Rehash, Commit, Abort, Typed, EvaluatorTyped
<1>4. /\ epochReceipt' \in [1 .. Epochs -> {Absent} \cup SUBSET Pair]
      /\ \A summary \in {selection', heldout'} :
            summary = Absent \/ (summary.model \in Models /\ summary.rows \subseteq Pair)
      /\ selection' # Absent => selection'.model[1] \in 1 .. Epochs
  <2>1. CASE UNCHANGED <<epochReceipt, selection, heldout>>
    BY <2>1 DEF Typed, FilesTyped
  <2>2. CASE Commit(v)
    <3>1. rows[v] \in SUBSET Pair /\ want[v] \in Seq(Models) /\ want[v] # <<>>
      BY <2>2 DEF Commit, Typed, EvaluatorTyped, StageTyped
    <3>2. \A i \in 1 .. Len(want[v]) : want[v][i] \in Models /\ want[v][i][1] \in 1 .. Epochs
      BY WantFacts DEF Typed
    <3>3. want[v][1][1] \in 1 .. Epochs /\ want[v][1] \in Models
      BY <3>1, <3>2
    <3>4. CASE /\ epochReceipt' = [epochReceipt EXCEPT ![want[v][1][1]] = rows[v]]
               /\ UNCHANGED <<selection, heldout>>
      BY <3>1, <3>3, <3>4 DEF Typed, FilesTyped
    <3>5. ASSUME NEW i \in 1 .. Len(want[v]), selection' = [model |-> want[v][i], rows |-> rows[v]],
                 UNCHANGED <<epochReceipt, heldout>>
          PROVE  /\ epochReceipt' \in [1 .. Epochs -> {Absent} \cup SUBSET Pair]
                 /\ \A summary \in {selection', heldout'} :
                       summary = Absent \/ (summary.model \in Models /\ summary.rows \subseteq Pair)
                 /\ selection'.model[1] \in 1 .. Epochs
      BY <3>1, <3>2, <3>5 DEF Typed, FilesTyped
    <3>6. CASE /\ heldout' = [model |-> want[v][1], rows |-> rows[v]]
               /\ UNCHANGED <<epochReceipt, selection>>
      BY <3>1, <3>3, <3>6 DEF Typed, FilesTyped
    <3>7. QED
      BY <2>2, <3>4, <3>5, <3>6 DEF Commit
  <2>3. QED
    BY <2>1, <2>2 DEF Gather, Rehash, Abort, files
<1>5. FilesTyped' /\ EvaluatorTyped'
  BY <1>1, <1>3, <1>4 DEF Typed, FilesTyped, EvaluatorTyped
<1>6. \A w \in Evaluators : StageTyped(w)'
  <2>1. ASSUME NEW w \in Evaluators \ {v} PROVE StageTyped(w)'
    BY <1>1, <1>2, StageKept DEF Typed
  <2>2. StageTyped(v)'
    <3>1. StageTyped(v)
      BY DEF Typed
    <3>2. pc[v] # "resolve" /\ Live(v) => want[v] # <<>>
      BY <3>1 DEF StageTyped, Live
    <3>3. QED
      BY <1>1, <1>2, <1>3, <3>1, <3>2 DEF StageTyped, Fixed
  <2>3. QED
    BY <2>1, <2>2
<1>7. \A w \in Evaluators, g \in 1 .. Gpus : QueueTyped(w, g)'
  BY <1>1, QueueKept
<1>8. QED
  BY <1>4, <1>5, <1>6, <1>7, <1>1 DEF Typed

(* A child takes a step.                                                   *)
LEMMA ChildTypedKept ==
    ASSUME Typed, [Next]_vars, NEW v \in Evaluators, NEW s \in Slots,
           child[v][s].step # "none",
           UNCHANGED <<content, epochReceipt, selection, heldout, pc, local>>,
           NEW new \in [step : ChildSteps, ran : Models, hash : Models],
           child' = [child EXCEPT ![v][s] = new],
           episode' \in [Slots -> Episode \cup {Absent, Truncated}],
           receipt' \in [Slots -> Receipt \cup {Absent, Blocked}]
    PROVE  Typed'
<1> USE DEF local
<1>1. FilesTyped' /\ EvaluatorTyped'
  BY DEF Typed, FilesTyped, EvaluatorTyped
<1>2. child \in [Evaluators -> [Slots -> [step : ChildSteps, ran : Models, hash : Models]]]
  BY DEF Typed, ChildTyped
<1>3. ChildTyped'
  BY <1>2 DEF ChildTyped
<1>4. \A w \in Evaluators, r \in Slots : child'[w][r].step # "none" => child[w][r].step # "none"
  BY <1>2
<1>5. \A w \in Evaluators : StageTyped(w)'
  BY <1>4, StageKept DEF Typed
<1>6. \A w \in Evaluators, g \in 1 .. Gpus : QueueTyped(w, g)'
  BY QueueKept
<1>7. QED
  BY <1>1, <1>3, <1>5, <1>6 DEF Typed

(* What a child is, and what it can load.                                  *)
LEMMA ChildFacts ==
    ASSUME Typed, NEW v \in Evaluators, NEW s \in Slots
    PROVE  /\ child[v][s] \in [step : ChildSteps, ran : Models, hash : Models]
           /\ child[v][s].step # "none" =>
                 /\ Fixed(v) /\ want[v] # <<>> /\ EpochIn(v, s) \in Conditions
                 /\ OnDisk(EpochIn(v, s)) \in Models
<1>1. child \in [Evaluators -> [Slots -> [step : ChildSteps, ran : Models, hash : Models]]]
  BY DEF Typed, ChildTyped
<1>2. child[v][s].step # "none" => Fixed(v) /\ want[v] # <<>>
  BY DEF Typed, StageTyped
<1>3. QED
  BY <1>1, <1>2, EpochInFacts, OnDiskFacts DEF Typed

(* A step of a child, by the field of its record that it writes.           *)
LEMMA ChildRecords ==
    ASSUME NEW c \in [step : ChildSteps, ran : Models, hash : Models],
           NEW to \in ChildSteps, NEW m \in Models
    PROVE  /\ [c EXCEPT !.step = to] \in [step : ChildSteps, ran : Models, hash : Models]
           /\ [c EXCEPT !.step = to, !.ran = m] \in [step : ChildSteps, ran : Models, hash : Models]
           /\ [c EXCEPT !.step = to, !.hash = m] \in [step : ChildSteps, ran : Models, hash : Models]
<1>1. [c EXCEPT !.step = to] \in [step : ChildSteps, ran : Models, hash : Models]
  OBVIOUS
<1>2. [c EXCEPT !.step = to, !.ran = m] \in [step : ChildSteps, ran : Models, hash : Models]
  OBVIOUS
<1>3. [c EXCEPT !.step = to, !.hash = m] \in [step : ChildSteps, ran : Models, hash : Models]
  OBVIOUS
<1>4. QED
  BY <1>1, <1>2, <1>3

(* A step of a child that changes only its own files and place keeps the   *)
(* types.                                                                  *)
LEMMA StepTyped ==
    ASSUME Typed, [Next]_vars, NEW v \in Evaluators, NEW s \in Slots,
           child[v][s].step # "none", NEW to \in ChildSteps,
           UNCHANGED <<content, epochReceipt, selection, heldout, pc, local>>,
           child' = [child EXCEPT ![v][s].step = to],
           episode' \in [Slots -> Episode \cup {Absent, Truncated}],
           receipt' \in [Slots -> Receipt \cup {Absent, Blocked}]
    PROVE  Typed'
<1> DEFINE new == [child[v][s] EXCEPT !.step = to]
<1>1. new \in [step : ChildSteps, ran : Models, hash : Models]
  BY ChildFacts, ChildRecords, ModelFacts
<1>2. child' = [child EXCEPT ![v][s] = new]
  OBVIOUS
<1> HIDE DEF new
<1>3. QED
  BY <1>1, <1>2, ChildTypedKept

(* Children keep the types, also when they are blocked or killed.          *)
LEMMA WorkTyped ==
    ASSUME Typed, [Next]_vars, NEW v \in Evaluators, NEW s \in Slots,
           Work(v, s) \/ Block(v, s) \/ Kill(v, s)
    PROVE  Typed'
<1>0. {"loaded", "writing", "written", "zero", "nonzero"} \subseteq ChildSteps
  BY DEF ChildSteps
<1>1. /\ child[v][s].step # "none"
      /\ UNCHANGED <<content, epochReceipt, selection, heldout, pc, local>>
  BY DEF Work, LoadAdapter, OpenEpisode, WriteEpisode, WriteReceipt, Block, Kill, StepChild, Alive, files
<1>2. /\ episode \in [Slots -> Episode \cup {Absent, Truncated}]
      /\ receipt \in [Slots -> Receipt \cup {Absent, Blocked}]
  BY DEF Typed, FilesTyped
<1>3. child[v][s] \in [step : ChildSteps, ran : Models, hash : Models]
  BY ChildFacts
<1>4. OnDisk(EpochIn(v, s)) \in Models /\ EpochIn(v, s) \in Conditions
  BY <1>1, ChildFacts
<1>5. CASE LoadAdapter(v, s)
  <2> DEFINE new == [child[v][s] EXCEPT !.step = "loaded", !.ran = OnDisk(EpochIn(v, s))]
  <2>1. new \in [step : ChildSteps, ran : Models, hash : Models]
    BY <1>0, <1>3, <1>4, ChildRecords
  <2>2. child' = [child EXCEPT ![v][s] = new]
    BY <1>5 DEF LoadAdapter
  <2>3. episode' = episode /\ receipt' = receipt
    BY <1>5 DEF LoadAdapter, files
  <2> HIDE DEF new
  <2>4. QED
    BY <1>1, <1>2, <2>1, <2>2, <2>3, ChildTypedKept
<1>6. CASE OpenEpisode(v, s)
  <2> DEFINE new == [child[v][s] EXCEPT !.step = "writing", !.hash = OnDisk(EpochIn(v, s))]
  <2>1. new \in [step : ChildSteps, ran : Models, hash : Models]
    BY <1>0, <1>3, <1>4, ChildRecords
  <2>2. child' = [child EXCEPT ![v][s] = new]
    BY <1>6 DEF OpenEpisode
  <2>3. episode' \in [Slots -> Episode \cup {Absent, Truncated}] /\ receipt' = receipt
    BY <1>2, <1>6 DEF OpenEpisode
  <2> HIDE DEF new
  <2>4. QED
    BY <1>1, <1>2, <2>1, <2>2, <2>3, ChildTypedKept
<1>7. CASE WriteEpisode(v, s)
  <2> DEFINE e == [by |-> v, ran |-> child[v][s].ran, hash |-> child[v][s].hash]
  <2>1. e \in Episode
    BY <1>3 DEF Episode
  <2>2. episode' = [episode EXCEPT ![s] = e] /\ receipt' = receipt
    BY <1>7 DEF WriteEpisode
  <2>3. child' = [child EXCEPT ![v][s].step = "written"]
    BY <1>7 DEF WriteEpisode, StepChild
  <2> HIDE DEF e
  <2>4. episode' \in [Slots -> Episode \cup {Absent, Truncated}]
    BY <1>2, <2>1, <2>2
  <2>5. QED
    BY <1>0, <1>1, <1>2, <2>2, <2>3, <2>4, StepTyped
<1>8. CASE WriteReceipt(v, s)
  <2> DEFINE r == [by |-> v, epoch |-> EpochIn(v, s)]
  <2>1. r \in Receipt
    BY <1>4 DEF Receipt
  <2>2. receipt' = [receipt EXCEPT ![s] = r] /\ episode' = episode
    BY <1>8 DEF WriteReceipt
  <2>3. PICK to \in {"zero", "nonzero"} : child' = [child EXCEPT ![v][s].step = to]
    BY <1>8 DEF WriteReceipt, StepChild
  <2> HIDE DEF r
  <2>4. receipt' \in [Slots -> Receipt \cup {Absent, Blocked}]
    BY <1>2, <2>1, <2>2
  <2>5. QED
    BY <1>0, <1>1, <1>2, <2>2, <2>3, <2>4, StepTyped
<1>9. CASE Block(v, s) \/ Kill(v, s)
  <2>1. child' = [child EXCEPT ![v][s].step = "nonzero"] /\ episode' = episode
    BY <1>9 DEF Block, Kill, files
  <2>2. receipt' \in [Slots -> Receipt \cup {Absent, Blocked}]
    BY <1>2, <1>9 DEF Block, Kill, files
  <2>3. QED
    BY <1>0, <1>1, <1>2, <2>1, <2>2, StepTyped
<1>10. QED
  BY <1>5, <1>6, <1>7, <1>8, <1>9 DEF Work

(* Every step keeps the types.                                             *)
LEMMA NextTyped == Typed /\ [Next]_vars => Typed'
<1> SUFFICES ASSUME Typed, [Next]_vars PROVE Typed'
  OBVIOUS
<1>1. ASSUME NEW v \in Evaluators, StartScreening(v) \/ StartHeldout(v) \/ Proceed(v) \/ Abort(v)
      PROVE  Typed'
  BY <1>1, StartTyped, EndTyped, CheckTyped, WaitTyped, PairTyped DEF Proceed
<1>2. ASSUME NEW v \in Evaluators, NEW s \in Slots, Work(v, s) \/ Block(v, s) \/ Kill(v, s)
      PROVE  Typed'
  BY <1>2, WorkTyped
<1>3. ASSUME NEW e \in 1 .. Epochs, Edit(e) PROVE Typed'
  <2>1. /\ UNCHANGED <<episode, receipt, epochReceipt, selection, heldout, child, pc, local>>
        /\ content' \in [1 .. Epochs -> 0 .. MaxEdits]
    <3>1. content \in [1 .. Epochs -> 0 .. MaxEdits] /\ content[e] + 1 \in 0 .. MaxEdits
      BY <1>3, SizeAssumption DEF Edit, Typed, FilesTyped
    <3>2. QED
      BY <1>3, <3>1 DEF Edit
  <2>2. \A v \in Evaluators, g \in 1 .. Gpus : QueueTyped(v, g)'
    BY <2>1, QueueKept DEF local
  <2>3. \A v \in Evaluators : StageTyped(v)'
    BY <2>1, StageKept DEF Typed, local
  <2>4. QED
    BY <2>1, <2>2, <2>3 DEF Typed, FilesTyped, ChildTyped, EvaluatorTyped, local
<1>4. CASE UNCHANGED vars
  <2>1. \A v \in Evaluators, g \in 1 .. Gpus : QueueTyped(v, g)'
    BY <1>4, QueueKept DEF vars, local
  <2>2. \A v \in Evaluators : StageTyped(v)'
    BY <1>4, StageKept DEF Typed, vars, local
  <2>3. QED
    BY <1>4, <2>1, <2>2 DEF Typed, FilesTyped, ChildTyped, EvaluatorTyped, vars, files, local
<1>5. QED
  BY <1>1, <1>2, <1>3, <1>4 DEF Next

(* Files, processes and queues have their types: TypeOK, and with it that  *)
(* a queue reads only episodes that are there, and that children are only  *)
(* started for what has been resolved.                                     *)
THEOREM TypesKept == Spec => []Typed
BY InitTyped, NextTyped, PTL DEF Spec

(* Invocations, children, threads and every file that an evaluation reads  *)
(* back have their types.                                                  *)
THEOREM TypeCorrect == Spec => []TypeOK
<1>1. Typed => TypeOK
  <2> SUFFICES ASSUME Typed PROVE TypeOK
    OBVIOUS
  <2>1. \A e \in 1 .. Epochs : epochReceipt[e] = Absent \/ epochReceipt[e] \subseteq Pair
    BY DEF Typed, FilesTyped
  <2>2. \A v \in Evaluators : \A g \in 1 .. Gpus : thread[v][g].step \in ThreadSteps
    BY DEF Typed, EvaluatorTyped, Thread
  <2>3. QED
    BY <2>1, <2>2 DEF Typed, FilesTyped, ChildTyped, EvaluatorTyped, ThreadSteps, TypeOK
<1>2. QED
  BY <1>1, TypesKept, PTL

-----------------------------------------------------------------------------
(* Who changes what.                                                       *)

(* Each file and each part of an evaluator has few actions that change it. *)
LEMMA WhoChanges ==
    ASSUME [Next]_vars
    PROVE  /\ content' # content => \E e \in 1 .. Epochs : Edit(e)
           /\ want' # want => \E v \in Evaluators : StartHeldout(v) \/ Resolve(v)
           /\ child' # child => \/ \E v \in Evaluators, g \in 1 .. Gpus : Check(v, g)
                                \/ \E v \in Evaluators, s \in Slots :
                                      Work(v, s) \/ Block(v, s) \/ Kill(v, s)
           /\ episode' # episode => \E v \in Evaluators, s \in Slots :
                                       OpenEpisode(v, s) \/ WriteEpisode(v, s)
           /\ receipt' # receipt => \E v \in Evaluators, s \in Slots :
                                       WriteReceipt(v, s) \/ Block(v, s)
           /\ rows' # rows => \E v \in Evaluators, g \in 1 .. Gpus : BuildPair(v, g)
           /\ epochReceipt' # epochReceipt \/ selection' # selection \/ heldout' # heldout =>
                 \E v \in Evaluators : Commit(v)
<1> USE DEF files, local
<1>1. ASSUME NEW v \in Evaluators,
             StartScreening(v) \/ StartHeldout(v) \/ Resolve(v) \/ Gather(v) \/ Rehash(v)
             \/ Commit(v) \/ Abort(v)
      PROVE  /\ UNCHANGED <<content, child, episode, receipt, rows>>
             /\ want' # want => StartHeldout(v) \/ Resolve(v)
             /\ epochReceipt' # epochReceipt \/ selection' # selection \/ heldout' # heldout => Commit(v)
  BY <1>1 DEF StartScreening, StartHeldout, Resolve, Gather, Rehash, Commit, Abort
<1>2. ASSUME NEW v \in Evaluators, NEW g \in 1 .. Gpus, Check(v, g) \/ Wait(v, g) \/ BuildPair(v, g)
      PROVE  /\ UNCHANGED <<content, episode, receipt, want, epochReceipt, selection, heldout>>
             /\ child' # child => Check(v, g)
             /\ rows' # rows => BuildPair(v, g)
  BY <1>2 DEF Check, Wait, BuildPair
<1>3. ASSUME NEW v \in Evaluators, NEW s \in Slots, Work(v, s) \/ Block(v, s) \/ Kill(v, s)
      PROVE  /\ UNCHANGED <<content, want, rows, epochReceipt, selection, heldout>>
             /\ episode' # episode => OpenEpisode(v, s) \/ WriteEpisode(v, s)
             /\ receipt' # receipt => WriteReceipt(v, s) \/ Block(v, s)
  BY <1>3 DEF Work, LoadAdapter, OpenEpisode, WriteEpisode, WriteReceipt, Block, Kill
<1>4. ASSUME NEW e \in 1 .. Epochs, Edit(e)
      PROVE  UNCHANGED <<child, episode, receipt, want, rows, epochReceipt, selection, heldout>>
  BY <1>4 DEF Edit
<1>5. CASE UNCHANGED vars
  BY <1>5 DEF vars
<1>6. QED
  BY <1>1, <1>2, <1>3, <1>4, <1>5 DEF Next, Proceed

-----------------------------------------------------------------------------
(* Attested episodes were driven by what they are counted for.             *)

(* Content seen once remains content of now or of before.                  *)
LEMMA SeenKept ==
    ASSUME Typed, [Next]_vars, NEW m \in Models, Seen(m)
    PROVE  Seen(m)'
<1>1. CASE m[1] = 0
  BY <1>1 DEF Seen
<1>2. CASE m[1] # 0
  <2>1. m[1] \in 1 .. Epochs /\ m[2] \in Nat
    BY <1>2, ModelFacts, SizeAssumption DEF Conditions
  <2>2. QED
    BY <1>2, <2>1, ContentGrows DEF Seen
<1>3. QED
  BY <1>1, <1>2

(* What lay between the resolution and the hash stays there: who is named  *)
(* has already resolved its candidates.                                    *)
LEMMA BetweenKept ==
    ASSUME Typed, [Next]_vars, NEW by \in Evaluators, NEW ran, NEW hash, Between(by, ran, hash)
    PROVE  Between(by, ran, hash)'
BY FixedKept DEF Between, WantedBefore

(* The same of a set of pairs.                                             *)
LEMMA PairsBetweenKept ==
    ASSUME Typed, [Next]_vars, NEW pairs \in SUBSET Pair, PairsBetween(pairs)
    PROVE  PairsBetween(pairs)'
<1>1. \A p \in pairs : p.by \in Evaluators
  BY DEF Pair
<1>2. QED
  BY <1>1, BetweenKept DEF PairsBetween

(* What an evaluator has resolved has been in the checkpoint.              *)
LEMMA WantsSeen ==
    ASSUME Typed, Typed', EpisodesBetween, [Next]_vars
    PROVE  (\A v \in Evaluators : \A i \in 1 .. Len(want[v]) : Seen(want[v][i]))'
<1> SUFFICES ASSUME NEW v \in Evaluators, NEW i \in 1 .. Len(want'[v]) PROVE Seen(want[v][i])'
  OBVIOUS
<1>1. want \in [Evaluators -> Seq(Models)]
  BY DEF Typed, EvaluatorTyped
<1>2. CASE want'[v] = want[v]
  <2>1. want[v][i] \in Models /\ Seen(want[v][i])
    BY <1>1, <1>2, ElementIn DEF EpisodesBetween
  <2>2. QED
    BY <1>2, <2>1, SeenKept DEF Seen
<1>3. ASSUME NEW w \in Evaluators, StartHeldout(w), want'[v] # want[v] PROVE Seen(want[v][i])'
  <2>1. want'[v] = <<selection.model>> /\ selection # Absent
    BY <1>1, <1>3 DEF StartHeldout
  <2>2. selection.model \in Models /\ Seen(selection.model)
    BY <2>1 DEF EpisodesBetween, Typed, FilesTyped
  <2>3. i = 1 /\ want'[v][i] = selection.model
    BY <2>1
  <2>4. QED
    BY <2>2, <2>3, SeenKept DEF Seen
<1>4. ASSUME NEW w \in Evaluators, Resolve(w), want'[v] # want[v] PROVE Seen(want[v][i])'
  <2> DEFINE e == todo[w][Len(want[w]) + 1]
  <2>1. want' = [want EXCEPT ![w] = Append(@, OnDisk(e))]
    BY <1>4 DEF Resolve
  <2>2. v = w /\ want'[v] = Append(want[v], OnDisk(e))
    BY <1>1, <1>4, <2>1
  <2>3. OnDisk(e) \in Models /\ Seen(OnDisk(e))
    <3>1. todo[w] \in Seq(1 .. Epochs) /\ want[w] \in Seq(Models) /\ Len(want[w]) < Len(todo[w])
      <4>1. pc[w] = "resolve" /\ StageTyped(w)
        BY <1>4 DEF Resolve, Typed
      <4>2. Len(want[w]) < Len(todo[w])
        BY <4>1 DEF StageTyped
      <4>3. QED
        BY <4>2 DEF Typed, EvaluatorTyped
    <3>2. Len(want[w]) + 1 \in 1 .. Len(todo[w])
      <4>1. \A q \in Seq(1 .. Epochs) : Len(q) \in Nat
        OBVIOUS
      <4>2. \A q \in Seq(Models) : Len(q) \in Nat
        OBVIOUS
      <4>3. QED
        BY <3>1, <4>1, <4>2
    <3>3. e \in Conditions
      BY <3>1, <3>2, ElementIn, ModelFacts
    <3>4. QED
      BY <3>3, OnDiskFacts DEF Typed
  <2> HIDE DEF e
  <2>4. \/ i \in 1 .. Len(want[v]) /\ want'[v][i] = want[v][i]
        \/ want'[v][i] = OnDisk(e)
    <3>1. want[v] \in Seq(Models)
      BY <1>1
    <3>2. QED
      BY <2>2, <2>3, <3>1
  <2>5. i \in 1 .. Len(want[v]) => want[v][i] \in Models /\ Seen(want[v][i])
    BY <1>1, ElementIn DEF EpisodesBetween
  <2>6. PICK m \in Models : Seen(m) /\ want'[v][i] = m
    BY <2>3, <2>4, <2>5
  <2>7. QED
    BY <2>6, SeenKept DEF Seen
<1>5. QED
  BY <1>2, <1>3, <1>4, WhoChanges

(* What is on disk is no older than what an evaluator wanted.              *)
LEMMA WantedBeforeDisk ==
    ASSUME Typed, EpisodesBetween, NEW v \in Evaluators, NEW e \in Conditions
    PROVE  WantedBefore(v, OnDisk(e))
<1> SUFFICES ASSUME NEW i \in 1 .. Len(want[v]), want[v][i][1] = OnDisk(e)[1]
             PROVE  want[v][i][2] <= OnDisk(e)[2]
  BY DEF WantedBefore
<1>1. OnDisk(e)[1] = e /\ (e # 0 => OnDisk(e)[2] = content[e])
  BY OnDiskFacts DEF Typed
<1>2. want[v][i][1] \in 1 .. Epochs /\ Seen(want[v][i])
  BY WantFacts DEF EpisodesBetween, Typed
<1>3. QED
  BY <1>1, <1>2 DEF Seen

(* A child loads what is there after its evaluator resolved, and hashes    *)
(* what is there after that.                                               *)
LEMMA ChildrenBetween ==
    ASSUME Typed, Typed', EpisodesBetween, [Next]_vars
    PROVE  \A v \in Evaluators, s \in Slots : ChildBetween(v, s)'
<1>0. child \in [Evaluators -> [Slots -> [step : ChildSteps, ran : Models, hash : Models]]]
  BY DEF Typed, ChildTyped
<1> SUFFICES ASSUME NEW v \in Evaluators, NEW s \in Slots PROVE ChildBetween(v, s)'
  OBVIOUS
<1>1. CASE child'[v][s] = child[v][s]
  <2>1. CASE child[v][s].step \in {"loaded", "writing", "written"}
    <3>1. Fixed(v) /\ child[v][s].ran \in Models /\ ChildBetween(v, s)
      BY <1>0, <2>1 DEF Typed, StageTyped, EpisodesBetween
    <3>2. /\ Seen(child[v][s].ran) => Seen(child[v][s].ran)'
          /\ Between(v, child[v][s].ran, child[v][s].hash) =>
                Between(v, child[v][s].ran, child[v][s].hash)'
      BY <1>1, <3>1, SeenKept, BetweenKept
    <3>3. EpochIn(v, s)' = EpochIn(v, s) /\ want'[v] = want[v]
      BY <3>1, FixedKept DEF EpochIn
    <3>4. QED
      BY <1>1, <3>1, <3>2, <3>3 DEF ChildBetween, WantedBefore
  <2>2. CASE child[v][s].step \notin {"loaded", "writing", "written"}
    BY <1>1, <2>2 DEF ChildBetween
  <2>3. QED
    BY <2>1, <2>2
<1>2. ASSUME NEW w \in Evaluators, NEW g \in 1 .. Gpus, Check(w, g), child'[v][s] # child[v][s]
      PROVE  ChildBetween(v, s)'
  <2> DEFINE born == [child[w][Here(w, g)] EXCEPT !.step = "spawned"]
  <2>1. child' = [child EXCEPT ![w][Here(w, g)] = born]
    BY <1>2 DEF Check
  <2>2. AtWork(w, g)
    BY <1>2 DEF Check, AtWork
  <2>3. Here(w, g) \in Slots
    BY <2>2, QueueFacts
  <2>4. born.step = "spawned"
    BY <1>0, <2>3
  <2> HIDE DEF born
  <2>5. child'[v][s] = born
    BY <1>0, <1>2, <2>1
  <2>6. QED
    BY <2>4, <2>5 DEF ChildBetween
<1>3. ASSUME NEW w \in Evaluators, NEW r \in Slots,
             WriteReceipt(w, r) \/ Block(w, r) \/ Kill(w, r), child'[v][s] # child[v][s]
      PROVE  ChildBetween(v, s)'
  <2>1. PICK to \in {"zero", "nonzero"} : child' = [child EXCEPT ![w][r].step = to]
    BY <1>3 DEF WriteReceipt, Block, Kill, StepChild
  <2> DEFINE new == [child[w][r] EXCEPT !.step = to]
  <2>2. new.step = to /\ child' = [child EXCEPT ![w][r] = new]
    BY <1>0, <2>1
  <2> HIDE DEF new
  <2>3. child'[v][s] = new
    BY <1>0, <1>3, <2>2
  <2>4. QED
    BY <2>2, <2>3 DEF ChildBetween
<1>4. ASSUME NEW w \in Evaluators, NEW r \in Slots, LoadAdapter(w, r), child'[v][s] # child[v][s]
      PROVE  ChildBetween(v, s)'
  <2> DEFINE m == OnDisk(EpochIn(v, s))
             new == [child[v][s] EXCEPT !.step = "loaded", !.ran = m]
  <2>1. v = w /\ s = r
    BY <1>0, <1>4 DEF LoadAdapter
  <2>2. new.step = "loaded" /\ new.ran = m
    BY <1>0
  <2>3. child' = [child EXCEPT ![v][s] = new]
    BY <1>4, <2>1 DEF LoadAdapter
  <2>4. child[v][s].step # "none"
    BY <1>4, <2>1 DEF LoadAdapter
  <2>5. Fixed(v) /\ EpochIn(v, s) \in Conditions
    BY <2>4, ChildFacts
  <2>6. m \in Models /\ m[1] = EpochIn(v, s) /\ Seen(m) /\ WantedBefore(v, m)
    BY <2>5, OnDiskFacts, WantedBeforeDisk DEF Typed
  <2>7. EpochIn(v, s)' = EpochIn(v, s) /\ want'[v] = want[v]
    BY <2>5, FixedKept DEF EpochIn
  <2>8. Seen(m)'
    <3>1. content' = content
      BY <1>4 DEF LoadAdapter, files
    <3>2. QED
      BY <2>6, <2>7, <3>1 DEF Seen, OnDisk
  <2>9. m' = m
    BY <1>4, <2>7 DEF LoadAdapter, files, OnDisk
  <2> HIDE DEF new, m
  <2>10. child'[v][s] = new
    BY <1>0, <2>3
  <2>11. QED
    BY <2>2, <2>6, <2>7, <2>8, <2>9, <2>10 DEF ChildBetween, WantedBefore
<1>5. ASSUME NEW w \in Evaluators, NEW r \in Slots, OpenEpisode(w, r), child'[v][s] # child[v][s]
      PROVE  ChildBetween(v, s)'
  <2> DEFINE m == OnDisk(EpochIn(v, s))
             new == [child[v][s] EXCEPT !.step = "writing", !.hash = m]
  <2>1. v = w /\ s = r
    BY <1>0, <1>5 DEF OpenEpisode
  <2>2. new.step = "writing" /\ new.ran = child[v][s].ran /\ new.hash = m
    BY <1>0
  <2>3. child' = [child EXCEPT ![v][s] = new] /\ child[v][s].step = "loaded"
    BY <1>5, <2>1 DEF OpenEpisode
  <2>4. Fixed(v) /\ EpochIn(v, s) \in Conditions
    BY <2>3, ChildFacts
  <2>5. m \in Models /\ m[1] = EpochIn(v, s) /\ (EpochIn(v, s) # 0 => m[2] = content[EpochIn(v, s)])
    BY <2>4, OnDiskFacts DEF Typed
  <2>6. /\ Seen(child[v][s].ran) /\ child[v][s].ran[1] = EpochIn(v, s)
        /\ WantedBefore(v, child[v][s].ran)
    BY <2>3 DEF EpisodesBetween, ChildBetween
  <2>7. child[v][s].ran[2] <= m[2]
    <3>1. CASE EpochIn(v, s) = 0
      <4>1. m = ReleasedModel /\ child[v][s].ran = ReleasedModel
        BY <2>6, <3>1 DEF OnDisk, Seen
      <4>2. QED
        BY <4>1 DEF ReleasedModel
    <3>2. CASE EpochIn(v, s) # 0
      BY <2>5, <2>6, <3>2 DEF Seen
    <3>3. QED
      BY <3>1, <3>2
  <2>8. Fixed(v)' /\ want'[v] = want[v]
    BY <2>4, FixedKept
  <2> HIDE DEF new, m
  <2>9. child'[v][s] = new
    BY <1>0, <2>3
  <2>10. QED
    BY <2>2, <2>5, <2>6, <2>7, <2>8, <2>9 DEF ChildBetween, Between, WantedBefore
<1>6. ASSUME NEW w \in Evaluators, NEW r \in Slots, WriteEpisode(w, r), child'[v][s] # child[v][s]
      PROVE  ChildBetween(v, s)'
  <2> DEFINE new == [child[v][s] EXCEPT !.step = "written"]
  <2>1. v = w /\ s = r
    BY <1>0, <1>6 DEF WriteEpisode, StepChild
  <2>2. new.step = "written" /\ new.ran = child[v][s].ran /\ new.hash = child[v][s].hash
    BY <1>0
  <2>3. child' = [child EXCEPT ![v][s] = new] /\ child[v][s].step = "writing"
    BY <1>6, <2>1 DEF WriteEpisode, StepChild
  <2>4. Between(v, child[v][s].ran, child[v][s].hash)
    BY <2>3 DEF EpisodesBetween, ChildBetween
  <2>5. Fixed(v)' /\ want'[v] = want[v]
    BY <2>4, FixedKept DEF Between
  <2> HIDE DEF new
  <2>6. child'[v][s] = new
    BY <1>0, <2>3
  <2>7. QED
    BY <2>2, <2>4, <2>5, <2>6 DEF ChildBetween, Between, WantedBefore
<1>7. QED
  BY <1>1, <1>2, <1>3, <1>4, <1>5, <1>6, WhoChanges DEF Work

(* Episodes on disk are written by children only.                          *)
LEMMA FilesBetween ==
    ASSUME Typed, Typed', EpisodesBetween, [Next]_vars
    PROVE  \A s \in Slots : episode'[s] \in Episode =>
              Between(episode[s].by, episode[s].ran, episode[s].hash)'
<1>0. episode \in [Slots -> Episode \cup {Absent, Truncated}]
  BY DEF Typed, FilesTyped
<1> SUFFICES ASSUME NEW s \in Slots, episode'[s] \in Episode
             PROVE  Between(episode[s].by, episode[s].ran, episode[s].hash)'
  OBVIOUS
<1>1. CASE episode'[s] = episode[s]
  <2>1. Between(episode[s].by, episode[s].ran, episode[s].hash) /\ episode[s].by \in Evaluators
    BY <1>1 DEF EpisodesBetween, Episode
  <2>2. PICK b \in Evaluators : b = episode[s].by
    BY <2>1
  <2>3. PICK ran, hash : ran = episode[s].ran /\ hash = episode[s].hash
    OBVIOUS
  <2>4. Between(b, ran, hash)
    BY <2>1, <2>2, <2>3
  <2>5. Between(b, ran, hash)'
    BY <2>4, BetweenKept
  <2>6. episode'[s].by = b /\ episode'[s].ran = ran /\ episode'[s].hash = hash
    BY <1>1, <2>2, <2>3
  <2>7. QED
    BY <2>5, <2>6 DEF Between, WantedBefore, Fixed
<1>2. ASSUME NEW v \in Evaluators, NEW r \in Slots, OpenEpisode(v, r), episode'[s] # episode[s]
      PROVE  FALSE
  BY <1>0, <1>2, FileAssumption DEF OpenEpisode
<1>3. ASSUME NEW v \in Evaluators, NEW r \in Slots, WriteEpisode(v, r), episode'[s] # episode[s]
      PROVE  Between(episode[s].by, episode[s].ran, episode[s].hash)'
  <2> DEFINE new == [by |-> v, ran |-> child[v][r].ran, hash |-> child[v][r].hash]
  <2>1. new.by = v /\ new.ran = child[v][r].ran /\ new.hash = child[v][r].hash
    OBVIOUS
  <2>2. episode' = [episode EXCEPT ![r] = new] /\ child[v][r].step = "writing"
    BY <1>3 DEF WriteEpisode, StepChild
  <2> HIDE DEF new
  <2>3. episode'[s] = new
    BY <1>0, <1>3, <2>2
  <2>4. Between(v, child[v][r].ran, child[v][r].hash)
    BY <2>2 DEF EpisodesBetween, ChildBetween
  <2>5. Fixed(v)' /\ want'[v] = want[v]
    BY <2>4, FixedKept DEF Between
  <2>6. episode'[s].by = v /\ episode'[s].ran = child[v][r].ran /\ episode'[s].hash = child[v][r].hash
    BY <2>1, <2>3
  <2>7. QED
    BY <2>4, <2>5, <2>6 DEF Between, WantedBefore, Fixed
<1>4. QED
  BY <1>1, <1>2, <1>3, WhoChanges

(* Pairs are built of episodes on disk only.                               *)
LEMMA RowsBetween ==
    ASSUME Typed, Typed', EpisodesBetween, [Next]_vars, NEW v \in Evaluators
    PROVE  PairsBetween(rows[v])'
<1>0. rows \in [Evaluators -> SUBSET Pair]
  BY DEF Typed, EvaluatorTyped
<1>1. \A p \in rows[v] : Between(p.by, p.ran, p.hash)'
  <2>1. \A p \in rows[v] : p.by \in Evaluators /\ Between(p.by, p.ran, p.hash)
    BY <1>0 DEF EpisodesBetween, PairsBetween, Pair
  <2>2. QED
    BY <2>1, BetweenKept
<1>2. CASE rows'[v] = rows[v]
  BY <1>1, <1>2 DEF PairsBetween
<1>3. ASSUME NEW w \in Evaluators, NEW g \in 1 .. Gpus, BuildPair(w, g), rows'[v] # rows[v]
      PROVE  PairsBetween(rows[v])'
  <2> DEFINE a == episode[Here(w, g)]
             r == episode[Slot(w, thread[w][g].unit, 0)]
             pair == PairOf(thread[w][g].unit, a, r, thread[w][g].progress)
  <2>1. /\ r # Truncated /\ a # Truncated /\ rows' = [rows EXCEPT ![w] = @ \cup {pair}]
        /\ thread[w][g].step = "pair"
    BY <1>3 DEF BuildPair
  <2>2. a \in Episode /\ Here(w, g) \in Slots
    BY <2>1, PairFacts, QueueFacts DEF AtWork
  <2>3. a.by \in Evaluators /\ Between(a.by, a.ran, a.hash)
    BY <2>2 DEF EpisodesBetween, Episode
  <2>4. pair.by = a.by /\ pair.ran = a.ran /\ pair.hash = a.hash
    BY DEF PairOf
  <2> HIDE DEF a, pair
  <2>5. rows'[v] = rows[v] \cup {pair}
    BY <1>0, <1>3, <2>1
  <2>6. PICK p : p = pair
    OBVIOUS
  <2>7. p.by \in Evaluators /\ Between(p.by, p.ran, p.hash)
    BY <2>3, <2>4, <2>6
  <2>8. Between(p.by, p.ran, p.hash)'
    BY <2>7, BetweenKept
  <2>9. rows'[v] = rows[v] \cup {p}
    BY <2>5, <2>6
  <2>10. QED
    BY <1>1, <2>8, <2>9 DEF PairsBetween
<1>4. QED
  BY <1>2, <1>3, WhoChanges

(* Receipts and selections are committed of an evaluator's pairs only.     *)
LEMMA ReceiptsBetween ==
    ASSUME Typed, Typed', EpisodesBetween, [Next]_vars
    PROVE  /\ (\A e \in 1 .. Epochs : epochReceipt[e] # Absent => PairsBetween(epochReceipt[e]))'
           /\ (selection # Absent => Seen(selection.model) /\ PairsBetween(selection.rows))'
<1>0. epochReceipt \in [1 .. Epochs -> {Absent} \cup SUBSET Pair] /\ rows \in [Evaluators -> SUBSET Pair]
  BY DEF Typed, FilesTyped, EvaluatorTyped
<1>1. ASSUME NEW pairs \in SUBSET Pair, PairsBetween(pairs)
      PROVE  \A p \in pairs : Between(p.by, p.ran, p.hash)'
  BY <1>1, BetweenKept DEF PairsBetween, Pair
<1>2. \A w \in Evaluators : \A p \in rows[w] : Between(p.by, p.ran, p.hash)'
  BY <1>0, <1>1 DEF EpisodesBetween
<1>3. \A e \in 1 .. Epochs : epochReceipt[e] # Absent =>
         \A p \in epochReceipt[e] : Between(p.by, p.ran, p.hash)'
  BY <1>0, <1>1 DEF EpisodesBetween
<1>4. selection # Absent => /\ \A p \in selection.rows : Between(p.by, p.ran, p.hash)'
                            /\ selection.model \in Models /\ Seen(selection.model)
  BY <1>1 DEF EpisodesBetween, Typed, FilesTyped
<1>5. (\A e \in 1 .. Epochs : epochReceipt[e] # Absent => PairsBetween(epochReceipt[e]))'
  <2>1. CASE epochReceipt' = epochReceipt
    BY <1>3, <2>1 DEF PairsBetween
  <2>2. ASSUME NEW v \in Evaluators, Commit(v), epochReceipt' # epochReceipt
        PROVE  <1>5
    <3>1. epochReceipt' = [epochReceipt EXCEPT ![want[v][1][1]] = rows[v]]
      BY <2>2 DEF Commit
    <3>2. \A e \in 1 .. Epochs : epochReceipt'[e] \in {epochReceipt[e], rows[v]}
      BY <1>0, <3>1
    <3>3. QED
      BY <1>2, <1>3, <3>2 DEF PairsBetween
  <2>3. QED
    BY <2>1, <2>2, WhoChanges
<1>6. (selection # Absent => Seen(selection.model) /\ PairsBetween(selection.rows))'
  <2>1. CASE selection' = selection
    <3>1. selection # Absent => Seen(selection.model)'
      BY <1>4, <2>1, SeenKept DEF Seen
    <3>2. QED
      BY <1>4, <2>1, <3>1 DEF PairsBetween
  <2>2. ASSUME NEW v \in Evaluators, Commit(v), selection' # selection
        PROVE  <1>6
    <3>1. PICK i \in 1 .. Len(want[v]) : selection' = [model |-> want[v][i], rows |-> rows[v]]
      BY <2>2 DEF Commit
    <3>2. want[v][i] \in Models /\ Seen(want[v][i])
      BY WantFacts DEF EpisodesBetween, Typed
    <3>3. PICK m \in Models : Seen(m) /\ selection'.model = m
      BY <3>1, <3>2
    <3>4. selection'.rows = rows[v]
      BY <3>1
    <3>5. Seen(selection.model)'
      BY <3>3, SeenKept DEF Seen
    <3>6. QED
      BY <1>2, <3>4, <3>5 DEF PairsBetween
  <2>3. QED
    BY <2>1, <2>2, WhoChanges
<1>7. QED
  BY <1>5, <1>6

(* Initially there is no episode.                                          *)
LEMMA InitBetween == Init => EpisodesBetween
<1> SUFFICES ASSUME Init PROVE EpisodesBetween
  OBVIOUS
<1>1. \A v \in Evaluators : want[v] = <<>> /\ rows[v] = {} /\ \A s \in Slots : child[v][s].step = "none"
  BY DEF Init, NoChild
<1>2. /\ \A s \in Slots : episode[s] = Absent
      /\ \A e \in 1 .. Epochs : epochReceipt[e] = Absent
      /\ selection = Absent
  BY DEF Init
<1>3. QED
  BY <1>1, <1>2, FileAssumption DEF EpisodesBetween, ChildBetween, PairsBetween

(* Whatever drove an episode was in the checkpoint after its evaluator had *)
(* resolved it and before run_one hashed the file, for episodes on disk,   *)
(* in pairs, in receipts and in the selection alike.                       *)
THEOREM BetweenTheHashes == Spec => [](Typed /\ EpisodesBetween)
<1>1. Typed /\ EpisodesBetween /\ [Next]_vars => (Typed /\ EpisodesBetween)'
  <2> SUFFICES ASSUME Typed, EpisodesBetween, [Next]_vars PROVE Typed' /\ EpisodesBetween'
    OBVIOUS
  <2>1. Typed'
    BY NextTyped
  <2>2. QED
    BY <2>1, WantsSeen, ChildrenBetween, FilesBetween, RowsBetween, ReceiptsBetween DEF EpisodesBetween
<1>2. QED
  BY InitTyped, InitBetween, <1>1, PTL DEF Spec

(* Between the same two hashes there is one content.                       *)
LEMMA AttestedIsRan ==
    ASSUME NEW p \in Pair, want \in [Evaluators -> Seq(Models)],
           Between(p.by, p.ran, p.hash), Attested(p)
    PROVE  p.ran = p.hash
<1>1. p.by \in Evaluators /\ p.ran \in Models /\ p.hash \in Models
  BY DEF Pair
<1>2. PICK i \in 1 .. Len(want[p.by]) : want[p.by][i] = p.hash
  BY DEF Attested
<1>3. p.ran[1] = p.hash[1] /\ p.ran[2] <= p.hash[2] /\ p.hash[2] <= p.ran[2]
  BY <1>2 DEF Between, WantedBefore
<1>4. p.ran[2] = p.hash[2]
  BY <1>1, <1>3, ModelFacts, SizeAssumption
<1>5. QED
  BY <1>1, <1>3, <1>4, ModelFacts

(* However the evaluators overlap, are killed and leave children behind,   *)
(* an episode whose evaluator had resolved the content it names was driven *)
(* by that content.                                                        *)
THEOREM AttestedRan == Spec => []AttestedPairsRan
<1>1. Typed /\ EpisodesBetween => AttestedPairsRan
  <2> SUFFICES ASSUME Typed, EpisodesBetween, NEW v \in DOMAIN rows, NEW p \in rows[v], Attested(p)
               PROVE  p.ran = p.hash
    BY DEF AttestedPairsRan
  <2>1. v \in Evaluators /\ p \in Pair /\ want \in [Evaluators -> Seq(Models)]
    BY DEF Typed, EvaluatorTyped
  <2>2. QED
    BY <2>1, AttestedIsRan DEF EpisodesBetween, PairsBetween
<1>2. QED
  BY <1>1, BetweenTheHashes, PTL

-----------------------------------------------------------------------------
(* Held-out evaluation and the selection.                                  *)

(* Who is where: only a start makes an evaluator live.                     *)
LEMMA LiveBefore ==
    ASSUME Typed, [Next]_vars, NEW v \in Evaluators
    PROVE  Live(v)' => Live(v) \/ StartScreening(v) \/ StartHeldout(v)
<1> USE DEF Goto, local, Live
<1>0. pc \in [Evaluators -> {"idle", "resolve", "run", "rehash", "commit", "committed", "failed"}]
  BY DEF Typed, EvaluatorTyped
<1>1. CASE pc'[v] = pc[v]
  BY <1>1
<1>2. ASSUME NEW w \in Evaluators, StartScreening(w) \/ StartHeldout(w), pc'[v] # pc[v] PROVE w = v
  BY <1>0, <1>2 DEF StartScreening, StartHeldout
<1>3. ASSUME NEW w \in Evaluators,
             Resolve(w) \/ Gather(w) \/ Rehash(w) \/ Commit(w) \/ Abort(w), pc'[v] # pc[v]
      PROVE  Live(v)
  BY <1>0, <1>3 DEF Resolve, Gather, Rehash, Commit, Abort
<1>4. ASSUME NEW w \in Evaluators, NEW g \in 1 .. Gpus, Check(w, g) \/ Wait(w, g) \/ BuildPair(w, g)
      PROVE  pc' = pc
  BY <1>4 DEF Check, Wait, BuildPair
<1>5. ASSUME NEW w \in Evaluators, NEW s \in Slots, Work(w, s) \/ Block(w, s) \/ Kill(w, s)
      PROVE  pc' = pc
  BY <1>5 DEF Work, LoadAdapter, OpenEpisode, WriteEpisode, WriteReceipt, Block, Kill
<1>6. ASSUME NEW e \in 1 .. Epochs, Edit(e) PROVE pc' = pc
  BY <1>6 DEF Edit
<1>7. CASE UNCHANGED vars
  BY <1>7 DEF vars
<1>8. QED
  BY <1>1, <1>2, <1>3, <1>4, <1>5, <1>6, <1>7 DEF Next, Proceed

(* An evaluator pairs only candidates it has resolved.                     *)
LEMMA PairsOfWantedKept ==
    ASSUME Typed, Typed', PairsOfWanted, [Next]_vars
    PROVE  PairsOfWanted'
<1>0. want \in [Evaluators -> Seq(Models)] /\ rows \in [Evaluators -> SUBSET Pair]
  BY DEF Typed, EvaluatorTyped
<1> SUFFICES ASSUME NEW v \in Evaluators, NEW p \in rows'[v]
             PROVE  \E i \in 1 .. Len(want'[v]) : p.hash = want'[v][i]
  BY DEF PairsOfWanted
<1>1. ASSUME p \in rows[v] PROVE \E i \in 1 .. Len(want'[v]) : p.hash = want'[v][i]
  <2>1. PICK i \in 1 .. Len(want[v]) : p.hash = want[v][i]
    BY <1>1 DEF PairsOfWanted
  <2>2. CASE want'[v] = want[v]
    BY <2>1, <2>2
  <2>3. ASSUME NEW w \in Evaluators, StartHeldout(w), want'[v] # want[v] PROVE FALSE
    <3>1. v = w
      BY <1>0, <2>3 DEF StartHeldout
    <3>2. pc[v] = "idle"
      BY <2>3, <3>1 DEF StartHeldout
    <3>3. want[v] = <<>>
      BY <3>2 DEF Typed, StageTyped
    <3>4. QED
      BY <2>1, <3>3
  <2>4. ASSUME NEW w \in Evaluators, Resolve(w), want'[v] # want[v]
        PROVE  i \in 1 .. Len(want'[v]) /\ want'[v][i] = want[v][i]
    <3> DEFINE m == OnDisk(todo[w][Len(want[w]) + 1])
    <3>1. want' = [want EXCEPT ![w] = Append(@, m)]
      BY <2>4 DEF Resolve
    <3> HIDE DEF m
    <3>2. want'[v] = Append(want[v], m) /\ want[v] \in Seq(Models)
      BY <1>0, <2>4, <3>1
    <3>3. QED
      BY <2>1, <3>2
  <2>5. QED
    BY <2>1, <2>2, <2>3, <2>4, WhoChanges
<1>2. ASSUME NEW w \in Evaluators, NEW g \in 1 .. Gpus, BuildPair(w, g), p \notin rows[v]
      PROVE  \E i \in 1 .. Len(want'[v]) : p.hash = want'[v][i]
  <2> DEFINE a == episode[Here(w, g)]
             r == episode[Slot(w, thread[w][g].unit, 0)]
             pair == PairOf(thread[w][g].unit, a, r, thread[w][g].progress)
  <2>1. /\ a.hash = Wanted(w, g) /\ rows' = [rows EXCEPT ![w] = @ \cup {pair}]
        /\ thread[w][g].step = "pair" /\ want' = want
    BY <1>0, <1>2 DEF BuildPair
  <2>2. pair.hash = a.hash
    BY DEF PairOf
  <2> HIDE DEF a, pair
  <2>3. v = w /\ p = pair
    BY <1>0, <1>2, <2>1
  <2>4. thread[v][g].at \in 1 .. Len(want[v])
    <3>1. AtWork(v, g) /\ QueueTyped(v, g)
      BY <2>1, <2>3 DEF AtWork, Typed
    <3>2. thread[v][g].at \in 0 .. Len(want[v]) /\ thread[v][g].at > 0
      BY <2>1, <2>3, <3>1 DEF QueueTyped
    <3>3. QED
      BY <3>2
  <2>5. p.hash = want[v][thread[v][g].at]
    BY <2>1, <2>2, <2>3, <2>4 DEF Wanted, Want
  <2>6. QED
    BY <2>1, <2>4, <2>5
<1>3. QED
  BY <1>1, <1>2, WhoChanges

(* Without overlap one evaluator is live at a time.                        *)
LEMMA OneLiveKept ==
    ASSUME ~Overlap, Typed, OneLive, [Next]_vars
    PROVE  OneLive'
<1> SUFFICES ASSUME NEW v \in Evaluators, NEW w \in Evaluators, Live(v)', Live(w)' PROVE v = w
  BY DEF OneLive
<1>1. ASSUME NEW u \in Evaluators, StartScreening(u) \/ StartHeldout(u)
      PROVE  /\ \A x \in Evaluators : ~Live(x)
             /\ \A x \in Evaluators \ {u} : pc'[x] = pc[x]
  BY <1>1 DEF StartScreening, StartHeldout, MayStart, Goto, Typed, EvaluatorTyped
<1>2. CASE \E u \in Evaluators : StartScreening(u) \/ StartHeldout(u)
  BY <1>1, <1>2 DEF Live
<1>3. CASE ~\E u \in Evaluators : StartScreening(u) \/ StartHeldout(u)
  BY <1>3, LiveBefore DEF OneLive
<1>4. QED
  BY <1>2, <1>3

(* While a held-out evaluation is live nobody commits another selection.   *)
LEMMA HeldoutBoundKept ==
    ASSUME ~Overlap, Typed, OneLive, OneLive', HeldoutBound, [Next]_vars
    PROVE  HeldoutBound'
<1>0. want \in [Evaluators -> Seq(Models)]
  BY DEF Typed, EvaluatorTyped
<1> SUFFICES ASSUME NEW v \in Evaluators, Live(v)', mode'[v] = "heldout"
             PROVE  pc'[v] # "resolve" /\ selection' # Absent /\ want'[v] = <<selection'.model>>
  BY DEF HeldoutBound
<1>1. CASE StartHeldout(v)
  <2>1. selection # Absent /\ selection' = selection /\ want'[v] = <<selection.model>>
    BY <1>0, <1>1 DEF StartHeldout, files
  <2>2. pc'[v] # "resolve"
    BY <1>1 DEF StartHeldout, Goto, Typed, EvaluatorTyped
  <2>3. QED
    BY <2>1, <2>2
<1>2. CASE StartScreening(v)
  BY <1>2 DEF StartScreening, Typed, EvaluatorTyped
<1>3. CASE Live(v) /\ ~StartHeldout(v) /\ ~StartScreening(v)
  <2>1. mode'[v] = mode[v]
    <3>1. ASSUME NEW w \in Evaluators, StartScreening(w) \/ StartHeldout(w) PROVE FALSE
      BY <1>3, <3>1 DEF StartScreening, StartHeldout, MayStart
    <3>2. ASSUME NEW w \in Evaluators, Resolve(w) PROVE mode' = mode
      BY <3>2 DEF Resolve
    <3>3. Fixed(v) => mode'[v] = mode[v]
      BY FixedKept
    <3>4. ~Fixed(v) => pc[v] = "resolve"
      BY <1>3 DEF Live, Fixed
    <3>5. ASSUME NEW w \in Evaluators, Gather(w) \/ Rehash(w) \/ Commit(w) \/ Abort(w) PROVE mode' = mode
      BY <3>5 DEF Gather, Rehash, Commit, Abort, local
    <3>6. ASSUME NEW w \in Evaluators, NEW g \in 1 .. Gpus, Check(w, g) \/ Wait(w, g) \/ BuildPair(w, g)
          PROVE mode' = mode
      BY <3>6 DEF Check, Wait, BuildPair
    <3>7. ASSUME NEW w \in Evaluators, NEW s \in Slots, Work(w, s) \/ Block(w, s) \/ Kill(w, s)
          PROVE mode' = mode
      BY <3>7 DEF Work, LoadAdapter, OpenEpisode, WriteEpisode, WriteReceipt, Block, Kill, local
    <3>8. ASSUME NEW e \in 1 .. Epochs, Edit(e) PROVE mode' = mode
      BY <3>8 DEF Edit, local
    <3>9. QED
      BY <3>1, <3>2, <3>5, <3>6, <3>7, <3>8 DEF Next, Proceed, vars, local
  <2>2. pc[v] # "resolve" /\ selection # Absent /\ want[v] = <<selection.model>>
    BY <1>3, <2>1 DEF HeldoutBound
  <2>3. Fixed(v)' /\ want'[v] = want[v]
    BY <1>3, <2>2, FixedKept DEF Fixed, Live
  <2>4. ASSUME NEW w \in Evaluators, Commit(w), selection' # selection PROVE FALSE
    <3>1. Live(w) /\ mode[w] = "screen"
      BY <2>4 DEF Commit, Live
    <3>2. QED
      BY <1>3, <2>1, <3>1 DEF OneLive
  <2>5. selection' = selection
    BY <2>4, WhoChanges
  <2>6. QED
    BY <2>2, <2>3, <2>5 DEF Fixed
<1>4. QED
  BY <1>1, <1>2, <1>3, LiveBefore

(* The step that commits a held-out summary: attested pairs were driven by *)
(* what they name, which is the selected model on both sides.              *)
LEMMA HeldoutStep ==
    ASSUME Typed, EpisodesBetween, PairsOfWanted, HeldoutBound, Typed', [Next]_vars
    PROVE  HeldoutRanSelected
<1> SUFFICES ASSUME heldout' # heldout PROVE HeldoutRanSelected
  BY DEF HeldoutRanSelected
<1>1. PICK v \in Evaluators : Commit(v)
  BY WhoChanges
<1>2. mode[v] = "heldout" /\ heldout' = [model |-> want[v][1], rows |-> rows[v]] /\ Live(v)
  BY <1>1 DEF Commit, Live
<1>3. selection # Absent /\ want[v] = <<selection.model>>
  BY <1>2 DEF HeldoutBound
<1>4. /\ want \in [Evaluators -> Seq(Models)] /\ rows[v] \subseteq Pair
      /\ selection.rows \subseteq Pair
  BY <1>3 DEF Typed, EvaluatorTyped, FilesTyped
<1>5. ASSUME NEW p \in rows[v], NEW q \in selection.rows,
             q.hash = selection.model, Attested(p), Attested(q)
      PROVE  p.ran = q.ran
  <2>1. p.ran = p.hash
    BY <1>4, <1>5, AttestedIsRan DEF EpisodesBetween, PairsBetween
  <2>2. q.ran = q.hash
    BY <1>3, <1>4, <1>5, AttestedIsRan DEF EpisodesBetween, PairsBetween
  <2>3. PICK i \in 1 .. Len(want[v]) : p.hash = want[v][i]
    BY DEF PairsOfWanted
  <2>4. p.hash = selection.model
    BY <1>3, <2>3
  <2>5. QED
    BY <1>5, <2>1, <2>2, <2>4
<1>6. heldout'.rows = rows[v]
  BY <1>2
<1>7. QED
  BY <1>5, <1>6 DEF HeldoutRanSelected

(* Screening and held-out judge one model: evaluators that do not overlap  *)
(* commit a held-out summary only of episodes that, as far as attested,    *)
(* were run with the very content that earned the selection.               *)
THEOREM HeldoutBindsSelection ==
    ASSUME ~Overlap
    PROVE  Spec => HeldoutIsOfSelected
<1>1. Init => PairsOfWanted /\ OneLive /\ HeldoutBound
  BY DEF Init, PairsOfWanted, OneLive, HeldoutBound, Live
<1>2. PairsOfWanted /\ OneLive /\ HeldoutBound /\ Typed /\ Typed' /\ [Next]_vars =>
         (PairsOfWanted /\ OneLive /\ HeldoutBound)'
  BY PairsOfWantedKept, OneLiveKept, HeldoutBoundKept
<1>3. /\ Typed /\ EpisodesBetween /\ PairsOfWanted /\ HeldoutBound /\ Typed' /\ [Next]_vars
      => [HeldoutRanSelected]_vars
  BY HeldoutStep
<1>4. Spec => []Typed /\ []EpisodesBetween
  BY BetweenTheHashes, PTL
<1>5. QED
  BY <1>1, <1>2, <1>3, <1>4, PTL DEF Spec, HeldoutIsOfSelected

-----------------------------------------------------------------------------
(* Evidence: who moves which queue, which child, which file.               *)

(* A step of one queue leaves every other queue where it is.               *)
LEMMA OthersStay ==
    ASSUME Typed, NEW v \in Evaluators, NEW g \in 1 .. Gpus,
           Check(v, g) \/ Wait(v, g) \/ BuildPair(v, g),
           NEW w \in Evaluators, NEW h \in 1 .. Gpus, <<w, h>> # <<v, g>>
    PROVE  thread'[w][h] = thread[w][h]
<1>0. thread \in [Evaluators -> [1 .. Gpus -> Thread]]
  BY DEF Typed, EvaluatorTyped
<1>1. AtWork(v, g)
  BY DEF Check, Wait, BuildPair, AtWork
<1>2. CASE Complete(Here(v, g), Wanted(v, g)) /\ Take(v, g)
  BY <1>1, <1>2, TakeFacts
<1>3. CASE Raise(v, g)
  BY <1>3, RaiseFacts
<1>4. ASSUME NEW new, thread' = [thread EXCEPT ![v][g] = new] PROVE thread'[w][h] = thread[w][h]
  BY <1>0, <1>4
<1>5. CASE thread' = [thread EXCEPT ![v][g].step = "wait"]
  BY <1>4, <1>5
<1>6. CASE thread' = [thread EXCEPT ![v][g] = NextInQueue(v, thread[v][g])]
  BY <1>4, <1>6
<1>7. QED
  BY <1>2, <1>3, <1>5, <1>6 DEF Check, Wait, BuildPair

(* A queue's thread moves by its own steps or is set up anew.              *)
LEMMA ThreadMoves ==
    ASSUME Typed, [Next]_vars, NEW v \in Evaluators, NEW g \in 1 .. Gpus,
           thread'[v][g] # thread[v][g]
    PROVE  \/ (StartHeldout(v) \/ Resolve(v)) /\ thread'[v][g] = FirstOf(g)
           \/ Check(v, g) \/ Wait(v, g) \/ BuildPair(v, g)
<1>0. thread \in [Evaluators -> [1 .. Gpus -> Thread]]
  BY DEF Typed, EvaluatorTyped
<1>1. ASSUME NEW w \in Evaluators, StartHeldout(w) \/ Resolve(w)
      PROVE  w = v /\ thread'[v][g] = FirstOf(g)
  <2> DEFINE new == [h \in 1 .. Gpus |-> FirstOf(h)]
  <2>1. new[g] = FirstOf(g)
    OBVIOUS
  <2>2. thread' = thread \/ thread' = [thread EXCEPT ![w] = new]
    BY <1>1 DEF StartHeldout, Resolve
  <2> HIDE DEF new
  <2>3. QED
    BY <1>0, <2>1, <2>2
<1>2. ASSUME NEW w \in Evaluators, NEW h \in 1 .. Gpus, Check(w, h) \/ Wait(w, h) \/ BuildPair(w, h)
      PROVE  w = v /\ h = g
  BY <1>2, OthersStay
<1>3. ASSUME NEW w \in Evaluators,
             StartScreening(w) \/ Gather(w) \/ Rehash(w) \/ Commit(w) \/ Abort(w)
      PROVE  FALSE
  BY <1>3 DEF StartScreening, Gather, Rehash, Commit, Abort, local
<1>4. ASSUME NEW w \in Evaluators, NEW s \in Slots, Work(w, s) \/ Block(w, s) \/ Kill(w, s)
      PROVE  FALSE
  BY <1>4 DEF Work, LoadAdapter, OpenEpisode, WriteEpisode, WriteReceipt, Block, Kill, local
<1>5. ASSUME NEW e \in 1 .. Epochs, Edit(e) PROVE FALSE
  BY <1>5 DEF Edit, local
<1>6. CASE UNCHANGED vars
  BY <1>6 DEF vars, local
<1>7. QED
  BY <1>1, <1>2, <1>3, <1>4, <1>5, <1>6 DEF Next, Proceed

(* A queue starts a child only in a slot that is not complete.             *)
Starts(v, g, s) == Check(v, g) /\ Here(v, g) = s /\ ~Complete(s, Wanted(v, g))

(* A child moves by its own steps, or a queue starts it.                   *)
LEMMA ChildMoves ==
    ASSUME Typed, [Next]_vars, NEW v \in Evaluators, NEW s \in Slots, child'[v][s] # child[v][s]
    PROVE  \/ \E g \in 1 .. Gpus : Starts(v, g, s)
           \/ Work(v, s) \/ Block(v, s) \/ Kill(v, s)
<1>0. child \in [Evaluators -> [Slots -> [step : ChildSteps, ran : Models, hash : Models]]]
  BY DEF Typed, ChildTyped
<1>1. ASSUME NEW w \in Evaluators, NEW r \in Slots, NEW new, child' = [child EXCEPT ![w][r] = new]
      PROVE  w = v /\ r = s
  BY <1>0, <1>1
<1>2. ASSUME NEW w \in Evaluators, NEW g \in 1 .. Gpus, Check(w, g) PROVE Starts(v, g, s)
  <2>1. AtWork(w, g) /\ Here(w, g) \in Slots
    BY <1>2, QueueFacts DEF Check, AtWork
  <2>2. ~Complete(Here(w, g), Wanted(w, g)) /\ child' = [child EXCEPT ![w][Here(w, g)].step = "spawned"]
    BY <1>2 DEF Check
  <2>3. w = v /\ Here(w, g) = s
    BY <1>1, <2>1, <2>2
  <2>4. QED
    BY <1>2, <2>2, <2>3 DEF Starts
<1>3. ASSUME NEW w \in Evaluators, NEW r \in Slots, Work(w, r) \/ Block(w, r) \/ Kill(w, r)
      PROVE  w = v /\ r = s
  <2>1. \E new : child' = [child EXCEPT ![w][r] = new]
    BY <1>3 DEF Work, LoadAdapter, OpenEpisode, WriteEpisode, WriteReceipt, Block, Kill, StepChild
  <2>2. QED
    BY <1>1, <2>1
<1>4. QED
  BY <1>2, <1>3, WhoChanges

(* Who is alive after a step was alive before or has been started by it.   *)
LEMMA AliveBefore ==
    ASSUME Typed, [Next]_vars, NEW v \in Evaluators, NEW s \in Slots, Alive(v, s)'
    PROVE  Alive(v, s) \/ \E g \in 1 .. Gpus : Starts(v, g, s)
<1>1. CASE child'[v][s] = child[v][s]
  BY <1>1 DEF Alive
<1>2. Work(v, s) \/ Block(v, s) \/ Kill(v, s) => Alive(v, s)
  BY DEF Work, LoadAdapter, OpenEpisode, WriteEpisode, WriteReceipt, Block, Kill, StepChild, Alive
<1>3. QED
  BY <1>1, <1>2, ChildMoves

(* Only a child in a slot touches its files.                               *)
LEMMA FilesMove ==
    ASSUME Typed, [Next]_vars, NEW s \in Slots,
           episode'[s] # episode[s] \/ receipt'[s] # receipt[s]
    PROVE  \E v \in Evaluators : Alive(v, s)
<1>0. /\ episode \in [Slots -> Episode \cup {Absent, Truncated}]
      /\ receipt \in [Slots -> Receipt \cup {Absent, Blocked}]
  BY DEF Typed, FilesTyped
<1>1. ASSUME NEW v \in Evaluators, NEW r \in Slots,
             OpenEpisode(v, r) \/ WriteEpisode(v, r) \/ WriteReceipt(v, r) \/ Block(v, r)
      PROVE  Alive(v, r)
  BY <1>1 DEF OpenEpisode, WriteEpisode, WriteReceipt, Block, StepChild, Alive
<1>2. ASSUME NEW v \in Evaluators, NEW r \in Slots,
             OpenEpisode(v, r) \/ WriteEpisode(v, r), episode'[s] # episode[s]
      PROVE  r = s
  <2>1. \E new : episode' = [episode EXCEPT ![r] = new]
    BY <1>2 DEF OpenEpisode, WriteEpisode
  <2>2. QED
    BY <1>0, <1>2, <2>1
<1>3. ASSUME NEW v \in Evaluators, NEW r \in Slots,
             WriteReceipt(v, r) \/ Block(v, r), receipt'[s] # receipt[s]
      PROVE  r = s
  <2>1. \E new : receipt' = [receipt EXCEPT ![r] = new]
    BY <1>3 DEF WriteReceipt, Block
  <2>2. QED
    BY <1>0, <1>3, <2>1
<1>4. QED
  BY <1>1, <1>2, <1>3, WhoChanges

(* What is settled stays so, unless a queue starts a child there.          *)
LEMMA SettledKept ==
    ASSUME Typed, [Next]_vars, NEW s \in Slots, NEW m \in Models, Settled(s, m),
           \A v \in Evaluators, g \in 1 .. Gpus : ~Starts(v, g, s)
    PROVE  Settled(s, m)' /\ episode'[s] = episode[s]
<1>1. episode'[s] = episode[s] /\ receipt'[s] = receipt[s]
  BY FilesMove DEF Settled
<1>2. \A v \in Evaluators : ~Alive(v, s)'
  BY AliveBefore DEF Settled
<1>3. QED
  BY <1>1, <1>2 DEF Settled, Complete

-----------------------------------------------------------------------------
(* Evidence: evaluators are alone, their queues and candidates distinct.   *)

(* An evaluator starts when no other lives and no child is left, and its   *)
(* children are started by its queues, which wait for them.                *)
LEMMA AloneKept ==
    ASSUME ~Overlap, ~Orphans, Typed, Typed', OneLive, Alone, [Next]_vars
    PROVE  Alone'
<1> SUFFICES ASSUME NEW v \in Evaluators, Live(v)'
             PROVE  /\ \A w \in Evaluators, s \in Slots : Alive(w, s)' => w = v
                    /\ \A s \in Slots : Alive(v, s)' =>
                          \E g \in 1 .. Gpus : thread'[v][g].step = "wait" /\ Here(v, g)' = s
  BY DEF Alone
<1>1. CASE StartScreening(v) \/ StartHeldout(v)
  <2>1. /\ \A w \in Evaluators, s \in Slots : ~Alive(w, s)
        /\ child' = child
    BY <1>1 DEF StartScreening, StartHeldout, MayStart
  <2>2. QED
    BY <2>1 DEF Alive
<1>2. CASE Live(v)
  <2>1. ASSUME NEW w \in Evaluators, NEW s \in Slots, Alive(w, s)' PROVE w = v
    <3>1. ASSUME NEW g \in 1 .. Gpus, Starts(w, g, s) PROVE Live(w)
      BY <3>1 DEF Starts, Check, Live
    <3>2. QED
      BY <1>2, <2>1, <3>1, AliveBefore DEF Alone, OneLive
  <2>2. ASSUME NEW s \in Slots, Alive(v, s)'
        PROVE  \E g \in 1 .. Gpus : thread'[v][g].step = "wait" /\ Here(v, g)' = s
    <3>1. CASE Alive(v, s)
      <4>1. PICK g \in 1 .. Gpus : thread[v][g].step = "wait" /\ Here(v, g) = s
        BY <1>2, <3>1 DEF Alone
      <4>2. AtWork(v, g) /\ Fixed(v)
        BY <4>1, QueueFacts DEF AtWork
      <4>3. ~StartHeldout(v) /\ ~Resolve(v) /\ ~Check(v, g) /\ ~Wait(v, g) /\ ~BuildPair(v, g)
        BY <3>1, <4>1, <4>2 DEF StartHeldout, Resolve, Check, Wait, BuildPair, Fixed
      <4>4. thread'[v][g] = thread[v][g]
        BY <4>3, ThreadMoves
      <4>5. Here(v, g)' = Here(v, g)
        BY <4>2, <4>4, FixedKept DEF Here, Slot, Want
      <4>6. QED
        BY <4>1, <4>4, <4>5
    <3>2. ASSUME NEW g \in 1 .. Gpus, Starts(v, g, s)
          PROVE  thread'[v][g].step = "wait" /\ Here(v, g)' = s
      <4>1. /\ thread' = [thread EXCEPT ![v][g].step = "wait"] /\ Here(v, g) = s
            /\ mode' = mode /\ want' = want
        BY <3>2 DEF Starts, Check
      <4>2. thread \in [Evaluators -> [1 .. Gpus -> Thread]]
        BY DEF Typed, EvaluatorTyped
      <4> DEFINE new == [thread[v][g] EXCEPT !.step = "wait"]
      <4>3. new.step = "wait" /\ new.unit = thread[v][g].unit /\ new.at = thread[v][g].at
        BY <4>2 DEF Thread
      <4>4. thread' = [thread EXCEPT ![v][g] = new]
        BY <4>1
      <4> HIDE DEF new
      <4>5. thread'[v][g] = new
        BY <4>2, <4>4
      <4>6. QED
        BY <4>1, <4>3, <4>5 DEF Here, Slot, Want
    <3>3. QED
      BY <2>2, <3>1, <3>2, AliveBefore
  <2>3. QED
    BY <2>1, <2>2
<1>3. QED
  BY <1>1, <1>2, LiveBefore

(* How a queue at work got where it is.                                    *)
LEMMA QueueBefore ==
    ASSUME Typed, [Next]_vars, NEW v \in Evaluators, NEW g \in 1 .. Gpus, AtWork(v, g)',
           thread'[v][g] # thread[v][g]
    PROVE  LET t == thread[v][g]  n == thread'[v][g] IN
           \/ ~AtWork(v, g) /\ n.unit = g /\ n.at = 0 /\ n.step # "pair"
           \/ AtWork(v, g) /\ n.step = "wait" /\ n.unit = t.unit /\ n.at = t.at
           \/ /\ Check(v, g) \/ Wait(v, g)
              /\ AtWork(v, g) /\ Complete(Here(v, g), Wanted(v, g)) /\ child' = child
              /\ t.step = "wait" => ~Alive(v, Here(v, g))
              /\ n.unit = t.unit
              /\ \/ t.at = 0 /\ n.at = 1 /\ n.step = "check"
                 \/ t.at > 0 /\ n.at = t.at /\ n.step = "pair"
           \/ /\ BuildPair(v, g) /\ n.step = "check"
              /\ \/ n.unit = t.unit /\ n.at = t.at + 1
                 \/ n.unit = t.unit + Gpus /\ n.at = 0
<1> DEFINE t == thread[v][g]
           n == thread'[v][g]
<1>0. thread \in [Evaluators -> [1 .. Gpus -> Thread]]
  BY DEF Typed, EvaluatorTyped
<1>1. CASE (StartHeldout(v) \/ Resolve(v)) /\ n = FirstOf(g)
  <2>1. ~Fixed(v)
    BY <1>1 DEF StartHeldout, Resolve, Fixed
  <2>2. ~AtWork(v, g)
    BY <2>1, QueueFacts
  <2>3. QED
    BY <1>1, <2>2, FirstOfFacts
<1>2. CASE Complete(Here(v, g), Wanted(v, g)) /\ Take(v, g) /\ (Check(v, g) \/ Wait(v, g))
  <2>1. AtWork(v, g)
    BY <1>2 DEF Check, Wait, AtWork
  <2>2. child' = child /\ (t.step = "wait" => ~Alive(v, Here(v, g)))
    BY <1>2 DEF Check, Wait
  <2>3. QED
    BY <1>2, <2>1, <2>2, TakeFacts
<1>3. CASE Raise(v, g)
  BY <1>3, RaiseFacts DEF AtWork
<1>4. CASE Check(v, g) /\ ~Complete(Here(v, g), Wanted(v, g))
  <2> DEFINE new == [t EXCEPT !.step = "wait"]
  <2>1. new.step = "wait" /\ new.unit = t.unit /\ new.at = t.at
    BY <1>0 DEF Thread
  <2>2. thread' = [thread EXCEPT ![v][g] = new] /\ AtWork(v, g)
    BY <1>4 DEF Check, AtWork
  <2> HIDE DEF new
  <2>3. n = new
    BY <1>0, <2>2
  <2>4. QED
    BY <2>1, <2>2, <2>3
<1>5. CASE BuildPair(v, g) /\ thread' = [thread EXCEPT ![v][g] = NextInQueue(v, thread[v][g])]
  <2> DEFINE new == NextInQueue(v, thread[v][g])
  <2>1. t.step = "pair"
    BY <1>5 DEF BuildPair
  <2>2. \/ /\ new.step = "check" /\ new.unit = t.unit /\ new.at = t.at + 1
        \/ /\ new.step = "check" /\ new.unit = t.unit + Gpus /\ new.at = 0
        \/ new.step = "done"
    BY <2>1, NextFacts
  <2> HIDE DEF new
  <2>3. n = new
    BY <1>0, <1>5 DEF new
  <2>4. QED
    BY <1>5, <2>2, <2>3 DEF AtWork
<1>6. QED
  BY <1>1, <1>2, <1>3, <1>4, <1>5, ThreadMoves DEF Check, Wait, BuildPair

(* Two numbers of different residues differ.                               *)
LEMMA Residues ==
    ASSUME NEW n \in Nat \ {0}, NEW g \in 1 .. n, NEW h \in 1 .. n, NEW k \in Nat, NEW l \in Nat,
           g + k * n = h + l * n
    PROVE  g = h
<1>1. ASSUME NEW a \in 1 .. n, NEW b \in 1 .. n, NEW i \in Nat, NEW j \in Nat, i < j
      PROVE  a + i * n < b + j * n
  <2>1. PICK d \in Nat : j = i + 1 + d
    <3>1. j - i - 1 \in Nat /\ j = i + 1 + (j - i - 1)
      BY <1>1
    <3>2. QED
      BY <3>1
  <2>2. j * n = i * n + n + d * n
    BY <2>1
  <2>3. d * n \in Nat /\ i * n \in Nat
    OBVIOUS
  <2>4. QED
    BY <2>2, <2>3
<1>2. g \in Nat /\ h \in Nat /\ k * n \in Nat /\ l * n \in Nat
  OBVIOUS
<1>3. ~(k < l) /\ ~(l < k)
  BY <1>1, <1>2
<1>4. k = l
  BY <1>3
<1>5. QED
  BY <1>2, <1>4

(* A queue goes on to the unit one round of GPUs further.                  *)
LEMMA OwnUnitsKept ==
    ASSUME Typed, Typed', OwnUnits, [Next]_vars
    PROVE  OwnUnits'
<1> SUFFICES ASSUME NEW v \in Evaluators, NEW g \in 1 .. Gpus, AtWork(v, g)'
             PROVE  \E k \in Nat : thread'[v][g].unit = g + k * Gpus
  BY DEF OwnUnits
<1>1. CASE AtWork(v, g) /\ thread'[v][g].unit = thread[v][g].unit
  BY <1>1 DEF OwnUnits
<1>2. CASE thread'[v][g].unit = g
  BY <1>2, SizeAssumption
<1>3. CASE AtWork(v, g) /\ thread'[v][g].unit = thread[v][g].unit + Gpus
  <2>1. PICK k \in Nat : thread[v][g].unit = g + k * Gpus
    BY <1>3 DEF OwnUnits
  <2>2. k + 1 \in Nat /\ g + k * Gpus + Gpus = g + (k + 1) * Gpus
    BY SizeAssumption
  <2>3. QED
    BY <1>3, <2>1, <2>2
<1>4. BuildPair(v, g) => AtWork(v, g)
  BY DEF BuildPair, AtWork
<1>5. CASE thread'[v][g] = thread[v][g]
  BY <1>1, <1>5 DEF AtWork
<1>6. QED
  BY <1>1, <1>2, <1>3, <1>4, <1>5, QueueBefore

(* No two queues of an evaluator are at one unit.                          *)
LEMMA UnitsDiffer ==
    ASSUME OwnUnits, NEW v \in Evaluators, NEW g \in 1 .. Gpus, NEW h \in 1 .. Gpus,
           AtWork(v, g), AtWork(v, h), thread[v][g].unit = thread[v][h].unit
    PROVE  g = h
<1>1. PICK k \in Nat, l \in Nat : g + k * Gpus = h + l * Gpus
  BY DEF OwnUnits
<1>2. QED
  BY <1>1, Residues, SizeAssumption

(* Only a screening is given epochs to resolve.                            *)
LEMMA TodoMoves ==
    ASSUME Typed, [Next]_vars, NEW v \in Evaluators
    PROVE  /\ todo'[v] # todo[v] \/ mode'[v] # mode[v] => StartScreening(v) \/ StartHeldout(v)
           /\ want'[v] # want[v] => StartHeldout(v) \/ Resolve(v)
           /\ pc'[v] # pc[v] /\ Live(v)' => StartScreening(v) \/ StartHeldout(v) \/ Live(v)
<1> USE DEF local
<1>0. /\ todo \in [Evaluators -> Seq(1 .. Epochs)] /\ want \in [Evaluators -> Seq(Models)]
      /\ mode \in [Evaluators -> {"screen_epoch", "screen", "heldout"}]
  BY DEF Typed, EvaluatorTyped
<1>1. ASSUME NEW w \in Evaluators, StartScreening(w) \/ StartHeldout(w),
             todo'[v] # todo[v] \/ mode'[v] # mode[v]
      PROVE  w = v
  BY <1>0, <1>1 DEF StartScreening, StartHeldout
<1>2. ASSUME NEW w \in Evaluators, StartHeldout(w) \/ Resolve(w), want'[v] # want[v]
      PROVE  w = v
  <2>1. want' = want \/ \E new : want' = [want EXCEPT ![w] = new]
    BY <1>2 DEF StartHeldout, Resolve
  <2>2. QED
    BY <1>0, <1>2, <2>1
<1>3. ASSUME NEW w \in Evaluators, Resolve(w) \/ Gather(w) \/ Rehash(w) \/ Commit(w) \/ Abort(w)
      PROVE  todo' = todo /\ mode' = mode
  BY <1>3 DEF Resolve, Gather, Rehash, Commit, Abort
<1>4. ASSUME NEW w \in Evaluators, NEW g \in 1 .. Gpus, Check(w, g) \/ Wait(w, g) \/ BuildPair(w, g)
      PROVE  todo' = todo /\ mode' = mode
  BY <1>4 DEF Check, Wait, BuildPair
<1>5. ASSUME NEW w \in Evaluators, NEW s \in Slots, Work(w, s) \/ Block(w, s) \/ Kill(w, s)
      PROVE  todo' = todo /\ mode' = mode
  BY <1>5 DEF Work, LoadAdapter, OpenEpisode, WriteEpisode, WriteReceipt, Block, Kill
<1>6. ASSUME NEW e \in 1 .. Epochs, Edit(e) PROVE todo' = todo /\ mode' = mode
  BY <1>6 DEF Edit
<1>7. CASE UNCHANGED vars
  BY <1>7 DEF vars
<1>8. todo'[v] # todo[v] \/ mode'[v] # mode[v] => StartScreening(v) \/ StartHeldout(v)
  BY <1>1, <1>3, <1>4, <1>5, <1>6, <1>7 DEF Next, Proceed
<1>9. QED
  BY <1>2, <1>8, WhoChanges, LiveBefore

(* Candidates are resolved in the order of the epochs to do, each once.    *)
LEMMA OwnEpochsKept ==
    ASSUME Typed, Typed', OwnEpochs, [Next]_vars
    PROVE  OwnEpochs'
<1>0. /\ todo \in [Evaluators -> Seq(1 .. Epochs)] /\ want \in [Evaluators -> Seq(Models)]
      /\ mode \in [Evaluators -> {"screen_epoch", "screen", "heldout"}]
  BY DEF Typed, EvaluatorTyped
<1> SUFFICES ASSUME NEW v \in Evaluators
             PROVE  /\ \A i, j \in 1 .. Len(todo'[v]) : todo'[v][i] = todo'[v][j] => i = j
                    /\ Live(v)' /\ mode'[v] # "heldout" =>
                          \A i \in 1 .. Len(want'[v]) : i <= Len(todo'[v]) /\ want'[v][i][1] = todo'[v][i]
  BY DEF OwnEpochs
<1>1. \A i, j \in 1 .. Len(todo'[v]) : todo'[v][i] = todo'[v][j] => i = j
  <2>1. CASE todo'[v] = todo[v]
    BY <2>1 DEF OwnEpochs
  <2>2. CASE StartHeldout(v)
    BY <2>1, <2>2 DEF StartHeldout
  <2>3. CASE StartScreening(v)
    <3>1. CASE todo' = [todo EXCEPT ![v] = [e \in 1 .. Epochs |-> e]]
      <4> DEFINE all == [e \in 1 .. Epochs |-> e]
      <4>1. Len(all) = Epochs /\ \A e \in 1 .. Epochs : all[e] = e
        BY SizeAssumption
      <4>2. todo' = [todo EXCEPT ![v] = all]
        BY <3>1
      <4> HIDE DEF all
      <4>3. todo'[v] = all
        BY <1>0, <4>2
      <4>4. QED
        BY <4>1, <4>3
    <3>2. ASSUME NEW e \in 1 .. Epochs, todo' = [todo EXCEPT ![v] = <<e>>]
          PROVE  \A i, j \in 1 .. Len(todo'[v]) : todo'[v][i] = todo'[v][j] => i = j
      <4>1. todo'[v] = <<e>>
        BY <1>0, <3>2
      <4>2. QED
        BY <4>1
    <3>3. QED
      BY <2>3, <3>1, <3>2 DEF StartScreening
  <2>4. QED
    BY <2>1, <2>2, <2>3, TodoMoves
<1>2. ASSUME Live(v)', mode'[v] # "heldout", NEW i \in 1 .. Len(want'[v])
      PROVE  i <= Len(todo'[v]) /\ want'[v][i][1] = todo'[v][i]
  <2>1. CASE StartScreening(v)
    <3>1. want' = want /\ pc[v] = "idle"
      BY <2>1 DEF StartScreening
    <3>2. want[v] = <<>>
      BY <3>1 DEF Typed, StageTyped
    <3>3. QED
      BY <3>1, <3>2
  <2>2. CASE StartHeldout(v)
    BY <1>0, <1>2, <2>2 DEF StartHeldout
  <2>3. CASE ~StartScreening(v) /\ ~StartHeldout(v)
    <3>1. todo'[v] = todo[v] /\ mode'[v] = mode[v] /\ Live(v)
      BY <1>2, <2>3, TodoMoves, LiveBefore
    <3>2. \A j \in 1 .. Len(want[v]) : j <= Len(todo[v]) /\ want[v][j][1] = todo[v][j]
      BY <1>2, <3>1 DEF OwnEpochs
    <3>3. CASE want'[v] = want[v]
      BY <3>1, <3>2, <3>3
    <3>4. CASE Resolve(v) /\ want'[v] # want[v]
      <4> DEFINE k == Len(want[v]) + 1
                 e == todo[v][k]
      <4>1. want' = [want EXCEPT ![v] = Append(@, OnDisk(e))] /\ pc[v] = "resolve"
        BY <3>4 DEF Resolve
      <4>2. Len(want[v]) < Len(todo[v])
        BY <4>1 DEF Typed, StageTyped
      <4>3. want[v] \in Seq(Models) /\ todo[v] \in Seq(1 .. Epochs)
        BY <1>0
      <4>4. Len(want[v]) \in Nat /\ Len(todo[v]) \in Nat /\ k \in 1 .. Len(todo[v])
        <5>1. \A q \in Seq(Models) : Len(q) \in Nat
          OBVIOUS
        <5>2. \A q \in Seq(1 .. Epochs) : Len(q) \in Nat
          OBVIOUS
        <5>3. QED
          BY <4>2, <4>3, <5>1, <5>2
      <4>5. e \in 1 .. Epochs
        BY <4>3, <4>4, ElementIn
      <4>6. OnDisk(e)[1] = e
        BY <4>5, OnDiskFacts, ModelFacts DEF Typed
      <4> DEFINE m == OnDisk(e)
      <4>7. m[1] = todo[v][k]
        BY <4>6
      <4>8. want' = [want EXCEPT ![v] = Append(@, m)]
        BY <4>1
      <4> HIDE DEF e, m
      <4>9. want'[v] = Append(want[v], m)
        BY <1>0, <4>8
      <4>10. CASE i \in 1 .. Len(want[v])
        BY <3>1, <3>2, <4>3, <4>9, <4>10
      <4>11. CASE i = k
        BY <3>1, <4>3, <4>4, <4>7, <4>9, <4>11
      <4>12. QED
        BY <4>3, <4>9, <4>10, <4>11
    <3>5. QED
      BY <2>3, <3>3, <3>4, TodoMoves
  <2>4. QED
    BY <2>1, <2>2, <2>3
<1>3. QED
  BY <1>1, <1>2

(* So no two candidates of an evaluator are of one epoch.                  *)
LEMMA EpochsDiffer ==
    ASSUME Typed, OwnEpochs, NEW v \in Evaluators, Screening(v),
           NEW i \in 1 .. Len(want[v]), NEW j \in 1 .. Len(want[v]), want[v][i][1] = want[v][j][1]
    PROVE  i = j
<1>1. todo[v] \in Seq(1 .. Epochs)
  BY DEF Typed, EvaluatorTyped
<1>2. i \in 1 .. Len(todo[v]) /\ j \in 1 .. Len(todo[v]) /\ todo[v][i] = todo[v][j]
  BY <1>1 DEF OwnEpochs, Screening
<1>3. QED
  BY <1>2 DEF OwnEpochs

-----------------------------------------------------------------------------
(* Evidence: nobody runs again what is settled.                            *)

(* The slots and candidates of a screening, released policy first.         *)
LEMMA ScreenSlots ==
    ASSUME Typed, NEW v \in Evaluators, mode[v] # "heldout", NEW u
    PROVE  /\ Slot(v, u, 0) = <<"screen", u, 0>>
           /\ \A i \in 1 .. Len(want[v]) :
                 /\ Slot(v, u, i) = <<"screen", u, want[v][i][1]>>
                 /\ Want(v, i) = want[v][i] /\ want[v][i] \in Models /\ want[v][i][1] \in 1 .. Epochs
<1>1. Want(v, 0) = ReleasedModel /\ ReleasedModel[1] = 0
  BY ModelFacts DEF Want
<1>2. \A i \in 1 .. Len(want[v]) : want[v][i] \in Models /\ want[v][i][1] \in 1 .. Epochs
  BY WantFacts DEF Typed
<1>3. \A i \in 1 .. Len(want[v]) : Want(v, i) = want[v][i]
  BY DEF Want
<1>4. QED
  BY <1>1, <1>2, <1>3 DEF Slot

(* A screening starts a child only for a slot that is not complete for the *)
(* model it wants.                                                         *)
LEMMA StartFacts ==
    ASSUME Typed, NEW w \in Evaluators, NEW h \in 1 .. Gpus, NEW u, NEW e,
           Starts(w, h, <<"screen", u, e>>)
    PROVE  /\ Screening(w) /\ AtWork(w, h) /\ thread[w][h].step = "check" /\ thread[w][h].unit = u
           /\ ~Complete(<<"screen", u, e>>, Wanted(w, h))
           /\ \/ e = 0 /\ Wanted(w, h) = ReleasedModel
              \/ /\ e \in 1 .. Epochs /\ thread[w][h].at \in 1 .. Len(want[w])
                 /\ Wanted(w, h) = want[w][thread[w][h].at] /\ want[w][thread[w][h].at][1] = e
                 /\ want[w][thread[w][h].at] \in Models
<1>1. /\ Live(w) /\ AtWork(w, h) /\ thread[w][h].step = "check"
      /\ Here(w, h) = <<"screen", u, e>> /\ ~Complete(<<"screen", u, e>>, Wanted(w, h))
  BY DEF Starts, Check, Live, AtWork
<1>2. mode[w] # "heldout"
  BY <1>1 DEF Here, Slot
<1>3. thread[w][h].at \in 0 .. Len(want[w])
  BY <1>1, QueueFacts
<1>4. CASE thread[w][h].at = 0
  <2>1. Here(w, h) = <<"screen", thread[w][h].unit, 0>>
    BY <1>2, <1>4, ScreenSlots DEF Here
  <2>2. QED
    BY <1>1, <1>2, <1>4, <2>1 DEF Screening, Wanted, Want
<1>5. CASE thread[w][h].at # 0
  <2>1. thread[w][h].at \in 1 .. Len(want[w])
    BY <1>3, <1>5
  <2>2. /\ Here(w, h) = <<"screen", thread[w][h].unit, want[w][thread[w][h].at][1]>>
        /\ Wanted(w, h) = want[w][thread[w][h].at] /\ want[w][thread[w][h].at] \in Models
        /\ want[w][thread[w][h].at][1] \in 1 .. Epochs
    BY <1>2, <2>1, ScreenSlots DEF Here, Wanted
  <2>3. QED
    BY <1>1, <1>2, <2>1, <2>2 DEF Screening
<1>6. QED
  BY <1>4, <1>5

(* The released policy is one, whoever wants it.                           *)
LEMMA ReleasedStays ==
    ASSUME Typed, [Next]_vars, NEW u \in 1 .. Units, Settled(<<"screen", u, 0>>, ReleasedModel)
    PROVE  /\ Settled(<<"screen", u, 0>>, ReleasedModel)'
           /\ episode'[<<"screen", u, 0>>] = episode[<<"screen", u, 0>>]
<1>1. ASSUME NEW w \in Evaluators, NEW h \in 1 .. Gpus, Starts(w, h, <<"screen", u, 0>>)
      PROVE  FALSE
  BY <1>1, StartFacts DEF Settled
<1>2. <<"screen", u, 0>> \in Slots /\ ReleasedModel \in Models
  BY SlotIntro, ModelFacts, SizeAssumption DEF Conditions
<1>3. QED
  BY <1>1, <1>2, SettledKept

(* A candidate's slot stays settled while whoever screens its epoch wants  *)
(* the same content.                                                       *)
LEMMA AdaptedStays ==
    ASSUME Typed, [Next]_vars, NEW u \in 1 .. Units, NEW m \in Models, m[1] \in 1 .. Epochs,
           Settled(<<"screen", u, m[1]>>, m),
           \A w \in Evaluators : Screening(w) =>
              \A i \in 1 .. Len(want[w]) : want[w][i][1] = m[1] => want[w][i] = m
    PROVE  /\ Settled(<<"screen", u, m[1]>>, m)'
           /\ episode'[<<"screen", u, m[1]>>] = episode[<<"screen", u, m[1]>>]
<1>1. ASSUME NEW w \in Evaluators, NEW h \in 1 .. Gpus, Starts(w, h, <<"screen", u, m[1]>>)
      PROVE  FALSE
  <2>1. /\ Screening(w) /\ ~Complete(<<"screen", u, m[1]>>, Wanted(w, h))
        /\ thread[w][h].at \in 1 .. Len(want[w]) /\ Wanted(w, h) = want[w][thread[w][h].at]
        /\ want[w][thread[w][h].at][1] = m[1]
    BY <1>1, StartFacts
  <2>2. QED
    BY <2>1 DEF Settled
<1>2. <<"screen", u, m[1]>> \in Slots
  BY SlotIntro, ModelFacts
<1>3. QED
  BY <1>1, <1>2, SettledKept

(* What a queue takes is settled: no other queue has a child there.        *)
LEMMA TakenSettled ==
    ASSUME Typed, OneLive, Alone, OwnUnits, NEW v \in Evaluators, NEW g \in 1 .. Gpus,
           Live(v), AtWork(v, g), thread[v][g].step # "wait" \/ ~Alive(v, Here(v, g)),
           Complete(Here(v, g), Wanted(v, g))
    PROVE  Settled(Here(v, g), Wanted(v, g))
<1>0. Here(v, g) \in Slots /\ thread[v][g].unit \in 1 .. Units
  BY QueueFacts
<1>1. ASSUME NEW w \in Evaluators, Alive(w, Here(v, g)) PROVE FALSE
  <2>1. w = v
    BY <1>0, <1>1 DEF Alone
  <2>2. PICK h \in 1 .. Gpus : thread[v][h].step = "wait" /\ Here(v, h) = Here(v, g)
    BY <1>0, <1>1, <2>1 DEF Alone
  <2>3. thread[v][h].unit = thread[v][g].unit
    BY <2>2 DEF Here, Slot
  <2>4. h = g
    BY <2>2, <2>3, UnitsDiffer DEF AtWork
  <2>5. QED
    BY <1>1, <2>1, <2>2, <2>4
<1>2. QED
  BY <1>1 DEF Settled

(* Who screens after a step screened before it, or has just started.       *)
LEMMA ScreeningBefore ==
    ASSUME Typed, [Next]_vars, NEW v \in Evaluators, Screening(v)'
    PROVE  \/ Screening(v)
           \/ /\ StartScreening(v) /\ want' = want /\ want[v] = <<>> /\ rows' = rows
              /\ \A g \in 1 .. Gpus : ~AtWork(v, g)'
<1>1. CASE StartScreening(v)
  <2>1. pc[v] = "idle" /\ want' = want /\ thread' = thread /\ rows' = rows
    BY <1>1 DEF StartScreening
  <2>2. ~Fixed(v) /\ want[v] = <<>>
    BY <2>1 DEF Fixed, Typed, StageTyped
  <2>3. \A g \in 1 .. Gpus : ~AtWork(v, g)
    BY <2>2, QueueFacts
  <2>4. QED
    BY <1>1, <2>1, <2>2, <2>3 DEF AtWork
<1>2. CASE StartHeldout(v)
  BY <1>2 DEF StartHeldout, Screening, Typed, EvaluatorTyped
<1>3. CASE ~StartScreening(v) /\ ~StartHeldout(v)
  BY <1>3, TodoMoves, LiveBefore DEF Screening
<1>4. QED
  BY <1>1, <1>2, <1>3

(* What a queue is past stays settled: no other queue starts a child in a  *)
(* slot of its unit.                                                       *)
LEMMA QueuesSettledKept ==
    ASSUME Typed, Typed', OneLive, Alone, OwnUnits, OwnEpochs, QueuesSettled, [Next]_vars
    PROVE  QueuesSettled'
<1> SUFFICES ASSUME NEW v \in Evaluators, NEW g \in 1 .. Gpus, Screening(v)', AtWork(v, g)'
             PROVE  /\ thread'[v][g].at > 0 => Settled(<<"screen", thread[v][g].unit, 0>>, ReleasedModel)'
                    /\ thread'[v][g].step = "pair" =>
                          Settled(<<"screen", thread[v][g].unit, Wanted(v, g)[1]>>, Wanted(v, g))'
  BY DEF QueuesSettled
<1> DEFINE t == thread[v][g]
           n == thread'[v][g]
<1>1. Screening(v) /\ Live(v) /\ mode[v] # "heldout"
  BY ScreeningBefore DEF Screening
<1>2. n.unit \in 1 .. Units
  BY DEF Typed, QueueTyped
<1>3. /\ \A w \in Evaluators : Screening(w) => w = v
      /\ \A i, j \in 1 .. Len(want[v]) : want[v][i][1] = want[v][j][1] => i = j
  BY <1>1, EpochsDiffer DEF OneLive, Screening
<1>4. ASSUME AtWork(v, g), t.at > 0 PROVE Settled(<<"screen", t.unit, 0>>, ReleasedModel) /\ t.unit \in 1 .. Units
  BY <1>1, <1>4, QueueFacts DEF QueuesSettled
<1>5. ASSUME AtWork(v, g), t.at > 0, Settled(Here(v, g), Wanted(v, g)),
             n.unit = t.unit, n.at = t.at
      PROVE  Settled(<<"screen", thread[v][g].unit, Wanted(v, g)[1]>>, Wanted(v, g))'
  <2>1. t.at \in 1 .. Len(want[v]) /\ Fixed(v)
    BY <1>5, QueueFacts
  <2>2. PICK m \in Models : m = want[v][t.at] /\ m[1] \in 1 .. Epochs
    BY <1>1, <2>1, ScreenSlots
  <2>3. Wanted(v, g) = m /\ Here(v, g) = <<"screen", t.unit, m[1]>>
    BY <1>1, <2>1, <2>2, ScreenSlots DEF Here, Wanted
  <2>4. \A w \in Evaluators : Screening(w) =>
           \A i \in 1 .. Len(want[w]) : want[w][i][1] = m[1] => want[w][i] = m
    BY <1>3, <2>1, <2>2
  <2>5. PICK u \in 1 .. Units : u = t.unit
    BY <1>2, <1>5
  <2>6. Settled(<<"screen", u, m[1]>>, m)'
    BY <1>5, <2>2, <2>3, <2>4, <2>5, AdaptedStays
  <2>7. Wanted(v, g)' = m
    <3>1. want'[v] = want[v]
      BY <2>1, FixedKept
    <3>2. QED
      BY <1>5, <2>3, <3>1 DEF Wanted, Want
  <2>8. n.unit = u
    BY <1>5, <2>5
  <2>9. QED
    BY <2>6, <2>7, <2>8 DEF Settled, Complete, Alive
<1>6. ASSUME NEW u \in 1 .. Units, Settled(<<"screen", u, 0>>, ReleasedModel), n.unit = u
      PROVE  Settled(<<"screen", thread[v][g].unit, 0>>, ReleasedModel)'
  <2>1. Settled(<<"screen", u, 0>>, ReleasedModel)'
    BY <1>6, ReleasedStays
  <2>2. QED
    BY <1>6, <2>1 DEF Settled, Complete, Alive
<1>7. CASE n = t
  <2>1. AtWork(v, g)
    BY <1>7 DEF AtWork
  <2>2. t.step = "pair" => t.at > 0 /\ Settled(Here(v, g), Wanted(v, g))
    <3>1. ASSUME t.step = "pair" PROVE t.at > 0 /\ Settled(Here(v, g), Wanted(v, g))
      <4>1. t.at > 0 /\ t.at \in 0 .. Len(want[v])
        BY <2>1, <3>1 DEF Typed, QueueTyped
      <4>2. t.at \in 1 .. Len(want[v])
        BY <4>1
      <4>3. Here(v, g) = <<"screen", t.unit, Wanted(v, g)[1]>>
        BY <1>1, <4>2, ScreenSlots DEF Here, Wanted
      <4>4. QED
        BY <1>1, <2>1, <3>1, <4>1, <4>3 DEF QueuesSettled
    <3>2. QED
      BY <3>1
  <2>3. QED
    BY <1>4, <1>5, <1>6, <1>7, <2>1, <2>2
<1>8. CASE ~AtWork(v, g) /\ n.unit = g /\ n.at = 0 /\ n.step # "pair"
  BY <1>8
<1>9. CASE AtWork(v, g) /\ n.step = "wait" /\ n.unit = t.unit /\ n.at = t.at
  BY <1>4, <1>6, <1>9
<1>10. CASE /\ AtWork(v, g) /\ Complete(Here(v, g), Wanted(v, g))
            /\ t.step = "wait" => ~Alive(v, Here(v, g))
            /\ n.unit = t.unit
            /\ \/ t.at = 0 /\ n.at = 1 /\ n.step = "check"
               \/ t.at > 0 /\ n.at = t.at /\ n.step = "pair"
  <2>1. Settled(Here(v, g), Wanted(v, g))
    BY <1>1, <1>10, TakenSettled
  <2>2. CASE t.at = 0 /\ n.at = 1 /\ n.step = "check"
    <3>1. Here(v, g) = <<"screen", t.unit, 0>> /\ Wanted(v, g) = ReleasedModel
      BY <1>1, <2>2, ScreenSlots DEF Here, Wanted, Want
    <3>2. QED
      BY <1>2, <1>6, <1>10, <2>1, <2>2, <3>1
  <2>3. CASE t.at > 0 /\ n.at = t.at /\ n.step = "pair"
    BY <1>2, <1>4, <1>5, <1>6, <1>10, <2>1, <2>3
  <2>4. QED
    BY <1>10, <2>2, <2>3
<1>11. CASE /\ BuildPair(v, g) /\ n.step = "check"
            /\ \/ n.unit = t.unit /\ n.at = t.at + 1
               \/ n.unit = t.unit + Gpus /\ n.at = 0
  <2>1. AtWork(v, g) /\ t.step = "pair"
    BY <1>11 DEF BuildPair, AtWork
  <2>2. t.at > 0
    BY <2>1 DEF Typed, QueueTyped
  <2>3. QED
    BY <1>4, <1>6, <1>11, <2>1, <2>2
<1>12. QED
  BY <1>7, <1>8, <1>9, <1>10, <1>11, QueueBefore

(* A record is its fields.                                                 *)
LEMMA EpisodeIs ==
    ASSUME NEW x \in Episode, NEW by, NEW ran, NEW hash, x.by = by, x.ran = ran, x.hash = hash
    PROVE  x = [by |-> by, ran |-> ran, hash |-> hash]
BY DEF Episode

(* A released episode that is settled is reused by whoever screens.        *)
LEMMA ReleasedKeptOn ==
    ASSUME Typed, [Next]_vars, NEW p \in Pair, ReleasedKept(p)
    PROVE  ReleasedKept(p)'
<1>1. p.unit \in 1 .. Units
  BY DEF Pair
<1>2. /\ Settled(<<"screen", p.unit, 0>>, ReleasedModel)'
      /\ episode'[<<"screen", p.unit, 0>>] = episode[<<"screen", p.unit, 0>>]
  BY <1>1, ReleasedStays DEF ReleasedKept
<1>3. QED
  BY <1>2 DEF ReleasedKept

(* A settled episode of a candidate is reused by whoever wants the same    *)
(* content.                                                                *)
LEMMA AdaptedKeptOn ==
    ASSUME Typed, [Next]_vars, NEW p \in Pair, AdaptedKept(p), p.hash[1] \in 1 .. Epochs,
           \A w \in Evaluators : Screening(w) =>
              \A i \in 1 .. Len(want[w]) : want[w][i][1] = p.hash[1] => want[w][i] = p.hash
    PROVE  AdaptedKept(p)'
<1>1. p.unit \in 1 .. Units /\ p.hash \in Models
  BY DEF Pair
<1>2. /\ Settled(<<"screen", p.unit, p.hash[1]>>, p.hash)'
      /\ episode'[<<"screen", p.unit, p.hash[1]>>] = episode[<<"screen", p.unit, p.hash[1]>>]
  BY <1>1, AdaptedStays DEF AdaptedKept
<1>3. QED
  BY <1>2 DEF AdaptedKept

(* The pair a queue builds is of the two slots it has settled.             *)
LEMMA BuiltSettled ==
    ASSUME Typed, Typed', EpisodesBetween, QueuesSettled, [Next]_vars,
           NEW v \in Evaluators, NEW g \in 1 .. Gpus, BuildPair(v, g), Screening(v),
           NEW p \in Pair,
           p = PairOf(thread[v][g].unit, episode[Here(v, g)],
                      episode[Slot(v, thread[v][g].unit, 0)], thread[v][g].progress),
           episode[Here(v, g)] # Truncated, episode[Slot(v, thread[v][g].unit, 0)] # Truncated,
           episode[Here(v, g)].hash = Wanted(v, g)
    PROVE  ReleasedKept(p)' /\ AdaptedKept(p)'
<1> DEFINE t == thread[v][g]
           a == episode[Here(v, g)]
           r == episode[Slot(v, t.unit, 0)]
<1>1. t.step = "pair" /\ AtWork(v, g) /\ child' = child /\ episode' = episode /\ receipt' = receipt
  BY DEF BuildPair, AtWork, files
<1>2. t.at > 0 /\ t.at \in 1 .. Len(want[v])
  <2>1. t.at > 0 /\ t.at \in 0 .. Len(want[v])
    BY <1>1 DEF Typed, QueueTyped
  <2>2. QED
    BY <2>1
<1>3. a \in Episode /\ r \in Episode /\ t.unit \in 1 .. Units
  BY <1>1, PairFacts, QueueFacts
<1>4. /\ p.unit = t.unit /\ p.ran = a.ran /\ p.hash = a.hash /\ p.by = a.by /\ p.releasedBy = r.by
  BY DEF PairOf
<1>5. mode[v] # "heldout"
  BY DEF Screening
<1>6. /\ Slot(v, t.unit, 0) = <<"screen", t.unit, 0>>
      /\ Here(v, g) = <<"screen", t.unit, Wanted(v, g)[1]>>
  BY <1>2, <1>5, ScreenSlots DEF Here, Wanted
<1>7. /\ Settled(<<"screen", t.unit, 0>>, ReleasedModel)
      /\ Settled(<<"screen", t.unit, Wanted(v, g)[1]>>, Wanted(v, g))
  BY <1>1, <1>2 DEF QueuesSettled
<1>8. r.ran = ReleasedModel /\ r.hash = ReleasedModel
  <2>1. r.hash = ReleasedModel
    BY <1>6, <1>7 DEF Settled, Complete
  <2>2. Slot(v, t.unit, 0) \in Slots
    BY <1>1, QueueFacts
  <2>3. Between(r.by, r.ran, r.hash)
    BY <1>3, <2>2 DEF EpisodesBetween
  <2>4. r.ran \in Models
    BY <1>3 DEF Episode
  <2>5. r.ran[1] = 0 /\ r.ran[2] <= 0 /\ r.ran[2] \in Nat
    BY <2>1, <2>3, <2>4, ModelFacts, SizeAssumption DEF Between
  <2>6. r.ran = <<0, 0>>
    BY <2>4, <2>5, ModelFacts
  <2>7. QED
    BY <2>1, <2>6 DEF ReleasedModel
<1>9. ReleasedKept(p)
  <2>1. r = [by |-> p.releasedBy, ran |-> ReleasedModel, hash |-> ReleasedModel]
    BY <1>3, <1>4, <1>8, EpisodeIs
  <2>2. QED
    BY <1>4, <1>6, <1>7, <2>1 DEF ReleasedKept
<1>10. AdaptedKept(p)
  <2>1. a = [by |-> p.by, ran |-> p.ran, hash |-> p.hash]
    BY <1>3, <1>4, EpisodeIs
  <2>2. p.hash = Wanted(v, g)
    BY <1>4
  <2>3. QED
    BY <1>4, <1>6, <1>7, <2>1, <2>2 DEF AdaptedKept
<1>11. QED
  BY <1>1, <1>9, <1>10 DEF ReleasedKept, AdaptedKept, Settled, Complete, Alive

(* The pairs of a live screening are settled when built and stay so.       *)
LEMMA RowsSettledKept ==
    ASSUME Typed, Typed', EpisodesBetween, PairsOfWanted, OneLive, OwnEpochs, QueuesSettled,
           RowsSettled, [Next]_vars
    PROVE  RowsSettled'
<1>0. rows \in [Evaluators -> SUBSET Pair]
  BY DEF Typed, EvaluatorTyped
<1> SUFFICES ASSUME NEW v \in Evaluators, Screening(v)', NEW p \in rows'[v]
             PROVE  ReleasedKept(p)' /\ AdaptedKept(p)'
  BY DEF RowsSettled
<1>1. CASE ~Screening(v)
  <2>1. want[v] = <<>> /\ p \in rows[v]
    BY <1>1, ScreeningBefore
  <2>2. PICK i \in 1 .. Len(want[v]) : p.hash = want[v][i]
    BY <2>1 DEF PairsOfWanted
  <2>3. QED
    BY <2>1, <2>2
<1>2. CASE Screening(v) /\ p \in rows[v]
  <2>1. PICK i \in 1 .. Len(want[v]) : p.hash = want[v][i]
    BY <1>2 DEF PairsOfWanted
  <2>2. p \in Pair /\ p.hash[1] \in 1 .. Epochs
    BY <1>0, <1>2, <2>1, WantFacts DEF Typed
  <2>3. \A w \in Evaluators : Screening(w) =>
           \A j \in 1 .. Len(want[w]) : want[w][j][1] = p.hash[1] => want[w][j] = p.hash
    <3> SUFFICES ASSUME NEW w \in Evaluators, Screening(w), NEW j \in 1 .. Len(want[w]),
                        want[w][j][1] = p.hash[1]
                 PROVE  want[w][j] = p.hash
      OBVIOUS
    <3>1. w = v
      BY <1>2 DEF OneLive, Screening
    <3>2. i = j
      BY <1>2, <2>1, <3>1, EpochsDiffer
    <3>3. QED
      BY <2>1, <3>1, <3>2
  <2>4. ReleasedKept(p) /\ AdaptedKept(p)
    BY <1>2 DEF RowsSettled
  <2>5. QED
    BY <2>2, <2>3, <2>4, ReleasedKeptOn, AdaptedKeptOn
<1>3. CASE Screening(v) /\ p \notin rows[v]
  <2>1. PICK w \in Evaluators, g \in 1 .. Gpus : BuildPair(w, g)
    BY <1>3, WhoChanges
  <2> DEFINE a == episode[Here(w, g)]
             r == episode[Slot(w, thread[w][g].unit, 0)]
             pair == PairOf(thread[w][g].unit, a, r, thread[w][g].progress)
  <2>2. /\ rows' = [rows EXCEPT ![w] = @ \cup {pair}] /\ thread[w][g].step = "pair"
        /\ a # Truncated /\ r # Truncated /\ a.hash = Wanted(w, g)
    BY <1>3, <2>1 DEF BuildPair
  <2>3. pair \in Pair
    BY <2>2, PairFacts
  <2>4. w = v /\ p = pair
    <3> HIDE DEF pair
    <3>1. QED
      BY <1>0, <1>3, <2>2
  <2>5. QED
    BY <1>3, <2>1, <2>2, <2>3, <2>4, BuiltSettled
<1>4. QED
  BY <1>1, <1>2, <1>3

(* Who screens an epoch has seen no older content than its evidence is of. *)
LEMMA WantsNoOlder ==
    ASSUME Typed, Typed', EpisodesBetween, [Next]_vars, NEW p \in Pair,
           p.hash[1] \in 1 .. Epochs, PairSettled(p)
    PROVE  \A v \in Evaluators : Screening(v)' =>
              \A i \in 1 .. Len(want'[v]) : want'[v][i][1] = p.hash[1] => p.hash[2] <= want'[v][i][2]
<1>0. want \in [Evaluators -> Seq(Models)]
  BY DEF Typed, EvaluatorTyped
<1> SUFFICES ASSUME NEW v \in Evaluators, Screening(v)', NEW i \in 1 .. Len(want'[v]),
                    want'[v][i][1] = p.hash[1]
             PROVE  p.hash[2] <= want'[v][i][2]
  OBVIOUS
<1>1. CASE ~Screening(v)
  BY <1>1, ScreeningBefore
<1>2. CASE Screening(v) /\ want'[v] = want[v]
  BY <1>2 DEF PairSettled
<1>3. CASE Screening(v) /\ Resolve(v) /\ want'[v] # want[v]
  <2> DEFINE e == todo[v][Len(want[v]) + 1]
             m == OnDisk(e)
  <2>1. want' = [want EXCEPT ![v] = Append(@, m)]
    BY <1>3 DEF Resolve
  <2>2. m[1] = p.hash[1] => p.hash[2] <= m[2]
    <3>1. CASE e = 0
      BY <3>1, ModelFacts, SizeAssumption DEF OnDisk
    <3>2. CASE e # 0
      BY <3>2, SizeAssumption DEF OnDisk, PairSettled, Seen
    <3>3. QED
      BY <3>1, <3>2
  <2> HIDE DEF e, m
  <2>3. want'[v] = Append(want[v], m) /\ want[v] \in Seq(Models)
    BY <1>0, <2>1
  <2>4. CASE i \in 1 .. Len(want[v])
    <3>1. want'[v][i] = want[v][i]
      BY <2>3, <2>4
    <3>2. QED
      BY <1>3, <2>4, <3>1 DEF PairSettled
  <2>5. CASE i = Len(want[v]) + 1
    <3>1. want'[v][i] = m
      BY <2>3, <2>5
    <3>2. QED
      BY <2>2, <3>1
  <2>6. i \in 1 .. Len(want[v]) \/ i = Len(want[v]) + 1
    BY <2>3
  <2>7. QED
    BY <2>4, <2>5, <2>6
<1>4. StartHeldout(v) => ~Screening(v)
  BY DEF StartHeldout, Screening, Live
<1>5. QED
  BY <1>1, <1>2, <1>3, <1>4, TodoMoves

(* A committed pair of current content stays settled: who screens later    *)
(* has resolved that content, or newer, which then is current.             *)
LEMMA PairSettledKept ==
    ASSUME Typed, Typed', EpisodesBetween, [Next]_vars, NEW p \in Pair, PairSettled(p)
    PROVE  PairSettled(p)'
<1>1. p.hash[1] \in 1 .. Epochs /\ p.hash \in Models /\ Seen(p.hash) /\ ReleasedKept(p)
  BY DEF PairSettled, Pair
<1>2. PICK c \in Nat : c = content[p.hash[1]]
  BY <1>1, ContentGrows
<1>3. PICK d \in Nat : d = content'[p.hash[1]] /\ c <= d
  BY <1>1, <1>2, ContentGrows
<1>4. p.hash[2] \in Nat /\ p.hash[2] <= c
  BY <1>1, <1>2, ModelFacts, SizeAssumption DEF Seen
<1>5. Seen(p.hash)'
  BY <1>1, SeenKept
<1>6. ASSUME p.hash = OnDisk(p.hash[1])' PROVE AdaptedKept(p)'
  <2>1. p.hash[2] = d
    BY <1>1, <1>3, <1>6 DEF OnDisk
  <2>2. c = p.hash[2]
    BY <1>3, <1>4, <2>1
  <2>3. p.hash = OnDisk(p.hash[1])
    BY <1>1, <1>2, <2>2, ModelFacts, SizeAssumption DEF OnDisk
  <2>4. AdaptedKept(p)
    BY <2>3 DEF PairSettled
  <2>5. \A w \in Evaluators : Screening(w) =>
           \A i \in 1 .. Len(want[w]) : want[w][i][1] = p.hash[1] => want[w][i] = p.hash
    <3> SUFFICES ASSUME NEW w \in Evaluators, Screening(w), NEW i \in 1 .. Len(want[w]),
                        want[w][i][1] = p.hash[1]
                 PROVE  want[w][i] = p.hash
      OBVIOUS
    <3>1. want[w][i] \in Models /\ Seen(want[w][i])
      BY WantFacts DEF Typed, EpisodesBetween
    <3>2. p.hash[2] <= want[w][i][2] /\ want[w][i][2] <= c
      BY <1>1, <1>2, <3>1, SizeAssumption DEF PairSettled, Seen
    <3>3. want[w][i][2] \in Nat
      BY <3>1, ModelFacts, SizeAssumption
    <3>4. want[w][i][2] = p.hash[2]
      BY <1>4, <2>2, <3>2, <3>3
    <3>5. QED
      BY <1>1, <3>1, <3>4, ModelFacts
  <2>6. QED
    BY <1>1, <2>4, <2>5, AdaptedKeptOn
<1>7. ReleasedKept(p)'
  BY <1>1, ReleasedKeptOn
<1>8. \A v \in Evaluators : Screening(v)' =>
         \A i \in 1 .. Len(want'[v]) : want'[v][i][1] = p.hash[1] => p.hash[2] <= want'[v][i][2]
  BY <1>1, WantsNoOlder
<1>9. QED
  BY <1>1, <1>5, <1>6, <1>7, <1>8 DEF PairSettled

(* What an evaluator commits is settled, and nobody else screens.          *)
LEMMA NewSettled ==
    ASSUME Typed, Typed', EpisodesBetween, PairsOfWanted, OneLive, RowsSettled, [Next]_vars,
           NEW v \in Evaluators, Commit(v), mode[v] = "screen_epoch", NEW p \in rows[v]
    PROVE  PairSettled(p)'
<1>1. Screening(v) /\ p \in Pair
  BY DEF Commit, Screening, Live, Typed, EvaluatorTyped
<1>2. /\ UNCHANGED <<content, episode, receipt, child, mode, todo, want>>
      /\ pc' = [pc EXCEPT ![v] = "committed"]
  BY DEF Commit, Goto, local
<1>3. ReleasedKept(p) /\ AdaptedKept(p)
  BY <1>1 DEF RowsSettled
<1>4. ReleasedKept(p)' /\ AdaptedKept(p)'
  BY <1>2, <1>3 DEF ReleasedKept, AdaptedKept, Settled, Complete, Alive
<1>5. PICK i \in 1 .. Len(want[v]) : p.hash = want[v][i]
  BY DEF PairsOfWanted
<1>6. p.hash[1] \in 1 .. Epochs /\ Seen(p.hash)
  BY <1>5, WantFacts DEF Typed, EpisodesBetween
<1>7. Seen(p.hash)'
  BY <1>2, <1>6 DEF Seen
<1>8. \A w \in Evaluators : ~Screening(w)'
  <2> SUFFICES ASSUME NEW w \in Evaluators, Live(w)' PROVE FALSE
    BY DEF Screening
  <2>1. pc'[v] = "committed" /\ \A u \in Evaluators \ {v} : pc'[u] = pc[u]
    BY <1>2 DEF Typed, EvaluatorTyped
  <2>2. w # v /\ Live(w)
    BY <2>1 DEF Live
  <2>3. QED
    BY <1>1, <2>2 DEF OneLive, Screening
<1>9. QED
  BY <1>4, <1>6, <1>7, <1>8 DEF PairSettled

(* Receipts are committed of settled pairs, and those stay settled.        *)
LEMMA CommittedSettledKept ==
    ASSUME Typed, Typed', EpisodesBetween, PairsOfWanted, OneLive, RowsSettled, CommittedSettled,
           [Next]_vars
    PROVE  CommittedSettled'
<1>0. epochReceipt \in [1 .. Epochs -> {Absent} \cup SUBSET Pair]
  BY DEF Typed, FilesTyped
<1> SUFFICES ASSUME NEW e \in 1 .. Epochs, epochReceipt'[e] # Absent, NEW p \in epochReceipt'[e]
             PROVE  PairSettled(p)'
  BY DEF CommittedSettled
<1>1. CASE epochReceipt'[e] = epochReceipt[e]
  <2>1. p \in Pair /\ PairSettled(p)
    BY <1>0, <1>1 DEF CommittedSettled
  <2>2. QED
    BY <2>1, PairSettledKept
<1>2. CASE epochReceipt'[e] # epochReceipt[e]
  <2>1. PICK v \in Evaluators : Commit(v)
    BY <1>2, WhoChanges
  <2>2. mode[v] = "screen_epoch" /\ epochReceipt' = [epochReceipt EXCEPT ![want[v][1][1]] = rows[v]]
    BY <1>2, <2>1 DEF Commit
  <2>3. p \in rows[v]
    BY <1>0, <1>2, <2>2
  <2>4. QED
    BY <2>1, <2>2, <2>3, NewSettled
<1>3. QED
  BY <1>1, <1>2

(* What evaluators that run one after the other count is what was run, and *)
(* what they have counted stays: no later evaluation runs an episode again *)
(* that a receipt of current content is made of.                           *)
THEOREM EvidenceIsSound ==
    ASSUME ~Overlap, ~Orphans
    PROVE  Spec => []EvidenceSound
<1>1. Init => /\ PairsOfWanted /\ OneLive /\ Alone /\ OwnUnits /\ OwnEpochs
              /\ QueuesSettled /\ RowsSettled /\ CommittedSettled
  <2> SUFFICES ASSUME Init
               PROVE  /\ PairsOfWanted /\ OneLive /\ Alone /\ OwnUnits /\ OwnEpochs
                      /\ QueuesSettled /\ RowsSettled /\ CommittedSettled
    OBVIOUS
  <2>1. \A v \in Evaluators : ~Live(v) /\ rows[v] = {} /\ todo[v] = <<>>
    BY DEF Init, Live
  <2>2. \A v \in Evaluators, g \in 1 .. Gpus : ~AtWork(v, g)
    BY DEF Init, AtWork, IdleThread
  <2>3. \A e \in 1 .. Epochs : epochReceipt[e] = Absent
    BY DEF Init
  <2>4. QED
    BY <2>1, <2>2, <2>3 DEF PairsOfWanted, OneLive, Alone, OwnUnits, OwnEpochs,
       QueuesSettled, RowsSettled, CommittedSettled, Screening
<1>2. /\ PairsOfWanted /\ OneLive /\ Alone /\ OwnUnits /\ OwnEpochs
      /\ QueuesSettled /\ RowsSettled /\ CommittedSettled
      /\ Typed /\ EpisodesBetween /\ Typed' /\ [Next]_vars
      => (/\ PairsOfWanted /\ OneLive /\ Alone /\ OwnUnits /\ OwnEpochs
          /\ QueuesSettled /\ RowsSettled /\ CommittedSettled)'
  BY PairsOfWantedKept, OneLiveKept, AloneKept, OwnUnitsKept, OwnEpochsKept,
     QueuesSettledKept, RowsSettledKept, CommittedSettledKept
<1>3. Typed /\ EpisodesBetween /\ CommittedSettled => EvidenceKept
  <2> SUFFICES ASSUME Typed, EpisodesBetween, CommittedSettled, NEW e \in DOMAIN epochReceipt,
                      epochReceipt[e] # Absent, NEW p \in epochReceipt[e], p.hash = OnDisk(e)
               PROVE  /\ episode[<<"screen", p.unit, e>>] = [by |-> p.by, ran |-> p.ran, hash |-> p.hash]
                      /\ episode[<<"screen", p.unit, 0>>] =
                            [by |-> p.releasedBy, ran |-> ReleasedModel, hash |-> ReleasedModel]
    BY DEF EvidenceKept
  <2>1. e \in 1 .. Epochs
    BY DEF Typed, FilesTyped
  <2>2. p.hash[1] = e /\ PairSettled(p)
    BY <2>1, SizeAssumption, ModelFacts, OnDiskFacts DEF CommittedSettled, Typed
  <2>3. QED
    BY <2>2 DEF PairSettled, ReleasedKept, AdaptedKept
<1>4. Spec => []Typed /\ []EpisodesBetween
  BY BetweenTheHashes, PTL
<1>5. AttestedPairsRan /\ EvidenceKept => EvidenceSound
  BY DEF EvidenceSound
<1>6. QED
  BY <1>1, <1>2, <1>3, <1>4, <1>5, AttestedRan, PTL DEF Spec

-----------------------------------------------------------------------------
(* Each unit once: what a queue has behind it.                             *)

InQueue(g, u) == \E k \in Nat : u = g + k * Gpus
RowsOf(v, u, m) == {p \in rows[v] : p.unit = u /\ p.hash = m}

(* A queue has built the pair of a unit and a candidate.                   *)
Behind(v, g, u, i) ==
    \/ thread[v][g].step = "done"
    \/ u < thread[v][g].unit
    \/ u = thread[v][g].unit /\ i < thread[v][g].at

(* Candidates behind a queue have one pair, those before it none.          *)
QueueCounted(v, g) ==
    thread[v][g].step # "raised" =>
        \A u \in 1 .. Units, i \in 1 .. Len(want[v]) : InQueue(g, u) =>
            IF Behind(v, g, u, i) THEN \E p : RowsOf(v, u, want[v][i]) = {p}
                                  ELSE RowsOf(v, u, want[v][i]) = {}
AllCounted(v) ==
    \A u \in 1 .. Units, i \in 1 .. Len(want[v]) : \E p : RowsOf(v, u, want[v][i]) = {p}

(* The candidates are those of the mode.                                   *)
CandidatesOfMode(v) ==
    /\ Live(v) /\ mode[v] = "screen" =>
          Len(todo[v]) = Epochs /\ \A e \in 1 .. Epochs : todo[v][e] = e
    /\ Live(v) /\ mode[v] = "screen_epoch" => Len(todo[v]) = 1
    /\ Live(v) /\ mode[v] = "heldout" => pc[v] # "resolve" /\ Len(want[v]) = 1
    /\ pc[v] \in {"run", "rehash", "commit"} /\ mode[v] # "heldout" => Len(want[v]) = Len(todo[v])

EvaluatorCounted(v) ==
    /\ pc[v] \in {"idle", "resolve"} => rows[v] = {}
    /\ pc[v] = "run" => \A g \in 1 .. Gpus : QueueCounted(v, g)
    /\ pc[v] \in {"rehash", "commit"} => AllCounted(v)

OncePerUnit(pairs, e) ==
    \A u \in 1 .. Units : \E q : {p \in pairs : p.unit = u /\ p.hash[1] = e} = {q}
FilesCounted ==
    /\ \A e \in 1 .. Epochs : epochReceipt[e] # Absent => OncePerUnit(epochReceipt[e], e)
    /\ selection # Absent => \A e \in 1 .. Epochs : OncePerUnit(selection.rows, e)
    /\ heldout # Absent => OncePerUnit(heldout.rows, heldout.model[1])

UnitsCounted ==
    /\ \A v \in Evaluators : CandidatesOfMode(v) /\ EvaluatorCounted(v)
    /\ FilesCounted

(* Two units of one queue are at least a round of the GPUs apart.          *)
LEMMA RoundsApart ==
    ASSUME NEW g \in 1 .. Gpus, NEW u \in Nat, NEW w \in Nat, InQueue(g, u), InQueue(g, w),
           u < w + Gpus
    PROVE  u <= w
<1>1. PICK k \in Nat, l \in Nat : u = g + k * Gpus /\ w = g + l * Gpus
  BY DEF InQueue
<1>2. Gpus \in Nat \ {0}
  BY SizeAssumption
<1>3. ASSUME l < k PROVE FALSE
  <2>1. PICK d \in Nat : k = l + 1 + d
    <3>1. k - l - 1 \in Nat /\ k = l + 1 + (k - l - 1)
      BY <1>3
    <3>2. QED
      BY <3>1
  <2>2. k * Gpus = l * Gpus + Gpus + d * Gpus
    BY <1>2, <2>1
  <2>3. d * Gpus \in Nat /\ l * Gpus \in Nat /\ g \in Nat
    BY <1>2
  <2>4. QED
    BY <1>1, <1>2, <2>2, <2>3
<1>4. PICK d \in Nat : l = k + d
  <2>1. l - k \in Nat /\ l = k + (l - k)
    BY <1>3
  <2>2. QED
    BY <2>1
<1>5. l * Gpus = k * Gpus + d * Gpus
  BY <1>2, <1>4
<1>6. d * Gpus \in Nat /\ k * Gpus \in Nat /\ g \in Nat
  BY <1>2
<1>7. QED
  BY <1>1, <1>5, <1>6

(* No unit is in two queues.                                               *)
LEMMA OneQueue ==
    ASSUME NEW g \in 1 .. Gpus, NEW h \in 1 .. Gpus, NEW u, InQueue(g, u), InQueue(h, u)
    PROVE  g = h
<1>1. PICK k \in Nat, l \in Nat : g + k * Gpus = h + l * Gpus
  BY DEF InQueue
<1>2. QED
  BY <1>1, Residues, SizeAssumption

(* Every unit is in one.                                                   *)
LEMMA SomeQueue ==
    ASSUME NEW u \in Nat \ {0}
    PROVE  \E g \in 1 .. Gpus : InQueue(g, u)
<1>1. Gpus \in Nat \ {0} /\ u - 1 \in Nat
  BY SizeAssumption
<1> DEFINE k == (u - 1) \div Gpus
           r == (u - 1) % Gpus
<1>2. k \in Nat /\ r \in 0 .. Gpus - 1 /\ u - 1 = Gpus * k + r
  BY <1>1
<1> HIDE DEF k, r
<1>3. r + 1 \in 1 .. Gpus /\ u = (r + 1) + k * Gpus
  BY <1>1, <1>2
<1>4. QED
  BY <1>2, <1>3 DEF InQueue

(* An evaluator goes on by steps of its own.                               *)
LEMMA PcMoves ==
    ASSUME Typed, [Next]_vars, NEW v \in Evaluators, pc'[v] # pc[v]
    PROVE  \/ StartScreening(v) \/ StartHeldout(v) \/ Resolve(v) \/ Gather(v)
           \/ Rehash(v) \/ Commit(v) \/ Abort(v)
<1>0. pc \in [Evaluators -> {"idle", "resolve", "run", "rehash", "commit", "committed", "failed"}]
  BY DEF Typed, EvaluatorTyped
<1>1. ASSUME NEW w \in Evaluators,
             \/ StartScreening(w) \/ StartHeldout(w) \/ Resolve(w) \/ Gather(w)
             \/ Rehash(w) \/ Commit(w) \/ Abort(w)
      PROVE  w = v
  <2>1. pc' = pc \/ \E step : pc' = [pc EXCEPT ![w] = step]
    BY <1>1 DEF StartScreening, StartHeldout, Resolve, Gather, Rehash, Commit, Abort, Goto
  <2>2. QED
    BY <1>0, <2>1
<1>2. ASSUME NEW w \in Evaluators, NEW g \in 1 .. Gpus, Check(w, g) \/ Wait(w, g) \/ BuildPair(w, g)
      PROVE  FALSE
  BY <1>2 DEF Check, Wait, BuildPair
<1>3. ASSUME NEW w \in Evaluators, NEW s \in Slots, Work(w, s) \/ Block(w, s) \/ Kill(w, s)
      PROVE  FALSE
  BY <1>3 DEF Work, LoadAdapter, OpenEpisode, WriteEpisode, WriteReceipt, Block, Kill
<1>4. ASSUME NEW e \in 1 .. Epochs, Edit(e) PROVE FALSE
  BY <1>4 DEF Edit
<1>5. ~UNCHANGED vars
  BY DEF vars
<1>6. QED
  BY <1>1, <1>2, <1>3, <1>4, <1>5 DEF Next, Proceed

(* The last candidate is resolved when the queues start.                   *)
LEMMA ResolveFacts ==
    ASSUME Typed, NEW v \in Evaluators, Resolve(v), pc'[v] # "failed"
    PROVE  /\ pc[v] = "resolve" /\ Len(want[v]) < Len(todo[v])
           /\ Len(want'[v]) = Len(want[v]) + 1
           /\ \/ pc'[v] = "resolve" /\ thread' = thread
              \/ /\ pc'[v] = "run" /\ Len(want'[v]) = Len(todo[v])
                 /\ \A g \in 1 .. Gpus : thread'[v][g] = FirstOf(g)
<1> DEFINE i == Len(want[v]) + 1
           m == OnDisk(todo[v][i])
           new == [g \in 1 .. Gpus |-> FirstOf(g)]
<1>0. /\ todo[v] \in Seq(1 .. Epochs) /\ want[v] \in Seq(Models)
      /\ want \in [Evaluators -> Seq(Models)]
      /\ thread \in [Evaluators -> [1 .. Gpus -> Thread]]
      /\ pc \in [Evaluators -> {"idle", "resolve", "run", "rehash", "commit", "committed", "failed"}]
  BY DEF Typed, EvaluatorTyped
<1>1. pc[v] = "resolve" /\ Len(want[v]) < Len(todo[v])
  BY DEF Resolve, Typed, StageTyped
<1>2. /\ want' = [want EXCEPT ![v] = Append(@, m)]
      /\ IF i < Len(todo[v]) THEN UNCHANGED <<pc, thread>>
         ELSE pc' = [pc EXCEPT ![v] = "run"] /\ thread' = [thread EXCEPT ![v] = new]
  BY <1>0 DEF Resolve, Goto
<1>3. \A g \in 1 .. Gpus : new[g] = FirstOf(g)
  OBVIOUS
<1>4. Len(want[v]) \in Nat /\ Len(todo[v]) \in Nat
  <2>1. \A q \in Seq(Models) : Len(q) \in Nat
    OBVIOUS
  <2>2. \A q \in Seq(1 .. Epochs) : Len(q) \in Nat
    OBVIOUS
  <2>3. QED
    BY <1>0, <2>1, <2>2
<1> HIDE DEF m, new
<1>5. want'[v] = Append(want[v], m)
  BY <1>0, <1>2
<1>6. Len(want'[v]) = i
  BY <1>0, <1>5
<1>7. CASE i < Len(todo[v])
  BY <1>1, <1>2, <1>6, <1>7
<1>8. CASE ~(i < Len(todo[v]))
  <2>1. i = Len(todo[v])
    BY <1>1, <1>4, <1>8
  <2>2. pc'[v] = "run" /\ thread'[v] = new
    BY <1>0, <1>2, <1>8
  <2>3. QED
    BY <1>1, <1>3, <1>6, <2>1, <2>2
<1>9. QED
  BY <1>7, <1>8

(* What an evaluator makes of its mode it keeps while it lives.            *)
LEMMA CandidatesKept ==
    ASSUME Typed, Typed', [Next]_vars, NEW v \in Evaluators, CandidatesOfMode(v)
    PROVE  CandidatesOfMode(v)'
<1>0. /\ todo \in [Evaluators -> Seq(1 .. Epochs)] /\ want \in [Evaluators -> Seq(Models)]
      /\ mode \in [Evaluators -> {"screen_epoch", "screen", "heldout"}]
      /\ pc \in [Evaluators -> {"idle", "resolve", "run", "rehash", "commit", "committed", "failed"}]
  BY DEF Typed, EvaluatorTyped
<1>1. CASE StartScreening(v)
  <2>1. pc'[v] = "resolve"
    BY <1>0, <1>1 DEF StartScreening, Goto
  <2>2. CASE mode' = [mode EXCEPT ![v] = "screen"] /\ todo' = [todo EXCEPT ![v] = [e \in 1 .. Epochs |-> e]]
    <3> DEFINE all == [e \in 1 .. Epochs |-> e]
    <3>1. Len(all) = Epochs /\ \A e \in 1 .. Epochs : all[e] = e
      BY SizeAssumption
    <3>2. todo' = [todo EXCEPT ![v] = all]
      BY <2>2
    <3> HIDE DEF all
    <3>3. todo'[v] = all /\ mode'[v] = "screen"
      BY <1>0, <2>2, <3>2
    <3>4. QED
      BY <2>1, <3>1, <3>3 DEF CandidatesOfMode
  <2>3. ASSUME mode' = [mode EXCEPT ![v] = "screen_epoch"],
               NEW e \in 1 .. Epochs, todo' = [todo EXCEPT ![v] = <<e>>]
        PROVE  CandidatesOfMode(v)'
    <3>1. Len(todo'[v]) = 1 /\ mode'[v] = "screen_epoch"
      BY <1>0, <2>3
    <3>2. QED
      BY <2>1, <3>1 DEF CandidatesOfMode
  <2>4. QED
    BY <1>1, <2>2, <2>3 DEF StartScreening
<1>2. CASE StartHeldout(v)
  <2>1. /\ want'[v] = <<selection.model>> /\ mode'[v] = "heldout" /\ pc'[v] # "resolve"
    BY <1>0, <1>2 DEF StartHeldout, Goto
  <2>2. Len(want'[v]) = 1
    BY <2>1
  <2>3. QED
    BY <2>1, <2>2 DEF CandidatesOfMode
<1>3. CASE ~StartScreening(v) /\ ~StartHeldout(v)
  <2>1. /\ todo'[v] = todo[v] /\ mode'[v] = mode[v] /\ (Live(v)' => Live(v))
        /\ want'[v] # want[v] => Resolve(v)
    BY <1>3, TodoMoves, LiveBefore
  <2>2. CASE Resolve(v) /\ Live(v)'
    <3>1. pc[v] = "resolve" /\ (pc'[v] = "resolve" \/ (pc'[v] = "run" /\ Len(want'[v]) = Len(todo[v])))
      BY <2>2, ResolveFacts DEF Live
    <3>2. Live(v) /\ mode[v] # "heldout"
      BY <3>1 DEF CandidatesOfMode, Live
    <3>3. QED
      BY <2>1, <3>1, <3>2 DEF CandidatesOfMode
  <2>3. CASE ~Resolve(v) /\ Live(v)'
    <3>1. want'[v] = want[v]
      BY <2>1, <2>3
    <3>2. /\ pc'[v] = "resolve" => pc[v] = "resolve"
          /\ pc'[v] \in {"run", "rehash", "commit"} => pc[v] \in {"run", "rehash", "commit"}
      BY <1>0, <1>3, <2>3, PcMoves DEF Gather, Rehash, Commit, Abort, Goto
    <3>3. QED
      BY <2>1, <2>3, <3>1, <3>2 DEF CandidatesOfMode
  <2>4. CASE ~Live(v)'
    BY <2>4 DEF CandidatesOfMode, Live
  <2>5. QED
    BY <2>2, <2>3, <2>4
<1>4. QED
  BY <1>1, <1>2, <1>3

(* No two candidates of a live evaluator are the same.                     *)
LEMMA CandidatesDiffer ==
    ASSUME Typed, OwnEpochs, NEW v \in Evaluators, CandidatesOfMode(v), Live(v),
           NEW i \in 1 .. Len(want[v]), NEW j \in 1 .. Len(want[v]), want[v][i] = want[v][j]
    PROVE  i = j
<1>1. CASE mode[v] = "heldout"
  BY <1>1 DEF CandidatesOfMode
<1>2. CASE mode[v] # "heldout"
  BY <1>2, EpochsDiffer DEF Screening
<1>3. QED
  BY <1>1, <1>2

(* Where a queue goes on to, and when it is done.                          *)
LEMMA NextExact ==
    ASSUME Typed, NEW v \in Evaluators, NEW g \in 1 .. Gpus, thread[v][g].step = "pair"
    PROVE  LET t == thread[v][g]
               new == NextInQueue(v, t)
           IN \/ /\ new.step = "check" /\ new.unit = t.unit /\ new.at = t.at + 1
              \/ /\ new.step = "check" /\ new.unit = t.unit + Gpus /\ new.at = 0
                 /\ t.at = Len(want[v])
              \/ new.step = "done" /\ t.at = Len(want[v]) /\ t.unit + Gpus > Units
<1> DEFINE t == thread[v][g]
           new == NextInQueue(v, t)
<1>1. /\ t \in Thread /\ t.unit \in 1 .. Units /\ t.at \in 0 .. Len(want[v])
      /\ want[v] \in Seq(Models)
  BY QueueFacts DEF AtWork
<1>2. Len(want[v]) \in Nat /\ t.unit \in Nat /\ t.at \in Nat
  BY <1>1, SizeAssumption
<1>3. CASE t.at < Len(want[v])
  <2>1. new = [t EXCEPT !.at = @ + 1, !.step = "check"]
    BY <1>3 DEF NextInQueue
  <2>2. QED
    BY <1>1, <2>1 DEF Thread
<1>4. CASE ~(t.at < Len(want[v])) /\ t.unit + Gpus <= Units
  <2>1. new = [IdleThread EXCEPT !.unit = t.unit + Gpus, !.step = "check"]
    BY <1>4 DEF NextInQueue
  <2>2. new.step = "check" /\ new.unit = t.unit + Gpus /\ new.at = 0
    BY <2>1 DEF IdleThread
  <2>3. t.at = Len(want[v])
    BY <1>1, <1>2, <1>4
  <2>4. QED
    BY <2>2, <2>3
<1>5. CASE ~(t.at < Len(want[v])) /\ ~(t.unit + Gpus <= Units)
  <2>1. new = [t EXCEPT !.step = "done"]
    BY <1>5 DEF NextInQueue
  <2>2. new.step = "done"
    BY <1>1, <2>1 DEF Thread
  <2>3. t.at = Len(want[v]) /\ t.unit + Gpus > Units
    BY <1>1, <1>2, <1>5, SizeAssumption
  <2>4. QED
    BY <2>2, <2>3
<1>6. QED
  BY <1>3, <1>4, <1>5

(* What a queue that does not raise adds to the rows.                      *)
LEMMA BuiltRow ==
    ASSUME Typed, NEW v \in Evaluators, NEW g \in 1 .. Gpus, BuildPair(v, g),
           thread'[v][g].step # "raised"
    PROVE  /\ thread[v][g].step = "pair" /\ thread'[v][g] = NextInQueue(v, thread[v][g])
           /\ thread[v][g].at \in 1 .. Len(want[v])
           /\ \E p \in Pair :
                 /\ rows' = [rows EXCEPT ![v] = @ \cup {p}]
                 /\ p = PairOf(thread[v][g].unit, episode[Here(v, g)],
                               episode[Slot(v, thread[v][g].unit, 0)], thread[v][g].progress)
                 /\ episode[Slot(v, thread[v][g].unit, 0)] # Truncated
                 /\ episode[Here(v, g)] # Truncated /\ episode[Here(v, g)].hash = Wanted(v, g)
                 /\ p.unit = thread[v][g].unit /\ p.hash = want[v][thread[v][g].at]
<1> DEFINE t == thread[v][g]
           a == episode[Here(v, g)]
           r == episode[Slot(v, t.unit, 0)]
           p == PairOf(t.unit, a, r, t.progress)
           new == NextInQueue(v, t)
<1>0. thread \in [Evaluators -> [1 .. Gpus -> Thread]]
  BY DEF Typed, EvaluatorTyped
<1>1. t.step = "pair" /\ ~Raise(v, g)
  BY RaiseFacts DEF BuildPair
<1>2. /\ r # Truncated /\ a # Truncated /\ a.hash = Wanted(v, g)
      /\ rows' = [rows EXCEPT ![v] = @ \cup {p}]
      /\ thread' = [thread EXCEPT ![v][g] = new]
  BY <1>1 DEF BuildPair
<1>3. p \in Pair
  BY <1>1, <1>2, PairFacts
<1>4. t.at \in 1 .. Len(want[v])
  <2>1. AtWork(v, g) /\ QueueTyped(v, g)
    BY <1>1 DEF AtWork, Typed
  <2>2. t.at > 0 /\ t.at \in 0 .. Len(want[v])
    BY <1>1, <2>1 DEF QueueTyped
  <2>3. QED
    BY <2>2
<1>5. p.unit = t.unit /\ p.hash = want[v][t.at]
  BY <1>2, <1>4 DEF PairOf, Wanted, Want
<1> HIDE DEF new, p
<1>6. thread'[v][g] = new
  BY <1>0, <1>2
<1>7. QED
  BY <1>1, <1>2, <1>3, <1>4, <1>5, <1>6 DEF new, p

(* The queue that builds a pair has it behind it, and nothing else.        *)
LEMMA BuildCounted ==
    ASSUME Typed, OwnUnits, OwnEpochs, NEW v \in Evaluators, NEW g \in 1 .. Gpus, BuildPair(v, g),
           CandidatesOfMode(v), QueueCounted(v, g)
    PROVE  QueueCounted(v, g)'
<1> SUFFICES ASSUME thread'[v][g].step # "raised",
                    NEW u \in 1 .. Units, NEW i \in 1 .. Len(want'[v]), InQueue(g, u)
             PROVE  IF Behind(v, g, u, i)' THEN \E p : RowsOf(v, u, want[v][i])' = {p}
                                           ELSE RowsOf(v, u, want[v][i])' = {}
  BY DEF QueueCounted
<1> DEFINE t == thread[v][g]
           n == thread'[v][g]
<1>1. t.step = "pair" /\ n = NextInQueue(v, t) /\ t.at \in 1 .. Len(want[v])
  BY BuiltRow
<1>2. PICK p \in Pair : /\ rows' = [rows EXCEPT ![v] = @ \cup {p}]
                        /\ p.unit = t.unit /\ p.hash = want[v][t.at]
  BY BuiltRow
<1>3. want' = want /\ Live(v)
  BY DEF BuildPair, Live
<1>4. t.unit \in 1 .. Units /\ AtWork(v, g) /\ i \in 1 .. Len(want[v]) /\ want[v] \in Seq(Models)
  BY <1>1, <1>3, QueueFacts DEF AtWork
<1>5. Len(want[v]) \in Nat /\ t.unit \in Nat /\ t.at \in Nat /\ u \in Nat /\ i \in Nat
  BY <1>1, <1>4, SizeAssumption
<1>6. InQueue(g, t.unit)
  BY <1>4 DEF OwnUnits, InQueue
<1>7. \/ n.step = "check" /\ n.unit = t.unit /\ n.at = t.at + 1
      \/ n.step = "check" /\ n.unit = t.unit + Gpus /\ n.at = 0 /\ t.at = Len(want[v])
      \/ n.step = "done" /\ t.at = Len(want[v]) /\ t.unit + Gpus > Units
  BY <1>1, NextExact
<1>8. Gpus \in Nat \ {0} /\ Units \in Nat
  BY SizeAssumption
<1>9. u < t.unit + Gpus => u <= t.unit
  BY <1>5, <1>6, RoundsApart
<1>10. Behind(v, g, u, i)' <=> Behind(v, g, u, i) \/ (u = t.unit /\ i = t.at)
  <2>1. Behind(v, g, u, i) <=> u < t.unit \/ (u = t.unit /\ i < t.at)
    BY <1>1 DEF Behind
  <2>2. Behind(v, g, u, i)' <=> n.step = "done" \/ u < n.unit \/ (u = n.unit /\ i < n.at)
    BY DEF Behind
  <2> HIDE DEF t, n
  <2>3. CASE n.step = "check" /\ n.unit = t.unit /\ n.at = t.at + 1
    BY <1>5, <2>1, <2>2, <2>3
  <2>4. CASE n.step = "check" /\ n.unit = t.unit + Gpus /\ n.at = 0 /\ t.at = Len(want[v])
    BY <1>4, <1>5, <1>8, <1>9, <2>1, <2>2, <2>4
  <2>5. CASE n.step = "done" /\ t.at = Len(want[v]) /\ t.unit + Gpus > Units
    <3>1. u <= t.unit
      BY <1>4, <1>5, <1>8, <1>9, <2>5
    <3>2. QED
      BY <1>4, <1>5, <2>1, <2>2, <2>5, <3>1
  <2>6. QED
    BY <1>7, <2>3, <2>4, <2>5
<1>11. CASE u = t.unit /\ i = t.at
  <2>1. ~Behind(v, g, u, i)
    BY <1>1, <1>5, <1>11 DEF Behind
  <2>2. RowsOf(v, u, want[v][i]) = {}
    BY <1>1, <1>4, <2>1 DEF QueueCounted
  <2>3. RowsOf(v, u, want[v][i])' = {p}
    <3> DEFINE m == want[v][i]
    <3>1. p.unit = u /\ p.hash = m
      BY <1>2, <1>11
    <3>2. m' = m
      BY <1>3
    <3> HIDE DEF m
    <3>3. {q \in rows'[v] : q.unit = u /\ q.hash = m} = {q \in rows[v] : q.unit = u /\ q.hash = m} \cup {p}
      BY <1>2, <3>1 DEF Typed, EvaluatorTyped
    <3>4. {q \in rows[v] : q.unit = u /\ q.hash = m} = {}
      BY <2>2 DEF RowsOf, m
    <3>5. RowsOf(v, u, m)' = {q \in rows'[v] : q.unit = u /\ q.hash = m}
      BY <3>2 DEF RowsOf
    <3>6. QED
      BY <3>3, <3>4, <3>5 DEF m
  <2>4. QED
    BY <1>10, <1>11, <2>3
<1>12. CASE ~(u = t.unit /\ i = t.at)
  <2>1. ~(p.unit = u /\ p.hash = want[v][i])
    BY <1>1, <1>2, <1>3, <1>4, <1>12, CandidatesDiffer
  <2>2. RowsOf(v, u, want[v][i])' = RowsOf(v, u, want[v][i])
    <3> DEFINE m == want[v][i]
    <3>1. m' = m /\ ~(p.unit = u /\ p.hash = m)
      BY <1>3, <2>1
    <3> HIDE DEF m
    <3>2. {q \in rows'[v] : q.unit = u /\ q.hash = m} = {q \in rows[v] : q.unit = u /\ q.hash = m}
      BY <1>2, <3>1 DEF Typed, EvaluatorTyped
    <3>3. QED
      BY <3>1, <3>2 DEF RowsOf, m
  <2>3. QED
    BY <1>1, <1>3, <1>4, <1>10, <1>12, <2>2 DEF QueueCounted
<1>13. QED
  BY <1>11, <1>12
(* Rows come from a queue of their own evaluator.                          *)
LEMMA RowsMove ==
    ASSUME Typed, [Next]_vars, NEW v \in Evaluators, rows'[v] # rows[v]
    PROVE  \E g \in 1 .. Gpus : BuildPair(v, g) /\ thread'[v][g].step # "raised"
<1>0. rows \in [Evaluators -> SUBSET Pair]
  BY DEF Typed, EvaluatorTyped
<1>1. PICK w \in Evaluators, g \in 1 .. Gpus : BuildPair(w, g)
  BY WhoChanges
<1>2. rows' = rows \/ \E S : rows' = [rows EXCEPT ![w] = S]
  BY <1>1 DEF BuildPair
<1>3. w = v
  BY <1>0, <1>2
<1>4. ~(Raise(v, g) /\ UNCHANGED rows)
  OBVIOUS
<1>5. thread'[v][g].step # "raised"
  <2>1. /\ thread' = [thread EXCEPT ![v][g] = NextInQueue(v, thread[v][g])]
        /\ thread[v][g].step = "pair"
    BY <1>1, <1>3, <1>4 DEF BuildPair
  <2> DEFINE new == NextInQueue(v, thread[v][g])
  <2>2. new.step # "raised"
    BY <2>1, NextFacts
  <2> HIDE DEF new
  <2>3. thread'[v][g] = new
    BY <2>1 DEF Typed, EvaluatorTyped, new
  <2>4. QED
    BY <2>2, <2>3
<1>6. QED
  BY <1>1, <1>3, <1>5

(* A queue that checks or waits has the same behind it as before.          *)
LEMMA StepCounted ==
    ASSUME Typed, [Next]_vars, NEW v \in Evaluators, NEW g \in 1 .. Gpus, pc[v] = "run",
           ~BuildPair(v, g), thread'[v][g].step # "raised", NEW u, NEW i \in 1 .. Len(want[v])
    PROVE  thread[v][g].step # "raised" /\ (Behind(v, g, u, i)' <=> Behind(v, g, u, i))
<1> DEFINE t == thread[v][g]
           n == thread'[v][g]
<1>0. t \in Thread /\ want[v] \in Seq(Models)
  BY DEF Typed, EvaluatorTyped
<1>1. CASE n = t
  BY <1>1 DEF Behind
<1>2. CASE n # t
  <2>1. Check(v, g) \/ Wait(v, g)
    BY <1>2, ThreadMoves DEF StartHeldout, Resolve
  <2>2. AtWork(v, g)
    BY <2>1 DEF Check, Wait, AtWork
  <2>3. AtWork(v, g)'
    <3>1. CASE Complete(Here(v, g), Wanted(v, g)) /\ Take(v, g)
      BY <2>2, <3>1, TakeFacts DEF AtWork
    <3>2. CASE Check(v, g) /\ ~Complete(Here(v, g), Wanted(v, g))
      <4> DEFINE new == [t EXCEPT !.step = "wait"]
      <4>1. new.step = "wait"
        BY <1>0 DEF Thread
      <4>2. thread' = [thread EXCEPT ![v][g] = new]
        BY <3>2 DEF Check
      <4> HIDE DEF new
      <4>3. n = new
        BY <4>2 DEF Typed, EvaluatorTyped
      <4>4. QED
        BY <4>1, <4>3 DEF AtWork
    <3>3. CASE Raise(v, g)
      BY <3>3, RaiseFacts
    <3>4. QED
      BY <2>1, <3>1, <3>2, <3>3 DEF Check, Wait
  <2>4. /\ n.unit = t.unit /\ n.step # "done" /\ t.step # "done"
        /\ n.at = t.at \/ (t.at = 0 /\ n.at = 1)
    BY <1>2, <2>2, <2>3, QueueBefore DEF AtWork
  <2>5. i \in Nat /\ ~(i < 0) /\ ~(i < 1)
    BY <1>0
  <2>6. QED
    BY <2>2, <2>4, <2>5 DEF Behind, AtWork
<1>3. QED
  BY <1>1, <1>2

(* What another queue adds is of units of its own.                         *)
LEMMA OtherCounted ==
    ASSUME Typed, Typed', OwnUnits, [Next]_vars, NEW v \in Evaluators, NEW g \in 1 .. Gpus,
           pc[v] = "run", ~BuildPair(v, g), QueueCounted(v, g)
    PROVE  QueueCounted(v, g)'
<1> SUFFICES ASSUME thread'[v][g].step # "raised",
                    NEW u \in 1 .. Units, NEW i \in 1 .. Len(want'[v]), InQueue(g, u)
             PROVE  IF Behind(v, g, u, i)' THEN \E p : RowsOf(v, u, want[v][i])' = {p}
                                           ELSE RowsOf(v, u, want[v][i])' = {}
  BY DEF QueueCounted
<1>1. want'[v] = want[v]
  BY FixedKept DEF Fixed
<1>2. thread[v][g].step # "raised" /\ (Behind(v, g, u, i)' <=> Behind(v, g, u, i))
  BY <1>1, StepCounted
<1>3. RowsOf(v, u, want[v][i])' = RowsOf(v, u, want[v][i])
  <2>1. CASE rows'[v] = rows[v]
    BY <1>1, <2>1 DEF RowsOf
  <2>2. ASSUME NEW h \in 1 .. Gpus, BuildPair(v, h), thread'[v][h].step # "raised"
        PROVE  RowsOf(v, u, want[v][i])' = RowsOf(v, u, want[v][i])
    <3>1. h # g
      BY <2>2
    <3>2. PICK p \in Pair : rows' = [rows EXCEPT ![v] = @ \cup {p}] /\ p.unit = thread[v][h].unit
      BY <2>2, BuiltRow
    <3>3. AtWork(v, h)
      BY <2>2 DEF BuildPair, AtWork
    <3>4. InQueue(h, p.unit)
      BY <3>2, <3>3 DEF OwnUnits, InQueue
    <3>5. p.unit # u
      BY <3>1, <3>4, OneQueue
    <3>6. rows'[v] = rows[v] \cup {p}
      BY <3>2 DEF Typed, EvaluatorTyped
    <3> DEFINE m == want[v][i]
    <3>7. m' = m
      BY <1>1
    <3> HIDE DEF m
    <3>8. {q \in rows'[v] : q.unit = u /\ q.hash = m} = {q \in rows[v] : q.unit = u /\ q.hash = m}
      BY <3>5, <3>6
    <3>9. QED
      BY <3>7, <3>8 DEF RowsOf, m
  <2>3. QED
    BY <2>1, <2>2, RowsMove
<1>4. QED
  BY <1>1, <1>2, <1>3 DEF QueueCounted

(* Queues start with nothing behind them, and no row.                      *)
LEMMA FirstCounted ==
    ASSUME Typed, Typed', NEW v \in Evaluators, NEW g \in 1 .. Gpus,
           thread'[v][g] = FirstOf(g), rows'[v] = {}
    PROVE  QueueCounted(v, g)'
<1> SUFFICES ASSUME NEW u \in 1 .. Units, NEW i \in 1 .. Len(want'[v]), InQueue(g, u)
             PROVE  ~Behind(v, g, u, i)' /\ RowsOf(v, u, want[v][i])' = {}
  BY DEF QueueCounted
<1>1. RowsOf(v, u, want[v][i])' = {}
  BY DEF RowsOf
<1>2. g <= u
  <2>1. PICK k \in Nat : u = g + k * Gpus
    BY DEF InQueue
  <2>2. k * Gpus \in Nat /\ g \in Nat
    BY SizeAssumption
  <2>3. QED
    BY <2>1, <2>2
<1>3. FirstOf(g).step # "done"
  <2>1. g <= Units
    BY <1>2, SizeAssumption
  <2>2. FirstOf(g) = [IdleThread EXCEPT !.unit = g, !.step = "check"]
    BY <2>1 DEF FirstOf
  <2>3. QED
    BY <2>2 DEF IdleThread
<1>4. FirstOf(g).unit = g /\ FirstOf(g).at = 0
  BY FirstOfFacts
<1>5. want'[v] \in Seq(Models)
  BY DEF Typed, EvaluatorTyped
<1>6. i \in Nat \ {0} /\ g \in Nat /\ u \in Nat
  BY <1>5, SizeAssumption
<1>7. ~Behind(v, g, u, i)'
  BY <1>2, <1>3, <1>4, <1>6 DEF Behind
<1>8. QED
  BY <1>1, <1>7

(* When every queue is done every unit is counted.                         *)
LEMMA DoneCounted ==
    ASSUME NEW v \in Evaluators,
           \A g \in 1 .. Gpus : QueueCounted(v, g) /\ thread[v][g].step = "done"
    PROVE  AllCounted(v)
<1> SUFFICES ASSUME NEW u \in 1 .. Units, NEW i \in 1 .. Len(want[v])
             PROVE  \E p : RowsOf(v, u, want[v][i]) = {p}
  BY DEF AllCounted
<1>1. PICK g \in 1 .. Gpus : InQueue(g, u)
  BY SomeQueue, SizeAssumption
<1>2. Behind(v, g, u, i) /\ thread[v][g].step # "raised"
  BY DEF Behind
<1>3. QED
  BY <1>1, <1>2 DEF QueueCounted

(* No row before the queues start, then one for all that is behind them,   *)
(* and when they are done for every unit and candidate.                    *)
LEMMA EvaluatorCountedKept ==
    ASSUME Typed, Typed', OwnUnits, OwnEpochs, [Next]_vars, NEW v \in Evaluators,
           CandidatesOfMode(v), EvaluatorCounted(v)
    PROVE  EvaluatorCounted(v)'
<1>0. /\ pc \in [Evaluators -> {"idle", "resolve", "run", "rehash", "commit", "committed", "failed"}]
      /\ thread \in [Evaluators -> [1 .. Gpus -> Thread]]
  BY DEF Typed, EvaluatorTyped
<1>1. rows'[v] # rows[v] => pc[v] = "run" /\ pc'[v] = "run"
  BY RowsMove DEF BuildPair
<1>2. ASSUME pc'[v] \in {"idle", "resolve"} PROVE rows'[v] = {}
  <2>1. pc[v] \in {"idle", "resolve"}
    BY <1>0, <1>2, PcMoves DEF StartScreening, StartHeldout, Resolve, Gather, Rehash, Commit, Abort, Goto
  <2>2. QED
    BY <1>1, <2>1 DEF EvaluatorCounted
<1>3. ASSUME pc'[v] = "run", NEW g \in 1 .. Gpus PROVE QueueCounted(v, g)'
  <2>1. CASE pc[v] = "run"
    BY <2>1, BuildCounted, OtherCounted DEF EvaluatorCounted
  <2>2. CASE pc[v] # "run"
    <3>1. StartHeldout(v) \/ Resolve(v)
      BY <1>0, <1>3, <2>2, PcMoves DEF StartScreening, Gather, Rehash, Commit, Abort, Goto
    <3>2. rows'[v] = {}
      BY <1>1, <2>2, <3>1 DEF EvaluatorCounted, StartHeldout, Resolve
    <3>3. CASE Resolve(v)
      BY <1>3, <3>2, <3>3, ResolveFacts, FirstCounted
    <3>4. CASE StartHeldout(v)
      <4> DEFINE new == [h \in 1 .. Gpus |-> FirstOf(h)]
      <4>1. new[g] = FirstOf(g)
        OBVIOUS
      <4>2. thread' = [thread EXCEPT ![v] = new]
        BY <1>0, <1>3, <3>4 DEF StartHeldout, Goto
      <4> HIDE DEF new
      <4>3. thread'[v][g] = FirstOf(g)
        BY <1>0, <4>1, <4>2
      <4>4. QED
        BY <3>2, <4>3, FirstCounted
    <3>5. QED
      BY <3>1, <3>3, <3>4
  <2>3. QED
    BY <2>1, <2>2
<1>4. ASSUME pc'[v] \in {"rehash", "commit"} PROVE AllCounted(v)'
  <2>1. Gather(v) \/ pc[v] \in {"rehash", "commit"}
    BY <1>0, <1>4, PcMoves DEF StartScreening, StartHeldout, Resolve, Rehash, Commit, Abort, Goto
  <2>2. AllCounted(v)
    <3>1. CASE Gather(v)
      <4>1. pc[v] = "run" /\ \A g \in 1 .. Gpus : thread[v][g].step = "done"
        <5>1. /\ pc[v] = "run"
              /\ \A g \in 1 .. Gpus : thread[v][g].step \in {"done", "raised"}
              /\ pc' = [pc EXCEPT ![v] = IF \E g \in 1 .. Gpus : thread[v][g].step = "raised"
                                         THEN "failed" ELSE "rehash"]
          BY <3>1 DEF Gather, Goto
        <5>2. QED
          BY <1>0, <1>4, <5>1
      <4>2. QED
        BY <4>1, DoneCounted DEF EvaluatorCounted
    <3>2. CASE pc[v] \in {"rehash", "commit"}
      BY <3>2 DEF EvaluatorCounted
    <3>3. QED
      BY <2>1, <3>1, <3>2
  <2>3. rows'[v] = rows[v] /\ want'[v] = want[v]
    BY <1>1, <1>4, <2>1, FixedKept DEF Fixed, Gather
  <2>4. ASSUME NEW u \in 1 .. Units, NEW i \in 1 .. Len(want'[v])
        PROVE  \E p : RowsOf(v, u, want[v][i])' = {p}
    <3>1. \E p : RowsOf(v, u, want[v][i]) = {p}
      BY <2>2, <2>3 DEF AllCounted
    <3>2. RowsOf(v, u, want[v][i])' = RowsOf(v, u, want[v][i])
      BY <2>3 DEF RowsOf
    <3>3. QED
      BY <3>1, <3>2
  <2>5. QED
    BY <2>4 DEF AllCounted
<1>5. QED
  BY <1>2, <1>3, <1>4 DEF EvaluatorCounted

(* The rows of one epoch's unit are those of its only candidate.           *)
LEMMA EpochCounted ==
    ASSUME Typed, PairsOfWanted, OwnEpochs, NEW v \in Evaluators, CandidatesOfMode(v),
           Live(v), AllCounted(v), NEW i \in 1 .. Len(want[v])
    PROVE  OncePerUnit(rows[v], want[v][i][1])
<1>1. \A j \in 1 .. Len(want[v]) : want[v][j][1] = want[v][i][1] => j = i
  <2>1. CASE mode[v] = "heldout"
    BY <2>1 DEF CandidatesOfMode
  <2>2. CASE mode[v] # "heldout"
    BY <2>2, EpochsDiffer DEF Screening
  <2>3. QED
    BY <2>1, <2>2
<1>2. \A u : {p \in rows[v] : p.unit = u /\ p.hash[1] = want[v][i][1]} = RowsOf(v, u, want[v][i])
  BY <1>1 DEF RowsOf, PairsOfWanted
<1>3. QED
  BY <1>2 DEF AllCounted, OncePerUnit

(* So what is committed counts each unit once.                             *)
LEMMA CommitCounted ==
    ASSUME Typed, Typed', PairsOfWanted, OwnEpochs, FilesCounted, NEW v \in Evaluators, Commit(v),
           CandidatesOfMode(v), EvaluatorCounted(v)
    PROVE  FilesCounted'
<1>1. pc[v] = "commit" /\ Live(v) /\ AllCounted(v)
  BY DEF Commit, Live, EvaluatorCounted
<1>2. /\ epochReceipt \in [1 .. Epochs -> {Absent} \cup SUBSET Pair]
      /\ want[v] \in Seq(Models) /\ want[v] # <<>>
      /\ todo[v] \in Seq(1 .. Epochs)
  BY <1>1 DEF Typed, FilesTyped, EvaluatorTyped, StageTyped
<1>3. 1 \in 1 .. Len(want[v])
  BY <1>2
<1>4. CASE mode[v] = "screen_epoch" /\ epochReceipt' = [epochReceipt EXCEPT ![want[v][1][1]] = rows[v]]
           /\ UNCHANGED <<selection, heldout>>
  <2> DEFINE e == want[v][1][1]
  <2>1. epochReceipt' = [epochReceipt EXCEPT ![e] = rows[v]]
    BY <1>4
  <2>2. OncePerUnit(rows[v], e)
    BY <1>1, <1>3, EpochCounted
  <2> HIDE DEF e
  <2>3. ASSUME NEW d \in 1 .. Epochs, epochReceipt'[d] # Absent
        PROVE  OncePerUnit(epochReceipt'[d], d)
    <3>1. CASE d = e
      BY <1>2, <2>1, <2>2, <3>1
    <3>2. CASE d # e
      BY <1>2, <2>1, <2>3, <3>2 DEF FilesCounted
    <3>3. QED
      BY <3>1, <3>2
  <2>4. selection' = selection /\ heldout' = heldout
    BY <1>4
  <2>5. QED
    BY <2>3, <2>4 DEF FilesCounted
<1>5. CASE /\ mode[v] = "screen" /\ UNCHANGED <<epochReceipt, heldout>>
           /\ \E i \in 1 .. Len(want[v]) : selection' = [model |-> want[v][i], rows |-> rows[v]]
  <2>1. selection'.rows = rows[v]
    BY <1>5
  <2>2. Len(want[v]) = Epochs /\ \A e \in 1 .. Epochs : todo[v][e] = e
    BY <1>1, <1>5 DEF CandidatesOfMode
  <2>3. ASSUME NEW e \in 1 .. Epochs PROVE OncePerUnit(selection'.rows, e)
    <3>1. e \in 1 .. Len(want[v]) /\ want[v][e][1] = e
      BY <1>1, <1>5, <2>2 DEF OwnEpochs
    <3>2. OncePerUnit(rows[v], want[v][e][1])
      BY <1>1, <3>1, EpochCounted
    <3>3. QED
      BY <2>1, <3>1, <3>2
  <2>4. epochReceipt' = epochReceipt /\ heldout' = heldout
    BY <1>5
  <2>5. QED
    BY <2>3, <2>4 DEF FilesCounted
<1>6. CASE /\ mode[v] = "heldout" /\ UNCHANGED <<epochReceipt, selection>>
           /\ heldout' = [model |-> want[v][1], rows |-> rows[v]]
  <2>1. heldout'.rows = rows[v] /\ heldout'.model = want[v][1]
    BY <1>6
  <2>2. OncePerUnit(rows[v], want[v][1][1])
    BY <1>1, <1>3, EpochCounted
  <2>3. OncePerUnit(heldout'.rows, heldout'.model[1])
    BY <2>1, <2>2
  <2>4. epochReceipt' = epochReceipt /\ selection' = selection
    BY <1>6
  <2>5. QED
    BY <2>3, <2>4 DEF FilesCounted
<1>7. QED
  BY <1>4, <1>5, <1>6 DEF Commit

(* Nothing else touches what is committed.                                 *)
LEMMA UnitsCountedKept ==
    ASSUME Typed, Typed', PairsOfWanted, OwnUnits, OwnEpochs, UnitsCounted, [Next]_vars
    PROVE  UnitsCounted'
<1>1. \A v \in Evaluators : (CandidatesOfMode(v) /\ EvaluatorCounted(v))'
  BY CandidatesKept, EvaluatorCountedKept DEF UnitsCounted
<1>2. CASE \E v \in Evaluators : Commit(v)
  BY <1>1, <1>2, CommitCounted DEF UnitsCounted
<1>3. CASE ~\E v \in Evaluators : Commit(v)
  <2>1. UNCHANGED <<epochReceipt, selection, heldout>>
    BY <1>3, WhoChanges
  <2>2. FilesCounted'
    BY <2>1 DEF FilesCounted, UnitsCounted
  <2>3. QED
    BY <1>1, <2>2 DEF UnitsCounted
<1>4. QED
  BY <1>2, <1>3

(* However evaluators overlap, are killed and leave children behind, what  *)
(* a receipt counts has each unit once for each candidate.                 *)
THEOREM UnitsAreCounted == Spec => []CountsEachUnitOnce
<1>1. Init => PairsOfWanted /\ OwnUnits /\ OwnEpochs /\ UnitsCounted
  <2> SUFFICES ASSUME Init PROVE PairsOfWanted /\ OwnUnits /\ OwnEpochs /\ UnitsCounted
    OBVIOUS
  <2>1. \A v \in Evaluators : pc[v] = "idle" /\ rows[v] = {} /\ todo[v] = <<>>
    BY DEF Init
  <2>2. \A v \in Evaluators, g \in 1 .. Gpus : ~AtWork(v, g)
    BY DEF Init, AtWork, IdleThread
  <2>3. \A e \in 1 .. Epochs : epochReceipt[e] = Absent
    BY DEF Init
  <2>4. selection = Absent /\ heldout = Absent
    BY DEF Init
  <2>5. QED
    BY <2>1, <2>2, <2>3, <2>4 DEF PairsOfWanted, OwnUnits, OwnEpochs, UnitsCounted,
       CandidatesOfMode, EvaluatorCounted, FilesCounted, Live
<1>2. /\ PairsOfWanted /\ OwnUnits /\ OwnEpochs /\ UnitsCounted /\ Typed /\ Typed' /\ [Next]_vars
      => (PairsOfWanted /\ OwnUnits /\ OwnEpochs /\ UnitsCounted)'
  BY PairsOfWantedKept, OwnUnitsKept, OwnEpochsKept, UnitsCountedKept
<1>3. Typed /\ UnitsCounted => CountsEachUnitOnce
  <2> SUFFICES ASSUME Typed, UnitsCounted PROVE CountsEachUnitOnce
    OBVIOUS
  <2>1. \A S : (\E q : S = {q}) => Cardinality(S) = 1
    BY FS_Singleton
  <2>2. {s[2] : s \in DOMAIN episode} \subseteq 1 .. Units
    BY SlotFacts DEF Typed, FilesTyped
  <2>3. DOMAIN epochReceipt = 1 .. Epochs
    BY DEF Typed, FilesTyped
  <2>4. \A pairs, e : OncePerUnit(pairs, e) => UnitsOnce(pairs, e)
    BY <2>1, <2>2 DEF UnitsOnce, OncePerUnit
  <2>5. QED
    BY <2>3, <2>4 DEF CountsEachUnitOnce, UnitsCounted, FilesCounted
<1>4. QED
  BY <1>1, <1>2, <1>3, TypesKept, PTL DEF Spec

-----------------------------------------------------------------------------
(* Whole pairs: one writer of an episode and its receipt.                  *)

(* Children of one evaluator at a time; what a child has written is there, *)
(* under what was in the checkpoint when it was hashed.                    *)
OneAlive ==
    \A v, w \in Evaluators, s, r \in Slots : Alive(v, s) /\ Alive(w, r) => v = w
ChildWrote(v, s) ==
    /\ child[v][s].step \in {"writing", "written"} =>
          child[v][s].hash[1] = EpochIn(v, s) /\ Seen(child[v][s].hash)
    /\ child[v][s].step = "written" =>
          episode[s] = [by |-> v, ran |-> child[v][s].ran, hash |-> child[v][s].hash]

(* A screened slot of a checkpoint that has not been replaced: a PASS      *)
(* receipt is of the episode beside it, and no child is there to change    *)
(* one of the two.                                                         *)
Unreplaced(e) == e = 0 \/ content[e] = 0
Matched(s) ==
    receipt[s] \in Receipt =>
        /\ episode[s] \in Episode /\ episode[s].by = receipt[s].by
        /\ episode[s].hash = OnDisk(s[3]) /\ receipt[s].epoch = s[3]
        /\ \A v \in Evaluators : ~Alive(v, s)
SlotsMatched ==
    \A u \in 1 .. Units, e \in Conditions : Unreplaced(e) => Matched(<<"screen", u, e>>)

(* A queue has read the receipts that are still there.                     *)
QueueMatched(v, g) ==
    Screening(v) /\ AtWork(v, g) =>
        /\ thread[v][g].at > 0 =>
              thread[v][g].progress[1] = receipt[<<"screen", thread[v][g].unit, 0>>].by
        /\ thread[v][g].step = "pair" =>
              thread[v][g].progress[2] =
                  receipt[<<"screen", thread[v][g].unit, Wanted(v, g)[1]>>].by

WritersMatched ==
    /\ OneAlive /\ SlotsMatched
    /\ \A v \in Evaluators, s \in Slots : ChildWrote(v, s)
    /\ \A v \in Evaluators, g \in 1 .. Gpus : QueueMatched(v, g)

(* A child is started by the evaluator that lives, and none is left then. *)
LEMMA OneAliveKept ==
    ASSUME Typed, OneLive, Alone, OneAlive, [Next]_vars
    PROVE  OneAlive'
<1> SUFFICES ASSUME NEW v \in Evaluators, NEW w \in Evaluators, NEW s \in Slots, NEW r \in Slots,
                    Alive(v, s)', Alive(w, r)'
             PROVE  v = w
  BY DEF OneAlive
<1>1. \A x \in Evaluators, g \in 1 .. Gpus, t \in Slots : Starts(x, g, t) => Live(x)
  BY DEF Starts, Check, Live
<1>2. Alive(v, s) \/ Live(v)
  BY <1>1, AliveBefore
<1>3. Alive(w, r) \/ Live(w)
  BY <1>1, AliveBefore
<1>4. QED
  BY <1>2, <1>3 DEF OneAlive, OneLive, Alone

(* A model of a checkpoint that was never replaced is the one it has.      *)
LEMMA UnreplacedIs ==
    ASSUME Typed, NEW m \in Models, Unreplaced(m[1]), Seen(m)
    PROVE  m = OnDisk(m[1])
<1>1. m[1] \in Conditions /\ m[2] \in Nat /\ m = <<m[1], m[2]>>
  BY ModelFacts, SizeAssumption
<1>2. CASE m[1] = 0
  BY <1>2 DEF Seen, OnDisk
<1>3. CASE m[1] # 0
  <2>1. content[m[1]] = 0 /\ m[2] <= content[m[1]]
    BY <1>3 DEF Unreplaced, Seen
  <2>2. m[2] = content[m[1]]
    BY <1>1, <2>1
  <2>3. QED
    BY <1>1, <1>3, <2>2 DEF OnDisk
<1>4. QED
  BY <1>2, <1>3

(* It was not replaced before, either.                                     *)
LEMMA UnreplacedBefore ==
    ASSUME Typed, [Next]_vars, NEW e \in Conditions, Unreplaced(e)'
    PROVE  Unreplaced(e) /\ OnDisk(e)' = OnDisk(e)
<1>1. CASE e = 0
  BY <1>1 DEF Unreplaced, OnDisk
<1>2. CASE e # 0
  <2>1. e \in 1 .. Epochs /\ content'[e] = 0
    BY <1>2, SizeAssumption DEF Conditions, Unreplaced
  <2>2. content[e] \in Nat /\ content[e] <= content'[e]
    BY <2>1, ContentGrows
  <2>3. content[e] = 0
    BY <2>1, <2>2
  <2>4. QED
    BY <2>1, <2>3 DEF Unreplaced, OnDisk
<1>3. QED
  BY <1>1, <1>2

(* A child alone in its slot leaves there what it says it has.             *)
LEMMA ChildWroteKept ==
    ASSUME Typed, Typed', OneAlive, [Next]_vars, NEW v \in Evaluators, NEW s \in Slots, ChildWrote(v, s)
    PROVE  ChildWrote(v, s)'
<1>0. /\ child \in [Evaluators -> [Slots -> [step : ChildSteps, ran : Models, hash : Models]]]
      /\ episode \in [Slots -> Episode \cup {Absent, Truncated}]
  BY DEF Typed, ChildTyped, FilesTyped
<1>1. CASE child'[v][s] = child[v][s] /\ child[v][s].step \in {"writing", "written"}
  <2> DEFINE m == child[v][s].hash
  <2>1. m[1] = EpochIn(v, s) /\ Seen(m) /\ m \in Models
    BY <1>0, <1>1 DEF ChildWrote
  <2>2. EpochIn(v, s)' = EpochIn(v, s)
    BY <1>1, ChildFacts, FixedKept DEF EpochIn
  <2>3. m' = m
    BY <1>1
  <2> HIDE DEF m
  <2>4. m'[1] = EpochIn(v, s)' /\ Seen(m)'
    BY <2>1, <2>2, <2>3, SeenKept
  <2>5. child[v][s].step = "written" => episode'[s] = episode[s]
    <3>1. ASSUME NEW w \in Evaluators, NEW r \in Slots, OpenEpisode(w, r) \/ WriteEpisode(w, r),
                 episode'[s] # episode[s], child[v][s].step = "written"
          PROVE  FALSE
      <4>1. \E new : episode' = [episode EXCEPT ![r] = new]
        BY <3>1 DEF OpenEpisode, WriteEpisode
      <4>2. r = s
        BY <1>0, <3>1, <4>1
      <4>3. Alive(w, s) /\ Alive(v, s) /\ child[w][s].step # "written"
        BY <3>1, <4>2 DEF OpenEpisode, WriteEpisode, StepChild, Alive
      <4>4. QED
        BY <3>1, <4>3 DEF OneAlive
    <3>2. QED
      BY <3>1, WhoChanges
  <2>6. QED
    BY <1>1, <2>3, <2>4, <2>5 DEF ChildWrote, m
<1>2. CASE child'[v][s] # child[v][s]
  <2>1. ASSUME NEW g \in 1 .. Gpus, Starts(v, g, s) PROVE child'[v][s].step = "spawned"
    <3> DEFINE new == [child[v][s] EXCEPT !.step = "spawned"]
    <3>1. child' = [child EXCEPT ![v][s] = new]
      BY <2>1 DEF Starts, Check
    <3>2. new.step = "spawned"
      BY <1>0
    <3> HIDE DEF new
    <3>3. QED
      BY <1>0, <3>1, <3>2
  <2>2. CASE LoadAdapter(v, s)
    <3> DEFINE new == [child[v][s] EXCEPT !.step = "loaded", !.ran = OnDisk(EpochIn(v, s))]
    <3>1. child' = [child EXCEPT ![v][s] = new]
      BY <2>2 DEF LoadAdapter
    <3>2. new.step = "loaded"
      BY <1>0
    <3> HIDE DEF new
    <3>3. child'[v][s].step = "loaded"
      BY <1>0, <3>1, <3>2
    <3>4. QED
      BY <3>3 DEF ChildWrote
  <2>3. CASE OpenEpisode(v, s)
    <3> DEFINE m == OnDisk(EpochIn(v, s))
               new == [child[v][s] EXCEPT !.step = "writing", !.hash = m]
    <3>1. child' = [child EXCEPT ![v][s] = new]
      BY <2>3 DEF OpenEpisode
    <3>2. m \in Models /\ m[1] = EpochIn(v, s) /\ Seen(m)
      BY <2>3, ChildFacts, OnDiskFacts DEF OpenEpisode, Typed
    <3> HIDE DEF m
    <3>3. new.step = "writing" /\ new.hash = m
      BY <1>0
    <3> HIDE DEF new
    <3>4. child'[v][s].step = "writing" /\ child'[v][s].hash = m
      BY <1>0, <3>1, <3>3
    <3>5. EpochIn(v, s)' = EpochIn(v, s)
      BY <2>3, ChildFacts, FixedKept DEF EpochIn, OpenEpisode
    <3>6. \A x \in Models : Seen(x) => Seen(x)'
      BY SeenKept
    <3>7. QED
      BY <3>2, <3>4, <3>5, <3>6 DEF ChildWrote, Seen
  <2>4. CASE WriteEpisode(v, s)
    <3> DEFINE new == [child[v][s] EXCEPT !.step = "written"]
               e == [by |-> v, ran |-> child[v][s].ran, hash |-> child[v][s].hash]
    <3>1. child' = [child EXCEPT ![v][s] = new] /\ child[v][s].step = "writing"
      BY <2>4 DEF WriteEpisode, StepChild
    <3>2. new.step = "written" /\ new.ran = child[v][s].ran /\ new.hash = child[v][s].hash
      BY <1>0
    <3> HIDE DEF new
    <3>3. child'[v][s] = new
      BY <1>0, <3>1
    <3>4. episode' = [episode EXCEPT ![s] = e]
      BY <2>4 DEF WriteEpisode
    <3>5. episode'[s] = [by |-> v, ran |-> child'[v][s].ran, hash |-> child'[v][s].hash]
      BY <1>0, <3>2, <3>3, <3>4
    <3>6. EpochIn(v, s)' = EpochIn(v, s)
      BY <3>1, ChildFacts, FixedKept DEF EpochIn
    <3>7. \A x \in Models : Seen(x) => Seen(x)'
      BY SeenKept
    <3>8. child[v][s].hash \in Models /\ child[v][s].hash[1] = EpochIn(v, s) /\ Seen(child[v][s].hash)
      BY <1>0, <3>1 DEF ChildWrote
    <3>9. QED
      BY <3>2, <3>3, <3>5, <3>6, <3>7, <3>8 DEF ChildWrote, Seen
  <2>5. CASE WriteReceipt(v, s) \/ Block(v, s) \/ Kill(v, s)
    <3>1. PICK to \in {"zero", "nonzero"} : child' = [child EXCEPT ![v][s].step = to]
      BY <2>5 DEF WriteReceipt, Block, Kill, StepChild
    <3> DEFINE new == [child[v][s] EXCEPT !.step = to]
    <3>2. new.step = to
      BY <1>0
    <3>3. child' = [child EXCEPT ![v][s] = new]
      BY <3>1
    <3> HIDE DEF new
    <3>4. child'[v][s].step = to
      BY <1>0, <3>2, <3>3
    <3>5. QED
      BY <3>4 DEF ChildWrote
  <2>6. QED
    BY <1>2, <2>1, <2>2, <2>3, <2>4, <2>5, ChildMoves DEF ChildWrote, Work
<1>3. CASE child'[v][s] = child[v][s] /\ child[v][s].step \notin {"writing", "written"}
  BY <1>3 DEF ChildWrote
<1>4. QED
  BY <1>1, <1>2, <1>3

(* A receipt and the episode beside it stay a pair: who finds them reuses  *)
(* them, and a child that writes there finds no PASS receipt.              *)
LEMMA MatchedKept ==
    ASSUME Typed, Typed', EpisodesBetween, OneAlive, [Next]_vars,
           \A v \in Evaluators, s \in Slots : ChildWrote(v, s),
           NEW u \in 1 .. Units, NEW e \in Conditions,
           Unreplaced(e), OnDisk(e)' = OnDisk(e), Matched(<<"screen", u, e>>)
    PROVE  Matched(<<"screen", u, e>>)'
<1>0. PICK s \in Slots : s = <<"screen", u, e>> /\ s[1] = "screen" /\ s[3] = e
  BY SlotIntro
<1>1. /\ receipt \in [Slots -> Receipt \cup {Absent, Blocked}]
      /\ episode \in [Slots -> Episode \cup {Absent, Truncated}]
      /\ child \in [Evaluators -> [Slots -> [step : ChildSteps, ran : Models, hash : Models]]]
  BY DEF Typed, FilesTyped, ChildTyped
<1>2. ASSUME receipt[s] \in Receipt PROVE Matched(s)'
  <2>1. /\ episode[s] \in Episode /\ episode[s].by = receipt[s].by
        /\ episode[s].hash = OnDisk(e) /\ receipt[s].epoch = e
        /\ \A v \in Evaluators : ~Alive(v, s)
    BY <1>0, <1>2 DEF Matched
  <2>2. episode'[s] = episode[s] /\ receipt'[s] = receipt[s]
    BY <1>0, <2>1, FilesMove
  <2>3. ASSUME NEW w \in Evaluators, NEW h \in 1 .. Gpus, Starts(w, h, s) PROVE FALSE
    <3>1. /\ ~Complete(s, Wanted(w, h))
          /\ \/ e = 0 /\ Wanted(w, h) = ReleasedModel
             \/ /\ thread[w][h].at \in 1 .. Len(want[w])
                /\ Wanted(w, h) = want[w][thread[w][h].at] /\ Wanted(w, h)[1] = e
                /\ Wanted(w, h) \in Models
      BY <1>0, <2>3, StartFacts
    <3>2. Wanted(w, h) = OnDisk(e)
      <4>1. CASE e = 0 /\ Wanted(w, h) = ReleasedModel
        BY <4>1 DEF OnDisk
      <4>2. CASE /\ thread[w][h].at \in 1 .. Len(want[w])
                 /\ Wanted(w, h) = want[w][thread[w][h].at] /\ Wanted(w, h)[1] = e
                 /\ Wanted(w, h) \in Models
        <5>1. Seen(want[w][thread[w][h].at])
          BY <4>2 DEF EpisodesBetween
        <5> DEFINE m == Wanted(w, h)
        <5>2. m \in Models /\ Seen(m) /\ m[1] = e
          BY <4>2, <5>1
        <5> HIDE DEF m
        <5>3. m = OnDisk(e)
          BY <5>2, UnreplacedIs
        <5>4. QED
          BY <5>3 DEF m
      <4>3. QED
        BY <3>1, <4>1, <4>2
    <3>3. OnDisk(e)[1] = e
      BY OnDiskFacts DEF Typed
    <3>4. Complete(s, OnDisk(e))
      BY <1>2, <2>1, <3>3, FileAssumption DEF Complete
    <3>5. QED
      BY <3>1, <3>2, <3>4
  <2>4. \A v \in Evaluators : ~Alive(v, s)'
    BY <1>0, <2>1, <2>3, AliveBefore
  <2>5. QED
    BY <1>0, <2>1, <2>2, <2>4 DEF Matched
<1>3. ASSUME receipt[s] \notin Receipt, receipt'[s] \in Receipt PROVE Matched(s)'
  <2>1. PICK x \in Evaluators, r \in Slots : WriteReceipt(x, r) \/ Block(x, r)
    BY <1>3, WhoChanges
  <2>2. r = s /\ WriteReceipt(x, s)
    <3>1. \E new : receipt' = [receipt EXCEPT ![r] = new]
      BY <2>1 DEF WriteReceipt, Block
    <3>2. r = s
      BY <1>0, <1>1, <1>3, <3>1
    <3>3. ASSUME Block(x, s) PROVE FALSE
      <4>1. receipt'[s] = Blocked
        BY <1>0, <1>1, <3>3 DEF Block
      <4>2. QED
        BY <1>3, <4>1, FileAssumption
    <3>4. QED
      BY <2>1, <3>2, <3>3
  <2>3. /\ receipt'[s].by = x /\ receipt'[s].epoch = e
        /\ episode' = episode /\ child[x][s].step = "written"
    <3>1. EpochIn(x, s) = e
      BY <1>0 DEF EpochIn
    <3>2. QED
      BY <1>0, <1>1, <2>2, <3>1 DEF WriteReceipt, StepChild
  <2>4. /\ episode[s] = [by |-> x, ran |-> child[x][s].ran, hash |-> child[x][s].hash]
        /\ child[x][s].hash[1] = e /\ Seen(child[x][s].hash)
        /\ child[x][s].hash \in Models /\ child[x][s].ran \in Models
    <3>1. EpochIn(x, s) = e
      BY <1>0 DEF EpochIn
    <3>2. QED
      BY <1>0, <1>1, <2>3, <3>1 DEF ChildWrote
  <2>5. child[x][s].hash = OnDisk(e)
    BY <2>4, UnreplacedIs
  <2>6. episode[s] \in Episode /\ episode[s].by = x /\ episode[s].hash = OnDisk(e)
    BY <2>4, <2>5 DEF Episode
  <2>7. ASSUME NEW v \in Evaluators, Alive(v, s)' PROVE FALSE
    <3>1. \A w \in Evaluators, h \in 1 .. Gpus : ~Starts(w, h, s)
      BY <1>3 DEF Starts, Check, files
    <3>2. Alive(v, s) /\ Alive(x, s)
      BY <1>0, <2>3, <2>7, <3>1, AliveBefore DEF Alive
    <3>3. v = x
      BY <1>0, <3>2 DEF OneAlive
    <3>4. PICK to \in {"zero", "nonzero"} : child' = [child EXCEPT ![x][s].step = to]
      BY <2>2 DEF WriteReceipt, StepChild
    <3> DEFINE new == [child[x][s] EXCEPT !.step = to]
    <3>5. new.step = to
      BY <1>0, <1>1
    <3>6. child' = [child EXCEPT ![x][s] = new]
      BY <3>4
    <3> HIDE DEF new
    <3>7. child'[x][s].step = to
      BY <1>0, <1>1, <3>5, <3>6
    <3>8. QED
      BY <2>7, <3>3, <3>7 DEF Alive
  <2>8. QED
    BY <1>0, <2>3, <2>6, <2>7 DEF Matched
<1>4. ASSUME receipt'[s] \notin Receipt PROVE Matched(s)'
  BY <1>4 DEF Matched
<1>5. Matched(s)'
  BY <1>2, <1>3, <1>4
<1>6. QED
  BY <1>0, <1>5

(* So it is with every screened slot, until its checkpoint is replaced.    *)
LEMMA SlotsMatchedKept ==
    ASSUME Typed, Typed', EpisodesBetween, OneAlive, SlotsMatched, [Next]_vars,
           \A v \in Evaluators, s \in Slots : ChildWrote(v, s)
    PROVE  SlotsMatched'
<1> SUFFICES ASSUME NEW u \in 1 .. Units, NEW e \in Conditions, Unreplaced(e)'
             PROVE  Matched(<<"screen", u, e>>)'
  BY DEF SlotsMatched
<1>1. Unreplaced(e) /\ OnDisk(e)' = OnDisk(e)
  BY UnreplacedBefore
<1>2. QED
  BY <1>1, MatchedKept DEF SlotsMatched

(* No child writes the receipt of a settled slot.                          *)
LEMMA SettledReceipt ==
    ASSUME Typed, [Next]_vars, NEW s \in Slots, NEW m, Settled(s, m)
    PROVE  receipt'[s] = receipt[s]
BY FilesMove DEF Settled

(* A queue that takes a complete slot has read the receipt there.          *)
LEMMA TakenProgress ==
    ASSUME Typed, NEW v \in Evaluators, NEW g \in 1 .. Gpus, AtWork(v, g), Take(v, g)
    PROVE  LET t == thread[v][g]  n == thread'[v][g] IN
           IF t.at = 0 THEN n.progress[1] = receipt[Here(v, g)].by
                       ELSE n.progress = <<t.progress[1], receipt[Here(v, g)].by>>
<1> DEFINE t == thread[v][g]
           first == [t EXCEPT !.progress = <<receipt[Here(v, g)].by>>, !.at = 1, !.step = "check"]
           both == [t EXCEPT !.progress = <<t.progress[1], receipt[Here(v, g)].by>>, !.step = "pair"]
<1>0. thread \in [Evaluators -> [1 .. Gpus -> Thread]] /\ t \in Thread
  BY DEF Typed, EvaluatorTyped
<1>1. first.progress = <<receipt[Here(v, g)].by>>
  BY <1>0 DEF Thread
<1>2. both.progress = <<t.progress[1], receipt[Here(v, g)].by>>
  BY <1>0 DEF Thread
<1>3. thread' = [thread EXCEPT ![v][g] = IF t.at = 0 THEN first ELSE both]
  BY DEF Take
<1> HIDE DEF first, both
<1>4. thread'[v][g] = IF t.at = 0 THEN first ELSE both
  BY <1>0, <1>3
<1>5. QED
  BY <1>1, <1>2, <1>4

(* What a queue has read it carries on to the next candidate.              *)
LEMMA QueueProgress ==
    ASSUME Typed, [Next]_vars, NEW v \in Evaluators, NEW g \in 1 .. Gpus, AtWork(v, g)',
           thread'[v][g] # thread[v][g]
    PROVE  LET t == thread[v][g]  n == thread'[v][g] IN
           \/ n.at = 0 /\ n.step # "pair"
           \/ /\ AtWork(v, g) /\ n.step # "pair" /\ n.unit = t.unit /\ n.progress = t.progress
              /\ n.at > 0 => t.at > 0
           \/ /\ AtWork(v, g) /\ n.unit = t.unit /\ receipt' = receipt
              /\ \/ /\ t.at = 0 /\ n.step = "check"
                    /\ n.progress[1] = receipt[Here(v, g)].by
                 \/ /\ t.at > 0 /\ n.at = t.at /\ n.step = "pair"
                    /\ n.progress = <<t.progress[1], receipt[Here(v, g)].by>>
<1> DEFINE t == thread[v][g]
           n == thread'[v][g]
<1>0. thread \in [Evaluators -> [1 .. Gpus -> Thread]] /\ t \in Thread
  BY DEF Typed, EvaluatorTyped
<1>1. CASE n = FirstOf(g)
  BY <1>1, FirstOfFacts
<1>2. CASE /\ Complete(Here(v, g), Wanted(v, g)) /\ Take(v, g)
           /\ Check(v, g) \/ Wait(v, g)
  <2>1. AtWork(v, g) /\ receipt' = receipt
    BY <1>2 DEF Check, Wait, AtWork, files
  <2>2. QED
    BY <1>2, <2>1, TakeFacts, TakenProgress
<1>3. CASE Raise(v, g)
  BY <1>3, RaiseFacts DEF AtWork
<1>4. CASE Check(v, g) /\ ~Complete(Here(v, g), Wanted(v, g))
  <2> DEFINE new == [t EXCEPT !.step = "wait"]
  <2>1. new.step = "wait" /\ new.unit = t.unit /\ new.at = t.at /\ new.progress = t.progress
    BY <1>0 DEF Thread
  <2>2. thread' = [thread EXCEPT ![v][g] = new] /\ AtWork(v, g)
    BY <1>4 DEF Check, AtWork
  <2> HIDE DEF new
  <2>3. n = new
    BY <1>0, <2>2
  <2>4. QED
    BY <2>1, <2>2, <2>3
<1>5. CASE BuildPair(v, g) /\ thread' = [thread EXCEPT ![v][g] = NextInQueue(v, thread[v][g])]
  <2> DEFINE new == NextInQueue(v, thread[v][g])
  <2>1. t.step = "pair" /\ AtWork(v, g)
    BY <1>5 DEF BuildPair, AtWork
  <2>2. t.at > 0
    BY <2>1 DEF Typed, QueueTyped
  <2>3. \/ new.step = "check" /\ new.unit = t.unit /\ new.progress = t.progress
        \/ new.step = "check" /\ new.at = 0
        \/ new.step = "done"
    BY <2>1, NextFacts
  <2> HIDE DEF new
  <2>4. n = new
    BY <1>0, <1>5 DEF new
  <2>5. QED
    BY <2>1, <2>2, <2>3, <2>4 DEF AtWork
<1>6. QED
  BY <1>1, <1>2, <1>3, <1>4, <1>5, ThreadMoves DEF Check, Wait, BuildPair

(* The receipts it has read are those of settled slots, and stay.          *)
LEMMA QueueMatchedKept ==
    ASSUME Typed, Typed', QueuesSettled, [Next]_vars,
           NEW v \in Evaluators, NEW g \in 1 .. Gpus, QueueMatched(v, g)
    PROVE  QueueMatched(v, g)'
<1> SUFFICES ASSUME Screening(v)', AtWork(v, g)'
             PROVE  /\ thread'[v][g].at > 0 =>
                          thread'[v][g].progress[1] = receipt'[<<"screen", thread'[v][g].unit, 0>>].by
                    /\ thread'[v][g].step = "pair" =>
                          thread'[v][g].progress[2] =
                             receipt'[<<"screen", thread'[v][g].unit, Wanted(v, g)'[1]>>].by
  BY DEF QueueMatched
<1> DEFINE t == thread[v][g]
           n == thread'[v][g]
<1>1. Screening(v) /\ mode[v] # "heldout"
  BY ScreeningBefore DEF Screening
<1>2. ASSUME AtWork(v, g), t.at > 0
      PROVE  /\ t.progress[1] = receipt[<<"screen", t.unit, 0>>].by
             /\ receipt'[<<"screen", t.unit, 0>>] = receipt[<<"screen", t.unit, 0>>]
  <2>1. Settled(<<"screen", t.unit, 0>>, ReleasedModel)
    BY <1>1, <1>2 DEF QueuesSettled
  <2>2. <<"screen", t.unit, 0>> \in Slots
    BY <1>2, QueueFacts, SlotIntro, SizeAssumption DEF Conditions
  <2>3. QED
    BY <1>1, <1>2, <2>1, <2>2, SettledReceipt DEF QueueMatched
<1>3. ASSUME AtWork(v, g), n.at = t.at PROVE Wanted(v, g)' = Wanted(v, g)
  <2>1. want'[v] = want[v]
    BY <1>3, QueueFacts, FixedKept
  <2>2. QED
    BY <1>3, <2>1 DEF Wanted, Want
<1>4. CASE n = t
  <2>1. AtWork(v, g)
    BY <1>4 DEF AtWork
  <2>2. ASSUME t.step = "pair"
        PROVE  n.progress[2] = receipt'[<<"screen", n.unit, Wanted(v, g)'[1]>>].by
    <3> DEFINE s == <<"screen", t.unit, Wanted(v, g)[1]>>
    <3>1. t.progress[2] = receipt[s].by /\ Settled(s, Wanted(v, g))
      BY <1>1, <2>1, <2>2 DEF QueueMatched, QueuesSettled
    <3>2. s \in Slots
      BY <2>1, QueueFacts, SlotIntro, ModelFacts
    <3> HIDE DEF s
    <3>3. receipt'[s] = receipt[s]
      BY <3>1, <3>2, SettledReceipt
    <3>4. QED
      BY <1>3, <1>4, <2>1, <3>1, <3>3 DEF s
  <2>3. QED
    BY <1>2, <1>4, <2>1, <2>2
<1>5. CASE n.at = 0 /\ n.step # "pair"
  BY <1>5
<1>6. CASE /\ AtWork(v, g) /\ n.step # "pair" /\ n.unit = t.unit /\ n.progress = t.progress
           /\ n.at > 0 => t.at > 0
  BY <1>2, <1>6
<1>7. CASE /\ AtWork(v, g) /\ n.unit = t.unit /\ receipt' = receipt
           /\ t.at = 0 /\ n.step = "check" /\ n.progress[1] = receipt[Here(v, g)].by
  <2>1. Here(v, g) = <<"screen", t.unit, 0>>
    BY <1>1, <1>7, ScreenSlots DEF Here
  <2>2. QED
    BY <1>7, <2>1
<1>8. CASE /\ AtWork(v, g) /\ n.unit = t.unit /\ receipt' = receipt
           /\ t.at > 0 /\ n.at = t.at /\ n.step = "pair"
           /\ n.progress = <<t.progress[1], receipt[Here(v, g)].by>>
  <2>1. t.at \in 1 .. Len(want[v])
    BY <1>8, QueueFacts
  <2>2. /\ Slot(v, t.unit, t.at) = <<"screen", t.unit, want[v][t.at][1]>>
        /\ Want(v, t.at) = want[v][t.at]
    BY <1>1, <2>1, ScreenSlots
  <2>3. Wanted(v, g)' = Wanted(v, g)
    BY <1>3, <1>8
  <2>4. QED
    BY <1>2, <1>8, <2>2, <2>3 DEF Here, Wanted
<1>9. QED
  BY <1>4, <1>5, <1>6, <1>7, <1>8, QueueProgress

(* So a queue builds a pair of whole episodes.                             *)
LEMMA BuiltWhole ==
    ASSUME Typed, QueuesSettled, SlotsMatched, NEW v \in Evaluators, NEW g \in 1 .. Gpus,
           QueueMatched(v, g), BuildPair(v, g), mode[v] # "heldout", NEW p,
           p = PairOf(thread[v][g].unit, episode[Here(v, g)],
                      episode[Slot(v, thread[v][g].unit, 0)], thread[v][g].progress),
           thread[v][g].at \in 1 .. Len(want[v]), p.hash = want[v][thread[v][g].at]
    PROVE  /\ p.releasedBy = p.releasedProgress
           /\ content[p.hash[1]] = 0 => p.by = p.progress
<1> DEFINE t == thread[v][g]
           m == want[v][t.at]
           s == <<"screen", t.unit, m[1]>>
           r == <<"screen", t.unit, 0>>
<1>1. t.step = "pair" /\ AtWork(v, g) /\ Screening(v) /\ t.unit \in 1 .. Units /\ t.at > 0
  BY QueueFacts DEF BuildPair, AtWork, Screening, Live
<1>2. /\ Slot(v, t.unit, 0) = r /\ Slot(v, t.unit, t.at) = s /\ Want(v, t.at) = m
      /\ m \in Models /\ m[1] \in 1 .. Epochs
  BY ScreenSlots
<1>3. r \in Slots /\ s \in Slots
  BY <1>1, <1>2, SlotIntro, ModelFacts, SizeAssumption DEF Conditions
<1>4. Complete(r, ReleasedModel) /\ Complete(s, m)
  BY <1>1, <1>2 DEF QueuesSettled, Settled, Wanted
<1>5. t.progress[1] = receipt[r].by /\ t.progress[2] = receipt[s].by
  BY <1>1, <1>2 DEF QueueMatched, Wanted
<1>6. \A x \in Slots : receipt[x] \in Receipt \cup {Absent, Blocked}
  BY DEF Typed, FilesTyped
<1>7. receipt[r] \in Receipt /\ receipt[s] \in Receipt
  BY <1>3, <1>4, <1>6 DEF Complete
<1>8. episode[r].by = receipt[r].by
  <2>1. Matched(r)
    BY <1>1, SizeAssumption DEF SlotsMatched, Unreplaced, Conditions
  <2>2. QED
    BY <1>7, <2>1 DEF Matched
<1>9. ASSUME content[m[1]] = 0 PROVE episode[s].by = receipt[s].by
  <2>1. Matched(s)
    BY <1>1, <1>2, <1>9, ModelFacts DEF SlotsMatched, Unreplaced
  <2>2. QED
    BY <1>7, <2>1 DEF Matched
<1>10. /\ p.releasedBy = episode[r].by /\ p.releasedProgress = t.progress[1]
       /\ p.by = episode[s].by /\ p.progress = t.progress[2] /\ p.hash = m
  BY <1>2 DEF PairOf, Here
<1>11. QED
  BY <1>5, <1>8, <1>9, <1>10

(* And pairs that were built stay as they are; an evaluator that has some  *)
(* does not start, and what is not replaced was not before.                *)
LEMMA PairsUnmixedKept ==
    ASSUME Typed, Typed', PairsOfWanted, QueuesSettled, UnitsCounted, SlotsMatched, PairsUnmixed,
           \A v \in Evaluators, g \in 1 .. Gpus : QueueMatched(v, g), [Next]_vars
    PROVE  PairsUnmixed'
<1>0. rows \in [Evaluators -> SUBSET Pair] /\ rows' \in [Evaluators -> SUBSET Pair]
  BY DEF Typed, EvaluatorTyped
<1> SUFFICES ASSUME NEW v \in Evaluators, mode'[v] # "heldout", NEW p \in rows'[v]
             PROVE  /\ p.releasedBy = p.releasedProgress
                    /\ content'[p.hash[1]] = 0 => p.by = p.progress
  BY <1>0 DEF PairsUnmixed
<1>1. CASE p \in rows[v]
  <2>1. mode[v] # "heldout"
    <3>1. StartScreening(v) \/ StartHeldout(v) => rows[v] = {}
      BY DEF StartScreening, StartHeldout, UnitsCounted, EvaluatorCounted
    <3>2. QED
      BY <1>1, <3>1, TodoMoves
  <2>2. PICK i \in 1 .. Len(want[v]) : p.hash = want[v][i]
    BY <1>1 DEF PairsOfWanted
  <2>3. p.hash[1] \in 1 .. Epochs
    BY <2>2, WantFacts DEF Typed
  <2>4. content'[p.hash[1]] = 0 => content[p.hash[1]] = 0
    <3> DEFINE e == p.hash[1]
    <3>1. content[e] \in Nat /\ content'[e] \in Nat /\ content[e] <= content'[e]
      BY <2>3, ContentGrows
    <3>2. QED
      BY <3>1
  <2>5. QED
    BY <1>0, <1>1, <2>1, <2>4 DEF PairsUnmixed
<1>2. CASE p \notin rows[v]
  <2>1. PICK g \in 1 .. Gpus : BuildPair(v, g) /\ thread'[v][g].step # "raised"
    BY <1>2, RowsMove
  <2>2. PICK q \in Pair :
           /\ rows' = [rows EXCEPT ![v] = @ \cup {q}]
           /\ q = PairOf(thread[v][g].unit, episode[Here(v, g)],
                         episode[Slot(v, thread[v][g].unit, 0)], thread[v][g].progress)
           /\ q.hash = want[v][thread[v][g].at]
    BY <2>1, BuiltRow
  <2>3. p = q
    BY <1>0, <1>2, <2>2
  <2>4. mode' = mode /\ content' = content /\ thread[v][g].at \in 1 .. Len(want[v])
    BY <2>1, BuiltRow DEF BuildPair, files
  <2>5. /\ q.releasedBy = q.releasedProgress
        /\ content[q.hash[1]] = 0 => q.by = q.progress
    BY <2>1, <2>2, <2>4, BuiltWhole
  <2>6. QED
    BY <2>3, <2>4, <2>5
<1>3. QED
  BY <1>1, <1>2

(* What evaluators that run one after the other count is whole pairs: the  *)
(* success and the progress of one episode each, and each unit once for    *)
(* each candidate.                                                         *)
THEOREM PairsAreWhole ==
    ASSUME ~Overlap, ~Orphans
    PROVE  Spec => []PairsWhole
<1> DEFINE Inv == /\ PairsOfWanted /\ OneLive /\ Alone /\ OwnUnits /\ OwnEpochs /\ QueuesSettled
                  /\ UnitsCounted /\ WritersMatched /\ PairsUnmixed
<1>1. Init => Inv
  <2> SUFFICES ASSUME Init PROVE Inv
    OBVIOUS
  <2>1. \A v \in Evaluators : ~Live(v) /\ pc[v] = "idle" /\ rows[v] = {} /\ todo[v] = <<>>
    BY DEF Init, Live
  <2>2. \A v \in Evaluators, g \in 1 .. Gpus : ~AtWork(v, g)
    BY DEF Init, AtWork, IdleThread
  <2>3. /\ \A e \in 1 .. Epochs : epochReceipt[e] = Absent
        /\ selection = Absent /\ heldout = Absent
    BY DEF Init
  <2>4. UnitsCounted
    BY <2>1, <2>3 DEF UnitsCounted, CandidatesOfMode, EvaluatorCounted, FilesCounted
  <2>5. \A v \in Evaluators, s \in Slots : child[v][s].step = "none"
    BY DEF Init, NoChild
  <2>6. \A s \in Slots : receipt[s] \notin Receipt
    BY FileAssumption DEF Init
  <2>7. SlotsMatched
    BY <2>6, SlotIntro DEF SlotsMatched, Matched
  <2>8. WritersMatched
    BY <2>2, <2>5, <2>7 DEF WritersMatched, OneAlive, Alive, ChildWrote, QueueMatched
  <2>9. DOMAIN rows = Evaluators
    BY DEF Init
  <2>10. QED
    BY <2>1, <2>2, <2>4, <2>8, <2>9 DEF PairsOfWanted, OneLive, Alone, OwnUnits, OwnEpochs,
       QueuesSettled, Screening, PairsUnmixed
<1>2. Inv /\ Typed /\ EpisodesBetween /\ Typed' /\ [Next]_vars => Inv'
  <2> SUFFICES ASSUME Inv, Typed, EpisodesBetween, Typed', [Next]_vars PROVE Inv'
    OBVIOUS
  <2>1. /\ PairsOfWanted' /\ OneLive' /\ Alone' /\ OwnUnits' /\ OwnEpochs' /\ QueuesSettled'
        /\ UnitsCounted'
    BY PairsOfWantedKept, OneLiveKept, AloneKept, OwnUnitsKept, OwnEpochsKept,
       QueuesSettledKept, UnitsCountedKept
  <2>2. WritersMatched'
    BY OneAliveKept, SlotsMatchedKept, ChildWroteKept, QueueMatchedKept DEF WritersMatched
  <2>3. PairsUnmixed'
    BY PairsUnmixedKept DEF WritersMatched
  <2>4. QED
    BY <2>1, <2>2, <2>3
<1>3. Spec => []Typed /\ []EpisodesBetween
  BY BetweenTheHashes, PTL
<1>4. Inv => PairsUnmixed
  OBVIOUS
<1>5. PairsUnmixed /\ CountsEachUnitOnce => PairsWhole
  BY DEF PairsWhole
<1> HIDE DEF Inv
<1>6. QED
  BY <1>1, <1>2, <1>3, <1>4, <1>5, UnitsAreCounted, PTL DEF Spec
=============================================================================
