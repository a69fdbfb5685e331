---------------------------- MODULE ScreenSelection ----------------------------
(***************************************************************************)
(* What the screening and held-out evaluation COUNT, and the checkpoint    *)
(* they select (run_handover_mic_success_path_eval.py), while the training *)
(* run still publishes its epochs.                                         *)
(*                                                                         *)
(* Evaluation models who runs an episode and with which weights; here an   *)
(* episode is its outcome, drawn when it is first run and reused by every  *)
(* later invocation.  One invocation runs at a time and may be killed      *)
(* anywhere.                                                               *)
(***************************************************************************)
EXTENDS Integers, Sequences, FiniteSets, Functions

CONSTANTS
  Epochs,    \* inner epochs of the training run, all of them candidates
  Banks,     \* noise banks of each phase
  Seeds,     \* episode seeds of each phase
  Gpus,      \* GPUs, and so queues, of an invocation
  Outcomes,  \* outcomes of an episode: success and highest ordinal stage
  Allowed,   \* the subcommands in use
  Losses,    \* calibration losses of an epoch
  NaN,       \* a loss that is no number
  Absent     \* a file that is not there

Configured ==
  /\ Epochs \in Nat \ {0} /\ Gpus \in Nat \ {0}
  /\ Banks \in [{"screening", "heldout"} -> Nat \ {0}]
  /\ Seeds \in [{"screening", "heldout"} -> Nat \ {0}]
  /\ Allowed \subseteq {"screen_epoch", "screen", "heldout"}
  /\ Outcomes \subseteq [success : BOOLEAN, stage : 0..3]
  /\ Losses \subseteq Nat \cup {NaN}
  /\ NaN \notin Int /\ Absent \notin Outcomes

VARIABLES
  \* -- the training run's files --
  published,  \* how many epoch checkpoints exist; the last is the final one
  losses,     \* summary.json: the calibration loss of each epoch
  \* -- the evaluation's files --
  episode,    \* outcome of each phase, unit and condition (0: released)
  epochReceipt,  \* epoch_XX_receipt.json: the aggregate of an epoch
  summary,    \* screen/summary.json: the aggregates and the selected epoch
  selection,  \* screen/selection.json
  heldout,    \* heldout/summary.json
  \* -- the invocation --
  mode,       \* idle, or its subcommand
  wanted,     \* the epochs of its candidates
  queue,      \* each GPU's thread: its unit, and which of its episodes is next
  rows        \* the pairs each thread has built

training == <<published, losses>>
files == <<episode, epochReceipt, summary, selection, heldout>>
invocation == <<mode, wanted, queue, rows>>
vars == <<training, files, invocation>>

-----------------------------------------------------------------------------
(* _phase_units and _parallel_queues: every seed of every bank, dealt to   *)
(* the queues in turn.                                                     *)

PhaseUnits(phase) == 1..(Banks[phase] * Seeds[phase])
Bank(phase, u) == ((u - 1) \div Seeds[phase]) + 1
Seed(phase, u) == ((u - 1) % Seeds[phase]) + 1

(* Of a unit a thread runs the released episode (0), then that of each     *)
(* candidate.                                                              *)
Queues == [g \in 1..Gpus |-> [unit |-> g, next |-> 0]]
After(q) == IF q.next < Len(wanted) THEN [q EXCEPT !.next = @ + 1]
            ELSE [unit |-> q.unit + Gpus, next |-> 0]

(* Held-out names the selected checkpoint's condition "adapted".           *)
PhaseOf(subcommand) == IF subcommand = "heldout" THEN "heldout" ELSE "screening"
Phase == PhaseOf(mode)
Condition(e) == IF mode = "heldout" /\ e # 0 THEN 1 ELSE e

Slots == UNION {{phase} \X PhaseUnits(phase) \X (0..Epochs) : phase \in {"screening", "heldout"}}

-----------------------------------------------------------------------------
(* _build_pair: one row of a unit and a candidate.                         *)

PairOf(u, e, released, adapted, rescue, delta) ==
  [unit |-> u, epoch |-> e,
   released |-> released.success, adapted |-> adapted.success,
   rescue |-> rescue,
   regression |-> released.success /\ ~adapted.success,
   delta |-> delta]

PairAnyRescue(u, e, released, adapted) ==
  PairOf(u, e, released, adapted, adapted.success, adapted.stage - released.stage)
Pair(u, e, released, adapted) ==
  PairOf(u, e, released, adapted, ~released.success /\ adapted.success,
         adapted.stage - released.stage)

Count(S, P(_)) == Cardinality({r \in S : P(r)})
Gained(r) == (IF r.rescue THEN 1 ELSE 0) - (IF r.regression THEN 1 ELSE 0)
Net(S) == SumFunction([r \in S |-> Gained(r)])
Delta(S) == SumFunction([r \in S |-> r.delta])

(* _candidate_aggregate and _heldout_bucket.                               *)
BucketKept(S) ==
  [pairs |-> Cardinality(S),
   released |-> Count(S, LAMBDA r : r.released /\ r.adapted),
   adapted |-> Count(S, LAMBDA r : r.adapted),
   net |-> Net(S),
   delta |-> Delta(S),
   improvements |-> Count(S, LAMBDA r : r.delta > 0),
   regressions |-> Count(S, LAMBDA r : r.delta < 0)]
Bucket(S) ==
  [pairs |-> Cardinality(S),
   released |-> Count(S, LAMBDA r : r.released),
   adapted |-> Count(S, LAMBDA r : r.adapted),
   net |-> Net(S),
   delta |-> Delta(S),
   improvements |-> Count(S, LAMBDA r : r.delta > 0),
   regressions |-> Count(S, LAMBDA r : r.delta < 0)]

SelectionKeyLeadFirst(e, b, loss) ==
  <<b.adapted, b.improvements - b.regressions, b.delta, IF loss = NaN THEN NaN ELSE -loss, -e>>

SelectionKey(e, b, loss) ==
  <<b.adapted, b.delta, b.improvements - b.regressions, IF loss = NaN THEN NaN ELSE -loss, -e>>

(* Python compares tuples at their first difference; NaN differs from      *)
(* everything, and no comparison with it is true.                          *)
Greater(a, b) ==
  \E i \in DOMAIN a :
    /\ \A j \in 1..(i - 1) : a[j] = b[j] /\ a[j] # NaN
    /\ NaN \notin {a[i], b[i]}
    /\ a[i] > b[i]

(* max keeps the first of the greatest.                                    *)
Best(epochs, bucket, loss) ==
  LET key(e) == SelectionKey(e, bucket[e], loss[e])
      best[n \in DOMAIN epochs] ==
        IF n = 1 THEN epochs[1]
        ELSE LET b == best[n - 1]
             IN IF Greater(key(epochs[n]), key(b)) THEN epochs[n] ELSE b
  IN best[Len(epochs)]

-----------------------------------------------------------------------------
(* The training run.                                                       *)

PublishCheckpoint ==
  /\ published < Epochs
  /\ published' = published + 1
  /\ UNCHANGED <<losses, files, invocation>>

PublishSummary ==
  /\ published = Epochs /\ losses = Absent
  /\ losses' \in [1..Epochs -> Losses]
  /\ UNCHANGED <<published, files, invocation>>

-----------------------------------------------------------------------------
(* An invocation.                                                          *)

(* _resolve_epoch_candidate_checkpoint: the last epoch has no checkpoint   *)
(* of its own but the final one, bound to the summary.                     *)
Resolvable(e) == e <= published /\ (e = Epochs => losses # Absent)

(* _load_candidates                                                        *)
Loadable == losses # Absent /\ \A e \in 1..Epochs : losses[e] # NaN

Start(subcommand, epochs) ==
  /\ mode = "idle" /\ subcommand \in Allowed
  /\ mode' = subcommand
  /\ wanted' = epochs
  /\ queue' = Queues
  /\ rows' = [g \in 1..Gpus |-> {}]
  /\ UNCHANGED <<training, files>>

StartScreenEpoch(e) == Resolvable(e) /\ Start("screen_epoch", <<e>>)
StartScreen == Loadable /\ Start("screen", [e \in 1..Epochs |-> e])
StartHeldout == selection # Absent /\ Start("heldout", <<selection.epoch>>)

(* _run_policy: an episode that is complete is not run again.              *)
RunRetried(slot) ==
  IF episode[slot] # Absent /\ episode[slot].success THEN {episode[slot]} ELSE Outcomes
Run(slot) == IF episode[slot] = Absent THEN Outcomes ELSE {episode[slot]}

(* The next episode of a thread, and the pair it completes.                *)
RunEpisode(g) ==
  /\ mode # "idle" /\ queue[g].unit \in PhaseUnits(Phase)
  /\ LET u == queue[g].unit
         e == IF queue[g].next = 0 THEN 0 ELSE wanted[queue[g].next]
         slot == <<Phase, u, Condition(e)>>
     IN \E o \in Run(slot) :
          /\ episode' = [episode EXCEPT ![slot] = o]
          /\ rows' = IF e = 0 THEN rows
                     ELSE [rows EXCEPT ![g] = @ \cup {Pair(u, e, episode[<<Phase, u, 0>>], o)}]
  /\ queue' = [queue EXCEPT ![g] = After(@)]
  /\ UNCHANGED <<training, epochReceipt, summary, selection, heldout, mode, wanted>>

Gathered == mode # "idle" /\ \A g \in 1..Gpus : queue[g].unit \notin PhaseUnits(Phase)
Rows == UNION {rows[g] : g \in 1..Gpus}
RowsOf(e) == {r \in Rows : r.epoch = e}

(* A phase of fewer pairs than units raises and commits nothing.           *)
AllPairs == \A i \in DOMAIN wanted : Cardinality(RowsOf(wanted[i])) = Cardinality(PhaseUnits(Phase))

Idle ==
  /\ mode' = "idle" /\ wanted' = <<>>
  /\ queue' = Queues /\ rows' = [g \in 1..Gpus |-> {}]
Return == Idle /\ UNCHANGED <<training, episode>>

CommitEpochSelects ==
  /\ mode = "screen_epoch" /\ Gathered /\ AllPairs
  /\ epochReceipt' = [epochReceipt EXCEPT ![wanted[1]] = Bucket(Rows)]
  /\ selection' = [epoch |-> wanted[1], key |-> SelectionKey(wanted[1], Bucket(Rows), NaN)]
  /\ UNCHANGED <<summary, heldout>>
  /\ Return
CommitEpoch ==
  /\ mode = "screen_epoch" /\ Gathered /\ AllPairs
  /\ epochReceipt' = [epochReceipt EXCEPT ![wanted[1]] = Bucket(Rows)]
  /\ UNCHANGED <<summary, selection, heldout>>
  /\ Return

CommitSummary ==
  /\ mode = "screen" /\ Gathered /\ AllPairs
  /\ LET bucket == [e \in 1..Epochs |-> Bucket(RowsOf(e))]
     IN summary' = [bucket |-> bucket, epoch |-> Best(wanted, bucket, losses)]
  /\ mode' = "screened"
  /\ UNCHANGED <<training, episode, epochReceipt, selection, heldout, wanted, queue, rows>>

(* The selection is written after the summary, from the same variables.    *)
CommitSelection ==
  /\ mode = "screened"
  /\ selection' = [epoch |-> summary.epoch,
                   key |-> SelectionKey(summary.epoch, summary.bucket[summary.epoch],
                                       losses[summary.epoch])]
  /\ UNCHANGED <<epochReceipt, summary, heldout>>
  /\ Return

BankRowsBySeed(b) == {r \in Rows : Seed("heldout", r.unit) = b}
BankRows(b) == {r \in Rows : Bank("heldout", r.unit) = b}

CommitHeldout ==
  /\ mode = "heldout" /\ Gathered /\ AllPairs
  /\ heldout' = [epoch |-> wanted[1], all |-> Bucket(Rows),
                 byBank |-> [b \in {Bank("heldout", r.unit) : r \in Rows} |-> Bucket(BankRows(b))]]
  /\ UNCHANGED <<epochReceipt, summary, selection>>
  /\ Return

(* A kill, or an exception of a thread.                                    *)
Abort ==
  /\ mode # "idle"
  /\ Idle
  /\ UNCHANGED <<training, files>>

Commit == CommitEpoch \/ CommitSummary \/ CommitSelection \/ CommitHeldout

Init ==
  /\ published = 0 /\ losses = Absent
  /\ episode = [slot \in Slots |-> Absent]
  /\ epochReceipt = [e \in 1..Epochs |-> Absent]
  /\ summary = Absent /\ selection = Absent /\ heldout = Absent
  /\ mode = "idle" /\ wanted = <<>>
  /\ queue = Queues /\ rows = [g \in 1..Gpus |-> {}]

Next ==
  \/ PublishCheckpoint \/ PublishSummary
  \/ \E e \in 1..Epochs : StartScreenEpoch(e)
  \/ StartScreen
  \/ StartHeldout
  \/ \E g \in 1..Gpus : RunEpisode(g)
  \/ Commit
  \/ Abort

Spec == Init /\ [][Next]_vars

-----------------------------------------------------------------------------
(* Properties                                                              *)

(* Type invariant of the files and of the invocation.                      *)
TypeOK ==
  /\ published \in 0..Epochs
  /\ losses # Absent => losses \in [1..Epochs -> Losses]
  /\ \A slot \in DOMAIN episode : episode[slot] \in Outcomes \cup {Absent}
  /\ mode \in {"idle", "screen_epoch", "screen", "screened", "heldout"}
  /\ \A i \in DOMAIN wanted : wanted[i] \in 1..Epochs
  /\ \A g \in 1..Gpus : \A r \in rows[g] : r.unit \in PhaseUnits(Phase) /\ r.delta \in -3..3

(* What the episodes on disk say of epoch e, counted unit by unit.         *)
Released(u) == episode[<<"screening", u, 0>>]
Adapted(u, e) == episode[<<"screening", u, e>>]
Successes(e) == Count(PhaseUnits("screening"), LAMBDA u : Adapted(u, e).success)
Gain(e) ==
  SumFunction([u \in PhaseUnits("screening") |-> Adapted(u, e).stage - Released(u).stage])
Lead(e) ==
  Count(PhaseUnits("screening"), LAMBDA u : Adapted(u, e).stage > Released(u).stage)
    - Count(PhaseUnits("screening"), LAMBDA u : Adapted(u, e).stage < Released(u).stage)
Rank(e) == IF losses[e] = NaN THEN -1000 ELSE -losses[e]

Leading(S, measure(_)) == {e \in S : \A f \in S : measure(e) >= measure(f)}
ByRule ==
  LET most == Leading(1..Epochs, Successes)
      farthest == Leading(most, Gain)
      oftenest == Leading(farthest, Lead)
      closest == Leading(oftenest, Rank)
  IN CHOOSE e \in closest : \A f \in closest : e <= f

(* The selected epoch is the one the frozen rule names: most successes,    *)
(* then the largest sum of stage differences, then improvements less       *)
(* regressions, then the lowest loss, then the earliest epoch - whichever  *)
(* invocation, queue or thread ran its episodes.                           *)
SelectedByRule == selection # Absent => selection.epoch = ByRule

(* The gain reported for a checkpoint is its successes less those of the   *)
(* released policy on the same units, in every aggregate and every bank.   *)
Nets(b) == b.net = b.adapted - b.released
NetGain ==
  /\ summary # Absent => \A e \in 1..Epochs : Nets(summary.bucket[e])
  /\ heldout # Absent => Nets(heldout.all) /\ \A b \in 1..Banks["heldout"] : Nets(heldout.byBank[b])

(* All candidates are measured against one released baseline.              *)
OneBaseline ==
  summary # Absent =>
    \A e, f \in 1..Epochs : summary.bucket[e].released = summary.bucket[f].released

(* The held-out numbers are the sums of those of the banks, and each bank  *)
(* counts the successes of its own units.                                  *)
BanksAddUp ==
  heldout # Absent =>
    /\ DOMAIN heldout.byBank = 1..Banks["heldout"]
    /\ \A k \in DOMAIN heldout.all :
         heldout.all[k] = SumFunction([b \in 1..Banks["heldout"] |-> heldout.byBank[b][k]])
    /\ \A b \in 1..Banks["heldout"] :
         heldout.byBank[b].adapted =
           Count({u \in PhaseUnits("heldout") : Bank("heldout", u) = b},
                 LAMBDA u : episode[<<"heldout", u, 1>>].success)

(* An epoch screened while the training still ran is counted the same by   *)
(* the final screening.                                                    *)
ReceiptHolds ==
  \A e \in 1..Epochs :
    epochReceipt[e] # Absent /\ summary # Absent => epochReceipt[e] = summary.bucket[e]

(* The held-out summary is about the selected epoch.                       *)
HeldoutOfSelected == heldout # Absent => selection # Absent /\ heldout.epoch = selection.epoch

(* A selection, once made, is the same after every later screening.        *)
SelectionStable == selection # Absent => selection' = selection

=============================================================================
