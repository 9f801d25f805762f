------------------------------ MODULE TrainBatch ------------------------------
(***************************************************************************)
(* What the trainers make of the trajectories of one training batch, from  *)
(* their collection to the update: AgentPPOTrainer ("ppo") and             *)
(* AgentWorkflowPPOTrainer ("workflow"), with stepwise advantages.  A row  *)
(* is one step of one trajectory; tensors are reduced to what moves rows:  *)
(* their owner, whether they are padding, and one number, the advantage.   *)
(*                                                                         *)
(* The worker groups take batches whose length their size divides, so rows *)
(* are rejected, cut off and padded on the way, and the advantage of a     *)
(* last step is handed to the other steps of its trajectory.               *)
(***************************************************************************)
EXTENDS Integers, FiniteSets, SequencesExt, FiniteSetsExt, Lists

CONSTANTS Prompts,     \* the prompt of each row of the repeated batch
          MaxSteps,    \* most steps of a trajectory
          Worlds,      \* sizes of the actor's worker group
          Factors,     \* by what the lcm of all groups' sizes exceeds that
          Wanted,      \* values of train_batch_size
          Arrivals,    \* bound: orders in which trajectories are collected
          Maskable,    \* bound: trajectories that filters may mask
          MayBeSilent, \* bound: trajectories whose last answer may be empty
          Near,        \* trajectories whose steps read on the call graph
          NaN          \* the mean of no numbers

Trajectories == DOMAIN Prompts

\* The repeated batch has the rows of a prompt one behind the other, and every
\* trajectory is collected once.
ASSUME BatchAssumption ==
    /\ Prompts \in Seq(Nat \ {0})
    /\ Prompts # <<>>
    /\ \A t, u \in Trajectories : t < u => Prompts[t] <= Prompts[u]
    /\ MaxSteps \in Nat \ {0}
    /\ Worlds \cup Factors \cup Wanted \subseteq Nat \ {0}
    /\ Arrivals \subseteq Injection(Trajectories, Trajectories)
    /\ Maskable \cup MayBeSilent \cup Near \subseteq Trajectories
    /\ NaN \notin Int

VARIABLES trainer, mode,  \* "ppo" or "workflow"; "broadcast" or "per_step"
          rejects,        \* rejection_sample.enable
          actors, world,  \* actor_rollout_wg.world_size; lcm of world_sizes
          wanted,         \* train_batch_size
          nsteps,         \* steps of each trajectory
          solved,         \* trajectories with reward 1; the others have 0
          silent,         \* trajectories whose last response has no tokens
          masked,         \* ppo: response_mask is zero; workflow: not is_valid
          stage,          \* what comes next
          rows,           \* batch
          others,         \* other_step_batch, non_last_step_batch
          outcome         \* how the iteration ended

inputs == <<trainer, mode, rejects, actors, world, wanted,
            nsteps, solved, silent, masked>>
vars == <<inputs, stage, rows, others, outcome>>

Ppo == trainer = "ppo"
Broadcast == mode = "broadcast"

End(how) == /\ stage' = "over"
            /\ outcome' = how
            /\ UNCHANGED <<inputs, rows, others>>

-------------------------------------------------------------------------------
(* Batches *)

Lasts(batch)  == Select(batch, {row \in ToSet(batch) : row.last})
Nonlasts(batch) == Select(batch, {row \in ToSet(batch) : ~row.last})
NoPads(batch) == Select(batch, {row \in ToSet(batch) : ~row.pad})

\* pad_dataproto_to_divisor repeats the batch from its start, and
\* _pad_dataproto_to_world_size marks what was added.
Filled(batch) ==
    LET n == Len(batch)
        m == IF n = 0 THEN 0 ELSE (world - (n % world)) % world
    IN  batch \o [i \in 1..m |-> [batch[((i - 1) % n) + 1]
                                     EXCEPT !.last = FALSE, !.pad = TRUE]]

\* _pad_dataproto_to_world_size; the workflow trainer removes old pads first.
Padded(batch) == IF Ppo THEN Filled(batch) ELSE Filled(NoPads(batch))

\* size_mask: as many rows as the actor group's size divides, from the start.
RoundDown(batch) == SubSeq(batch, 1, (Len(batch) \div actors) * actors)

\* By what the other steps are kept when last steps were cut off: idxs, or
\* trajectory_ids, which the rollouts of a task share.
KeptBy(row) == IF Ppo THEN <<row.uid, row.ep>> ELSE <<row.uid>>

\* Mutant: the other steps stay.
Cut_LastsOnly(batch) ==
    RoundDown(Lasts(batch)) \o Nonlasts(batch)
Cut(batch) ==
    LET lasts == RoundDown(Lasts(batch))
        kept  == {KeptBy(row) : row \in ToSet(lasts)}
        stay  == {row \in ToSet(batch) : ~row.last /\ KeptBy(row) \in kept}
    IN  lasts \o Select(batch, stay)

-------------------------------------------------------------------------------
(* Collection *)

Init ==
    /\ trainer \in {"ppo", "workflow"}
    /\ mode \in {"broadcast", "per_step"}
    /\ rejects \in BOOLEAN
    /\ actors \in Worlds
    /\ world \in {actors * f : f \in Factors}
    /\ wanted \in (IF ~Ppo /\ rejects THEN Wanted ELSE {1})
    /\ nsteps \in [Trajectories -> (IF Ppo THEN 1 ELSE 0)..MaxSteps]
    /\ solved \in SUBSET Trajectories
    /\ silent \in SUBSET MayBeSilent
    /\ masked \in SUBSET Maskable
    /\ stage = "collect"
    /\ rows = <<>>
    /\ others = <<>>
    /\ outcome = "none"

\* Mutant: in the order of arrival.
Arranged_AsTheyCome(order) == order

\* The ppo trainer sorts by idx, the number of the trajectory; the engine of
\* the workflow trainer groups the episodes by task, each group in the order of
\* completion.
Arranged(order) ==
    IF Ppo THEN Select([t \in Trajectories |-> t], ToSet(order))
    ELSE FlattenSeq([p \in 1..Prompts[Len(Prompts)] |->
             Select(order, {t \in Trajectories : Prompts[t] = p})])

StepRow(uid, t, k) ==
    [uid |-> uid, ep |-> t, step |-> k, last |-> (k = nsteps[t]),
     pad |-> FALSE, adv |-> 0, near |-> FALSE]

\* Mutant: a row too many for each trajectory.
RowsOf_OneMore(list) ==
    FlattenSeq([i \in DOMAIN list |->
        [k \in 1..(nsteps[list[i]] + 1) |-> StepRow(Prompts[i], list[i], k)]])
\* A row for each step; sample_level_repeat repeats the prompt at a position
\* as often as the trajectory at that position has steps.
RowsOf(list) ==
    FlattenSeq([i \in DOMAIN list |->
        [k \in 1..nsteps[list[i]] |-> StepRow(Prompts[i], list[i], k)]])

\* An episode without steps has no row; a batch without rows cannot be padded
\* to one length (pad_sequence).
Generate ==
    /\ stage = "collect"
    /\ \E order \in Arrivals :
           LET all == RowsOf(Arranged(order))
           IN  IF all = <<>> THEN End("empty")
               ELSE /\ rows' = IF Ppo THEN Padded(all) ELSE all
                    /\ stage' = "reject"
                    /\ UNCHANGED <<inputs, others, outcome>>

-------------------------------------------------------------------------------
(* Rejection sampling and rounding *)

\* Whether the response of a row has tokens.
Answered(row) == ~(row.ep \in silent /\ row.step = nsteps[row.ep])

\* The reward is placed on the last token of a response, if there is one.
Reward(row) == IF row.ep \in solved /\ Answered(row) THEN 1 ELSE 0

\* By what the rows of a prompt are told apart: the score in the row, or
\* is_correct of its episode.
Won(row) == IF Ppo THEN Reward(row) = 1 ELSE row.ep \in solved

\* The prompts of which some rows in the batch have won and some have not.
Mixed == {u \in {row.uid : row \in ToSet(rows)} :
             {Won(row) : row \in {x \in ToSet(rows) : x.uid = u}} = BOOLEAN}

\* Without rejection sampling; the workflow trainer cuts all the same.
KeepAll ==
    /\ stage = "reject"
    /\ ~rejects
    /\ rows' = IF Ppo THEN rows
               ELSE IF Broadcast THEN Padded(Cut(rows)) ELSE Padded(rows)
    /\ stage' = "logprob"
    /\ UNCHANGED <<inputs, others, outcome>>

\* The prompts that stay: the mixed ones, of which the workflow trainer draws
\* as many as it wants and goes on collecting (another batch, whose tasks come
\* behind these) when there are fewer.
Drawn == IF Ppo THEN {Mixed} \ {{}} ELSE kSubset(wanted, Mixed)

\* The last steps are cut off and the batch is padded, or the batch as a whole
\* is cut.
Reject ==
    /\ stage = "reject"
    /\ rejects
    /\ \/ /\ Drawn = {}
          /\ End("skipped")
       \/ \E uids \in Drawn :
              LET left == Select(rows, {x \in ToSet(rows) : x.uid \in uids})
                  kept == IF Broadcast THEN Cut(NoPads(left))
                          ELSE IF Ppo THEN RoundDown(left) ELSE left
              IN  IF Ppo /\ kept = <<>> THEN End("skipped")   \* give up
                  ELSE /\ rows' = IF Broadcast \/ ~Ppo THEN Padded(kept)
                                  ELSE kept
                       /\ stage' = "logprob"
                       /\ UNCHANGED <<inputs, others, outcome>>

\* compute_log_prob on the worker group.
LogProb ==
    /\ stage = "logprob"
    /\ IF rows = <<>> THEN End("empty")
       ELSE /\ stage' = "split"
            /\ UNCHANGED <<inputs, rows, others, outcome>>

-------------------------------------------------------------------------------
(* Advantages *)

\* Last steps only in broadcast mode; rows that are no padding in per_step.
Split ==
    /\ stage = "split"
    /\ others' = IF Broadcast THEN Nonlasts(rows) ELSE <<>>
    /\ rows' = IF Broadcast THEN Lasts(rows) ELSE NoPads(rows)
    /\ stage' = "advantage"
    /\ UNCHANGED <<inputs, outcome>>

\* The group whose mean is taken off: the prompt, or step_ids, which have the
\* number of the step in them.
GroupKey(row) == IF Ppo /\ Broadcast THEN <<row.uid>> ELSE <<row.uid, row.step>>

\* GRPO, times the size of the group; alone in its group a row keeps its
\* reward.
Grpo(row, batch) ==
    LET group == {x \in ToSet(batch) : GroupKey(x) = GroupKey(row)}
        sum   == Cardinality({x \in group : Reward(x) = 1})
        size  == Cardinality(group)
    IN  IF size = 1 THEN Reward(row) ELSE size * Reward(row) - sum

Advantage ==
    /\ stage = "advantage"
    /\ rows' = [i \in DOMAIN rows |->
                   [rows[i] EXCEPT !.adv = Grpo(rows[i], rows)]]
    /\ stage' = IF Broadcast THEN "broadcast" ELSE "reshape"
    /\ UNCHANGED <<inputs, others, outcome>>

\* Whether response_mask of a row is zero throughout.
NoTokens(row) == ~Answered(row) \/ (Ppo /\ row.ep \in masked)

\* Mutant: looked up by the prompt.
Source_OfPrompt(row) == {x \in ToSet(rows) : x.uid = row.uid}
Source(row) == {x \in ToSet(rows) : x.ep = row.ep}

\* _stepwise_advantage_broadcast.  A row whose trajectory has no last step in
\* the batch is a KeyError, no row at all nothing torch.stack could stack; the
\* mean over an empty response_mask is NaN, whatever rows it is handed to.
BroadcastAdvantage ==
    /\ stage = "broadcast"
    /\ IF others = <<>> THEN End("RuntimeError")
       ELSE IF \E row \in ToSet(others) : Source(row) = {} THEN End("KeyError")
       ELSE /\ rows' = rows \o
                  [i \in DOMAIN others |->
                      LET src == CHOOSE x \in Source(others[i]) : TRUE
                      IN  [others[i] EXCEPT
                              !.adv = IF NoTokens(src) THEN NaN
                                      ELSE src.adv]]
            /\ others' = <<>>
            /\ stage' = "reshape"
            /\ UNCHANGED <<inputs, outcome>>

-------------------------------------------------------------------------------
(* What is trained *)

\* p2a_distances: the entry of a step_id, which the trajectories of a prompt
\* share, is that of the last one that has the step.
Distance(uid, step) ==
    LET has == {t \in Trajectories : Prompts[t] = uid /\ nsteps[t] >= step}
    IN  Max(has) \in Near

\* _apply_p2a_reshaping (rows without a response_mask are passed over), or the
\* removal of what is not is_valid (a pad never is).
Reshape ==
    /\ stage = "reshape"
    /\ rows' = IF Ppo
               THEN [i \in DOMAIN rows |->
                        [rows[i] EXCEPT !.near =
                            ~NoTokens(rows[i])
                                /\ Distance(rows[i].uid, rows[i].step)]]
               ELSE Select(NoPads(rows),
                           {row \in ToSet(rows) : row.ep \notin masked})
    /\ stage' = "pad"
    /\ UNCHANGED <<inputs, others, outcome>>

\* Mutant: what is left is updated with as it is.
FinalPad_Skipped ==
    /\ stage = "pad"
    /\ stage' = "update"
    /\ UNCHANGED <<inputs, rows, others, outcome>>
FinalPad ==
    /\ stage = "pad"
    /\ rows' = Padded(rows)
    /\ stage' = "update"
    /\ UNCHANGED <<inputs, others, outcome>>

\* update_actor on the worker group.
Update ==
    /\ stage = "update"
    /\ End(IF rows = <<>> THEN "empty" ELSE "trained")

Next ==
    \/ Generate
    \/ KeepAll
    \/ Reject
    \/ LogProb
    \/ Split
    \/ Advantage
    \/ BroadcastAdvantage
    \/ Reshape
    \/ FinalPad
    \/ Update

Spec == Init /\ [][Next]_vars

-------------------------------------------------------------------------------
(* Properties *)

Row == [uid : ToSet(Prompts), ep : Trajectories, step : 1..MaxSteps,
        last : BOOLEAN, pad : BOOLEAN, adv : Int \cup {NaN},
        near : BOOLEAN]

TypeOK ==
    /\ trainer \in {"ppo", "workflow"}
    /\ mode \in {"broadcast", "per_step"}
    /\ rejects \in BOOLEAN
    /\ actors \in Worlds
    /\ world \in {actors * f : f \in Factors}
    /\ wanted \in Wanted \cup {1}
    /\ nsteps \in [Trajectories -> 0..MaxSteps]
    /\ solved \subseteq Trajectories
    /\ silent \subseteq MayBeSilent
    /\ masked \subseteq Maskable
    /\ stage \in {"collect", "reject", "logprob", "split", "advantage",
                  "broadcast", "reshape", "pad", "update", "over"}
    /\ rows \in Seq(Row)
    /\ others \in Seq(Row)
    /\ outcome \in {"none", "skipped", "empty", "KeyError",
                    "RuntimeError", "trained"}

\* Every row, padding too, stands under the prompt of the trajectory it is a
\* step of, in whatever order the trajectories were collected
\* (agent_ppo_trainer.py:203, 650; agent_workflow_trainer.py:190).
RowsAreOwn ==
    \A row \in ToSet(rows \o others) : row.uid = Prompts[row.ep]

\* In broadcast mode a trajectory is trained as a whole or not at all.  Its
\* last step has the advantage it got among the last steps that were kept, and
\* the other steps have the same one, unless the response_mask of the last step
\* is empty: then they have NaN, also those that have tokens of their own to
\* train.  The NOTE that the average "makes no difference" does not speak
\* of this case (agent_ppo_trainer.py:296, 982, 987, 1004;
\* agent_workflow_trainer.py:287, 797, 811).
OneAdvantage ==
    stage \in {"reshape", "pad", "update"} /\ Broadcast =>
        \A row \in ToSet(NoPads(rows)) :
            LET own == {x \in ToSet(NoPads(rows)) : x.ep = row.ep}
            IN  /\ {x.step : x \in own} = 1..nsteps[row.ep]
                /\ \E last \in own :
                       /\ last.last
                       /\ last.adv # NaN
                       /\ row.adv = IF ~row.last /\ NoTokens(last) THEN NaN
                                    ELSE last.adv
                       /\ stage = "reshape" =>
                              last.adv = Grpo(last, Lasts(rows))

\* The KeyError of the broadcast comes only in the workflow trainer, and only
\* when the cut parts trajectories of one task
\* (agent_workflow_trainer.py:272, 287).
KeyErrorNeedsASplitTask ==
    outcome = "KeyError" =>
        /\ ~Ppo
        /\ \E row \in ToSet(others), x \in ToSet(rows) :
               /\ x.uid = row.uid
               /\ ~row.pad
               /\ row.ep \notin {y.ep : y \in ToSet(rows)}

\* Every batch that reaches the actor group has a length that its size divides,
\* and the update's one that the sizes of all groups divide.  The log
\* probabilities of the reference group are asked for the same batch, which the
\* ppo trainer cuts to the actor group's size alone when it rejects in per_step
\* mode (agent_ppo_trainer.py:207, 318, 435; agent_workflow_trainer.py:292,
\* 393).
BatchDivides ==
    stage \in {"logprob", "update"} =>
        /\ Len(rows) % actors = 0
        /\ stage = "update" \/ ~(Ppo /\ rejects /\ ~Broadcast) =>
               Len(rows) % world = 0

\* A step is reshaped by what it read itself (agent_ppo_trainer.py:1101 to
\* 1103: "looks up each step's call-graph distance").
ReshapedByItsOwn ==
    Ppo /\ stage \in {"pad", "update"} =>
        \A row \in ToSet(rows) :
            ~NoTokens(row) => row.near = (row.ep \in Near)
===============================================================================
