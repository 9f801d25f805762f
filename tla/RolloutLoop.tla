------------------------------ MODULE RolloutLoop ------------------------------
(***************************************************************************)
(* One attempt at a trajectory: the agent-environment loop and what is     *)
(* made of it (rllm/engine/agent_execution_engine.py).  config.tito        *)
(* chooses one of the engine's two loops: run_agent_trajectory_async, in   *)
(* which every prompt is the conversation rendered and tokenized again and *)
(* assemble_steps builds the result, and _run_trajectory_tito, which       *)
(* appends the model's tokens to the ones it was given.                    *)
(*                                                                         *)
(* A token is "p" (initial prompt), "a" (sampled by the model), "e"        *)
(* (environment and chat template) or "x" (what a sampled token becomes    *)
(* when its text is tokenized again).  Time is what is left of             *)
(* trajectory_timeout, in a few units.                                     *)
(***************************************************************************)
EXTENDS Integers, Sequences, FiniteSets, SequencesExt

CONSTANTS Configs,         \* the settings of config, below
          MaxSteps,        \* max_steps
          MaxPrompt,       \* max_prompt_length
          MaxResponse,     \* max_response_length
          Deadline,        \* trajectory_timeout
          PromptLens,      \* lengths of the initial prompt
          SampleLens,      \* lengths the model would answer with
          TurnLens,        \* lengths of an environment turn
          Delays,          \* what a call adds to total_time
          StepRewards,     \* rewards env.step gives
          Scores           \* compute_final_reward's values; {} without one

ASSUME LoopAssumption ==
    /\ Configs \subseteq [tito : BOOLEAN, drift : BOOLEAN, enforce : BOOLEAN,
                          overlongFilter : BOOLEAN, validate : BOOLEAN,
                          filterMismatch : BOOLEAN, sparse : BOOLEAN]
    /\ {MaxSteps, MaxPrompt, MaxResponse, Deadline} \subseteq Nat \ {0}
    /\ PromptLens \cup TurnLens \subseteq Nat \ {0}
    /\ SampleLens \cup Delays \cup StepRewards \cup Scores \subseteq Nat

VARIABLES config,     \* token_in_token_out, enforce_max_prompt_length,
                      \* overlong_filter, filter_token_mismatch,
                      \* meta_info["validate"]; drift, whether tokenizing
                      \* again may change tokens; and sparse, whether the
                      \* env only rewards the step that ends the episode
          pc,         \* where the coroutine is
          prompt,     \* the next prompt; accumulated_ids with Tito
          initial,    \* prompt_token_len, prompt_len
          response,   \* response_tokens, response_ids
          mask,       \* response_masks, response_mask
          rlen,       \* response_token_len
          episode,    \* episode_steps, each with whether its format is right
          rewards,    \* the rewards of the agent's steps
          total,      \* total_time, up to Deadline
          reason,     \* termination_reason
          maskedOut,  \* masked_out
          formatOk,   \* format_ok
          result      \* response_tokens and response_masks delivered

tokenVars  == <<prompt, initial, response, mask, rlen>>
resultVars == <<maskedOut, formatOk, result>>
vars == <<config, pc, tokenVars, episode, rewards, total, reason, resultVars>>

Of(token, n) == [i \in 1..n |-> token]
Ones(n)      == Of(1, n)
Zeros(n)     == Of(0, n)
Later(d)     == Min({Deadline, total + d})
Nothing      == [tokens |-> <<>>, masks |-> <<>>]

\* A mask that is zeroed as a whole when the trajectory is masked out.
Mask(out) == IF out THEN Zeros(Len(mask)) ELSE mask

Tito    == config.tito
Enforce == config.enforce

-------------------------------------------------------------------------------
Init ==
    /\ config \in Configs
    /\ pc = "reset"
    /\ prompt = <<>>
    /\ initial = 0
    /\ response = <<>>
    /\ mask = <<>>
    /\ rlen = 0
    /\ episode = <<>>
    /\ rewards = <<>>
    /\ total = 0
    /\ reason = "none"
    /\ maskedOut = FALSE
    /\ formatOk = TRUE
    /\ result = Nothing

\* The env is reset and the first prompt tokenized; one that is too long ends
\* the attempt with an exception.
Reset ==
    /\ pc = "reset"
    /\ \E n \in PromptLens :
          /\ prompt' = Of("p", n)
          /\ initial' = n
          /\ pc' = IF n > MaxPrompt THEN "raised" ELSE "call"
    /\ UNCHANGED <<config, response, mask, rlen, episode, rewards, total,
                   reason, resultVars>>

-------------------------------------------------------------------------------
(* One iteration *)

Budget == IF Enforce THEN MaxResponse ELSE MaxResponse - rlen

\* max_tokens and the checks before the model is called.
AskModel ==
    /\ pc = "call"
    /\ reason' = IF Enforce /\ Len(prompt) > MaxPrompt THEN "PROMPT_TRUNCATION"
                 ELSE IF Tito /\ Budget <= 0 THEN "TRUNCATION"
                 ELSE reason
    /\ pc' = IF reason' = "none" THEN "model" ELSE "left"
    /\ UNCHANGED <<config, tokenVars, episode, rewards, total, resultVars>>

\* The engine stops at max_tokens; the token loop cuts what is beyond as well.
Clip_Nothing(s) == s    \* mutant: the model is trusted
Clip(s) == IF Len(s) >= Budget THEN SubSeq(s, 1, Budget) ELSE s

\* The model answers n tokens, whose text has the right format or not.
ModelAnswers(n, ok, d) ==
    LET completion == Clip(Of("a", n)) IN
    /\ pc = "model"
    /\ completion = <<>> => ok
    /\ pc' = "env"
    /\ episode' = Append(episode, [prompt |-> prompt,
                                   completion |-> completion, ok |-> ok])
    /\ IF Tito
       THEN /\ prompt' = prompt \o completion
            /\ response' = response \o completion
            /\ mask' = mask \o Ones(Len(completion))
            /\ rlen' = rlen + Len(completion)
       ELSE UNCHANGED <<prompt, response, mask, rlen>>
    /\ rewards' = Append(rewards, 0)
    /\ total' = Later(d)
    /\ UNCHANGED <<config, initial, reason, resultVars>>

\* The assistant message of the next prompt: the sampled tokens, or what their
\* text becomes when a token is merged, split or stripped.
Rendered(completion) ==
    {completion} \cup
    IF config.drift /\ completion # <<>>
    THEN {Front(completion)} \cup
         {Front(completion) \o Of("x", n) : n \in {1, 2}}
    ELSE {}

\* Why the loop is left after a step that brought the response to size, in the
\* order of the tests; MAX_STEPS is set at the end of the last iteration.
Verdict_Strict(size, time, done) ==    \* mutant: > for >=
    IF ~Enforce /\ size > MaxResponse THEN "TRUNCATION"
    ELSE IF time >= Deadline THEN "TIMEOUT"
    ELSE IF done THEN "ENV_DONE"
    ELSE IF Len(episode) = MaxSteps THEN "MAX_STEPS" ELSE "none"
Verdict_Endless(size, time, done) ==    \* mutant: one iteration too many
    IF ~Enforce /\ size >= MaxResponse THEN "TRUNCATION"
    ELSE IF time >= Deadline THEN "TIMEOUT"
    ELSE IF done THEN "ENV_DONE"
    ELSE IF Len(episode) > MaxSteps THEN "MAX_STEPS" ELSE "none"
Verdict(size, time, done) ==
    IF ~Enforce /\ size >= MaxResponse THEN "TRUNCATION"
    ELSE IF time >= Deadline THEN "TIMEOUT"
    ELSE IF done THEN "ENV_DONE"
    ELSE IF Len(episode) = MaxSteps THEN "MAX_STEPS"
    ELSE "none"

\* How many of the tokens of a step are kept: a truncated response is filled up
\* to max_response_length, but the token loop has no room for a turn it cannot
\* finish; a last step keeps what the assistant said.
Kept_FilledUp(why, said, turn) ==    \* mutant: both loops fill up
    CASE why = "TRUNCATION"            -> MaxResponse - rlen
      [] why \in {"TIMEOUT", "ENV_DONE"} -> said
      [] OTHER                         -> said + turn
Kept(why, said, turn) ==
    CASE why = "TRUNCATION" /\ Tito   -> 0
      [] why = "TRUNCATION" /\ ~Tito  -> MaxResponse - rlen
      [] why \in {"TIMEOUT", "ENV_DONE"} -> said
      [] OTHER                        -> said + turn

\* An assistant message that does not fit loses the reward of its step.
Overflows(why, said) ==
    ~Tito /\ why = "TRUNCATION" /\ rlen + said > MaxResponse

\* env.step returns in time with a turn of k tokens, done or not.
EnvAnswers(k, done, r, d) ==
    /\ pc = "env"
    /\ total < Deadline
    /\ config.sparse /\ ~done => r = 0
    /\ total' = Later(d)
    /\ \E message \in Rendered(Last(episode).completion) :
          LET said == IF Tito THEN <<>> ELSE message
              turn == Of("e", k)
              why  == Verdict(rlen + Len(said) + k, Later(d), done)
              n    == Kept(why, Len(said), k)
          IN
          /\ reason' = why
          /\ pc' = IF why = "none" THEN "call" ELSE "left"
          /\ response' = response \o SubSeq(said \o turn, 1, n)
          /\ mask' = mask \o SubSeq(Ones(Len(said)) \o Zeros(k), 1, n)
          /\ rlen' = rlen + IF Tito THEN n ELSE Len(said) + k
          /\ prompt' = IF why \in {"none", "MAX_STEPS"}
                       THEN prompt \o said \o turn ELSE prompt
          /\ rewards' = [rewards EXCEPT ![Len(rewards)] =
                           IF Overflows(why, Len(said)) THEN 0 ELSE r]
    /\ UNCHANGED <<config, initial, episode, resultVars>>

\* wait_for gives up on env.step.
EnvTimeout ==
    /\ pc = "env"
    /\ reason' = "ENV_TIMEOUT"
    /\ pc' = "left"
    /\ UNCHANGED <<config, tokenVars, episode, rewards, total, resultVars>>

-------------------------------------------------------------------------------
(* After the loop *)

Overlong == {"TRUNCATION", "MAX_STEPS", "TIMEOUT", "ENV_TIMEOUT"}

\* The overlong filter masks the response and saves the final reward.
Filter ==
    /\ pc = "left"
    /\ maskedOut' = (config.overlongFilter /\ reason \in Overlong)
    /\ mask' = Mask(maskedOut')
    /\ pc' = IF ~maskedOut' /\ Scores # {} THEN "score" ELSE "close"
    /\ UNCHANGED <<config, prompt, initial, response, rlen, episode, rewards,
                   total, reason, formatOk, result>>

\* compute_final_reward replaces the reward of the last step.
FinalReward(score) ==
    /\ pc = "score"
    /\ rewards' = [rewards EXCEPT ![Len(rewards)] = score]
    /\ pc' = "close"
    /\ UNCHANGED <<config, tokenVars, episode, total, reason, resultVars>>

\* assemble_steps: the completions, and before each but the first what its
\* prompt adds to the sequence so far, up to the first prompt that does not
\* continue that sequence.
Seen(step)  == step.prompt \o step.completion
Cumulative_Lengths(steps, n) ==    \* mutant: the tokens are not compared
    \A i \in 2..n : Len(Seen(steps[i - 1])) <= Len(steps[i].prompt)
Cumulative(steps, n) ==
    \A i \in 2..n : IsPrefix(Seen(steps[i - 1]), steps[i].prompt)
Between_Prompts(steps, i) ==    \* mutant: the completion comes twice
    IF i = 1 THEN <<>>
    ELSE SubSeq(steps[i].prompt, Len(steps[i - 1].prompt) + 1,
                Len(steps[i].prompt))
Between(steps, i) ==
    IF i = 1 THEN <<>>
    ELSE SubSeq(steps[i].prompt, Len(Seen(steps[i - 1])) + 1,
                Len(steps[i].prompt))
Assemble(steps) ==
    LET n      == Max({i \in 1..Len(steps) : Cumulative(steps, i)})
        tokens == [i \in 1..n |-> Between(steps, i) \o steps[i].completion]
        ones   == [i \in 1..n |-> Zeros(Len(Between(steps, i))) \o
                                  Ones(Len(steps[i].completion))]
        masks  == FlattenSeq(ones)
    IN [tokens |-> FlattenSeq(tokens),
        masks  |-> IF config.filterMismatch /\ n < Len(steps)
                   THEN Zeros(Len(masks)) ELSE masks]

\* check_trajectory_format
Malformed_AtLast == ~Last(episode).ok    \* mutant: only the last step
Malformed == \E i \in 1..Len(episode) : ~episode[i].ok

\* The format is checked, the env closed and the result built (Token mode).
Deliver ==
    LET bad == ~maskedOut /\ ~config.validate /\ Malformed IN
    /\ pc = "close"
    /\ pc' = "done"
    /\ formatOk' = ~bad
    /\ rewards' = IF bad THEN [rewards EXCEPT ![Len(rewards)] = 0] ELSE rewards
    /\ mask' = Mask(bad)
    /\ maskedOut' = (maskedOut \/ bad)
    /\ result' = IF Tito THEN [tokens |-> response, masks |-> mask']
                 ELSE Assemble(episode)
    /\ UNCHANGED <<config, prompt, initial, response, rlen, episode, total,
                   reason>>

\* reset, the model, env.step, compute_final_reward or close raises: SweRollout
\* says what becomes of the attempt.
Raise ==
    /\ pc \in {"reset", "model", "env", "score", "close"}
    /\ pc' = "raised"
    /\ UNCHANGED <<config, tokenVars, episode, rewards, total, reason,
                   resultVars>>

-------------------------------------------------------------------------------
Next ==
    \/ Reset \/ AskModel
    \/ \E n \in SampleLens, ok \in BOOLEAN, d \in Delays :
          ModelAnswers(n, ok, d)
    \/ \E k \in TurnLens, done \in BOOLEAN, r \in StepRewards, d \in Delays :
          EnvAnswers(k, done, r, d)
    \/ EnvTimeout \/ Filter
    \/ \E score \in Scores : FinalReward(score)
    \/ Deliver \/ Raise

Spec == Init /\ [][Next]_vars

-------------------------------------------------------------------------------
(* Safety *)

Tokens == {"p", "a", "e", "x"}
Bits   == {0, 1}

TypeOK ==
    /\ config \in Configs
    /\ pc \in {"reset", "call", "model", "env", "left", "score", "close",
               "done", "raised"}
    /\ prompt \in Seq(Tokens)
    /\ initial \in Nat
    /\ response \in Seq(Tokens)
    /\ mask \in Seq(Bits)
    /\ rlen \in Nat
    /\ episode \in Seq([prompt : Seq(Tokens), completion : Seq({"a"}),
                        ok : BOOLEAN])
    /\ rewards \in Seq(Nat)
    /\ Len(rewards) = Len(episode) /\ Len(episode) <= MaxSteps
    /\ total \in 0..Deadline
    /\ reason \in Overlong \cup {"none", "PROMPT_TRUNCATION", "ENV_DONE"}
    /\ maskedOut \in BOOLEAN
    /\ formatOk \in BOOLEAN
    /\ result \in [tokens : Seq(Tokens), masks : Seq(Bits)]

\* Every call to the model leaves it room for a token, and the response never
\* exceeds max_response_length (unless prompts are what is enforced).
BudgetHolds ==
    /\ pc = "model" => Budget > 0
    /\ ~Enforce => Len(response) <= MaxResponse

\* The token loop's mask marks the tokens the model sampled and no other, until
\* it is zeroed as a whole; and the next prompt is the initial prompt followed
\* by the response.
MaskMarksSamples ==
    Tito => /\ Len(mask) = Len(response)
            /\ rlen = Len(response)
            /\ ~maskedOut => \A i \in 1..Len(mask) :
                                  mask[i] = 1 <=> response[i] # "e"
            /\ prompt = Of("p", initial) \o response

\* What the token loop accumulates is what assemble_steps would make of its
\* episode_steps, followed by environment tokens that are not trained on.
AgreesWithAssemble ==
    Tito /\ pc = "done" /\ ~maskedOut =>
        LET whole == Assemble(episode)
            n     == Len(whole.tokens)
        IN /\ n <= Len(result.tokens)
           /\ whole.tokens = SubSeq(result.tokens, 1, n)
           /\ whole.masks = SubSeq(result.masks, 1, n)
           /\ \A i \in n + 1..Len(result.tokens) :
                 result.tokens[i] = "e" /\ result.masks[i] = 0

\* A malformed answer takes the reward of the last step, and all there is when
\* the env only pays at the end; an env that pays on the way has paid the steps
\* before it (438-439 reset one step, the trajectory's reward is their sum).
\* What is not masked out has no malformed answer, save in a validation.
FormatPenalty ==
    pc = "done" =>
        /\ ~formatOk => \A i \in 1..Len(rewards) :
                            config.sparse \/ i = Len(rewards) => rewards[i] = 0
        /\ ~maskedOut /\ (\E i \in 1..Len(episode) : ~episode[i].ok)
              => config.validate

\* A masked out trajectory trains on nothing.
MaskedOutIsMasked ==
    pc = "done" /\ maskedOut =>
        \A i \in 1..Len(result.masks) : result.masks[i] = 0

\* What trains was sampled in its context: with filter_token_mismatch, a result
\* with a trainable token has every prompt continue the sequence before it.
TrainsInContext ==
    /\ pc = "done"
    /\ config.filterMismatch
    /\ \E i \in 1..Len(result.masks) : result.masks[i] = 1
    =>  \A i \in 2..Len(episode) :
            IsPrefix(Seen(episode[i - 1]), episode[i].prompt)

===============================================================================
