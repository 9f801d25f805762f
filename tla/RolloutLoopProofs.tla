--------------------------- MODULE RolloutLoopProofs ---------------------------
(***************************************************************************)
(* Theorems about RolloutLoop, for every setting, budget and step limit.   *)
(* A lemma for each action says that it keeps the invariant.               *)
(***************************************************************************)
EXTENDS RolloutLoop, ListsProofs, TLAPS

-------------------------------------------------------------------------------
(* The inductive invariant *)

Step == [prompt : Seq(Tokens), completion : Seq({"a"}), ok : BOOLEAN]

\* TypeOK without the parts the properties do not look at.
LoopTypes ==
    /\ config \in Configs
    /\ pc \in {"reset", "call", "model", "env", "left", "score", "close",
               "done", "raised"}
    /\ prompt \in Seq(Tokens)
    /\ initial \in Nat
    /\ response \in Seq(Tokens)
    /\ mask \in Seq(Bits)
    /\ rlen \in Nat
    /\ episode \in Seq(Step)
    /\ rewards \in Seq(Nat)
    /\ maskedOut \in BOOLEAN
    /\ formatOk \in BOOLEAN

\* What is set when the loop begins and what only its end changes.
Phases ==
    /\ pc = "reset" => /\ response = <<>>
                       /\ mask = <<>>
                       /\ rlen = 0
    /\ pc = "env" => episode # <<>>
    /\ pc \in {"reset", "call", "model", "env", "left"} => ~maskedOut

\* In the loop the response is as long as the loop thinks, and there is room
\* for another token whenever the model is to be called.
Room ==
    ~Enforce =>
        /\ Len(response) <= MaxResponse
        /\ pc \in {"reset", "call", "model", "env"} => rlen = Len(response)
        /\ pc \in {"reset", "call", "model"} => rlen < MaxResponse

\* With an env that only pays at the end, only the last step ever has a
\* reward, and none before the loop is left.
Rewards ==
    config.sparse =>
        /\ \A i \in 1..Len(rewards) - 1 : rewards[i] = 0
        /\ pc \in {"reset", "call", "model", "env"} =>
               \A i \in 1..Len(rewards) : rewards[i] = 0

LInv == /\ LoopTypes /\ Phases /\ Room /\ Rewards
        /\ MaskMarksSamples /\ FormatPenalty

-------------------------------------------------------------------------------
(* Sequences *)

\* A run of one token.
LEMMA OfProperties ==
    ASSUME NEW S, NEW token \in S, NEW n \in Nat
    PROVE  /\ Of(token, n) \in Seq(S)
           /\ Len(Of(token, n)) = n
           /\ \A i \in 1..n : Of(token, n)[i] = token
BY DEF Of

\* Cutting a concatenation to n.
LEMMA CutProperties ==
    ASSUME NEW S, NEW s \in Seq(S), NEW t \in Seq(S),
           NEW n \in 0..(Len(s) + Len(t))
    PROVE  /\ SubSeq(s \o t, 1, n) \in Seq(S)
           /\ Len(SubSeq(s \o t, 1, n)) = n
           /\ \A i \in 1..n : SubSeq(s \o t, 1, n)[i] = (s \o t)[i]
<1>1. /\ s \o t \in Seq(S)
      /\ Len(s \o t) = Len(s) + Len(t)
  BY ConcatProperties
<1>2. \A i \in 1..n : (s \o t)[i] \in S
  BY <1>1, ElementOfSeq
<1> QED
  BY <1>1, <1>2, SubSeqProperties

\* The completion the loop goes on with is sampled and fits the budget.
LEMMA ClipProperties ==
    ASSUME NEW n \in Nat, Budget \in Int, Budget > 0
    PROVE  /\ Clip(Of("a", n)) \in Seq({"a"})
           /\ Len(Clip(Of("a", n))) <= Budget
<1>1. /\ Of("a", n) \in Seq({"a"})
      /\ Len(Of("a", n)) = n
      /\ \A i \in 1..n : Of("a", n)[i] = "a"
  BY OfProperties
<1>2. CASE n >= Budget
  BY <1>1, <1>2, SubSeqProperties DEF Clip
<1>3. CASE ~(n >= Budget)
  BY <1>1, <1>3 DEF Clip
<1> QED
  BY <1>2, <1>3

\* What tokenizing a sampled message again gives.
LEMMA RenderedTypes ==
    ASSUME NEW c \in Seq({"a"}), NEW m \in Rendered(c)
    PROVE  m \in Seq(Tokens)
<1>1. c \in Seq(Tokens)
  BY SeqMonotonic DEF Tokens
<1>2. ASSUME c # <<>> PROVE Front(c) \in Seq(Tokens)
  BY <1>1, <1>2 DEF Front
<1>3. \A n \in {1, 2} : Of("x", n) \in Seq(Tokens)
  BY OfProperties DEF Tokens
<1> QED
  BY <1>1, <1>2, <1>3, ConcatProperties DEF Rendered

\* The prompt of the token loop goes on with the response.
LEMMA Continued ==
    ASSUME NEW n \in Nat, NEW s \in Seq(Tokens), NEW t \in Seq(Tokens)
    PROVE  /\ (Of("p", n) \o s) \o t = Of("p", n) \o (s \o t)
           /\ Of("p", n) \o (s \o t) \in Seq(Tokens)
<1>1. Of("p", n) \in Seq(Tokens)
  BY OfProperties DEF Tokens
<1> QED
  BY <1>1, ConcatAssociative, ConcatProperties

\* A mask that marks what the model sampled in a sequence of tokens.
Marked(m, tokens) ==
    /\ Len(m) = Len(tokens)
    /\ \A i \in 1..Len(m) : m[i] = 1 <=> tokens[i] # "e"

\* Marked sequences can be put together.
LEMMA MarkedConcat ==
    ASSUME NEW m \in Seq(Bits), NEW n \in Seq(Bits),
           NEW s \in Seq(Tokens), NEW t \in Seq(Tokens),
           Marked(m, s), Marked(n, t)
    PROVE  /\ m \o n \in Seq(Bits)
           /\ s \o t \in Seq(Tokens)
           /\ Len(s \o t) = Len(s) + Len(t)
           /\ Marked(m \o n, s \o t)
<1>1. /\ m \o n \in Seq(Bits)
      /\ Len(m \o n) = Len(m) + Len(n)
      /\ \A i \in 1..Len(m) + Len(n) :
            (m \o n)[i] = IF i <= Len(m) THEN m[i] ELSE n[i - Len(m)]
  BY ConcatProperties
<1>2. /\ s \o t \in Seq(Tokens)
      /\ Len(s \o t) = Len(s) + Len(t)
      /\ \A i \in 1..Len(s) + Len(t) :
            (s \o t)[i] = IF i <= Len(s) THEN s[i] ELSE t[i - Len(s)]
  BY ConcatProperties
<1>3. Len(m) \in Nat /\ Len(n) \in Nat
  OBVIOUS
<1>4. ASSUME NEW i \in 1..Len(m) + Len(n)
      PROVE  (m \o n)[i] = 1 <=> (s \o t)[i] # "e"
  <2>1. CASE i <= Len(m)
    BY <1>1, <1>2, <1>3, <2>1 DEF Marked
  <2>2. CASE ~(i <= Len(m))
    <3>1. i - Len(m) \in 1..Len(n)
      BY <1>3, <2>2
    <3> QED
      BY <1>1, <1>2, <2>2, <3>1 DEF Marked
  <2> QED
    BY <2>1, <2>2
<1> QED
  BY <1>1, <1>2, <1>4 DEF Marked

\* Sampled tokens are marked with ones and a turn of the env with zeros.
LEMMA MarkedRuns ==
    /\ \A c \in Seq({"a"}) : /\ Ones(Len(c)) \in Seq(Bits)
                             /\ Marked(Ones(Len(c)), c)
    /\ \A k \in Nat : /\ Zeros(k) \in Seq(Bits)
                      /\ Of("e", k) \in Seq(Tokens)
                      /\ Len(Of("e", k)) = k
                      /\ Marked(Zeros(k), Of("e", k))
<1>1. ASSUME NEW c \in Seq({"a"})
      PROVE  Ones(Len(c)) \in Seq(Bits) /\ Marked(Ones(Len(c)), c)
  <2>1. \A i \in 1..Len(c) : c[i] = "a"
    BY ElementOfSeq
  <2>2. Len(c) \in Nat
    OBVIOUS
  <2>3. /\ Ones(Len(c)) \in Seq(Bits)
        /\ Len(Ones(Len(c))) = Len(c)
        /\ \A i \in 1..Len(c) : Ones(Len(c))[i] = 1
    BY <2>2, OfProperties DEF Ones, Bits
  <2> QED
    BY <2>1, <2>3 DEF Marked
<1>2. ASSUME NEW k \in Nat
      PROVE  /\ Zeros(k) \in Seq(Bits)
             /\ Of("e", k) \in Seq(Tokens)
             /\ Len(Of("e", k)) = k
             /\ Marked(Zeros(k), Of("e", k))
  <2>1. /\ Zeros(k) \in Seq(Bits)
        /\ Len(Zeros(k)) = k
        /\ \A i \in 1..k : Zeros(k)[i] = 0
    BY OfProperties DEF Zeros, Bits
  <2>2. /\ Of("e", k) \in Seq(Tokens)
        /\ Len(Of("e", k)) = k
        /\ \A i \in 1..k : Of("e", k)[i] = "e"
    BY OfProperties DEF Tokens
  <2> QED
    BY <2>1, <2>2 DEF Marked
<1> QED
  BY <1>1, <1>2

-------------------------------------------------------------------------------
(* The actions *)

\* The reset gives the first prompt; nothing else has begun.
LEMMA ResetKeeps ==
    ASSUME LInv, Reset
    PROVE  LInv'
<1>1. PICK n \in PromptLens :
            /\ prompt' = Of("p", n)
            /\ initial' = n
            /\ pc' = IF n > MaxPrompt THEN "raised" ELSE "call"
  BY DEF Reset
<1>2. n \in Nat /\ Of("p", n) \in Seq(Tokens)
  BY LoopAssumption, OfProperties DEF Tokens
<1>3. LoopTypes'
  BY <1>1, <1>2 DEF LInv, LoopTypes, Reset, resultVars
<1>4. MaskMarksSamples'
  <2>1. response = <<>> /\ mask = <<>> /\ rlen = 0
    BY DEF LInv, Phases, Reset
  <2>2. prompt' = Of("p", n) \o <<>>
    BY <1>1, <1>2, ConcatEmptySeq
  <2> QED
    BY <1>1, <2>1, <2>2 DEF Reset, MaskMarksSamples, Tito
<1> QED
  BY <1>1, <1>3, <1>4
     DEF LInv, Phases, Room, Rewards, FormatPenalty, Reset, resultVars, Enforce

\* A model is called only with room for a token.
LEMMA AskKeeps ==
    ASSUME LInv, AskModel
    PROVE  LInv'
<1>1. LoopTypes'
  BY DEF LInv, LoopTypes, AskModel, tokenVars, resultVars
<1>2. Phases' /\ Room' /\ Rewards' /\ FormatPenalty'
  BY DEF LInv, Phases, Room, Rewards, FormatPenalty, AskModel, tokenVars,
         resultVars, Enforce
<1>3. MaskMarksSamples'
  BY DEF LInv, MaskMarksSamples, Tito, AskModel, tokenVars, resultVars
<1> QED
  BY <1>1, <1>2, <1>3 DEF LInv

\* The room there is when the model is called.
LEMMA RoomToAnswer ==
    ASSUME LInv, pc = "model"
    PROVE  Budget \in Int /\ Budget > 0
BY LoopAssumption DEF LInv, LoopTypes, Room, Budget

\* The model's tokens fit, and the token loop marks them all.
LEMMA ModelKeeps ==
    ASSUME LInv, NEW n \in SampleLens, NEW ok \in BOOLEAN, NEW d \in Delays,
           ModelAnswers(n, ok, d)
    PROVE  LInv'
<1>1. /\ LoopTypes
      /\ pc = "model" /\ pc' = "env"
      /\ ~maskedOut
  BY DEF LInv, Phases, ModelAnswers
<1>2. PICK c \in Seq({"a"}) :
            /\ Len(c) <= Budget /\ Budget > 0
            /\ episode' = Append(episode, [prompt |-> prompt,
                                           completion |-> c, ok |-> ok])
            /\ rewards' = Append(rewards, 0)
            /\ UNCHANGED <<config, initial, reason, maskedOut, formatOk>>
            /\ \/ /\ Tito
                  /\ prompt' = prompt \o c
                  /\ response' = response \o c
                  /\ mask' = mask \o Ones(Len(c))
                  /\ rlen' = rlen + Len(c)
               \/ ~Tito /\ UNCHANGED <<prompt, response, mask, rlen>>
  <2>1. /\ Clip(Of("a", n)) \in Seq({"a"})
        /\ Len(Clip(Of("a", n))) <= Budget
        /\ Budget > 0
    BY <1>1, LoopAssumption, RoomToAnswer, ClipProperties
  <2> QED
    BY <2>1 DEF ModelAnswers, resultVars
<1>3. PICK ones : ones = Ones(Len(c)) /\ (Tito => mask' = mask \o ones)
  BY <1>2
<1>4. c \in Seq(Tokens) /\ Len(c) \in Nat
  BY SeqMonotonic DEF Tokens
<1>5. LoopTypes' /\ Room' /\ MaskMarksSamples'
  <2>1. episode' \in Seq(Step) /\ rewards' \in Seq(Nat)
    BY <1>1, <1>2 DEF LoopTypes, Step
  <2>2. CASE ~Tito
    BY <1>1, <1>2, <2>1, <2>2
       DEF LInv, LoopTypes, Room, MaskMarksSamples, Tito, Enforce
  <2>3. CASE Tito
    <3>1. ones \in Seq(Bits) /\ Marked(ones, c)
      BY <1>3, MarkedRuns
    <3>2. /\ Marked(mask, response)
          /\ rlen = Len(response)
          /\ prompt = Of("p", initial) \o response
      BY <1>1, <2>3 DEF LInv, MaskMarksSamples, Marked
    <3>3. /\ mask' \in Seq(Bits)
          /\ response' \in Seq(Tokens)
          /\ Len(response') = Len(response) + Len(c)
          /\ Marked(mask', response')
      <4>1. mask \in Seq(Bits) /\ response \in Seq(Tokens)
        BY <1>1 DEF LoopTypes
      <4>2. mask' = mask \o ones /\ response' = response \o c
        BY <1>2, <1>3, <2>3
      <4> QED
        BY <1>4, <3>1, <3>2, <4>1, <4>2, MarkedConcat
    <3>4. /\ prompt' = Of("p", initial) \o response'
          /\ prompt' \in Seq(Tokens)
      <4>1. initial \in Nat /\ response \in Seq(Tokens)
        BY <1>1 DEF LoopTypes
      <4>2. prompt' = prompt \o c /\ response' = response \o c
        BY <1>2, <2>3
      <4> QED
        BY <1>4, <3>2, <4>1, <4>2, Continued
    <3>5. rlen' = Len(response') /\ rlen' \in Nat
      BY <1>1, <1>2, <1>4, <2>3, <3>2, <3>3 DEF LoopTypes
    <3>6. Room'
      <4>1. SUFFICES ASSUME ~Enforce
                     PROVE  Len(response') <= MaxResponse
        BY <1>1, <1>2, <3>5 DEF Room, Enforce
      <4>2. Budget = MaxResponse - rlen
        BY <4>1 DEF Budget
      <4>3. Len(response) \in Nat /\ MaxResponse \in Nat
        BY <1>1, LoopAssumption DEF LoopTypes
      <4> QED
        BY <1>2, <1>4, <3>2, <3>3, <4>2, <4>3
    <3>7. LoopTypes'
      BY <1>1, <1>2, <2>1, <3>3, <3>4, <3>5 DEF LoopTypes
    <3>8. MaskMarksSamples'
      BY <1>2, <3>3, <3>4, <3>5 DEF MaskMarksSamples, Marked
    <3> QED
      BY <3>6, <3>7, <3>8
  <2> QED
    BY <2>2, <2>3
<1>6. Phases'
  <2>1. episode' # <<>>
    <3>1. episode \in Seq(Step)
      BY <1>1 DEF LoopTypes
    <3>2. Len(episode') = Len(episode) + 1
      BY <1>2, <3>1
    <3> QED
      BY <3>1, <3>2
  <2> QED
    BY <1>1, <1>2, <2>1 DEF Phases
<1>7. Rewards' /\ FormatPenalty'
  <2>1. /\ rewards \in Seq(Nat)
        /\ config.sparse => \A i \in 1..Len(rewards) : rewards[i] = 0
    BY <1>1 DEF LInv, LoopTypes, Rewards
  <2>2. config.sparse => \A i \in 1..Len(rewards') : rewards'[i] = 0
    BY <1>2, <2>1
  <2>3. Rewards'
    <3>1. Len(rewards') \in Nat /\ config' = config
      BY <1>2, <2>1
    <3> QED
      BY <2>2, <3>1 DEF Rewards
  <2> QED
    BY <1>1, <2>3 DEF FormatPenalty
<1> QED
  BY <1>5, <1>6, <1>7 DEF LInv

\* What the verdict says of the response it was given.
LEMMA VerdictMeans ==
    ASSUME NEW size \in Nat, NEW time, NEW done \in BOOLEAN
    PROVE  LET why == Verdict(size, time, done) IN
           /\ why = "TRUNCATION" => ~Enforce /\ size >= MaxResponse
           /\ why # "TRUNCATION" => Enforce \/ size < MaxResponse
           /\ why = "none" => ~done
BY LoopAssumption DEF Verdict

\* What is kept of a step is part of it, and fills the response exactly when
\* the loop is left for its length.
LEMMA KeptFits ==
    ASSUME LInv, pc = "env", NEW k \in Nat, NEW said \in Nat,
           NEW time, NEW done \in BOOLEAN, Tito => said = 0,
           NEW why, why = Verdict(rlen + said + k, time, done)
    PROVE  LET n == Kept(why, said, k) IN
           /\ n \in 0..said + k
           /\ Tito => n = 0 \/ n = k
           /\ Tito /\ why \in {"none", "MAX_STEPS"} => n = k
           /\ Tito /\ why \notin {"none", "MAX_STEPS"} => n = 0
           /\ why = "none" => /\ n = said + k
                              /\ Enforce \/ rlen + n < MaxResponse
           /\ ~Enforce => rlen + n <= MaxResponse
<1>1. rlen \in Nat /\ MaxResponse \in Nat /\ rlen + said + k \in Nat
  BY LoopAssumption DEF LInv, LoopTypes
<1>2. ~Enforce => rlen <= MaxResponse
  BY DEF LInv, Room
<1>3. /\ why = "TRUNCATION" => ~Enforce /\ rlen + said + k >= MaxResponse
      /\ why # "TRUNCATION" => Enforce \/ rlen + said + k < MaxResponse
  BY <1>1, VerdictMeans
<1>4. why \in {"TRUNCATION", "TIMEOUT", "ENV_DONE", "MAX_STEPS", "none"}
  BY DEF Verdict
<1>5. CASE why = "TRUNCATION" /\ Tito
  BY <1>1, <1>2, <1>5 DEF Kept
<1>6. CASE why = "TRUNCATION" /\ ~Tito
  BY <1>1, <1>2, <1>3, <1>6 DEF Kept
<1>7. CASE why \in {"TIMEOUT", "ENV_DONE"}
  BY <1>1, <1>3, <1>7 DEF Kept
<1>8. CASE why \in {"MAX_STEPS", "none"}
  BY <1>1, <1>3, <1>8 DEF Kept
<1> QED
  BY <1>4, <1>5, <1>6, <1>7, <1>8

\* The last step given a reward.
Scored(s, x) == [s EXCEPT ![Len(s)] = x]

\* It changes the last element, if there is one.
LEMMA ScoredIsSeq ==
    ASSUME NEW s \in Seq(Nat), NEW x \in Nat
    PROVE  /\ Scored(s, x) \in Seq(Nat)
           /\ Len(Scored(s, x)) = Len(s)
           /\ \A j \in 1..Len(s) :
                 Scored(s, x)[j] = IF j = Len(s) THEN x ELSE s[j]
<1>1. Len(s) \in Nat
  OBVIOUS
<1>2. CASE Len(s) # 0
  <2>1. Len(s) \in 1..Len(s)
    BY <1>1, <1>2
  <2> QED
    BY <2>1, ExceptSeq DEF Scored
<1>3. CASE Len(s) = 0
  <2>1. s = [i \in 1..0 |-> s[i]] /\ 0 \notin DOMAIN s
    BY <1>3, LenProperties
  <2>2. [s EXCEPT ![0] = x] = s
    BY <2>1
  <2>3. Scored(s, x) = s
    BY <1>3, <2>2 DEF Scored
  <2> QED
    BY <1>3, <2>3
<1> QED
  BY <1>2, <1>3

\* The steps before the last keep their zeros.
LEMMA ScoreLast ==
    ASSUME NEW s \in Seq(Nat), NEW x \in Nat,
           \A i \in 1..Len(s) - 1 : s[i] = 0
    PROVE  /\ Scored(s, x) \in Seq(Nat)
           /\ Len(Scored(s, x)) = Len(s)
           /\ \A i \in 1..Len(s) - 1 : Scored(s, x)[i] = 0
           /\ x = 0 => \A i \in 1..Len(s) : Scored(s, x)[i] = 0
<1>1. Len(s) \in Nat
  OBVIOUS
<1>2. PICK t : t = Scored(s, x)
  OBVIOUS
<1>3. /\ t \in Seq(Nat)
      /\ Len(t) = Len(s)
      /\ \A j \in 1..Len(s) : t[j] = IF j = Len(s) THEN x ELSE s[j]
  BY <1>2, ScoredIsSeq
<1>4. \A i \in 1..Len(s) - 1 : t[i] = 0
  BY <1>1, <1>3
<1>5. x = 0 => \A i \in 1..Len(s) : t[i] = 0
  <2>1. \A i \in 1..Len(s) : i = Len(s) \/ i \in 1..Len(s) - 1
    BY <1>1
  <2> QED
    BY <1>3, <1>4, <2>1
<1> QED
  BY <1>2, <1>3, <1>4, <1>5

\* The env's turn fits or ends the loop, and the token loop marks none of it.
LEMMA EnvKeeps ==
    ASSUME LInv, NEW k \in TurnLens, NEW done \in BOOLEAN,
           NEW r \in StepRewards, NEW d \in Delays, EnvAnswers(k, done, r, d)
    PROVE  LInv'
<1>1. /\ LoopTypes
      /\ pc = "env"
      /\ ~maskedOut
      /\ config.sparse => \A i \in 1..Len(rewards) : rewards[i] = 0
      /\ config.sparse /\ ~done => r = 0
      /\ k \in Nat
      /\ r \in Nat
  BY LoopAssumption DEF LInv, Phases, Rewards, EnvAnswers
<1>2. PICK said \in Seq(Tokens), x \in Nat :
            /\ Tito => said = <<>>
            /\ config.sparse /\ ~done => x = 0
            /\ LET why == Verdict(rlen + Len(said) + k, Later(d), done)
                   n   == Kept(why, Len(said), k)
               IN
               /\ pc' = IF why = "none" THEN "call" ELSE "left"
               /\ response' = response \o SubSeq(said \o Of("e", k), 1, n)
               /\ mask' = mask \o SubSeq(Ones(Len(said)) \o Zeros(k), 1, n)
               /\ rlen' = rlen + IF Tito THEN n ELSE Len(said) + k
               /\ prompt' = IF why \in {"none", "MAX_STEPS"}
                            THEN prompt \o said \o Of("e", k) ELSE prompt
            /\ rewards' = [rewards EXCEPT ![Len(rewards)] = x]
            /\ UNCHANGED <<config, initial, episode, maskedOut, formatOk>>
  <2>1. \A m \in Rendered(Last(episode).completion) : m \in Seq(Tokens)
    <3>1. episode \in Seq(Step) /\ episode # <<>>
      BY <1>1 DEF LInv, Phases, LoopTypes
    <3>2. Last(episode) \in Step
      BY <3>1 DEF Last
    <3> QED
      BY <3>2, RenderedTypes DEF Step
  <2>2. <<>> \in Seq(Tokens)
    OBVIOUS
  <2>3. PICK m \in Rendered(Last(episode).completion) :
            LET said == IF Tito THEN <<>> ELSE m
                turn == Of("e", k)
                why  == Verdict(rlen + Len(said) + k, Later(d), done)
                n    == Kept(why, Len(said), k)
            IN
            /\ pc' = IF why = "none" THEN "call" ELSE "left"
            /\ response' = response \o SubSeq(said \o turn, 1, n)
            /\ mask' = mask \o SubSeq(Ones(Len(said)) \o Zeros(k), 1, n)
            /\ rlen' = rlen + IF Tito THEN n ELSE Len(said) + k
            /\ prompt' = IF why \in {"none", "MAX_STEPS"}
                         THEN prompt \o said \o turn ELSE prompt
            /\ rewards' = [rewards EXCEPT ![Len(rewards)] =
                              IF Overflows(why, Len(said)) THEN 0 ELSE r]
    BY DEF EnvAnswers
  <2> DEFINE said == IF Tito THEN <<>> ELSE m
             why  == Verdict(rlen + Len(said) + k, Later(d), done)
             x    == IF Overflows(why, Len(said)) THEN 0 ELSE r
  <2>4. said \in Seq(Tokens) /\ x \in Nat /\ (Tito => said = <<>>)
        /\ (config.sparse /\ ~done => x = 0)
    BY <1>1, <2>1, <2>2
  <2>5. UNCHANGED <<config, initial, episode, maskedOut, formatOk>>
    BY DEF EnvAnswers, resultVars
  <2> USE <2>4
  <2> WITNESS said \in Seq(Tokens), x \in Nat
  <2> QED
    BY <2>3, <2>4, <2>5
<1>3. PICK why : why = Verdict(rlen + Len(said) + k, Later(d), done)
  OBVIOUS
<1>4. PICK n : n = Kept(why, Len(said), k)
  OBVIOUS
<1>5. PICK turn, ones, zeros : /\ turn = Of("e", k)
                               /\ ones = Ones(Len(said))
                               /\ zeros = Zeros(k)
  OBVIOUS
<1>6. /\ pc' = IF why = "none" THEN "call" ELSE "left"
      /\ response' = response \o SubSeq(said \o turn, 1, n)
      /\ mask' = mask \o SubSeq(ones \o zeros, 1, n)
      /\ rlen' = rlen + IF Tito THEN n ELSE Len(said) + k
      /\ prompt' = IF why \in {"none", "MAX_STEPS"}
                   THEN prompt \o said \o turn ELSE prompt
  BY <1>2, <1>3, <1>4, <1>5
<1>7. /\ Tito => said = <<>>
      /\ config.sparse /\ ~done => x = 0
      /\ rewards' = [rewards EXCEPT ![Len(rewards)] = x]
      /\ UNCHANGED <<config, initial, episode, maskedOut, formatOk>>
  BY <1>2
<1> DEFINE tokens == SubSeq(said \o turn, 1, n)
           marks  == SubSeq(ones \o zeros, 1, n)
<1>8. /\ Len(said) \in Nat
      /\ Tito => Len(said) = 0
      /\ turn \in Seq(Tokens) /\ Len(turn) = k
      /\ ones \in Seq(Bits) /\ Len(ones) = Len(said)
      /\ zeros \in Seq(Bits) /\ Len(zeros) = k
  <2>1. Len(said) \in Nat /\ (Tito => Len(said) = 0)
    BY <1>7
  <2>2. turn \in Seq(Tokens) /\ Len(turn) = k
    BY <1>1, <1>5, OfProperties DEF Tokens
  <2>3. ones \in Seq(Bits) /\ Len(ones) = Len(said)
    BY <1>5, <2>1, OfProperties DEF Bits, Ones
  <2>4. zeros \in Seq(Bits) /\ Len(zeros) = k
    BY <1>1, <1>5, OfProperties DEF Bits, Zeros
  <2> QED
    BY <2>1, <2>2, <2>3, <2>4
<1>9. /\ n \in 0..Len(said) + k
      /\ Tito /\ why \in {"none", "MAX_STEPS"} => n = k
      /\ Tito /\ why \notin {"none", "MAX_STEPS"} => n = 0
      /\ why = "none" => n = Len(said) + k
                         /\ (Enforce \/ rlen + n < MaxResponse)
      /\ ~Enforce => rlen + n <= MaxResponse
  BY <1>1, <1>3, <1>4, <1>8, KeptFits
<1>10. /\ tokens \in Seq(Tokens) /\ Len(tokens) = n
       /\ marks \in Seq(Bits) /\ Len(marks) = n
  <2>1. tokens \in Seq(Tokens) /\ Len(tokens) = n
    BY <1>8, <1>9, CutProperties
  <2>2. marks \in Seq(Bits) /\ Len(marks) = n
    BY <1>8, <1>9, CutProperties
  <2> QED
    BY <2>1, <2>2
<1> HIDE DEF tokens, marks
<1>11. /\ response' = response \o tokens
       /\ mask' = mask \o marks
  BY <1>6 DEF tokens, marks
<1>12. /\ response' \in Seq(Tokens)
       /\ Len(response') = Len(response) + n
       /\ mask' \in Seq(Bits)
  <2>1. response \in Seq(Tokens) /\ mask \in Seq(Bits)
    BY <1>1 DEF LoopTypes
  <2>2. response' \in Seq(Tokens) /\ Len(response') = Len(response) + n
    BY <1>10, <1>11, <2>1, ConcatProperties
  <2>3. mask' \in Seq(Bits)
    BY <1>10, <1>11, <2>1, ConcatProperties
  <2> QED
    BY <2>2, <2>3
<1>13. prompt' \in Seq(Tokens)
  <2>1. prompt \in Seq(Tokens)
    BY <1>1 DEF LoopTypes
  <2>2. prompt \o said \o turn \in Seq(Tokens)
    BY <1>6, <1>8, <2>1, ConcatProperties
  <2> QED
    BY <1>6, <2>1, <2>2
<1>14. /\ rewards' \in Seq(Nat)
       /\ Len(rewards') = Len(rewards)
       /\ config.sparse => \A i \in 1..Len(rewards) - 1 : rewards'[i] = 0
       /\ config.sparse /\ ~done =>
              \A i \in 1..Len(rewards) : rewards'[i] = 0
  <2>1. rewards \in Seq(Nat)
    BY <1>1 DEF LoopTypes
  <2>2. rewards' = Scored(rewards, x)
    BY <1>7 DEF Scored
  <2>3. rewards' \in Seq(Nat) /\ Len(rewards') = Len(rewards)
    BY <2>1, <2>2, ScoredIsSeq
  <2>4. ASSUME config.sparse
        PROVE  /\ \A i \in 1..Len(rewards) - 1 : rewards'[i] = 0
               /\ x = 0 => \A i \in 1..Len(rewards) : rewards'[i] = 0
    <3>1. \A i \in 1..Len(rewards) - 1 : rewards[i] = 0
      BY <1>1, <2>1, <2>4
    <3> QED
      BY <2>1, <2>2, <3>1, ScoreLast
  <2> QED
    BY <1>7, <2>3, <2>4
<1>15. LoopTypes'
  <2>1. rlen' \in Nat
    BY <1>1, <1>6, <1>8, <1>9 DEF LoopTypes
  <2>2. pc' \in {"call", "left"}
    BY <1>6
  <2> QED
    BY <1>1, <1>7, <1>12, <1>13, <1>14, <2>1, <2>2 DEF LoopTypes
<1>16. Room'
  <2>1. SUFFICES ASSUME ~Enforce
                 PROVE  /\ Len(response') <= MaxResponse
                        /\ why = "none" => rlen' = Len(response')
                                           /\ rlen' < MaxResponse
    BY <1>6, <1>7 DEF Room, Enforce
  <2>2. rlen = Len(response) /\ rlen \in Nat
    BY <1>1, <2>1 DEF LInv, Room, LoopTypes
  <2>3. why = "none" => rlen' = rlen + n
    BY <1>6, <1>9
  <2> QED
    BY <1>9, <1>12, <2>1, <2>2, <2>3
<1>17. MaskMarksSamples'
  <2>1. SUFFICES ASSUME Tito
                 PROVE  /\ Marked(mask', response')
                        /\ rlen' = Len(response')
                        /\ prompt' = Of("p", initial) \o response'
    BY <1>7 DEF MaskMarksSamples, Tito, Marked
  <2>2. /\ Marked(mask, response)
        /\ rlen = Len(response)
        /\ prompt = Of("p", initial) \o response
    BY <1>1, <2>1 DEF LInv, MaskMarksSamples, Marked
  <2>3. /\ response \in Seq(Tokens) /\ mask \in Seq(Bits)
        /\ prompt \in Seq(Tokens) /\ initial \in Nat
    BY <1>1 DEF LoopTypes
  <2>4. CASE n = 0 /\ why \notin {"none", "MAX_STEPS"}
    <3>1. tokens = <<>> /\ marks = <<>>
      BY <1>10, <2>4
    <3>2. response' = response /\ mask' = mask /\ rlen' = rlen
          /\ prompt' = prompt
      BY <1>6, <1>11, <2>1, <2>2, <2>3, <2>4, <3>1, ConcatEmptySeq
    <3> QED
      BY <2>2, <3>2
  <2>5. CASE n = k /\ why \in {"none", "MAX_STEPS"}
    <3>1. said = <<>> /\ ones = <<>>
      <4>1. said = <<>>
        BY <1>7, <2>1
      <4>2. ones \in Seq(Bits) /\ Len(ones) = 0
        BY <1>8, <2>1
      <4> QED
        BY <4>1, <4>2
    <3>2. tokens = turn
      <4>1. said \o turn = turn
        BY <1>8, <3>1, ConcatEmptySeq
      <4> QED
        BY <1>8, <2>5, <4>1, SubSeqFull DEF tokens
    <3>3. marks = zeros
      <4>1. ones \o zeros = zeros
        BY <1>8, <3>1, ConcatEmptySeq
      <4> QED
        BY <1>8, <2>5, <4>1, SubSeqFull DEF marks
    <3>4. Marked(zeros, turn)
      BY <1>1, <1>5, MarkedRuns
    <3>5. Marked(mask', response')
      BY <1>8, <1>11, <2>2, <2>3, <3>2, <3>3, <3>4, MarkedConcat
    <3>6. prompt' = prompt \o turn
      BY <1>6, <2>3, <2>5, <3>1, ConcatEmptySeq
    <3>7. prompt' = Of("p", initial) \o response'
      BY <1>8, <1>11, <2>2, <2>3, <3>2, <3>6, Continued
    <3>8. rlen' = Len(response')
      BY <1>6, <1>12, <2>1, <2>2
    <3> QED
      BY <3>5, <3>7, <3>8
  <2> QED
    BY <1>9, <2>1, <2>4, <2>5
<1>18. Phases' /\ Rewards' /\ FormatPenalty'
  <2>1. why = "none" => ~done
    BY <1>1, <1>3, <1>8, VerdictMeans DEF LoopTypes
  <2> QED
    BY <1>1, <1>6, <1>7, <1>14, <2>1 DEF Phases, Rewards, FormatPenalty
<1> QED
  BY <1>15, <1>16, <1>17, <1>18 DEF LInv

\* Only the position changes: the model raised, the env timed out.
LEMMA EndKeeps ==
    ASSUME LInv, EnvTimeout \/ Raise
    PROVE  LInv'
<1>1. /\ pc' \in {"left", "raised"}
      /\ pc \in {"reset", "model", "env", "score", "close"}
      /\ pc' = "left" => pc = "env"
      /\ UNCHANGED <<config, tokenVars, episode, rewards, resultVars>>
  BY DEF EnvTimeout, Raise
<1>2. LoopTypes' /\ Phases' /\ Room' /\ Rewards' /\ FormatPenalty'
  BY <1>1 DEF LInv, LoopTypes, Phases, Room, Rewards, FormatPenalty,
              tokenVars, resultVars, Enforce
<1>3. MaskMarksSamples'
  BY <1>1 DEF LInv, MaskMarksSamples, tokenVars, resultVars, Tito
<1> QED
  BY <1>2, <1>3 DEF LInv

\* A mask that is zeroed keeps its type and length.
LEMMA MaskTypes ==
    ASSUME mask \in Seq(Bits), NEW out \in BOOLEAN
    PROVE  /\ Mask(out) \in Seq(Bits)
           /\ Len(Mask(out)) = Len(mask)
           /\ ~out => Mask(out) = mask
<1>1. Len(mask) \in Nat
  OBVIOUS
<1>2. Zeros(Len(mask)) \in Seq(Bits) /\ Len(Zeros(Len(mask))) = Len(mask)
  BY <1>1, OfProperties DEF Zeros, Bits
<1> QED
  BY <1>2 DEF Mask

\* The filter zeroes the mask of what it masks out, and of nothing else.
LEMMA FilterKeeps ==
    ASSUME LInv, Filter
    PROVE  LInv'
<1>1. /\ LoopTypes
      /\ pc = "left" /\ pc' \in {"score", "close"}
      /\ ~maskedOut /\ maskedOut' \in BOOLEAN
      /\ mask' = Mask(maskedOut')
      /\ UNCHANGED <<config, prompt, initial, response, rlen, episode, rewards,
                     formatOk>>
  BY DEF LInv, Phases, LoopTypes, Filter
<1>2. /\ mask' \in Seq(Bits)
      /\ Len(mask') = Len(mask)
      /\ ~maskedOut' => mask' = mask
  BY <1>1, MaskTypes DEF LoopTypes
<1>3. LoopTypes' /\ Phases' /\ Room' /\ Rewards' /\ FormatPenalty'
  BY <1>1, <1>2 DEF LInv, LoopTypes, Phases, Room, Rewards, FormatPenalty,
                    Enforce
<1>4. MaskMarksSamples'
  BY <1>1, <1>2 DEF LInv, MaskMarksSamples, Tito
<1> QED
  BY <1>3, <1>4 DEF LInv

\* The final reward is the last step's.
LEMMA ScoreKeeps ==
    ASSUME LInv, NEW score \in Scores, FinalReward(score)
    PROVE  LInv'
<1>1. /\ LoopTypes
      /\ pc = "score" /\ pc' = "close"
      /\ rewards' = [rewards EXCEPT ![Len(rewards)] = score]
      /\ score \in Nat
      /\ UNCHANGED <<config, tokenVars, episode, resultVars>>
  BY LoopAssumption DEF LInv, FinalReward
<1>2. /\ rewards' \in Seq(Nat)
      /\ config.sparse => \A i \in 1..Len(rewards') - 1 : rewards'[i] = 0
  <2>1. /\ rewards \in Seq(Nat)
        /\ config.sparse => \A i \in 1..Len(rewards) - 1 : rewards[i] = 0
    BY <1>1 DEF LInv, LoopTypes, Rewards
  <2>2. rewards' = Scored(rewards, score)
    BY <1>1 DEF Scored
  <2>3. score \in Nat
    BY <1>1
  <2> QED
    BY <2>1, <2>2, <2>3, ScoredIsSeq, ScoreLast
<1>3. LoopTypes' /\ Phases' /\ Room' /\ Rewards' /\ FormatPenalty'
  BY <1>1, <1>2 DEF LInv, LoopTypes, Phases, Room, Rewards, FormatPenalty,
                    Enforce, tokenVars, resultVars
<1>4. MaskMarksSamples'
  BY <1>1 DEF LInv, MaskMarksSamples, Tito, tokenVars, resultVars
<1> QED
  BY <1>3, <1>4 DEF LInv

\* A malformed trajectory loses its reward and its mask.
LEMMA DeliverKeeps ==
    ASSUME LInv, Deliver
    PROVE  LInv'
<1>1. PICK bad \in BOOLEAN :
            /\ bad = (~maskedOut /\ ~config.validate /\ Malformed)
            /\ formatOk' = ~bad
            /\ rewards' = IF bad THEN [rewards EXCEPT ![Len(rewards)] = 0]
                          ELSE rewards
            /\ mask' = Mask(bad)
            /\ maskedOut' = (maskedOut \/ bad)
  BY DEF Deliver
<1>2. /\ LoopTypes
      /\ pc = "close" /\ pc' = "done"
      /\ UNCHANGED <<config, prompt, initial, response, rlen, episode>>
  BY DEF LInv, Deliver
<1>3. /\ mask' \in Seq(Bits)
      /\ Len(mask') = Len(mask)
      /\ ~bad => mask' = mask
  BY <1>1, <1>2, MaskTypes DEF LoopTypes
<1>4. /\ rewards' \in Seq(Nat)
      /\ config.sparse => \A i \in 1..Len(rewards') - 1 : rewards'[i] = 0
      /\ bad => \A i \in 1..Len(rewards') :
                    config.sparse \/ i = Len(rewards') => rewards'[i] = 0
  <2>1. /\ rewards \in Seq(Nat)
        /\ config.sparse => \A i \in 1..Len(rewards) - 1 : rewards[i] = 0
    BY <1>2 DEF LInv, LoopTypes, Rewards
  <2>2. CASE bad
    <3>1. rewards' = Scored(rewards, 0)
      BY <1>1, <2>2 DEF Scored
    <3>2. /\ rewards' \in Seq(Nat)
          /\ Len(rewards') = Len(rewards)
          /\ \A i \in 1..Len(rewards') : i = Len(rewards') => rewards'[i] = 0
      BY <2>1, <3>1, ScoredIsSeq
    <3>3. config.sparse => \A i \in 1..Len(rewards) : rewards'[i] = 0
      BY <2>1, <3>1, ScoreLast
    <3>4. config.sparse => \A i \in 1..Len(rewards) - 1 : rewards'[i] = 0
      BY <2>1, <3>1, ScoreLast
    <3> QED
      BY <3>2, <3>3, <3>4
  <2>3. CASE ~bad
    BY <1>1, <2>1, <2>3
  <2> QED
    BY <2>2, <2>3
<1>5. LoopTypes' /\ Phases' /\ Room' /\ Rewards'
  BY <1>1, <1>2, <1>3, <1>4 DEF LInv, LoopTypes, Phases, Room, Rewards, Enforce
<1>6. FormatPenalty'
  BY <1>1, <1>2, <1>4 DEF LoopTypes, FormatPenalty, Malformed
<1>7. MaskMarksSamples'
  BY <1>1, <1>2, <1>3 DEF LInv, LoopTypes, MaskMarksSamples, Tito
<1> QED
  BY <1>5, <1>6, <1>7 DEF LInv

-------------------------------------------------------------------------------
(* The attempt *)

\* Nothing has begun.
LEMMA LoopInit == Init => LInv
<1> SUFFICES ASSUME Init PROVE LInv
  OBVIOUS
<1>1. LoopTypes
  <2>1. /\ prompt \in Seq(Tokens) /\ response \in Seq(Tokens)
        /\ mask \in Seq(Bits) /\ episode \in Seq(Step)
        /\ rewards \in Seq(Nat)
    BY EmptySeq DEF Init
  <2> QED
    BY <2>1 DEF Init, LoopTypes
<1>2. MaskMarksSamples
  <2>1. Of("p", 0) = <<>>
    <3>1. Of("p", 0) \in Seq(Tokens) /\ Len(Of("p", 0)) = 0
      BY OfProperties DEF Tokens
    <3> QED
      BY <3>1
  <2> QED
    BY <2>1, ConcatEmptySeq DEF Init, MaskMarksSamples
<1>3. Phases /\ Room /\ Rewards /\ FormatPenalty
  BY LoopAssumption DEF Init, Phases, Room, Rewards, FormatPenalty
<1> QED
  BY <1>1, <1>2, <1>3 DEF LInv

\* The invariant holds in every reachable state, for both loops, every setting
\* and any lengths of answers and turns (lines 231 to 887 of the engine).
THEOREM LoopInvariance == Spec => []LInv
<1>1. LInv /\ [Next]_vars => LInv'
  <2> SUFFICES ASSUME LInv, [Next]_vars PROVE LInv'
    OBVIOUS
  <2>1. CASE Reset
    BY <2>1, ResetKeeps
  <2>2. CASE AskModel
    BY <2>2, AskKeeps
  <2>3. CASE \E n \in SampleLens, ok \in BOOLEAN, d \in Delays :
                ModelAnswers(n, ok, d)
    BY <2>3, ModelKeeps
  <2>4. CASE \E k \in TurnLens, done \in BOOLEAN, r \in StepRewards,
                d \in Delays : EnvAnswers(k, done, r, d)
    BY <2>4, EnvKeeps
  <2>5. CASE EnvTimeout \/ Raise
    BY <2>5, EndKeeps
  <2>6. CASE Filter
    BY <2>6, FilterKeeps
  <2>7. CASE \E score \in Scores : FinalReward(score)
    BY <2>7, ScoreKeeps
  <2>8. CASE Deliver
    BY <2>8, DeliverKeeps
  <2>9. CASE UNCHANGED vars
    BY <2>9 DEF LInv, LoopTypes, Phases, Room, Rewards, FormatPenalty,
                MaskMarksSamples, vars, tokenVars, resultVars, Tito, Enforce
  <2> QED
    BY <2>1, <2>2, <2>3, <2>4, <2>5, <2>6, <2>7, <2>8, <2>9 DEF Next
<1> QED
  BY <1>1, LoopInit, PTL DEF Spec

\* The model is never called without room for a token, and without enforced
\* prompts no response exceeds max_response_length (lines 284 to 287, 366 to
\* 413 and 701 to 806 of the engine).
THEOREM BudgetIsKept == Spec => []BudgetHolds
<1>1. LInv => BudgetHolds
  BY RoomToAnswer DEF LInv, Room, BudgetHolds
<1> QED
  BY <1>1, LoopInvariance, PTL

\* The token loop's mask marks the sampled tokens and no other, and its next
\* prompt is the initial one with the response (lines 701 to 813).
THEOREM MasksMarkSamples == Spec => []MaskMarksSamples
<1>1. LInv => MaskMarksSamples
  BY DEF LInv
<1> QED
  BY <1>1, LoopInvariance, PTL

\* A malformed answer costs the last reward, every reward if the env only pays
\* at the end, and what is not masked out has none or is a validation (lines 26
\* to 74 and 823 to 887; an env that pays on the way keeps what it paid).
THEOREM FormatIsPenalized == Spec => []FormatPenalty
<1>1. LInv => FormatPenalty
  BY DEF LInv
<1> QED
  BY <1>1, LoopInvariance, PTL

-------------------------------------------------------------------------------
(* The steps *)

\* What each step adds to the sequence that assemble_steps builds, and to its
\* mask.
Part(steps, i) == Between(steps, i) \o steps[i].completion
Mark(steps, i) == Zeros(Len(Between(steps, i))) \o
                  Ones(Len(steps[i].completion))
Parts(steps) == [i \in 1..Len(steps) |-> Part(steps, i)]
Marks(steps) == [i \in 1..Len(steps) |-> Mark(steps, i)]

\* A step and a reward for each iteration, and no more than MaxSteps.
Counted ==
    /\ Len(rewards) = Len(episode)
    /\ Len(episode) <= MaxSteps
    /\ total \in 0..Deadline
    /\ reason \in Overlong \cup {"none", "PROMPT_TRUNCATION", "ENV_DONE"}
    /\ pc = "reset" => episode = <<>>
    /\ pc \in {"reset", "call", "model"} => Len(episode) < MaxSteps
    /\ pc \in {"reset", "call", "model", "env"} => reason = "none"
    /\ pc \in {"call", "model"} /\ episode = <<>> =>
           Len(prompt) <= MaxPrompt /\ rlen = 0
    /\ pc \in {"left", "score", "close", "done"} => episode # <<>>

\* The response and its mask are those of the steps, with k tokens of the
\* environment behind them; the next prompt ends the same way.
Behind(k) ==
    /\ response = FlattenSeq(Parts(episode)) \o Of("e", k)
    /\ ~maskedOut => mask = FlattenSeq(Marks(episode)) \o Zeros(k)
    /\ pc \in {"reset", "call", "model"} =>
           IF episode = <<>> THEN k = 0
           ELSE prompt = Seen(episode[Len(episode)]) \o Of("e", k)
    /\ pc = "env" => k = 0 /\ prompt = Seen(episode[Len(episode)])
Follows ==
    Tito => /\ Cumulative(episode, Len(episode))
            /\ \E k \in Nat : Behind(k)

\* What was delivered is what the loop had when it was done.
Delivered ==
    result = IF pc # "done" THEN Nothing
             ELSE IF Tito THEN [tokens |-> response, masks |-> mask]
             ELSE Assemble(episode)

StepsInv == Counted /\ Follows /\ Delivered

\* What a step adds is made of tokens, and its mask of bits.
LEMMA PartTypes ==
    ASSUME NEW steps \in Seq(Step), NEW i \in 1..Len(steps)
    PROVE  /\ Between(steps, i) \in Seq(Tokens)
           /\ Len(Between(steps, i)) \in Nat
           /\ Part(steps, i) \in Seq(Tokens)
           /\ Mark(steps, i) \in Seq(Bits)
<1>1. PICK p, c : /\ p = steps[i].prompt /\ p \in Seq(Tokens)
                  /\ c = steps[i].completion /\ c \in Seq({"a"})
  <2>1. steps[i] \in Step
    BY ElementOfSeq
  <2>2. QED
    BY <2>1 DEF Step
<1>2. c \in Seq(Tokens) /\ Len(c) \in Nat
  BY <1>1, SeqMonotonic DEF Tokens
<1>3. Between(steps, i) \in Seq(Tokens)
  <2>1. CASE i = 1
    BY <2>1 DEF Between
  <2>2. CASE i # 1
    <3>1. PICK q : q = Seen(steps[i - 1])
      OBVIOUS
    <3>2. Len(q) \in Nat
      <4>1. i - 1 \in 1..Len(steps)
        BY <2>2
      <4>2. steps[i - 1] \in Step
        BY <4>1
      <4>3. PICK x, y : /\ x = steps[i - 1].prompt /\ x \in Seq(Tokens)
                        /\ y = steps[i - 1].completion /\ y \in Seq({"a"})
        BY <4>2 DEF Step
      <4>4. y \in Seq(Tokens)
        BY <4>3, SeqMonotonic DEF Tokens
      <4>5. q \in Seq(Tokens)
        BY <3>1, <4>3, <4>4, ConcatProperties DEF Seen
      <4>6. QED
        BY <4>5
    <3>3. Len(q) + 1 \in Int /\ Len(p) \in Int
      BY <1>1, <3>2
    <3>4. \A j \in Len(q) + 1..Len(p) : p[j] \in Tokens
      <4>1. ASSUME NEW j \in Len(q) + 1..Len(p)
            PROVE  p[j] \in Tokens
        <5>1. j \in 1..Len(p)
          BY <3>2, <3>3
        <5>2. QED
          BY <1>1, <5>1, ElementOfSeq
      <4>2. QED
        BY <4>1
    <3>5. SubSeq(p, Len(q) + 1, Len(p)) \in Seq(Tokens)
      BY <3>3, <3>4, SubSeqProperties
    <3>6. QED
      BY <1>1, <2>2, <3>1, <3>5 DEF Between
  <2>3. QED
    BY <2>1, <2>2
<1>4. PICK b : b = Between(steps, i) /\ b \in Seq(Tokens) /\ Len(b) \in Nat
  BY <1>3
<1>5. Part(steps, i) \in Seq(Tokens)
  BY <1>1, <1>2, <1>4, ConcatProperties DEF Part
<1>6. Zeros(Len(b)) \in Seq(Bits) /\ Ones(Len(c)) \in Seq(Bits)
  BY <1>2, <1>4, OfProperties DEF Zeros, Ones, Bits
<1>7. Mark(steps, i) \in Seq(Bits)
  BY <1>1, <1>4, <1>6, ConcatProperties DEF Mark
<1>8. QED
  BY <1>4, <1>5, <1>7

\* So are the parts of all steps.
LEMMA PartsTypes ==
    ASSUME NEW steps \in Seq(Step), NEW n \in 0..Len(steps)
    PROVE  /\ [i \in 1..n |-> Part(steps, i)] \in Seq(Seq(Tokens))
           /\ [i \in 1..n |-> Mark(steps, i)] \in Seq(Seq(Bits))
           /\ Len([i \in 1..n |-> Part(steps, i)]) = n
           /\ Len([i \in 1..n |-> Mark(steps, i)]) = n
<1>1. n \in Nat
  OBVIOUS
<1>2. \A i \in 1..n : /\ Part(steps, i) \in Seq(Tokens)
                      /\ Mark(steps, i) \in Seq(Bits)
  BY PartTypes
<1>3. QED
  BY <1>1, <1>2

\* The same of all steps at once.
LEMMA PartsAreSeqs ==
    ASSUME NEW steps \in Seq(Step)
    PROVE  /\ Parts(steps) \in Seq(Seq(Tokens))
           /\ Marks(steps) \in Seq(Seq(Bits))
           /\ Len(Parts(steps)) = Len(steps)
           /\ Len(Marks(steps)) = Len(steps)
<1>1. Len(steps) \in 0..Len(steps)
  BY LenProperties
<1>2. QED
  BY <1>1, PartsTypes DEF Parts, Marks

\* A new step adds its part, which the earlier ones do not change.
LEMMA PartsAppend ==
    ASSUME NEW steps \in Seq(Step), NEW step \in Step, NEW more,
           more = Append(steps, step)
    PROVE  /\ Parts(more) = Append(Parts(steps), Part(more, Len(steps) + 1))
           /\ Marks(more) = Append(Marks(steps), Mark(more, Len(steps) + 1))
<1>1. PICK n : n = Len(steps) /\ n \in Nat
  OBVIOUS
<1>2. /\ more \in Seq(Step)
      /\ Len(more) = n + 1
      /\ \A i \in 1..n : more[i] = steps[i]
      /\ more[n + 1] = step
  BY <1>1, AppendProperties
<1>3. ASSUME NEW i \in 1..n
      PROVE  Part(more, i) = Part(steps, i) /\ Mark(more, i) = Mark(steps, i)
  <2>1. more[i] = steps[i]
    BY <1>2
  <2>2. i # 1 => more[i - 1] = steps[i - 1]
    BY <1>1, <1>2
  <2>3. Between(more, i) = Between(steps, i)
    BY <2>1, <2>2 DEF Between
  <2>4. QED
    BY <2>1, <2>3 DEF Part, Mark
<1>4. ASSUME NEW f, NEW g, NEW S, f \in Seq(S), Len(f) = n, g \in Seq(S),
             Len(g) = n + 1, \A i \in 1..n : g[i] = f[i]
      PROVE  g = Append(f, g[n + 1])
  <2>1. PICK e : e = g[n + 1] /\ e \in S
    BY <1>1, <1>4, ElementOfSeq
  <2>2. PICK h : h = Append(f, e)
    OBVIOUS
  <2>3. /\ h \in Seq(S)
        /\ Len(h) = n + 1
        /\ \A i \in 1..n : h[i] = f[i]
        /\ h[n + 1] = e
    BY <1>4, <2>1, <2>2, AppendProperties
  <2>4. \A i \in 1..n + 1 : g[i] = h[i]
    <3>1. \A i \in 1..n + 1 : i \in 1..n \/ i = n + 1
      BY <1>1
    <3>2. QED
      BY <1>4, <2>1, <2>3, <3>1
  <2>5. g = h
    BY <1>1, <1>4, <2>3, <2>4, SeqEqual
  <2>6. QED
    BY <2>1, <2>2, <2>5
<1>5. Parts(more) = Append(Parts(steps), Part(more, n + 1))
  <2>1. /\ Parts(more) \in Seq(Seq(Tokens)) /\ Len(Parts(more)) = n + 1
        /\ Parts(steps) \in Seq(Seq(Tokens)) /\ Len(Parts(steps)) = n
    BY <1>1, <1>2, PartsAreSeqs
  <2>2. \A i \in 1..n : Parts(more)[i] = Parts(steps)[i]
    BY <1>1, <1>2, <1>3 DEF Parts
  <2>3. Parts(more)[n + 1] = Part(more, n + 1)
    BY <1>1, <1>2 DEF Parts
  <2>4. QED
    BY <1>4, <2>1, <2>2, <2>3
<1>6. Marks(more) = Append(Marks(steps), Mark(more, n + 1))
  <2>1. /\ Marks(more) \in Seq(Seq(Bits)) /\ Len(Marks(more)) = n + 1
        /\ Marks(steps) \in Seq(Seq(Bits)) /\ Len(Marks(steps)) = n
    BY <1>1, <1>2, PartsAreSeqs
  <2>2. \A i \in 1..n : Marks(more)[i] = Marks(steps)[i]
    BY <1>1, <1>2, <1>3 DEF Marks
  <2>3. Marks(more)[n + 1] = Mark(more, n + 1)
    BY <1>1, <1>2 DEF Marks
  <2>4. QED
    BY <1>4, <2>1, <2>2, <2>3
<1>7. QED
  BY <1>1, <1>5, <1>6

\* The largest number of a bounded set.
LEMMA MaxOfBounded ==
    ASSUME NEW n \in Nat, NEW T, T \subseteq 1..n, T # {}
    PROVE  Max(T) \in T /\ \A y \in T : y <= Max(T)
<1> DEFINE U == {n - x : x \in T}
<1>1. U \subseteq Nat /\ U # {}
  OBVIOUS
<1>2. PICK u \in U : \A v \in U : u <= v
  BY <1>1, LeastNat
<1>3. PICK x \in T : u = n - x
  BY <1>2
<1>4. \A y \in T : x >= y
  <2>1. ASSUME NEW y \in T
        PROVE  x >= y
    <3>1. n - x <= n - y
      BY <1>2, <1>3
    <3>2. x \in Nat /\ y \in Nat
      OBVIOUS
    <3>3. QED
      BY <3>1, <3>2
  <2>2. QED
    BY <2>1
<1>5. Max(T) \in T /\ \A y \in T : Max(T) >= y
  BY <1>4 DEF Max
<1>6. \A y \in T : y <= Max(T)
  <2>1. \A y \in T : y \in Nat
    OBVIOUS
  <2>2. QED
    BY <1>5, <2>1
<1>7. QED
  BY <1>5, <1>6

\* How much of the steps assemble_steps takes.
Taken(steps) == Max({i \in 1..Len(steps) : Cumulative(steps, i)})

\* All of them when each prompt goes on with what came before.
LEMMA TakenAll ==
    ASSUME NEW steps \in Seq(Step), steps # <<>>
    PROVE  /\ Taken(steps) \in 1..Len(steps)
           /\ Cumulative(steps, Taken(steps))
           /\ Cumulative(steps, Len(steps)) => Taken(steps) = Len(steps)
<1>1. PICK n : n = Len(steps) /\ n \in Nat /\ n >= 1
  OBVIOUS
<1> DEFINE T == {i \in 1..n : Cumulative(steps, i)}
<1>2. T \subseteq 1..n
  OBVIOUS
<1>3. 1 \in T
  <2>1. 2..1 = {}
    OBVIOUS
  <2>2. QED
    BY <1>1, <2>1 DEF Cumulative
<1>4. T # {}
  BY <1>3
<1>5. Taken(steps) = Max(T)
  BY <1>1 DEF Taken
<1> HIDE DEF T
<1>6. Max(T) \in T /\ \A y \in T : y <= Max(T)
  BY <1>1, <1>2, <1>4, MaxOfBounded
<1>7. Cumulative(steps, n) => n \in T
  BY <1>1 DEF T
<1>8. Max(T) \in 1..n /\ Cumulative(steps, Max(T))
  BY <1>6 DEF T
<1>9. Cumulative(steps, n) => Max(T) = n
  BY <1>1, <1>6, <1>7, <1>8
<1>10. QED
  BY <1>1, <1>5, <1>8, <1>9

\* What assemble_steps delivers, for steps some of which may not continue.
LEMMA AssembleForm ==
    ASSUME NEW steps \in Seq(Step), steps # <<>>
    PROVE  /\ Assemble(steps) \in [tokens : Seq(Tokens), masks : Seq(Bits)]
           /\ Cumulative(steps, Len(steps)) =>
                  Assemble(steps) = [tokens |-> FlattenSeq(Parts(steps)),
                                     masks |-> FlattenSeq(Marks(steps))]
           /\ config.filterMismatch
              /\ (\E i \in 1..Len(Assemble(steps).masks) :
                      Assemble(steps).masks[i] = 1)
              => Cumulative(steps, Len(steps))
<1>1. PICK n : n = Taken(steps)
  OBVIOUS
<1>2. /\ n \in 1..Len(steps) /\ n \in 0..Len(steps)
      /\ Cumulative(steps, n)
      /\ Cumulative(steps, Len(steps)) => n = Len(steps)
  BY <1>1, TakenAll
<1>3. PICK t, m : /\ t = FlattenSeq([i \in 1..n |-> Part(steps, i)])
                  /\ m = FlattenSeq([i \in 1..n |-> Mark(steps, i)])
  OBVIOUS
<1>4. t \in Seq(Tokens) /\ m \in Seq(Bits)
  BY <1>2, <1>3, PartsTypes, FlattenType
<1>5. Assemble(steps) =
          [tokens |-> t,
           masks |-> IF config.filterMismatch /\ n < Len(steps)
                     THEN Zeros(Len(m)) ELSE m]
  BY <1>1, <1>3 DEF Assemble, Taken, Part, Mark
<1>6. /\ Zeros(Len(m)) \in Seq(Bits)
      /\ Len(Zeros(Len(m))) = Len(m)
      /\ \A i \in 1..Len(m) : Zeros(Len(m))[i] = 0
  <2>1. Len(m) \in Nat /\ 0 \in Bits
    BY <1>4 DEF Bits
  <2>2. QED
    BY <2>1, OfProperties DEF Zeros
<1>7. Assemble(steps) \in [tokens : Seq(Tokens), masks : Seq(Bits)]
  BY <1>4, <1>5, <1>6
<1>8. n = Len(steps) =>
          Assemble(steps) = [tokens |-> FlattenSeq(Parts(steps)),
                             masks |-> FlattenSeq(Marks(steps))]
  BY <1>3, <1>5 DEF Parts, Marks
<1>9. ASSUME config.filterMismatch, n < Len(steps)
      PROVE  ~ \E i \in 1..Len(Assemble(steps).masks) :
                  Assemble(steps).masks[i] = 1
  BY <1>5, <1>6, <1>9
<1>10. n = Len(steps) \/ n < Len(steps)
  BY <1>2
<1>11. QED
  BY <1>2, <1>7, <1>8, <1>9, <1>10

\* It is a sequence and its mask in any case.
LEMMA AssembleTypes ==
    ASSUME NEW steps \in Seq(Step), steps # <<>>
    PROVE  Assemble(steps) \in [tokens : Seq(Tokens), masks : Seq(Bits)]
BY AssembleForm

\* The elements from a to b of a sequence.
LEMMA SubSeqElements ==
    ASSUME NEW S, NEW u \in Seq(S), NEW a \in Nat \ {0}, NEW n \in Nat,
           (a - 1) + n <= Len(u)
    PROVE  /\ SubSeq(u, a, (a - 1) + n) \in Seq(S)
           /\ Len(SubSeq(u, a, (a - 1) + n)) = n
           /\ \A i \in 1..n : SubSeq(u, a, (a - 1) + n)[i] = u[(a - 1) + i]
<1>1. PICK b : b = (a - 1) + n
  OBVIOUS
<1>2. a \in Int /\ b \in Int /\ b <= Len(u) /\ Len(u) \in Nat
  BY <1>1, LenProperties
<1>3. \A i \in a..b : u[i] \in S
  <2>1. \A i \in a..b : i \in 1..Len(u)
    BY <1>2
  <2>2. QED
    BY <2>1, ElementOfSeq
<1>4. PICK v : v = SubSeq(u, a, b)
  OBVIOUS
<1>5. /\ v \in Seq(S)
      /\ Len(v) = IF a <= b THEN b - a + 1 ELSE 0
      /\ \A i \in 1..b - a + 1 : v[i] = u[a + i - 1]
  BY <1>2, <1>3, <1>4, SubSeqProperties
<1>6. Len(v) = n /\ b - a + 1 = n
  BY <1>1, <1>5
<1>7. \A i \in 1..n : a + i - 1 = (a - 1) + i
  OBVIOUS
<1>8. \A i \in 1..n : v[i] = u[(a - 1) + i]
  BY <1>5, <1>6, <1>7
<1>9. QED
  BY <1>1, <1>4, <1>5, <1>6, <1>8

\* What comes behind a sequence is what is left when it is cut off.
LEMMA CutOff ==
    ASSUME NEW S, NEW s \in Seq(S), NEW t \in Seq(S), NEW u, u = s \o t
    PROVE  /\ SubSeq(u, Len(s) + 1, Len(u)) = t
           /\ IsPrefix(s, u)
<1>0. Len(s) \in Nat /\ Len(t) \in Nat
  BY LenProperties
<1>1. PICK m, n : m = Len(s) /\ n = Len(t) /\ m \in Nat /\ n \in Nat
  BY <1>0
<1>2. /\ u \in Seq(S)
      /\ Len(u) = m + n
      /\ \A i \in 1..m + n : u[i] = IF i <= m THEN s[i] ELSE t[i - m]
  BY <1>1, ConcatProperties
<1>3. SubSeq(u, m + 1, m + n) = t
  <2>1. PICK a, v : a = m + 1 /\ v = SubSeq(u, a, (a - 1) + n)
    OBVIOUS
  <2>2. a \in Nat \ {0} /\ (a - 1) + n <= Len(u) /\ (a - 1) + n = m + n
    BY <1>1, <1>2, <2>1
  <2>3. /\ v \in Seq(S)
        /\ Len(v) = n
        /\ \A i \in 1..n : v[i] = u[(a - 1) + i]
    BY <1>1, <1>2, <2>1, <2>2, SubSeqElements
  <2>4. ASSUME NEW i \in 1..n
        PROVE  v[i] = t[i]
    <3>1. /\ (a - 1) + i = m + i /\ m + i \in 1..m + n
          /\ ~ (m + i <= m) /\ (m + i) - m = i
      BY <1>1, <2>1
    <3>2. u[m + i] = t[i]
      BY <1>2, <3>1
    <3>3. QED
      BY <2>3, <3>1, <3>2
  <2>5. v = t
    BY <1>1, <2>3, <2>4, SeqEqual
  <2>6. QED
    BY <2>1, <2>2, <2>5
<1>4. IsPrefix(s, u)
  <2>1. SubSeq(s, 1, m) = s
    BY <1>1, SubSeqFull
  <2>2. PICK a, v : a = 1 /\ v = SubSeq(u, a, (a - 1) + m)
    OBVIOUS
  <2>3. a \in Nat \ {0} /\ (a - 1) + m <= Len(u) /\ (a - 1) + m = m
    BY <1>1, <1>2, <2>2
  <2>4. /\ v \in Seq(S)
        /\ Len(v) = m
        /\ \A i \in 1..m : v[i] = u[(a - 1) + i]
    BY <1>1, <1>2, <2>2, <2>3, SubSeqElements
  <2>5. ASSUME NEW i \in 1..m
        PROVE  v[i] = s[i]
    <3>1. (a - 1) + i = i /\ i \in 1..m + n /\ i <= m
      BY <1>1, <2>2
    <3>2. u[i] = s[i]
      BY <1>2, <3>1
    <3>3. QED
      BY <2>4, <3>1, <3>2
  <2>6. v = s
    BY <1>1, <2>4, <2>5, SeqEqual
  <2>7. m <= Len(u)
    BY <1>1, <1>2
  <2>8. QED
    BY <1>1, <2>1, <2>2, <2>3, <2>6, <2>7 DEF IsPrefix
<1>5. QED
  BY <1>1, <1>2, <1>3, <1>4

\* Concatenations can be grouped as one likes.
LEMMA Regroup ==
    ASSUME NEW S, NEW s \in Seq(S), NEW t \in Seq(S), NEW u \in Seq(S)
    PROVE  s \o (t \o u) = (s \o t) \o u
BY ConcatAssociative

\* No tokens.
LEMMA OfNone == \A token : Of(token, 0) = <<>>
BY DEF Of

\* The time that is gone never exceeds the deadline.
LEMMA LaterIn ==
    ASSUME NEW d \in Delays, total \in 0..Deadline
    PROVE  Later(d) \in 0..Deadline
<1>1. d \in Nat /\ Deadline \in Nat /\ total + d \in Nat
  BY LoopAssumption
<1>2. CASE Deadline <= total + d
  <2>1. \A y \in {Deadline, total + d} : Deadline <= y
    BY <1>1, <1>2
  <2>2. Later(d) \in {Deadline, total + d} /\ Later(d) <= Deadline
    BY <2>1 DEF Later, Min
  <2>3. QED
    BY <1>1, <2>2
<1>3. CASE total + d <= Deadline
  <2>1. \A y \in {Deadline, total + d} : total + d <= y
    BY <1>1, <1>3
  <2>2. Later(d) \in {Deadline, total + d} /\ Later(d) <= total + d
    BY <2>1 DEF Later, Min
  <2>3. QED
    BY <1>1, <1>3, <2>2
<1>4. QED
  BY <1>1, <1>2, <1>3

-------------------------------------------------------------------------------
\* A new step whose prompt goes on with the last one's tokens and k of the
\* environment.
LEMMA StepJoins ==
    ASSUME NEW steps \in Seq(Step), NEW step \in Step, NEW more,
           more = Append(steps, step), Cumulative(steps, Len(steps)),
           NEW k \in Nat,
           IF steps = <<>> THEN k = 0
           ELSE step.prompt = Seen(steps[Len(steps)]) \o Of("e", k)
    PROVE  /\ FlattenSeq(Parts(more)) =
                 (FlattenSeq(Parts(steps)) \o Of("e", k)) \o step.completion
           /\ FlattenSeq(Marks(more)) =
                 (FlattenSeq(Marks(steps)) \o Zeros(k)) \o
                     Ones(Len(step.completion))
           /\ Cumulative(more, Len(more))
<1>1. PICK n : n = Len(steps) /\ n \in Nat
  OBVIOUS
<1>2. /\ more \in Seq(Step)
      /\ Len(more) = n + 1
      /\ \A i \in 1..n : more[i] = steps[i]
      /\ more[n + 1] = step
  BY <1>1, AppendProperties
<1>3. PICK c, turn : /\ c = step.completion /\ turn = Of("e", k)
                     /\ c \in Seq(Tokens) /\ Len(c) \in Nat
                     /\ turn \in Seq(Tokens) /\ Len(turn) = k
  <2>1. step.completion \in Seq(Tokens)
    BY SeqMonotonic DEF Step, Tokens
  <2>2. Of("e", k) \in Seq(Tokens) /\ Len(Of("e", k)) = k
    BY OfProperties DEF Tokens
  <2>3. QED
    BY <2>1, <2>2
<1>4. Between(more, n + 1) = turn
  <2>1. CASE n = 0
    <3>1. k = 0
      <4>1. steps = <<>>
        BY <1>1, <2>1, EmptySeq
      <4>2. QED
        BY <4>1
    <3>2. QED
      BY <1>3, <2>1, <3>1, OfNone DEF Between
  <2>2. CASE n # 0
    <3>1. step.prompt = Seen(steps[n]) \o turn
      BY <1>1, <1>3, <2>2
    <3>2. n \in 1..n /\ n + 1 # 1 /\ (n + 1) - 1 = n
      BY <1>1, <2>2
    <3>3. Seen(steps[n]) \in Seq(Tokens)
      <4>1. steps[n] \in Step
        BY <1>1, <3>2, ElementOfSeq
      <4>2. /\ steps[n].prompt \in Seq(Tokens)
            /\ steps[n].completion \in Seq(Tokens)
        BY <4>1, SeqMonotonic DEF Step, Tokens
      <4>3. QED
        BY <4>2, ConcatProperties DEF Seen
    <3>4. SubSeq(step.prompt, Len(Seen(steps[n])) + 1, Len(step.prompt)) = turn
      BY <1>3, <3>1, <3>3, CutOff
    <3>5. Between(more, n + 1) =
              SubSeq(step.prompt, Len(Seen(steps[n])) + 1, Len(step.prompt))
      BY <1>2, <3>2 DEF Between
    <3>6. QED
      BY <3>4, <3>5
  <2>3. QED
    BY <2>1, <2>2
<1>5. /\ Part(more, n + 1) = turn \o c
      /\ Mark(more, n + 1) = Zeros(k) \o Ones(Len(c))
  BY <1>2, <1>3, <1>4 DEF Part, Mark
<1>6. /\ Zeros(k) \in Seq(Bits) /\ Ones(Len(c)) \in Seq(Bits)
  <2>1. 0 \in Bits /\ 1 \in Bits
    BY DEF Bits
  <2>2. QED
    BY <1>3, <2>1, OfProperties DEF Zeros, Ones
<1>7. /\ Parts(steps) \in Seq(Seq(Tokens))
      /\ Marks(steps) \in Seq(Seq(Bits))
  BY PartsAreSeqs
<1>8. FlattenSeq(Parts(more)) = (FlattenSeq(Parts(steps)) \o turn) \o c
  <2>1. Parts(more) = Append(Parts(steps), turn \o c)
    BY <1>1, <1>5, PartsAppend
  <2>2. turn \o c \in Seq(Tokens)
    BY <1>3, ConcatProperties
  <2>3. FlattenSeq(Parts(more)) = FlattenSeq(Parts(steps)) \o (turn \o c)
    BY <1>7, <2>1, <2>2, FlattenAppend
  <2>4. PICK f : f = FlattenSeq(Parts(steps)) /\ f \in Seq(Tokens)
    BY <1>7, FlattenType
  <2>5. f \o (turn \o c) = (f \o turn) \o c
    <3>1. turn \in Seq(Tokens) /\ c \in Seq(Tokens) /\ f \in Seq(Tokens)
      BY <1>3, <2>4
    <3>2. QED
      BY <3>1, Regroup, SMTT(30)
  <2>6. QED
    BY <2>3, <2>4, <2>5
<1>9. FlattenSeq(Marks(more)) =
          (FlattenSeq(Marks(steps)) \o Zeros(k)) \o Ones(Len(c))
  <2>1. Marks(more) = Append(Marks(steps), Zeros(k) \o Ones(Len(c)))
    BY <1>1, <1>5, PartsAppend
  <2>2. Zeros(k) \o Ones(Len(c)) \in Seq(Bits)
    BY <1>6, ConcatProperties
  <2>3. FlattenSeq(Marks(more)) =
            FlattenSeq(Marks(steps)) \o (Zeros(k) \o Ones(Len(c)))
    BY <1>7, <2>1, <2>2, FlattenAppend
  <2>4. PICK f : f = FlattenSeq(Marks(steps)) /\ f \in Seq(Bits)
    BY <1>7, FlattenType
  <2>5. PICK z, o : z = Zeros(k) /\ o = Ones(Len(c))
    OBVIOUS
  <2>6. f \o (z \o o) = (f \o z) \o o
    <3>1. z \in Seq(Bits) /\ o \in Seq(Bits) /\ f \in Seq(Bits)
      BY <1>6, <2>4, <2>5
    <3>2. QED
      BY <3>1, Regroup, SMTT(30)
  <2>7. QED
    BY <2>3, <2>4, <2>5, <2>6
<1>10. Cumulative(more, n + 1)
  <2>1. ASSUME NEW i \in 2..n + 1
        PROVE  IsPrefix(Seen(more[i - 1]), more[i].prompt)
    <3>1. CASE i \in 2..n
      <4>1. i \in 1..n /\ i - 1 \in 1..n
        BY <1>1, <3>1
      <4>2. more[i] = steps[i] /\ more[i - 1] = steps[i - 1]
        BY <1>2, <4>1
      <4>3. IsPrefix(Seen(steps[i - 1]), steps[i].prompt)
        BY <1>1, <3>1 DEF Cumulative
      <4>4. QED
        BY <4>2, <4>3
    <3>2. CASE i = n + 1
      <4>1. n \in 1..n /\ i - 1 = n
        BY <1>1, <3>2
      <4>2. step.prompt = Seen(steps[n]) \o turn
        BY <1>1, <1>3, <4>1
      <4>3. Seen(steps[n]) \in Seq(Tokens)
        <5>1. steps[n] \in Step
          BY <1>1, <4>1, ElementOfSeq
        <5>2. /\ steps[n].prompt \in Seq(Tokens)
              /\ steps[n].completion \in Seq(Tokens)
          BY <5>1, SeqMonotonic DEF Step, Tokens
        <5>3. QED
          BY <5>2, ConcatProperties DEF Seen
      <4>4. IsPrefix(Seen(steps[n]), step.prompt)
        BY <1>3, <4>2, <4>3, CutOff
      <4>5. QED
        BY <1>2, <3>2, <4>1, <4>4
    <3>3. QED
      BY <1>1, <3>1, <3>2
  <2>2. QED
    BY <2>1 DEF Cumulative
<1>11. QED
  BY <1>2, <1>3, <1>8, <1>9, <1>10

-------------------------------------------------------------------------------
\* An iteration adds one step and one reward, and the loop ends at the last.
LEMMA CountedStep ==
    ASSUME LInv, StepsInv, [Next]_vars
    PROVE  Counted'
<1>1. /\ Counted /\ LoopTypes
      /\ rewards \in Seq(Nat) /\ episode \in Seq(Step)
      /\ Len(rewards) \in Nat /\ Len(episode) \in Nat
      /\ MaxSteps \in Nat
      /\ pc = "env" => episode # <<>>
  <2>1. Counted /\ LoopTypes /\ Phases
    BY DEF LInv, StepsInv
  <2>2. rewards \in Seq(Nat) /\ episode \in Seq(Step)
    BY <2>1 DEF LoopTypes
  <2>3. QED
    BY <2>1, <2>2, LenProperties, LoopAssumption DEF Phases
<1>2. CASE Reset
  <2>1. PICK n \in PromptLens :
            /\ prompt' = Of("p", n)
            /\ pc' = IF n > MaxPrompt THEN "raised" ELSE "call"
    BY <1>2 DEF Reset
  <2>2. Len(Of("p", n)) = n /\ n \in Nat /\ MaxPrompt \in Nat
    BY LoopAssumption, OfProperties DEF Tokens
  <2>3. pc' = "call" => Len(prompt') <= MaxPrompt
    BY <2>1, <2>2
  <2>4. rlen = 0 /\ pc = "reset"
    BY <1>2 DEF LInv, Phases, Reset
  <2>5. QED
    BY <1>1, <1>2, <2>1, <2>3, <2>4 DEF Counted, Reset
<1>3. CASE AskModel
  <2>1. pc' = "left" => episode # <<>>
    <3> SUFFICES ASSUME episode = <<>>
                 PROVE  pc' = "model"
      BY <1>3 DEF AskModel
    <3>1. pc = "call" /\ Len(prompt) <= MaxPrompt /\ rlen = 0
          /\ reason = "none"
      BY <1>1, <1>3 DEF AskModel, Counted
    <3>2. Budget = MaxResponse /\ MaxResponse > 0
      BY <3>1, LoopAssumption DEF Budget
    <3>3. Len(prompt) \in Nat /\ MaxPrompt \in Nat
      BY <1>1, LoopAssumption, LenProperties DEF LoopTypes
    <3>4. ~ (Len(prompt) > MaxPrompt) /\ ~ (Budget <= 0)
      BY <3>1, <3>2, <3>3, LoopAssumption
    <3>5. QED
      BY <1>3, <3>1, <3>4 DEF AskModel
  <2>2. QED
    BY <1>1, <1>3, <2>1 DEF Counted, AskModel, Overlong, tokenVars
<1>4. ASSUME NEW n \in SampleLens, NEW ok \in BOOLEAN, NEW d \in Delays,
             ModelAnswers(n, ok, d)
      PROVE  Counted'
  <2>1. PICK c \in Seq({"a"}) : c = Clip(Of("a", n))
    BY <1>4, LoopAssumption, RoomToAnswer, ClipProperties DEF ModelAnswers
  <2>2. PICK st \in Step : episode' = Append(episode, st)
    <3>1. [prompt |-> prompt, completion |-> c, ok |-> ok] \in Step
      BY <1>1 DEF LoopTypes, Step
    <3>2. QED
      BY <1>4, <2>1, <3>1 DEF ModelAnswers
  <2>3. Len(episode') = Len(episode) + 1
    BY <1>1, <2>2, AppendProperties
  <2>4. Len(rewards') = Len(rewards) + 1
    <3>1. 0 \in Nat /\ rewards' = Append(rewards, 0)
      BY <1>4 DEF ModelAnswers
    <3>2. QED
      BY <1>1, <3>1, AppendProperties
  <2>5. total' \in 0..Deadline
    BY <1>1, <1>4, LaterIn DEF ModelAnswers, Counted
  <2>6. pc = "model" /\ pc' = "env" /\ reason' = reason
    BY <1>4 DEF ModelAnswers
  <2>7. QED
    BY <1>1, <2>3, <2>4, <2>5, <2>6 DEF Counted
<1>5. ASSUME NEW k \in TurnLens, NEW done \in BOOLEAN, NEW r \in StepRewards,
             NEW d \in Delays, EnvAnswers(k, done, r, d)
      PROVE  Counted'
  <2>1. PICK m, x :
            LET said == IF Tito THEN <<>> ELSE m
                why  == Verdict(rlen + Len(said) + k, Later(d), done)
            IN  /\ reason' = why
                /\ pc' = IF why = "none" THEN "call" ELSE "left"
                /\ x = IF Overflows(why, Len(said)) THEN 0 ELSE r
                /\ rewards' = [rewards EXCEPT ![Len(rewards)] = x]
    BY <1>5 DEF EnvAnswers
  <2>2. PICK size : LET why == Verdict(size, Later(d), done)
                    IN  /\ reason' = why
                        /\ pc' = IF why = "none" THEN "call" ELSE "left"
    BY <2>1
  <2>3. /\ reason' \in Overlong \cup {"none", "ENV_DONE"}
        /\ pc' \in {"call", "left"}
        /\ pc' = "call" => reason' = "none" /\ Len(episode) # MaxSteps
    BY <2>2 DEF Verdict, Overlong
  <2>4. Len(rewards') = Len(rewards)
    <3>1. x \in Nat
      BY <2>1, <1>5, LoopAssumption
    <3>2. rewards' = Scored(rewards, x)
      BY <2>1 DEF Scored
    <3>3. QED
      BY <1>1, <3>1, <3>2, ScoredIsSeq
  <2>5. /\ total' \in 0..Deadline
        /\ episode' = episode
        /\ pc = "env"
    BY <1>1, <1>5, LaterIn DEF EnvAnswers, Counted
  <2>6. QED
    BY <1>1, <2>3, <2>4, <2>5 DEF Counted
<1>6. CASE EnvTimeout
  BY <1>1, <1>6 DEF Counted, EnvTimeout, Overlong
<1>7. CASE Filter
  BY <1>1, <1>7 DEF Counted, Filter
<1>8. ASSUME NEW score \in Scores, FinalReward(score)
      PROVE  Counted'
  <2>1. score \in Nat /\ rewards' = Scored(rewards, score)
    BY <1>8, LoopAssumption DEF FinalReward, Scored
  <2>2. Len(rewards') = Len(rewards)
    BY <1>1, <2>1, ScoredIsSeq
  <2>3. QED
    BY <1>1, <1>8, <2>2 DEF Counted, FinalReward
<1>9. CASE Deliver
  <2>1. rewards' = rewards \/ rewards' = Scored(rewards, 0)
    BY <1>9 DEF Deliver, Scored
  <2>2. Len(rewards') = Len(rewards)
    BY <1>1, <2>1, ScoredIsSeq
  <2>3. QED
    BY <1>1, <1>9, <2>2 DEF Counted, Deliver
<1>10. CASE Raise
  BY <1>1, <1>10 DEF Counted, Raise
<1>11. CASE UNCHANGED vars
  BY <1>1, <1>11 DEF Counted, vars, tokenVars
<1>12. QED
  BY <1>2, <1>3, <1>4, <1>5, <1>6, <1>7, <1>8, <1>9, <1>10, <1>11 DEF Next

\* The model's answer ends the part of a new step.
LEMMA ModelFollows ==
    ASSUME LInv, StepsInv, Tito, NEW n \in SampleLens, NEW ok \in BOOLEAN,
           NEW d \in Delays, ModelAnswers(n, ok, d)
    PROVE  Follows'
<1>1. /\ LoopTypes /\ pc = "model" /\ pc' = "env"
      /\ ~maskedOut /\ ~maskedOut'
      /\ config' = config
  BY DEF LInv, Phases, ModelAnswers, resultVars
<1>2. PICK k \in Nat : Behind(k) /\ Cumulative(episode, Len(episode))
  BY DEF StepsInv, Follows
<1>3. PICK c \in Seq({"a"}) : c = Clip(Of("a", n))
  BY <1>1, LoopAssumption, RoomToAnswer, ClipProperties
<1>4. PICK step : step = [prompt |-> prompt, completion |-> c, ok |-> ok]
  OBVIOUS
<1>5. /\ step \in Step /\ step.prompt = prompt /\ step.completion = c
      /\ episode' = Append(episode, step)
      /\ prompt' = prompt \o c
      /\ response' = response \o c
      /\ mask' = mask \o Ones(Len(c))
  BY <1>1, <1>3, <1>4 DEF LoopTypes, Step, ModelAnswers
<1>6. PICK more : more = episode'
  OBVIOUS
<1>7. /\ episode \in Seq(Step)
      /\ response = FlattenSeq(Parts(episode)) \o Of("e", k)
      /\ mask = FlattenSeq(Marks(episode)) \o Zeros(k)
      /\ IF episode = <<>> THEN k = 0
         ELSE prompt = Seen(episode[Len(episode)]) \o Of("e", k)
  BY <1>1, <1>2 DEF LoopTypes, Behind
<1>8. /\ FlattenSeq(Parts(more)) = response \o c
      /\ FlattenSeq(Marks(more)) = mask \o Ones(Len(c))
      /\ Cumulative(more, Len(more))
  <2>1. IF episode = <<>> THEN k = 0
        ELSE step.prompt = Seen(episode[Len(episode)]) \o Of("e", k)
    BY <1>5, <1>7
  <2>2. /\ FlattenSeq(Parts(more)) =
               (FlattenSeq(Parts(episode)) \o Of("e", k)) \o step.completion
        /\ FlattenSeq(Marks(more)) =
               (FlattenSeq(Marks(episode)) \o Zeros(k)) \o
                   Ones(Len(step.completion))
        /\ Cumulative(more, Len(more))
    BY <1>2, <1>5, <1>6, <1>7, <2>1, StepJoins
  <2>3. QED
    BY <1>5, <1>7, <2>2
<1>9. /\ more \in Seq(Step) /\ Len(more) = Len(episode) + 1
      /\ more[Len(more)] = step
      /\ more # <<>>
  <2>1. more = Append(episode, step) /\ step \in Step /\ episode \in Seq(Step)
    BY <1>5, <1>6, <1>7
  <2>2. /\ more \in Seq(Step) /\ Len(more) = Len(episode) + 1
        /\ more[Len(episode) + 1] = step
        /\ more # <<>>
    BY <2>1, AppendProperties
  <2>3. QED
    BY <2>2
<1>10. /\ response \in Seq(Tokens) /\ mask \in Seq(Bits) /\ c \in Seq(Tokens)
       /\ FlattenSeq(Parts(more)) \in Seq(Tokens)
       /\ FlattenSeq(Marks(more)) \in Seq(Bits)
  BY <1>1, <1>9, PartsAreSeqs, FlattenType, SeqMonotonic DEF LoopTypes, Tokens
<1>11. /\ FlattenSeq(Parts(more)) \o Of("e", 0) = FlattenSeq(Parts(more))
       /\ FlattenSeq(Marks(more)) \o Zeros(0) = FlattenSeq(Marks(more))
  BY <1>10, OfNone, ConcatEmptySeq DEF Zeros
<1>12. prompt' = Seen(more[Len(more)])
  BY <1>5, <1>9 DEF Seen
<1>13. Behind(0)'
  BY <1>1, <1>5, <1>6, <1>8, <1>11, <1>12 DEF Behind
<1>14. QED
  BY <1>6, <1>8, <1>13 DEF Follows

\* A run of zeros or of one token that is cut at its end or at its start.
LEMMA CutRun ==
    ASSUME NEW S, NEW x \in S, NEW k \in Nat, NEW n \in {0, k}
    PROVE  SubSeq(<<>> \o Of(x, k), 1, n) = Of(x, n)
<1>1. Of(x, k) \in Seq(S) /\ Len(Of(x, k)) = k
  BY OfProperties
<1>2. <<>> \o Of(x, k) = Of(x, k)
  BY <1>1, ConcatEmptySeq
<1>3. CASE n = k
  BY <1>1, <1>2, <1>3, SubSeqFull
<1>4. CASE n = 0
  <2>1. SubSeq(Of(x, k), 1, 0) = <<>>
    BY SubSeqEmpty
  <2>2. QED
    BY <1>2, <1>4, <2>1, OfNone
<1>5. QED
  BY <1>3, <1>4

\* The environment's turn comes behind the steps, or nothing of it.
LEMMA EnvFollows ==
    ASSUME LInv, StepsInv, Tito, NEW k \in TurnLens, NEW done \in BOOLEAN,
           NEW r \in StepRewards, NEW d \in Delays, EnvAnswers(k, done, r, d)
    PROVE  Follows'
<1>1. /\ LoopTypes /\ pc = "env" /\ ~maskedOut
      /\ episode # <<>>
      /\ k \in Nat
      /\ UNCHANGED <<config, episode, maskedOut>>
  BY LoopAssumption DEF LInv, Phases, EnvAnswers, resultVars
<1>2. /\ Behind(0) /\ Cumulative(episode, Len(episode))
  BY <1>1 DEF StepsInv, Follows, Behind
<1>3. PICK why, n :
            /\ why = Verdict(rlen + 0 + k, Later(d), done)
            /\ n = Kept(why, 0, k)
            /\ pc' = IF why = "none" THEN "call" ELSE "left"
            /\ response' = response \o SubSeq(<<>> \o Of("e", k), 1, n)
            /\ mask' = mask \o SubSeq(Ones(0) \o Zeros(k), 1, n)
            /\ prompt' = IF why \in {"none", "MAX_STEPS"}
                         THEN prompt \o <<>> \o Of("e", k) ELSE prompt
  <2>1. Len(<<>>) = 0
    OBVIOUS
  <2>2. QED
    BY <2>1 DEF EnvAnswers
<1>4. n \in {0, k} /\ (why = "none" => n = k)
  <2>1. /\ Tito => n = 0 \/ n = k
        /\ Tito /\ why \in {"none", "MAX_STEPS"} => n = k
    BY <1>1, <1>3, KeptFits
  <2>2. QED
    BY <2>1
<1>5. /\ SubSeq(<<>> \o Of("e", k), 1, n) = Of("e", n)
      /\ SubSeq(Ones(0) \o Zeros(k), 1, n) = Zeros(n)
  <2>1. "e" \in Tokens /\ 0 \in Bits /\ Ones(0) = <<>>
    BY OfNone DEF Tokens, Bits, Ones
  <2>2. QED
    BY <1>1, <1>4, <2>1, CutRun DEF Zeros
<1>6. /\ response = FlattenSeq(Parts(episode))
      /\ mask = FlattenSeq(Marks(episode))
      /\ prompt = Seen(episode[Len(episode)])
  <2>1. /\ response = FlattenSeq(Parts(episode)) \o Of("e", 0)
        /\ mask = FlattenSeq(Marks(episode)) \o Zeros(0)
        /\ prompt = Seen(episode[Len(episode)])
    BY <1>1, <1>2 DEF Behind
  <2>2. /\ FlattenSeq(Parts(episode)) \in Seq(Tokens)
        /\ FlattenSeq(Marks(episode)) \in Seq(Bits)
    BY <1>1, PartsAreSeqs, FlattenType DEF LoopTypes
  <2>3. QED
    BY <2>1, <2>2, OfNone, ConcatEmptySeq DEF Zeros
<1>7. why = "none" => prompt' = prompt \o Of("e", n)
  <2>1. prompt \in Seq(Tokens)
    BY <1>1 DEF LoopTypes
  <2>2. prompt \o <<>> = prompt
    BY <2>1, ConcatEmptySeq
  <2>3. QED
    BY <1>3, <1>4, <2>2
<1>8. Behind(n)'
  BY <1>1, <1>3, <1>5, <1>6, <1>7 DEF Behind
<1>9. n \in Nat
  BY <1>1, <1>4
<1>10. QED
  BY <1>1, <1>2, <1>8, <1>9 DEF Follows

\* Nothing else moves what the steps make.
LEMMA FollowsStep ==
    ASSUME LInv, StepsInv, [Next]_vars
    PROVE  Follows'
<1> SUFFICES ASSUME Tito'
             PROVE  Follows'
  BY DEF Follows
<1>1. config' = config /\ Tito
  <2>1. ASSUME NEW x \in TurnLens, NEW done \in BOOLEAN,
               NEW r \in StepRewards, NEW d \in Delays,
               EnvAnswers(x, done, r, d)
        PROVE  config' = config
    BY <2>1 DEF EnvAnswers
  <2>2. config' = config
    BY <2>1 DEF Next, vars, Reset, AskModel, ModelAnswers, EnvTimeout, Filter,
                FinalReward, Deliver, Raise
  <2>3. QED
    BY <2>2 DEF Tito
<1>2. PICK k \in Nat : Behind(k) /\ Cumulative(episode, Len(episode))
  BY <1>1 DEF StepsInv, Follows
<1>3. CASE Reset
  <2>1. episode = <<>> /\ k = 0
    BY <1>2, <1>3 DEF StepsInv, Counted, Reset, Behind
  <2>2. Behind(k)'
    BY <1>2, <1>3, <2>1 DEF Behind, Reset, resultVars
  <2>3. QED
    BY <1>2, <1>3, <2>2 DEF Follows, Reset
<1>4. ASSUME NEW n \in SampleLens, NEW ok \in BOOLEAN, NEW d \in Delays,
             ModelAnswers(n, ok, d)
      PROVE  Follows'
  BY <1>1, <1>4, ModelFollows
<1>5. ASSUME NEW x \in TurnLens, NEW done \in BOOLEAN, NEW r \in StepRewards,
             NEW d \in Delays, EnvAnswers(x, done, r, d)
      PROVE  Follows'
  BY <1>1, <1>5, EnvFollows
<1>6. CASE \/ AskModel \/ EnvTimeout \/ Raise \/ UNCHANGED vars
           \/ \E score \in Scores : FinalReward(score)
  <2>1. /\ UNCHANGED <<response, mask, episode, prompt, maskedOut>>
        /\ pc' \in {"reset", "call", "model"} =>
               pc \in {"reset", "call", "model"}
        /\ pc' = "env" => pc = "env"
    BY <1>6 DEF AskModel, EnvTimeout, Raise, FinalReward, vars, tokenVars,
                resultVars
  <2>2. Behind(k)'
    BY <1>2, <2>1 DEF Behind
  <2>3. QED
    BY <1>2, <2>1, <2>2 DEF Follows
<1>7. CASE Filter \/ Deliver
  <2>1. /\ UNCHANGED <<response, episode>>
        /\ pc' \in {"score", "close", "done"}
        /\ ~maskedOut' => ~maskedOut /\ mask' = mask
    <3>1. CASE Filter
      BY <3>1 DEF Filter, Mask, LInv, Phases
    <3>2. CASE Deliver
      BY <3>2 DEF Deliver, Mask
    <3>3. QED
      BY <1>7, <3>1, <3>2
  <2>2. Behind(k)'
    BY <1>2, <2>1 DEF Behind
  <2>3. QED
    BY <1>2, <2>1, <2>2 DEF Follows
<1>8. QED
  BY <1>3, <1>4, <1>5, <1>6, <1>7 DEF Next

\* Only Deliver delivers, and nothing happens afterwards.
LEMMA DeliveredStep ==
    ASSUME LInv, StepsInv, [Next]_vars
    PROVE  Delivered'
<1>1. Delivered
  BY DEF StepsInv
<1>2. CASE Deliver
  <2>1. /\ pc' = "done"
        /\ UNCHANGED <<config, response, episode>>
        /\ result' = IF Tito THEN [tokens |-> response, masks |-> mask']
                     ELSE Assemble(episode)
    BY <1>2 DEF Deliver
  <2>2. Assemble(episode)' = Assemble(episode)
    BY <2>1 DEF Assemble
  <2>3. QED
    BY <2>1, <2>2 DEF Delivered, Tito
<1>3. CASE UNCHANGED vars
  <2>1. Assemble(episode)' = Assemble(episode)
    BY <1>3 DEF Assemble, vars
  <2>2. QED
    BY <1>1, <1>3, <2>1 DEF Delivered, vars, tokenVars, resultVars, Tito
<1>4. CASE Next /\ ~Deliver
  <2>1. pc # "done" /\ pc' # "done" /\ result' = result
    <3>1. ASSUME NEW n \in SampleLens, NEW ok \in BOOLEAN, NEW d \in Delays,
                 ModelAnswers(n, ok, d)
          PROVE  pc # "done" /\ pc' # "done" /\ result' = result
      BY <3>1 DEF ModelAnswers, resultVars
    <3>2. ASSUME NEW k \in TurnLens, NEW done \in BOOLEAN,
                 NEW r \in StepRewards, NEW d \in Delays,
                 EnvAnswers(k, done, r, d)
          PROVE  pc # "done" /\ pc' # "done" /\ result' = result
      <4>1. pc = "env" /\ pc' \in {"call", "left"} /\ result' = result
        BY <3>2 DEF EnvAnswers, resultVars
      <4>2. QED
        BY <4>1
    <3>3. ASSUME NEW score \in Scores, FinalReward(score)
          PROVE  pc # "done" /\ pc' # "done" /\ result' = result
      BY <3>3 DEF FinalReward, resultVars
    <3>4. CASE Reset \/ AskModel \/ EnvTimeout \/ Filter \/ Raise
      BY <3>4 DEF Reset, AskModel, EnvTimeout, Filter, Raise, resultVars
    <3>5. QED
      BY <1>4, <3>1, <3>2, <3>3, <3>4 DEF Next
  <2>2. QED
    BY <1>1, <2>1 DEF Delivered
<1>5. QED
  BY <1>2, <1>3, <1>4

\* Nothing has been asked.
LEMMA StepsInit == Init => StepsInv
<1> SUFFICES ASSUME Init
             PROVE  StepsInv
  OBVIOUS
<1>1. Counted
  BY LoopAssumption DEF Init, Counted
<1>2. Delivered
  BY DEF Init, Delivered
<1>3. Follows
  <2>1. Len(<<>>) = 0 /\ 2..0 = {} /\ 1..0 = {}
    OBVIOUS
  <2>2. Cumulative(episode, Len(episode))
    BY <2>1 DEF Init, Cumulative
  <2>3. Parts(<<>>) = <<>> /\ Marks(<<>>) = <<>>
    BY <2>1 DEF Parts, Marks
  <2>4. FlattenSeq(Parts(<<>>)) = <<>> /\ FlattenSeq(Marks(<<>>)) = <<>>
    BY <2>3, FlattenEmpty
  <2>5. <<>> \o <<>> = <<>>
    BY EmptySeq, ConcatEmptySeq
  <2>6. Behind(0)
    BY <2>4, <2>5, OfNone DEF Init, Behind, Zeros
  <2>7. QED
    BY <2>2, <2>6 DEF Follows
<1>4. QED
  BY <1>1, <1>2, <1>3 DEF StepsInv

\* A sequence with a run of one element behind it.
EndsInRun(u, s, x, k) ==
    /\ Len(u) = Len(s) + k
    /\ SubSeq(u, 1, Len(s)) = s
    /\ \A i \in Len(s) + 1..Len(u) : u[i] = x

\* Its length, its start and its end.
LEMMA RunBehind ==
    ASSUME NEW S, NEW s \in Seq(S), NEW x \in S, NEW k \in Nat
    PROVE  EndsInRun(s \o Of(x, k), s, x, k)
<1>0. PICK u : u = s \o Of(x, k)
  OBVIOUS
<1>1. PICK t : /\ t = Of(x, k) /\ t \in Seq(S) /\ Len(t) = k
               /\ \A i \in 1..k : t[i] = x
  BY OfProperties
<1>2. /\ Len(u) = Len(s) + k
      /\ \A i \in 1..Len(s) + k :
            u[i] = IF i <= Len(s) THEN s[i] ELSE t[i - Len(s)]
  BY <1>0, <1>1, ConcatProperties
<1>3. SubSeq(u, 1, Len(s)) = SubSeq(s, 1, Len(s))
  BY <1>0, <1>1, CutOff DEF IsPrefix
<1>4. SubSeq(s, 1, Len(s)) = s
  BY SubSeqFull
<1>5. ASSUME NEW i \in Len(s) + 1..Len(u)
      PROVE  u[i] = x
  <2>1. Len(s) \in Nat
    BY LenProperties
  <2>2. /\ i \in 1..Len(s) + k /\ ~ (i <= Len(s))
        /\ i - Len(s) \in 1..k
    BY <1>2, <2>1
  <2>3. QED
    BY <1>1, <1>2, <2>2
<1>6. QED
  BY <1>0, <1>2, <1>3, <1>4, <1>5 DEF EndsInRun

\* What is delivered is what assemble_steps makes, and what it leaves out.
LEMMA DeliveredForm ==
    ASSUME LInv, StepsInv, pc = "done"
    PROVE  /\ episode \in Seq(Step) /\ episode # <<>>
           /\ ~Tito => result = Assemble(episode)
           /\ Tito => /\ result.tokens = response
                      /\ result.masks = mask
                      /\ Cumulative(episode, Len(episode))
BY DEF LInv, LoopTypes, StepsInv, Counted, Follows, Delivered

\* What the steps make is what the loop has, in every reachable state of both
\* loops (lines 231 to 887 of the engine).
THEOREM StepsInvariance == Spec => [](LInv /\ StepsInv)
<1>1. LInv /\ StepsInv /\ [Next]_vars => StepsInv'
  BY CountedStep, FollowsStep, DeliveredStep DEF StepsInv
<1>2. QED
  BY <1>1, StepsInit, LoopInvariance, PTL DEF Spec

\* Every variable has its type: no more steps than max_steps, a reward for each,
\* and a delivered result of tokens with a mask of bits.
THEOREM LoopTypesHold == Spec => []TypeOK
<1>1. ASSUME LInv, StepsInv
      PROVE  TypeOK
  <2>1. /\ LoopTypes /\ Counted
    BY <1>1 DEF LInv, StepsInv
  <2>2. result \in [tokens : Seq(Tokens), masks : Seq(Bits)]
    <3>1. CASE pc = "done" /\ Tito
      BY <1>1, <2>1, <3>1 DEF StepsInv, Delivered, LoopTypes
    <3>2. CASE pc = "done" /\ ~Tito
      <4>1. result = Assemble(episode) /\ episode \in Seq(Step)
            /\ episode # <<>>
        BY <1>1, <3>2, DeliveredForm
      <4>2. QED
        BY <4>1, AssembleTypes
    <3>3. CASE pc # "done"
      <4>1. <<>> \in Seq(Tokens) /\ <<>> \in Seq(Bits)
        OBVIOUS
      <4>2. QED
        BY <1>1, <3>3, <4>1 DEF StepsInv, Delivered, Nothing
    <3>4. QED
      BY <3>1, <3>2, <3>3
  <2>3. QED
    BY <2>1, <2>2 DEF TypeOK, LoopTypes, Counted, Step
<1>2. QED
  BY <1>1, StepsInvariance, PTL

\* The token loop accumulates what assemble_steps would make of its
\* episode_steps, and environment tokens that are not trained on (lines 515 to
\* 578 and 701 to 887).
THEOREM LoopsAgree == Spec => []AgreesWithAssemble
<1>1. ASSUME LInv, StepsInv, Tito, pc = "done", ~maskedOut
      PROVE  LET whole == Assemble(episode)
                 n     == Len(whole.tokens)
             IN /\ n <= Len(result.tokens)
                /\ whole.tokens = SubSeq(result.tokens, 1, n)
                /\ whole.masks = SubSeq(result.masks, 1, n)
                /\ \A i \in n + 1..Len(result.tokens) :
                      result.tokens[i] = "e" /\ result.masks[i] = 0
  <2>1. PICK t, m : /\ t = FlattenSeq(Parts(episode))
                    /\ m = FlattenSeq(Marks(episode))
    OBVIOUS
  <2>2. Assemble(episode).tokens = t /\ Assemble(episode).masks = m
    BY <1>1, <2>1, DeliveredForm, AssembleForm
  <2>3. PICK k \in Nat : Behind(k)
    BY <1>1 DEF StepsInv, Follows
  <2>4. PICK u, v : u = result.tokens /\ v = result.masks
    OBVIOUS
  <2>5. u = t \o Of("e", k) /\ v = m \o Of(0, k)
    BY <1>1, <2>1, <2>3, <2>4, DeliveredForm DEF Behind, Zeros
  <2>6. /\ t \in Seq(Tokens) /\ m \in Seq(Bits)
        /\ "e" \in Tokens /\ 0 \in Bits
    BY <1>1, <2>1, DeliveredForm, PartsAreSeqs, FlattenType DEF Tokens, Bits
  <2>7. EndsInRun(u, t, "e", k) /\ EndsInRun(v, m, 0, k)
    BY <2>5, <2>6, RunBehind
  <2>8. Len(u) = Len(t) + k /\ Len(v) = Len(m) + k
    BY <2>7 DEF EndsInRun
  <2>9. Len(u) = Len(v)
    BY <1>1, <2>4, DeliveredForm DEF LInv, MaskMarksSamples
  <2>10. Len(t) \in Nat /\ Len(m) \in Nat
    BY <2>6, LenProperties
  <2>11. Len(m) = Len(t) /\ Len(t) <= Len(u)
    BY <2>8, <2>9, <2>10
  <2>12. QED
    BY <2>2, <2>4, <2>7, <2>9, <2>11 DEF EndsInRun
<1>2. QED
  BY <1>1, StepsInvariance, PTL DEF AgreesWithAssemble

\* With filter_token_mismatch a token is trained on only when every prompt
\* continued the sequence before it (lines 515 to 578).
THEOREM TrainedInContext == Spec => []TrainsInContext
<1>1. ASSUME LInv, StepsInv
      PROVE  TrainsInContext
  <2>1. ASSUME pc = "done", config.filterMismatch,
               \E i \in 1..Len(result.masks) : result.masks[i] = 1
        PROVE  Cumulative(episode, Len(episode))
    BY <1>1, <2>1, DeliveredForm, AssembleForm
  <2>2. QED
    BY <2>1 DEF TrainsInContext, Cumulative
<1>2. QED
  BY <1>1, StepsInvariance, PTL

===============================================================================
