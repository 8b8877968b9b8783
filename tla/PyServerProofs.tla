--------------------------- MODULE PyServerProofs ---------------------------
(***************************************************************************)
(* What holds of PyServer for every number of requests, prompt, context    *)
(* and token budget: each request has the engine to itself, and the engine *)
(* behaves as a decode session for it.  And of TextStream: what a text     *)
(* response is made of, for every set of stop strings, however they        *)
(* overlap, and however the text is cut into tokens.                       *)
(***************************************************************************)
EXTENDS PyServer, TextStream, EngineProofs, NaturalsInduction, WellFoundedInduction

Generating == phase \in {"decode", "sample", "closing"}
Idle == phase = "idle"

ServerTypes ==
  /\ waiting \subseteq Req /\ holder \in Req \cup {Free}
  /\ phase \in {"idle", "locked", "reset", "ready", "decode", "sample", "closing"}
  /\ job \in Job /\ prompt \in Nat /\ budget \in Nat /\ made \in Nat /\ full \in BOOLEAN
  /\ verdict \in [finish : {"none", "stop", "length"}, usage : Nat, made : Nat,
                  full : BOOLEAN]
  /\ suspended \subseteq Req

(* Where the holder stands decides what the generator has counted.         *)
Progress ==
  /\ holder = Free <=> Idle
  /\ phase \in {"locked", "reset", "ready"} => made = 0
  /\ ~Idle /\ phase # "closing" => ~full
  /\ phase = "sample" => made < budget
  /\ phase = "closing" /\ full => made = budget

(* The engine is empty until the prompt is fed; from then on it holds the  *)
(* prompt and the tokens taken, and its hidden state has seen what it fed. *)
EngineEmpty == phase \in {"reset", "ready"} => pos = 0 /\ pending = None
EngineOwned ==
  Generating =>
    /\ hid = Context /\ Len(Transcript) = prompt + made
    /\ prompt <= MaxCtx /\ budget = Limit /\ made <= budget

(* A mask is set by the JSON request being served, or by an abandoned one. *)
MaskOwned == maskOn /\ suspended = {} => Generating /\ job.mode = "json"

(* The inductive invariant.                                                *)
ServerInv ==
  /\ IInv /\ EagerHoldsNothing
  /\ ServerTypes /\ Progress /\ EngineEmpty /\ EngineOwned /\ MaskOwned
  /\ ReportBehindByPending

-----------------------------------------------------------------------------
(* One next_token(): the token returned follows the transcript, and was    *)
(* drawn from logits over all of it.                                       *)
Delivers(t) == t \in Token /\ Transcript' = Append(Transcript, t) /\ logits' = Transcript

NextToken == NextEager \/ NextReplay \/ NextSample

LEMMA NextTokenDelivers ==
  ASSUME IInv, EagerHoldsNothing, hid = Context, NextToken
  PROVE  /\ \E t \in Token : Delivers(t)
         /\ hid' = Context' /\ EagerHoldsNothing' /\ UNCHANGED settings
<1> DEFINE Fed == IF pending = None THEN Dev ELSE Advance(Dev, pending)
<1>1. /\ kv \in [Row -> Cell] /\ pos \in Nat /\ dpos = pos /\ pending \in Cell
      /\ Sound(Dev) /\ Dev.kv = kv /\ Dev.pos = pos /\ Dev.hid = hid
  BY EngineTypes
<1>2. MaxCtx \in Nat /\ pos + 1 <= MaxCtx /\ pos + 2 <= MaxCtx
  BY <1>1, EngineAssumption DEF NextToken, NextEager, NextReplay, NextSample
<1>3. /\ Sound(Fed) /\ Fed.pos + 1 <= MaxCtx /\ Fed.hid = View(Fed.kv, Fed.pos)
      /\ View(Fed.kv, Fed.pos) = Transcript
  <2>1. CASE pending = None
    BY <1>1, <1>2, <2>1, HeldIs, TranscriptHeld
  <2>2. CASE pending # None
    <3>1. pending \in Token /\ Transcript = Append(View(kv, pos), pending)
      BY <1>1, <2>2, HeldIs, TranscriptHeld
    <3> QED BY <1>1, <1>2, <2>2, <3>1, AdvanceView
  <2> QED BY <2>1, <2>2
<1> HIDE DEF Fed
(* The token stays pending behind what was fed, or is fed at once.         *)
<1>4. ASSUME NEW t \in Token, Commit(Fed), pending' = t
      PROVE  Transcript' = Append(Transcript, t) /\ hid' = Context'
  <2>1. /\ kv' = Fed.kv /\ pos' = Fed.pos /\ hid' = Fed.hid
        /\ kv' \in [Row -> Cell] /\ pos' \in Nat
    BY <1>3, <1>4 DEF Commit, Sound, State
  <2>2. t \in Cell /\ t # None
    BY EngineAssumption DEF Cell
  <2>3. Held(kv', pos', t) = Append(View(kv', pos'), t)
    BY <2>1, <2>2, HeldIs
  <2> QED BY <1>3, <1>4, <2>1, <2>3, TranscriptHeld
<1>5. ASSUME NEW t \in Token, Commit(Advance(Fed, t)), pending' = None
      PROVE  Transcript' = Append(Transcript, t) /\ hid' = Context'
  <2> DEFINE f == Advance(Fed, t)
  <2>1. /\ Sound(f) /\ f.hid = View(f.kv, f.pos)
        /\ View(f.kv, f.pos) = Append(View(Fed.kv, Fed.pos), t)
    BY <1>3, AdvanceView
  <2> HIDE DEF f
  <2>2. /\ kv' = f.kv /\ pos' = f.pos /\ hid' = f.hid
        /\ kv' \in [Row -> Cell] /\ pos' \in Nat
    BY <1>5, <2>1 DEF Commit, Sound, State, f
  <2>3. Held(kv', pos', None) = View(kv', pos')
    BY <2>2, HeldIs DEF Cell
  <2> QED BY <1>3, <1>5, <2>1, <2>2, <2>3, TranscriptHeld
<1>6. CASE NextEager
  <2>1. pending = None /\ pending' = None /\ graphs = {} /\ UNCHANGED <<graphVars, settings>>
    BY <1>6 DEF NextEager, EagerHoldsNothing
  <2>2. PICK t \in Token : Commit(Advance(Fed, t))
    BY <1>6, <2>1 DEF NextEager, Fed
  <2>3. logits' = Transcript
    BY <1>1, <1>3, <1>6, <2>1 DEF NextEager, Fed
  <2>4. EagerHoldsNothing'
    BY <2>1 DEF EagerHoldsNothing, graphVars
  <2> QED BY <1>5, <2>1, <2>2, <2>3, <2>4 DEF Delivers
<1>7. CASE NextReplay
  <2>1. /\ pending # None /\ ~noGraph /\ Replay(pending)
        /\ UNCHANGED <<graphVars, settings>> /\ pending' \in Token
    BY <1>7 DEF NextReplay, Replay
  <2>2. Fed.pos = pos + 1 /\ Fed.dpos = dpos + 1
    <3>1. pending \in Token
      BY <1>1, <2>1 DEF Cell
    <3>2. Fed.pos = pos + 1
      BY <1>1, <2>1, <3>1, AdvanceSound DEF Fed
    <3> QED BY <1>1, <1>3, <3>2 DEF Sound
  <2>3. Commit(Fed) /\ logits' = Fed.hid
    <3>1. [Fed EXCEPT !.pos = pos + 1, !.dpos = dpos + 1] = Fed
      BY <1>3, <2>2 DEF Sound, State
    <3> QED BY <2>1, <3>1 DEF Replay, Fed
  <2>4. EagerHoldsNothing'
    BY <2>1 DEF EagerHoldsNothing, graphVars
  <2> QED BY <1>3, <1>4, <2>1, <2>3, <2>4 DEF Delivers
<1>8. CASE NextSample
  <2>1. ~noGraph /\ UNCHANGED settings
    BY <1>8 DEF NextSample
  <2>2. PICK t \in Token :
          /\ logits' = Fed.hid
          /\ \/ Commit(Fed) /\ pending' = t /\ UNCHANGED noGraph
             \/ DropAll /\ pending' = None /\ Commit(Advance(Fed, t))
    BY <1>8 DEF NextSample, Fed
  <2>3. EagerHoldsNothing'
    BY <2>1, <2>2 DEF EagerHoldsNothing, DropAll
  <2> QED BY <1>3, <1>4, <1>5, <2>1, <2>2, <2>3 DEF Delivers
<1> QED BY <1>6, <1>7, <1>8 DEF NextToken

LEMMA NextTokenIInv == IInv /\ NextToken => IInv'
BY NextEagerIInv, NextReplayIInv, NextSampleIInv DEF NextToken

-----------------------------------------------------------------------------
(* The invariant is inductive.                                             *)

LEMMA LimitIs ==
  ASSUME ServerTypes, prompt <= MaxCtx
  PROVE  /\ Limit \in Nat /\ Limit <= job.max
         /\ Limit > 0 => prompt + Limit <= MaxCtx - 1
<1>1. MaxCtx \in Nat /\ prompt \in Nat /\ job.max \in Nat
  BY EngineAssumption, ServerAssumption DEF ServerTypes, Job
<1> QED BY <1>1 DEF Limit, TokensLeft, Min2

LEMMA InitServerInv == ServerInit => ServerInv
<1> SUFFICES ASSUME ServerInit PROVE ServerInv
  OBVIOUS
<1>1. IInv /\ EagerHoldsNothing
  BY InitIInv DEF ServerInit, Init, EagerHoldsNothing
<1>2. ServerTypes
  BY DEF ServerInit, ServerTypes
<1>3. Progress /\ EngineEmpty /\ EngineOwned /\ MaskOwned /\ ReportBehindByPending
  BY DEF ServerInit, Init, Progress, EngineEmpty, EngineOwned, MaskOwned, Idle, Generating,
     ReportBehindByPending
<1> QED BY <1>1, <1>2, <1>3 DEF ServerInv

LEMMA AcquireInv ==
  ASSUME ServerInv, NEW r \in Req, Acquire(r)
  PROVE  ServerInv'
<1>1. /\ holder = Free /\ holder' = r /\ waiting' = waiting \ {r} /\ phase' = "locked"
      /\ job' \in Job /\ made' = 0 /\ full' = FALSE
      /\ UNCHANGED <<vars, prompt, budget, verdict, suspended>>
  BY DEF Acquire
<1>2. IInv' /\ EagerHoldsNothing'
  BY <1>1, StutterIInv DEF ServerInv, EagerHoldsNothing, vars
<1>3. ServerTypes'
  BY <1>1 DEF ServerInv, ServerTypes, Job
<1>4. Progress'
  BY <1>1, ServerAssumption DEF Progress, Idle
<1>5. EngineEmpty' /\ EngineOwned'
  BY <1>1 DEF EngineEmpty, EngineOwned, Generating
<1>6. MaskOwned'
  BY <1>1 DEF ServerInv, Progress, MaskOwned, Idle, Generating, vars
<1>7. ReportBehindByPending'
  BY <1>1 DEF ServerInv, ReportBehindByPending
<1> QED BY <1>2, <1>3, <1>4, <1>5, <1>6, <1>7 DEF ServerInv

LEMMA ResetModelInv == ServerInv /\ ResetModel => ServerInv'
<1> SUFFICES ASSUME ServerInv, ResetModel PROVE ServerInv'
  OBVIOUS
<1>1. /\ phase = "locked" /\ phase' = "reset" /\ Reset
      /\ UNCHANGED <<waiting, holder, job, prompt, budget, made, full, verdict, suspended>>
  BY DEF ResetModel
<1>2. pos' = 0 /\ pending' = None /\ UNCHANGED <<graphVars, settings>>
  BY <1>1 DEF Reset, MoveTo
<1>3. IInv' /\ EagerHoldsNothing'
  BY <1>1, <1>2, ResetIInv DEF ServerInv, EagerHoldsNothing, graphVars
<1>4. ServerTypes'
  BY <1>1 DEF ServerInv, ServerTypes, Job
<1>5. Progress'
  BY <1>1 DEF ServerInv, Progress, Idle
<1>6. EngineEmpty' /\ EngineOwned'
  BY <1>1, <1>2 DEF EngineEmpty, EngineOwned, Generating
<1>7. MaskOwned'
  BY <1>1, <1>2 DEF ServerInv, MaskOwned, Generating, settings
<1>8. ReportBehindByPending'
  BY <1>1 DEF ServerInv, ReportBehindByPending
<1> QED BY <1>3, <1>4, <1>5, <1>6, <1>7, <1>8 DEF ServerInv

LEMMA ConfigureInv ==
  ASSUME ServerInv, NEW t \in Temps, Configure(t)
  PROVE  ServerInv'
<1>1. /\ phase = "reset" /\ phase' = "ready" /\ SetSampling(t)
      /\ UNCHANGED <<waiting, holder, job, prompt, budget, made, full, verdict, suspended>>
  BY DEF Configure
<1>2. pos' = 0 /\ pending' = None /\ maskOn' = maskOn
  BY <1>1 DEF SetSampling, LeaveGraphs, ServerInv, EngineEmpty
<1>3. IInv' /\ EagerHoldsNothing'
  BY <1>1, <1>2, SetSamplingIInv
  DEF ServerInv, EagerHoldsNothing, SetSampling, LeaveGraphs, DropAll, graphVars
<1>4. ServerTypes'
  BY <1>1 DEF ServerInv, ServerTypes, Job
<1>5. Progress'
  BY <1>1 DEF ServerInv, Progress, Idle
<1>6. EngineEmpty' /\ EngineOwned'
  BY <1>1, <1>2 DEF EngineEmpty, EngineOwned, Generating
<1>7. MaskOwned'
  BY <1>1, <1>2 DEF ServerInv, MaskOwned, Generating
<1>8. ReportBehindByPending'
  BY <1>1 DEF ServerInv, ReportBehindByPending
<1> QED BY <1>3, <1>4, <1>5, <1>6, <1>7, <1>8 DEF ServerInv

(* The prompt goes into an empty engine, or the engine refuses it.         *)
LEMMA StartGeneratorInv ==
  ASSUME ScratchFits, ServerInv, NEW p \in Prompts, StartGenerator(p)
  PROVE  ServerInv'
<1>1. /\ phase = "ready" /\ prompt' = Len(p) /\ pos = 0 /\ pending = None /\ made = 0 /\ ~full
      /\ UNCHANGED <<waiting, job, made, full, verdict, suspended>>
  BY DEF StartGenerator, ServerInv, EngineEmpty, Progress, Idle
<1>2. Len(p) \in Nat
  BY EngineAssumption
<1>3. CASE pos + Len(p) <= MaxCtx
  <2>1. Prefill(p) /\ budget' = TokensLeft(pos') /\ phase' = "decode" /\ holder' = holder
    BY <1>3 DEF StartGenerator
  <2>2. /\ Transcript' = p /\ hid' = Context' /\ pos' = Len(p) /\ pending' = None
        /\ Len(p) <= MaxCtx /\ UNCHANGED <<graphVars, settings>>
    BY <1>1, <2>1, PrefillEmpty DEF ServerInv
  <2>3. IInv' /\ EagerHoldsNothing'
    <3>1. p \in Seq(Token)
      BY EngineAssumption
    <3>2. IInv'
      BY <2>1, <3>1, PrefillIInv DEF ServerInv
    <3> QED BY <2>2, <3>2 DEF ServerInv, EagerHoldsNothing, graphVars
  <2>4. budget' = Limit' /\ budget' \in Nat
    <3>1. TokensLeft(pos') = Limit'
      BY <1>1, <2>2 DEF Limit, TokensLeft
    <3>2. MaxCtx \in Nat /\ job.max \in Nat
      BY EngineAssumption, ServerAssumption DEF ServerInv, ServerTypes, Job
    <3>3. TokensLeft(pos') \in Nat
      BY <1>2, <2>2, <3>2 DEF TokensLeft, Min2
    <3> QED BY <2>1, <3>1, <3>3
  <2>5. ServerTypes'
    BY <1>1, <1>2, <2>1, <2>4 DEF ServerInv, ServerTypes, Job
  <2>6. Progress' /\ EngineEmpty'
    BY <1>1, <2>1 DEF ServerInv, Progress, Idle, EngineEmpty
  <2>7. EngineOwned'
    BY <1>1, <1>2, <2>2, <2>4 DEF EngineOwned
  <2>8. MaskOwned'
    BY <1>1, <2>1, <2>2 DEF ServerInv, MaskOwned, Generating, settings
  <2>9. ReportBehindByPending'
    BY <1>1 DEF ServerInv, ReportBehindByPending
  <2> QED BY <2>3, <2>5, <2>6, <2>7, <2>8, <2>9 DEF ServerInv
<1>4. CASE ~(pos + Len(p) <= MaxCtx)
  <2>1. holder' = Free /\ phase' = "idle" /\ UNCHANGED <<vars, budget>>
    BY <1>4 DEF StartGenerator, Release
  <2>2. IInv' /\ EagerHoldsNothing'
    BY <2>1, StutterIInv DEF ServerInv, EagerHoldsNothing, vars
  <2>3. ServerTypes'
    BY <1>1, <1>2, <2>1 DEF ServerInv, ServerTypes, Job
  <2>4. Progress' /\ EngineEmpty' /\ EngineOwned'
    BY <2>1 DEF Progress, Idle, EngineEmpty, EngineOwned, Generating
  <2>5. MaskOwned'
    BY <1>1, <2>1 DEF ServerInv, MaskOwned, Generating, vars
  <2>6. ReportBehindByPending'
    BY <1>1 DEF ServerInv, ReportBehindByPending
  <2> QED BY <2>2, <2>3, <2>4, <2>5, <2>6 DEF ServerInv
<1> QED BY <1>3, <1>4

(* Setting the mask drops the slots, and leaves what the engine holds.     *)
LEMMA MaskSet ==
  ASSUME IInv, EagerHoldsNothing, NEW b \in BOOLEAN, SetTokenMask(b)
  PROVE  /\ IInv' /\ EagerHoldsNothing' /\ maskOn' = b
         /\ UNCHANGED <<pos, pending, hid, logits>>
         /\ Transcript' = Transcript /\ Context' = Context
<1>1. IInv'
  BY SetTokenMaskIInv
<1>2. EagerHoldsNothing'
  BY DEF SetTokenMask, EagerHoldsNothing, DropAll
<1>3. Transcript' = Transcript /\ Context' = Context
  BY HoldingKept DEF SetTokenMask
<1> QED BY <1>1, <1>2, <1>3 DEF SetTokenMask

LEMMA MaskTokenInv == ServerInv /\ MaskToken => ServerInv'
<1> SUFFICES ASSUME ServerInv, MaskToken PROVE ServerInv'
  OBVIOUS
<1>1. /\ phase = "decode" /\ phase' = "sample" /\ job.mode = "json" /\ made < budget
      /\ UNCHANGED <<waiting, holder, job, prompt, budget, made, full, verdict, suspended>>
  BY DEF MaskToken
<1>2. /\ IInv' /\ EagerHoldsNothing' /\ hid' = hid
      /\ Transcript' = Transcript /\ Context' = Context
  BY MaskSet DEF MaskToken, ServerInv
<1>3. ServerTypes'
  BY <1>1 DEF ServerInv, ServerTypes, Job
<1>4. Progress' /\ EngineEmpty' /\ MaskOwned'
  BY <1>1 DEF ServerInv, Progress, Idle, EngineEmpty, MaskOwned, Generating
<1>5. EngineOwned'
  BY <1>1, <1>2 DEF ServerInv, EngineOwned, Generating, Limit, TokensLeft
<1>6. ReportBehindByPending'
  BY <1>1 DEF ServerInv, ReportBehindByPending
<1> QED BY <1>2, <1>3, <1>4, <1>5, <1>6 DEF ServerInv

(* A token joins what the engine holds and what the generator counts.      *)
LEMMA TakeTokenInv == ServerInv /\ TakeToken => ServerInv'
<1> SUFFICES ASSUME ServerInv, TakeToken PROVE ServerInv'
  OBVIOUS
<1>1. /\ phase \in {"decode", "sample"} /\ made < budget
      /\ Generating /\ made' = made + 1 /\ phase' \in {"decode", "closing"}
      /\ NextToken
      /\ UNCHANGED <<waiting, holder, job, prompt, budget, full, verdict, suspended>>
  BY DEF TakeToken, NextToken, ServerInv, Progress, Generating
<1>2. made \in Nat /\ prompt \in Nat /\ budget \in Nat
  BY DEF ServerInv, ServerTypes
<1>3. /\ hid = Context /\ Len(Transcript) = prompt + made
      /\ prompt <= MaxCtx /\ budget = Limit
  BY <1>1 DEF ServerInv, EngineOwned
<1>4. /\ IInv' /\ EagerHoldsNothing' /\ hid' = Context' /\ UNCHANGED settings
      /\ \E t \in Token : Transcript' = Append(Transcript, t)
  BY <1>1, <1>3, NextTokenDelivers, NextTokenIInv DEF ServerInv, Delivers
<1>5. Len(Transcript') = prompt + made'
  <2>1. Transcript \in Seq(Cell)
    BY EngineTypes, HeldIs, TranscriptHeld DEF ServerInv
  <2>2. PICK t \in Token : Transcript' = Append(Transcript, t)
    BY <1>4
  <2>3. Len(Transcript') = Len(Transcript) + 1
    BY <2>1, <2>2 DEF Cell
  <2> QED BY <1>1, <1>2, <1>3, <2>3
<1>6. ServerTypes'
  BY <1>1, <1>2 DEF ServerInv, ServerTypes, Job
<1>7. Progress' /\ EngineEmpty'
  BY <1>1 DEF ServerInv, Progress, Idle, Generating, EngineEmpty
<1>8. EngineOwned'
  <2>1. Limit' = Limit /\ made' <= budget'
    BY <1>1, <1>2 DEF Limit, TokensLeft
  <2> QED BY <1>1, <1>3, <1>4, <1>5, <2>1 DEF EngineOwned
<1>9. MaskOwned'
  BY <1>1, <1>4 DEF ServerInv, MaskOwned, Generating, settings
<1>10. ReportBehindByPending'
  BY <1>1 DEF ServerInv, ReportBehindByPending
<1> QED BY <1>4, <1>6, <1>7, <1>8, <1>9, <1>10 DEF ServerInv

LEMMA LimitReachedInv == ServerInv /\ LimitReached => ServerInv'
<1> SUFFICES ASSUME ServerInv, LimitReached PROVE ServerInv'
  OBVIOUS
<1>1. /\ phase = "decode" /\ made >= budget /\ phase' = "closing" /\ full' = TRUE
      /\ UNCHANGED <<vars, waiting, holder, job, prompt, budget, made, verdict, suspended>>
  BY DEF LimitReached
<1>2. IInv' /\ EagerHoldsNothing'
  BY <1>1, StutterIInv DEF ServerInv, EagerHoldsNothing, vars
<1>3. ServerTypes'
  BY <1>1 DEF ServerInv, ServerTypes, Job
<1>4. made = budget
  BY <1>1 DEF ServerInv, ServerTypes, EngineOwned, Generating
<1>5. Progress' /\ EngineEmpty'
  BY <1>1, <1>4 DEF ServerInv, Progress, Idle, EngineEmpty
<1>6. EngineOwned'
  <2>1. Transcript' = Transcript /\ Context' = Context /\ hid' = hid
    BY <1>1, HoldingKept DEF vars
  <2> QED BY <1>1, <2>1 DEF ServerInv, EngineOwned, Generating, Limit, TokensLeft
<1>7. MaskOwned'
  BY <1>1 DEF ServerInv, MaskOwned, Generating, vars
<1>8. ReportBehindByPending'
  BY <1>1 DEF ServerInv, ReportBehindByPending
<1> QED BY <1>2, <1>3, <1>5, <1>6, <1>7, <1>8 DEF ServerInv

(* What the position says of the tokens taken when the report is made: all *)
(* of them, or all but the one that is pending.                            *)
LEMMA UsageIs ==
  ASSUME ServerInv, Generating
  PROVE  LET usage == IF pos > prompt THEN pos - prompt ELSE 0
         IN /\ usage \in Nat /\ usage <= made /\ made <= usage + 1
            /\ Len(Transcript) = prompt + made
            /\ pos <= Len(Transcript) /\ Len(Transcript) <= pos + 1
<1>1. /\ pos \in Nat /\ prompt \in Nat /\ made \in Nat /\ Len(Transcript) = prompt + made
  BY EngineTypes DEF ServerInv, ServerTypes, EngineOwned
<1>2. Len(Transcript) = IF pending = None THEN pos ELSE pos + 1
  BY EngineTypes, HeldIs, TranscriptHeld DEF ServerInv
<1> QED BY <1>1, <1>2

LEMMA FinishInv == ServerInv /\ Finish => ServerInv'
<1> SUFFICES ASSUME ServerInv, Finish PROVE ServerInv'
  OBVIOUS
<1> DEFINE usage == IF pos > prompt THEN pos - prompt ELSE 0
           reason == IF Limit # 0 /\ usage >= Limit THEN "length" ELSE "stop"
           report == [finish |-> reason, usage |-> usage, made |-> made, full |-> full]
<1>1. /\ phase = "closing" /\ phase' = "idle" /\ holder' = Free
      /\ verdict' = report \/ verdict' = verdict
      /\ UNCHANGED <<waiting, job, prompt, budget, made, full, suspended>>
  BY DEF Finish, Release
<1>2. IInv' /\ EagerHoldsNothing'
  <2>1. CASE SetTokenMask(FALSE)
    BY <2>1, MaskSet DEF ServerInv
  <2>2. CASE UNCHANGED vars
    BY <2>2, StutterIInv DEF ServerInv, EagerHoldsNothing, vars
  <2> QED BY <2>1, <2>2 DEF Finish
<1>3. usage \in Nat /\ usage <= made /\ made <= usage + 1
  BY <1>1, UsageIs DEF Generating
<1>4. made \in Nat /\ Limit \in Nat /\ (full => made = Limit)
  <2>1. ServerTypes /\ prompt <= MaxCtx /\ made \in Nat /\ (full => made = Limit)
    BY <1>1 DEF Generating, ServerInv, ServerTypes, EngineOwned, Progress
  <2> QED BY <2>1, LimitIs
<1>5. /\ reason \in {"stop", "length"}
      /\ full /\ made > 0 /\ reason = "stop" => usage = made - 1
  <2>1. reason = "stop" => Limit = 0 \/ ~(usage >= Limit)
    OBVIOUS
  <2> HIDE DEF usage
  <2>2. reason \in {"stop", "length"}
    OBVIOUS
  <2> HIDE DEF reason
  <2> QED BY <1>3, <1>4, <2>1, <2>2
<1> HIDE DEF usage, reason
<1>6. ServerTypes'
  BY <1>1, <1>3, <1>5 DEF ServerInv, ServerTypes, Job
<1>7. Progress' /\ EngineEmpty' /\ EngineOwned'
  BY <1>1 DEF ServerInv, Progress, Idle, EngineEmpty, EngineOwned, Generating
<1>8. MaskOwned'
  <2>1. CASE job.mode = "json"
    <3>1. maskOn' = FALSE
      BY <2>1 DEF Finish, SetTokenMask
    <3> QED BY <3>1 DEF MaskOwned
  <2>2. CASE job.mode # "json"
    <3>1. maskOn' = maskOn
      BY <2>2 DEF Finish, vars
    <3> QED BY <1>1, <2>2, <3>1 DEF ServerInv, MaskOwned
  <2> QED BY <2>1, <2>2
<1>9. ReportBehindByPending'
  BY <1>1, <1>3, <1>5 DEF ServerInv, ReportBehindByPending
<1> QED BY <1>2, <1>6, <1>7, <1>8, <1>9 DEF ServerInv

LEMMA DisconnectInv == ServerInv /\ Disconnect => ServerInv'
<1> SUFFICES ASSUME ServerInv, Disconnect PROVE ServerInv'
  OBVIOUS
<1>1. /\ phase \in {"ready", "decode"} /\ phase' = "idle" /\ holder' = Free
      /\ suspended' = IF phase = "decode" /\ job.mode = "json"
                        THEN suspended \cup {holder} ELSE suspended
      /\ UNCHANGED <<vars, waiting, job, prompt, budget, made, full, verdict>>
  BY DEF Disconnect, Release
<1>2. IInv' /\ EagerHoldsNothing'
  BY <1>1, StutterIInv DEF ServerInv, EagerHoldsNothing, vars
<1>3. holder \in Req
  BY <1>1 DEF ServerInv, ServerTypes, Progress, Idle
<1>4. ServerTypes'
  BY <1>1, <1>3 DEF ServerInv, ServerTypes, Job
<1>5. Progress' /\ EngineEmpty' /\ EngineOwned'
  BY <1>1 DEF Progress, Idle, EngineEmpty, EngineOwned, Generating
<1>6. MaskOwned'
  BY <1>1 DEF ServerInv, MaskOwned, Generating, vars
<1>7. ReportBehindByPending'
  BY <1>1 DEF ServerInv, ReportBehindByPending
<1> QED BY <1>2, <1>4, <1>5, <1>6, <1>7 DEF ServerInv

(* The `finally` of an abandoned generator may run in the middle of another*)
(* request: it costs that request its slots, never its tokens.             *)
LEMMA CloseSuspendedInv ==
  ASSUME ServerInv, NEW r \in Req, CloseSuspended(r)
  PROVE  ServerInv'
<1>1. /\ suspended' = suspended \ {r}
      /\ UNCHANGED <<waiting, holder, phase, job, prompt, budget, made, full, verdict>>
  BY DEF CloseSuspended
<1>2. /\ IInv' /\ EagerHoldsNothing' /\ maskOn' = FALSE /\ UNCHANGED <<pos, pending, hid>>
      /\ Transcript' = Transcript /\ Context' = Context
  BY MaskSet DEF CloseSuspended, ServerInv
<1>3. ServerTypes'
  BY <1>1 DEF ServerInv, ServerTypes, Job
<1>4. Progress' /\ EngineEmpty'
  BY <1>1, <1>2 DEF ServerInv, Progress, Idle, EngineEmpty
<1>5. EngineOwned'
  BY <1>1, <1>2 DEF ServerInv, EngineOwned, Generating, Limit, TokensLeft
<1>6. MaskOwned'
  BY <1>2 DEF MaskOwned
<1>7. ReportBehindByPending'
  BY <1>1 DEF ServerInv, ReportBehindByPending
<1> QED BY <1>2, <1>3, <1>4, <1>5, <1>6, <1>7 DEF ServerInv

LEMMA IdleInv == ServerInv /\ UNCHANGED allVars => ServerInv'
<1> SUFFICES ASSUME ServerInv, UNCHANGED allVars PROVE ServerInv'
  OBVIOUS
<1>1. UNCHANGED <<vars, waiting, holder, phase, job, prompt, budget, made, full, verdict,
                  suspended>>
  BY DEF allVars, serverVars
<1>2. IInv' /\ EagerHoldsNothing'
  BY <1>1, StutterIInv DEF ServerInv, EagerHoldsNothing, vars
<1>3. ServerTypes' /\ Progress' /\ EngineEmpty' /\ MaskOwned' /\ ReportBehindByPending'
  BY <1>1 DEF ServerInv, ServerTypes, Job, Progress, Idle, EngineEmpty, MaskOwned,
     Generating, ReportBehindByPending, vars
<1>4. EngineOwned'
  BY <1>1, HoldingKept DEF ServerInv, EngineOwned, Generating, Limit, TokensLeft, vars
<1> QED BY <1>2, <1>3, <1>4 DEF ServerInv

LEMMA NextServerInv ==
  ASSUME ScratchFits
  PROVE  ServerInv /\ [ServerNext]_allVars => ServerInv'
<1> SUFFICES ASSUME ServerInv, [ServerNext]_allVars PROVE ServerInv'
  OBVIOUS
<1>1. CASE \E r \in Req : Acquire(r)
  BY <1>1, AcquireInv
<1>2. CASE ResetModel
  BY <1>2, ResetModelInv
<1>3. CASE \E t \in Temps : Configure(t)
  BY <1>3, ConfigureInv
<1>4. CASE \E p \in Prompts : StartGenerator(p)
  BY <1>4, StartGeneratorInv
<1>5. CASE MaskToken
  BY <1>5, MaskTokenInv
<1>6. CASE TakeToken
  BY <1>6, TakeTokenInv
<1>7. CASE LimitReached
  BY <1>7, LimitReachedInv
<1>8. CASE Finish
  BY <1>8, FinishInv
<1>9. CASE Disconnect
  BY <1>9, DisconnectInv
<1>10. CASE \E r \in Req : CloseSuspended(r)
  BY <1>10, CloseSuspendedInv
<1>11. CASE UNCHANGED allVars
  BY <1>11, IdleInv
<1> QED
  BY <1>1, <1>2, <1>3, <1>4, <1>5, <1>6, <1>7, <1>8, <1>9, <1>10, <1>11
  DEF ServerNext, Serve

-----------------------------------------------------------------------------
(* What the server guarantees.                                             *)

(* The inductive invariant holds of every reachable state of the server.   *)
THEOREM ServerInvariant ==
  ASSUME ScratchFits
  PROVE  ServerSpec => []ServerInv
<1>1. ServerInit => ServerInv
  BY InitServerInv
<1>2. ServerInv /\ [ServerNext]_allVars => ServerInv'
  BY NextServerInv
<1> QED BY <1>1, <1>2, PTL DEF ServerSpec

(* While a request generates, the engine holds its prompt and its tokens   *)
(* and nothing of another request: _generate resets it under the lock.     *)
THEOREM ContextIsOwn ==
  ASSUME ScratchFits
  PROVE  ServerSpec => []OwnContext
<1>1. ServerInv => OwnContext
  BY DEF ServerInv, EngineOwned, Generating, OwnContext
<1> QED BY <1>1, ServerInvariant, PTL

(* The generator spends a budget that next_token() always grants, and the  *)
(* usage it reports is short by the pending token at most.                 *)
THEOREM PendingIsAccounted ==
  ASSUME ScratchFits
  PROVE  ServerSpec => []PendingAccounted
<1>1. ASSUME ServerInv PROVE ServerTypeOK
  BY <1>1 DEF ServerInv, ServerTypes, ServerTypeOK, IInv, Sound, State, Dev, SlotsOK, TypeOK
<1>2. ASSUME ServerInv PROVE BudgetFitsContext
  <2> SUFFICES ASSUME phase = "sample" \/ (phase = "decode" /\ made < budget)
               PROVE  pos < MaxCtx - 1
    BY DEF BudgetFitsContext
  <2>1. Generating /\ made < budget
    BY <1>2 DEF ServerInv, Progress, Generating
  <2>2. ServerTypes /\ prompt <= MaxCtx /\ budget = Limit
    BY <1>2, <2>1 DEF ServerInv, EngineOwned
  <2>3. /\ prompt \in Nat /\ made \in Nat /\ budget \in Nat /\ MaxCtx \in Nat
        /\ budget > 0 => prompt + budget <= MaxCtx - 1
    BY <2>2, LimitIs, EngineAssumption DEF ServerTypes
  <2>4. pos \in Nat /\ pos <= prompt + made
    <3>1. pos \in Nat
      BY <1>2, EngineTypes DEF ServerInv
    <3>2. pos <= Len(Transcript) /\ Len(Transcript) = prompt + made
      BY <1>2, <2>1, UsageIs
    <3> QED BY <3>1, <3>2
  <2> QED BY <2>1, <2>3, <2>4
<1>3. ServerInv => PendingAccounted
  BY <1>1, <1>2 DEF ServerInv, PendingAccounted
<1> QED BY <1>3, ServerInvariant, PTL

(* A text response is masked only while the generator of an abandoned JSON *)
(* stream has yet to run its `finally`.                                    *)
THEOREM TextIsUnmasked ==
  ASSUME ScratchFits
  PROVE  ServerSpec => []TextUnmasked
<1>1. ServerInv => TextUnmasked
  BY DEF ServerInv, MaskOwned, TextUnmasked
<1> QED BY <1>1, ServerInvariant, PTL

-----------------------------------------------------------------------------
(* The server drives the engine as a decode session.                       *)

LEMMA EmptyTranscript ==
  ASSUME NEW cache \in [Row -> Cell]
  PROVE  Held(cache, 0, None) = <<>>
<1>1. Len(View(cache, 0)) = 0 /\ View(cache, 0) \in Seq(Cell)
  BY ViewLen
<1>2. View(cache, 0) = <<>>
  BY <1>1, EmptySeq
<1> QED BY <1>2, HeldIs DEF Cell

LEMMA SessionStart == ServerInit => SessionPerRequest!Init
<1> SUFFICES ASSUME ServerInit PROVE Transcript = <<>> /\ logits = <<>>
  BY DEF SessionPerRequest!Init
<1>1. kv \in [Row -> Cell] /\ pos = 0 /\ pending = None /\ logits = <<>>
  BY DEF ServerInit, Init, Cell
<1> QED BY <1>1, EmptyTranscript, TranscriptHeld

(* A reset clears the session, a prefill submits the prompt and next_token *)
(* generates; settings, slots and the lock change nothing in it.           *)
LEMMA SessionStep ==
  ASSUME ScratchFits
  PROVE  ServerInv /\ [ServerNext]_allVars =>
           [SessionPerRequest!Next]_<<Transcript, logits>>
<1> SUFFICES ASSUME ServerInv, [ServerNext]_allVars
             PROVE  \/ SessionPerRequest!Next
                    \/ Transcript' = Transcript /\ logits' = logits
  OBVIOUS
<1>1. kv \in [Row -> Cell]
  BY EngineTypes DEF ServerInv
<1>2. CASE ResetModel
  <2>1. pos' = 0 /\ pending' = None /\ kv' = kv /\ logits' = logits
    BY <1>2 DEF ResetModel, Reset, MoveTo
  <2>2. Transcript' = <<>>
    BY <1>1, <2>1, EmptyTranscript, TranscriptHeld
  <2> QED BY <2>1, <2>2 DEF SessionPerRequest!Next, SessionPerRequest!Clear
<1>3. ASSUME NEW t \in Temps, Configure(t)
      PROVE  Transcript' = Transcript /\ logits' = logits
  <2>1. pos' = pos /\ kv' = kv /\ logits' = logits /\ pending' = pending
    BY <1>3 DEF Configure, SetSampling, LeaveGraphs, ServerInv, EngineEmpty
  <2> QED BY <2>1, HoldingKept
<1>4. ASSUME NEW p \in Prompts, StartGenerator(p)
      PROVE  \/ SessionPerRequest!Next
             \/ Transcript' = Transcript /\ logits' = logits
  <2>1. pos = 0 /\ pending = None
    BY <1>4 DEF StartGenerator, ServerInv, EngineEmpty
  <2>2. CASE Prefill(p)
    <3>1. Transcript' = p /\ logits' = logits
      BY <2>1, <2>2, PrefillEmpty DEF ServerInv
    <3>2. Transcript = <<>>
      BY <1>1, <2>1, EmptyTranscript, TranscriptHeld
    <3>3. Transcript' = Transcript \o p
      BY <3>1, <3>2, ConcatEmptySeq, EngineAssumption
    <3> QED BY <3>1, <3>3 DEF SessionPerRequest!Next, SessionPerRequest!Submit
  <2>3. CASE UNCHANGED vars
    BY <2>3, HoldingKept DEF vars
  <2> QED BY <1>4, <2>2, <2>3 DEF StartGenerator
<1>5. CASE TakeToken
  <2>1. NextToken /\ hid = Context
    BY <1>5 DEF TakeToken, NextToken, ServerInv, EngineOwned, Generating
  <2>2. \E t \in Token : Delivers(t)
    BY <2>1, NextTokenDelivers DEF ServerInv
  <2> QED BY <2>2 DEF Delivers, SessionPerRequest!Next, SessionPerRequest!Generate
<1>6. ASSUME NEW b \in BOOLEAN, SetTokenMask(b)
      PROVE  Transcript' = Transcript /\ logits' = logits
  BY <1>6, MaskSet DEF ServerInv
<1>7. ASSUME UNCHANGED vars
      PROVE  Transcript' = Transcript /\ logits' = logits
  BY <1>7, HoldingKept DEF vars
<1>8. CASE MaskToken \/ Finish \/ \E r \in Req : CloseSuspended(r)
  BY <1>6, <1>7, <1>8 DEF MaskToken, Finish, CloseSuspended
<1>9. CASE LimitReached \/ Disconnect \/ (\E r \in Req : Acquire(r)) \/ UNCHANGED allVars
  BY <1>7, <1>9 DEF LimitReached, Disconnect, Acquire, allVars
<1> QED BY <1>2, <1>3, <1>4, <1>5, <1>8, <1>9 DEF ServerNext, Serve

(* Requests share the engine, and it behaves as a decode session: between  *)
(* resets no token is lost, reordered or fed twice, and every token is     *)
(* drawn over everything before it.                                        *)
THEOREM SessionImplemented ==
  ASSUME ScratchFits
  PROVE  ServerSpec => ImplementsSession
<1>1. ServerInit => SessionPerRequest!Init
  BY SessionStart
<1>2. ServerInv /\ [ServerNext]_allVars => [SessionPerRequest!Next]_<<Transcript, logits>>
  BY SessionStep
<1> QED
  BY <1>1, <1>2, ServerInvariant, PTL
  DEF ServerSpec, ImplementsSession, SessionPerRequest!Spec

-----------------------------------------------------------------------------
(* stream_text.                                                            *)

Text == Seq(Char)
Stopping == stops \subseteq Text \ {<<>>}

-----------------------------------------------------------------------------
(* Sequences.                                                              *)

LEMMA Extremes ==
  ASSUME NEW n \in Nat, NEW S, S \subseteq 0 .. n, S # {}
  PROVE  /\ \E i \in S : \A j \in S : i <= j
         /\ \E i \in S : \A j \in S : j <= i
<1> DEFINE R == OpToRel(<, Nat)
           D == {n - i : i \in S}
<1>1. IsWellFoundedOn(R, Nat)
  BY NatLessThanWellFounded
<1>2. S \subseteq Nat /\ D \subseteq Nat /\ D # {}
  <2>1. PICK i \in S : TRUE
    OBVIOUS
  <2>2. n - i \in D
    OBVIOUS
  <2> QED BY <2>2
<1>3. \A i, j \in Nat : <<i, j>> \in R <=> i < j
  BY DEF OpToRel
<1> HIDE DEF R, D
<1>4. PICK i \in S : \A j \in S : ~(<<j, i>> \in R)
  BY <1>1, <1>2, WFMin
<1>5. PICK d \in D : \A e \in D : ~(<<e, d>> \in R)
  BY <1>1, <1>2, WFMin
<1>6. PICK k \in S : d = n - k
  BY DEF D
<1>7. ASSUME NEW j \in S PROVE j <= k
  <2>1. n - j \in D
    BY DEF D
  <2>2. ~(n - j < n - k)
    BY <1>2, <1>3, <1>5, <1>6, <2>1
  <2> QED BY <2>2
<1>8. ASSUME NEW j \in S PROVE i <= j
  <2>1. i \in Nat /\ j \in Nat /\ ~(j < i)
    BY <1>2, <1>3, <1>4
  <2> QED BY <2>1
<1> QED BY <1>7, <1>8

LEMMA Slice ==
  ASSUME NEW T, NEW s \in Seq(T), NEW m \in Int, NEW n \in Int,
         1 <= m, m <= n + 1, n <= Len(s)
  PROVE  /\ SubSeq(s, m, n) \in Seq(T) /\ Len(SubSeq(s, m, n)) = n - m + 1
         /\ \A j \in 1 .. n - m + 1 : SubSeq(s, m, n)[j] = s[m + j - 1]
<1>1. \A i \in m .. n : s[i] \in T
  OBVIOUS
<1>2. /\ SubSeq(s, m, n) \in Seq(T)
      /\ Len(SubSeq(s, m, n)) = IF m <= n THEN n - m + 1 ELSE 0
      /\ \A i \in 1 .. n - m + 1 : SubSeq(s, m, n)[i] = s[m + i - 1]
  BY <1>1, SubSeqProperties
<1>3. (IF m <= n THEN n - m + 1 ELSE 0) = n - m + 1
  OBVIOUS
<1> QED BY <1>2, <1>3

(* Two stretches of the same length are equal if their elements are.       *)
LEMMA SameStretch ==
  ASSUME NEW s \in Text, NEW t \in Text, NEW m \in Nat, NEW k \in Nat, NEW n \in Nat,
         m + n <= Len(s), k + n <= Len(t)
  PROVE  SubSeq(s, m + 1, m + n) = SubSeq(t, k + 1, k + n)
           <=> \A j \in 1 .. n : s[m + j] = t[k + j]
<1> DEFINE a == SubSeq(s, m + 1, m + n)
           b == SubSeq(t, k + 1, k + n)
<1>1. /\ a \in Text /\ Len(a) = n
      /\ \A j \in 1 .. n : a[j] = s[m + j]
  <2>1. /\ a \in Seq(Char) /\ Len(a) = (m + n) - (m + 1) + 1
        /\ \A j \in 1 .. (m + n) - (m + 1) + 1 : a[j] = s[(m + 1) + j - 1]
    BY Slice DEF Text
  <2>2. (m + n) - (m + 1) + 1 = n /\ \A j \in 1 .. n : (m + 1) + j - 1 = m + j
    OBVIOUS
  <2> QED BY <2>1, <2>2 DEF Text
<1>2. /\ b \in Text /\ Len(b) = n
      /\ \A j \in 1 .. n : b[j] = t[k + j]
  <2>1. /\ b \in Seq(Char) /\ Len(b) = (k + n) - (k + 1) + 1
        /\ \A j \in 1 .. (k + n) - (k + 1) + 1 : b[j] = t[(k + 1) + j - 1]
    BY Slice DEF Text
  <2>2. (k + n) - (k + 1) + 1 = n /\ \A j \in 1 .. n : (k + 1) + j - 1 = k + j
    OBVIOUS
  <2> QED BY <2>1, <2>2 DEF Text
<1> HIDE DEF a, b
<1>3. a = b <=> \A j \in 1 .. n : a[j] = b[j]
  BY <1>1, <1>2, SeqEqual DEF Text
<1>4. (\A j \in 1 .. n : a[j] = b[j]) <=> \A j \in 1 .. n : s[m + j] = t[k + j]
  BY <1>1, <1>2
<1> QED BY <1>3, <1>4 DEF a, b

-----------------------------------------------------------------------------
(* Stop strings in a text, and at its end.                                 *)

LEMMA StopTyped ==
  ASSUME Stopping, NEW s \in stops
  PROVE  s \in Text /\ Len(s) \in Nat \ {0}
<1>1. s \in Seq(Char) /\ s # <<>>
  BY DEF Stopping, Text
<1>2. Len(s) # 0
  BY <1>1, EmptySeq
<1> QED BY <1>1, <1>2 DEF Text

LEMMA FoundIs ==
  ASSUME NEW t \in Text, NEW s \in Text, NEW i \in Nat
  PROVE  i \in Found(t, s)
           <=> i + Len(s) <= Len(t) /\ \A j \in 1 .. Len(s) : t[i + j] = s[j]
<1>1. Len(t) \in Nat /\ Len(s) \in Nat
  BY DEF Text
<1>2. i \in 0 .. Len(t) - Len(s) <=> i + Len(s) <= Len(t)
  BY <1>1
<1>3. ASSUME i + Len(s) <= Len(t)
      PROVE  SubSeq(t, i + 1, i + Len(s)) = s <=> \A j \in 1 .. Len(s) : t[i + j] = s[j]
  <2>1. SubSeq(t, i + 1, i + Len(s)) = SubSeq(s, 0 + 1, 0 + Len(s))
          <=> \A j \in 1 .. Len(s) : t[i + j] = s[0 + j]
    BY <1>1, <1>3, SameStretch
  <2>2. SubSeq(s, 0 + 1, 0 + Len(s)) = s
    BY <1>1, SubSeqFull DEF Text
  <2>3. \A j \in 1 .. Len(s) : 0 + j = j
    OBVIOUS
  <2> QED BY <2>1, <2>2, <2>3
<1> QED BY <1>2, <1>3 DEF Found

LEMMA EndsIs ==
  ASSUME NEW t \in Text, NEW s \in Text, NEW k \in 1 .. Len(t), k < Len(s)
  PROVE  Ends(t, k, s) <=> \A j \in 1 .. k : t[(Len(t) - k) + j] = s[j]
<1>1. Len(t) \in Nat /\ Len(s) \in Nat /\ k \in Nat /\ k <= Len(t)
  BY DEF Text
<1>2. PICK m \in Nat : m = Len(t) - k
  <2>1. Len(t) - k \in Nat
    BY <1>1
  <2> QED BY <2>1
<1>3. SubSeq(t, m + 1, m + k) = SubSeq(s, 0 + 1, 0 + k)
        <=> \A j \in 1 .. k : t[m + j] = s[0 + j]
  <2>1. m + k <= Len(t) /\ 0 + k <= Len(s) /\ 0 \in Nat /\ k \in Nat
    BY <1>1, <1>2
  <2> QED BY <2>1, SameStretch
<1>4. Len(t) - k + 1 = m + 1 /\ Len(t) = m + k /\ 1 = 0 + 1 /\ k = 0 + k
  BY <1>1, <1>2
<1>5. \A j \in 1 .. k : 0 + j = j
  BY <1>1
<1>6. Ends(t, k, s) <=> SubSeq(t, m + 1, m + k) = SubSeq(s, 0 + 1, 0 + k)
  BY <1>4 DEF Ends
<1> QED BY <1>2, <1>3, <1>5, <1>6

LEMMA HoldbackIs ==
  ASSUME NEW t \in Text
  PROVE  /\ Holdback(t) \in Nat /\ Holdback(t) <= Len(t)
         /\ \A k \in Holds(t) : k <= Holdback(t)
         /\ Holdback(t) = 0 \/ Holdback(t) \in Holds(t)
<1>1. Len(t) \in Nat /\ Holds(t) \subseteq 1 .. Len(t) /\ Holds(t) \subseteq 0 .. Len(t)
  BY DEF Text, Holds
<1>2. CASE Holds(t) = {}
  BY <1>1, <1>2 DEF Holdback
<1>3. CASE Holds(t) # {}
  <2>1. \E k \in Holds(t) : \A l \in Holds(t) : l <= k
    BY <1>1, <1>3, Extremes
  <2>2. Holdback(t) = CHOOSE k \in Holds(t) : \A l \in Holds(t) : l <= k
    BY <1>3 DEF Holdback
  <2>3. Holdback(t) \in Holds(t) /\ \A l \in Holds(t) : l <= Holdback(t)
    BY <2>1, <2>2
  <2> QED BY <1>1, <2>3
<1> QED BY <1>2, <1>3

LEMMA FirstHitIs ==
  ASSUME Stopping, NEW t \in Text, Hits(t) # {}
  PROVE  FirstHit(t) \in Hits(t) /\ FirstHit(t) \in Nat /\ FirstHit(t) <= Len(t)
<1>1. Len(t) \in Nat
  BY DEF Text
<1>2. ASSUME NEW i \in Hits(t) PROVE i \in 0 .. Len(t)
  <2>1. PICK s \in stops : i \in Found(t, s)
    BY DEF Hits
  <2>2. Len(s) \in Nat
    BY StopTyped
  <2> QED BY <1>1, <2>1, <2>2 DEF Found
<1>3. \E i \in Hits(t) : \A j \in Hits(t) : i <= j
  BY <1>1, <1>2, Extremes
<1>4. FirstHit(t) \in Hits(t)
  BY <1>3 DEF FirstHit
<1> QED BY <1>1, <1>2, <1>4

(* What is held back after a piece was held back before it, or is in it.   *)
LEMMA HeldBefore ==
  ASSUME Stopping, NEW a \in Text, NEW p \in Text, NEW k \in Holds(a \o p), k > Len(p)
  PROVE  k - Len(p) \in Holds(a)
<1> DEFINE r == a \o p
<1>1. /\ r \in Text /\ Len(r) = Len(a) + Len(p) /\ Len(a) \in Nat /\ Len(p) \in Nat
      /\ \A i \in 1 .. Len(a) : r[i] = a[i]
  BY ConcatProperties DEF Text
<1>2. k \in Holds(r)
  OBVIOUS
<1> HIDE DEF r
<1>3. PICK s \in stops : k \in 1 .. Len(r) /\ k < Len(s) /\ Ends(r, k, s)
  BY <1>2 DEF Holds
<1>4. s \in Text /\ Len(s) \in Nat
  BY StopTyped
<1>5. \A j \in 1 .. k : r[(Len(r) - k) + j] = s[j]
  BY <1>1, <1>3, <1>4, EndsIs
<1>6. PICK l \in Nat : l = k - Len(p)
  BY <1>1, <1>3
<1>7. l \in 1 .. Len(a) /\ l < Len(s) /\ l <= k /\ k \in Nat
  BY <1>1, <1>3, <1>4, <1>6
<1>8. ASSUME NEW j \in 1 .. l PROVE a[(Len(a) - l) + j] = s[j]
  <2>1. j \in 1 .. k /\ (Len(r) - k) + j = (Len(a) - l) + j /\ (Len(a) - l) + j \in 1 .. Len(a)
    BY <1>1, <1>6, <1>7
  <2> QED BY <1>1, <1>5, <2>1
<1>9. Ends(a, l, s)
  BY <1>4, <1>7, <1>8, EndsIs
<1> QED BY <1>6, <1>7, <1>9 DEF Holds

LEMMA HoldbackGrows ==
  ASSUME Stopping, NEW a \in Text, NEW p \in Text
  PROVE  Holdback(a \o p) <= Holdback(a) + Len(p)
<1>1. a \o p \in Text /\ Len(p) \in Nat
  BY ConcatProperties DEF Text
<1>2. /\ Holdback(a) \in Nat /\ Holdback(a \o p) \in Nat
      /\ Holdback(a \o p) = 0 \/ Holdback(a \o p) \in Holds(a \o p)
  BY <1>1, HoldbackIs
<1>3. CASE Holdback(a \o p) <= Len(p)
  BY <1>1, <1>2, <1>3
<1>4. CASE Holdback(a \o p) > Len(p)
  <2>1. Holdback(a \o p) - Len(p) \in Holds(a)
    BY <1>1, <1>2, <1>4, HeldBefore
  <2>2. Holdback(a \o p) - Len(p) <= Holdback(a)
    BY <2>1, HoldbackIs
  <2> QED BY <1>1, <1>2, <2>2
<1> QED BY <1>1, <1>2, <1>3, <1>4

(* A stop string that a piece completes begins in what was held back, or   *)
(* in the piece.                                                           *)
LEMMA HitsAhead ==
  ASSUME Stopping, NEW a \in Text, NEW p \in Text, Hits(a) = {}, NEW i \in Hits(a \o p)
  PROVE  Len(a) - Holdback(a) <= i
<1> DEFINE r == a \o p
<1>1. /\ r \in Text /\ Len(r) = Len(a) + Len(p) /\ Len(a) \in Nat /\ Len(p) \in Nat
      /\ \A j \in 1 .. Len(a) : r[j] = a[j]
  BY ConcatProperties DEF Text
<1>2. i \in Hits(r)
  OBVIOUS
<1> HIDE DEF r
<1>3. PICK s \in stops : i \in Found(r, s)
  BY <1>2 DEF Hits
<1>4. s \in Text /\ Len(s) \in Nat \ {0}
  BY StopTyped
<1>5. i \in Nat
  BY <1>3 DEF Found
<1>6. i + Len(s) <= Len(r) /\ \A j \in 1 .. Len(s) : r[i + j] = s[j]
  BY <1>1, <1>3, <1>4, <1>5, FoundIs
<1>7. Holdback(a) \in Nat
  BY HoldbackIs
<1>8. CASE i >= Len(a)
  BY <1>1, <1>5, <1>7, <1>8
<1>9. CASE i < Len(a)
  <2>1. Len(a) < i + Len(s)
    <3> SUFFICES ASSUME i + Len(s) <= Len(a) PROVE FALSE
      BY <1>1, <1>4, <1>5
    <3>1. ASSUME NEW j \in 1 .. Len(s) PROVE a[i + j] = s[j]
      <4>1. i + j \in 1 .. Len(a)
        BY <1>1, <1>4, <1>5
      <4> QED BY <1>1, <1>6, <4>1
    <3>2. i \in Found(a, s)
      BY <1>4, <1>5, <3>1, FoundIs
    <3> QED BY <3>2 DEF Hits
  <2>2. PICK l \in Nat : l = Len(a) - i
    BY <1>1, <1>5, <1>9
  <2>3. l \in 1 .. Len(a) /\ l < Len(s)
    BY <1>1, <1>4, <1>5, <1>9, <2>1, <2>2
  <2>4. ASSUME NEW j \in 1 .. l PROVE a[(Len(a) - l) + j] = s[j]
    <3>1. j \in 1 .. Len(s) /\ (Len(a) - l) + j = i + j /\ i + j \in 1 .. Len(a)
      BY <1>1, <1>4, <1>5, <2>2, <2>3
    <3> QED BY <1>1, <1>6, <3>1
  <2>5. Ends(a, l, s)
    BY <1>4, <2>3, <2>4, EndsIs
  <2>6. l \in Holds(a)
    BY <2>3, <2>5 DEF Holds
  <2>7. l <= Holdback(a)
    BY <2>6, HoldbackIs
  <2> QED BY <1>1, <1>5, <1>7, <2>2, <2>7
<1> QED BY <1>1, <1>5, <1>8, <1>9

-----------------------------------------------------------------------------
(* Nothing is shown twice and nothing is passed over.                      *)
LEMMA Yielded ==
  ASSUME NEW a \in Text, NEW p \in Text, NEW u \in Nat, NEW v \in Nat,
         u <= Len(a), u <= v, v <= Len(a \o p),
         out = SubSeq(a, 1, u), Yield(a \o p, v)
  PROVE  out' = SubSeq(a \o p, 1, v)
<1> DEFINE r == a \o p
<1>1. /\ r \in Text /\ Len(r) \in Nat /\ Len(a) \in Nat /\ Len(a) <= Len(r)
      /\ \A j \in 1 .. Len(a) : r[j] = a[j]
  BY ConcatProperties DEF Text
<1>2. Yield(r, v) /\ v <= Len(r)
  OBVIOUS
<1> HIDE DEF r
<1>3. out = SubSeq(r, 1, u) /\ out \in Text /\ Len(out) = u
  <2>1. SubSeq(a, 0 + 1, 0 + u) = SubSeq(r, 0 + 1, 0 + u)
    <3>1. \A j \in 1 .. u : a[0 + j] = r[0 + j]
      BY <1>1
    <3>2. 0 + u <= Len(a) /\ 0 + u <= Len(r) /\ 0 \in Nat
      BY <1>1
    <3> QED BY <1>1, <3>1, <3>2, SameStretch
  <2>2. 0 + 1 = 1 /\ 0 + u = u
    OBVIOUS
  <2>3. SubSeq(a, 1, u) \in Seq(Char) /\ Len(SubSeq(a, 1, u)) = u - 1 + 1
    BY <1>1, Slice DEF Text
  <2> QED BY <2>1, <2>2, <2>3 DEF Text
<1>4. CASE v > u
  <2> DEFINE x == SubSeq(r, 1, u)
             y == SubSeq(r, u + 1, v)
             z == SubSeq(r, 1, v)
  <2>1. out' = x \o y
    BY <1>2, <1>3, <1>4 DEF Yield
  <2>2. /\ x \in Text /\ Len(x) = u /\ \A j \in 1 .. u : x[j] = r[j]
    <3>1. /\ x \in Seq(Char) /\ Len(x) = u - 1 + 1
          /\ \A j \in 1 .. u - 1 + 1 : x[j] = r[1 + j - 1]
      BY <1>1, Slice DEF Text
    <3> QED BY <3>1 DEF Text
  <2>3. /\ y \in Text /\ Len(y) = v - u /\ \A j \in 1 .. v - u : y[j] = r[u + j]
    <3>1. /\ y \in Seq(Char) /\ Len(y) = v - (u + 1) + 1
          /\ \A j \in 1 .. v - (u + 1) + 1 : y[j] = r[(u + 1) + j - 1]
      BY <1>1, <1>2, <1>4, Slice DEF Text
    <3>2. v - (u + 1) + 1 = v - u /\ \A j \in 1 .. v - u : (u + 1) + j - 1 = u + j
      OBVIOUS
    <3> QED BY <3>1, <3>2 DEF Text
  <2>4. /\ z \in Text /\ Len(z) = v /\ \A j \in 1 .. v : z[j] = r[j]
    <3>1. /\ z \in Seq(Char) /\ Len(z) = v - 1 + 1
          /\ \A j \in 1 .. v - 1 + 1 : z[j] = r[1 + j - 1]
      BY <1>1, <1>2, Slice DEF Text
    <3> QED BY <3>1 DEF Text
  <2> HIDE DEF x, y, z
  <2>5. /\ x \o y \in Text /\ Len(x \o y) = v
        /\ \A j \in 1 .. v : (x \o y)[j] = IF j <= u THEN x[j] ELSE y[j - u]
    <3>1. /\ x \o y \in Seq(Char) /\ Len(x \o y) = Len(x) + Len(y)
          /\ \A j \in 1 .. Len(x) + Len(y) :
                (x \o y)[j] = IF j <= Len(x) THEN x[j] ELSE y[j - Len(x)]
      <4>1. x \in Seq(Char) /\ y \in Seq(Char)
        BY <2>2, <2>3 DEF Text
      <4> QED BY ONLY <4>1, ConcatProperties
    <3>2. Len(x) = u /\ Len(x) + Len(y) = v
      BY <2>2, <2>3
    <3> QED BY <3>1, <3>2 DEF Text
  <2>6. ASSUME NEW j \in 1 .. v PROVE (x \o y)[j] = z[j]
    <3>1. CASE j <= u
      BY <2>2, <2>4, <2>5, <3>1
    <3>2. CASE ~(j <= u)
      <4>1. j - u \in 1 .. v - u /\ u + (j - u) = j
        BY <3>2
      <4> QED BY <2>3, <2>4, <2>5, <3>2, <4>1
    <3> QED BY <3>1, <3>2
  <2>7. x \o y = z
    BY <2>4, <2>5, <2>6, SeqEqual DEF Text
  <2> QED BY <2>1, <2>7 DEF z, r
<1>5. CASE ~(v > u)
  <2>1. v = u /\ out' = out
    BY <1>2, <1>3, <1>5 DEF Yield
  <2> QED BY <1>3, <2>1 DEF r
<1> QED BY <1>4, <1>5

Shown ==
  over = "no" =>
    Hits(seen) = {} /\ out = SubSeq(seen, 1, Len(seen) - Holdback(seen))

TextInv == Stopping /\ Shown /\ DeliversUpToStop

(* While the loop runs, what was yielded is what is delivered.             *)
LEMMA RunningDelivers ==
  ASSUME TextTypeOK, Shown, over = "no"
  PROVE  DeliversUpToStop
BY DEF Shown, DeliversUpToStop, Delivered

LEMMA TextStarts == TextInit => TextInv
<1> SUFFICES ASSUME TextInit PROVE TextInv
  OBVIOUS
<1>1. Stopping /\ TextTypeOK
  <2>1. stops \subseteq Seq(Char) \ {<<>>}
    BY TextAssumption DEF TextInit
  <2>2. left \in 0 .. TextLimit /\ <<>> \in Seq(Char)
    BY TextAssumption DEF TextInit
  <2> QED BY <2>1, <2>2 DEF TextInit, Stopping, Text, TextTypeOK
<1>2. seen = <<>> /\ out = <<>> /\ over = "no"
  BY DEF TextInit
<1>3. <<>> \in Text /\ Len(<<>>) = 0
  BY DEF Text
<1>4. Hits(<<>>) = {}
  <2> SUFFICES ASSUME NEW s \in stops, NEW i \in Found(<<>>, s) PROVE FALSE
    BY DEF Hits
  <2>1. Len(s) \in Nat \ {0}
    BY <1>1, StopTyped
  <2> QED BY <1>3, <2>1 DEF Found
<1>5. SubSeq(<<>>, 1, 0 - Holdback(<<>>)) = <<>>
  <2>1. Holdback(<<>>) \in Nat /\ Holdback(<<>>) <= 0
    BY <1>3, HoldbackIs
  <2> QED BY <2>1, SubSeqEmpty
<1>6. Shown
  BY <1>2, <1>3, <1>4, <1>5 DEF Shown
<1> QED BY <1>1, <1>2, <1>6, RunningDelivers DEF TextInv

LEMMA TextStep ==
  ASSUME TextInv, [TextNext]_textVars
  PROVE  TextInv'
<1> USE TextAssumption
<1>1. Stopping /\ Shown /\ TextTypeOK /\ seen \in Text /\ Len(seen) \in Nat
  BY DEF TextInv, DeliversUpToStop, TextTypeOK, Text
<1>2. CASE Incomplete
  <2>0. cut' \in BOOLEAN
    BY <1>1, <1>2 DEF Incomplete, TextTypeOK
  <2>1. TextTypeOK' /\ Shown' /\ over' = "no" /\ Stopping'
    BY <1>1, <1>2, <2>0 DEF Incomplete, TextTypeOK, Shown, Hits, Holdback, Holds, Stopping
  <2> QED BY <2>1 DEF TextInv, Shown, DeliversUpToStop, Delivered
<1>3. ASSUME NEW p \in Pieces, TextToken(p) PROVE TextInv'
  <2>1. /\ over = "no" /\ seen' = seen \o p /\ stops' = stops /\ p \in Text
    BY <1>3 DEF TextToken, Text
  <2>2. seen' \in Text /\ Len(seen') = Len(seen) + Len(p) /\ Len(p) \in Nat
    BY <1>1, <2>1, ConcatProperties DEF Text
  <2>3. Stopping'
    BY <1>1, <2>1 DEF Stopping
  <2>4. Hits(seen) = {} /\ out = SubSeq(seen, 1, Len(seen) - Holdback(seen))
    BY <1>1, <2>1 DEF Shown
  <2>5. PICK u \in Nat : u = Len(seen) - Holdback(seen) /\ u <= Len(seen)
    BY <1>1, HoldbackIs
  <2>6. /\ Holdback(seen') \in Nat /\ Holdback(seen') <= Len(seen')
        /\ Holdback(seen') <= Holdback(seen) + Len(p) /\ Holdback(seen) \in Nat
    BY <1>1, <2>1, <2>2, HoldbackIs, HoldbackGrows
  <2>7. TextTypeOK'
    BY <1>1, <1>3, <2>2 DEF TextToken, TextTypeOK, Text
  <2>8. Hits(seen)' = Hits(seen') /\ FirstHit(seen)' = FirstHit(seen')
    BY <2>1 DEF Hits, FirstHit
  <2>9. Holdback(seen)' = Holdback(seen')
    BY <2>1 DEF Holdback, Holds
  <2>10. CASE Hits(seen') = {}
    <3>1. over' = "no" /\ Yield(seen', Len(seen') - Holdback(seen'))
      BY <1>3, <2>1, <2>10 DEF TextToken
    <3>2. PICK v \in Nat : v = Len(seen') - Holdback(seen')
      BY <1>1, <2>2, <2>6
    <3>3. v <= Len(seen') /\ u <= v
      BY <1>1, <2>2, <2>5, <2>6, <3>2
    <3>4. out' = SubSeq(seen', 1, v)
      BY <1>1, <2>1, <2>4, <2>5, <3>1, <3>2, <3>3, Yielded
    <3>5. Shown'
      BY <2>8, <2>9, <2>10, <3>2, <3>4 DEF Shown
    <3> QED BY <2>3, <2>7, <3>1, <3>5 DEF TextInv, Shown, DeliversUpToStop, Delivered
  <2>11. CASE Hits(seen') # {}
    <3>1. over' = "stop" /\ Yield(seen', FirstHit(seen'))
      BY <1>3, <2>11 DEF TextToken
    <3>2. PICK v \in Nat : v = FirstHit(seen') /\ v <= Len(seen') /\ v \in Hits(seen')
      BY <1>1, <2>2, <2>11, FirstHitIs
    <3>3. u <= v
      BY <1>1, <2>1, <2>4, <2>5, <3>2, HitsAhead
    <3>4. out' = SubSeq(seen', 1, v)
      BY <1>1, <2>1, <2>4, <2>5, <3>1, <3>2, <3>3, Yielded
    <3>5. Delivered' = out'
      BY <3>1 DEF Delivered
    <3>6. Shown'
      BY <3>1 DEF Shown
    <3>7. DeliversUpToStop'
      BY <2>7, <2>8, <2>11, <3>1, <3>2, <3>4, <3>5 DEF DeliversUpToStop
    <3> QED BY <2>3, <3>6, <3>7 DEF TextInv
  <2> QED BY <2>10, <2>11
<1>4. CASE TextEnds
  <2>1. /\ over = "no" /\ over' \in {"limit", "eos"} /\ UNCHANGED <<stops, seen, cut, left>>
        /\ out' = IF cut THEN Append(out, "replacement") ELSE out
    BY <1>4 DEF TextEnds
  <2>2. Hits(seen) = {} /\ out = SubSeq(seen, 1, Len(seen) - Holdback(seen))
    BY <1>1, <2>1 DEF Shown
  <2>3. out \in Text
    <3>1. PICK v \in Nat : v = Len(seen) - Holdback(seen) /\ v <= Len(seen)
      BY <1>1, HoldbackIs
    <3> QED BY <1>1, <2>2, <3>1, Slice DEF Text
  <2>4. Delivered' = out
    <3>1. CASE cut
      <4> DEFINE T == Char \cup {"replacement"}
                 x == Append(out, "replacement")
      <4>1. out \in Seq(T) /\ "replacement" \in T
        BY <2>3 DEF Text
      <4>2. x \in Seq(T) /\ Len(x) = Len(out) + 1 /\ Len(out) \in Nat
            /\ \A j \in 1 .. Len(out) : x[j] = out[j]
        BY <4>1, AppendProperties
      <4>3. out' = x /\ cut' /\ over' \in {"limit", "eos"}
        BY <2>1, <3>1
      <4> HIDE DEF x, T
      <4>4. Delivered' = SubSeq(x, 1, Len(x) - 1)
        BY <4>3 DEF Delivered
      <4>5. PICK n \in Nat : n = Len(out) /\ Len(x) - 1 = n
        BY <4>2
      <4>6. PICK y : y = SubSeq(x, 1, n)
        OBVIOUS
      <4>7. /\ y \in Seq(T) /\ Len(y) = n
            /\ \A j \in 1 .. n : y[j] = x[j]
        <5>1. /\ y \in Seq(T) /\ Len(y) = n - 1 + 1
              /\ \A j \in 1 .. n - 1 + 1 : y[j] = x[1 + j - 1]
          BY <4>2, <4>5, <4>6, Slice
        <5>2. n - 1 + 1 = n /\ \A j \in 1 .. n : 1 + j - 1 = j
          OBVIOUS
        <5> QED BY <5>1, <5>2
      <4>8. y = out
        BY <4>1, <4>2, <4>5, <4>7, SeqEqual
      <4> QED BY <4>4, <4>5, <4>6, <4>8
    <3>2. CASE ~cut
      BY <2>1, <3>2 DEF Delivered
    <3> QED BY <3>1, <3>2
  <2>5. Hits(seen)' = Hits(seen) /\ Holdback(seen)' = Holdback(seen)
    BY <2>1 DEF Hits, Holdback, Holds
  <2>6. TextTypeOK' /\ Stopping' /\ Shown'
    BY <1>1, <2>1 DEF TextTypeOK, Stopping, Shown
  <2> QED BY <2>1, <2>2, <2>4, <2>5, <2>6 DEF TextInv, DeliversUpToStop
<1>5. CASE UNCHANGED textVars
  <2>1. UNCHANGED <<stops, seen, out, cut, left, over>>
    BY <1>5 DEF textVars
  <2>2. /\ Hits(seen)' = Hits(seen) /\ FirstHit(seen)' = FirstHit(seen)
        /\ Holdback(seen)' = Holdback(seen) /\ Delivered' = Delivered
    BY <2>1 DEF Hits, FirstHit, Holdback, Holds, Delivered
  <2>3. Stopping' /\ Shown' /\ TextTypeOK'
    BY <1>1, <2>1, <2>2 DEF Stopping, Shown, TextTypeOK
  <2> QED BY <2>1, <2>2, <2>3 DEF TextInv, DeliversUpToStop
<1> QED BY <1>2, <1>3, <1>4, <1>5 DEF TextNext

(* stream_text yields exactly the text before the first stop string, with  *)
(* no part of one, and without one all but an end that could begin one.    *)
THEOREM TextDelivered == TextSpec => []DeliversUpToStop
<1>1. TextInv => DeliversUpToStop
  BY DEF TextInv
<1> QED BY <1>1, TextStarts, TextStep, PTL DEF TextSpec

=============================================================================
