------------------------------ MODULE PyServer ------------------------------
(***************************************************************************)
(* python/tinyinference/server.py and the generators of model.py, over one *)
(* engine: every POST runs in its own thread, takes the server lock, resets*)
(* the engine, configures it and pulls a lazy token generator.  A failed   *)
(* write to a client abandons the generator half way: the lock is released *)
(* at once, and the generator's own `finally` runs when the thread drops   *)
(* its frames, after the release.                                          *)
(***************************************************************************)
EXTENDS Engine

CONSTANTS
  Req,        \* requests, each served by its own thread
  Free,       \* the lock has no holder
  MaxTokens,  \* max_tokens values clients ask for
  Modes,      \* subset of {"text", "json"}
  Streamed    \* the modes clients also ask to stream

ASSUME ServerAssumption ==
  /\ Free \notin Req
  /\ MaxTokens \subseteq Nat \ {0}
  /\ Modes \subseteq {"text", "json"} /\ Streamed \subseteq Modes

VARIABLES
  waiting,  \* requests that have not taken the lock yet
  holder,   \* the thread holding self.lock
  phase,    \* where the holder stands in _generate
  job,      \* the holder's request: mode, stream, max_tokens
  prompt,   \* prompt_tokens, the length of the encoded prompt
  budget,   \* limit, as the generator computes it after its prefill
  made,     \* next_token() results consumed so far
  full,     \* the generator used up its budget
  verdict,  \* what the last completed response reported
  suspended \* abandoned JSON generators whose `finally` has not run

serverVars == <<waiting, holder, phase, job, prompt, budget, made, full, verdict,
                suspended>>
allVars == <<vars, serverVars>>

Min2(x, y) == IF x < y THEN x ELSE y
Job == [mode : Modes, stream : BOOLEAN, max : MaxTokens]
TokensLeft(at) == IF at >= MaxCtx THEN 0 ELSE Min2(job.max, MaxCtx - at - 1)
Limit_ignoresPrompt == job.max
Limit == TokensLeft(prompt)  \* as _generate computes it, for the report

ServerInit ==
  /\ Init
  /\ waiting = Req /\ holder = Free /\ phase = "idle"
  /\ job \in {j \in Job : ~j.stream} /\ prompt = 0 /\ budget = 0
  /\ made = 0 /\ full = FALSE
  /\ verdict = [finish |-> "none", usage |-> 0, made |-> 0, full |-> FALSE]
  /\ suspended = {}

Acquire(r) ==
  /\ holder = Free /\ r \in waiting
  /\ holder' = r /\ waiting' = waiting \ {r} /\ phase' = "locked"
  /\ job' \in {j \in Job : j.stream => j.mode \in Streamed}
  /\ made' = 0 /\ full' = FALSE
  /\ UNCHANGED <<vars, prompt, budget, verdict, suspended>>

ResetModel_skipped ==
  /\ phase = "locked" /\ phase' = "reset"
  /\ UNCHANGED <<vars, waiting, holder, job, prompt, budget, made, full, verdict,
                 suspended>>

ResetModel ==
  /\ phase = "locked" /\ phase' = "reset"
  /\ Reset
  /\ UNCHANGED <<waiting, holder, job, prompt, budget, made, full, verdict, suspended>>

Configure(t) ==
  /\ phase = "reset" /\ phase' = "ready"
  /\ SetSampling(t)
  /\ UNCHANGED <<waiting, holder, job, prompt, budget, made, full, verdict, suspended>>

Release == holder' = Free /\ phase' = "idle"

(* The first pull runs the generator up to its prefill; an engine that     *)
(* refuses the prompt raises through the generator and out of _generate.   *)
StartGenerator(p) ==
  /\ phase = "ready"
  /\ prompt' = Len(p)
  /\ IF pos + Len(p) <= MaxCtx
       THEN Prefill(p) /\ budget' = TokensLeft(pos') /\ phase' = "decode"
            /\ UNCHANGED holder
       ELSE Release /\ UNCHANGED <<vars, budget>>
  /\ UNCHANGED <<waiting, job, made, full, verdict, suspended>>

(* stream_json sets the mask for the grammar state before every token.     *)
MaskToken ==
  /\ phase = "decode" /\ job.mode = "json" /\ made < budget
  /\ SetTokenMask(TRUE)
  /\ phase' = "sample"
  /\ UNCHANGED <<waiting, holder, job, prompt, budget, made, full, verdict, suspended>>

(* One next_token().  The token may end the response (eos, a stop string,  *)
(* a complete document, a token the grammar rejects).                      *)
TakeToken ==
  /\ IF job.mode = "json" THEN phase = "sample"
                          ELSE phase = "decode" /\ made < budget
  /\ (NextEager \/ NextReplay \/ NextSample)
  /\ made' = made + 1
  /\ phase' \in {"decode", "closing"}
  /\ UNCHANGED <<waiting, holder, job, prompt, budget, full, verdict, suspended>>

LimitReached ==
  /\ phase = "decode" /\ made >= budget
  /\ phase' = "closing" /\ full' = TRUE
  /\ UNCHANGED <<vars, waiting, holder, job, prompt, budget, made, verdict, suspended>>

Finish_keepsMask ==
  /\ phase = "closing" /\ Release
  /\ UNCHANGED <<vars, waiting, job, prompt, budget, made, full, verdict, suspended>>

(* The generator ends, the response is reported (unless the client of a    *)
(* stream has gone), the lock is released.                                 *)
Finish ==
  /\ phase = "closing"
  /\ IF job.mode = "json" THEN SetTokenMask(FALSE) ELSE UNCHANGED vars
  /\ LET usage == IF pos > prompt THEN pos - prompt ELSE 0
     IN \/ verdict' = [finish |-> IF Limit # 0 /\ usage >= Limit THEN "length" ELSE "stop",
                       usage |-> usage, made |-> made, full |-> full]
        \/ job.stream /\ UNCHANGED verdict
  /\ Release
  /\ UNCHANGED <<waiting, job, prompt, budget, made, full, suspended>>

Disconnect_keepsLock ==
  /\ job.stream /\ phase \in {"ready", "decode"}
  /\ phase' = "idle"
  /\ UNCHANGED <<vars, waiting, holder, job, prompt, budget, made, full, verdict,
                 suspended>>

(* A write to the client fails, before the generator starts or on a piece  *)
(* it yielded.                                                             *)
Disconnect ==
  /\ job.stream
  /\ \/ phase = "ready"
     \/ phase = "decode" /\ made > 0
  /\ suspended' = IF phase = "decode" /\ job.mode = "json"
                    THEN suspended \cup {holder} ELSE suspended
  /\ Release
  /\ UNCHANGED <<vars, waiting, job, prompt, budget, made, full, verdict>>

(* The abandoned generator is closed: its `finally` clears the mask.       *)
CloseSuspended(r) ==
  /\ r \in suspended /\ suspended' = suspended \ {r}
  /\ SetTokenMask(FALSE)
  /\ UNCHANGED <<waiting, holder, phase, job, prompt, budget, made, full, verdict>>

Serve ==
  \/ ResetModel
  \/ \E t \in Temps : Configure(t)
  \/ \E p \in Prompts : StartGenerator(p)
  \/ MaskToken
  \/ TakeToken
  \/ LimitReached
  \/ Finish

ServerNext ==
  \/ \E r \in Req : Acquire(r)
  \/ Serve
  \/ Disconnect
  \/ \E r \in Req : CloseSuspended(r)

(* The holder's thread runs, and a waiting thread gets the lock when it is *)
(* free; clients owe nothing, and when a frame is dropped is up to Python. *)
ServerSpec ==
  /\ ServerInit /\ [][ServerNext]_allVars
  /\ WF_allVars(Serve) /\ WF_allVars(\E r \in Req : Acquire(r))

-----------------------------------------------------------------------------
ServerTypeOK ==
  /\ TypeOK
  /\ waiting \subseteq Req /\ holder \in Req \cup {Free}
  /\ phase \in {"idle", "locked", "reset", "ready", "decode", "sample", "closing"}
  /\ job \in Job /\ prompt \in Nat /\ budget \in Nat /\ made \in Nat /\ full \in BOOLEAN
  /\ verdict \in [finish : {"none", "stop", "length"}, usage : Nat, made : Nat,
                  full : BOOLEAN]
  /\ suspended \subseteq Req

(* Requests share one engine, yet it behaves as a decode session: between  *)
(* resets no token is lost, reordered or fed twice, and every token is     *)
(* sampled over everything before it.                                      *)
SessionPerRequest == INSTANCE Session WITH transcript <- Transcript, basis <- logits
ImplementsSession == SessionPerRequest!Spec

(* The engine holds the holder's prompt and tokens and nothing else: with  *)
(* the session refinement, no request sees any context but its own.        *)
OwnContext ==
  phase \in {"decode", "sample", "closing"} => Len(Transcript) = prompt + made

(* The token budget of the generator keeps every next_token() call clear   *)
(* of the context guard, whether or not a token is pending: the guard      *)
(* would end the response early.                                           *)
BudgetFitsContext ==
  (phase = "sample" \/ (phase = "decode" /\ made < budget)) => pos < MaxCtx - 1

(* The report is behind by the pending token at most: completion_tokens    *)
(* misses at most the last one, and only that token can turn the `length`  *)
(* of a response that used up its budget into `stop`.                      *)
ReportBehindByPending ==
  verdict.finish # "none" =>
    /\ verdict.usage <= verdict.made /\ verdict.made <= verdict.usage + 1
    /\ verdict.full /\ verdict.made > 0 /\ verdict.finish = "stop"
         => verdict.usage = verdict.made - 1

(* The pending token is accounted for: in the budget that is spent before  *)
(* it exists, and in the report made after it.  (Checked with the types.)  *)
PendingAccounted == ServerTypeOK /\ BudgetFitsContext /\ ReportBehindByPending

(* A text response is not sampled through the mask of a JSON request,      *)
(* unless the generator of an abandoned JSON stream has yet to clear it.   *)
TextUnmasked ==
  phase = "decode" /\ job.mode = "text" /\ maskOn => suspended # {}

(* Every request gets the lock: whoever holds it gives it back, also when  *)
(* the engine refuses the prompt or the client goes away.                  *)
AllServed == <>(waiting = {})

=============================================================================
