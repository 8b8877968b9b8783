------------------------------ MODULE CServer -------------------------------
(***************************************************************************)
(* examples/server_minimal.c and examples/server_multimodel.c: an accept   *)
(* loop starts a detached thread per connection, each thread takes the     *)
(* mutex of its model's engine and runs run_chat under it, and a signal    *)
(* makes main free the engines.  server_minimal is the instance with one   *)
(* model and a stop table filled once (Refill = FALSE).                    *)
(*                                                                         *)
(* What Engine shows of one engine is used here as data: a context is a    *)
(* sequence of entries <<connection, kind>>, a step of the engine appends  *)
(* to it, and a token sampled but unfed stays in `pend`.  Scratch is taken *)
(* to suffice, so a prompt lands once.  The two stop strings every family  *)
(* gets are left out: no table lacks them except the one being refilled.   *)
(***************************************************************************)
EXTENDS Integers, Sequences, FiniteSets

CONSTANTS
  Model,    \* g_reg
  Conn,     \* connections, each with its thread
  Free,     \* a mutex without holder; a context without pending token
  Family,   \* Family[m]: tt_chat_stop_string of model m
  Refill,   \* run_chat_on resets and refills the table per request
  MaxCtx,
  MaxGen,   \* max_tokens values of clients
  Prompts   \* lengths of formatted, tokenised prompts

ASSUME CServerAssumption ==
  /\ IsFiniteSet(Model) /\ Model # {}
  /\ Free \notin Conn /\ MaxCtx \in Nat /\ MaxGen \subseteq Nat \ {0}
  /\ Prompts \subseteq Nat \ {0} /\ Refill \in BOOLEAN

VARIABLES
  main,   \* the main thread: serving, freeing, gone; or the process crashed
  freed,  \* models whose engine main has freed
  mu,     \* mu[m]: holder of the engine's mutex
  eng,    \* eng[m]: the engine
  stops,  \* g_stop, one table for all engines
  th      \* th[c]: the thread of connection c, with its GenResult

vars == <<main, freed, mu, eng, stops, th>>

Word == {Family[m] : m \in Model}
Full == MaxCtx - 1  \* the position run_chat treats as a full context
Pos(m) == Len(eng[m].ctx)

Init ==
  /\ main = "serving" /\ freed = {}
  /\ mu = [m \in Model |-> Free]
  /\ eng \in [Model -> [ctx : {<<>>}, pend : {Free}, ready : {FALSE}, eager : BOOLEAN]]
  /\ stops = IF Refill THEN <<>> ELSE <<Family[CHOOSE m \in Model : TRUE]>>
  /\ th = [c \in Conn |-> [pc |-> "new", model |-> CHOOSE m \in Model : TRUE, n |-> 0,
                           max |-> 0, gen |-> 0, fin |-> 0, why |-> "none",
                           text |-> {}, code |-> 0]]

-----------------------------------------------------------------------------
(* The engine calls of run_chat.                                           *)

Put(e, c, kind) == [e EXCEPT !.ctx = Append(@, <<c, kind>>)]
Phantom(e) == [e EXCEPT !.ctx = Append(@, <<e.pend, "phantom">>), !.pend = Free]
Flush(e) == IF e.ready /\ e.pend # Free THEN Phantom(e) ELSE e
Prefilled(e, c, n) ==
  LET f == Flush(e) IN [f EXCEPT !.ctx = @ \o [i \in 1 .. n |-> <<c, "prompt">>]]

(* engine_next: a pending token goes in first, then the sample is fed      *)
(* (eager) or kept pending; a capture may work, fail softly or for good.   *)
NextResults(e, c) ==
  LET f == IF ~e.eager /\ e.pend # Free THEN Phantom(e) ELSE e
      fed == Put(f, c, "phantom")
  IN IF e.eager THEN {fed}
     ELSE {[f EXCEPT !.pend = c, !.ready = @ \/ r] : r \in BOOLEAN}
          \cup {[fed EXCEPT !.eager = TRUE, !.ready = FALSE]}

(* replay_step(tok): through a slot, which samples one ahead, or eagerly.  *)
ReplayResults(e, c, kind) ==
  {Put(e, c, kind), [Put(e, c, kind) EXCEPT !.pend = c, !.ready = TRUE]}

-----------------------------------------------------------------------------
(* A connection's thread.                                                  *)

Up == main \in {"serving", "freeing"}
At(c, pc) == Up /\ th[c].pc = pc
Live(c) == th[c].model \notin freed
Step(c, t) == th' = [th EXCEPT ![c] = t]
Ends(c, fin, why) == [th[c] EXCEPT !.pc = "classify", !.fin = fin, !.why = why]
Fails(c, fin) == [th[c] EXCEPT !.pc = "unlock", !.fin = fin, !.code = 500]
UseEngine(c, results) == \E e \in results : eng' = [eng EXCEPT ![th[c].model] = e]

Accept(c) ==
  /\ main = "serving" /\ th[c].pc = "new"
  /\ Step(c, [th[c] EXCEPT !.pc = "parse"])
  /\ UNCHANGED <<main, freed, mu, eng, stops>>

(* A bad request, or an unknown model, is answered without any lock.       *)
Parse(c) ==
  /\ At(c, "parse")
  /\ \/ \E m \in Model, n \in Prompts, k \in MaxGen :
          Step(c, [th[c] EXCEPT !.pc = "lock", !.model = m, !.n = n, !.max = k])
     \/ Step(c, [th[c] EXCEPT !.pc = "done", !.code = 400])
  /\ UNCHANGED <<main, freed, mu, eng, stops>>

Lock_unchecked(c) ==
  /\ At(c, "lock")
  /\ mu' = [mu EXCEPT ![th[c].model] = c]
  /\ Step(c, [th[c] EXCEPT !.pc = "prompt"])
  /\ UNCHANGED <<main, freed, eng, stops>>

Lock(c) ==
  /\ At(c, "lock") /\ mu[th[c].model] = Free
  /\ mu' = [mu EXCEPT ![th[c].model] = c]
  /\ Step(c, [th[c] EXCEPT !.pc = "prompt"])
  /\ UNCHANGED <<main, freed, eng, stops>>

(* Formatting and tokenising may fail; a long prompt is refused; the rest  *)
(* is prefilled behind whatever the engine already holds.                  *)
Prompt(c) ==
  /\ At(c, "prompt") /\ Live(c)
  /\ \/ Step(c, Fails(c, 4)) /\ UNCHANGED eng
     \/ th[c].n >= Full /\ Step(c, Fails(c, 1)) /\ UNCHANGED eng
     \/ th[c].n < Full /\ Pos(th[c].model) + th[c].n > MaxCtx
        /\ Step(c, Fails(c, 4)) /\ UNCHANGED eng
     \/ /\ th[c].n < Full /\ Pos(th[c].model) + th[c].n <= MaxCtx
        /\ UseEngine(c, {Prefilled(eng[th[c].model], c, th[c].n)})
        /\ Step(c, [th[c] EXCEPT !.pc = IF Refill THEN "reset" ELSE "first"])
  /\ UNCHANGED <<main, freed, mu, stops>>

(* The table is refilled under the mutex of this engine only.              *)
ResetStops(c) ==
  /\ At(c, "reset")
  /\ stops' = <<>> /\ Step(c, [th[c] EXCEPT !.pc = "fill"])
  /\ UNCHANGED <<main, freed, mu, eng>>

AddStops(c) ==
  /\ At(c, "fill")
  /\ stops' = Append(stops, Family[th[c].model])
  /\ Step(c, [th[c] EXCEPT !.pc = "first"])
  /\ UNCHANGED <<main, freed, mu, eng>>

(* The first engine_next, whose token is not used.                         *)
First(c) ==
  /\ At(c, "first") /\ Live(c)
  /\ IF Pos(th[c].model) >= Full
       THEN Step(c, Fails(c, 4)) /\ UNCHANGED eng
       ELSE /\ UseEngine(c, NextResults(eng[th[c].model], c))
            /\ Step(c, [th[c] EXCEPT !.pc = "loop"])
  /\ UNCHANGED <<main, freed, mu, stops>>

GoesOn(c) == th[c].gen < th[c].max /\ Pos(th[c].model) < Full

(* The loop test, copy_logits and tt_sample; then end of sequence, or a    *)
(* token that may complete stop strings of this or of another family.      *)
Sample(c) ==
  /\ At(c, "loop") /\ Live(c) /\ GoesOn(c)
  /\ \/ /\ UseEngine(c, ReplayResults(eng[th[c].model], c, "close"))
        /\ Step(c, Ends(c, 0, "eos"))
     \/ /\ \E w \in {{}} \cup {{x} : x \in Word} :
             Step(c, [th[c] EXCEPT !.pc = "scan", !.text = @ \cup w])
        /\ UNCHANGED eng
  /\ UNCHANGED <<main, freed, mu, stops>>

LoopEnds(c) ==
  /\ At(c, "loop") /\ Live(c) /\ ~GoesOn(c)
  /\ Step(c, Ends(c, 0, IF th[c].gen >= th[c].max THEN "budget" ELSE "room"))
  /\ UNCHANGED <<main, freed, mu, eng, stops>>

(* find_stop over the whole text, with whatever the table now holds.       *)
Hit(c) == \E i \in 1 .. Len(stops) : stops[i] \in th[c].text

Scan(c) ==
  /\ At(c, "scan") /\ Live(c)
  /\ IF Hit(c)
       THEN /\ UseEngine(c, ReplayResults(eng[th[c].model], c, "close"))
            /\ Step(c, [Ends(c, 0, "cut") EXCEPT !.text = {}])
       ELSE UNCHANGED eng /\ Step(c, [th[c] EXCEPT !.pc = "feed"])
  /\ UNCHANGED <<main, freed, mu, stops>>

Feed(c) ==
  /\ At(c, "feed") /\ Live(c)
  /\ \/ /\ UseEngine(c, ReplayResults(eng[th[c].model], c, "gen"))
        /\ Step(c, [th[c] EXCEPT !.pc = "loop", !.gen = @ + 1])
     \/ UNCHANGED eng /\ Step(c, Ends(c, 4, "fault"))
  /\ UNCHANGED <<main, freed, mu, stops>>

(* 0 = stop, 1 = length, 3 = context full, 4 = error.                      *)
Fixed_roomFirst(t, p) ==
  IF t.fin # 0 THEN t.fin
  ELSE IF t.gen > 0 /\ p >= Full THEN 3 ELSE IF t.gen >= t.max THEN 1 ELSE 0
Fixed(t, p) ==
  IF t.fin # 0 THEN t.fin
  ELSE IF t.gen >= t.max THEN 1 ELSE IF t.gen > 0 /\ p >= Full THEN 3 ELSE 0

Classify(c) ==
  /\ At(c, "classify") /\ Live(c)
  /\ Step(c, [th[c] EXCEPT !.pc = "unlock", !.code = 200,
                           !.fin = Fixed(th[c], Pos(th[c].model))])
  /\ UNCHANGED <<main, freed, mu, eng, stops>>

Unlock_successOnly(c) ==
  /\ At(c, "unlock")
  /\ mu' = IF th[c].code = 200 THEN [mu EXCEPT ![th[c].model] = Free] ELSE mu
  /\ Step(c, [th[c] EXCEPT !.pc = "done"])
  /\ UNCHANGED <<main, freed, eng, stops>>

Unlock(c) ==
  /\ At(c, "unlock")
  /\ mu' = [mu EXCEPT ![th[c].model] = Free]
  /\ Step(c, [th[c] EXCEPT !.pc = "done"])
  /\ UNCHANGED <<main, freed, eng, stops>>

ThreadStep(c) ==
  \/ Parse(c) \/ Lock(c) \/ Prompt(c)
  \/ ResetStops(c) \/ AddStops(c)
  \/ First(c) \/ Sample(c) \/ LoopEnds(c) \/ Scan(c) \/ Feed(c)
  \/ Classify(c) \/ Unlock(c)

-----------------------------------------------------------------------------
(* main: a signal ends the accept loop, the engines are freed one by one,  *)
(* the process exits; no thread is waited for.                             *)

Signal ==
  /\ main = "serving" /\ main' = "freeing"
  /\ UNCHANGED <<freed, mu, eng, stops, th>>

FreeEngine(m) ==
  /\ main = "freeing" /\ m \notin freed
  /\ freed' = freed \cup {m}
  /\ UNCHANGED <<main, mu, eng, stops, th>>

ExitProcess ==
  /\ main = "freeing" /\ freed = Model /\ main' = "gone"
  /\ UNCHANGED <<freed, mu, eng, stops, th>>

(* A thread that touches a freed engine: the outcome is undefined, and the *)
(* model stops there.                                                      *)
UsesEngine == {"prompt", "first", "loop", "scan", "feed", "classify"}
TouchFreed(c) ==
  /\ Up /\ th[c].pc \in UsesEngine /\ ~Live(c)
  /\ main' = "crashed"
  /\ UNCHANGED <<freed, mu, eng, stops, th>>

Next ==
  \/ \E c \in Conn : Accept(c) \/ ThreadStep(c) \/ TouchFreed(c)
  \/ Signal \/ (\E m \in Model : FreeEngine(m)) \/ ExitProcess

(* Threads are scheduled and a free mutex is given to some waiter; clients *)
(* and signals owe nothing.                                                *)
Spec == Init /\ [][Next]_vars /\ \A c \in Conn : WF_vars(ThreadStep(c))

-----------------------------------------------------------------------------
Kind == {"prompt", "phantom", "gen", "close"}
Entry == Conn \X Kind
Pc == {"new", "parse", "lock", "prompt", "reset", "fill", "first", "loop",
       "scan", "feed", "classify", "unlock", "done"}

CServerTypeOK ==
  /\ main \in {"serving", "freeing", "gone", "crashed"} /\ freed \subseteq Model
  /\ mu \in [Model -> Conn \cup {Free}]
  /\ \A m \in Model :
       /\ eng[m].ctx \in Seq(Entry) /\ eng[m].pend \in Conn \cup {Free}
       /\ eng[m].ready \in BOOLEAN /\ eng[m].eager \in BOOLEAN
  /\ stops \in Seq(Word)
  /\ \A c \in Conn :
       /\ th[c].pc \in Pc /\ th[c].text \subseteq Word
       /\ th[c].gen \in 0 .. th[c].max /\ th[c].fin \in {0, 1, 3, 4}
       /\ th[c].code \in {0, 200, 400, 500}

(* Two requests for one model serialise: whatever each of them feeds, its  *)
(* prompt and its answer stand in the context without a break, except for  *)
(* a sampled token nobody asked for.                                       *)
Asked(e) == {i \in 1 .. Len(e.ctx) : e.ctx[i][2] # "phantom"}
RequestsContiguous ==
  \A m \in Model : \A i, j, k \in Asked(eng[m]) :
    i < j /\ j < k /\ eng[m].ctx[i][1] = eng[m].ctx[k][1]
      => eng[m].ctx[j][1] = eng[m].ctx[i][1]

(* The reported completion_tokens are the answer's tokens that went into   *)
(* the context, also when a step of the engine failed; the closing token   *)
(* is not counted.                                                         *)
Generated(e, c) == {i \in 1 .. Len(e.ctx) : e.ctx[i] = <<c, "gen">>}
CompletionCounted ==
  \A c \in Conn : th[c].pc = "done" /\ th[c].code = 200 =>
    Cardinality(Generated(eng[th[c].model], c)) = th[c].gen

(* An answer that used up max_tokens, or was broken off by a fault or by a *)
(* full context, is never reported as a clean stop or as one of the others.*)
VerdictFits ==
  \A c \in Conn : th[c].pc = "done" /\ th[c].code = 200 =>
    /\ th[c].why = "budget" => th[c].fin = 1
    /\ th[c].why = "room" => th[c].fin = IF th[c].gen > 0 THEN 3 ELSE 0
    /\ th[c].why = "fault" => th[c].fin = 4
    /\ th[c].why \in {"eos", "cut"} => th[c].fin \in {0, 3}

(* Once a scan has passed, the answer holds no stop string of its own      *)
(* family.  Only with one engine: a request for another one refills the    *)
(* table under another mutex, while this one scans it.                     *)
OwnStopsObeyed ==
  Cardinality(Model) = 1 =>
    \A c \in Conn : th[c].pc = "feed" => Family[th[c].model] \notin th[c].text

(* What a request is told about its answer is true, and the answer ends    *)
(* where it should, in the types they have.                                *)
ReportFits == CServerTypeOK /\ CompletionCounted /\ VerdictFits /\ OwnStopsObeyed

(* Every accepted connection is answered, also after requests that failed  *)
(* under the mutex, unless the process goes away.                          *)
AllReplied == \A c \in Conn : th[c].pc = "parse" ~> (th[c].pc = "done" \/ ~Up \/ ~Live(c))

=============================================================================
