--------------------------- MODULE CServerProofs ----------------------------
(***************************************************************************)
(* What holds of CServer for every number of models and connections, every *)
(* context size and every stop table: requests for a model do not mix, and *)
(* what a client is told of its answer is true.                            *)
(***************************************************************************)
EXTENDS CServer, FiniteSetTheorems, SequenceTheorems, TLAPS

EngineState == [ctx : Seq(Entry), pend : Conn \cup {Free}, ready : BOOLEAN,
                eager : BOOLEAN]
Verdicts == {0, 1, 3, 4}
Reasons == {"none", "eos", "cut", "budget", "room", "fault"}
Codes == {0, 200, 400, 500}
Thread == [pc : Pc, model : Model, n : Nat, max : Nat, gen : Nat, fin : Verdicts,
           why : Reasons, text : SUBSET Word, code : Codes]

Typed ==
  /\ main \in {"serving", "freeing", "gone", "crashed"} /\ freed \subseteq Model
  /\ mu \in [Model -> Conn \cup {Free}]
  /\ eng \in [Model -> EngineState]
  /\ stops \in Seq(Word)
  /\ th \in [Conn -> Thread]

(* The threads between lock and unlock, and those that have fed nothing.   *)
Inside == {"prompt", "reset", "fill", "first", "loop", "scan", "feed", "classify", "unlock"}
Before == {"new", "parse", "lock", "prompt"}

(* A mutex is held by the one thread that runs on its engine.              *)
Exclusive ==
  \A m \in Model, c \in Conn : mu[m] = c <=> th[c].pc \in Inside /\ th[c].model = m

(* A connection whose prompt is not fed has no entry anywhere; from its    *)
(* first one on, the context is its own for as long as it holds the mutex. *)
Newcomer(c) ==
  th[c].pc \in Before =>
    \A m \in Model : \A i \in Asked(eng[m]) : eng[m].ctx[i][1] # c
Owns(c) ==
  th[c].pc \in Inside =>
    \A i, j \in Asked(eng[th[c].model]) :
      i < j /\ eng[th[c].model].ctx[i][1] = c => eng[th[c].model].ctx[j][1] = c

(* gen counts what the answer has put into the context.                    *)
Counted(c) == Cardinality(Generated(eng[th[c].model], c)) = th[c].gen

(* The counter, within its budget, and what is reported of it.             *)
Verdict(t) ==
  /\ t.why = "budget" => t.fin = 1
  /\ t.why = "room" => t.fin = IF t.gen > 0 THEN 3 ELSE 0
  /\ t.why = "fault" => t.fin = 4
  /\ t.why \in {"eos", "cut"} => t.fin \in {0, 3}
Reported(c) ==
  LET t == th[c]
  IN /\ t.pc \in Before \cup {"reset", "fill", "first"} => t.gen = 0
     /\ t.gen <= t.max /\ (t.pc \in {"scan", "feed"} => t.gen < t.max)
     /\ t.pc \notin {"unlock", "done"} => t.code # 200
     /\ t.pc \in {"unlock", "done"} /\ t.code = 200 => Verdict(t)

(* Why the loop ended, while the reason can still be read off the engine.  *)
Ending(c) ==
  LET t == th[c]
  IN t.pc \notin {"unlock", "done"} =>
       /\ t.fin = IF t.why = "fault" THEN 4 ELSE 0
       /\ t.pc = "classify" =>
            /\ t.why # "none"
            /\ t.why = "budget" => t.gen >= t.max
            /\ t.why \in {"room", "eos", "cut"} => t.gen < t.max
            /\ t.why = "room" => Pos(t.model) >= Full

(* With one engine the mutex guards the table too.                         *)
OneModel == \A m, n \in Model : m = n
Listed(w) == \E i \in 1 .. Len(stops) : stops[i] = w
Stops(c) ==
  /\ th[c].pc \in {"reset", "fill"} => Refill
  /\ OneModel =>
       /\ th[c].pc \in {"first", "loop", "scan", "feed"} => Listed(Family[th[c].model])
       /\ th[c].pc = "feed" => Family[th[c].model] \notin th[c].text
FilledOnce == ~Refill => stops = <<Family[CHOOSE m \in Model : TRUE]>>

(* The inductive invariant.                                                *)
IInv ==
  /\ Typed /\ Exclusive /\ RequestsContiguous /\ FilledOnce
  /\ \A c \in Conn : /\ Newcomer(c) /\ Owns(c) /\ Counted(c)
                     /\ Reported(c) /\ Ending(c) /\ Stops(c)

-----------------------------------------------------------------------------
(* The engine calls: each adds entries of its caller, and phantoms.        *)

Adds(e, f, c, K) ==
  /\ e \in EngineState /\ f \in EngineState
  /\ Len(e.ctx) <= Len(f.ctx)
  /\ \A i \in 1 .. Len(e.ctx) : f.ctx[i] = e.ctx[i]
  /\ \A i \in Len(e.ctx) + 1 .. Len(f.ctx) :
       f.ctx[i][2] # "phantom" => f.ctx[i][2] \in K /\ f.ctx[i][1] = c

LEMMA AddsNothing ==
  ASSUME NEW e \in EngineState, NEW f \in EngineState, f.ctx = e.ctx, NEW c, NEW K
  PROVE  Adds(e, f, c, K)
<1>1. Len(e.ctx) \in Nat
  BY DEF EngineState
<1> QED BY <1>1 DEF Adds

LEMMA AddsBoth ==
  ASSUME NEW e, NEW f, NEW g, NEW c, NEW K, Adds(e, f, c, K), Adds(f, g, c, K)
  PROVE  Adds(e, g, c, K)
<1>1. Len(e.ctx) \in Nat /\ Len(f.ctx) \in Nat /\ Len(g.ctx) \in Nat
      /\ Len(e.ctx) <= Len(f.ctx) /\ Len(f.ctx) <= Len(g.ctx)
      /\ e \in EngineState /\ g \in EngineState
  BY DEF Adds, EngineState
<1>2. ASSUME NEW i \in 1 .. Len(e.ctx) PROVE g.ctx[i] = e.ctx[i]
  <2>1. i \in 1 .. Len(f.ctx)
    BY <1>1
  <2> QED BY <2>1 DEF Adds
<1>3. ASSUME NEW i \in Len(e.ctx) + 1 .. Len(g.ctx), g.ctx[i][2] # "phantom"
      PROVE  g.ctx[i][2] \in K /\ g.ctx[i][1] = c
  <2>1. CASE i \in 1 .. Len(f.ctx)
    <3>1. i \in Len(e.ctx) + 1 .. Len(f.ctx) /\ g.ctx[i] = f.ctx[i]
      BY <1>1, <2>1 DEF Adds
    <3> QED BY <1>3, <3>1 DEF Adds
  <2>2. CASE i \in Len(f.ctx) + 1 .. Len(g.ctx)
    BY <1>3, <2>2 DEF Adds
  <2> QED BY <1>1, <2>1, <2>2
<1> QED BY <1>1, <1>2, <1>3 DEF Adds

LEMMA AppendAdds ==
  ASSUME NEW e \in EngineState, NEW f \in EngineState, NEW x \in Conn, NEW kind \in Kind,
         f.ctx = Append(e.ctx, <<x, kind>>), NEW c, NEW K,
         kind # "phantom" => kind \in K /\ x = c
  PROVE  Adds(e, f, c, K)
<1>1. e.ctx \in Seq(Entry) /\ Len(e.ctx) \in Nat
  BY DEF EngineState
<1>2. /\ Len(f.ctx) = Len(e.ctx) + 1 /\ f.ctx[Len(e.ctx) + 1] = <<x, kind>>
      /\ \A i \in 1 .. Len(e.ctx) : f.ctx[i] = e.ctx[i]
  BY <1>1
<1> QED BY <1>1, <1>2 DEF Adds

LEMMA PutAdds ==
  ASSUME NEW e \in EngineState, NEW c \in Conn, NEW kind \in Kind
  PROVE  /\ Put(e, c, kind) \in EngineState
         /\ Put(e, c, kind).ctx = Append(e.ctx, <<c, kind>>)
         /\ \A K : kind \in K \cup {"phantom"} => Adds(e, Put(e, c, kind), c, K)
<1>1. Append(e.ctx, <<c, kind>>) \in Seq(Entry)
  BY DEF EngineState, Entry
<1>2. Put(e, c, kind) \in EngineState /\ Put(e, c, kind).ctx = Append(e.ctx, <<c, kind>>)
  BY <1>1 DEF Put, EngineState
<1> QED BY <1>2, AppendAdds

LEMMA FlushAdds ==
  ASSUME NEW e \in EngineState, NEW c, NEW K
  PROVE  /\ e.pend # Free => Phantom(e) \in EngineState /\ Adds(e, Phantom(e), c, K)
         /\ Flush(e) \in EngineState /\ Adds(e, Flush(e), c, K)
<1>1. ASSUME e.pend # Free
      PROVE  Phantom(e) \in EngineState /\ Adds(e, Phantom(e), c, K)
  <2>1. e.pend \in Conn /\ "phantom" \in Kind
    BY <1>1 DEF EngineState, Kind
  <2>2. Append(e.ctx, <<e.pend, "phantom">>) \in Seq(Entry)
    BY <2>1 DEF EngineState, Entry
  <2>3. /\ Phantom(e) \in EngineState
        /\ Phantom(e).ctx = Append(e.ctx, <<e.pend, "phantom">>)
    BY <2>2 DEF Phantom, EngineState
  <2> QED BY <2>1, <2>3, AppendAdds
<1> QED BY <1>1, AddsNothing DEF Flush

LEMMA PromptAdds ==
  ASSUME NEW e \in EngineState, NEW c \in Conn, NEW n \in Nat
  PROVE  /\ Prefilled(e, c, n) \in EngineState
         /\ Adds(e, Prefilled(e, c, n), c, {"prompt"})
<1> DEFINE f == Flush(e)
           block == [i \in 1 .. n |-> <<c, "prompt">>]
           g == Prefilled(e, c, n)
<1>1. f \in EngineState /\ Adds(e, f, c, {"prompt"}) /\ f.ctx \in Seq(Entry)
  BY FlushAdds DEF EngineState
<1>2. g = [f EXCEPT !.ctx = f.ctx \o block]
  BY DEF Prefilled
<1> HIDE DEF f, g
<1>3. block \in Seq(Entry) /\ Len(block) = n /\ \A i \in 1 .. n : block[i] = <<c, "prompt">>
  BY DEF Entry, Kind
<1> HIDE DEF block
<1> DEFINE s == f.ctx
           t == f.ctx \o block
<1>4. /\ t \in Seq(Entry) /\ Len(s) \in Nat /\ Len(t) = Len(s) + n
      /\ \A i \in 1 .. Len(s) : t[i] = s[i]
      /\ \A i \in Len(s) + 1 .. Len(t) : t[i] = <<c, "prompt">>
  <2>1. s \in Seq(Entry) /\ t = s \o block
    BY <1>1
  <2> HIDE DEF s, t
  <2>2. t \in Seq(Entry) /\ Len(s) \in Nat /\ Len(t) = Len(s) + n
    <3>1. block \in Seq(Entry) /\ Len(block) = n
      BY <1>3
    <3>2. Len(s) \in Nat
      BY <2>1
    <3>3. t \in Seq(Entry)
      BY <2>1, <3>1, ConcatProperties
    <3>4. Len(t) = Len(s) + Len(block)
      BY <2>1, <3>1, ConcatProperties
    <3> QED BY <3>1, <3>2, <3>3, <3>4
  <2>3. \A i \in 1 .. Len(t) : t[i] = IF i <= Len(s) THEN s[i] ELSE block[i - Len(s)]
    BY <1>3, <2>1, ConcatProperties
  <2> QED BY <1>3, <2>2, <2>3
<1>5. g \in EngineState /\ g.ctx = f.ctx \o block
  BY <1>1, <1>2, <1>4 DEF EngineState
<1>6. Adds(f, g, c, {"prompt"})
  BY <1>1, <1>3, <1>4, <1>5 DEF Adds
<1>7. Adds(e, g, c, {"prompt"})
  BY <1>1, <1>6, AddsBoth
<1> QED BY <1>5, <1>7 DEF g

(* A sample nobody asked for is a phantom, now or when it is fed.          *)
LEMMA NextAdds ==
  ASSUME NEW e \in EngineState, NEW c \in Conn, NEW g \in NextResults(e, c)
  PROVE  Adds(e, g, c, {})
<1> DEFINE f == IF ~e.eager /\ e.pend # Free THEN Phantom(e) ELSE e
           fed == Put(f, c, "phantom")
<1>1. f \in EngineState /\ Adds(e, f, c, {})
  BY FlushAdds, AddsNothing
<1>2. g = fed \/ (\E r \in BOOLEAN : g = [f EXCEPT !.pend = c, !.ready = @ \/ r])
      \/ g = [fed EXCEPT !.eager = TRUE, !.ready = FALSE]
  BY DEF NextResults
<1> HIDE DEF f
<1>3. fed \in EngineState /\ Adds(f, fed, c, {})
  BY <1>1, PutAdds DEF Kind
<1> HIDE DEF fed
<1>4. CASE g = fed
  BY <1>1, <1>3, <1>4, AddsBoth
<1>5. ASSUME NEW r \in BOOLEAN, g = [f EXCEPT !.pend = c, !.ready = @ \/ r]
      PROVE  Adds(e, g, c, {})
  <2>1. g \in EngineState /\ g.ctx = f.ctx
    BY <1>1, <1>5 DEF EngineState
  <2> QED BY <1>1, <2>1, AddsNothing, AddsBoth
<1>6. CASE g = [fed EXCEPT !.eager = TRUE, !.ready = FALSE]
  <2>1. g \in EngineState /\ g.ctx = fed.ctx
    BY <1>3, <1>6 DEF EngineState
  <2> QED BY <1>1, <1>3, <2>1, AddsNothing, AddsBoth
<1> QED BY <1>2, <1>4, <1>5, <1>6

LEMMA ReplayAdds ==
  ASSUME NEW e \in EngineState, NEW c \in Conn, NEW kind \in Kind,
         NEW g \in ReplayResults(e, c, kind)
  PROVE  Adds(e, g, c, {kind}) /\ g.ctx = Append(e.ctx, <<c, kind>>)
<1> DEFINE f == Put(e, c, kind)
<1>1. f \in EngineState /\ f.ctx = Append(e.ctx, <<c, kind>>) /\ Adds(e, f, c, {kind})
  BY PutAdds
<1>2. g = f \/ g = [f EXCEPT !.pend = c, !.ready = TRUE]
  BY DEF ReplayResults
<1> HIDE DEF f
<1>3. g \in EngineState /\ g.ctx = f.ctx
  BY <1>1, <1>2 DEF EngineState
<1> QED BY <1>1, <1>3, AddsNothing, AddsBoth

-----------------------------------------------------------------------------
(* What such a call does to the contexts.                                  *)

Effect(c, K) ==
  /\ eng' \in [Model -> EngineState]
  /\ \A m \in Model : m # th[c].model => eng'[m] = eng[m]
  /\ Adds(eng[th[c].model], eng'[th[c].model], c, K)

LEMMA CallEffect ==
  ASSUME Typed, NEW c \in Conn, NEW K, NEW results, UseEngine(c, results),
         \A f \in results : Adds(eng[th[c].model], f, c, K)
  PROVE  Effect(c, K) /\ eng'[th[c].model] \in results
<1>1. th[c].model \in Model /\ eng \in [Model -> EngineState]
  BY DEF Typed, Thread
<1>2. PICK f \in results : eng' = [eng EXCEPT ![th[c].model] = f]
  BY DEF UseEngine
<1>3. f \in EngineState /\ Adds(eng[th[c].model], f, c, K)
  BY DEF Adds
<1> QED BY <1>1, <1>2, <1>3 DEF Effect

LEMMA NoEffect ==
  ASSUME Typed, NEW c \in Conn, NEW K, eng' = eng
  PROVE  Effect(c, K)
<1>1. th[c].model \in Model /\ eng \in [Model -> EngineState]
  BY DEF Typed, Thread
<1> QED BY <1>1, AddsNothing DEF Effect

LEMMA GeneratedKept ==
  ASSUME NEW e, NEW f, NEW c, NEW K, Adds(e, f, c, K), NEW x, x # c \/ "gen" \notin K
  PROVE  Generated(f, x) = Generated(e, x)
<1>1. /\ Len(e.ctx) \in Nat /\ Len(f.ctx) \in Nat /\ Len(e.ctx) <= Len(f.ctx)
      /\ \A i \in 1 .. Len(e.ctx) : f.ctx[i] = e.ctx[i]
  BY DEF Adds, EngineState
<1>2. \A i \in Len(e.ctx) + 1 .. Len(f.ctx) : f.ctx[i] # <<x, "gen">>
  <2> SUFFICES ASSUME NEW i \in Len(e.ctx) + 1 .. Len(f.ctx), f.ctx[i] = <<x, "gen">>
               PROVE  FALSE
    OBVIOUS
  <2>1. f.ctx[i][1] = x /\ f.ctx[i][2] = "gen"
    OBVIOUS
  <2> QED BY <2>1 DEF Adds
<1>3. ASSUME NEW i \in 1 .. Len(f.ctx), f.ctx[i] = <<x, "gen">>
      PROVE  i \in 1 .. Len(e.ctx) /\ e.ctx[i] = <<x, "gen">>
  BY <1>1, <1>2, <1>3
<1>4. ASSUME NEW i \in 1 .. Len(e.ctx)
      PROVE  i \in 1 .. Len(f.ctx) /\ f.ctx[i] = e.ctx[i]
  BY <1>1
<1> QED BY <1>3, <1>4 DEF Generated

LEMMA GeneratedFinite ==
  ASSUME NEW e \in EngineState, NEW x
  PROVE  IsFiniteSet(Generated(e, x)) /\ Cardinality(Generated(e, x)) \in Nat
<1>1. Len(e.ctx) \in Nat
  BY DEF EngineState
<1>2. IsFiniteSet(1 .. Len(e.ctx))
  BY <1>1, FS_Interval
<1>3. Generated(e, x) \in SUBSET (1 .. Len(e.ctx))
  BY DEF Generated
<1> QED BY <1>2, <1>3, FS_Subset, FS_CardinalityType

(* A token of the answer is counted once.                                  *)
LEMMA GeneratedGrows ==
  ASSUME NEW e \in EngineState, NEW f \in EngineState, NEW x,
         f.ctx = Append(e.ctx, <<x, "gen">>)
  PROVE  Cardinality(Generated(f, x)) = Cardinality(Generated(e, x)) + 1
<1> DEFINE n == Len(e.ctx) + 1
<1>1. /\ n \in Nat /\ Len(f.ctx) = n /\ f.ctx[n] = <<x, "gen">>
      /\ \A i \in 1 .. n - 1 : f.ctx[i] = e.ctx[i]
      /\ Len(e.ctx) = n - 1
  BY DEF EngineState
<1> HIDE DEF n
<1>2. Generated(f, x) = Generated(e, x) \cup {n}
  <2>1. Generated(e, x) = {i \in 1 .. n - 1 : e.ctx[i] = <<x, "gen">>}
    BY <1>1 DEF Generated
  <2>2. Generated(f, x) = {i \in 1 .. n : f.ctx[i] = <<x, "gen">>}
    BY <1>1 DEF Generated
  <2>3. \A i \in 1 .. n : i \in 1 .. n - 1 \/ i = n
    BY <1>1
  <2>4. n \in 1 .. n /\ \A i \in 1 .. n - 1 : i \in 1 .. n
    BY <1>1
  <2> QED BY <1>1, <2>1, <2>2, <2>3, <2>4
<1>3. n \notin Generated(e, x)
  BY <1>1 DEF Generated
<1>4. IsFiniteSet(Generated(e, x)) /\ Cardinality(Generated(e, x)) \in Nat
  BY GeneratedFinite
<1> QED BY <1>2, <1>3, <1>4, FS_AddElement

(* Nobody else is inside with the same engine.                             *)
LEMMA Alone ==
  ASSUME Typed, Exclusive, NEW c \in Conn, th[c].pc \in Inside,
         NEW x \in Conn, x # c, th[x].pc \in Inside
  PROVE  th[x].model # th[c].model
<1>1. th[x].model \in Model /\ th[c].model \in Model
  BY DEF Typed, Thread
<1> QED BY <1>1 DEF Exclusive

(* The holder's context may grow at its end; no context is mixed by that,  *)
(* and the other threads find theirs as it was.                            *)
LEMMA LogsKept ==
  ASSUME IInv, NEW c \in Conn, NEW K, Effect(c, K), th[c].pc \in Inside
  PROVE  /\ RequestsContiguous'
         /\ th'[c].model = th[c].model => Owns(c)'
         /\ \A x \in Conn : x # c /\ th'[x] = th[x] =>
              /\ Newcomer(x)' /\ Owns(x)' /\ Counted(x)'
              /\ th[x].pc \in Inside => eng'[th[x].model] = eng[th[x].model]
<1> DEFINE h == th[c].model
           e == eng[h]
           f == eng'[h]
<1>1. /\ Typed /\ Exclusive /\ RequestsContiguous
      /\ \A x \in Conn : Newcomer(x) /\ Owns(x) /\ Counted(x)
  BY DEF IInv
<1>2. h \in Model /\ Adds(e, f, c, K) /\ e = eng[h] /\ f = eng'[h]
  BY <1>1 DEF Effect, Typed, Thread
<1>3. \A m \in Model : m # h => eng'[m] = eng[m]
  BY DEF Effect
(* Entries of h's new context are the old ones, or the holder's.           *)
<1>5. ASSUME NEW i \in Asked(f)
      PROVE  /\ i \in Nat
             /\ i <= Len(e.ctx) => i \in Asked(e) /\ f.ctx[i] = e.ctx[i]
             /\ ~(i <= Len(e.ctx)) => f.ctx[i][1] = c
  <2>1. i \in 1 .. Len(f.ctx) /\ f.ctx[i][2] # "phantom"
    BY <1>2, <1>5 DEF Asked
  <2>2. Len(e.ctx) \in Nat /\ Len(f.ctx) \in Nat
    BY <1>2 DEF Adds, EngineState
  <2>3. CASE i <= Len(e.ctx)
    <3>1. i \in 1 .. Len(e.ctx)
      BY <2>1, <2>2, <2>3
    <3>2. f.ctx[i] = e.ctx[i]
      BY <1>2, <3>1 DEF Adds
    <3> QED BY <1>2, <2>1, <2>3, <3>1, <3>2 DEF Asked
  <2>4. CASE ~(i <= Len(e.ctx))
    <3>1. i \in Len(e.ctx) + 1 .. Len(f.ctx)
      BY <2>1, <2>2, <2>4
    <3> QED BY <1>2, <2>1, <2>4, <3>1 DEF Adds
  <2> QED BY <2>3, <2>4
<1>6. Len(e.ctx) \in Nat
  BY <1>2 DEF Adds, EngineState
<1> HIDE DEF e, f, h
<1>7. ASSUME NEW i \in Asked(f), NEW j \in Asked(f), i < j, f.ctx[i][1] = c
      PROVE  f.ctx[j][1] = c
  <2>1. CASE j <= Len(e.ctx)
    <3>1. i <= Len(e.ctx)
      BY <1>5, <1>6, <1>7, <2>1
    <3>2. /\ i \in Asked(e) /\ j \in Asked(e) /\ e.ctx[i][1] = c
          /\ f.ctx[j] = e.ctx[j]
      BY <1>5, <1>7, <2>1, <3>1
    <3>3. e.ctx[j][1] = c
      BY <1>1, <1>2, <1>7, <3>2 DEF Owns, h
    <3> QED BY <3>2, <3>3
  <2>2. CASE ~(j <= Len(e.ctx))
    BY <1>5, <2>2
  <2> QED BY <2>1, <2>2
<1>8. RequestsContiguous'
  <2> SUFFICES ASSUME NEW m \in Model,
                      NEW i \in Asked(eng'[m]), NEW j \in Asked(eng'[m]), NEW k \in Asked(eng'[m]),
                      i < j, j < k, eng'[m].ctx[i][1] = eng'[m].ctx[k][1]
               PROVE  eng'[m].ctx[j][1] = eng'[m].ctx[i][1]
    BY DEF RequestsContiguous
  <2>1. CASE m # h
    BY <1>1, <1>3, <2>1 DEF RequestsContiguous
  <2>2. CASE m = h /\ k <= Len(e.ctx)
    <3>1. i <= Len(e.ctx) /\ j <= Len(e.ctx)
      BY <1>2, <1>5, <1>6, <2>2
    <3>2. /\ i \in Asked(e) /\ j \in Asked(e) /\ k \in Asked(e)
          /\ f.ctx[i] = e.ctx[i] /\ f.ctx[j] = e.ctx[j] /\ f.ctx[k] = e.ctx[k]
      BY <1>2, <1>5, <2>2, <3>1
    <3>3. e.ctx[i][1] = e.ctx[k][1]
      BY <1>2, <2>2, <3>2
    <3>4. e.ctx[j][1] = e.ctx[i][1]
      BY <1>1, <1>2, <3>2, <3>3 DEF RequestsContiguous
    <3> QED BY <1>2, <2>2, <3>2, <3>4
  <2>3. CASE m = h /\ ~(k <= Len(e.ctx))
    <3>1. f.ctx[k][1] = c /\ f.ctx[i][1] = c
      BY <1>2, <1>5, <2>3
    <3>2. f.ctx[j][1] = c
      BY <1>2, <1>7, <2>3, <3>1
    <3> QED BY <1>2, <2>3, <3>1, <3>2
  <2> QED BY <2>1, <2>2, <2>3
<1>9. th'[c].model = h => Owns(c)'
  BY <1>2, <1>7 DEF Owns
<1>10. ASSUME NEW x \in Conn, x # c, th'[x] = th[x]
       PROVE  /\ Newcomer(x)' /\ Owns(x)' /\ Counted(x)'
              /\ th[x].pc \in Inside => eng'[th[x].model] = eng[th[x].model]
  <2>1. th[x].model \in Model
    BY <1>1 DEF Typed, Thread
  <2>2. th[x].pc \in Inside => th[x].model # h
    BY <1>1, <1>10, Alone DEF h
  <2>3. Newcomer(x)'
    <3> SUFFICES ASSUME th[x].pc \in Before, NEW m \in Model, NEW i \in Asked(eng'[m])
                 PROVE  eng'[m].ctx[i][1] # x
      BY <1>10 DEF Newcomer
    <3>1. CASE m # h
      BY <1>1, <1>3, <3>1 DEF Newcomer
    <3>2. CASE m = h /\ i <= Len(e.ctx)
      <4>1. i \in Asked(e) /\ f.ctx[i] = e.ctx[i]
        BY <1>2, <1>5, <3>2
      <4>2. e.ctx[i][1] # x
        BY <1>1, <1>2, <4>1 DEF Newcomer
      <4> QED BY <1>2, <3>2, <4>1, <4>2
    <3>3. CASE m = h /\ ~(i <= Len(e.ctx))
      BY <1>2, <1>5, <1>10, <3>3
    <3> QED BY <3>1, <3>2, <3>3
  <2>4. Owns(x)'
    BY <1>1, <1>3, <1>10, <2>1, <2>2 DEF Owns
  <2>5. Generated(eng'[th[x].model], x) = Generated(eng[th[x].model], x)
    BY <1>2, <1>3, <1>10, <2>1, GeneratedKept
  <2>6. Counted(x)'
    BY <1>1, <1>10, <2>5 DEF Counted
  <2> QED BY <1>3, <2>1, <2>2, <2>3, <2>4, <2>6
<1> QED BY <1>8, <1>9, <1>10 DEF h

-----------------------------------------------------------------------------
(* The invariant is inductive.                                             *)

LEMMA InitIInv == Init => IInv
<1> SUFFICES ASSUME Init PROVE IInv
  OBVIOUS
<1> DEFINE any == CHOOSE m \in Model : TRUE
<1>1. any \in Model
  BY CServerAssumption
<1> HIDE DEF any
<1>2. /\ th = [c \in Conn |-> [pc |-> "new", model |-> any, n |-> 0, max |-> 0, gen |-> 0,
                               fin |-> 0, why |-> "none", text |-> {}, code |-> 0]]
      /\ stops = IF Refill THEN <<>> ELSE <<Family[any]>>
  BY DEF Init, any
<1>3. eng \in [Model -> EngineState] /\ \A m \in Model : eng[m].ctx = <<>>
  <2>1. <<>> \in Seq(Entry)
    OBVIOUS
  <2>2. ASSUME NEW m \in Model
        PROVE  eng[m] \in EngineState /\ eng[m].ctx = <<>>
    <3>1. eng[m] \in [ctx : {<<>>}, pend : {Free}, ready : {FALSE}, eager : BOOLEAN]
      BY DEF Init
    <3> QED BY <2>1, <3>1 DEF EngineState
  <2>3. eng \in [Model -> [ctx : {<<>>}, pend : {Free}, ready : {FALSE}, eager : BOOLEAN]]
    BY DEF Init
  <2> QED BY <2>2, <2>3
<1>4. Typed
  <2>1. th \in [Conn -> Thread]
    BY <1>1, <1>2 DEF Thread, Pc, Verdicts, Reasons, Codes
  <2>2. stops \in Seq(Word)
    <3>1. Family[any] \in Word
      BY <1>1 DEF Word
    <3>2. <<>> \in Seq(Word) /\ <<Family[any]>> \in Seq(Word)
      BY <3>1
    <3> QED BY <1>2, <3>2
  <2> QED BY <1>3, <2>1, <2>2 DEF Init, Typed
<1>5. Exclusive
  BY <1>2, CServerAssumption DEF Init, Exclusive, Inside
<1>6. \A m \in Model : Asked(eng[m]) = {} /\ \A c : Generated(eng[m], c) = {}
  BY <1>3 DEF Asked, Generated
<1>7. RequestsContiguous
  BY <1>6 DEF RequestsContiguous
<1>8. FilledOnce
  BY <1>2 DEF FilledOnce, any
<1>9. ASSUME NEW c \in Conn
      PROVE  Newcomer(c) /\ Owns(c) /\ Counted(c) /\ Reported(c) /\ Ending(c) /\ Stops(c)
  <2>1. th[c] = [pc |-> "new", model |-> any, n |-> 0, max |-> 0, gen |-> 0,
                 fin |-> 0, why |-> "none", text |-> {}, code |-> 0]
    BY <1>2
  <2>2. Newcomer(c) /\ Owns(c)
    BY <1>6, <2>1 DEF Newcomer, Owns, Inside
  <2>3. Counted(c)
    BY <1>1, <1>6, <2>1, FS_EmptySet DEF Counted
  <2>4. Reported(c) /\ Ending(c) /\ Stops(c)
    BY <2>1 DEF Reported, Ending, Stops, Before
  <2> QED BY <2>2, <2>3, <2>4
<1> QED BY <1>4, <1>5, <1>7, <1>8, <1>9 DEF IInv

LEMMA StepThread ==
  ASSUME Typed, NEW c \in Conn, NEW t \in Thread, Step(c, t)
  PROVE  /\ th' \in [Conn -> Thread] /\ th'[c] = t
         /\ \A x \in Conn : x # c => th'[x] = th[x]
BY DEF Typed, Step

(* A step without a token of the answer leaves what gen counts.            *)
LEMMA CountKept ==
  ASSUME NEW c \in Conn, NEW K, Effect(c, K), "gen" \notin K, Counted(c),
         th'[c].model = th[c].model, th'[c].gen = th[c].gen
  PROVE  Counted(c)'
BY GeneratedKept DEF Effect, Counted

(* A step of the holder between lock and unlock: what is left to show is   *)
(* about the holder.                                                       *)
LEMMA InsideInv ==
  ASSUME IInv, NEW c \in Conn, NEW K, NEW t \in Thread, Step(c, t), Effect(c, K),
         th[c].pc \in Inside, t.pc \in Inside \ Before, t.model = th[c].model,
         UNCHANGED <<main, freed, mu>>, stops' \in Seq(Word), FilledOnce',
         Counted(c)', Reported(c)', Ending(c)', Stops(c)'
  PROVE  IInv'
<1>1. /\ Typed /\ Exclusive
      /\ \A x \in Conn : Reported(x) /\ Ending(x) /\ Stops(x)
  BY DEF IInv
<1>2. /\ th' \in [Conn -> Thread] /\ th'[c] = t
      /\ \A x \in Conn : x # c => th'[x] = th[x]
  BY <1>1, StepThread
<1>3. Typed'
  BY <1>1, <1>2 DEF Typed, Effect
<1>4. Exclusive'
  BY <1>1, <1>2 DEF Exclusive
<1>5. /\ RequestsContiguous' /\ Owns(c)'
      /\ \A x \in Conn : x # c =>
           /\ Newcomer(x)' /\ Owns(x)' /\ Counted(x)'
           /\ th[x].pc \in Inside => eng'[th[x].model] = eng[th[x].model]
  BY <1>2, LogsKept
<1>6. Newcomer(c)'
  BY <1>2 DEF Newcomer
<1>7. ASSUME NEW x \in Conn, x # c
      PROVE  Reported(x)' /\ Ending(x)' /\ Stops(x)'
  <2>1. th'[x] = th[x]
    BY <1>2, <1>7
  <2>2. Reported(x)'
    BY <1>1, <2>1 DEF Reported
  <2>3. Ending(x)'
    <3>1. th[x].pc = "classify" => eng'[th[x].model] = eng[th[x].model]
      BY <1>5, <1>7 DEF Inside
    <3> QED BY <1>1, <2>1, <3>1 DEF Ending, Pos
  <2>4. Stops(x)'
    <3>1. OneModel /\ th[x].pc \in {"first", "loop", "scan", "feed"} => FALSE
      <4>1. th[x].model \in Model /\ th[c].model \in Model
        BY <1>1 DEF Typed, Thread
      <4> QED BY <1>1, <1>7, <4>1, Alone DEF Inside, OneModel
    <3>2. th[x].pc \in {"reset", "fill"} => Refill
      BY <1>1 DEF Stops
    <3> QED BY <2>1, <3>1, <3>2 DEF Stops, OneModel
  <2> QED BY <2>2, <2>3, <2>4
<1> QED BY <1>3, <1>4, <1>5, <1>6, <1>7 DEF IInv

(* What the invariant says of the thread that steps.                       *)
LEMMA ThreadIs ==
  ASSUME IInv, NEW c \in Conn
  PROVE  /\ Typed /\ Exclusive /\ FilledOnce /\ th[c] \in Thread /\ th[c].model \in Model
         /\ eng[th[c].model] \in EngineState /\ stops \in Seq(Word)
         /\ Newcomer(c) /\ Owns(c) /\ Counted(c) /\ Reported(c) /\ Ending(c) /\ Stops(c)
BY DEF IInv, Typed, Thread

(* A thread whose request fails keeps its engine and its counters.         *)
LEMMA FailsThread ==
  ASSUME NEW c \in Conn, th[c] \in Thread, NEW fin \in {1, 4}
  PROVE  /\ Fails(c, fin) \in Thread /\ Fails(c, fin).pc = "unlock"
         /\ Fails(c, fin).model = th[c].model /\ Fails(c, fin).gen = th[c].gen
         /\ Fails(c, fin).max = th[c].max /\ Fails(c, fin).code = 500
<1>1. "unlock" \in Pc /\ fin \in Verdicts /\ 500 \in Codes
  BY DEF Pc, Verdicts, Codes
<1> DEFINE v == [th[c] EXCEPT !.pc = "unlock"]
           w == [v EXCEPT !.fin = fin]
<1>2. Fails(c, fin) = [w EXCEPT !.code = 500]
  BY DEF Fails
<1>3. v \in Thread /\ v.model = th[c].model /\ v.gen = th[c].gen /\ v.max = th[c].max
      /\ v.pc = "unlock"
  BY <1>1 DEF Thread
<1> HIDE DEF v
<1>4. w \in Thread /\ w.model = v.model /\ w.gen = v.gen /\ w.max = v.max /\ w.pc = v.pc
  BY <1>1, <1>3 DEF Thread
<1> HIDE DEF w
<1>5. [w EXCEPT !.code = 500] \in Thread
  BY <1>1, <1>4 DEF Thread
<1> QED BY <1>2, <1>3, <1>4, <1>5 DEF Thread

(* A request refused or broken off under the mutex.                        *)
LEMMA FailsInv ==
  ASSUME IInv, NEW c \in Conn, NEW fin \in {1, 4}, th[c].pc \in {"prompt", "first"},
         Step(c, Fails(c, fin)), UNCHANGED <<main, freed, mu, eng, stops>>
  PROVE  IInv'
<1> DEFINE t == Fails(c, fin)
<1>1. /\ Typed /\ FilledOnce /\ th[c] \in Thread /\ stops \in Seq(Word)
      /\ Counted(c) /\ Reported(c)
  BY ThreadIs
<1>2. /\ t \in Thread /\ t.pc = "unlock" /\ t.model = th[c].model /\ t.gen = th[c].gen
      /\ t.max = th[c].max /\ t.code = 500
  BY <1>1, FailsThread
<1> HIDE DEF t
<1>3. th'[c] = t /\ Effect(c, {}) /\ Step(c, t)
  BY <1>1, <1>2, StepThread, NoEffect DEF t
<1>4. Counted(c)'
  BY <1>1, <1>2, <1>3, CountKept
<1>5. Reported(c)'
  BY <1>1, <1>2, <1>3 DEF Reported, Before
<1>6. Ending(c)' /\ Stops(c)' /\ FilledOnce'
  BY <1>1, <1>2, <1>3 DEF Ending, Stops, FilledOnce
<1>7. th[c].pc \in Inside /\ t.pc \in Inside \ Before /\ stops' \in Seq(Word)
  BY <1>1, <1>2 DEF Inside, Before
<1> QED BY <1>2, <1>3, <1>4, <1>5, <1>6, <1>7, InsideInv

(* The loop is over, and the reason is on record.                          *)
LEMMA EndsInv ==
  ASSUME IInv, NEW c \in Conn, NEW K, NEW t \in Thread, Step(c, t), Effect(c, K),
         "gen" \notin K, th[c].pc \in {"loop", "scan", "feed"},
         t.pc = "classify", t.model = th[c].model, t.gen = th[c].gen, t.max = th[c].max,
         t.code = th[c].code, t.fin = IF t.why = "fault" THEN 4 ELSE 0, t.why # "none",
         t.why = "budget" => t.gen >= t.max,
         t.why \in {"room", "eos", "cut"} => t.gen < t.max,
         t.why = "room" => Len(eng'[t.model].ctx) >= Full,
         UNCHANGED <<main, freed, mu, stops>>
  PROVE  IInv'
<1>1. /\ Typed /\ FilledOnce /\ th[c] \in Thread /\ stops \in Seq(Word)
      /\ Counted(c) /\ Reported(c)
  BY ThreadIs
<1>2. th'[c] = t
  BY <1>1, StepThread
<1>3. Counted(c)'
  BY <1>1, <1>2, CountKept
<1>4. Reported(c)'
  BY <1>1, <1>2 DEF Reported, Before
<1>5. Ending(c)'
  BY <1>2 DEF Ending, Pos
<1>6. Stops(c)' /\ FilledOnce'
  BY <1>1, <1>2 DEF Stops, FilledOnce
<1>7. th[c].pc \in Inside /\ t.pc \in Inside \ Before /\ stops' \in Seq(Word)
  BY <1>1 DEF Inside, Before
<1> QED BY <1>3, <1>4, <1>5, <1>6, <1>7, InsideInv

(* With the engines and the table left alone, a thread that does not step  *)
(* has nothing to lose.                                                    *)
LEMMA Untouched ==
  ASSUME IInv, UNCHANGED <<eng, stops>>
  PROVE  /\ RequestsContiguous' /\ FilledOnce'
         /\ \A x \in Conn : th'[x] = th[x] =>
              /\ Newcomer(x)' /\ Owns(x)' /\ Counted(x)'
              /\ Reported(x)' /\ Ending(x)' /\ Stops(x)'
<1>1. RequestsContiguous' /\ FilledOnce'
  BY DEF IInv, RequestsContiguous, FilledOnce
<1>2. ASSUME NEW x \in Conn, th'[x] = th[x]
      PROVE  Newcomer(x)' /\ Owns(x)' /\ Counted(x)'
  BY <1>2, ThreadIs DEF Newcomer, Owns, Counted
<1>3. ASSUME NEW x \in Conn, th'[x] = th[x]
      PROVE  Reported(x)' /\ Ending(x)' /\ Stops(x)'
  BY <1>3, ThreadIs DEF Reported, Ending, Pos, Stops, Listed
<1> QED BY <1>1, <1>2, <1>3

(* A step before the lock.                                                 *)
LEMMA OutsideInv ==
  ASSUME IInv, NEW c \in Conn, NEW t \in Thread, Step(c, t),
         th[c].pc \in {"new", "parse"}, t.pc \in {"parse", "lock", "done"},
         t.gen = 0, t.code # 200, t.fin = th[c].fin, t.why = th[c].why,
         UNCHANGED <<main, freed, mu, eng, stops>>
  PROVE  IInv'
<1>1. /\ Typed /\ Exclusive /\ th[c] \in Thread /\ eng \in [Model -> EngineState]
      /\ Newcomer(c) /\ Reported(c) /\ Ending(c)
  BY ThreadIs DEF Typed
<1>2. /\ th' \in [Conn -> Thread] /\ th'[c] = t
      /\ \A x \in Conn : x # c => th'[x] = th[x]
  BY <1>1, StepThread
<1>3. Typed'
  BY <1>1, <1>2 DEF Typed
<1>4. Exclusive'
  BY <1>1, <1>2 DEF Exclusive, Inside
<1>5. Newcomer(c)' /\ Owns(c)'
  BY <1>1, <1>2 DEF Newcomer, Owns, Before, Inside
<1>6. Counted(c)'
  <2>1. t.model \in Model
    BY DEF Thread
  <2>2. \A i \in Asked(eng[t.model]) : eng[t.model].ctx[i][1] # c
    BY <1>1, <2>1 DEF Newcomer, Before
  <2>3. ASSUME NEW i \in Generated(eng[t.model], c) PROVE FALSE
    <3>1. i \in Asked(eng[t.model])
      BY <2>3 DEF Generated, Asked
    <3>2. eng[t.model].ctx[i][1] = c
      BY <2>3 DEF Generated
    <3> QED BY <2>2, <3>1, <3>2
  <2>4. Generated(eng[t.model], c) = {}
    BY <2>3
  <2> QED BY <1>2, <2>4, FS_EmptySet DEF Counted
<1>7. Reported(c)' /\ Stops(c)'
  BY <1>2 DEF Reported, Stops, Thread
<1>8. Ending(c)'
  BY <1>1, <1>2 DEF Ending
<1> QED BY <1>2, <1>3, <1>4, <1>5, <1>6, <1>7, <1>8, Untouched DEF IInv

LEMMA AcceptInv ==
  ASSUME IInv, NEW c \in Conn, Accept(c)
  PROVE  IInv'
<1> DEFINE t == [th[c] EXCEPT !.pc = "parse"]
<1>1. th[c] \in Thread /\ Reported(c) /\ th[c].pc = "new" /\ Step(c, t) /\ "parse" \in Pc
      /\ UNCHANGED <<main, freed, mu, eng, stops>>
  BY ThreadIs DEF Accept, Pc
<1>2. t \in Thread /\ t.pc = "parse" /\ t.gen = th[c].gen /\ t.code = th[c].code
      /\ t.fin = th[c].fin /\ t.why = th[c].why
  BY <1>1 DEF Thread
<1> HIDE DEF t
<1>3. t.gen = 0 /\ t.code # 200
  BY <1>1, <1>2 DEF Reported, Before
<1> QED BY <1>1, <1>2, <1>3, OutsideInv

(* A request that is read, or refused.                                     *)
Parsed(t, m, n, k) == [t EXCEPT !.pc = "lock", !.model = m, !.n = n, !.max = k]
Refused(t) == [t EXCEPT !.pc = "done", !.code = 400]

LEMMA ParsedThread ==
  ASSUME NEW t \in Thread, NEW m \in Model, NEW n \in Nat, NEW k \in Nat
  PROVE  LET u == Parsed(t, m, n, k)
         IN /\ u \in Thread /\ u.pc = "lock" /\ u.gen = t.gen /\ u.code = t.code
            /\ u.fin = t.fin /\ u.why = t.why
<1> DEFINE v == [t EXCEPT !.pc = "lock"]
           w == [v EXCEPT !.model = m]
           x == [w EXCEPT !.n = n]
<1>1. Parsed(t, m, n, k) = [x EXCEPT !.max = k]
  BY DEF Parsed
<1>2. /\ v \in Thread /\ v.pc = "lock" /\ v.gen = t.gen /\ v.code = t.code
      /\ v.fin = t.fin /\ v.why = t.why
  BY DEF Thread, Pc
<1> HIDE DEF v
<1>3. /\ w \in Thread /\ w.pc = v.pc /\ w.gen = v.gen /\ w.code = v.code
      /\ w.fin = v.fin /\ w.why = v.why
  BY <1>2 DEF Thread
<1> HIDE DEF w
<1>4. /\ x \in Thread /\ x.pc = w.pc /\ x.gen = w.gen /\ x.code = w.code
      /\ x.fin = w.fin /\ x.why = w.why
  BY <1>3 DEF Thread
<1> HIDE DEF x
<1> QED BY <1>1, <1>2, <1>3, <1>4 DEF Thread

LEMMA RefusedThread ==
  ASSUME NEW t \in Thread
  PROVE  LET u == Refused(t)
         IN /\ u \in Thread /\ u.pc = "done" /\ u.gen = t.gen /\ u.code = 400
            /\ u.fin = t.fin /\ u.why = t.why
<1> DEFINE v == [t EXCEPT !.pc = "done"]
<1>1. Refused(t) = [v EXCEPT !.code = 400] /\ 400 \in Codes
  BY DEF Refused, Codes
<1>2. v \in Thread /\ v.pc = "done" /\ v.gen = t.gen /\ v.fin = t.fin /\ v.why = t.why
  BY DEF Thread, Pc
<1> HIDE DEF v
<1> QED BY <1>1, <1>2 DEF Thread

LEMMA ParseInv ==
  ASSUME IInv, NEW c \in Conn, Parse(c)
  PROVE  IInv'
<1>1. /\ th[c] \in Thread /\ Reported(c) /\ th[c].pc = "parse"
      /\ UNCHANGED <<main, freed, mu, eng, stops>>
  BY ThreadIs DEF Parse, At
<1>2. th[c].gen = 0 /\ th[c].code # 200
  BY <1>1 DEF Reported, Before
<1>3. ASSUME NEW m \in Model, NEW n \in Prompts, NEW k \in MaxGen,
             Step(c, Parsed(th[c], m, n, k))
      PROVE  IInv'
  <2> DEFINE t == Parsed(th[c], m, n, k)
  <2>1. n \in Nat /\ k \in Nat
    BY CServerAssumption
  <2>2. t \in Thread /\ t.pc = "lock" /\ t.gen = th[c].gen /\ t.code = th[c].code
        /\ t.fin = th[c].fin /\ t.why = th[c].why
    BY <1>1, <2>1, ParsedThread
  <2>3. Step(c, t)
    BY <1>3
  <2> HIDE DEF t
  <2> QED BY <1>1, <1>2, <2>2, <2>3, OutsideInv
<1>4. ASSUME Step(c, Refused(th[c]))
      PROVE  IInv'
  <2> DEFINE t == Refused(th[c])
  <2>1. t \in Thread /\ t.pc = "done" /\ t.gen = th[c].gen /\ t.code = 400
        /\ t.fin = th[c].fin /\ t.why = th[c].why
    BY <1>1, RefusedThread
  <2>2. Step(c, t)
    BY <1>4
  <2> HIDE DEF t
  <2> QED BY <1>1, <1>2, <2>1, <2>2, OutsideInv
<1> QED BY <1>3, <1>4 DEF Parse, Parsed, Refused

(* A step into or out of the mutex changes nothing else.                   *)
LEMMA LockInv ==
  ASSUME IInv, NEW c \in Conn, Lock(c)
  PROVE  IInv'
<1> DEFINE t == [th[c] EXCEPT !.pc = "prompt"]
           h == th[c].model
<1>1. /\ Typed /\ Exclusive /\ th[c] \in Thread /\ h \in Model
      /\ Newcomer(c) /\ Counted(c) /\ Reported(c) /\ Ending(c) /\ Stops(c)
  BY ThreadIs
<1>2. /\ th[c].pc = "lock" /\ mu[h] = Free /\ mu' = [mu EXCEPT ![h] = c] /\ Step(c, t)
      /\ UNCHANGED <<main, freed, eng, stops>> /\ "prompt" \in Pc
  BY DEF Lock, At, Pc
<1>3. /\ t \in Thread /\ t.pc = "prompt" /\ t.model = h /\ t.gen = th[c].gen
      /\ t.max = th[c].max /\ t.code = th[c].code /\ t.fin = th[c].fin /\ t.why = th[c].why
  BY <1>1, <1>2 DEF Thread
<1> HIDE DEF t
<1>4. /\ th' \in [Conn -> Thread] /\ th'[c] = t
      /\ \A x \in Conn : x # c => th'[x] = th[x]
  BY <1>1, <1>2, <1>3, StepThread
<1>5. Typed'
  BY <1>1, <1>2, <1>4 DEF Typed
<1>6. Exclusive'
  <2> SUFFICES ASSUME NEW m \in Model, NEW x \in Conn
               PROVE  mu'[m] = x <=> th'[x].pc \in Inside /\ th'[x].model = m
    BY DEF Exclusive
  <2>1. mu \in [Model -> Conn \cup {Free}] /\ Free # x
    BY <1>1, CServerAssumption DEF Typed
  <2>2. mu[m] = x <=> th[x].pc \in Inside /\ th[x].model = m
    BY <1>1 DEF Exclusive
  <2>3. CASE x = c
    <3>1. th'[x].pc \in Inside /\ th'[x].model = h
      BY <1>3, <1>4, <2>3 DEF Inside
    <3>2. mu[m] # x
      BY <1>2, <2>2, <2>3 DEF Inside
    <3> QED BY <1>1, <1>2, <2>1, <2>3, <3>1, <3>2
  <2>4. CASE x # c
    BY <1>1, <1>2, <1>4, <2>1, <2>2, <2>4
  <2> QED BY <2>3, <2>4
<1>7. Newcomer(c)' /\ Counted(c)'
  BY <1>1, <1>2, <1>3, <1>4 DEF Newcomer, Counted, Before
<1>8. Owns(c)'
  BY <1>1, <1>2, <1>3, <1>4 DEF Owns, Newcomer, Before
<1>9. Reported(c)' /\ Stops(c)'
  BY <1>1, <1>2, <1>3, <1>4 DEF Reported, Stops, Before
<1>10. Ending(c)'
  BY <1>1, <1>2, <1>3, <1>4 DEF Ending
<1> QED BY <1>2, <1>4, <1>5, <1>6, <1>7, <1>8, <1>9, <1>10, Untouched DEF IInv

LEMMA UnlockInv ==
  ASSUME IInv, NEW c \in Conn, Unlock(c)
  PROVE  IInv'
<1> DEFINE t == [th[c] EXCEPT !.pc = "done"]
           h == th[c].model
<1>1. /\ Typed /\ Exclusive /\ th[c] \in Thread /\ h \in Model
      /\ Counted(c) /\ Reported(c)
  BY ThreadIs
<1>2. /\ th[c].pc = "unlock" /\ mu' = [mu EXCEPT ![h] = Free] /\ Step(c, t)
      /\ UNCHANGED <<main, freed, eng, stops>> /\ "done" \in Pc
  BY DEF Unlock, At, Pc
<1>3. /\ t \in Thread /\ t.pc = "done" /\ t.model = h /\ t.gen = th[c].gen
      /\ t.max = th[c].max /\ t.code = th[c].code /\ t.fin = th[c].fin /\ t.why = th[c].why
  BY <1>1, <1>2 DEF Thread
<1> HIDE DEF t
<1>4. /\ th' \in [Conn -> Thread] /\ th'[c] = t
      /\ \A x \in Conn : x # c => th'[x] = th[x]
  BY <1>1, <1>2, <1>3, StepThread
<1>5. Typed'
  BY <1>1, <1>2, <1>4 DEF Typed
<1>6. Exclusive'
  <2> SUFFICES ASSUME NEW m \in Model, NEW x \in Conn
               PROVE  mu'[m] = x <=> th'[x].pc \in Inside /\ th'[x].model = m
    BY DEF Exclusive
  <2>1. mu \in [Model -> Conn \cup {Free}] /\ Free # x
    BY <1>1, CServerAssumption DEF Typed
  <2>2. mu[m] = x <=> th[x].pc \in Inside /\ th[x].model = m
    BY <1>1 DEF Exclusive
  <2>3. mu[h] = c
    BY <1>1, <1>2 DEF Exclusive, Inside
  <2>4. CASE x = c
    <3>1. th'[x].pc \notin Inside
      BY <1>3, <1>4, <2>4 DEF Inside
    <3>2. m # h => mu[m] # x
      BY <2>2, <2>4
    <3> QED BY <1>1, <1>2, <2>1, <2>4, <3>1, <3>2
  <2>5. CASE x # c
    BY <1>1, <1>2, <1>4, <2>1, <2>2, <2>3, <2>5
  <2> QED BY <2>4, <2>5
<1>7. Newcomer(c)' /\ Owns(c)' /\ Counted(c)'
  BY <1>1, <1>2, <1>3, <1>4 DEF Newcomer, Owns, Counted, Before, Inside
<1>8. Reported(c)'
  BY <1>1, <1>2, <1>3, <1>4 DEF Reported, Verdict, Before
<1>9. Ending(c)' /\ Stops(c)'
  BY <1>3, <1>4 DEF Ending, Stops
<1> QED BY <1>2, <1>4, <1>5, <1>6, <1>7, <1>8, <1>9, Untouched DEF IInv

(* main only takes engines away.                                           *)
LEMMA MainInv ==
  ASSUME IInv, main' \in {"serving", "freeing", "gone", "crashed"}, freed' \subseteq Model,
         UNCHANGED <<mu, eng, stops, th>>
  PROVE  IInv'
<1>1. Typed' /\ Exclusive'
  BY DEF IInv, Typed, Exclusive
<1> QED BY <1>1, Untouched DEF IInv

-----------------------------------------------------------------------------
(* The steps of run_chat.                                                  *)

LEMMA OnlyModel == OneModel => \A m \in Model : m = CHOOSE x \in Model : TRUE
BY CServerAssumption DEF OneModel

(* A table filled once with the only family has the stop strings of it.    *)
LEMMA FilledOnceLists ==
  ASSUME FilledOnce, ~Refill, OneModel, NEW m \in Model
  PROVE  Listed(Family[m])
<1> DEFINE w == Family[CHOOSE x \in Model : TRUE]
<1>1. stops = <<w>> /\ w = Family[m]
  BY OnlyModel DEF FilledOnce
<1> HIDE DEF w
<1>2. Len(stops) = 1 /\ stops[1] = w
  BY <1>1
<1> QED BY <1>1, <1>2 DEF Listed

LEMMA PromptInv ==
  ASSUME IInv, NEW c \in Conn, Prompt(c)
  PROVE  IInv'
<1> DEFINE e == eng[th[c].model]
           t == [th[c] EXCEPT !.pc = IF Refill THEN "reset" ELSE "first"]
<1>1. /\ Typed /\ FilledOnce /\ th[c] \in Thread /\ e \in EngineState /\ th[c].pc = "prompt"
      /\ th[c].model \in Model /\ stops \in Seq(Word)
      /\ Counted(c) /\ Reported(c) /\ Ending(c) /\ UNCHANGED <<main, freed, mu, stops>>
  BY ThreadIs DEF Prompt, At
<1>2. CASE (Step(c, Fails(c, 4)) \/ Step(c, Fails(c, 1))) /\ UNCHANGED eng
  BY <1>1, <1>2, FailsInv
<1>3. ASSUME UseEngine(c, {Prefilled(e, c, th[c].n)}), Step(c, t)
      PROVE  IInv'
  <2>1. Effect(c, {"prompt"})
    <3>1. th[c].n \in Nat
      BY <1>1 DEF Thread
    <3>2. \A f \in {Prefilled(e, c, th[c].n)} : Adds(e, f, c, {"prompt"})
      BY <1>1, <3>1, PromptAdds
    <3> QED BY <1>1, <1>3, <3>2, CallEffect
  <2>2. /\ t \in Thread /\ t.pc = IF Refill THEN "reset" ELSE "first"
        /\ t.model = th[c].model /\ t.gen = th[c].gen /\ t.max = th[c].max
        /\ t.code = th[c].code /\ t.fin = th[c].fin /\ t.why = th[c].why
    <3>1. (IF Refill THEN "reset" ELSE "first") \in Pc
      BY DEF Pc
    <3> QED BY <1>1, <3>1 DEF Thread
  <2>3. t.pc \in {"reset", "first"} /\ (t.pc = "reset" => Refill) /\ (t.pc = "first" => ~Refill)
    BY <2>2
  <2> HIDE DEF t
  <2>4. th'[c] = t /\ Step(c, t)
    BY <1>1, <1>3, <2>2, StepThread
  <2>5. Counted(c)'
    BY <1>1, <2>1, <2>2, <2>4, CountKept
  <2>6. Reported(c)' /\ Ending(c)'
    BY <1>1, <2>2, <2>3, <2>4 DEF Reported, Ending, Before
  <2>7. Stops(c)'
    <3>1. t.pc = "first" /\ OneModel => Listed(Family[t.model])
      BY <1>1, <2>2, <2>3, FilledOnceLists
    <3> QED BY <1>1, <2>3, <2>4, <3>1 DEF Stops, Listed
  <2>8. th[c].pc \in Inside /\ t.pc \in Inside \ Before
    BY <1>1, <2>3 DEF Inside, Before
  <2>9. FilledOnce' /\ stops' \in Seq(Word)
    BY <1>1 DEF FilledOnce
  <2> QED BY <1>1, <2>1, <2>2, <2>4, <2>5, <2>6, <2>7, <2>8, <2>9, InsideInv
<1> QED BY <1>1, <1>2, <1>3 DEF Prompt

LEMMA ResetStopsInv ==
  ASSUME IInv, NEW c \in Conn, ResetStops(c)
  PROVE  IInv'
<1> DEFINE t == [th[c] EXCEPT !.pc = "fill"]
<1>1. /\ Typed /\ th[c] \in Thread /\ th[c].pc = "reset" /\ stops' = <<>> /\ "fill" \in Pc
      /\ Counted(c) /\ Reported(c) /\ Ending(c) /\ Stops(c) /\ Step(c, t)
      /\ UNCHANGED <<main, freed, mu, eng>>
  BY ThreadIs DEF ResetStops, At, Pc
<1>2. /\ t \in Thread /\ t.pc = "fill" /\ t.model = th[c].model /\ t.gen = th[c].gen
      /\ t.max = th[c].max /\ t.code = th[c].code /\ t.fin = th[c].fin /\ t.why = th[c].why
  BY <1>1 DEF Thread
<1> HIDE DEF t
<1>3. th'[c] = t /\ Effect(c, {})
  BY <1>1, <1>2, StepThread, NoEffect
<1>4. Counted(c)'
  BY <1>1, <1>2, <1>3, CountKept
<1>5. Reported(c)' /\ Ending(c)'
  BY <1>1, <1>2, <1>3 DEF Reported, Ending, Before
<1>6. Refill
  BY <1>1 DEF Stops
<1>7. Stops(c)' /\ FilledOnce'
  BY <1>2, <1>3, <1>6 DEF Stops, FilledOnce
<1>8. th[c].pc \in Inside /\ t.pc \in Inside \ Before /\ stops' \in Seq(Word)
  BY <1>1, <1>2 DEF Inside, Before
<1> QED BY <1>1, <1>2, <1>3, <1>4, <1>5, <1>7, <1>8, InsideInv

LEMMA AddStopsInv ==
  ASSUME IInv, NEW c \in Conn, AddStops(c)
  PROVE  IInv'
<1> DEFINE t == [th[c] EXCEPT !.pc = "first"]
           w == Family[th[c].model]
<1>1. /\ Typed /\ th[c] \in Thread /\ th[c].pc = "fill" /\ stops' = Append(stops, w)
      /\ "first" \in Pc /\ stops \in Seq(Word) /\ th[c].model \in Model
      /\ Counted(c) /\ Reported(c) /\ Ending(c) /\ Stops(c) /\ Step(c, t)
      /\ UNCHANGED <<main, freed, mu, eng>>
  BY ThreadIs DEF AddStops, At, Pc
<1>2. /\ t \in Thread /\ t.pc = "first" /\ t.model = th[c].model /\ t.gen = th[c].gen
      /\ t.max = th[c].max /\ t.code = th[c].code /\ t.fin = th[c].fin /\ t.why = th[c].why
  BY <1>1 DEF Thread
<1> HIDE DEF t
<1>3. th'[c] = t /\ Effect(c, {})
  BY <1>1, <1>2, StepThread, NoEffect
<1>4. Counted(c)'
  BY <1>1, <1>2, <1>3, CountKept
<1>5. Reported(c)' /\ Ending(c)'
  BY <1>1, <1>2, <1>3 DEF Reported, Ending, Before
<1>6. stops' \in Seq(Word) /\ Listed(w)'
  <2>1. w \in Word
    BY <1>1 DEF Word
  <2> HIDE DEF w
  <2>2. /\ stops' \in Seq(Word) /\ Len(stops') = Len(stops) + 1 /\ Len(stops) \in Nat
        /\ stops'[Len(stops) + 1] = w
    BY <1>1, <2>1
  <2>3. Len(stops) + 1 \in 1 .. Len(stops')
    BY <2>2
  <2>4. \E i \in 1 .. Len(stops') : stops'[i] = w
    BY <2>2, <2>3
  <2> QED BY <2>2, <2>4, <1>2, <1>3 DEF Listed, w
<1>7. Stops(c)' /\ FilledOnce'
  BY <1>1, <1>2, <1>3, <1>6 DEF Stops, FilledOnce
<1>8. th[c].pc \in Inside /\ t.pc \in Inside \ Before
  BY <1>1, <1>2 DEF Inside, Before
<1> QED BY <1>1, <1>2, <1>3, <1>4, <1>5, <1>6, <1>7, <1>8, InsideInv

LEMMA FirstInv ==
  ASSUME IInv, NEW c \in Conn, First(c)
  PROVE  IInv'
<1> DEFINE e == eng[th[c].model]
           t == [th[c] EXCEPT !.pc = "loop"]
<1>1. /\ Typed /\ FilledOnce /\ th[c] \in Thread /\ e \in EngineState /\ th[c].pc = "first"
      /\ stops \in Seq(Word) /\ "loop" \in Pc
      /\ Counted(c) /\ Reported(c) /\ Ending(c) /\ Stops(c)
      /\ UNCHANGED <<main, freed, mu, stops>>
  BY ThreadIs DEF First, At, Pc
<1>2. CASE Step(c, Fails(c, 4)) /\ UNCHANGED eng
  BY <1>1, <1>2, FailsInv
<1>3. ASSUME UseEngine(c, NextResults(e, c)), Step(c, t)
      PROVE  IInv'
  <2>1. Effect(c, {})
    BY <1>1, <1>3, NextAdds, CallEffect
  <2>2. /\ t \in Thread /\ t.pc = "loop" /\ t.model = th[c].model /\ t.gen = th[c].gen
        /\ t.max = th[c].max /\ t.code = th[c].code /\ t.fin = th[c].fin /\ t.why = th[c].why
    BY <1>1 DEF Thread
  <2> HIDE DEF t
  <2>3. th'[c] = t /\ Step(c, t)
    BY <1>1, <1>3, <2>2, StepThread
  <2>4. Counted(c)'
    BY <1>1, <2>1, <2>2, <2>3, CountKept
  <2>5. Reported(c)' /\ Ending(c)'
    BY <1>1, <2>2, <2>3 DEF Reported, Ending, Before
  <2>6. Stops(c)' /\ FilledOnce' /\ stops' \in Seq(Word)
    BY <1>1, <2>2, <2>3 DEF Stops, Listed, FilledOnce
  <2>7. th[c].pc \in Inside /\ t.pc \in Inside \ Before
    BY <1>1, <2>2 DEF Inside, Before
  <2> QED BY <1>1, <2>1, <2>2, <2>3, <2>4, <2>5, <2>6, <2>7, InsideInv
<1> QED BY <1>1, <1>2, <1>3 DEF First

(* The fields of a thread whose loop ends.                                 *)
LEMMA EndsIs ==
  ASSUME NEW c \in Conn, th[c] \in Thread, NEW fin \in Verdicts, NEW why \in Reasons
  PROVE  /\ Ends(c, fin, why) \in Thread /\ Ends(c, fin, why).pc = "classify"
         /\ Ends(c, fin, why).model = th[c].model /\ Ends(c, fin, why).gen = th[c].gen
         /\ Ends(c, fin, why).max = th[c].max /\ Ends(c, fin, why).code = th[c].code
         /\ Ends(c, fin, why).fin = fin /\ Ends(c, fin, why).why = why
<1>1. "classify" \in Pc
  BY DEF Pc
<1> QED BY <1>1 DEF Ends, Thread

LEMMA ReplayEffect ==
  ASSUME Typed, NEW c \in Conn, NEW kind \in Kind, eng[th[c].model] \in EngineState,
         UseEngine(c, ReplayResults(eng[th[c].model], c, kind))
  PROVE  /\ Effect(c, {kind})
         /\ eng'[th[c].model].ctx = Append(eng[th[c].model].ctx, <<c, kind>>)
<1> DEFINE e == eng[th[c].model]
<1>1. \A f \in ReplayResults(e, c, kind) :
         Adds(e, f, c, {kind}) /\ f.ctx = Append(e.ctx, <<c, kind>>)
  BY ReplayAdds
<1> QED BY <1>1, CallEffect

LEMMA SampleInv ==
  ASSUME IInv, NEW c \in Conn, Sample(c)
  PROVE  IInv'
<1>1. /\ Typed /\ FilledOnce /\ th[c] \in Thread /\ eng[th[c].model] \in EngineState
      /\ th[c].pc = "loop" /\ GoesOn(c) /\ stops \in Seq(Word)
      /\ Counted(c) /\ Reported(c) /\ Ending(c) /\ Stops(c)
      /\ UNCHANGED <<main, freed, mu, stops>>
  BY ThreadIs DEF Sample, At
<1>2. th[c].gen \in Nat /\ th[c].max \in Nat /\ th[c].gen < th[c].max
  BY <1>1 DEF GoesOn, Thread
<1>3. ASSUME UseEngine(c, ReplayResults(eng[th[c].model], c, "close")),
             Step(c, Ends(c, 0, "eos"))
      PROVE  IInv'
  <2> DEFINE t == Ends(c, 0, "eos")
  <2>1. "close" \in Kind /\ 0 \in Verdicts /\ "eos" \in Reasons
    BY DEF Kind, Verdicts, Reasons
  <2>2. Effect(c, {"close"})
    BY <1>1, <1>3, <2>1, ReplayEffect
  <2>3. /\ t \in Thread /\ t.pc = "classify" /\ t.model = th[c].model /\ t.gen = th[c].gen
        /\ t.max = th[c].max /\ t.code = th[c].code /\ t.fin = 0 /\ t.why = "eos"
    BY <1>1, <2>1, EndsIs
  <2>4. Step(c, t)
    BY <1>3
  <2> HIDE DEF t
  <2> QED BY <1>1, <1>2, <2>2, <2>3, <2>4, EndsInv
<1>4. ASSUME NEW w \in {{}} \cup {{x} : x \in Word}, UNCHANGED eng,
             Step(c, [th[c] EXCEPT !.pc = "scan", !.text = @ \cup w])
      PROVE  IInv'
  <2> DEFINE t == [th[c] EXCEPT !.pc = "scan", !.text = th[c].text \cup w]
  <2>1. /\ t \in Thread /\ t.pc = "scan" /\ t.model = th[c].model /\ t.gen = th[c].gen
        /\ t.max = th[c].max /\ t.code = th[c].code /\ t.fin = th[c].fin /\ t.why = th[c].why
    <3>1. th[c].text \cup w \in SUBSET Word /\ "scan" \in Pc
      BY <1>1 DEF Thread, Pc
    <3> QED BY <1>1, <3>1 DEF Thread
  <2>2. Step(c, t)
    BY <1>4
  <2> HIDE DEF t
  <2>3. th'[c] = t /\ Effect(c, {})
    BY <1>1, <1>4, <2>1, <2>2, StepThread, NoEffect
  <2>4. Counted(c)'
    BY <1>1, <2>1, <2>3, CountKept
  <2>5. Reported(c)' /\ Ending(c)'
    BY <1>1, <1>2, <2>1, <2>3 DEF Reported, Ending, Before
  <2>6. Stops(c)' /\ FilledOnce' /\ stops' \in Seq(Word)
    BY <1>1, <2>1, <2>3 DEF Stops, Listed, FilledOnce
  <2>7. th[c].pc \in Inside /\ t.pc \in Inside \ Before
    BY <1>1, <2>1 DEF Inside, Before
  <2> QED BY <1>1, <2>1, <2>2, <2>3, <2>4, <2>5, <2>6, <2>7, InsideInv
<1> QED BY <1>3, <1>4 DEF Sample

LEMMA LoopEndsInv ==
  ASSUME IInv, NEW c \in Conn, LoopEnds(c)
  PROVE  IInv'
<1> DEFINE why == IF th[c].gen >= th[c].max THEN "budget" ELSE "room"
           t == Ends(c, 0, why)
<1>1. /\ Typed /\ th[c] \in Thread /\ eng[th[c].model] \in EngineState
      /\ th[c].pc = "loop" /\ ~GoesOn(c) /\ Step(c, t)
      /\ UNCHANGED <<main, freed, mu, eng, stops>>
  BY ThreadIs DEF LoopEnds, At
<1>2. /\ th[c].gen \in Nat /\ th[c].max \in Nat /\ Full \in Int
      /\ Len(eng[th[c].model].ctx) \in Nat
      /\ th[c].gen >= th[c].max \/ Len(eng[th[c].model].ctx) >= Full
  BY <1>1, CServerAssumption DEF GoesOn, Thread, EngineState, Pos, Full
<1>3. /\ why \in {"budget", "room"} /\ (why = "budget" => th[c].gen >= th[c].max)
      /\ why = "room" => th[c].gen < th[c].max /\ Len(eng[th[c].model].ctx) >= Full
  BY <1>2
<1>4. why \in Reasons /\ 0 \in Verdicts
  BY DEF Reasons, Verdicts
<1> HIDE DEF why
<1>5. /\ t \in Thread /\ t.pc = "classify" /\ t.model = th[c].model /\ t.gen = th[c].gen
      /\ t.max = th[c].max /\ t.code = th[c].code /\ t.fin = 0 /\ t.why = why
  BY <1>1, <1>4, EndsIs
<1> HIDE DEF t
<1>6. Effect(c, {})
  BY <1>1, NoEffect
<1> QED BY <1>1, <1>3, <1>5, <1>6, EndsInv

LEMMA ScanInv ==
  ASSUME IInv, NEW c \in Conn, Scan(c)
  PROVE  IInv'
<1>1. /\ Typed /\ FilledOnce /\ th[c] \in Thread /\ eng[th[c].model] \in EngineState
      /\ th[c].pc = "scan" /\ stops \in Seq(Word)
      /\ Counted(c) /\ Reported(c) /\ Ending(c) /\ Stops(c)
      /\ UNCHANGED <<main, freed, mu, stops>>
  BY ThreadIs DEF Scan, At
<1>2. th[c].gen < th[c].max
  BY <1>1 DEF Reported
<1>3. ASSUME UseEngine(c, ReplayResults(eng[th[c].model], c, "close")),
             Step(c, [Ends(c, 0, "cut") EXCEPT !.text = {}])
      PROVE  IInv'
  <2> DEFINE d == Ends(c, 0, "cut")
             t == [d EXCEPT !.text = {}]
  <2>1. "close" \in Kind /\ 0 \in Verdicts /\ "cut" \in Reasons
    BY DEF Kind, Verdicts, Reasons
  <2>2. Effect(c, {"close"})
    BY <1>1, <1>3, <2>1, ReplayEffect
  <2>3. /\ d \in Thread /\ d.pc = "classify" /\ d.model = th[c].model /\ d.gen = th[c].gen
        /\ d.max = th[c].max /\ d.code = th[c].code /\ d.fin = 0 /\ d.why = "cut"
    BY <1>1, <2>1, EndsIs
  <2>4. Step(c, t)
    BY <1>3
  <2> HIDE DEF d
  <2>5. /\ t \in Thread /\ t.pc = d.pc /\ t.model = d.model /\ t.gen = d.gen
        /\ t.max = d.max /\ t.code = d.code /\ t.fin = d.fin /\ t.why = d.why
    BY <2>3 DEF Thread
  <2> HIDE DEF t
  <2> QED BY <1>1, <1>2, <2>2, <2>3, <2>4, <2>5, EndsInv
<1>4. ASSUME ~Hit(c), UNCHANGED eng, Step(c, [th[c] EXCEPT !.pc = "feed"])
      PROVE  IInv'
  <2> DEFINE t == [th[c] EXCEPT !.pc = "feed"]
  <2>1. /\ t \in Thread /\ t.pc = "feed" /\ t.model = th[c].model /\ t.gen = th[c].gen
        /\ t.max = th[c].max /\ t.code = th[c].code /\ t.fin = th[c].fin
        /\ t.why = th[c].why /\ t.text = th[c].text
    <3>1. "feed" \in Pc
      BY DEF Pc
    <3> QED BY <1>1, <3>1 DEF Thread
  <2>2. Step(c, t)
    BY <1>4
  <2> HIDE DEF t
  <2>3. th'[c] = t /\ Effect(c, {})
    BY <1>1, <1>4, <2>1, <2>2, StepThread, NoEffect
  <2>4. Counted(c)'
    BY <1>1, <2>1, <2>3, CountKept
  <2>5. Reported(c)' /\ Ending(c)'
    BY <1>1, <1>2, <2>1, <2>3 DEF Reported, Ending, Before
  <2>6. Stops(c)'
    <3>1. ASSUME OneModel
          PROVE  Listed(Family[t.model]) /\ Family[t.model] \notin t.text
      <4>1. Listed(Family[th[c].model])
        BY <1>1, <3>1 DEF Stops
      <4> QED BY <1>4, <2>1, <4>1 DEF Listed, Hit
    <3> QED BY <1>1, <2>1, <2>3, <3>1 DEF Stops, Listed
  <2>7. FilledOnce' /\ stops' \in Seq(Word)
    BY <1>1 DEF FilledOnce
  <2>8. th[c].pc \in Inside /\ t.pc \in Inside \ Before
    BY <1>1, <2>1 DEF Inside, Before
  <2> QED BY <1>1, <2>1, <2>2, <2>3, <2>4, <2>5, <2>6, <2>7, <2>8, InsideInv
<1> QED BY <1>3, <1>4 DEF Scan

(* One more token in the answer.                                           *)
Fed(t) == [t EXCEPT !.pc = "loop", !.gen = t.gen + 1]

LEMMA FedThread ==
  ASSUME NEW t \in Thread
  PROVE  /\ Fed(t) \in Thread /\ Fed(t).pc = "loop" /\ Fed(t).model = t.model
         /\ Fed(t).gen = t.gen + 1 /\ Fed(t).max = t.max /\ Fed(t).code = t.code
         /\ Fed(t).fin = t.fin /\ Fed(t).why = t.why
<1> DEFINE v == [t EXCEPT !.pc = "loop"]
<1>1. "loop" \in Pc /\ t.gen + 1 \in Nat
  BY DEF Pc, Thread
<1>2. /\ v \in Thread /\ v.pc = "loop" /\ v.model = t.model /\ v.gen = t.gen
      /\ v.max = t.max /\ v.code = t.code /\ v.fin = t.fin /\ v.why = t.why
  BY <1>1 DEF Thread
<1>3. Fed(t) = [v EXCEPT !.gen = t.gen + 1]
  BY DEF Fed
<1> HIDE DEF v
<1> QED BY <1>1, <1>2, <1>3 DEF Thread

LEMMA FeedInv ==
  ASSUME IInv, NEW c \in Conn, Feed(c)
  PROVE  IInv'
<1>1. Typed /\ th[c] \in Thread /\ th[c].model \in Model
  BY ThreadIs
<1>2. eng[th[c].model] \in EngineState
  BY ThreadIs
<1>3. Counted(c) /\ Reported(c) /\ Ending(c)
  BY ThreadIs
<1>4. Stops(c) /\ FilledOnce /\ stops \in Seq(Word)
  BY ThreadIs
<1>5. th[c].pc = "feed"
  BY DEF Feed, At
<1>6. UNCHANGED <<main, freed, mu, stops>>
  BY DEF Feed
<1>7. th[c].gen \in Nat /\ th[c].max \in Nat /\ th[c].gen < th[c].max
  BY <1>1, <1>3, <1>5 DEF Reported, Thread
<1>8. ASSUME UseEngine(c, ReplayResults(eng[th[c].model], c, "gen")), Step(c, Fed(th[c]))
      PROVE  IInv'
  <2> DEFINE t == Fed(th[c])
  <2>1. /\ t \in Thread /\ t.pc = "loop" /\ t.model = th[c].model /\ t.gen = th[c].gen + 1
        /\ t.max = th[c].max /\ t.code = th[c].code /\ t.fin = th[c].fin /\ t.why = th[c].why
    BY <1>1, FedThread
  <2>2. Step(c, t)
    BY <1>8
  <2> HIDE DEF t
  <2>3. th'[c] = t
    BY <1>1, <2>1, <2>2, StepThread
  <2>4. "gen" \in Kind
    BY DEF Kind
  <2>5. Effect(c, {"gen"})
    BY <1>1, <1>2, <1>8, <2>4, ReplayEffect
  <2>6. eng'[th[c].model].ctx = Append(eng[th[c].model].ctx, <<c, "gen">>)
    BY <1>1, <1>2, <1>8, <2>4, ReplayEffect
  <2>7. Counted(c)'
    <3>1. eng'[th[c].model] \in EngineState
      BY <1>1, <2>5 DEF Effect
    <3>2. Cardinality(Generated(eng'[th[c].model], c)) =
            Cardinality(Generated(eng[th[c].model], c)) + 1
      BY <1>2, <2>6, <3>1, GeneratedGrows
    <3> QED BY <1>3, <2>1, <2>3, <3>2 DEF Counted
  <2>8. Reported(c)' /\ Ending(c)'
    BY <1>3, <1>5, <1>7, <2>1, <2>3 DEF Reported, Ending, Before
  <2>9. Stops(c)' /\ FilledOnce' /\ stops' \in Seq(Word)
    BY <1>4, <1>5, <1>6, <2>1, <2>3 DEF Stops, Listed, FilledOnce
  <2>10. th[c].pc \in Inside /\ t.pc \in Inside \ Before
    BY <1>5, <2>1 DEF Inside, Before
  <2> QED BY <1>6, <2>1, <2>2, <2>5, <2>7, <2>8, <2>9, <2>10, InsideInv
<1>9. ASSUME UNCHANGED eng, Step(c, Ends(c, 4, "fault"))
      PROVE  IInv'
  <2> DEFINE t == Ends(c, 4, "fault")
  <2>1. 4 \in Verdicts /\ "fault" \in Reasons
    BY DEF Verdicts, Reasons
  <2>2. /\ t \in Thread /\ t.pc = "classify" /\ t.model = th[c].model /\ t.gen = th[c].gen
        /\ t.max = th[c].max /\ t.code = th[c].code /\ t.fin = 4 /\ t.why = "fault"
    BY <1>1, <2>1, EndsIs
  <2>3. Step(c, t) /\ Effect(c, {})
    BY <1>1, <1>2, <1>9, NoEffect
  <2> HIDE DEF t
  <2> QED BY <1>1, <1>4, <1>5, <1>6, <1>7, <2>2, <2>3, EndsInv
<1> QED BY <1>8, <1>9 DEF Feed, Fed

(* The reason on record and the verdict worked out from the engine agree.  *)
LEMMA ClassifyInv ==
  ASSUME IInv, NEW c \in Conn, Classify(c)
  PROVE  IInv'
<1> DEFINE fixed == Fixed(th[c], Pos(th[c].model))
           t == [th[c] EXCEPT !.pc = "unlock", !.code = 200, !.fin = fixed]
<1>1. /\ Typed /\ FilledOnce /\ th[c] \in Thread /\ eng[th[c].model] \in EngineState
      /\ th[c].pc = "classify" /\ stops \in Seq(Word)
      /\ Counted(c) /\ Reported(c) /\ Ending(c) /\ Stops(c)
      /\ Step(c, t) /\ UNCHANGED <<main, freed, mu, eng, stops>>
  BY ThreadIs DEF Classify, At
<1>2. /\ th[c].gen \in Nat /\ th[c].max \in Nat /\ Full \in Int /\ Pos(th[c].model) \in Nat
      /\ th[c].fin = IF th[c].why = "fault" THEN 4 ELSE 0
      /\ th[c].why \in Reasons \ {"none"}
      /\ th[c].why = "budget" => th[c].gen >= th[c].max
      /\ th[c].why \in {"room", "eos", "cut"} => th[c].gen < th[c].max
      /\ th[c].why = "room" => Pos(th[c].model) >= Full
  BY <1>1, CServerAssumption DEF Ending, Thread, EngineState, Pos, Full
<1>3. /\ fixed \in Verdicts
      /\ th[c].why = "budget" => fixed = 1
      /\ th[c].why = "room" => fixed = IF th[c].gen > 0 THEN 3 ELSE 0
      /\ th[c].why = "fault" => fixed = 4
      /\ th[c].why \in {"eos", "cut"} => fixed \in {0, 3}
  BY <1>2 DEF Fixed, Verdicts, Reasons
<1> HIDE DEF fixed
<1>4. /\ t \in Thread /\ t.pc = "unlock" /\ t.model = th[c].model /\ t.gen = th[c].gen
      /\ t.max = th[c].max /\ t.code = 200 /\ t.fin = fixed /\ t.why = th[c].why
  <2>1. "unlock" \in Pc /\ 200 \in Codes
    BY DEF Pc, Codes
  <2> QED BY <1>1, <1>3, <2>1 DEF Thread
<1> HIDE DEF t
<1>5. th'[c] = t /\ Effect(c, {})
  BY <1>1, <1>4, StepThread, NoEffect
<1>6. Counted(c)'
  BY <1>1, <1>4, <1>5, CountKept
<1>7. Reported(c)'
  <2>1. Verdict(t)
    BY <1>3, <1>4 DEF Verdict
  <2> QED BY <1>1, <1>4, <1>5, <2>1 DEF Reported, Before
<1>8. Ending(c)' /\ Stops(c)' /\ FilledOnce' /\ stops' \in Seq(Word)
  BY <1>1, <1>4, <1>5 DEF Ending, Stops, FilledOnce
<1>9. th[c].pc \in Inside /\ t.pc \in Inside \ Before
  BY <1>1, <1>4 DEF Inside, Before
<1> QED BY <1>1, <1>4, <1>5, <1>6, <1>7, <1>8, <1>9, InsideInv

LEMMA NextIInv == IInv /\ [Next]_vars => IInv'
<1> SUFFICES ASSUME IInv, [Next]_vars PROVE IInv'
  OBVIOUS
<1>1. ASSUME NEW c \in Conn, Accept(c) \/ ThreadStep(c) PROVE IInv'
  BY <1>1, AcceptInv, ParseInv, LockInv, PromptInv, ResetStopsInv, AddStopsInv, FirstInv,
     SampleInv, LoopEndsInv, ScanInv, FeedInv, ClassifyInv, UnlockInv DEF ThreadStep
<1>2. main \in {"serving", "freeing", "gone", "crashed"} /\ freed \subseteq Model
  BY DEF IInv, Typed
<1>3. CASE (\E c \in Conn : TouchFreed(c)) \/ Signal \/ ExitProcess \/ UNCHANGED vars
  BY <1>2, <1>3, MainInv DEF TouchFreed, Signal, ExitProcess, vars
<1>4. CASE \E m \in Model : FreeEngine(m)
  BY <1>2, <1>4, MainInv DEF FreeEngine
<1> QED BY <1>1, <1>3, <1>4 DEF Next

-----------------------------------------------------------------------------
(* What clients are promised.                                              *)

THEOREM Invariant == Spec => []IInv
BY InitIInv, NextIInv, PTL DEF Spec

(* The prompts and answers of a model's requests follow one another in its *)
(* context, in whatever order threads take the mutex, fail or are refused. *)
THEOREM RequestsDoNotMix == Spec => []RequestsContiguous
<1>1. IInv => RequestsContiguous
  BY DEF IInv
<1> QED BY <1>1, Invariant, PTL

(* completion_tokens counts the answer's tokens, the finish reason is the  *)
(* one the loop ended for, and with one model no answer runs over its stop *)
(* string.                                                                 *)
THEOREM ReportsFit == Spec => []ReportFits
<1>1. ASSUME IInv PROVE CServerTypeOK
  <2>1. ASSUME NEW c \in Conn PROVE th[c] \in Thread /\ th[c].gen <= th[c].max
    BY <1>1, ThreadIs DEF Reported
  <2>2. ASSUME NEW c \in Conn
        PROVE  /\ th[c].pc \in Pc /\ th[c].text \subseteq Word
               /\ th[c].gen \in 0 .. th[c].max /\ th[c].fin \in {0, 1, 3, 4}
               /\ th[c].code \in {0, 200, 400, 500}
    BY <2>1 DEF Thread, Verdicts, Codes
  <2>3. Typed
    BY <1>1 DEF IInv
  <2> QED BY <2>2, <2>3 DEF CServerTypeOK, Typed, EngineState
<1>2. ASSUME IInv PROVE CompletionCounted
  BY <1>2, ThreadIs DEF CompletionCounted, Counted
<1>3. ASSUME IInv PROVE VerdictFits
  BY <1>3, ThreadIs DEF VerdictFits, Reported, Verdict
<1>4. ASSUME IInv PROVE OwnStopsObeyed
  <2> SUFFICES ASSUME Cardinality(Model) = 1, NEW c \in Conn, th[c].pc = "feed"
               PROVE  Family[th[c].model] \notin th[c].text
    BY DEF OwnStopsObeyed
  <2>1. OneModel
    BY CServerAssumption, FS_Singleton DEF OneModel
  <2> QED BY <1>4, <2>1, ThreadIs DEF Stops
<1>5. IInv => ReportFits
  BY <1>1, <1>2, <1>3, <1>4 DEF ReportFits
<1> QED BY <1>5, Invariant, PTL

=============================================================================
