---------------------------- MODULE EngineProofs ----------------------------
(***************************************************************************)
(* What holds of Engine for every vocabulary, capacity, dispatch table and *)
(* set of callers.                                                         *)
(***************************************************************************)
EXTENDS Engine, TLAPS, SequenceTheorems

(* The part of the state the forward pass works on.                        *)
State == [pos : Nat, dpos : Nat, kv : [Row -> Cell], hid : Seq(Cell)]

(* A state the kernels may run from: the mirror agrees with the host, and  *)
(* every row the context occupies was written.                             *)
Sound(m) ==
  /\ m \in State
  /\ m.dpos = m.pos
  /\ \A i \in 1 .. m.pos : i <= MaxCtx => m.kv[i - 1] # None

(* The captured slots fit the settings they would be replayed under.       *)
SlotsOK ==
  /\ graphs \subseteq Graph /\ ready \in BOOLEAN /\ noGraph \in BOOLEAN
  /\ temp \in Temps \cup {0} /\ maskOn \in BOOLEAN /\ quant \in BOOLEAN
  /\ ReadyIffGraphs /\ GraphsMatchLaunchSet /\ GraphKeysUnique

(* The inductive invariant.                                                *)
IInv ==
  /\ Sound(Dev)
  /\ logits \in Seq(Cell) /\ pending \in Cell
  /\ SlotsOK

-----------------------------------------------------------------------------
(* Feeding tokens.                                                         *)

(* What attention reads is a sequence of rows.                             *)
LEMMA ViewIsSeq ==
  ASSUME NEW cache \in [Row -> Cell], NEW n \in Nat
  PROVE  View(cache, n) \in Seq(Cell)
<1>1. \A i \in 1 .. n : i <= MaxCtx => i - 1 \in Row
  BY EngineAssumption DEF Row
<1>2. \A i \in 1 .. n : (IF i <= MaxCtx THEN cache[i - 1] ELSE None) \in Cell
  BY <1>1 DEF Cell
<1> QED BY <1>2 DEF View

(* Feeding tokens from a sound state leaves a sound state, as many         *)
(* positions further on: the rows written and those already there cover    *)
(* the new context, even where the row index wraps.                        *)
LEMMA FeedAllSound ==
  ASSUME NEW m, Sound(m), NEW toks \in Seq(Token)
  PROVE  /\ Sound(FeedAll(m, toks))
         /\ FeedAll(m, toks).pos = m.pos + Len(toks)
<1> DEFINE off(s) == (s - m.dpos) % MaxCtx
           cache == [s \in Row |-> IF off(s) < Len(toks) THEN toks[off(s) + 1] ELSE m.kv[s]]
           f == FeedAll(m, toks)
<1>1. /\ m.pos \in Nat /\ m.dpos = m.pos /\ m.kv \in [Row -> Cell]
      /\ MaxCtx \in Nat \ {0} /\ Len(toks) \in Nat
  BY EngineAssumption DEF Sound, State
<1>2. \A s \in Row : off(s) \in 0 .. MaxCtx - 1
  BY <1>1 DEF Row
<1>3. \A s \in Row : off(s) < Len(toks) => toks[off(s) + 1] \in Token
  BY <1>1, <1>2
<1>4. cache \in [Row -> Cell]
  BY <1>1, <1>3 DEF Cell
<1>5. View(cache, m.dpos + Len(toks)) \in Seq(Cell)
  <2>1. m.dpos + Len(toks) \in Nat
    BY <1>1
  <2> HIDE DEF cache
  <2> QED BY <1>4, <2>1, ViewIsSeq
<1>6. f = [pos |-> m.pos + Len(toks), dpos |-> m.pos + Len(toks), kv |-> cache,
           hid |-> View(cache, m.dpos + Len(toks))]
  BY DEF FeedAll
<1>7. f \in State
  BY <1>1, <1>4, <1>5, <1>6 DEF State
<1>8. ASSUME NEW s \in Row, s < m.pos + Len(toks)
      PROVE  cache[s] # None
  <2>1. CASE off(s) < Len(toks)
    BY <2>1, <1>3, EngineAssumption
  <2>2. CASE ~(off(s) < Len(toks))
    <3>1. s < m.pos
      <4>1. SUFFICES ASSUME s >= m.pos PROVE FALSE
        BY <1>1 DEF Row
      <4>2. s - m.dpos \in 0 .. MaxCtx - 1
        BY <1>1, <4>1 DEF Row
      <4>3. off(s) = s - m.dpos
        BY <1>1, <4>2
      <4> QED BY <1>1, <1>8, <2>2, <4>3 DEF Row
    <3>2. m.kv[s] # None
      <4>1. s + 1 \in 1 .. m.pos /\ s + 1 <= MaxCtx /\ (s + 1) - 1 = s
        BY <1>1, <3>1 DEF Row
      <4> QED BY <4>1 DEF Sound
    <3> QED BY <2>2, <3>2
  <2> QED BY <2>1, <2>2
<1>9. ASSUME NEW i \in 1 .. f.pos, i <= MaxCtx
      PROVE  f.kv[i - 1] # None
  <2>1. i - 1 \in Row /\ i - 1 < m.pos + Len(toks)
    BY <1>1, <1>6, <1>9 DEF Row
  <2> HIDE DEF cache
  <2> QED BY <1>6, <1>8, <2>1
<1> HIDE DEF f
<1>10. f.dpos = f.pos /\ f.pos = m.pos + Len(toks)
  BY <1>6
<1> QED BY <1>7, <1>9, <1>10 DEF Sound, f

(* One token is a sequence of one.                                         *)
LEMMA AdvanceSound ==
  ASSUME NEW m, Sound(m), NEW t \in Token
  PROVE  Sound(Advance(m, t)) /\ Advance(m, t).pos = m.pos + 1
<1>1. <<t>> \in Seq(Token) /\ Len(<<t>>) = 1
  OBVIOUS
<1> QED BY <1>1, FeedAllSound DEF Advance

(* Flushing the pending token leaves a sound state.                        *)
LEMMA FlushedSound ==
  ASSUME Sound(Dev), pending \in Cell
  PROVE  Sound(Flushed)
<1>1. CASE Flushing
  <2>1. pending \in Token
    BY <1>1 DEF Flushing, Cell
  <2> QED BY <1>1, <2>1, AdvanceSound DEF Flushed
<1>2. CASE ~Flushing
  BY <1>2 DEF Flushed
<1> QED BY <1>1, <1>2

(* Copying the host position to the device changes nothing when they agree.*)
LEMMA SyncedSound ==
  ASSUME NEW m, Sound(m)
  PROVE  Sound(Synced(m)) /\ Synced(m).pos = m.pos
BY DEF Sound, State, Synced

(* However many chunks were fed before a refusal, the prefill ends sound.  *)
LEMMA PrefillResultsSound ==
  ASSUME NEW m, Sound(m), NEW toks \in Seq(Token), NEW r \in PrefillResults(m, toks)
  PROVE  Sound(r)
<1>1. CASE r = FeedAll(m, toks)
  BY <1>1, FeedAllSound
<1>2. CASE \E o \in Refusals(m, Len(toks)) :
             r = FeedAll(FeedAll(m, SubSeq(toks, 1, o)), toks)
  <2>1. PICK o \in Refusals(m, Len(toks)) :
               r = FeedAll(FeedAll(m, SubSeq(toks, 1, o)), toks)
    BY <1>2
  <2>2. o \in 0 .. Len(toks) - 1
    BY <2>1 DEF Refusals, ChunkStarts
  <2>3. SubSeq(toks, 1, o) \in Seq(Token)
    BY <2>2
  <2> QED BY <2>1, <2>3, FeedAllSound
<1> QED BY <1>1, <1>2 DEF PrefillResults

(* What a commit leaves in the variables is as sound as what it commits.   *)
LEMMA CommitSound ==
  ASSUME NEW m, Sound(m), Commit(m)
  PROVE  Sound(Dev)'
<1>1. Dev' = [pos |-> m.pos, dpos |-> m.dpos, kv |-> m.kv, hid |-> m.hid]
  BY DEF Dev, Commit
<1>2. Dev' \in State /\ Dev'.dpos = Dev'.pos
  BY <1>1 DEF Sound, State
<1>3. \A i \in 1 .. Dev'.pos : i <= MaxCtx => Dev'.kv[i - 1] # None
  BY <1>1 DEF Sound
<1>4. (Sound(Dev))' <=> Sound(Dev')
  BY DEF Sound, State, Dev
<1> QED BY <1>2, <1>3, <1>4 DEF Sound

-----------------------------------------------------------------------------
(* Graph slots.                                                            *)

LEMMA SlotsKept ==
  ASSUME SlotsOK, UNCHANGED <<graphVars, settings>>
  PROVE  SlotsOK'
BY DEF SlotsOK, graphVars, settings, Graph, ReadyIffGraphs, GraphsMatchLaunchSet,
       GraphKeysUnique, On

(* Once every slot is dropped, any settings fit.                           *)
LEMMA SlotsDropped ==
  ASSUME DropAll, noGraph' \in BOOLEAN, temp' \in Temps \cup {0},
         maskOn' \in BOOLEAN, quant' \in BOOLEAN
  PROVE  SlotsOK'
BY DEF SlotsOK, DropAll, Graph, ReadyIffGraphs, GraphsMatchLaunchSet, GraphKeysUnique

(* A capture bakes the settings in force, under a key no slot has.         *)
LEMMA SlotsAdded ==
  ASSUME SlotsOK, NEW p \in 0 .. MaxCtx, ~HasGraph(p), CaptureOk(p),
         UNCHANGED <<noGraph, settings>>
  PROVE  SlotsOK'
<1>1. Captured(p) \in Graph /\ Captured(p).key = Dispatch[p]
      /\ Captured(p).temp = temp /\ Captured(p).mask = maskOn
      /\ Captured(p).quant = quant
  BY DEF Captured, Graph, SlotsOK
<1>2. graphs' = graphs \cup {Captured(p)} /\ ready' = TRUE
  BY DEF CaptureOk
<1>3. noGraph' = noGraph /\ temp' = temp /\ maskOn' = maskOn /\ quant' = quant
  BY DEF settings
<1>4. graphs' \subseteq Graph
  BY <1>1, <1>2 DEF SlotsOK
<1>5. ReadyIffGraphs'
  BY <1>2 DEF ReadyIffGraphs
<1>6. GraphsMatchLaunchSet'
  BY <1>1, <1>2, <1>3 DEF SlotsOK, GraphsMatchLaunchSet
<1>7. GraphKeysUnique'
  <2>1. \A g \in graphs : g.key # Captured(p).key
    BY <1>1 DEF HasGraph
  <2> QED BY <1>2, <2>1 DEF SlotsOK, GraphKeysUnique
<1>8. Graph' = Graph
  BY DEF Graph
<1> QED BY <1>2, <1>3, <1>4, <1>5, <1>6, <1>7, <1>8 DEF SlotsOK

(* A failed capture keeps the slots.                                       *)
LEMMA SlotsSoft ==
  ASSUME SlotsOK, CaptureSoft, UNCHANGED <<noGraph, settings>>
  PROVE  SlotsOK'
BY SlotsKept DEF CaptureSoft, graphVars

LEMMA SlotsHard ==
  ASSUME SlotsOK, DropAll, noGraph' = TRUE, UNCHANGED settings
  PROVE  SlotsOK'
BY SlotsDropped DEF SlotsOK, settings

-----------------------------------------------------------------------------
(* The steps of IInv.                                                      *)

(* The engine as it was created, in either mode and storage format.        *)
LEMMA FreshIInv ==
  ASSUME pos = 0, dpos = 0, kv = [s \in Row |-> None], hid = <<>>, logits = <<>>,
         pending = None, graphs = {}, ready = FALSE, noGraph \in BOOLEAN,
         temp = 0, maskOn = FALSE, quant \in BOOLEAN
  PROVE  IInv
<1>1. Sound(Dev)
  <2>1. <<>> \in Seq(Cell) /\ [s \in Row |-> None] \in [Row -> Cell]
    BY DEF Cell
  <2>2. Dev = [pos |-> 0, dpos |-> 0, kv |-> [s \in Row |-> None], hid |-> <<>>]
    BY DEF Dev
  <2> QED BY <2>1, <2>2 DEF Sound, State
<1>2. logits \in Seq(Cell) /\ pending \in Cell
  BY DEF Cell
<1>3. SlotsOK
  BY DEF SlotsOK, ReadyIffGraphs, GraphsMatchLaunchSet, GraphKeysUnique
<1> QED BY <1>1, <1>2, <1>3 DEF IInv

LEMMA InitIInv == Init => IInv
BY FreshIInv, EngineAssumption DEF Init

LEMMA PrefillIInv ==
  ASSUME IInv, NEW p \in Seq(Token), Prefill(p)
  PROVE  IInv'
<1>2. Sound(Synced(Flushed))
  BY FlushedSound, SyncedSound DEF IInv
<1>3. PICK m \in PrefillResults(Synced(Flushed), p) : Commit(m)
  BY DEF Prefill
<1>4. Sound(Dev)'
  BY <1>2, <1>3, PrefillResultsSound, CommitSound
<1>5. logits' \in Seq(Cell) /\ pending' \in Cell
  BY DEF Prefill, IInv, Cell
<1>6. SlotsOK'
  BY SlotsKept DEF Prefill, IInv
<1> QED BY <1>4, <1>5, <1>6 DEF IInv

LEMMA NextEagerIInv == IInv /\ NextEager => IInv'
<1> SUFFICES ASSUME IInv, NextEager PROVE IInv'
  OBVIOUS
<1>1. PICK t \in Token : Commit(Advance(Dev, t))
  BY DEF NextEager
<1>2. Sound(Dev)'
  BY <1>1, AdvanceSound, CommitSound DEF IInv
<1>3. logits' \in Seq(Cell) /\ pending' \in Cell
  BY DEF NextEager, IInv, Sound, State, Dev
<1>4. SlotsOK'
  BY SlotsKept DEF NextEager, IInv
<1> QED BY <1>2, <1>3, <1>4 DEF IInv

LEMMA ReplayIInv ==
  ASSUME IInv, NEW t \in Token, Replay(t)
  PROVE  IInv'
<1> DEFINE m == Advance(Dev, t)
<1>1. Sound(m) /\ m.pos = pos + 1
  BY AdvanceSound DEF IInv, Dev
<1>2. dpos = pos
  BY DEF IInv, Sound, Dev
<1> HIDE DEF m
<1>3. Commit([m EXCEPT !.pos = pos + 1, !.dpos = dpos + 1]) /\ logits' = m.hid
      /\ pending' \in Token /\ UNCHANGED <<graphVars, settings>>
  BY DEF Replay, m
<1>4. [m EXCEPT !.pos = pos + 1, !.dpos = dpos + 1] = m
  BY <1>1, <1>2 DEF Sound, State
<1>5. Sound(Dev)'
  BY <1>1, <1>3, <1>4, CommitSound
<1>6. logits' \in Seq(Cell) /\ pending' \in Cell
  BY <1>1, <1>3 DEF Sound, State, Cell
<1> QED BY <1>3, <1>5, <1>6, SlotsKept DEF IInv

LEMMA NextReplayIInv == IInv /\ NextReplay => IInv'
BY ReplayIInv DEF NextReplay, IInv, Cell

LEMMA NextSampleIInv == IInv /\ NextSample => IInv'
<1> SUFFICES ASSUME IInv, NextSample PROVE IInv'
  OBVIOUS
<1> DEFINE m == IF pending = None THEN Dev ELSE Advance(Dev, pending)
<1>1. Sound(m) /\ m.pos \in 0 .. MaxCtx
  <2>1. Dev.pos = pos /\ pos \in Nat /\ pos + 1 <= MaxCtx /\ MaxCtx \in Nat
    BY EngineAssumption DEF IInv, Sound, State, Dev, NextSample
  <2>2. CASE pending = None
    BY <2>1, <2>2 DEF IInv
  <2>3. CASE pending # None
    <3>1. pending \in Token
      BY <2>3 DEF IInv, Cell
    <3>2. Sound(Advance(Dev, pending)) /\ Advance(Dev, pending).pos = pos + 1
      BY <2>1, <3>1, AdvanceSound DEF IInv
    <3> QED BY <2>1, <2>3, <3>2
  <2> QED BY <2>2, <2>3
<1>2. PICK t \in Token :
        /\ logits' = m.hid
        /\ \/ /\ Commit(m) /\ pending' = t
              /\ IF HasGraph(m.pos) THEN UNCHANGED <<graphs, ready>>
                                    ELSE CaptureOk(m.pos) \/ CaptureSoft
              /\ UNCHANGED noGraph
           \/ /\ ~HasGraph(m.pos) /\ CaptureHard
              /\ DropAll /\ noGraph' = TRUE /\ pending' = None
              /\ Commit(Advance(m, t))
  BY DEF NextSample
<1>3. UNCHANGED settings
  BY DEF NextSample
<1> HIDE DEF m
<1>4. logits' \in Seq(Cell) /\ pending' \in Cell
  BY <1>1, <1>2 DEF Sound, State, Cell
<1>5. Sound(Dev)'
  BY <1>1, <1>2, AdvanceSound, CommitSound
<1>6. SlotsOK'
  <2>1. CASE UNCHANGED <<graphs, ready, noGraph>>
    BY <1>3, <2>1, SlotsKept DEF IInv, graphVars
  <2>2. CASE ~HasGraph(m.pos) /\ CaptureOk(m.pos) /\ UNCHANGED noGraph
    BY <1>1, <1>3, <2>2, SlotsAdded DEF IInv
  <2>3. CASE CaptureSoft /\ UNCHANGED noGraph
    BY <1>3, <2>3, SlotsSoft DEF IInv
  <2>4. CASE DropAll /\ noGraph' = TRUE
    BY <1>3, <2>4, SlotsHard DEF IInv
  <2> QED BY <1>2, <2>1, <2>2, <2>3, <2>4
<1> QED BY <1>4, <1>5, <1>6 DEF IInv

LEMMA HostReplayIInv ==
  ASSUME IInv, NEW t \in Token, HostReplay(t)
  PROVE  IInv'
<1>1. CASE Replay(t)
  BY <1>1, ReplayIInv
<1>2. CASE /\ ~HasGraph(pos) /\ Commit(Advance(Dev, t)) /\ logits' = Advance(Dev, t).hid
           /\ \/ CaptureOk(pos) /\ pending' \in Token /\ UNCHANGED <<noGraph, settings>>
              \/ UNCHANGED <<pending, graphVars, settings>>
  <2>1. Sound(Advance(Dev, t))
    BY AdvanceSound DEF IInv
  <2>2. Sound(Dev)'
    BY <1>2, <2>1, CommitSound
  <2>3. logits' \in Seq(Cell) /\ pending' \in Cell
    BY <1>2, <2>1 DEF Sound, State, Cell, IInv
  <2>4. pos \in 0 .. MaxCtx
    BY EngineAssumption DEF HostReplay, IInv, Sound, State, Dev
  <2>5. SlotsOK'
    BY <1>2, <2>4, SlotsAdded, SlotsKept DEF IInv
  <2> QED BY <2>2, <2>3, <2>5 DEF IInv
<1> QED BY <1>1, <1>2 DEF HostReplay

(* Truncating to a position the context covers leaves a sound state.       *)
LEMMA MoveToSound ==
  ASSUME IInv, NEW p \in Nat, p <= pos, MoveTo(p), UNCHANGED <<kv, hid, logits>>
  PROVE  Sound(Dev)' /\ logits' \in Seq(Cell) /\ pending' \in Cell
<1> DEFINE m == [pos |-> p, dpos |-> p, kv |-> kv, hid |-> hid]
<1>1. Sound(m)
  BY DEF IInv, Sound, State, Dev
<1>2. Commit(m)
  BY DEF Commit, MoveTo
<1> HIDE DEF m
<1> QED BY <1>1, <1>2, CommitSound DEF IInv, MoveTo, Cell

LEMMA ResetIInv == IInv /\ Reset => IInv'
<1> SUFFICES ASSUME IInv, Reset PROVE IInv'
  OBVIOUS
<1>1. pos \in Nat /\ 0 <= pos
  BY DEF IInv, Sound, State, Dev
<1> QED BY <1>1, MoveToSound, SlotsKept DEF Reset, IInv

LEMMA RewindIInv ==
  ASSUME IInv, NEW p \in 0 .. MaxCtx, Rewind(p)
  PROVE  IInv'
<1> DEFINE q == IF p > pos THEN pos ELSE p
<1>1. q \in Nat /\ q <= pos
  BY EngineAssumption DEF IInv, Sound, State, Dev
<1> QED BY <1>1, MoveToSound, SlotsKept DEF Rewind, IInv

LEMMA RollbackIInv ==
  ASSUME IInv, NEW p \in 0 .. MaxCtx, Rollback(p)
  PROVE  IInv'
<1>1. p \in Nat /\ p <= pos
  BY EngineAssumption DEF Rollback
<1>2. Sound(Dev)' /\ logits' \in Seq(Cell) /\ pending' \in Cell
  BY <1>1, MoveToSound DEF Rollback
<1>3. SlotsOK'
  BY SlotsHard, SlotsKept DEF Rollback, IInv
<1> QED BY <1>2, <1>3 DEF IInv

(* A refused batch steps back to a position the context covers.            *)
LEMMA VerifySound ==
  ASSUME IInv, NEW c \in Seq(Token), Verify(c),
         Synced(Flushed).pos + Len(c) > MaxCtx => Len(c) <= Synced(Flushed).pos
  PROVE  IInv'
<1> DEFINE m == Synced(Flushed)
           back == Synced([m EXCEPT !.pos = m.pos - Len(c)])
           refused == m.pos + Len(c) > MaxCtx
<1>1. c \in Seq(Token) /\ Len(c) \in Nat /\ MaxCtx \in Nat /\ (refused => Len(c) <= m.pos)
  BY EngineAssumption
<1>2. Sound(m)
  BY FlushedSound, SyncedSound DEF IInv
<1>3. refused => Sound(back)
  <2> HIDE DEF m
  <2>1. SUFFICES ASSUME refused PROVE Sound(back)
    OBVIOUS
  <2>2. m.pos \in Nat /\ m.pos - Len(c) \in Nat /\ m.pos - Len(c) <= m.pos
    BY <1>1, <1>2, <2>1 DEF Sound, State
  <2>3. back = [pos |-> m.pos - Len(c), dpos |-> m.pos - Len(c), kv |-> m.kv,
                hid |-> m.hid]
    <3> DEFINE b == [m EXCEPT !.pos = m.pos - Len(c)]
    <3>1. b = [pos |-> m.pos - Len(c), dpos |-> m.dpos, kv |-> m.kv, hid |-> m.hid]
      BY <1>2 DEF Sound, State
    <3>2. back = [b EXCEPT !.dpos = b.pos]
      BY DEF Synced
    <3> QED BY <3>1, <3>2
  <2>4. back \in State /\ back.dpos = back.pos /\ back.kv = m.kv /\ back.pos <= m.pos
    BY <1>2, <2>2, <2>3 DEF Sound, State
  <2> HIDE DEF back
  <2>5. \A i \in 1 .. back.pos : i \in 1 .. m.pos
    BY <2>2, <2>4 DEF State
  <2> QED BY <1>2, <2>4, <2>5 DEF Sound
<1>4. Sound(FeedBatchDx(m, c))
  <2> HIDE DEF m
  <2>1. Sound(FeedAll(m, c))
    BY <1>1, <1>2, FeedAllSound
  <2> QED BY <1>2, <2>1 DEF FeedBatchDx, Sound, State
<1>5. PICK r : Sound(r) /\ Commit(r) /\ (logits' = r.hid \/ UNCHANGED logits)
  <2>1. CASE VerifyBatched(c) /\ ~refused
    BY <1>4, <2>1 DEF Verify
  <2>2. CASE VerifyBatched(c) /\ refused
    <3>1. Commit(FeedAll(back, c)) /\ logits' = FeedAll(back, c).hid
      BY <2>2 DEF Verify
    <3> HIDE DEF back, refused
    <3> QED BY <1>1, <1>3, <2>2, <3>1, FeedAllSound
  <2>3. CASE ~VerifyBatched(c)
    <3>1. Commit(FeedAll(m, c)) /\ logits' = FeedAll(m, c).hid
      BY <2>3 DEF Verify
    <3> HIDE DEF m
    <3> QED BY <1>1, <1>2, <3>1, FeedAllSound
  <2> QED BY <2>1, <2>2, <2>3
<1>6. Sound(Dev)' /\ logits' \in Seq(Cell)
  BY <1>5, CommitSound DEF Sound, State, IInv
<1>7. pending' \in Cell
  BY DEF Verify, IInv, Cell
<1>8. SlotsOK'
  BY SlotsKept DEF Verify, IInv
<1> QED BY <1>6, <1>7, <1>8 DEF IInv

(* A batch is refused only near the end of the cache, further on than the  *)
(* candidates are long.                                                    *)
LEMMA VerifyIInv ==
  ASSUME IInv, NEW c \in Drafts, Verify(c)
  PROVE  IInv'
<1>1. c \in Seq(Token) /\ Len(c) \in Nat /\ 2 * Len(c) <= MaxCtx /\ MaxCtx \in Nat
  BY EngineAssumption
<1>2. Synced(Flushed).pos \in Nat
  BY FlushedSound, SyncedSound DEF IInv, Sound, State
<1> QED BY <1>1, <1>2, VerifySound

LEMMA StepLogitsIInv ==
  ASSUME IInv, NEW t \in Token, StepLogits(t)
  PROVE  IInv'
<1>1. Sound(Advance(Flushed, t))
  BY FlushedSound, AdvanceSound DEF IInv
<1>2. Sound(Dev)' /\ logits' \in Seq(Cell)
  BY <1>1, CommitSound DEF StepLogits, Sound, State
<1>3. pending' \in Cell
  BY DEF StepLogits, IInv, Cell
<1>4. SlotsOK'
  BY SlotsKept DEF StepLogits, IInv
<1> QED BY <1>2, <1>3, <1>4 DEF IInv

(* A setting changes no data, and either drops the slots or leaves their   *)
(* launch set as it was.                                                   *)
LEMMA SettingsIInv ==
  ASSUME IInv, UNCHANGED <<pos, dpos, kv, hid, logits>>, pending' \in Cell, SlotsOK'
  PROVE  IInv'
BY DEF IInv, Sound, State, Dev

LEMMA SetSamplingIInv ==
  ASSUME IInv, NEW t \in Temps, SetSampling(t)
  PROVE  IInv'
<1>1. CASE LeaveGraphs
  BY <1>1, SlotsDropped, SettingsIInv DEF SetSampling, LeaveGraphs, IInv, SlotsOK, Cell
<1>2. CASE (graphs = {} \/ On(t) = On(temp)) /\ UNCHANGED <<pending, graphVars>>
  <2>1. SlotsOK'
    BY <1>2 DEF SetSampling, IInv, SlotsOK, graphVars, Graph, ReadyIffGraphs,
       GraphsMatchLaunchSet, GraphKeysUnique, On
  <2> QED BY <1>2, <2>1, SettingsIInv DEF SetSampling, IInv
<1> QED BY <1>1, <1>2 DEF SetSampling

LEMMA SetTokenMaskIInv ==
  ASSUME IInv, NEW b \in BOOLEAN, SetTokenMask(b)
  PROVE  IInv'
<1>1. SlotsOK'
  <2>1. CASE DropAll
    BY <2>1, SlotsDropped DEF SetTokenMask, IInv, SlotsOK
  <2>2. CASE (b = maskOn \/ graphs = {}) /\ UNCHANGED <<graphs, ready>>
    BY <2>2 DEF SetTokenMask, IInv, SlotsOK, Graph, ReadyIffGraphs,
       GraphsMatchLaunchSet, GraphKeysUnique, On
  <2> QED BY <2>1, <2>2 DEF SetTokenMask
<1> QED BY <1>1, SettingsIInv DEF SetTokenMask, IInv

LEMMA EnableQuantIInv ==
  ASSUME IInv, NEW b \in BOOLEAN, EnableQuant(b)
  PROVE  IInv'
<1>1. CASE LeaveGraphs
  BY <1>1, SlotsDropped, SettingsIInv DEF EnableQuant, LeaveGraphs, IInv, SlotsOK, Cell
<1>2. CASE graphs = {} /\ UNCHANGED <<pending, graphVars>>
  <2>1. SlotsOK'
    BY <1>2 DEF EnableQuant, IInv, SlotsOK, graphVars, Graph, ReadyIffGraphs,
       GraphsMatchLaunchSet, GraphKeysUnique, On
  <2> QED BY <1>2, <2>1, SettingsIInv DEF EnableQuant, IInv
<1> QED BY <1>1, <1>2 DEF EnableQuant

LEMMA StutterIInv == IInv /\ UNCHANGED vars => IInv'
<1> SUFFICES ASSUME IInv, UNCHANGED vars PROVE IInv'
  OBVIOUS
<1>1. SlotsOK'
  BY SlotsKept DEF vars, IInv, graphVars, settings
<1> QED BY <1>1, SettingsIInv DEF vars, IInv

LEMMA NextIInv == IInv /\ [Next]_vars => IInv'
<1> SUFFICES ASSUME IInv, [Next]_vars PROVE IInv'
  OBVIOUS
<1>1. CASE \E p \in Prompts : Prefill(p)
  BY <1>1, PrefillIInv, EngineAssumption
<1>2. CASE NextEager \/ NextReplay \/ NextSample
  BY <1>2, NextEagerIInv, NextReplayIInv, NextSampleIInv
<1>3. CASE \E t \in Token : HostReplay(t)
  BY <1>3, HostReplayIInv
<1>4. CASE Reset
  BY <1>4, ResetIInv
<1>5. CASE \E p \in 0 .. MaxCtx : Rewind(p)
  BY <1>5, RewindIInv
<1>6. CASE \E p \in 0 .. MaxCtx : Rollback(p)
  BY <1>6, RollbackIInv
<1>7. CASE \E c \in Drafts : Verify(c)
  BY <1>7, VerifyIInv
<1>8. CASE \E t \in Token : StepLogits(t)
  BY <1>8, StepLogitsIInv
<1>9. CASE \E t \in Temps : SetSampling(t)
  BY <1>9, SetSamplingIInv
<1>10. CASE \E b \in BOOLEAN : SetTokenMask(b)
  BY <1>10, SetTokenMaskIInv
<1>11. CASE \E b \in BOOLEAN : EnableQuant(b)
  BY <1>11, EnableQuantIInv
<1>12. CASE UNCHANGED vars
  BY <1>12, StutterIInv
<1> QED BY <1>1, <1>2, <1>3, <1>4, <1>5, <1>6, <1>7, <1>8, <1>9, <1>10, <1>11, <1>12
        DEF Next

-----------------------------------------------------------------------------
(* The theorems.                                                           *)

(* IInv holds of every reachable state.                                    *)
THEOREM Invariant == Spec => []IInv
<1>1. Init => IInv
  BY InitIInv
<1>2. IInv /\ [Next]_vars => IInv'
  BY NextIInv
<1> QED BY <1>1, <1>2, PTL DEF Spec

(* The engine's fields keep their types.                                   *)
THEOREM TypeCorrect == Spec => []TypeOK
<1>1. IInv => TypeOK
  BY DEF IInv, Sound, State, Dev, SlotsOK, TypeOK
<1> QED BY <1>1, Invariant, PTL

(* Every kernel launched between calls indexes by the host's position.     *)
THEOREM MirrorAgrees == Spec => []DeviceMirror
<1>1. IInv => DeviceMirror
  BY DEF IInv, Sound, Dev, DeviceMirror
<1> QED BY <1>1, Invariant, PTL

(* Attention never reads a row of the context that nothing was written to. *)
THEOREM ContextIsWritten == Spec => []ContextWritten
<1>1. IInv => ContextWritten
  BY DEF IInv, Sound, Dev, ContextWritten
<1> QED BY <1>1, Invariant, PTL

(* Slots are replayed only under the launch set they were captured with,   *)
(* one slot to a key, and graph_ready says whether there is one.           *)
THEOREM CoherentSlots == Spec => []SlotsCoherent
<1>1. IInv => SlotsCoherent
  BY DEF IInv, SlotsOK, SlotsCoherent
<1> QED BY <1>1, Invariant, PTL

(* Where no caller drives replay itself, eager mode holds nothing back: no *)
(* slot and no pending token, so nothing sampled goes unfed.               *)
THEOREM EagerIsEmpty ==
  ASSUME "replay" \notin Api
  PROVE  Spec => []EagerHoldsNothing
<1> DEFINE J == IInv /\ EagerHoldsNothing
<1>1. Init => J
  BY InitIInv DEF Init, EagerHoldsNothing
<1>2. J /\ [Next]_vars => J'
  <2> SUFFICES ASSUME J, [Next]_vars PROVE EagerHoldsNothing'
    BY NextIInv
  <2>1. CASE Next
    BY <2>1 DEF Next, Uses, EagerHoldsNothing, Prefill, NextEager, NextReplay,
       NextSample, Replay, Reset, Rewind, Rollback, Verify, StepLogits, SetSampling,
       SetTokenMask, EnableQuant, LeaveGraphs, DropAll, MoveTo, graphVars, Flushing,
       IInv, SlotsOK, ReadyIffGraphs
  <2>2. CASE UNCHANGED vars
    BY <2>2 DEF vars, EagerHoldsNothing
  <2> QED BY <2>1, <2>2
<1>3. J => EagerHoldsNothing
  OBVIOUS
<1> QED BY <1>1, <1>2, <1>3, PTL DEF Spec

-----------------------------------------------------------------------------
(* What a prefill does to the tokens the engine holds.                     *)

(* A remainder below zero wraps once.                                      *)
LEMMA WrapsOnce ==
  ASSUME NEW x \in Int, NEW k \in Nat \ {0}, x + k \in 0 .. k - 1
  PROVE  x % k = x + k
<1>1. x = k * (x \div k) + (x % k) /\ x % k \in 0 .. k - 1 /\ x \div k \in Int
  OBVIOUS
<1> DEFINE q == x \div k
<1>2. x = k * q + (x % k) /\ q \in Int
  BY <1>1
<1> HIDE DEF q
<1>3. q = -1
  <2>1. k * q < 0
    BY <1>1, <1>2
  <2>2. q < 0
    BY <1>2, <2>1
  <2>3. k * (q + 2) > 0
    BY <1>1, <1>2
  <2>4. q + 2 > 0
    BY <1>2, <2>3
  <2> QED BY <1>2, <2>2, <2>4
<1> QED BY <1>1, <1>2, <1>3

(* What attention reads for n positions is n long.                         *)
LEMMA ViewLen ==
  ASSUME NEW cache \in [Row -> Cell], NEW n \in Nat
  PROVE  View(cache, n) \in Seq(Cell) /\ Len(View(cache, n)) = n
<1>1. View(cache, n) \in Seq(Cell)
  BY ViewIsSeq
<1>2. DOMAIN View(cache, n) = 1 .. n
  BY DEF View
<1>3. DOMAIN View(cache, n) = 1 .. Len(View(cache, n)) /\ Len(View(cache, n)) \in Nat
  BY <1>1, LenProperties
<1> HIDE DEF View
<1> QED BY <1>1, <1>2, <1>3

(* Tokens fed within the capacity follow the context, which stays as it was*)
LEMMA FedView ==
  ASSUME NEW m, Sound(m), NEW toks \in Seq(Token), m.pos + Len(toks) <= MaxCtx
  PROVE  View(FeedAll(m, toks).kv, FeedAll(m, toks).pos) = View(m.kv, m.pos) \o toks
<1> DEFINE off(s) == (s - m.dpos) % MaxCtx
           cache == [s \in Row |-> IF off(s) < Len(toks) THEN toks[off(s) + 1] ELSE m.kv[s]]
           n == m.pos + Len(toks)
           old == View(m.kv, m.pos)
<1>1. /\ m.pos \in Nat /\ m.dpos = m.pos /\ m.kv \in [Row -> Cell]
      /\ MaxCtx \in Nat \ {0} /\ Len(toks) \in Nat /\ n \in Nat
  BY EngineAssumption DEF Sound, State
<1>2. FeedAll(m, toks).kv = cache /\ FeedAll(m, toks).pos = n
  BY DEF FeedAll
<1>3. \A s \in Row : s < m.pos => cache[s] = m.kv[s]
  <2> SUFFICES ASSUME NEW s \in Row, s < m.pos PROVE cache[s] = m.kv[s]
    OBVIOUS
  <2>1. (s - m.pos) + MaxCtx \in 0 .. MaxCtx - 1 /\ (s - m.pos) + MaxCtx >= Len(toks)
    BY <1>1 DEF Row
  <2>2. off(s) = (s - m.pos) + MaxCtx
    BY <1>1, <2>1, WrapsOnce DEF Row
  <2> QED BY <1>1, <2>1, <2>2 DEF Row
<1>4. \A s \in Row : m.pos <= s /\ s < n => cache[s] = toks[(s - m.pos) + 1]
  <2> SUFFICES ASSUME NEW s \in Row, m.pos <= s, s < n PROVE cache[s] = toks[(s - m.pos) + 1]
    OBVIOUS
  <2>1. s - m.dpos \in 0 .. MaxCtx - 1
    BY <1>1 DEF Row
  <2>2. off(s) = s - m.pos
    BY <1>1, <2>1
  <2>3. off(s) < Len(toks)
    BY <1>1, <2>2 DEF Row
  <2>4. cache[s] = toks[off(s) + 1]
    BY <2>3
  <2> QED BY <2>2, <2>4
<1>5. cache \in [Row -> Cell]
  <2>1. \A s \in Row : off(s) \in 0 .. MaxCtx - 1
    BY <1>1 DEF Row
  <2>2. \A s \in Row : off(s) < Len(toks) => toks[off(s) + 1] \in Token
    BY <1>1, <2>1
  <2> QED BY <1>1, <2>2 DEF Cell
<1> HIDE DEF cache
<1>6. old \in Seq(Cell) /\ Len(old) = m.pos
  BY <1>1, ViewLen
<1>7. View(cache, n) \in Seq(Cell) /\ Len(View(cache, n)) = n
  <2>1. n \in Nat
    BY <1>1
  <2> HIDE DEF n
  <2> QED BY <1>5, <2>1, ViewLen
<1>8. \A i \in 1 .. n : View(cache, n)[i] = cache[i - 1] /\ i - 1 \in Row
  BY <1>1 DEF View, Row
<1>9. \A i \in 1 .. m.pos : old[i] = m.kv[i - 1]
  BY <1>1 DEF View
<1>10. toks \in Seq(Cell)
  BY DEF Cell
<1>11. /\ old \o toks \in Seq(Cell) /\ Len(old \o toks) = n
       /\ \A i \in 1 .. n : (old \o toks)[i] = IF i <= m.pos THEN old[i] ELSE toks[i - m.pos]
  BY <1>1, <1>6, <1>10
<1>12. ASSUME NEW i \in 1 .. n PROVE View(cache, n)[i] = (old \o toks)[i]
  <2>1. CASE i <= m.pos
    <3>1. View(cache, n)[i] = m.kv[i - 1]
      BY <1>1, <1>3, <1>8, <2>1
    <3> QED BY <1>1, <1>9, <1>11, <2>1, <3>1
  <2>2. CASE i > m.pos
    <3>1. i - 1 \in Row /\ m.pos <= i - 1 /\ i - 1 < n /\ ((i - 1) - m.pos) + 1 = i - m.pos
      BY <1>1, <1>8, <2>2
    <3>2. cache[i - 1] = toks[i - m.pos]
      BY <1>4, <3>1
    <3> QED BY <1>1, <1>8, <1>11, <2>2, <3>2
  <2>3. i <= m.pos \/ i > m.pos
    BY <1>1
  <2> QED BY <2>1, <2>2, <2>3
<1> HIDE DEF old
<1>13. View(cache, n) = old \o toks
  BY <1>1, <1>7, <1>11, <1>12, SeqEqual
<1> QED BY <1>2, <1>13 DEF old

(* After the flush the context is the transcript.                          *)
LEMMA FlushedView ==
  ASSUME IInv, ReturnedInSight, Len(Transcript) <= MaxCtx
  PROVE  /\ Sound(Flushed) /\ Flushed.pos = Len(Transcript)
         /\ View(Flushed.kv, Flushed.pos) = Transcript
<1>1. Sound(Dev) /\ pending \in Cell /\ pos \in Nat /\ kv \in [Row -> Cell]
  BY DEF IInv, Sound, State, Dev
<1>2. Context \in Seq(Cell) /\ Len(Context) = pos
  BY <1>1, ViewLen DEF Context
<1>3. CASE Flushing
  <2>1. pending \in Token /\ Flushed = FeedAll(Dev, <<pending>>)
    BY <1>1, <1>3 DEF Flushing, Flushed, Advance, Cell
  <2>2. Transcript = Context \o <<pending>>
    BY <1>3 DEF Flushing, Transcript
  <2>3. <<pending>> \in Seq(Token) /\ Len(<<pending>>) = 1 /\ <<pending>> \in Seq(Cell)
    BY <2>1 DEF Cell
  <2>4. Len(Transcript) = pos + 1
    BY <1>1, <1>2, <2>2, <2>3
  <2>5. Dev.pos = pos /\ Dev.kv = kv
    BY DEF Dev
  <2>6. View(Flushed.kv, Flushed.pos) = Context \o <<pending>>
    BY <1>1, <2>1, <2>3, <2>4, <2>5, FedView DEF Context
  <2>7. Sound(Flushed) /\ Flushed.pos = pos + 1
    BY <1>1, <2>1, <2>3, <2>5, FeedAllSound
  <2> QED BY <2>2, <2>4, <2>6, <2>7
<1>4. CASE ~Flushing
  <2>1. pending = None
    BY <1>4 DEF Flushing, ReturnedInSight, IInv, SlotsOK, ReadyIffGraphs
  <2>2. Flushed = Dev
    BY <1>4 DEF Flushed
  <2>3. Transcript = Context \o <<>>
    BY <2>1 DEF Transcript
  <2>4. Transcript = Context
    BY <1>2, <2>3
  <2> QED BY <1>1, <1>2, <2>2, <2>4 DEF Context, Dev
<1> QED BY <1>3, <1>4

(* A prompt that fits is appended to everything the engine has returned,   *)
(* whatever was truncated, refed or captured before.                       *)
THEOREM PromptsAppend == Spec => PrefillAppends
<1>1. ASSUME IInv, NEW p \in Prompts, Prefill(p), Refusals(Synced(Flushed), Len(p)) = {},
             ReturnedInSight, Len(Transcript) + Len(p) <= MaxCtx
      PROVE  Transcript' = Transcript \o p
  <2> DEFINE m == Synced(Flushed)
  <2>1. p \in Seq(Token) /\ Len(p) \in Nat
    BY EngineAssumption
  <2>2. Len(Transcript) \in Nat /\ Transcript \in Seq(Cell)
    <3>1. pending \in Cell /\ pos \in Nat /\ kv \in [Row -> Cell]
      BY <1>1 DEF IInv, Sound, State, Dev
    <3>2. Context \in Seq(Cell)
      BY <3>1, ViewIsSeq DEF Context
    <3> QED BY <3>1, <3>2 DEF Transcript
  <2>3. Len(Transcript) <= MaxCtx
    BY <1>1, <2>1, <2>2, EngineAssumption
  <2>4. /\ Sound(m) /\ m.pos = Len(Transcript) /\ View(m.kv, m.pos) = Transcript
    <3>1. /\ Sound(Flushed) /\ Flushed.pos = Len(Transcript)
          /\ View(Flushed.kv, Flushed.pos) = Transcript
      BY <1>1, <2>3, FlushedView
    <3>2. m.kv = Flushed.kv
      BY <3>1 DEF Synced, Sound, State
    <3> QED BY <3>1, <3>2, SyncedSound
  <2> HIDE DEF m
  <2>5. PrefillResults(m, p) \subseteq {FeedAll(m, p)}
    BY <1>1 DEF PrefillResults, m
  <2>6. Commit(FeedAll(m, p))
    BY <1>1, <2>5 DEF Prefill, m
  <2>7. kv' = FeedAll(m, p).kv /\ pos' = FeedAll(m, p).pos
    BY <2>6 DEF Commit
  <2>8. View(kv', pos') = Transcript \o p
    BY <1>1, <2>1, <2>4, <2>7, FedView
  <2>9. pending' = None
    BY <1>1 DEF Prefill, Flushing, ReturnedInSight, IInv, SlotsOK, ReadyIffGraphs
  <2>10. Transcript' = View(kv', pos') \o <<>>
    BY <2>9 DEF Transcript, Context
  <2>11. Transcript \o p \in Seq(Cell)
    <3>1. p \in Seq(Cell)
      BY <2>1 DEF Cell
    <3> QED BY <2>2, <3>1
  <2> QED BY <2>8, <2>10, <2>11
<1>2. IInv /\ [Next]_vars =>
        [\A p \in Prompts :
           /\ Prefill(p) /\ Refusals(Synced(Flushed), Len(p)) = {}
           /\ ReturnedInSight /\ Len(Transcript) + Len(p) <= MaxCtx
           => Transcript' = Transcript \o p]_vars
  BY <1>1
<1> QED BY <1>2, Invariant, PTL DEF Spec, PrefillAppends

-----------------------------------------------------------------------------
(* The tokens the engine holds.                                            *)

Held(cache, n, t) == View(cache, n) \o (IF t = None THEN <<>> ELSE <<t>>)

LEMMA HeldIs ==
  ASSUME NEW cache \in [Row -> Cell], NEW n \in Nat, NEW t \in Cell
  PROVE  /\ View(cache, n) \in Seq(Cell) /\ Len(View(cache, n)) = n
         /\ Held(cache, n, t) \in Seq(Cell)
         /\ t = None => Held(cache, n, t) = View(cache, n)
         /\ t # None => t \in Token /\ Held(cache, n, t) = Append(View(cache, n), t)
         /\ Len(Held(cache, n, t)) = IF t = None THEN n ELSE n + 1
<1> DEFINE v == View(cache, n)
<1>1. v \in Seq(Cell) /\ Len(v) = n
  BY ViewLen
<1> HIDE DEF v
<1>2. CASE t = None
  <2>1. v \o <<>> = v
    BY <1>1
  <2> QED BY <1>1, <1>2, <2>1 DEF Held, v
<1>3. CASE t # None
  <2>1. t \in Token
    BY <1>3 DEF Cell
  <2>2. Append(v, t) = v \o <<t>>
    BY <1>1, AppendIsConcat
  <2>3. Append(v, t) \in Seq(Cell) /\ Len(Append(v, t)) = n + 1
    BY <1>1
  <2> QED BY <1>1, <1>3, <2>1, <2>2, <2>3 DEF Held, v
<1> QED BY <1>2, <1>3

LEMMA TranscriptHeld ==
  /\ Transcript = Held(kv, pos, pending) /\ Context = View(kv, pos)
  /\ Transcript' = Held(kv', pos', pending') /\ Context' = View(kv', pos')
BY DEF Transcript, Context, Held

LEMMA EngineTypes ==
  ASSUME IInv
  PROVE  /\ kv \in [Row -> Cell] /\ pos \in Nat /\ dpos = pos /\ pending \in Cell
         /\ hid \in Seq(Cell) /\ logits \in Seq(Cell) /\ Sound(Dev)
         /\ Dev.kv = kv /\ Dev.pos = pos /\ Dev.hid = hid
BY DEF IInv, Sound, State, Dev

(* Fed within the capacity, a token follows the context, and the hidden    *)
(* state has seen all of it.                                               *)
LEMMA AdvanceView ==
  ASSUME NEW m, Sound(m), NEW t \in Token, m.pos + 1 <= MaxCtx
  PROVE  LET f == Advance(m, t)
         IN /\ Sound(f) /\ f.pos = m.pos + 1 /\ f.hid = View(f.kv, f.pos)
            /\ View(f.kv, f.pos) = Append(View(m.kv, m.pos), t)
<1> DEFINE f == Advance(m, t)
<1>1. <<t>> \in Seq(Token) /\ Len(<<t>>) = 1 /\ f = FeedAll(m, <<t>>)
  BY DEF Advance
<1>2. Sound(f) /\ f.pos = m.pos + 1
  BY AdvanceSound
<1>3. View(f.kv, f.pos) = View(m.kv, m.pos) \o <<t>>
  BY <1>1, FedView
<1>4. View(m.kv, m.pos) \in Seq(Cell) /\ t \in Cell
  BY ViewIsSeq DEF Sound, State, Cell
<1>5. f.hid = View(f.kv, f.pos)
  BY <1>1 DEF FeedAll, Sound
<1> HIDE DEF f
<1>6. View(m.kv, m.pos) \o <<t>> = Append(View(m.kv, m.pos), t)
  BY <1>4, AppendIsConcat
<1> QED BY <1>2, <1>3, <1>5, <1>6 DEF f

(* Every chunk of a prompt that fits the context fits the scratch arena:   *)
(* qwen2_engine_init sizes it for 512 rows, or max_ctx if that is less, and*)
(* a chunk is 512 tokens unless TT_CUBLAS_FP16 asks for longer ones.       *)
ScratchFits == Batched => Chunk <= ArenaRows \/ MaxCtx <= ArenaRows

(* A prompt fed to an empty engine is all it holds.                        *)
LEMMA PrefillEmpty ==
  ASSUME IInv, ScratchFits, pos = 0, pending = None, NEW p \in Prompts, Prefill(p)
  PROVE  /\ Transcript' = p /\ hid' = Context' /\ pos' = Len(p) /\ pending' = None
         /\ Len(p) \in Nat /\ Len(p) <= MaxCtx
         /\ UNCHANGED <<logits, graphVars, settings>>
<1> DEFINE m == Synced(Flushed)
           f == FeedAll(m, p)
<1>1. p \in Seq(Token) /\ Len(p) \in Nat /\ Len(p) <= MaxCtx
  BY EngineAssumption DEF Prefill
<1>2. Flushed = Dev /\ pending' = None /\ UNCHANGED <<logits, graphVars, settings>>
  BY DEF Flushing, Flushed, Prefill
<1>3. Sound(m) /\ m.pos = 0 /\ m.kv = kv
  BY <1>2, EngineTypes, SyncedSound DEF Synced, Dev
<1> HIDE DEF m
<1>4. ASSUME NEW o \in ChunkStarts(Len(p))
      PROVE  Batched => ~Overflows(m, Len(p), o) /\ ~NoScratch(Len(p), o)
  <2>1. /\ o \in Nat /\ o < Len(p) /\ Chunk \in Nat \ {0} /\ ArenaRows \in Nat
        /\ MaxCtx \in Nat
    BY <1>1, EngineAssumption DEF ChunkStarts
  <2>2. /\ ChunkLen(Len(p), o) <= Chunk /\ ChunkLen(Len(p), o) <= Len(p)
        /\ o + ChunkLen(Len(p), o) <= Len(p) /\ ChunkLen(Len(p), o) \in Nat
    BY <1>1, <2>1 DEF ChunkLen
  <2>3. ~Overflows(m, Len(p), o)
    BY <1>1, <1>3, <2>1, <2>2 DEF Overflows
  <2>4. Batched => ChunkLen(Len(p), o) <= ArenaRows
    BY <1>1, <2>1, <2>2 DEF ScratchFits
  <2> QED BY <2>1, <2>2, <2>3, <2>4 DEF NoScratch
<1>5. PrefillResults(m, p) \subseteq {f}
  BY <1>4 DEF PrefillResults, Refusals
<1>6. Commit(f)
  BY <1>5 DEF Prefill, m
<1>7. Sound(f) /\ f.pos = Len(p)
  BY <1>1, <1>3, FeedAllSound
<1>8. View(f.kv, f.pos) = View(m.kv, 0) \o p
  <2>1. m.pos + Len(p) <= MaxCtx
    BY <1>1, <1>3
  <2>2. View(f.kv, f.pos) = View(m.kv, m.pos) \o p
    BY <1>1, <1>3, <2>1, FedView
  <2> QED BY <1>3, <2>2
<1>9. View(m.kv, 0) \o p = p
  <2>1. View(m.kv, 0) \in Seq(Cell) /\ Len(View(m.kv, 0)) = 0
    BY <1>3, ViewLen DEF Sound, State
  <2>2. View(m.kv, 0) = <<>>
    BY <2>1, EmptySeq
  <2> QED BY <1>1, <2>2, ConcatEmptySeq
<1>10. f.hid = View(f.kv, f.pos)
  BY <1>3 DEF FeedAll, Sound
<1> HIDE DEF f
<1>11. pos' = Len(p) /\ View(kv', pos') = p /\ hid' = View(kv', pos') /\ kv' \in [Row -> Cell]
  BY <1>6, <1>7, <1>8, <1>9, <1>10 DEF Commit, Sound, State
<1>12. Transcript' = p
  BY <1>1, <1>2, <1>11, HeldIs, TranscriptHeld DEF Cell
<1> QED BY <1>1, <1>2, <1>11, <1>12, TranscriptHeld

(* A step that leaves the position, the rows and the pending token leaves  *)
(* what the engine holds.                                                  *)
LEMMA HoldingKept ==
  ASSUME UNCHANGED <<pos, kv, pending>>
  PROVE  Transcript' = Transcript /\ Context' = Context
BY DEF Transcript, Context


-----------------------------------------------------------------------------
(* What a prefill adds to what was there.                                  *)

(* The hidden state is that of the last token fed.                         *)
LEMMA FedHidden ==
  ASSUME NEW m, Sound(m), NEW toks \in Seq(Token)
  PROVE  FeedAll(m, toks).hid = View(FeedAll(m, toks).kv, FeedAll(m, toks).pos)
BY DEF FeedAll, Sound

(* However it was fed, and wherever it wrapped.                            *)
LEMMA PrefillHidden ==
  ASSUME IInv, NEW p \in Seq(Token), Prefill(p)
  PROVE  hid' = Context' /\ pos' \in Nat /\ pos' >= IF Flushing THEN pos + 1 ELSE pos
<1> DEFINE m == Synced(Flushed)
<1>1. Sound(m) /\ m.pos \in Nat /\ m.pos = IF Flushing THEN pos + 1 ELSE pos
  <2>1. Sound(Flushed) /\ Flushed.pos \in Nat
    BY FlushedSound DEF IInv, Sound, State
  <2>2. Flushed.pos = IF Flushing THEN pos + 1 ELSE pos
    <3>1. CASE Flushing
      <4>1. pending \in Token /\ Sound(Dev) /\ Dev.pos = pos /\ pos \in Nat
        BY <3>1, EngineTypes DEF Flushing, Cell
      <4>2. Advance(Dev, pending).pos = pos + 1
        BY <4>1, AdvanceSound
      <4> QED BY <3>1, <4>1, <4>2 DEF Flushed
    <3>2. CASE ~Flushing
      BY <3>2, EngineTypes DEF Flushed
    <3> QED BY <3>1, <3>2
  <2> QED BY <2>1, <2>2, SyncedSound
<1>2. PICK r \in PrefillResults(m, p) : Commit(r)
  BY DEF Prefill
<1> HIDE DEF m
<1>3. r.hid = View(r.kv, r.pos) /\ r.pos \in Nat /\ r.pos >= m.pos
  <2>1. \/ r = FeedAll(m, p)
        \/ \E o \in ChunkStarts(Len(p)) : r = FeedAll(FeedAll(m, SubSeq(p, 1, o)), p)
    BY <1>2 DEF PrefillResults, Refusals
  <2>2. Len(p) \in Nat
    OBVIOUS
  <2>3. CASE r = FeedAll(m, p)
    BY <1>1, <2>2, <2>3, FedHidden, FeedAllSound
  <2>4. ASSUME NEW o \in ChunkStarts(Len(p)), r = FeedAll(FeedAll(m, SubSeq(p, 1, o)), p)
        PROVE  r.hid = View(r.kv, r.pos) /\ r.pos \in Nat /\ r.pos >= m.pos
    <3>1. o \in Nat /\ o <= Len(p)
      BY <2>2 DEF ChunkStarts
    <3>2. 1 \in 1 .. Len(p) + 1 /\ o \in 1 - 1 .. Len(p) /\ o - 1 + 1 = o
      BY <2>2, <3>1
    <3>3. SubSeq(p, 1, o) \in Seq(Token) /\ Len(SubSeq(p, 1, o)) = o
      BY <3>2, SubSeqProperties
    <3>4. PICK q \in Seq(Token) : q = SubSeq(p, 1, o) /\ Len(q) = o
      BY <3>3
    <3>5. Sound(FeedAll(m, q)) /\ FeedAll(m, q).pos = m.pos + o
      BY <1>1, <3>4, FeedAllSound
    <3>6. PICK h : h = FeedAll(m, q)
      OBVIOUS
    <3>7. r = FeedAll(h, p) /\ Sound(h) /\ h.pos = m.pos + o
      BY <2>4, <3>4, <3>5, <3>6
    <3>8. r.pos = h.pos + Len(p) /\ r.hid = View(r.kv, r.pos)
      BY <3>7, FeedAllSound, FedHidden
    <3> QED BY <1>1, <2>2, <3>1, <3>7, <3>8
  <2> QED BY <2>1, <2>3, <2>4
<1> QED BY <1>1, <1>2, <1>3, EngineTypes DEF Commit, Context

(* The token the engine still holds goes first, if it is flushed.          *)
Led == IF Flushing THEN Append(Context, pending) ELSE Context

LEMMA FlushedLeads ==
  ASSUME IInv, Flushing => pos < MaxCtx
  PROVE  /\ Sound(Flushed) /\ View(Flushed.kv, Flushed.pos) = Led /\ Led \in Seq(Cell)
         /\ Flushed.pos = IF Flushing THEN pos + 1 ELSE pos
<1>1. Sound(Dev) /\ Dev.pos = pos /\ Dev.kv = kv /\ pos \in Nat /\ kv \in [Row -> Cell]
      /\ MaxCtx \in Nat /\ pending \in Cell
  BY EngineTypes, EngineAssumption
<1>2. Context \in Seq(Cell)
  BY <1>1, ViewIsSeq DEF Context
<1>3. CASE Flushing
  <2>1. pending \in Token /\ Dev.pos + 1 <= MaxCtx
    BY <1>1, <1>3 DEF Flushing, Cell
  <2>2. /\ Sound(Advance(Dev, pending)) /\ Advance(Dev, pending).pos = Dev.pos + 1
        /\ View(Advance(Dev, pending).kv, Advance(Dev, pending).pos)
             = Append(View(Dev.kv, Dev.pos), pending)
    BY <1>1, <2>1, AdvanceView
  <2> QED BY <1>1, <1>2, <1>3, <2>2 DEF Flushed, Led, Context
<1>4. CASE ~Flushing
  BY <1>1, <1>2, <1>4 DEF Flushed, Led, Context
<1> QED BY <1>3, <1>4

(* A prompt that ends within the capacity was fed once: a chunk is refused *)
(* only for want of room, and what is then fed again ends beyond it.       *)
LEMMA PrefillGrows ==
  ASSUME IInv, ScratchFits, NEW p \in Seq(Token), Prefill(p), pos' <= MaxCtx
  PROVE  Context' = Led \o p
<1> DEFINE m == Synced(Flushed)
<1>0. Flushing => pos < MaxCtx
  BY PrefillHidden, EngineTypes, EngineAssumption
<1>1. /\ Sound(m) /\ m.pos \in Nat /\ View(m.kv, m.pos) = Led
  BY <1>0, FlushedLeads, SyncedSound DEF Sound, State, Synced
<1>2. /\ Len(p) \in Nat /\ MaxCtx \in Nat /\ Chunk \in Nat \ {0} /\ ArenaRows \in Nat
      /\ Len(p) <= MaxCtx
  BY EngineTypes, EngineAssumption DEF Prefill
<1>3. PICK r \in PrefillResults(m, p) : Commit(r)
  BY DEF Prefill
<1> HIDE DEF m
<1>4. r.pos <= MaxCtx
  BY <1>3 DEF Commit
<1>5. ASSUME NEW o \in ChunkStarts(Len(p)), Batched
      PROVE  /\ ~NoScratch(Len(p), o) /\ o \in Nat /\ o + ChunkLen(Len(p), o) <= Len(p)
             /\ ChunkLen(Len(p), o) \in Nat
  <2>1. o \in Nat /\ o < Len(p)
    BY <1>2 DEF ChunkStarts
  <2>2. /\ ChunkLen(Len(p), o) <= Chunk /\ ChunkLen(Len(p), o) <= Len(p)
        /\ o + ChunkLen(Len(p), o) <= Len(p) /\ ChunkLen(Len(p), o) \in Nat
    BY <1>2, <2>1 DEF ChunkLen
  <2>3. ChunkLen(Len(p), o) <= ArenaRows
    BY <1>2, <1>5, <2>1, <2>2 DEF ScratchFits
  <2> QED BY <1>2, <2>1, <2>2, <2>3 DEF NoScratch
<1>6. ASSUME NEW o \in Refusals(m, Len(p)), Batched,
             r = FeedAll(FeedAll(m, SubSeq(p, 1, o)), p)
      PROVE  FALSE
  <2>1. o \in ChunkStarts(Len(p)) /\ (Overflows(m, Len(p), o) \/ NoScratch(Len(p), o))
    BY <1>6 DEF Refusals
  <2>2. /\ m.pos + o + ChunkLen(Len(p), o) > MaxCtx /\ o \in Nat /\ o <= Len(p)
        /\ ChunkLen(Len(p), o) <= Len(p) /\ ChunkLen(Len(p), o) \in Nat
    BY <1>1, <1>2, <1>5, <1>6, <2>1 DEF Overflows
  <2>3. 1 \in 1 .. Len(p) + 1 /\ o \in 1 - 1 .. Len(p) /\ o - 1 + 1 = o
    BY <1>2, <2>2
  <2>4. SubSeq(p, 1, o) \in Seq(Token) /\ Len(SubSeq(p, 1, o)) = o
    BY <2>3, SubSeqProperties
  <2>5. PICK q \in Seq(Token) : q = SubSeq(p, 1, o) /\ Len(q) = o
    BY <2>4
  <2>6. Sound(FeedAll(m, q)) /\ FeedAll(m, q).pos = m.pos + o
    BY <1>1, <2>5, FeedAllSound
  <2>7. r.pos = m.pos + o + Len(p)
    BY <1>6, <2>5, <2>6, FeedAllSound
  <2> QED BY <1>1, <1>2, <1>4, <2>2, <2>7
<1>7. r = FeedAll(m, p)
  BY <1>3, <1>6 DEF PrefillResults
<1>8. r.pos = m.pos + Len(p)
  BY <1>1, <1>7, FeedAllSound
<1>9. View(r.kv, r.pos) = Led \o p
  BY <1>1, <1>2, <1>4, <1>7, <1>8, FedView
<1> QED BY <1>3, <1>9 DEF Commit, Context

=============================================================================
