------------------------------ MODULE KvProofs ------------------------------
(***************************************************************************)
(* The K/V rows a context is kept in, for every configuration: compaction  *)
(* of a slab, the slabs that attention fills and reads, and the accounting *)
(* that truncates, marks and stores them.                                  *)
(***************************************************************************)
EXTENDS KvCompact, Attention, KvCache, ModuloLemmas, SequenceTheorems,
        WellFoundedInduction, TLAPS

(***************************************************************************)
(* Compaction packs the kept rows, for every length and every keep vector. *)
(* The plan is followed as one sequence, the runs emitted and the pending  *)
(* one: emitting a run then leaves it as it is.                            *)
(***************************************************************************)
Plan == moves \o run
Covers(m, u) == m.src <= u /\ u < m.src + m.count

Typed ==
  /\ keep \in [Slots -> BOOLEAN]
  /\ \E n \in 1 .. MaxLen : Slots = 0 .. n - 1 /\ slot <= n
  /\ slot \in Nat /\ dst \in Nat /\ dst <= slot
  /\ moves \in Seq(Move) /\ run \in Seq(Move) /\ Len(run) <= 1
  /\ phase \in {"plan", "move", "done"} /\ next \in Nat \ {0}
  /\ rows \in [Slots -> Slots] /\ at \in [Slots -> Slots]

(* Where the slots visited so far go: down or nowhere, in order, no gaps.  *)
Targets ==
  /\ \A u \in Kept : u < slot => at[u] <= u /\ at[u] < dst
  /\ \A u, v \in Kept : u < v /\ v < slot => at[u] < at[v]
  /\ \A d \in 0 .. dst - 1 : \E u \in Kept : u < slot /\ at[u] = d

(* A run moves kept slots, each to its target; every kept slot not in place*)
(* is in a run; the runs come in slot order.                               *)
RunOK(m) ==
  /\ m.dst < m.src /\ m.count > 0 /\ m.src + m.count <= slot
  /\ \A u \in Slots : Covers(m, u) => keep[u] /\ at[u] = m.dst + (u - m.src)

PlanOK(p) ==
  /\ \A i \in 1 .. Len(p) : RunOK(p[i])
  /\ \A i, j \in 1 .. Len(p) : i < j => p[i].src + p[i].count <= p[j].src
  /\ \A u \in Kept : u < slot => at[u] = u \/ \E i \in 1 .. Len(p) : Covers(p[i], u)

Settled(u) == at[u] = u \/ \E i \in 1 .. next - 1 : Covers(moves[i], u)

RowsOK ==
  /\ phase = "plan" => rows = [t \in Slots |-> t] /\ next = 1
  /\ phase # "plan" => /\ run = <<>> /\ slot \notin Slots /\ next <= Len(moves) + 1
                       /\ \A u \in Kept : rows[IF Settled(u) THEN at[u] ELSE u] = u
  /\ phase = "done" => next = Len(moves) + 1

PlanInv == Typed /\ Targets /\ PlanOK(Plan) /\ RowsOK

-----------------------------------------------------------------------------
(* Facts about the plan as a sequence.                                     *)

LEMMA SlotRange ==
  ASSUME Typed
  PROVE  \A t \in Slots : t \in Nat
  BY DEF Typed

(* Appending a one-run plan to a plan.                                     *)
LEMMA OneMore ==
  ASSUME NEW p \in Seq(Move), NEW m \in Move
  PROVE  /\ p \o <<m>> \in Seq(Move) /\ Len(p \o <<m>>) = Len(p) + 1
         /\ \A i \in 1 .. Len(p) : (p \o <<m>>)[i] = p[i]
         /\ (p \o <<m>>)[Len(p) + 1] = m
  OBVIOUS

LEMMA NoMore ==
  ASSUME NEW p \in Seq(Move)
  PROVE  p \o <<>> = p
  OBVIOUS

LEMMA RunCases ==
  ASSUME NEW r \in Seq(Move), Len(r) <= 1
  PROVE  r = <<>> \/ (r[1] \in Move /\ r = <<r[1]>>)
<1>1. CASE Len(r) = 0
  BY <1>1, EmptySeq
<1>2. CASE Len(r) = 1
  <2>1. r[1] \in Move
    BY <1>2
  <2>2. <<r[1]>> \in Seq(Move) /\ Len(<<r[1]>>) = 1 /\ <<r[1]>>[1] = r[1]
    BY <2>1
  <2>3. r = <<r[1]>>
    BY <1>2, <2>2, SeqEqual
  <2> QED
    BY <2>1, <2>3
<1>3. Len(r) \in Nat
  OBVIOUS
<1> QED
  BY <1>1, <1>2, <1>3

LEMMA PlanIsPlan ==
  ASSUME Typed
  PROVE  Plan \in Seq(Move)
  BY DEF Typed, Plan

-----------------------------------------------------------------------------
LEMMA InitInv == CompactInit => PlanInv
<1> SUFFICES ASSUME CompactInit PROVE PlanInv
  OBVIOUS
<1>1. PICK n \in 1 .. MaxLen : keep \in [0 .. n - 1 -> BOOLEAN]
  BY DEF CompactInit
<1>2. Slots = 0 .. n - 1 /\ n \in Nat
  BY <1>1, CompactAssumption DEF Slots
<1>3. Typed
  BY <1>1, <1>2 DEF CompactInit, Typed, Slots
<1>4. Targets
  BY <1>2 DEF CompactInit, Targets, Kept
<1>5. Plan = <<>>
  BY DEF CompactInit, Plan
<1>6. PlanOK(Plan)
  BY <1>2, <1>5 DEF CompactInit, PlanOK, Kept
<1>7. RowsOK
  BY DEF CompactInit, RowsOK
<1> QED
  BY <1>3, <1>4, <1>6, <1>7 DEF PlanInv

(* A kept slot is given the next free target.                              *)
LEMMA TargetsAdvance ==
  ASSUME PlanInv, slot \in Slots, keep[slot], Advances, keep' = keep
  PROVE  Targets' /\ at' \in [Slots -> Slots] /\ at'[slot] = dst
         /\ \A u \in Kept : u < slot => at'[u] = at[u]
<1> USE DEF Slots, Kept
<1>1. at \in [Slots -> Slots] /\ slot \in Nat /\ dst \in Nat /\ dst <= slot
  BY DEF PlanInv, Typed
<1>2. dst \in Slots
  <2>1. PICK n \in 1 .. MaxLen : Slots = 0 .. n - 1
    BY DEF PlanInv, Typed
  <2> QED
    BY <1>1, <2>1, CompactAssumption
<1>3. at' = [at EXCEPT ![slot] = dst] /\ slot' = slot + 1 /\ dst' = dst + 1
  BY DEF Advances
<1>4. at' \in [Slots -> Slots] /\ at'[slot] = dst
  BY <1>1, <1>2, <1>3
<1>5. \A u \in Slots : u # slot => at'[u] = at[u]
  BY <1>1, <1>3
<1>6. \A u \in Slots : u \in Nat
  BY SlotRange DEF PlanInv
<1>7. \A u \in Kept' : u < slot' => at'[u] <= u /\ at'[u] < dst'
  <2> SUFFICES ASSUME NEW u \in Kept, u < slot + 1
               PROVE at'[u] <= u /\ at'[u] < dst + 1
    BY <1>3
  <2>1. CASE u = slot
    BY <2>1, <1>1, <1>4
  <2>2. CASE u # slot
    <3>1. u < slot /\ at'[u] = at[u] /\ at[u] \in Nat
      BY <2>2, <1>1, <1>5, <1>6
    <3> QED
      BY <3>1, <1>1 DEF PlanInv, Targets
  <2> QED
    BY <2>1, <2>2
<1>8. \A u, v \in Kept' : u < v /\ v < slot' => at'[u] < at'[v]
  <2> SUFFICES ASSUME NEW u \in Kept, NEW v \in Kept, u < v, v < slot + 1
               PROVE at'[u] < at'[v]
    BY <1>3
  <2>1. u < slot /\ u # slot /\ at'[u] = at[u]
    BY <1>1, <1>5, <1>6
  <2>2. CASE v = slot
    BY <2>1, <2>2, <1>4 DEF PlanInv, Targets
  <2>3. CASE v # slot
    BY <2>1, <2>3, <1>1, <1>5, <1>6 DEF PlanInv, Targets
  <2> QED
    BY <2>2, <2>3
<1>9. \A d \in 0 .. dst' - 1 : \E u \in Kept' : u < slot' /\ at'[u] = d
  <2> SUFFICES ASSUME NEW d \in 0 .. dst
               PROVE \E u \in Kept : u < slot + 1 /\ at'[u] = d
    BY <1>1, <1>3
  <2>1. CASE d = dst
    BY <2>1, <1>1, <1>4
  <2>2. CASE d # dst
    <3>1. PICK u \in Kept : u < slot /\ at[u] = d
      BY <2>2, <1>1 DEF PlanInv, Targets
    <3> QED
      BY <3>1, <1>1, <1>5, <1>6
  <2> QED
    BY <2>1, <2>2
<1> QED
  BY <1>1, <1>4, <1>5, <1>6, <1>7, <1>8, <1>9 DEF Targets

(* A run of slots below `slot` stays a run of slots below the next one.    *)
LEMMA OldRun ==
  ASSUME PlanInv, NEW m \in Move, RunOK(m), keep' = keep, slot' = slot + 1,
         \A u \in Kept : u < slot => at'[u] = at[u]
  PROVE  RunOK(m)'
<1>1. slot \in Nat /\ \A u \in Slots : u \in Nat
  BY SlotRange DEF PlanInv, Typed
<1>2. m.src \in Nat /\ m.dst \in Nat /\ m.count \in Nat
  BY DEF Move
<1>3. Slots' = Slots
  BY DEF Slots
<1>4. ASSUME NEW u \in Slots, Covers(m, u)
      PROVE keep'[u] /\ at'[u] = m.dst + (u - m.src)
  <2>1. u < slot /\ keep[u] /\ at[u] = m.dst + (u - m.src)
    BY <1>1, <1>2, <1>4 DEF RunOK, Covers
  <2> QED
    BY <2>1 DEF Kept
<1>5. m.src + m.count <= slot'
  BY <1>1, <1>2 DEF RunOK
<1> QED
  BY <1>3, <1>4, <1>5 DEF RunOK, Covers

(* The slots visited before keep their runs or their place.                *)
LEMMA PlanGrows ==
  ASSUME PlanInv, keep' = keep, slot' = slot + 1, slot \in Slots,
         \A u \in Kept : u < slot => at'[u] = at[u],
         NEW q, q \in Seq(Move), NEW p, p = Plan,
         \/ q = p /\ (keep[slot] => at'[slot] = slot)
         \/ \E m \in Move : q = p \o <<m>> /\ RunOK(m)' /\ Covers(m, slot) /\ m.src = slot
  PROVE  /\ \A i \in 1 .. Len(q) : RunOK(q[i])'
         /\ \A i, j \in 1 .. Len(q) : i < j => q[i].src + q[i].count <= q[j].src
         /\ \A u \in Kept : u < slot'
              => at'[u] = u \/ \E i \in 1 .. Len(q) : Covers(q[i], u)
<1>1. slot \in Nat /\ \A u \in Slots : u \in Nat
  BY SlotRange DEF PlanInv, Typed
<1>2. p \in Seq(Move)
  BY PlanIsPlan DEF PlanInv
<1>3. \A i \in 1 .. Len(p) : p[i] \in Move /\ RunOK(p[i])
  BY <1>2 DEF PlanInv, PlanOK
<1>4. \A i \in 1 .. Len(p) : RunOK(p[i])'
  BY <1>3, OldRun
<1>5. \A i, j \in 1 .. Len(p) : i < j => p[i].src + p[i].count <= p[j].src
  BY DEF PlanInv, PlanOK
<1>6. \A u \in Kept : u < slot => at'[u] = u \/ \E i \in 1 .. Len(p) : Covers(p[i], u)
  BY DEF PlanInv, PlanOK
<1>7. \A u \in Kept : u < slot' => u < slot \/ u = slot
  BY <1>1 DEF Kept
<1>8. CASE q = p /\ (keep[slot] => at'[slot] = slot)
  BY <1>4, <1>5, <1>6, <1>7, <1>8 DEF Kept
<1>9. ASSUME NEW m \in Move, q = p \o <<m>>, RunOK(m)', Covers(m, slot), m.src = slot
      PROVE  /\ \A i \in 1 .. Len(q) : RunOK(q[i])'
             /\ \A i, j \in 1 .. Len(q) : i < j => q[i].src + q[i].count <= q[j].src
             /\ \A u \in Kept : u < slot'
                  => at'[u] = u \/ \E i \in 1 .. Len(q) : Covers(q[i], u)
  <2>1. /\ Len(q) = Len(p) + 1 /\ q[Len(p) + 1] = m
        /\ \A i \in 1 .. Len(p) : q[i] = p[i]
    BY <1>2, <1>9, OneMore
  <2>2. Len(p) \in Nat
    BY <1>2
  <2>3. \A i \in 1 .. Len(q) : RunOK(q[i])'
    BY <1>4, <1>9, <2>1, <2>2
  <2>4. \A i, j \in 1 .. Len(q) : i < j => q[i].src + q[i].count <= q[j].src
    <3> SUFFICES ASSUME NEW i \in 1 .. Len(q), NEW j \in 1 .. Len(q), i < j
                 PROVE q[i].src + q[i].count <= q[j].src
      OBVIOUS
    <3>1. i \in 1 .. Len(p) /\ q[i] = p[i]
      BY <2>1, <2>2
    <3>2. CASE j \in 1 .. Len(p)
      BY <3>1, <3>2, <1>5, <2>1
    <3>3. CASE j = Len(p) + 1
      <4>1. p[i].src + p[i].count <= slot
        BY <3>1, <1>3 DEF RunOK
      <4> QED
        BY <3>1, <3>3, <4>1, <1>9, <2>1
    <3> QED
      BY <2>1, <2>2, <3>2, <3>3
  <2>5. ASSUME NEW u \in Kept, u < slot'
        PROVE at'[u] = u \/ \E i \in 1 .. Len(q) : Covers(q[i], u)
    <3>1. CASE u = slot
      BY <3>1, <1>9, <2>1, <2>2
    <3>2. CASE u < slot
      BY <3>2, <1>6, <2>1, <2>2
    <3> QED
      BY <2>5, <3>1, <3>2, <1>7
  <2> QED
    BY <2>3, <2>4, <2>5
<1> QED
  BY <1>8, <1>9

(* The next slot to visit is a slot, or the loop is over.                  *)
LEMMA SlotMoves ==
  ASSUME PlanInv, slot \in Slots, keep' = keep, slot' = slot + 1
  PROVE  /\ slot' \in Nat /\ Slots' = Slots /\ Kept' = Kept
         /\ \E n \in 1 .. MaxLen : Slots = 0 .. n - 1 /\ slot' <= n
<1>1. PICK n \in 1 .. MaxLen : Slots = 0 .. n - 1
  BY DEF PlanInv, Typed
<1>2. n \in Nat /\ slot \in Nat
  BY CompactAssumption DEF PlanInv, Typed
<1> QED
  BY <1>1, <1>2 DEF Slots, Kept

LEMMA DropSlotInv == ASSUME PlanInv, DropSlot PROVE PlanInv'
<1> USE DEF DropSlot
<1>1. /\ slot' \in Nat /\ Slots' = Slots /\ Kept' = Kept
      /\ \E n \in 1 .. MaxLen : Slots = 0 .. n - 1 /\ slot' <= n
  BY SlotMoves
<1>2. slot \in Nat /\ dst \in Nat /\ dst <= slot /\ \A u \in Slots : u \in Nat
  BY SlotRange DEF PlanInv, Typed
<1>0. /\ keep' = keep /\ dst' = dst /\ moves' = moves /\ run' = run /\ phase' = phase
      /\ next' = next /\ rows' = rows /\ at' = at /\ slot' = slot + 1
  OBVIOUS
<1>3. Typed'
  <2>1. dst' <= slot'
    BY <1>0, <1>2
  <2>2. Typed
    BY DEF PlanInv
  <2> HIDE DEF DropSlot
  <2> QED
    BY <1>0, <1>1, <2>1, <2>2 DEF Typed
<1>4. \A u \in Kept : u < slot' => u < slot
  BY <1>2 DEF Kept
<1>5. Targets'
  <2>1. /\ \A u \in Kept : u < slot' => at[u] <= u /\ at[u] < dst
        /\ \A u, v \in Kept : u < v /\ v < slot' => at[u] < at[v]
        /\ \A d \in 0 .. dst - 1 : \E u \in Kept : u < slot /\ at[u] = d
    BY <1>4 DEF PlanInv, Targets
  <2>2. \A u \in Kept : u < slot => u < slot'
    BY <1>0, <1>2 DEF Kept
  <2> QED
    BY <1>0, <1>1, <2>1, <2>2 DEF Targets
<1>6. Plan' = Plan /\ Plan \in Seq(Move)
  BY PlanIsPlan DEF Plan, PlanInv
<1>7. PlanOK(Plan)'
  BY <1>1, <1>6, PlanGrows DEF PlanOK
<1>8. RowsOK'
  BY <1>1 DEF PlanInv, RowsOK
<1> QED
  BY <1>3, <1>5, <1>7, <1>8 DEF PlanInv

(* The three actions that give the visited slot a target have this much in *)
(* common; they differ in what becomes of the plan.                        *)
LEMMA AdvanceInv ==
  ASSUME PlanInv, slot \in Slots, keep[slot], phase = "plan", Advances,
         keep' = keep, phase' = phase, next' = next, rows' = rows,
         moves' \in Seq(Move), run' \in Seq(Move), Len(run') <= 1, PlanOK(Plan)'
  PROVE  PlanInv'
<1>1. /\ slot' \in Nat /\ Slots' = Slots /\ Kept' = Kept
      /\ \E n \in 1 .. MaxLen : Slots = 0 .. n - 1 /\ slot' <= n
  BY SlotMoves DEF Advances
<1>2. Targets' /\ at' \in [Slots -> Slots]
  BY TargetsAdvance
<1>3. dst' \in Nat /\ dst' <= slot'
  BY DEF PlanInv, Typed, Advances
<1>4. Typed'
  BY <1>1, <1>2, <1>3 DEF PlanInv, Typed
<1>5. RowsOK'
  BY <1>1 DEF PlanInv, RowsOK
<1> QED
  BY <1>2, <1>4, <1>5 DEF PlanInv

LEMMA InPlaceInv == ASSUME PlanInv, InPlace PROVE PlanInv'
<1> USE DEF InPlace
<1>1. moves \in Seq(Move) /\ run \in Seq(Move)
  BY DEF PlanInv, Typed
<1>2. moves' = Plan /\ moves' \in Seq(Move)
  BY PlanIsPlan DEF FlushRun, Plan, PlanInv
<1>3. run' = <<>> /\ run' \in Seq(Move) /\ Len(run') = 0
  OBVIOUS
<1>4. Plan' = Plan
  BY <1>2, <1>3, NoMore DEF Plan
<1>5. at'[slot] = slot /\ \A u \in Kept : u < slot => at'[u] = at[u]
  BY TargetsAdvance
<1>6. Slots' = Slots /\ Kept' = Kept
  BY SlotMoves DEF Advances
<1>7. slot' = slot + 1
  BY DEF Advances
<1>8. PlanOK(Plan)'
  BY <1>2, <1>4, <1>5, <1>6, <1>7, PlanGrows DEF PlanOK
<1> QED
  BY <1>2, <1>3, <1>8, AdvanceInv

LEMMA StartRunInv == ASSUME PlanInv, StartRun PROVE PlanInv'
<1> USE DEF StartRun
<1>1. slot \in Nat /\ dst \in Nat /\ dst < slot /\ \A u \in Slots : u \in Nat
  BY SlotRange DEF PlanInv, Typed
<1>0. Run(slot, dst, 1) \in Move
  BY <1>1 DEF Run, Move
<1>a. PICK m \in Move : m = Run(slot, dst, 1)
  BY <1>0
<1>2. m.src = slot /\ m.dst = dst /\ m.count = 1
  BY <1>a DEF Run
<1>3. moves' = Plan /\ Plan \in Seq(Move)
  BY PlanIsPlan DEF FlushRun, Plan, PlanInv
<1>4. run' = <<m>> /\ run' \in Seq(Move) /\ Len(run') = 1
  BY <1>a
<1>5. Plan' = Plan \o <<m>> /\ Plan' \in Seq(Move)
  BY <1>2, <1>3, <1>4, OneMore DEF Plan
<1>6. at'[slot] = dst /\ \A u \in Kept : u < slot => at'[u] = at[u]
  BY TargetsAdvance
<1>7. slot' = slot + 1 /\ Slots' = Slots /\ Kept' = Kept
  BY SlotMoves DEF Advances
<1>8. Covers(m, slot) /\ \A u \in Slots : Covers(m, u) => u = slot
  BY <1>1, <1>2 DEF Covers
<1>9. RunOK(m)'
  <2>1. \A u \in Slots : Covers(m, u) => keep'[u] /\ at'[u] = m.dst + (u - m.src)
    BY <1>1, <1>2, <1>6, <1>8
  <2>2. m.dst < m.src /\ m.count > 0 /\ m.src + m.count <= slot'
    BY <1>1, <1>2, <1>7
  <2> QED
    BY <1>7, <2>1, <2>2 DEF RunOK, Covers
<1>10. PlanOK(Plan)'
  <2>1. \E k \in Move : Plan' = Plan \o <<k>> /\ RunOK(k)' /\ Covers(k, slot) /\ k.src = slot
    BY <1>2, <1>5, <1>8, <1>9
  <2> QED
    BY <1>5, <1>6, <1>7, <2>1, PlanGrows DEF PlanOK
<1> QED
  BY <1>3, <1>4, <1>10, AdvanceInv

(* The pending run is the last one of the plan; it grows by the slot.      *)
LEMMA ExtendRunInv == ASSUME PlanInv, ExtendRun PROVE PlanInv'
<1> USE DEF ExtendRun
<1>1. /\ slot \in Nat /\ dst \in Nat /\ \A u \in Slots : u \in Nat
      /\ moves \in Seq(Move) /\ run \in Seq(Move) /\ Len(run) <= 1
  BY SlotRange DEF PlanInv, Typed
<1>2. run[1] \in Move /\ run = <<run[1]>>
  BY <1>1, RunCases DEF Extends
<1>3. PICK o \in Move : o = run[1]
  BY <1>2
<1>4. PICK n \in Nat : n = Len(moves)
  BY <1>1
<1>5. o.src \in Nat /\ o.dst \in Nat /\ o.count \in Nat
  BY DEF Move
<1>6. Run(o.src, o.dst, o.count + 1) \in Move
  BY <1>5 DEF Run, Move
<1>7. PICK m \in Move : m = Run(o.src, o.dst, o.count + 1)
  BY <1>6
<1>8. m.src = o.src /\ m.dst = o.dst /\ m.count = o.count + 1
  BY <1>7 DEF Run
<1>9. o.src + o.count = slot /\ o.dst + o.count = dst
  BY <1>3 DEF Extends
<1>10. run' = <<m>> /\ run' \in Seq(Move) /\ Len(run') = 1 /\ moves' = moves
  BY <1>3, <1>7
<1>11. /\ Plan = moves \o <<o>> /\ Plan \in Seq(Move) /\ Len(Plan) = n + 1
       /\ Plan[n + 1] = o /\ \A i \in 1 .. n : Plan[i] = moves[i] /\ Plan[i] \in Move
  <2>1. Plan = moves \o <<o>>
    BY <1>2, <1>3 DEF Plan
  <2>2. \A i \in 1 .. n : moves[i] \in Move
    BY <1>1, <1>4
  <2> QED
    BY <2>1, <2>2, <1>1, <1>4, OneMore
<1>12. /\ Plan' = moves \o <<m>> /\ Plan' \in Seq(Move) /\ Len(Plan') = n + 1
       /\ Plan'[n + 1] = m /\ \A i \in 1 .. n : Plan'[i] = Plan[i]
  <2>1. Plan' = moves \o <<m>>
    BY <1>10 DEF Plan
  <2> QED
    BY <2>1, <1>1, <1>4, <1>11, OneMore
<1>13. at'[slot] = dst /\ \A u \in Kept : u < slot => at'[u] = at[u]
  BY TargetsAdvance
<1>14. slot' = slot + 1 /\ Slots' = Slots /\ Kept' = Kept /\ keep' = keep
  BY SlotMoves DEF Advances
<1>15. \A i \in 1 .. n : RunOK(Plan[i]) /\ Plan[i] \in Move
  BY <1>11 DEF PlanInv, PlanOK
<1>16. RunOK(o)
  <2>1. n + 1 \in 1 .. Len(Plan)
    BY <1>11
  <2> QED
    BY <2>1, <1>11 DEF PlanInv, PlanOK
<1>17. PICK q \in Seq(Move) : q = Plan'
  BY <1>12
<1>18. /\ Len(q) = n + 1 /\ q[n + 1] = m /\ \A i \in 1 .. n : q[i] = Plan[i]
  BY <1>12, <1>17
<1>19. \A i \in 1 .. n : RunOK(q[i])'
  <2> SUFFICES ASSUME NEW i \in 1 .. n PROVE RunOK(q[i])'
    OBVIOUS
  <2>1. PICK k \in Move : k = q[i] /\ RunOK(k)
    BY <1>15, <1>18
  <2>2. RunOK(k)'
    BY <2>1, <1>13, <1>14, OldRun
  <2> QED
    BY <2>1, <2>2
<1>20. RunOK(m)'
  <2>1. ASSUME NEW u \in Slots, Covers(m, u)
        PROVE keep'[u] /\ at'[u] = m.dst + (u - m.src)
    <3>1. CASE u = slot
      BY <3>1, <1>1, <1>5, <1>8, <1>9, <1>13, <1>14
    <3>2. CASE u # slot
      <4>0. u \in Nat /\ o.src <= u /\ u < o.src + (o.count + 1)
        BY <2>1, <1>1, <1>8 DEF Covers
      <4>1. Covers(o, u) /\ u < slot
        BY <4>0, <3>2, <1>1, <1>5, <1>9 DEF Covers
      <4>2. keep[u] /\ at[u] = o.dst + (u - o.src)
        BY <4>1, <1>16 DEF RunOK
      <4> QED
        BY <4>1, <4>2, <1>8, <1>13, <1>14 DEF Kept
    <3> QED
      BY <3>1, <3>2
  <2>2. m.dst < m.src /\ m.count > 0 /\ m.src + m.count <= slot'
    BY <1>1, <1>5, <1>8, <1>9, <1>14, <1>16 DEF RunOK
  <2> QED
    BY <1>14, <2>1, <2>2 DEF RunOK, Covers
<1>21. \A i, j \in 1 .. n + 1 : i < j => Plan[i].src + Plan[i].count <= Plan[j].src
  BY <1>11 DEF PlanInv, PlanOK
<1>22. \A i, j \in 1 .. n + 1 : i < j => q[i].src + q[i].count <= q[j].src
  <2> SUFFICES ASSUME NEW i \in 1 .. n + 1, NEW j \in 1 .. n + 1, i < j
               PROVE q[i].src + q[i].count <= q[j].src
    OBVIOUS
  <2>1. i \in 1 .. n /\ q[i] = Plan[i] /\ Plan[i].src + Plan[i].count <= Plan[j].src
    BY <1>4, <1>18, <1>21
  <2>2. q[j].src = Plan[j].src
    BY <1>4, <1>8, <1>11, <1>18
  <2> QED
    BY <2>1, <2>2
<1>23. \A u \in Kept : u < slot' => at'[u] = u \/ \E i \in 1 .. n + 1 : Covers(q[i], u)
  <2> SUFFICES ASSUME NEW u \in Kept, u < slot', at'[u] # u
               PROVE \E i \in 1 .. n + 1 : Covers(q[i], u)
    OBVIOUS
  <2>1. u = slot \/ u < slot
    BY <1>1, <1>14 DEF Kept
  <2>2. CASE u = slot
    <3>1. Covers(m, u)
      BY <2>2, <1>5, <1>8, <1>9, <1>1 DEF Covers
    <3>2. n + 1 \in 1 .. n + 1 /\ q[n + 1] = m
      BY <1>4, <1>18
    <3> QED
      BY <3>1, <3>2
  <2>3. CASE u < slot
    <3>4. at[u] # u
      BY <2>3, <1>13
    <3>5. \E i \in 1 .. Len(Plan) : Covers(Plan[i], u)
      BY <2>3, <3>4, Zenon DEF PlanInv, PlanOK
    <3>6. Len(Plan) = n + 1
      BY <1>11
    <3>1. PICK i \in 1 .. n + 1 : Covers(Plan[i], u)
      BY <3>5, <3>6
    <3>2. CASE i \in 1 .. n
      BY <3>1, <3>2, <1>4, <1>18
    <3>3. CASE i = n + 1
      <4>1. Covers(o, u) /\ u \in Nat
        BY <3>1, <3>3, <1>1, <1>11 DEF Kept
      <4>2. Covers(m, u)
        BY <4>1, <1>5, <1>8 DEF Covers
      <4> QED
        BY <4>2, <1>4, <1>18
    <3> QED
      BY <1>4, <3>2, <3>3
  <2> QED
    BY <2>1, <2>2, <2>3
<1>24. PlanOK(q)'
  <2>1. \A i \in 1 .. Len(q) : RunOK(q[i])'
    BY <1>4, <1>18, <1>19, <1>20
  <2> QED
    BY <1>14, <1>18, <1>22, <1>23, <2>1 DEF PlanOK, Covers
<1>25. PlanOK(Plan)'
  BY <1>17, <1>24
<1> QED
  BY <1>1, <1>10, <1>25, AdvanceInv

-----------------------------------------------------------------------------
LEMMA EndPlanInv == ASSUME PlanInv, EndPlan PROVE PlanInv'
<1>1. /\ keep' = keep /\ slot' = slot /\ dst' = dst /\ next' = next /\ rows' = rows
      /\ at' = at /\ phase = "plan" /\ phase' = "move" /\ slot \notin Slots
  BY DEF EndPlan
<1>2. Slots' = Slots /\ Kept' = Kept
  BY <1>1 DEF Slots, Kept
<1>3. moves' = Plan /\ run' = <<>> /\ Plan \in Seq(Move)
  BY PlanIsPlan DEF EndPlan, FlushRun, Plan, PlanInv
<1>4. Plan' = Plan
  BY <1>3, NoMore DEF Plan
<1>5. Typed'
  <2>1. Typed
    BY DEF PlanInv
  <2>2. moves' \in Seq(Move) /\ run' \in Seq(Move) /\ Len(run') <= 1
    BY <1>3
  <2> QED
    BY <1>1, <1>2, <2>1, <2>2 DEF Typed
<1>6. Targets'
  BY <1>1, <1>2 DEF PlanInv, Targets
<1>7. PlanOK(Plan)'
  BY <1>1, <1>2, <1>4 DEF PlanInv, PlanOK, RunOK, Covers
<1>8. RowsOK'
  <2>1. next = 1 /\ rows = [t \in Slots |-> t] /\ 1 <= Len(moves') + 1
    BY <1>1, <1>3 DEF PlanInv, RowsOK
  <2>2. \A u \in Kept : rows[IF Settled(u)' THEN at[u] ELSE u] = u
    BY <1>1, <2>1 DEF Settled, Kept
  <2> QED
    BY <1>1, <1>2, <1>3, <2>1, <2>2 DEF RowsOK
<1> QED
  BY <1>5, <1>6, <1>7, <1>8 DEF PlanInv

(* No two kept slots share a target.                                       *)
LEMMA TargetsInjective ==
  ASSUME PlanInv, NEW u \in Kept, NEW v \in Kept, u < slot, v < slot, at[u] = at[v]
  PROVE  u = v
<1>1. u \in Nat /\ v \in Nat /\ at[u] \in Nat /\ at[v] \in Nat
  BY SlotRange DEF PlanInv, Typed, Kept
<1>2. ~(u < v) /\ ~(v < u)
  BY <1>1 DEF PlanInv, Targets
<1> QED
  BY <1>1, <1>2

(* Once the plan is complete every slot has been visited.                  *)
LEMMA AllVisited ==
  ASSUME PlanInv, slot \notin Slots
  PROVE  \A u \in Slots : u \in Nat /\ u < slot /\ at[u] \in Slots /\ at[u] \in Nat
<1>1. PICK n \in 1 .. MaxLen : Slots = 0 .. n - 1 /\ slot <= n
  BY DEF PlanInv, Typed
<1>2. n \in Nat
  BY CompactAssumption
<1>3. slot \in Nat /\ at \in [Slots -> Slots]
  BY DEF PlanInv, Typed
<1> QED
  BY <1>1, <1>2, <1>3

LEMMA ExecuteMoveInv == ASSUME PlanInv, ExecuteMove PROVE PlanInv'
<1>1. /\ keep' = keep /\ slot' = slot /\ dst' = dst /\ next' = next + 1 /\ run' = run
      /\ moves' = moves /\ at' = at /\ phase = "move" /\ phase' = phase
      /\ next <= Len(moves) /\ rows' = Moved(rows, moves[next])
  BY DEF ExecuteMove
<1>2. Slots' = Slots /\ Kept' = Kept /\ Plan' = Plan
  BY <1>1 DEF Slots, Kept, Plan
<1>3. run = <<>> /\ slot \notin Slots /\ moves \in Seq(Move) /\ next \in Nat \ {0}
  BY <1>1 DEF PlanInv, Typed, RowsOK
<1>4. Plan = moves
  BY <1>3, NoMore DEF Plan
<1>5. \A u \in Slots : u \in Nat /\ u < slot /\ at[u] \in Slots /\ at[u] \in Nat
  BY <1>3, AllVisited
<1>6. next \in 1 .. Len(moves) /\ Len(moves) \in Nat
  BY <1>1, <1>3
<1>7. PICK m \in Move : m = moves[next] /\ RunOK(m)
  BY <1>3, <1>4, <1>6 DEF PlanInv, PlanOK
<1>8. m.src \in Nat /\ m.dst \in Nat /\ m.count \in Nat /\ m.dst < m.src
  BY <1>7 DEF Move, RunOK
<1>9. \A t \in Nat : m.src <= t /\ t < m.src + m.count => t \in Slots
  <2>1. PICK n \in 1 .. MaxLen : Slots = 0 .. n - 1 /\ slot <= n
    BY DEF PlanInv, Typed
  <2>2. m.src + m.count <= slot /\ slot \in Nat /\ n \in Nat
    BY <1>7, CompactAssumption DEF RunOK, PlanInv, Typed
  <2> QED
    BY <1>8, <2>1, <2>2
<1>10. rows \in [Slots -> Slots]
  BY DEF PlanInv, Typed
<1>11. \A t \in Slots : rows'[t] = IF t \in m.dst .. m.dst + m.count - 1
                                    THEN rows[t - m.dst + m.src] ELSE rows[t]
  BY <1>1, <1>7, <1>10 DEF Moved
<1>12. rows' \in [Slots -> Slots]
  <2>1. rows' = [t \in Slots |-> IF t \in m.dst .. m.dst + m.count - 1
                                  THEN rows[t - m.dst + m.src] ELSE rows[t]]
    BY <1>1, <1>7, <1>10 DEF Moved
  <2>2. ASSUME NEW t \in Slots, t \in m.dst .. m.dst + m.count - 1
        PROVE  t - m.dst + m.src \in Slots
    BY <2>2, <1>5, <1>8, <1>9
  <2> QED
    BY <1>10, <2>1, <2>2
<1>13. Typed'
  <2>1. Typed
    BY DEF PlanInv
  <2>2. next' \in Nat \ {0}
    BY <1>1, <1>3
  <2>3. keep' \in [Slots' -> BOOLEAN] /\ at' \in [Slots' -> Slots'] /\ rows' \in [Slots' -> Slots']
    BY <1>1, <1>2, <1>12, <2>1 DEF Typed
  <2>4. \E n \in 1 .. MaxLen : Slots' = 0 .. n - 1 /\ slot' <= n
    BY <1>1, <1>2, <2>1 DEF Typed
  <2>5. /\ slot' \in Nat /\ dst' \in Nat /\ dst' <= slot'
        /\ moves' \in Seq(Move) /\ run' \in Seq(Move) /\ Len(run') <= 1
        /\ phase' \in {"plan", "move", "done"}
    BY <1>1, <2>1 DEF Typed
  <2> QED
    BY <2>2, <2>3, <2>4, <2>5 DEF Typed
<1>14. Targets' /\ PlanOK(Plan)'
  BY <1>1, <1>2 DEF PlanInv, Targets, PlanOK, RunOK, Covers
<1>15. ASSUME NEW i \in 1 .. Len(moves)
       PROVE  moves[i] \in Move /\ moves[i].src \in Nat /\ moves[i].count \in Nat
  <2>1. moves[i] \in Move
    BY <1>3, <1>15
  <2> QED
    BY <2>1 DEF Move
<1>16. /\ \A i \in 1 .. Len(moves) : i < next => moves[i].src + moves[i].count <= m.src
       /\ \A i \in 1 .. Len(moves) : next < i => m.src + m.count <= moves[i].src
  BY <1>4, <1>6, <1>7 DEF PlanInv, PlanOK
<1>17. \A u \in Kept : Settled(u)' <=> (Settled(u) \/ Covers(m, u))
  <2>1. \A u \in Kept : Settled(u)' <=> (at[u] = u \/ \E i \in 1 .. next : Covers(moves[i], u))
    BY <1>1, <1>3 DEF Settled, Covers
  <2> QED
    BY <2>1, <1>3, <1>7 DEF Settled
<1>18. \A u \in Kept : rows[IF Settled(u) THEN at[u] ELSE u] = u
  BY <1>1 DEF PlanInv, RowsOK
(* The target of a settled row is out of the move's reach.                 *)
<1>19. ASSUME NEW u \in Kept, Settled(u)
       PROVE  rows'[at[u]] = u
  <2> DEFINE w == m.src + (at[u] - m.dst)
  <2>1. u \in Slots /\ u \in Nat /\ u < slot /\ at[u] \in Slots /\ at[u] \in Nat
    BY <1>5 DEF Kept
  <2>2. ASSUME at[u] \in m.dst .. m.dst + m.count - 1 PROVE FALSE
    <3>1. w \in Nat /\ m.src <= w /\ w < m.src + m.count
      BY <2>1, <2>2, <1>8
    <3>2. w \in Slots
      BY <3>1, <1>9
    <3>3. keep[w] /\ at[w] = m.dst + (w - m.src)
      BY <3>1, <3>2, <1>7 DEF RunOK, Covers
    <3>4. w \in Kept /\ at[w] = at[u] /\ w < slot
      BY <3>2, <3>3, <2>1, <1>5, <1>8 DEF Kept
    <3>5. w = u
      BY <3>4, <2>1, TargetsInjective
    <3>6. at[u] # u
      BY <3>5, <2>1, <1>8
    <3>7. PICK i \in 1 .. next - 1 : Covers(moves[i], u)
      BY <3>6, <1>19 DEF Settled
    <3>8. i \in 1 .. Len(moves) /\ i < next
      BY <1>6
    <3>9. u < m.src
      BY <3>7, <3>8, <1>15, <1>16, <1>8, <2>1 DEF Covers
    <3> QED
      BY <3>1, <3>5, <3>9, <2>1, <1>8
  <2>3. rows'[at[u]] = rows[at[u]]
    BY <2>1, <2>2, <1>11
  <2> QED
    BY <2>3, <1>18, <1>19
(* A row of the move arrives.                                              *)
<1>20. ASSUME NEW u \in Kept, ~Settled(u), Covers(m, u)
       PROVE  rows'[at[u]] = u
  <2>1. u \in Slots /\ u \in Nat /\ at[u] \in Slots /\ rows[u] = u
    BY <1>5, <1>18, <1>20 DEF Kept
  <2>2. at[u] = m.dst + (u - m.src) /\ m.src <= u /\ u < m.src + m.count
    BY <1>7, <1>20, <2>1 DEF RunOK, Covers
  <2>3. at[u] \in m.dst .. m.dst + m.count - 1 /\ at[u] - m.dst + m.src = u
    BY <2>1, <2>2, <1>8
  <2> QED
    BY <2>1, <2>3, <1>11
(* A row of a later move lies beyond the move's target.                    *)
<1>21. ASSUME NEW u \in Kept, ~Settled(u), ~Covers(m, u)
       PROVE  rows'[u] = u
  <2>1. u \in Slots /\ u \in Nat /\ u < slot /\ rows[u] = u
    BY <1>5, <1>18, <1>21 DEF Kept
  <2>2. PICK i \in 1 .. Len(moves) : Covers(moves[i], u)
    BY <2>1, <1>4, <1>21 DEF PlanInv, PlanOK, Settled
  <2>3. i # next /\ ~(i < next)
    BY <2>2, <1>3, <1>6, <1>7, <1>21 DEF Settled
  <2>4. m.src + m.count <= u
    BY <2>1, <2>2, <2>3, <1>6, <1>8, <1>15, <1>16 DEF Covers
  <2>5. u \notin m.dst .. m.dst + m.count - 1
    BY <2>1, <2>4, <1>8
  <2> QED
    BY <2>1, <2>5, <1>11
<1>22. \A u \in Kept : rows'[IF Settled(u)' THEN at[u] ELSE u] = u
  BY <1>17, <1>19, <1>20, <1>21
<1>23. RowsOK'
  BY <1>1, <1>2, <1>3, <1>6, <1>22 DEF RowsOK
<1> QED
  BY <1>13, <1>14, <1>23 DEF PlanInv

LEMMA EndMovesInv == ASSUME PlanInv, EndMoves PROVE PlanInv'
<1>1. /\ keep' = keep /\ slot' = slot /\ dst' = dst /\ next' = next /\ run' = run
      /\ moves' = moves /\ at' = at /\ rows' = rows
      /\ phase = "move" /\ phase' = "done" /\ next > Len(moves)
  BY DEF EndMoves
<1>2. Slots' = Slots /\ Kept' = Kept /\ Plan' = Plan
  BY <1>1 DEF Slots, Kept, Plan
<1>3. Typed /\ Targets /\ PlanOK(Plan) /\ RowsOK
  BY DEF PlanInv
<1>4. Typed'
  BY <1>1, <1>2, <1>3 DEF Typed
<1>5. Targets' /\ PlanOK(Plan)'
  BY <1>1, <1>2, <1>3 DEF Targets, PlanOK, RunOK, Covers
<1>6. next = Len(moves) + 1
  <2>1. next \in Nat /\ Len(moves) \in Nat /\ next <= Len(moves) + 1
    BY <1>1, <1>3 DEF Typed, RowsOK
  <2> QED
    BY <2>1, <1>1
<1>7. RowsOK'
  BY <1>1, <1>2, <1>3, <1>6 DEF RowsOK, Settled, Covers
<1> QED
  BY <1>4, <1>5, <1>7 DEF PlanInv

LEMMA StutterInv == ASSUME PlanInv, UNCHANGED compactVars PROVE PlanInv'
<1>1. /\ keep' = keep /\ slot' = slot /\ dst' = dst /\ next' = next /\ run' = run
      /\ moves' = moves /\ at' = at /\ rows' = rows /\ phase' = phase
  BY DEF compactVars
<1>2. Slots' = Slots /\ Kept' = Kept /\ Plan' = Plan
  BY <1>1 DEF Slots, Kept, Plan
<1>3. Typed /\ Targets /\ PlanOK(Plan) /\ RowsOK
  BY DEF PlanInv
<1>4. Typed'
  BY <1>1, <1>2, <1>3 DEF Typed
<1>5. Targets' /\ PlanOK(Plan)'
  BY <1>1, <1>2, <1>3 DEF Targets, PlanOK, RunOK, Covers
<1>6. RowsOK'
  BY <1>1, <1>2, <1>3 DEF RowsOK, Settled, Covers
<1> QED
  BY <1>4, <1>5, <1>6 DEF PlanInv

LEMMA Inductive == CompactSpec => []PlanInv
<1>1. ASSUME PlanInv, [CompactNext]_compactVars PROVE PlanInv'
  <2>1. CASE DropSlot
    BY <1>1, <2>1, DropSlotInv
  <2>2. CASE InPlace
    BY <1>1, <2>2, InPlaceInv
  <2>3. CASE ExtendRun
    BY <1>1, <2>3, ExtendRunInv
  <2>4. CASE StartRun
    BY <1>1, <2>4, StartRunInv
  <2>5. CASE EndPlan
    BY <1>1, <2>5, EndPlanInv
  <2>6. CASE ExecuteMove
    BY <1>1, <2>6, ExecuteMoveInv
  <2>7. CASE EndMoves
    BY <1>1, <2>7, EndMovesInv
  <2>8. CASE UNCHANGED compactVars
    BY <1>1, <2>8, StutterInv
  <2> QED
    BY <1>1, <2>1, <2>2, <2>3, <2>4, <2>5, <2>6, <2>7, <2>8 DEF CompactNext
<1> QED
  BY InitInv, <1>1, PTL DEF CompactSpec

-----------------------------------------------------------------------------
(* Every state of the planner and of the slab is well typed.               *)
THEOREM CompactTypeCorrect == CompactSpec => []CompactTypeOK
<1>1. PlanInv => CompactTypeOK
  BY DEF PlanInv, Typed, CompactTypeOK, Slots
<1> QED
  BY <1>1, Inductive, PTL

(* Runs of the plan go down, in slot order, within the valid rows.         *)
THEOREM MovesGoDown == CompactSpec => []PlanMovesDown
<1>1. ASSUME PlanInv PROVE PlanMovesDown
  <2>1. moves \in Seq(Move) /\ run \in Seq(Move) /\ PlanOK(Plan)
    BY <1>1 DEF PlanInv, Typed
  <2>2. \A i \in 1 .. Len(moves) : i \in 1 .. Len(Plan) /\ Plan[i] = moves[i]
    BY <2>1 DEF Plan
  <2>3. /\ \A i \in 1 .. Len(Plan) : RunOK(Plan[i])
        /\ \A i, j \in 1 .. Len(Plan) : i < j => Plan[i].src + Plan[i].count <= Plan[j].src
    BY <2>1 DEF PlanOK
  <2> QED
    BY <2>2, <2>3 DEF PlanMovesDown, RunOK
<1> QED
  BY <1>1, Inductive, PTL

(* The slab ends with the kept rows, packed and in order.                  *)
THEOREM CompactionPacks == CompactSpec => []Packed
<1>1. ASSUME PlanInv, phase = "done" 
      PROVE  /\ \A i, j \in 0 .. dst - 1 : i < j => rows[i] < rows[j]
             /\ {rows[i] : i \in 0 .. dst - 1} = Kept
  <2>1. /\ run = <<>> /\ slot \notin Slots /\ next = Len(moves) + 1
        /\ \A u \in Kept : rows[IF Settled(u) THEN at[u] ELSE u] = u
    BY <1>1 DEF PlanInv, RowsOK
  <2>2. Plan = moves /\ Len(moves) \in Nat
    BY <1>1, <2>1, NoMore DEF PlanInv, Typed, Plan
  <2>3. \A u \in Kept : u \in Nat /\ u < slot /\ at[u] \in Nat
    BY <1>1, <2>1, AllVisited DEF Kept
  <2>4. \A u \in Kept : rows[at[u]] = u
    <3> SUFFICES ASSUME NEW u \in Kept PROVE Settled(u)
      BY <2>1
    <3>1. at[u] = u \/ \E i \in 1 .. Len(moves) : Covers(moves[i], u)
      BY <1>1, <2>2, <2>3 DEF PlanInv, PlanOK
    <3> QED
      BY <3>1, <2>1, <2>2 DEF Settled
  <2>5. \A i \in 0 .. dst - 1 : rows[i] \in Kept /\ at[rows[i]] = i
    <3> SUFFICES ASSUME NEW i \in 0 .. dst - 1 PROVE rows[i] \in Kept /\ at[rows[i]] = i
      OBVIOUS
    <3>1. PICK u \in Kept : at[u] = i
      BY <1>1 DEF PlanInv, Targets
    <3> QED
      BY <3>1, <2>4
  <2>6. \A u \in Kept : at[u] \in 0 .. dst - 1
    <3>1. dst \in Nat /\ \A u \in Kept : u < slot => at[u] < dst
      BY <1>1 DEF PlanInv, Targets, Typed
    <3> QED
      BY <3>1, <2>3
  <2>7. ASSUME NEW i \in 0 .. dst - 1, NEW j \in 0 .. dst - 1, i < j
        PROVE  rows[i] < rows[j]
    <3>1. rows[i] \in Kept /\ rows[j] \in Kept /\ at[rows[i]] = i /\ at[rows[j]] = j
      BY <2>5
    <3>2. rows[i] \in Nat /\ rows[j] \in Nat /\ rows[i] < slot
      BY <3>1, <2>3
    <3>3. ~(rows[j] < rows[i])
      <4>1. rows[j] < rows[i] => at[rows[j]] < at[rows[i]]
        BY <1>1, <3>1, <3>2 DEF PlanInv, Targets
      <4> QED
        BY <4>1, <3>1, <2>7
    <3>4. rows[i] # rows[j]
      BY <3>1, <2>7
    <3> QED
      BY <3>2, <3>3, <3>4
  <2> QED
    BY <2>4, <2>5, <2>6, <2>7
<1>2. PlanInv => Packed
  BY <1>1 DEF Packed
<1> QED
  BY <1>2, Inductive, PTL

(* How the planner treats the keep flags of a sliding layer: slots below f *)
(* are dropped, the others form one run.                                   *)
Windowed(n, f) ==
  /\ slot \in 0 .. n
  /\ f = 0 \/ slot <= f => moves = <<>> /\ run = <<>>
  /\ f > 0 /\ slot > f =>
       \/ phase = "plan" /\ moves = <<>> /\ run = <<Run(f, 0, slot - f)>>
       \/ phase # "plan" /\ moves = <<Run(f, 0, n - f)>> /\ run = <<>>
  /\ dst = IF slot <= f THEN 0 ELSE slot - f
  /\ phase # "plan" => slot = n
  /\ next \in {1, 2} /\ (phase = "plan" => next = 1) /\ (phase = "done" => next > Len(moves))
  /\ f = 0 \/ next = 1 => rows = [t \in 0 .. n - 1 |-> t]
  /\ next = 2 => \A i \in 0 .. n - f - 1 : rows[i] = f + i

LEMMA WindowInit ==
  ASSUME NEW n \in Nat \ {0}, NEW f \in 0 .. n - 1, CompactInit, Slots = 0 .. n - 1
  PROVE  Windowed(n, f)
<1>1. /\ slot = 0 /\ dst = 0 /\ run = <<>> /\ moves = <<>> /\ phase = "plan" /\ next = 1
      /\ rows = [t \in 0 .. n - 1 |-> t]
  BY DEF CompactInit
<1> QED BY <1>1 DEF Windowed

LEMMA WindowNext ==
  ASSUME NEW n \in Nat \ {0}, NEW f \in 0 .. n - 1,
         keep = [t \in 0 .. n - 1 |-> t >= f], Windowed(n, f), [CompactNext]_compactVars
  PROVE  Windowed(n, f)'
<1>1. Slots = 0 .. n - 1 /\ \A t \in 0 .. n - 1 : keep[t] <=> t >= f
  BY DEF Slots
<1>2. slot \in 0 .. n /\ slot \in Nat /\ f \in Nat /\ f < n /\ dst \in Nat
  BY DEF Windowed
<1>3. CASE DropSlot
  <2>1. /\ phase = "plan" /\ slot < f /\ slot' = slot + 1
        /\ UNCHANGED <<dst, run, moves, phase, next, rows>>
    BY <1>1, <1>2, <1>3 DEF DropSlot
  <2>2. slot' \in 0 .. n /\ slot' <= f
    BY <1>2, <2>1
  <2> QED BY <1>2, <2>1, <2>2 DEF Windowed
<1>4. CASE InPlace
  <2>1. /\ phase = "plan" /\ slot >= f /\ slot < n /\ slot = dst /\ slot' = slot + 1
        /\ dst' = dst + 1 /\ moves' = moves \o run /\ run' = <<>>
        /\ UNCHANGED <<phase, next, rows>>
    BY <1>1, <1>2, <1>4 DEF InPlace, FlushRun, Advances
  <2>2. f = 0
    BY <1>2, <2>1 DEF Windowed
  <2>3. moves = <<>> /\ run = <<>> /\ moves' = <<>>
    BY <2>1, <2>2 DEF Windowed
  <2>4. slot' \in 0 .. n /\ dst' = slot' - f /\ slot' > f
    BY <1>2, <2>1, <2>2
  <2> QED BY <1>2, <2>1, <2>2, <2>3, <2>4 DEF Windowed
<1>5. CASE ExtendRun
  <2>1. /\ phase = "plan" /\ slot >= f /\ slot < n /\ run # <<>> /\ slot' = slot + 1
        /\ run' = <<Run(run[1].src, run[1].dst, run[1].count + 1)>>
        /\ dst' = dst + 1 /\ UNCHANGED <<moves, phase, next, rows>>
    BY <1>1, <1>2, <1>5 DEF ExtendRun, Extends, Advances
  <2>2. f > 0 /\ slot > f
    BY <1>2, <2>1 DEF Windowed
  <2>3. moves = <<>> /\ run = <<Run(f, 0, slot - f)>> /\ dst = slot - f
    BY <1>2, <2>1, <2>2 DEF Windowed
  <2>4. run' = <<Run(f, 0, slot' - f)>>
    <3>1. run[1].src = f /\ run[1].dst = 0 /\ run[1].count = slot - f
      BY <2>3 DEF Run
    <3>2. (slot - f) + 1 = slot' - f
      BY <1>2, <2>1
    <3> QED BY <2>1, <3>1, <3>2
  <2>5. slot' \in 0 .. n /\ slot' > f /\ dst' = slot' - f
    BY <1>2, <2>1, <2>2, <2>3
  <2> QED BY <1>2, <2>1, <2>2, <2>3, <2>4, <2>5 DEF Windowed
<1>6. CASE StartRun
  <2>1. /\ phase = "plan" /\ slot >= f /\ slot < n /\ slot # dst
        /\ slot' = slot + 1 /\ moves' = moves \o run /\ run' = <<Run(slot, dst, 1)>>
        /\ dst' = dst + 1 /\ UNCHANGED <<phase, next, rows>>
    <3>1. phase = "plan" /\ slot \in Slots /\ keep[slot] /\ slot # dst
      BY <1>6 DEF StartRun
    <3>2. slot >= f /\ slot < n
      BY <1>1, <1>2, <3>1
    <3> QED BY <1>6, <3>1, <3>2 DEF StartRun, FlushRun, Advances
  <2>2. slot = f
    <3> SUFFICES ASSUME slot > f PROVE FALSE
      BY <1>2, <2>1
    <3>1. f > 0 /\ dst = slot - f
      BY <1>2, <2>1 DEF Windowed
    <3>2. run = <<Run(f, 0, slot - f)>>
      BY <1>2, <2>1, <3>1 DEF Windowed
    <3>3. run # <<>> /\ run[1].src = f /\ run[1].dst = 0 /\ run[1].count = slot - f
      BY <3>2 DEF Run
    <3>4. f + (slot - f) = slot /\ 0 + (slot - f) = dst
      BY <1>2, <3>1
    <3>5. Extends
      BY <3>3, <3>4 DEF Extends
    <3> QED BY <1>6, <3>5 DEF StartRun
  <2>3. moves = <<>> /\ run = <<>> /\ moves' = <<>> /\ dst = 0 /\ f > 0
    BY <1>2, <2>1, <2>2 DEF Windowed
  <2>4. slot' \in 0 .. n /\ slot' > f /\ dst' = slot' - f /\ run' = <<Run(f, 0, slot' - f)>>
    BY <1>2, <2>1, <2>2, <2>3
  <2> QED BY <1>2, <2>1, <2>3, <2>4 DEF Windowed
<1>7. CASE EndPlan
  <2>1. /\ phase = "plan" /\ slot = n /\ moves' = moves \o run /\ run' = <<>>
        /\ phase' = "move" /\ UNCHANGED <<slot, dst, next, rows>>
    BY <1>1, <1>2, <1>7 DEF EndPlan, FlushRun
  <2>2. CASE f = 0
    <3>1. moves' = <<>>
      BY <2>1, <2>2 DEF Windowed
    <3> QED BY <1>2, <2>1, <2>2, <3>1 DEF Windowed
  <2>3. CASE f > 0
    <3>1. moves = <<>> /\ run = <<Run(f, 0, n - f)>>
      BY <1>2, <2>1, <2>3 DEF Windowed
    <3>2. moves' = <<Run(f, 0, n - f)>>
      BY <2>1, <3>1
    <3> QED BY <1>2, <2>1, <2>3, <3>2 DEF Windowed
  <2> QED BY <1>2, <2>2, <2>3
<1>8. CASE ExecuteMove
  <2>1. /\ phase = "move" /\ next <= Len(moves) /\ rows' = Moved(rows, moves[next])
        /\ next' = next + 1 /\ UNCHANGED <<slot, dst, run, moves, phase>>
    BY <1>8 DEF ExecuteMove
  <2>2. slot = n /\ next \in {1, 2}
    BY <2>1 DEF Windowed
  <2>3. f > 0
    BY <1>2, <2>1, <2>2 DEF Windowed
  <2>4. moves = <<Run(f, 0, n - f)>> /\ Len(moves) = 1 /\ next = 1
    <3>1. slot > f /\ phase # "plan"
      BY <1>2, <2>1, <2>2
    <3>2. moves = <<Run(f, 0, n - f)>>
      BY <2>3, <3>1 DEF Windowed
    <3>3. Len(moves) = 1
      BY <3>2
    <3> QED BY <2>1, <2>2, <3>2, <3>3
  <2>5. rows = [t \in 0 .. n - 1 |-> t]
    BY <2>4 DEF Windowed
  <2>6. ASSUME NEW i \in 0 .. n - f - 1 PROVE rows'[i] = f + i
    <3>1. i \in 0 .. n - 1 /\ i \in 0 .. 0 + (n - f) - 1 /\ i - 0 + f \in 0 .. n - 1
          /\ i - 0 + f = f + i
      BY <1>2
    <3>2. rows' = Moved(rows, Run(f, 0, n - f))
      BY <2>1, <2>4
    <3>3. rows'[i] = rows[i - 0 + f]
      BY <2>5, <3>1, <3>2 DEF Moved, Run
    <3> QED BY <2>5, <3>1, <3>3
  <2>7. next' = 2
    BY <2>1, <2>4
  <2> QED BY <1>2, <2>1, <2>2, <2>3, <2>4, <2>6, <2>7 DEF Windowed
<1>9. CASE EndMoves
  <2>1. /\ phase = "move" /\ next > Len(moves) /\ phase' = "done"
        /\ UNCHANGED <<slot, dst, run, moves, next, rows>>
    BY <1>9 DEF EndMoves
  <2> QED BY <1>2, <2>1 DEF Windowed
<1>10. CASE UNCHANGED compactVars
  BY <1>10 DEF Windowed, compactVars
<1> QED BY <1>3, <1>4, <1>5, <1>6, <1>7, <1>8, <1>9, <1>10 DEF CompactNext

(* The rows a window keeps, as what they are from.                         *)
LEMMA WindowKeeps ==
  ASSUME NEW n \in Nat \ {0}, NEW w \in Nat \ {0}
  PROVE  /\ SwaDeadFrom(n, w) \in 0 .. n - 1
         /\ n - SwaDeadFrom(n, w) = IF n < w THEN n ELSE w
         /\ SwaKeep(n, w) = [t \in 0 .. n - 1 |-> t >= SwaDeadFrom(n, w)]
BY DEF SwaDeadFrom, SwaKeep

(* That, for whatever window the flags are one's.                          *)
WindowInv ==
  \A n \in Nat \ {0}, f \in Nat :
    f \in 0 .. n - 1 /\ keep = [t \in 0 .. n - 1 |-> t >= f] => Windowed(n, f)

(* A sliding layer is compacted by one move at most, which leaves exactly  *)
(* the newest rows of its window in front, for every length and window.    *)
THEOREM WindowMovesOnce == CompactSpec => []WindowIsOneMove
<1>1. CompactInit => WindowInv
  BY WindowInit DEF WindowInv, Slots
<1>2. WindowInv /\ [CompactNext]_compactVars => WindowInv'
  <2> SUFFICES ASSUME WindowInv, [CompactNext]_compactVars, NEW n \in Nat \ {0}, NEW f \in 0 .. n - 1,
                      keep' = [t \in 0 .. n - 1 |-> t >= f]
               PROVE  Windowed(n, f)'
    BY DEF WindowInv
  <2>1. keep' = keep
    BY DEF CompactNext, DropSlot, InPlace, ExtendRun, StartRun, EndPlan, ExecuteMove,
           EndMoves, compactVars
  <2>2. f \in Nat /\ keep = [t \in 0 .. n - 1 |-> t >= f]
    BY <2>1
  <2>3. Windowed(n, f)
    BY <2>2 DEF WindowInv
  <2> QED BY <2>2, <2>3, WindowNext
<1>3. ASSUME WindowInv, CompactTypeOK PROVE WindowIsOneMove
  <2> SUFFICES ASSUME NEW w \in 1 .. MaxLen, phase = "done",
                      keep = SwaKeep(slot, w)
               PROVE  LET n == slot   live == IF n < w THEN n ELSE w IN
                        /\ Len(moves) <= 1 /\ dst = live
                        /\ \A i \in 0 .. live - 1 : rows[i] = n - live + i
    BY DEF WindowIsOneMove
  <2>0. slot \in Nat \ {0} /\ MaxLen \in Nat
    <3>1. slot \in Nat /\ 0 \in DOMAIN keep
      BY CompactAssumption, <1>3 DEF CompactTypeOK
    <3>2. DOMAIN keep = 0 .. slot - 1
      BY DEF SwaKeep
    <3> QED BY <3>1, <3>2, CompactAssumption
  <2>1. PICK n, f : n = slot /\ f = SwaDeadFrom(slot, w)
    OBVIOUS
  <2>2. w \in Nat \ {0} /\ n \in Nat \ {0}
    BY <2>0, <2>1
  <2>3. /\ f \in 0 .. n - 1 /\ f \in Nat
        /\ n - f = IF n < w THEN n ELSE w
        /\ keep = [t \in 0 .. n - 1 |-> t >= f]
    BY <2>1, <2>2, WindowKeeps
  <2>4. Windowed(n, f)
    BY <1>3, <2>2, <2>3 DEF WindowInv
  <2>5. PICK v \in Nat : v = n - f
    BY <2>2, <2>3
  <2>6. Len(moves) <= 1 /\ dst = v
    BY <2>1, <2>2, <2>3, <2>4, <2>5 DEF Windowed
  <2>7. ASSUME NEW i \in 0 .. v - 1 PROVE rows[i] = n - v + i
    <3>1. CASE f = 0
      BY <2>2, <2>3, <2>4, <2>5, <3>1 DEF Windowed
    <3>2. CASE f > 0
      <4>1. next = 2
        BY <2>1, <2>2, <2>3, <2>4, <3>2 DEF Windowed
      <4> QED BY <2>2, <2>3, <2>4, <2>5, <4>1 DEF Windowed
    <3> QED BY <2>3, <3>1, <3>2
  <2> QED BY <2>1, <2>3, <2>5, <2>6, <2>7
<1> QED BY <1>1, <1>2, <1>3, CompactTypeCorrect, PTL DEF CompactSpec

(* Both of them.                                                           *)
THEOREM CompactionIsExact == CompactSpec => []Compacted
<1>1. Packed /\ WindowIsOneMove => Compacted
  BY DEF Compacted
<1> QED BY <1>1, CompactionPacks, WindowMovesOnce, PTL

-----------------------------------------------------------------------------
(***************************************************************************)
(* Attention, for every model shape, threshold, tile size and slot count:  *)
(* replaying a captured graph is the eager step, and decoding reads the    *)
(* context it should.  The first rests on the fact that the dispatch key   *)
(* determines the launches; the second on how the slabs share the context: *)
(*   - FP32 holds every row up to the threshold;                           *)
(*   - the quantised cache decoding uses holds every row of the context;   *)
(*   - without a quantised cache FP32 does.                                *)
(* The second needs callers that enable Q8 at most on a running engine: a  *)
(* late Q4 slab would be filled from FP32 rows that decoding with Q8 never *)
(* wrote.                                                                  *)
(***************************************************************************)
SlotsFaithful ==
  \A g \in slots :
    \E p \in Nat : g.key = Key(p) /\ g.launches = Launches(p)

Context == 0 .. pos - 1
SlabsShare ==
  /\ \A r \in Context : r <= Thresh => r \in fresh["fp32"]
  /\ use = {} => Context \subseteq fresh["fp32"]
  /\ "q4" \in use => Context \subseteq fresh["q4"]
  /\ "q8" \in use /\ "q4" \notin use => Context \subseteq fresh["q8"]

(* What needs no assumption on callers, and the whole inductive invariant. *)
Coherent == AttnTypeOK /\ alloc = use /\ SlotsFaithful
AttnInv == Coherent /\ SlabsShare

-----------------------------------------------------------------------------
(* One layer: equal key entries in equal regimes mean equal kernels. *)
LEMMA LayerKeyDetermines ==
  ASSUME NEW s, NEW p \in Nat, NEW q \in Nat,
         Q4Eff(p) = Q4Eff(q), Q8Eff(p) = Q8Eff(q),
         LayerKey(s, p) = LayerKey(s, q)
  PROVE  Kernel(s, p) = Kernel(s, q)
<1>1. CASE Q4Eff(p)
  <2>1. CASE FusesQ4(s) BY <1>1, <2>1 DEF Kernel
  <2>2. CASE ~FusesQ4(s)
    <3>1. SplitQ(p) = SplitQ(q) BY <1>1, <2>2 DEF LayerKey
    <3> QED BY <1>1, <2>2, <3>1 DEF Kernel
  <2> QED BY <2>1, <2>2
<1>2. CASE ~Q4Eff(p) /\ Q8Eff(p)
  <2>1. CASE Unfused(s)
    <3>1. PartFor(s.kv, p) = PartFor(s.kv, q) BY <1>2, <2>1 DEF LayerKey
    <3> QED BY <1>2, <2>1, <3>1 DEF Kernel
  <2>2. CASE ~Unfused(s)
    <3>1. SplitQ(p) = SplitQ(q) BY <1>2, <2>2 DEF LayerKey
    <3> QED BY <1>2, <2>2, <3>1 DEF Kernel
  <2> QED BY <2>1, <2>2
<1>3. CASE ~Q4Eff(p) /\ ~Q8Eff(p)
  <2> DEFINE Tiled(n) == n > FpTile /\ s.hd <= 128
             Entry(n) == IF Tiled(n) THEN <<4, SplitF(n)>>
                         ELSE IF n > FpSerial THEN <<5, SplitOld(n)>> ELSE <<6, 0>>
             Choice(n) == IF Tiled(n)
                            THEN <<"k_fa2_fp32_split", <<SplitF(n), s.kv>>, SplitF(n)>>
                          ELSE IF n > FpSerial
                            THEN <<"k_flash_gqa_splitk", <<s.heads, SplitOld(n)>>, SplitOld(n)>>
                          ELSE <<"k_flash_gqa", s.heads, 1>>
  <2>1. Entry(p) = Entry(q) BY <1>3 DEF LayerKey
  <2>2. Kernel(s, p) = Choice(p) /\ Kernel(s, q) = Choice(q) BY <1>3 DEF Kernel
  <2>3. Choice(p) = Choice(q) BY <2>1
  <2> QED BY <2>2, <2>3
<1> QED BY <1>1, <1>2, <1>3

(* The key of a position determines everything a graph bakes in.           *)
LEMMA KeyDetermines ==
  ASSUME NEW p \in Nat, NEW q \in Nat, Key(p) = Key(q)
  PROVE  Launches(p) = Launches(q)
<1>1. Q4Eff(p) = Q4Eff(q) BY DEF Key, Q4Eff
<1>2. Q8Eff(p) = Q8Eff(q) BY DEF Key, Q8Eff
<1>3. ASSUME NEW l \in Layer PROVE Kernel(Shape[l], p) = Kernel(Shape[l], q)
  <2>1. LayerKey(Shape[l], p) = LayerKey(Shape[l], q)
    <3> DEFINE f(n) == [k \in Layer |-> LayerKey(Shape[k], n)]
    <3>1. f(p) = f(q) BY DEF Key
    <3>2. f(p)[l] = f(q)[l] BY <3>1
    <3> QED BY <3>2
  <2> QED BY <1>1, <1>2, <2>1, LayerKeyDetermines
<1>4. Writes(p) = Writes(q) BY <1>1, <1>2 DEF Writes, Reads
<1>5. [l \in Layer |-> Kernel(Shape[l], p)] = [l \in Layer |-> Kernel(Shape[l], q)]
  BY <1>3
<1> QED BY <1>4, <1>5 DEF Launches

(* Key and launches change only with the quantised caches.                 *)
LEMMA DispatchStable ==
  ASSUME UNCHANGED <<alloc, use>>
  PROVE  /\ \A p : Key(p)' = Key(p)
         /\ \A p : Launches(p)' = Launches(p)
         /\ \A p : Reads(p)' = Reads(p)
BY DEF Key, LayerKey, Launches, Kernel, Writes, Reads, Q4Eff, Q8Eff

(* While they stay, the slots stay faithful.                               *)
LEMMA SlotsStay ==
  ASSUME SlotsFaithful, UNCHANGED <<alloc, use>>, slots' \subseteq slots
  PROVE  SlotsFaithful'
<1> SUFFICES ASSUME NEW g \in slots'
             PROVE \E p \in Nat : g.key = Key(p)' /\ g.launches = Launches(p)'
  BY DEF SlotsFaithful
<1>1. PICK p \in Nat : g.key = Key(p) /\ g.launches = Launches(p)
  BY DEF SlotsFaithful
<1> QED BY <1>1, DispatchStable

-----------------------------------------------------------------------------
(* Slots and types, whatever callers enable.                               *)

LEMMA InitCoherent == Init => Coherent
<1> SUFFICES ASSUME Init PROVE Coherent OBVIOUS
<1>1. AttnTypeOK BY AttentionAssumption DEF Init, AttnTypeOK, Row, Quant
<1>2. SlotsFaithful BY DEF Init, SlotsFaithful
<1> QED BY <1>1, <1>2 DEF Coherent, Init

(* Writing rows of the cache keeps the types.                              *)
LEMMA FillTypes ==
  ASSUME AttnTypeOK, NEW slabs, NEW written \in SUBSET Row, Fill(slabs, written),
         pos' \in 0 .. MaxCtx, UNCHANGED <<alloc, use, noGraph>>
  PROVE  AttnTypeOK'
<1>1. fresh' \in [Slab -> SUBSET Row] BY DEF Fill, AttnTypeOK
<1> QED BY <1>1 DEF AttnTypeOK

(* A slot that answers to the key of pos was captured with its launches.   *)
LEMMA ReplayFeeds ==
  ASSUME Coherent, DecodeReplay
  PROVE  Fill(Writes(pos), {pos})
<1>1. PICK g \in slots : g.key = Key(pos) /\ Fill(g.launches.writes, {pos})
  BY DEF DecodeReplay
<1>2. PICK p \in Nat : g.key = Key(p) /\ g.launches = Launches(p)
  BY DEF Coherent, SlotsFaithful
<1>3. g.launches = Launches(pos)
  <2>1. pos \in Nat BY AttentionAssumption DEF Coherent, AttnTypeOK
  <2>2. Key(p) = Key(pos) BY <1>1, <1>2
  <2>3. Launches(p) = Launches(pos) BY <2>1, <2>2, KeyDetermines
  <2> QED BY <1>2, <2>3
<1> QED BY <1>1, <1>3 DEF Launches

(* A step that feeds pos, eagerly or by replay.                            *)
LEMMA FeedCoherent ==
  ASSUME Coherent, pos < MaxCtx, Fill(Writes(pos), {pos}), pos' = pos + 1,
         UNCHANGED <<alloc, use, slots, noGraph>>
  PROVE  Coherent'
<1>1. {pos} \in SUBSET Row /\ pos' \in 0 .. MaxCtx
  BY AttentionAssumption DEF Coherent, AttnTypeOK, Row
<1>2. AttnTypeOK' BY <1>1, FillTypes DEF Coherent
<1>3. SlotsFaithful' BY SlotsStay DEF Coherent
<1> QED BY <1>2, <1>3 DEF Coherent

LEMMA CaptureCoherent == Coherent /\ Capture => Coherent'
<1> SUFFICES ASSUME Coherent, Capture PROVE Coherent' OBVIOUS
<1>1. AttnTypeOK' BY DEF Coherent, Capture, AttnTypeOK
<1>2. SlotsFaithful'
  <2> SUFFICES ASSUME NEW g \in slots'
               PROVE \E p \in Nat : g.key = Key(p)' /\ g.launches = Launches(p)'
    BY DEF SlotsFaithful
  <2>1. PICK p \in Nat : g.key = Key(p) /\ g.launches = Launches(p)
    BY AttentionAssumption DEF Coherent, AttnTypeOK, SlotsFaithful, Capture
  <2> QED BY <2>1, DispatchStable DEF Capture
<1> QED BY <1>1, <1>2 DEF Coherent, Capture

LEMMA PrefillCoherent ==
  ASSUME Coherent, NEW n \in Chunks, PrefillBatched(n)
  PROVE  Coherent'
<1>1. pos .. pos + n - 1 \in SUBSET Row /\ pos' \in 0 .. MaxCtx
  BY AttentionAssumption DEF Coherent, AttnTypeOK, Row, PrefillBatched
<1>2. AttnTypeOK' BY <1>1, FillTypes DEF Coherent, PrefillBatched
<1>3. SlotsFaithful' BY SlotsStay DEF Coherent, PrefillBatched
<1> QED BY <1>2, <1>3 DEF Coherent, PrefillBatched

LEMMA RewindCoherent ==
  ASSUME Coherent, NEW p \in 0 .. MaxCtx, Rewind(p)
  PROVE  Coherent'
<1>1. AttnTypeOK' BY AttentionAssumption DEF Coherent, Rewind, AttnTypeOK
<1>2. SlotsFaithful' BY SlotsStay DEF Coherent, Rewind
<1> QED BY <1>1, <1>2 DEF Coherent, Rewind

(* Enabling a cache, Q4 included, drops every slot.                        *)
LEMMA EnableCoherent ==
  ASSUME Coherent, NEW s \in LateEnable, Enable(s)
  PROVE  Coherent'
<1>1. s \in Quant BY AttentionAssumption DEF Quant
<1>2. fresh' \in [Slab -> SUBSET Row]
  <2>1. {r \in fresh["fp32"] : r < pos} \in SUBSET Row
    BY DEF Coherent, AttnTypeOK, Slab
  <2> QED BY <2>1 DEF Coherent, AttnTypeOK, Enable
<1>3. AttnTypeOK' BY <1>1, <1>2 DEF Coherent, AttnTypeOK, Enable
<1>4. SlotsFaithful' BY DEF Enable, SlotsFaithful
<1> QED BY <1>3, <1>4 DEF Coherent, Enable

LEMMA NextCoherent == Coherent /\ [Next]_vars => Coherent'
<1> SUFFICES ASSUME Coherent, [Next]_vars PROVE Coherent' OBVIOUS
<1>1. CASE DecodeEager BY <1>1, FeedCoherent DEF DecodeEager
<1>2. CASE DecodeReplay BY <1>2, ReplayFeeds, FeedCoherent DEF DecodeReplay
<1>3. CASE Capture BY <1>3, CaptureCoherent
<1>4. CASE DropSlots
  <2>1. AttnTypeOK' BY <1>4 DEF Coherent, DropSlots, AttnTypeOK
  <2>2. SlotsFaithful' BY <1>4 DEF DropSlots, SlotsFaithful
  <2> QED BY <1>4, <2>1, <2>2 DEF Coherent, DropSlots
<1>5. CASE \E n \in Chunks : PrefillBatched(n) BY <1>5, PrefillCoherent
<1>6. CASE \E p \in 0 .. MaxCtx : Rewind(p) BY <1>6, RewindCoherent
<1>7. CASE \E s \in LateEnable : Enable(s) BY <1>7, EnableCoherent
<1>8. CASE UNCHANGED vars
  <2>1. AttnTypeOK' BY <1>8 DEF vars, Coherent, AttnTypeOK
  <2>2. SlotsFaithful' BY <1>8, SlotsStay DEF vars, Coherent
  <2> QED BY <1>8, <2>1, <2>2 DEF vars, Coherent
<1> QED BY <1>1, <1>2, <1>3, <1>4, <1>5, <1>6, <1>7, <1>8 DEF Next

(* Slots hold what their key determines, in every behaviour.               *)
THEOREM SlotsAndTypes == Spec => []Coherent
<1> QED BY InitCoherent, NextCoherent, PTL DEF Spec

(* Every field keeps its type, and no cache is used without its slab.      *)
THEOREM AttentionTypes == Spec => []AttnTypeOK
<1>1. Coherent => AttnTypeOK BY DEF Coherent
<1> QED BY <1>1, SlotsAndTypes, PTL

(* graph_slot_key_at captures all of forward_layers' dispatch: wherever a  *)
(* slot is replayed, it does what the eager step would have done.          *)
THEOREM ReplayIsEager == Spec => []ReplayMatchesEager
<1>1. Coherent => ReplayMatchesEager
  <2> SUFFICES ASSUME Coherent, NEW g \in slots, NEW p \in 0 .. MaxCtx, g.key = Key(p)
               PROVE  g.launches = Launches(p)
    BY DEF ReplayMatchesEager
  <2>1. PICK q \in Nat : g.key = Key(q) /\ g.launches = Launches(q)
    BY DEF Coherent, SlotsFaithful
  <2>2. p \in Nat BY AttentionAssumption
  <2>3. Key(q) = Key(p) BY <2>1
  <2>4. Launches(q) = Launches(p) BY <2>2, <2>3, KeyDetermines
  <2> QED BY <2>1, <2>4
<1> QED BY <1>1, SlotsAndTypes, PTL

-----------------------------------------------------------------------------
(* The slabs.  A token fed at pos goes to every slab a later step reads.   *)
LEMMA FedShares ==
  ASSUME AttnTypeOK, SlabsShare, pos < MaxCtx, Fill(Writes(pos), {pos}),
         pos' = pos + 1, UNCHANGED <<alloc, use>>
  PROVE  SlabsShare'
<1> USE AttentionAssumption
<1>1. pos \in Nat /\ pos \in Row /\ Context' = Context \cup {pos}
  BY DEF AttnTypeOK, Context, Row
<1>3. \A s \in Slab : fresh'[s] = IF s \in Writes(pos) THEN fresh[s] \cup {pos}
                                                     ELSE fresh[s] \ {pos}
  BY DEF Fill
<1>4. \A r \in Context : r # pos BY <1>1 DEF Context
<1>5. \A s \in Slab, r \in Context : r \in fresh[s] => r \in fresh'[s]
  BY <1>3, <1>4
<1>6. \A s \in Writes(pos) : s \in Slab => pos \in fresh'[s] BY <1>3
<1>7. pos <= Thresh \/ use = {} => "fp32" \in Writes(pos)
  BY <1>1 DEF Writes, Reads, Q4Eff, Q8Eff
<1>8. use \subseteq Writes(pos) BY DEF Writes, AttnTypeOK
<1>9. \A r \in Context' : r <= Thresh => r \in fresh'["fp32"]
  BY <1>1, <1>5, <1>6, <1>7 DEF SlabsShare, Slab
<1>10. use = {} => Context' \subseteq fresh'["fp32"]
  BY <1>1, <1>5, <1>6, <1>7 DEF SlabsShare, Slab
<1>11. "q4" \in use => Context' \subseteq fresh'["q4"]
  BY <1>1, <1>5, <1>6, <1>8 DEF SlabsShare, Slab, Quant
<1>12. "q8" \in use /\ "q4" \notin use => Context' \subseteq fresh'["q8"]
  BY <1>1, <1>5, <1>6, <1>8 DEF SlabsShare, Slab, Quant
<1> QED BY <1>9, <1>10, <1>11, <1>12 DEF SlabsShare

(* A batch goes to FP32 and to the quantised cache decoding uses.          *)
LEMMA BatchShares ==
  ASSUME AttnTypeOK, SlabsShare, NEW n \in Chunks, PrefillBatched(n)
  PROVE  SlabsShare'
<1> USE AttentionAssumption
<1> DEFINE New == pos .. pos + n - 1
<1>1. n \in Nat /\ pos \in Nat /\ New \subseteq Row /\ Context' = Context \cup New
  BY DEF AttnTypeOK, Context, Row, PrefillBatched
<1>3. \A s \in Slab : fresh'[s] = IF s \in PrefillWrites THEN fresh[s] \cup New
                                                        ELSE fresh[s] \ New
  BY DEF PrefillBatched, Fill
<1>4. \A r \in Context : r \notin New BY <1>1 DEF Context
<1>5. \A s \in Slab, r \in Context : r \in fresh[s] => r \in fresh'[s]
  BY <1>3, <1>4
<1>6. \A s \in Slab : s \in PrefillWrites => New \subseteq fresh'[s] BY <1>3
<1>7. "fp32" \in PrefillWrites /\ ("q4" \in use => "q4" \in PrefillWrites)
      /\ ("q8" \in use /\ "q4" \notin use => "q8" \in PrefillWrites)
  BY DEF PrefillWrites
<1>8. use' = use BY DEF PrefillBatched
<1> HIDE DEF New
<1>9. \A r \in Context' : r <= Thresh => r \in fresh'["fp32"]
  BY <1>1, <1>5, <1>6, <1>7 DEF SlabsShare, Slab
<1>10. use = {} => Context' \subseteq fresh'["fp32"]
  BY <1>1, <1>5, <1>6, <1>7 DEF SlabsShare, Slab
<1>11. "q4" \in use => Context' \subseteq fresh'["q4"]
  BY <1>1, <1>5, <1>6, <1>7 DEF SlabsShare, Slab, Quant
<1>12. "q8" \in use /\ "q4" \notin use => Context' \subseteq fresh'["q8"]
  BY <1>1, <1>5, <1>6, <1>7 DEF SlabsShare, Slab, Quant
<1> QED BY <1>8, <1>9, <1>10, <1>11, <1>12 DEF SlabsShare

(* What Q8 is enabled on, FP32 has in full, unless Q4 stays in charge.     *)
LEMMA EnableShares ==
  ASSUME AttnTypeOK, SlabsShare, Enable("q8"), alloc = use
  PROVE  SlabsShare'
<1> USE AttentionAssumption
<1>1. Context' = Context /\ pos \in Nat BY DEF Enable, Context, AttnTypeOK
<1>2. CASE "q8" \in use
  <2>1. use' = use /\ fresh' = fresh BY <1>2 DEF Enable
  <2> QED BY <1>1, <2>1 DEF SlabsShare, AttnTypeOK
<1>3. CASE "q8" \notin use
  <2> DEFINE Filled == {r \in fresh["fp32"] : r < pos}
  <2>1. use' = use \cup {"q8"} /\ fresh' = [fresh EXCEPT !["q8"] = Filled]
    BY <1>3 DEF Enable
  <2>4. fresh'["fp32"] = fresh["fp32"] /\ fresh'["q4"] = fresh["q4"]
        /\ fresh'["q8"] = Filled
    BY <2>1 DEF AttnTypeOK, Slab, Quant
  <2>5. use \subseteq {"q4"} BY <1>3 DEF AttnTypeOK, Quant
  <2>6. "q4" \notin use => Context \subseteq Filled
    BY <1>1, <2>5 DEF SlabsShare, Context
  <2> HIDE DEF Filled
  <2> QED BY <1>1, <2>1, <2>4, <2>5, <2>6 DEF SlabsShare
<1> QED BY <1>2, <1>3

LEMMA InitShares == Init => SlabsShare
BY DEF Init, SlabsShare, Context

(* Callers that enable Q8 at most keep the slabs shared.                   *)
LEMMA NextAttnInv ==
  ASSUME LateEnable \subseteq {"q8"}, AttnInv, [Next]_vars
  PROVE  AttnInv'
<1>1. Coherent' BY NextCoherent DEF AttnInv
<1> SUFFICES SlabsShare' BY <1>1 DEF AttnInv
<1> USE DEF AttnInv, Coherent
<1>2. CASE DecodeEager BY <1>2, FedShares DEF DecodeEager
<1>3. CASE DecodeReplay BY <1>3, ReplayFeeds, FedShares DEF DecodeReplay
<1>4. CASE Capture BY <1>4 DEF Capture, SlabsShare, Context
<1>5. CASE DropSlots BY <1>5 DEF DropSlots, SlabsShare, Context
<1>6. CASE \E n \in Chunks : PrefillBatched(n) BY <1>6, BatchShares
<1>7. CASE \E p \in 0 .. MaxCtx : Rewind(p)
  <2>1. PICK p \in 0 .. MaxCtx : Rewind(p) BY <1>7
  <2>2. Context' \subseteq Context
    BY <2>1, AttentionAssumption DEF AttnTypeOK, Rewind, Context
  <2> QED BY <2>1, <2>2 DEF Rewind, SlabsShare
<1>8. CASE \E s \in LateEnable : Enable(s) BY <1>8, EnableShares
<1>9. CASE UNCHANGED vars BY <1>9 DEF vars, SlabsShare, Context
<1> QED BY <1>2, <1>3, <1>4, <1>5, <1>6, <1>7, <1>8, <1>9 DEF Next

(* The inductive invariant holds of every behaviour in which Q4 is never   *)
(* enabled late.                                                           *)
THEOREM AttentionInvariant ==
  ASSUME LateEnable \subseteq {"q8"}
  PROVE  Spec => []AttnInv
<1>1. Init => AttnInv BY InitCoherent, InitShares DEF AttnInv
<1>2. AttnInv /\ [Next]_vars => AttnInv' BY NextAttnInv
<1> QED BY <1>1, <1>2, PTL DEF Spec

(* The hybrid cache never lets a decode step attend to a row that does not *)
(* hold the context, here or after any rewind.                             *)
THEOREM DecodingReadsContext ==
  ASSUME LateEnable \subseteq {"q8"}
  PROVE  Spec => []DecodeReadsContext
<1>1. AttnInv => DecodeReadsContext
  <2> SUFFICES ASSUME AttnInv, NEW p \in 0 .. pos, NEW r \in 0 .. p - 1
               PROVE  r \in fresh[Reads(p)]
    BY DEF DecodeReadsContext
  <2>1. r \in Context /\ p \in Nat /\ r < p
    BY AttentionAssumption DEF AttnInv, Coherent, AttnTypeOK, Context
  <2>2. CASE Q4Eff(p)
    BY <2>1, <2>2 DEF Reads, Q4Eff, AttnInv, SlabsShare
  <2>3. CASE ~Q4Eff(p) /\ Q8Eff(p)
    BY <2>1, <2>3 DEF Reads, Q8Eff, AttnInv, SlabsShare
  <2>4. CASE ~Q4Eff(p) /\ ~Q8Eff(p)
    <3>1. p <= Thresh \/ use = {}
      BY <2>1, <2>4, AttentionAssumption DEF Q4Eff, Q8Eff, AttnInv, Coherent, AttnTypeOK, Quant
    <3>2. r <= Thresh \/ use = {} BY <2>1, <3>1, AttentionAssumption
    <3> QED BY <2>1, <2>4, <3>2 DEF Reads, AttnInv, SlabsShare
  <2> QED BY <2>2, <2>3, <2>4
<1> QED BY <1>1, AttentionInvariant, PTL

(* What the batched prefill may miss in FP32 is what decoding above the    *)
(* threshold skipped, and only while a quantised cache is in use.          *)
THEOREM PrefillMissesAreSkips ==
  ASSUME LateEnable \subseteq {"q8"}
  PROVE  Spec => []PrefillMissesOnlySkipped
<1>1. AttnInv => PrefillMissesOnlySkipped
  <2> SUFFICES ASSUME AttnInv, NEW r \in 0 .. pos - 1, r \notin fresh["fp32"]
               PROVE  r > Thresh /\ use # {}
    BY DEF PrefillMissesOnlySkipped
  <2>1. r \in Context /\ r \in Int
    BY DEF Context
  <2> QED BY <2>1, AttentionAssumption DEF AttnInv, SlabsShare
<1> QED BY <1>1, AttentionInvariant, PTL

(* Both of them, in every layer's slabs.                                   *)
THEOREM SlabsAlwaysServe ==
  ASSUME LateEnable \subseteq {"q8"}
  PROVE  Spec => []SlabsServe
<1>1. DecodeReadsContext /\ PrefillMissesOnlySkipped => SlabsServe
  BY DEF SlabsServe
<1> QED BY <1>1, DecodingReadsContext, PrefillMissesAreSkips, PTL

(***************************************************************************)
(* The cache's accounting keeps every layer as long as the context, the    *)
(* rows of every layer that has any those of the context, and the rest     *)
(* clear; a stored image is a cache's, or is refused.                      *)
(***************************************************************************)
(* Element e of a cache whose layers have the widths w.                    *)
LayerAt(w, e) == e \div CachePer(w)
SlotAt(w, e)  == (e % CachePer(w)) \div w[LayerAt(w, e)]
Extent(w)     == 0 .. NLayers * CachePer(w) - 1

(* A cache that tells its caller the truth: every layer as long as the     *)
(* context, the rows of every owner those of the context, the rest cleared.*)
Configured(w, s) ==
  /\ w \in [Layers -> 1 .. MaxWidth] /\ s \in [Layers -> -1 .. NLayers - 1]
  /\ cfg_sane(w, s) /\ SourcesOwn(w, s)
Holds(w, s, m, toks) ==
  \A l \in Layers : s[l] < 0 =>
    \A t \in 0 .. Len(toks) - 1, i \in 0 .. w[l] - 1 :
      m[l * CachePer(w) + t * w[l] + i] = <<toks[t + 1], t, i>>
Tails(w, s, m, n) ==
  \A e \in Extent(w) : s[LayerAt(w, e)] >= 0 \/ SlotAt(w, e) >= n => m[e] = Zero
IsCache(c) ==
  c = [width |-> c.width, src |-> c.src, valid |-> c.valid, slab |-> c.slab,
       ctx |-> c.ctx, dirty |-> c.dirty]
CacheOK(c) ==
  /\ IsCache(c)
  /\ Configured(c.width, c.src)
  /\ c.ctx \in Seq(Token) /\ Len(c.ctx) <= MaxRows
  /\ c.valid = [l \in Layers |-> Len(c.ctx)]
  /\ c.dirty \in Nat /\ DOMAIN c.slab = Extent(c.width)
  /\ Holds(c.width, c.src, c.slab, c.ctx)
  /\ Tails(c.width, c.src, c.slab, Most(Len(c.ctx), c.dirty))

(* The mark stands for the beginning of the context.                       *)
MarkOK ==
  mark # <<>> => \E k \in 0 .. Len(ctx) :
    mark = <<[len |-> [l \in Layers |-> k], ctx |-> SubSeq(ctx, 1, k)]>>

(* The image is that of a cache, with its sum.                             *)
CoveredBy(w, s, v) ==
  <<put_u32(Magic), put_u32(Version), put_u32(0), put_u32(4 * HDR),
    put_u32(NLayers), put_u32(MaxRows), put_u32(HeadDim), put_u32(dtype_size)>>
  \o put_i64(CachePer(w)) \o put_i64(CachePer(w) * NLayers * dtype_size)
  \o [k \in 1 .. 4 |-> put_u32(0)]
  \o PerLayer(w) \o PerLayer(s) \o PerLayer(v)
Image(c) ==
  [words |-> CoveredBy(c.width, c.src, c.valid)
               \o checksum(CoveredBy(c.width, c.src, c.valid)), of |-> c]
ImageOK == image # <<>> => image = <<Image(image[1].of)>> /\ CacheOK(image[1].of)

KvInv == CacheOK(cache) /\ MarkOK /\ ImageOK
-----------------------------------------------------------------------------
(* Where elements lie.                                                     *)

LEMMA Quotient ==
  ASSUME NEW n \in Nat \ {0}, NEW q \in Int, NEW r \in 0 .. n - 1
  PROVE  (n * q + r) % n = r /\ (n * q + r) \div n = q
<1> DEFINE a == n * q + r
           p == a \div n
<1>0. a \in Int /\ a = n * q + r
  OBVIOUS
<1>1. a % n = r
  BY Remainder
<1> HIDE DEF a
<1>2. a = n * p + r /\ p \in Int
  BY <1>0, <1>1, Division
<1> HIDE DEF p
<1>3. n * (q - p) = 0
  <2>1. n * (q - p) = n * q - n * p
    BY <1>2
  <2> QED BY <1>0, <1>2, <2>1
<1>4. ASSUME NEW d \in Int, n * d = 0 PROVE d = 0
  <2>1. CASE d >= 1
    <3>1. n * d >= n BY <2>1
    <3> QED BY <3>1, <1>4
  <2>2. CASE d <= -1
    <3>1. n * d <= -n BY <2>2
    <3> QED BY <3>1, <1>4
  <2> QED BY <2>1, <2>2
<1>5. q = p
  <2>1. q - p \in Int
    BY <1>2
  <2>2. q - p = 0
    BY <1>3, <1>4, <2>1
  <2> QED BY <1>2, <2>2
<1> QED BY <1>1, <1>5 DEF a, p

(* The rows m to n - 1 of a slab of width w are the elements from m * w up *)
(* to n * w.                                                               *)
LEMMA RowsAre ==
  ASSUME NEW w \in Nat \ {0}, NEW x \in Nat, NEW m \in Nat, NEW n \in Nat, m <= n
  PROVE  /\ x \div w \in Nat
         /\ x \in m * w .. m * w + (n - m) * w - 1 <=> x \div w \in m .. n - 1
<1> DEFINE q == x \div w
           r == x % w
<1>1. x = w * q + r /\ r \in 0 .. w - 1 /\ q \in Int
  BY Division
<1> HIDE DEF q, r
<1>2. ASSUME NEW a \in Int, NEW b \in Int, a <= b PROVE w * a <= w * b
  <2>1. b - a \in Nat
    BY <1>2
  <2>2. w * (b - a) >= 0
    BY <2>1
  <2>3. w * (b - a) = w * b - w * a
    OBVIOUS
  <2> QED BY <2>2, <2>3
<1>3. ASSUME NEW a \in Int PROVE w * a <= x <=> a <= q
  <2>1. CASE a <= q
    BY <1>1, <1>2, <2>1
  <2>2. CASE q + 1 <= a
    <3>1. w * (q + 1) <= w * a
      BY <1>1, <1>2, <2>2
    <3>2. w * (q + 1) = w * q + w
      BY <1>1
    <3> QED BY <1>1, <2>2, <3>1, <3>2
  <2> QED BY <1>1, <2>1, <2>2
<1>4. q \in Nat
  <2>1. w * 0 <= x
    OBVIOUS
  <2>2. 0 <= q
    BY <1>3, <2>1
  <2> QED BY <1>1, <2>2
<1>5. m * w + (n - m) * w = w * n /\ m * w = w * m
  OBVIOUS
<1>6. x \in m * w .. m * w + (n - m) * w - 1 <=> (w * m <= x /\ ~(w * n <= x))
  BY <1>5
<1>7. q \in m .. n - 1 <=> (m <= q /\ ~(n <= q))
  BY <1>4
<1>8. (w * m <= x <=> m <= q) /\ (w * n <= x <=> n <= q)
  BY <1>3
<1> QED BY <1>4, <1>6, <1>7, <1>8 DEF q

LEMMA WidestIs ==
  ASSUME NEW w \in [Layers -> 1 .. MaxWidth]
  PROVE  /\ Widest(w) \in Nat \ {0} /\ \A l \in Layers : w[l] <= Widest(w)
         /\ CachePer(w) \in Nat \ {0}
<1> DEFINE S == {w[l] : l \in DOMAIN w}
           T == {MaxWidth - x : x \in S}
           R == OpToRel(<, Nat)
<1>1. /\ MaxWidth \in Nat /\ MaxRows \in Nat \ {0} /\ 0 \in Layers
  BY KvCacheAssumption DEF Layers
<1>2. S \subseteq 1 .. MaxWidth /\ S # {} /\ DOMAIN w = Layers
  BY <1>1
<1>3. T \subseteq Nat /\ T # {}
  <2> HIDE DEF S
  <2>1. \A x \in S : x \in 1 .. MaxWidth
    BY <1>2
  <2>2. \A x \in S : MaxWidth - x \in Nat
    BY <1>1, <2>1
  <2>3. PICK x \in S : TRUE
    BY <1>2
  <2>4. MaxWidth - x \in T
    BY <2>3
  <2> QED BY <2>2, <2>4
<1>4. IsWellFoundedOn(R, Nat)
  BY NatLessThanWellFounded
<1>5. \A u, v \in Nat : u < v => <<u, v>> \in R
  BY DEF OpToRel
<1> HIDE DEF R
<1>6. PICK t \in T : \A u \in T : <<u, t>> \notin R
  BY <1>3, <1>4, WFMin
<1>7. PICK x \in S : t = MaxWidth - x
  OBVIOUS
<1>8. \A l \in DOMAIN w : w[l] <= x
  <2> SUFFICES ASSUME NEW l \in DOMAIN w, w[l] > x PROVE FALSE
    BY <1>2
  <2>1. w[l] \in S /\ x \in S
    OBVIOUS
  <2>2. w[l] \in 1 .. MaxWidth /\ x \in 1 .. MaxWidth
    BY <1>2, <2>1
  <2>3. MaxWidth - w[l] \in T /\ MaxWidth - w[l] < MaxWidth - x
    BY <1>1, <2>1, <2>2
  <2> QED BY <1>3, <1>5, <1>6, <1>7, <2>3
<1>9. Widest(w) \in S /\ \A l \in DOMAIN w : w[l] <= Widest(w)
  <2>1. \E y \in S : \A l \in DOMAIN w : w[l] <= y
    BY <1>8
  <2> QED BY <2>1 DEF Widest
<1>10. Widest(w) \in Nat \ {0}
  <2>1. Widest(w) \in 1 .. MaxWidth
    BY <1>2, <1>9
  <2> QED BY <1>1, <2>1
<1>11. ASSUME NEW a \in Nat \ {0}, NEW b \in Nat \ {0} PROVE a * b \in Nat \ {0}
  BY <1>11
<1>12. CachePer(w) \in Nat \ {0}
  BY <1>1, <1>10, <1>11 DEF CachePer
<1> QED BY <1>2, <1>9, <1>10, <1>12

(* An element lies in a layer.                                             *)
LEMMA InExtent ==
  ASSUME NEW w \in [Layers -> 1 .. MaxWidth], NEW e \in Extent(w)
  PROVE  /\ LayerAt(w, e) \in Layers /\ e % CachePer(w) \in Nat
         /\ w[LayerAt(w, e)] \in Nat \ {0} /\ SlotAt(w, e) \in Nat
<1> DEFINE C == CachePer(w)
           l == e \div C
<1>1. C \in Nat \ {0} /\ NLayers \in Nat
  BY WidestIs, KvCacheAssumption
<1>2. NLayers * C \in Nat
  <2> HIDE DEF C
  <2> QED BY <1>1
<1>3. e \in Nat /\ e < NLayers * C
  BY <1>1, <1>2 DEF Extent
<1>4. e % C \in Nat
  <2> HIDE DEF C
  <2> QED BY <1>1, <1>3
<1>5. e \in 0 * C .. 0 * C + (NLayers - 0) * C - 1
  <2> HIDE DEF C
  <2> QED BY <1>1, <1>2, <1>3
<1>6. l \in 0 .. NLayers - 1
  <2>1. 0 <= NLayers /\ 0 \in Nat
    BY <1>1
  <2> HIDE DEF C
  <2> QED BY <1>1, <1>3, <1>5, <2>1, RowsAre
<1>7. l \in Layers /\ w[l] \in Nat \ {0}
  BY <1>6, KvCacheAssumption DEF Layers
<1> HIDE DEF l, C
<1>8. (e % C) \div w[l] \in Nat
  BY <1>4, <1>7
<1> QED BY <1>4, <1>7, <1>8 DEF LayerAt, SlotAt, l, C

(* The address of a row's dimension is an element of its layer and row.    *)
LEMMA Placed ==
  ASSUME NEW w \in [Layers -> 1 .. MaxWidth], NEW l \in Layers,
         NEW t \in 0 .. MaxRows - 1, NEW i \in 0 .. w[l] - 1,
         NEW e, e = l * CachePer(w) + t * w[l] + i
  PROVE  /\ e \in Extent(w) /\ LayerAt(w, e) = l /\ SlotAt(w, e) = t
         /\ e % CachePer(w) = t * w[l] + i /\ (e % CachePer(w)) % w[l] = i
<1> DEFINE C == CachePer(w)
           x == t * w[l] + i
<1>1. /\ C \in Nat \ {0} /\ NLayers \in Nat /\ MaxRows \in Nat \ {0} /\ l \in Nat
      /\ l <= NLayers - 1 /\ w[l] \in Nat \ {0} /\ t \in Nat /\ i \in Nat
  BY WidestIs, KvCacheAssumption DEF Layers
<1>2. C = Widest(w) * MaxRows /\ Widest(w) \in Nat /\ w[l] <= Widest(w)
  BY WidestIs DEF CachePer
<1> HIDE DEF C
<1>3. PICK v \in Nat \ {0} : v = w[l]
  BY <1>1
<1>4. x \in 0 .. C - 1
  <2>1. x = t * v + i /\ i <= v - 1 /\ t <= MaxRows - 1
    BY <1>1, <1>3
  <2>2. t * v + v = (t + 1) * v /\ (t + 1) * v <= MaxRows * v
    <3>1. MaxRows - (t + 1) \in Nat
      BY <1>1
    <3>2. (MaxRows - (t + 1)) * v >= 0
      BY <3>1
    <3>3. (MaxRows - (t + 1)) * v = MaxRows * v - (t + 1) * v
      BY <1>1
    <3>4. t * v + v = (t + 1) * v
      BY <1>1
    <3>5. MaxRows * v \in Int /\ (t + 1) * v \in Int
      BY <1>1
    <3> QED BY <3>2, <3>3, <3>4, <3>5
  <2>3. MaxRows * v <= C
    <3>1. PICK u \in Nat : u = Widest(w)
      BY <1>2
    <3>2. u - v \in Nat
      BY <1>2, <1>3, <3>1
    <3>3. (u - v) * MaxRows >= 0
      BY <1>1, <3>2
    <3>4. (u - v) * MaxRows = u * MaxRows - MaxRows * v
      BY <1>1
    <3>5. u * MaxRows \in Int /\ MaxRows * v \in Int /\ C = u * MaxRows
      BY <1>1, <1>2, <3>1
    <3> QED BY <3>3, <3>4, <3>5
  <2>4. x \in Nat
    BY <1>1, <2>1
  <2>5. t * v \in Int /\ (t + 1) * v \in Int /\ MaxRows * v \in Int
    BY <1>1
  <2> QED BY <1>1, <2>1, <2>2, <2>3, <2>4, <2>5
<1>5. e = C * l + x
  <2>1. l * C = C * l /\ l * C \in Int /\ t * w[l] \in Int
    BY <1>1
  <2> QED BY <1>1, <2>1 DEF C
<1>6. x = w[l] * t + i
  BY <1>1
<1> HIDE DEF x
<1>7. e % C = x /\ e \div C = l
  <2>1. C \in Nat \ {0} /\ l \in Int /\ x \in 0 .. C - 1
    BY <1>1, <1>4
  <2>2. (C * l + x) % C = x /\ (C * l + x) \div C = l
    BY <2>1, Quotient, Zenon
  <2> QED BY <1>5, <2>2, Zenon
<1>8. x % w[l] = i /\ x \div w[l] = t
  <2>1. w[l] \in Nat \ {0} /\ t \in Int /\ i \in 0 .. w[l] - 1
    BY <1>1
  <2>2. (w[l] * t + i) % w[l] = i /\ (w[l] * t + i) \div w[l] = t
    BY <2>1, Quotient, Zenon
  <2> QED BY <1>6, <2>2, Zenon
<1>9. e \in 0 .. NLayers * C - 1
  <2>1. C * l + C <= NLayers * C
    <3>1. NLayers - (l + 1) \in Nat
      BY <1>1
    <3>2. (NLayers - (l + 1)) * C >= 0
      BY <1>1, <3>1
    <3>3. (NLayers - (l + 1)) * C = NLayers * C - (C * l + C)
      BY <1>1
    <3>4. NLayers * C \in Int /\ C * l \in Int
      BY <1>1
    <3> QED BY <1>1, <3>2, <3>3, <3>4
  <2>2. C * l \in Nat /\ NLayers * C \in Nat
    BY <1>1
  <2> QED BY <1>1, <1>4, <1>5, <2>1, <2>2
<1>10. e % C = t * w[l] + i
  BY <1>7 DEF x
<1> QED BY <1>7, <1>8, <1>9, <1>10 DEF Extent, LayerAt, SlotAt, C

-----------------------------------------------------------------------------
(* The invariant holds of an empty cache and is kept by every call.        *)

LEMMA CacheIs ==
  /\ cache.width = width /\ cache.src = src /\ cache.valid = valid
  /\ cache.slab = slab /\ cache.ctx = ctx /\ cache.dirty = dirty
  /\ cache'.width = width' /\ cache'.src = src' /\ cache'.valid = valid'
  /\ cache'.slab = slab' /\ cache'.ctx = ctx' /\ cache'.dirty = dirty'
  /\ IsCache(cache) /\ IsCache(cache')
BY DEF cache, IsCache

LEMMA KvFacts ==
  ASSUME CacheOK(cache)
  PROVE  /\ Configured(width, src)
         /\ width \in [Layers -> 1 .. MaxWidth] /\ src \in [Layers -> -1 .. NLayers - 1]
         /\ \A l \in Layers : src[l] >= 0 => src[l] \in Layers /\ src[src[l]] < 0
         /\ ctx \in Seq(Token) /\ Len(ctx) \in Nat /\ Len(ctx) <= MaxRows
         /\ MaxRows \in Nat \ {0} /\ dirty \in Nat /\ DOMAIN slab = Extent(width)
         /\ valid = [l \in Layers |-> Len(ctx)]
         /\ Holds(width, src, slab, ctx) /\ Tails(width, src, slab, Most(Len(ctx), dirty))
<1>1. /\ Configured(width, src) /\ ctx \in Seq(Token) /\ Len(ctx) <= MaxRows
      /\ dirty \in Nat /\ DOMAIN slab = Extent(width)
      /\ valid = [l \in Layers |-> Len(ctx)]
      /\ Holds(width, src, slab, ctx) /\ Tails(width, src, slab, Most(Len(ctx), dirty))
  BY CacheIs DEF CacheOK
<1>2. width \in [Layers -> 1 .. MaxWidth] /\ src \in [Layers -> -1 .. NLayers - 1]
      /\ SourcesOwn(width, src)
  BY <1>1 DEF Configured
<1>3. \A l \in Layers : src[l] >= 0 => src[l] \in Layers /\ src[src[l]] < 0
  BY <1>2, KvCacheAssumption DEF SourcesOwn, Layers
<1> QED BY <1>1, <1>2, <1>3, KvCacheAssumption

(* What an action must show that keeps the configuration.                  *)
LEMMA CacheNext ==
  ASSUME CacheOK(cache), UNCHANGED <<width, src>>,
         ctx' \in Seq(Token), Len(ctx') <= MaxRows, dirty' \in Nat,
         valid' = [l \in Layers |-> Len(ctx')], DOMAIN slab' = Extent(width),
         Holds(width, src, slab', ctx'), Tails(width, src, slab', Most(Len(ctx'), dirty'))
  PROVE  CacheOK(cache)'
<1>1. Configured(width', src') /\ DOMAIN slab' = Extent(width')
  BY KvFacts
<1>2. Holds(width', src', slab', ctx') /\ Tails(width', src', slab', Most(Len(ctx'), dirty'))
  OBVIOUS
<1>3. CacheOK(cache')
  BY <1>1, <1>2, CacheIs DEF CacheOK
<1> QED BY <1>3

LEMMA KvInitInv == KvCacheInit => KvInv
<1> SUFFICES ASSUME KvCacheInit PROVE KvInv
  OBVIOUS
<1>1. /\ width \in [Layers -> 1 .. MaxWidth] /\ src \in [Layers -> -1 .. NLayers - 1]
      /\ cfg_sane(width, src) /\ SourcesOwn(width, src)
      /\ valid = [l \in Layers |-> 0]
      /\ slab = [e \in Extent(width) |-> Zero]
      /\ ctx = <<>> /\ mark = <<>> /\ dirty = 0 /\ image = <<>>
  BY DEF KvCacheInit, Extent
<1>2. ctx \in Seq(Token) /\ Len(ctx) = 0 /\ 0 <= MaxRows
  BY <1>1, KvCacheAssumption
<1>3. Configured(width, src)
  BY <1>1 DEF Configured
<1>4. Holds(width, src, slab, ctx)
  BY <1>2 DEF Holds
<1>5. Tails(width, src, slab, Most(Len(ctx), dirty))
  BY <1>1 DEF Tails
<1>6. CacheOK(cache)
  BY <1>1, <1>2, <1>3, <1>4, <1>5, CacheIs DEF CacheOK
<1> QED BY <1>1, <1>6 DEF KvInv, MarkOK, ImageOK

LEMMA KvAppendInv ==
  ASSUME KvInv, KvAppend
  PROVE  KvInv'
<1> DEFINE k == Len(ctx)
<1>0. CacheOK(cache) /\ MarkOK /\ ImageOK
  BY DEF KvInv
<1>1. /\ width \in [Layers -> 1 .. MaxWidth] /\ src \in [Layers -> -1 .. NLayers - 1]
      /\ \A l \in Layers : src[l] >= 0 => src[l] \in Layers /\ src[src[l]] < 0
      /\ ctx \in Seq(Token) /\ k \in Nat /\ k <= MaxRows
      /\ MaxRows \in Nat \ {0} /\ dirty \in Nat /\ DOMAIN slab = Extent(width)
      /\ valid = [l \in Layers |-> k]
  BY <1>0, KvFacts
<1>a. PICK n \in 1 .. Burst :
        \E toks \in [1 .. n -> Token] :
          /\ valid' = Mirrored(Grown(n)) /\ slab' = Written(toks, Grown(n))
          /\ ctx' = SubSeq(ctx \o toks, 1, Least(Len(ctx) + n, MaxRows))
          /\ UNCHANGED <<width, src, mark, dirty, image>>
  BY DEF KvAppend
<1>2. PICK toks \in [1 .. n -> Token] :
        /\ valid' = Mirrored(Grown(n)) /\ slab' = Written(toks, Grown(n))
        /\ ctx' = SubSeq(ctx \o toks, 1, Least(Len(ctx) + n, MaxRows))
        /\ UNCHANGED <<width, src, mark, dirty, image>>
  BY <1>a
<1> HIDE DEF k
<1>3. PICK g \in Nat : g = Least(k + n, MaxRows) /\ k <= g /\ g <= MaxRows /\ g <= k + n
  <2>1. n \in Nat
    BY <1>2
  <2>2. /\ Least(k + n, MaxRows) \in Nat /\ k <= Least(k + n, MaxRows)
        /\ Least(k + n, MaxRows) <= MaxRows /\ Least(k + n, MaxRows) <= k + n
    BY <1>1, <2>1 DEF Least
  <2> QED BY <2>2
<1>4. n \in Nat /\ toks \in Seq(Token) /\ Len(toks) = n
  BY <1>2
<1>5. /\ ctx \o toks \in Seq(Token) /\ Len(ctx \o toks) = k + n
      /\ \A t \in 1 .. k : (ctx \o toks)[t] = ctx[t]
      /\ \A t \in k + 1 .. k + n : (ctx \o toks)[t] = toks[t - k]
  <2>1. /\ ctx \o toks \in Seq(Token) /\ Len(ctx \o toks) = k + n
        /\ \A t \in 1 .. k + n :
             (ctx \o toks)[t] = IF t <= k THEN ctx[t] ELSE toks[t - k]
    BY <1>1, <1>4, ConcatProperties DEF k
  <2>2. \A t \in 1 .. k : t \in 1 .. k + n /\ t <= k
    BY <1>1, <1>4
  <2>3. \A t \in k + 1 .. k + n : t \in 1 .. k + n /\ ~(t <= k)
    BY <1>1, <1>4
  <2> QED BY <2>1, <2>2, <2>3
<1> DEFINE both == ctx \o toks
<1> HIDE DEF both
<1>6. ctx' = SubSeq(both, 1, g)
  BY <1>2, <1>3 DEF k, both
<1>7. /\ ctx' \in Seq(Token) /\ Len(ctx') = g
      /\ \A t \in 1 .. g : ctx'[t] = both[t]
  <2>1. both \in Seq(Token) /\ Len(both) = k + n
    BY <1>5 DEF both
  <2>2. /\ SubSeq(both, 1, g) \in Seq(Token) /\ Len(SubSeq(both, 1, g)) = g
        /\ \A t \in 1 .. g : SubSeq(both, 1, g)[t] = both[t]
    BY <1>1, <1>3, <1>4, <2>1
  <2> QED BY <1>6, <2>2
<1>8. Grown(n) = [l \in Layers |-> IF src[l] >= 0 THEN k ELSE g]
  BY <1>1, <1>3 DEF Grown
<1> DEFINE new == Grown(n)
<1>9. \A l \in Layers : src[l] < 0 => new[l] = g
  BY <1>1, <1>8
<1>10. valid' = [l \in Layers |-> g]
  <2> HIDE DEF new
  <2>1. ASSUME NEW l \in Layers
        PROVE  (IF src[l] >= 0 /\ src[l] < NLayers THEN new[src[l]] ELSE new[l]) = g
    <3>1. CASE src[l] >= 0
      <4>1. src[l] \in Layers /\ src[src[l]] < 0 /\ src[l] < NLayers
        BY <1>1, <3>1, KvCacheAssumption DEF Layers
      <4> QED BY <1>9, <3>1, <4>1
    <3>2. CASE ~(src[l] >= 0)
      <4>1. src[l] < 0
        BY <1>1, <3>2
      <4> QED BY <1>9, <3>2, <4>1
    <3> QED BY <3>1, <3>2
  <2>2. valid' = Mirrored(new)
    BY <1>2 DEF new
  <2> QED BY <2>1, <2>2 DEF Mirrored
<1>11. /\ DOMAIN slab' = Extent(width)
       /\ \A e \in Extent(width) :
            slab'[e] = IF src[LayerAt(width, e)] < 0
                          /\ SlotAt(width, e) \in valid[LayerAt(width, e)] .. new[LayerAt(width, e)] - 1
                       THEN <<toks[SlotAt(width, e) - valid[LayerAt(width, e)] + 1],
                              SlotAt(width, e), DimOf(e)>> ELSE slab[e]
  BY <1>1, <1>2 DEF Written, LayerAt, SlotAt, LayerOf, SlotOf, Inside
<1>12. ASSUME NEW e \in Extent(width)
       PROVE  slab'[e] = IF src[LayerAt(width, e)] < 0 /\ SlotAt(width, e) \in k .. g - 1
                         THEN <<toks[SlotAt(width, e) - k + 1], SlotAt(width, e), DimOf(e)>>
                         ELSE slab[e]
  <2>1. LayerAt(width, e) \in Layers
    BY <1>1, InExtent
  <2>2. valid[LayerAt(width, e)] = k
    BY <1>1, <2>1
  <2> QED BY <1>9, <1>11, <2>1, <2>2
<1> HIDE DEF new
<1>13. ASSUME NEW l \in Layers, src[l] < 0,
              NEW t \in 0 .. Len(ctx') - 1, NEW i \in 0 .. width[l] - 1
       PROVE  slab'[l * CachePer(width) + t * width[l] + i] = <<ctx'[t + 1], t, i>>
  <2>1. PICK e : e = l * CachePer(width) + t * width[l] + i
    OBVIOUS
  <2>2. t \in 0 .. MaxRows - 1 /\ t \in 0 .. g - 1
    BY <1>1, <1>3, <1>7
  <2>3. /\ e \in Extent(width) /\ LayerAt(width, e) = l /\ SlotAt(width, e) = t
        /\ (e % CachePer(width)) % width[l] = i
    <3>1. width \in [Layers -> 1 .. MaxWidth]
      BY <1>1
    <3>2. PICK w, u, v : w = width /\ u = t /\ v = i
      OBVIOUS
    <3>3. /\ w \in [Layers -> 1 .. MaxWidth] /\ u \in 0 .. MaxRows - 1
          /\ v \in 0 .. w[l] - 1 /\ e = l * CachePer(w) + u * w[l] + v
      BY <1>13, <2>1, <2>2, <3>1, <3>2
    <3>4. /\ e \in Extent(w) /\ LayerAt(w, e) = l /\ SlotAt(w, e) = u
          /\ (e % CachePer(w)) % w[l] = v
      BY <3>3, Placed
    <3> QED BY <3>2, <3>4
  <2>4. DimOf(e) = i
    BY <2>3 DEF DimOf, Inside, LayerOf, LayerAt
  <2>5. CASE t >= k
    <3>1. t \in k .. g - 1 /\ t + 1 \in k + 1 .. k + n /\ t + 1 \in 1 .. g
          /\ (t + 1) - k = t - k + 1
      BY <1>1, <1>3, <1>4, <2>2, <2>5
    <3>2. slab'[e] = <<toks[t - k + 1], t, i>>
      BY <1>12, <1>13, <2>3, <2>4, <3>1
    <3>3. ctx'[t + 1] = toks[t - k + 1]
      BY <1>5, <1>7, <3>1 DEF both
    <3> QED BY <2>1, <3>2, <3>3
  <2>6. CASE t < k
    <3>1. t \notin k .. g - 1 /\ t + 1 \in 1 .. k /\ t + 1 \in 1 .. g /\ t \in 0 .. k - 1
      BY <1>1, <1>3, <2>2, <2>6
    <3>2. slab'[e] = slab[e]
      BY <1>12, <2>3, <3>1
    <3>3. slab[e] = <<ctx[t + 1], t, i>>
      <4>1. Holds(width, src, slab, ctx) /\ t \in 0 .. Len(ctx) - 1
        BY <1>0, <3>1, KvFacts DEF k
      <4> QED BY <1>13, <2>1, <4>1 DEF Holds
    <3>4. ctx'[t + 1] = ctx[t + 1]
      BY <1>5, <1>7, <3>1 DEF both
    <3> QED BY <2>1, <3>2, <3>3, <3>4
  <2> QED BY <1>1, <2>2, <2>5, <2>6
<1>14. ASSUME NEW e \in Extent(width),
              src[LayerAt(width, e)] >= 0 \/ SlotAt(width, e) >= Most(Len(ctx'), dirty')
       PROVE  slab'[e] = Zero
  <2>1. SlotAt(width, e) \in Nat /\ LayerAt(width, e) \in Layers
    BY <1>1, InExtent
  <2>2. dirty' = dirty /\ Len(ctx') = g
    BY <1>2, <1>7
  <2>a. src[LayerAt(width, e)] \in Int
    BY <1>1, <2>1
  <2>3. ~(src[LayerAt(width, e)] < 0 /\ SlotAt(width, e) \in k .. g - 1)
    BY <1>1, <1>3, <1>14, <2>1, <2>2, <2>a DEF Most
  <2>4. slab'[e] = slab[e]
    BY <1>12, <2>3
  <2>5. src[LayerAt(width, e)] >= 0 \/ SlotAt(width, e) >= Most(k, dirty)
    BY <1>1, <1>3, <1>14, <2>1, <2>2 DEF Most
  <2> QED BY <1>0, <2>4, <2>5, KvFacts DEF k, Tails
<1>15. CacheOK(cache)'
  <2>1. ctx' \in Seq(Token) /\ Len(ctx') <= MaxRows /\ dirty' \in Nat
        /\ valid' = [l \in Layers |-> Len(ctx')] /\ DOMAIN slab' = Extent(width)
        /\ UNCHANGED <<width, src>>
    BY <1>1, <1>2, <1>3, <1>7, <1>10, <1>11
  <2>2. Holds(width, src, slab', ctx') /\ Tails(width, src, slab', Most(Len(ctx'), dirty'))
    BY <1>13, <1>14 DEF Holds, Tails
  <2> QED BY <1>0, <2>1, <2>2, CacheNext
<1>16. MarkOK'
  <2>1. ASSUME mark # <<>>
        PROVE  \E j \in 0 .. Len(ctx') :
                 mark = <<[len |-> [l \in Layers |-> j], ctx |-> SubSeq(ctx', 1, j)]>>
    <3>1. PICK j \in 0 .. k :
            mark = <<[len |-> [l \in Layers |-> j], ctx |-> SubSeq(ctx, 1, j)]>>
      BY <1>0, <2>1 DEF MarkOK, k
    <3>2. SubSeq(ctx', 1, j) = SubSeq(ctx, 1, j)
      <4>1. j \in Nat /\ j <= k /\ j <= g
        BY <1>1, <1>3
      <4>2. /\ SubSeq(ctx', 1, j) \in Seq(Token) /\ Len(SubSeq(ctx', 1, j)) = j
            /\ \A t \in 1 .. j : SubSeq(ctx', 1, j)[t] = ctx'[t]
        BY <1>7, <4>1
      <4>3. /\ SubSeq(ctx, 1, j) \in Seq(Token) /\ Len(SubSeq(ctx, 1, j)) = j
            /\ \A t \in 1 .. j : SubSeq(ctx, 1, j)[t] = ctx[t]
        BY <1>1, <4>1 DEF k
      <4>4. \A t \in 1 .. j : ctx'[t] = ctx[t]
        <5>1. \A t \in 1 .. j : t \in 1 .. k /\ t \in 1 .. g
          BY <1>1, <1>3, <4>1
        <5> QED BY <1>5, <1>7, <5>1 DEF both
      <4> QED BY <4>2, <4>3, <4>4, SeqEqual
    <3>3. j \in 0 .. Len(ctx')
      BY <1>1, <1>3, <1>7
    <3> QED BY <3>1, <3>2, <3>3
  <2>2. mark' = mark
    BY <1>2
  <2> QED BY <2>1, <2>2 DEF MarkOK
<1>17. ImageOK'
  BY <1>0, <1>2 DEF ImageOK
<1> QED BY <1>15, <1>16, <1>17 DEF KvInv

(* The beginning of a context, and the beginning of that.                  *)
LEMMA Prefixes ==
  ASSUME NEW toks \in Seq(Token), NEW j \in 0 .. Len(toks)
  PROVE  /\ SubSeq(toks, 1, j) \in Seq(Token) /\ Len(SubSeq(toks, 1, j)) = j
         /\ \A t \in 1 .. j : SubSeq(toks, 1, j)[t] = toks[t]
         /\ \A i \in 0 .. j : SubSeq(SubSeq(toks, 1, j), 1, i) = SubSeq(toks, 1, i)
<1>1. j \in Nat /\ j <= Len(toks) /\ Len(toks) \in Nat
  OBVIOUS
<1> DEFINE s == SubSeq(toks, 1, j)
<1>2. s \in Seq(Token) /\ Len(s) = j /\ \A t \in 1 .. j : s[t] = toks[t]
  BY <1>1
<1> HIDE DEF s
<1>3. ASSUME NEW i \in 0 .. j PROVE SubSeq(s, 1, i) = SubSeq(toks, 1, i)
  <2>1. i \in Nat /\ i <= Len(s) /\ i <= Len(toks)
    BY <1>1, <1>2
  <2>2. /\ SubSeq(s, 1, i) \in Seq(Token) /\ Len(SubSeq(s, 1, i)) = i
        /\ \A t \in 1 .. i : SubSeq(s, 1, i)[t] = s[t]
    BY <1>2, <2>1
  <2>3. /\ SubSeq(toks, 1, i) \in Seq(Token) /\ Len(SubSeq(toks, 1, i)) = i
        /\ \A t \in 1 .. i : SubSeq(toks, 1, i)[t] = toks[t]
    BY <1>1, <2>1
  <2>4. \A t \in 1 .. i : s[t] = toks[t]
    BY <1>1, <1>2
  <2> QED BY <2>2, <2>3, <2>4, SeqEqual
<1> QED BY <1>2, <1>3 DEF s

LEMMA HoldsPrefix ==
  ASSUME NEW w, NEW s, NEW m, NEW toks \in Seq(Token), NEW j \in 0 .. Len(toks),
         Holds(w, s, m, toks)
  PROVE  Holds(w, s, m, SubSeq(toks, 1, j))
<1>1. /\ Len(SubSeq(toks, 1, j)) = j /\ \A t \in 1 .. j : SubSeq(toks, 1, j)[t] = toks[t]
  BY Prefixes
<1>2. ASSUME NEW l \in Layers, s[l] < 0, NEW t \in 0 .. j - 1, NEW i \in 0 .. w[l] - 1
      PROVE  m[l * CachePer(w) + t * w[l] + i] = <<SubSeq(toks, 1, j)[t + 1], t, i>>
  <2>1. t \in 0 .. Len(toks) - 1 /\ t + 1 \in 1 .. j
    OBVIOUS
  <2>2. m[l * CachePer(w) + t * w[l] + i] = <<toks[t + 1], t, i>>
    BY <1>2, <2>1 DEF Holds
  <2> QED BY <1>1, <2>1, <2>2
<1> QED BY <1>1, <1>2 DEF Holds

LEMMA KvMarkInv ==
  ASSUME KvInv, KvMark
  PROVE  KvInv'
<1>1. CacheOK(cache) /\ ImageOK
  BY DEF KvInv
<1>2. ctx \in Seq(Token) /\ Len(ctx) \in Nat /\ valid = [l \in Layers |-> Len(ctx)]
  BY <1>1, KvFacts
<1>3. /\ mark' = <<[len |-> valid, ctx |-> ctx]>> /\ image' = image /\ ctx' = ctx
      /\ cache' = cache
  BY DEF KvMark, cache
<1>4. CacheOK(cache)'
  BY <1>1, <1>3
<1>5. SubSeq(ctx, 1, Len(ctx)) = ctx /\ Len(ctx) \in 0 .. Len(ctx)
  BY <1>2
<1>6. mark' = <<[len |-> [l \in Layers |-> Len(ctx)], ctx |-> SubSeq(ctx', 1, Len(ctx))]>>
  BY <1>2, <1>3, <1>5
<1>7. MarkOK'
  BY <1>3, <1>5, <1>6 DEF MarkOK
<1>8. ImageOK'
  BY <1>1, <1>3 DEF ImageOK
<1> QED BY <1>4, <1>7, <1>8 DEF KvInv

LEMMA KvRestoreInv ==
  ASSUME KvInv, KvRestore
  PROVE  KvInv'
<1>1. CacheOK(cache) /\ ImageOK
  BY DEF KvInv
<1>2. /\ ctx \in Seq(Token) /\ Len(ctx) \in Nat /\ Len(ctx) <= MaxRows /\ MaxRows \in Nat
      /\ dirty \in Nat /\ DOMAIN slab = Extent(width)
      /\ Holds(width, src, slab, ctx) /\ Tails(width, src, slab, Most(Len(ctx), dirty))
      /\ width \in [Layers -> 1 .. MaxWidth]
  BY <1>1, KvFacts
<1>3. /\ valid' = mark[1].len /\ ctx' = mark[1].ctx /\ dirty' = Most(dirty, Len(ctx))
      /\ UNCHANGED <<width, src, slab, mark, image>> /\ mark # <<>>
  BY DEF KvRestore
<1>4. PICK j \in 0 .. Len(ctx) :
        mark = <<[len |-> [l \in Layers |-> j], ctx |-> SubSeq(ctx, 1, j)]>>
  BY <1>3 DEF KvInv, MarkOK
<1>5. valid' = [l \in Layers |-> j] /\ ctx' = SubSeq(ctx, 1, j)
  BY <1>3, <1>4
<1>6. /\ ctx' \in Seq(Token) /\ Len(ctx') = j /\ j \in Nat /\ j <= Len(ctx)
      /\ SubSeq(ctx', 1, j) = SubSeq(ctx, 1, j)
  <2>1. /\ SubSeq(ctx, 1, j) \in Seq(Token) /\ Len(SubSeq(ctx, 1, j)) = j
        /\ \A i \in 0 .. j : SubSeq(SubSeq(ctx, 1, j), 1, i) = SubSeq(ctx, 1, i)
    BY <1>2, Prefixes
  <2> QED BY <1>2, <1>5, <2>1
<1>7. Holds(width, src, slab', ctx')
  BY <1>2, <1>3, <1>5, HoldsPrefix
<1>8. Tails(width, src, slab', Most(Len(ctx'), dirty'))
  <2>1. Most(Len(ctx'), dirty') \in Nat /\ Most(Len(ctx'), dirty') >= Most(Len(ctx), dirty)
        /\ Most(Len(ctx), dirty) \in Nat
    BY <1>2, <1>3, <1>6 DEF Most
  <2>2. \A e \in Extent(width) : SlotAt(width, e) \in Nat
    BY <1>2, InExtent
  <2> QED BY <1>2, <1>3, <2>1, <2>2 DEF Tails
<1>9. CacheOK(cache)'
  <2>1. dirty' \in Nat /\ Len(ctx') <= MaxRows /\ DOMAIN slab' = Extent(width)
        /\ valid' = [l \in Layers |-> Len(ctx')] /\ UNCHANGED <<width, src>>
    BY <1>2, <1>3, <1>5, <1>6 DEF Most
  <2> QED BY <1>1, <1>6, <1>7, <1>8, <2>1, CacheNext
<1>10. MarkOK'
  <2>1. j \in 0 .. Len(ctx')
    BY <1>6
  <2>2. mark' = <<[len |-> [l \in Layers |-> j], ctx |-> SubSeq(ctx', 1, j)]>>
    BY <1>3, <1>4, <1>6
  <2> QED BY <2>1, <2>2 DEF MarkOK
<1>11. ImageOK'
  BY <1>1, <1>3 DEF ImageOK
<1> QED BY <1>9, <1>10, <1>11 DEF KvInv

LEMMA KvTruncateInv ==
  ASSUME KvInv, KvTruncate
  PROVE  KvInv'
<1> DEFINE k == Len(ctx)
<1>1. CacheOK(cache) /\ ImageOK
  BY DEF KvInv
<1>2. /\ ctx \in Seq(Token) /\ k \in Nat /\ k <= MaxRows /\ MaxRows \in Nat
      /\ dirty \in Nat /\ DOMAIN slab = Extent(width) /\ valid = [l \in Layers |-> k]
      /\ Holds(width, src, slab, ctx) /\ Tails(width, src, slab, Most(k, dirty))
      /\ width \in [Layers -> 1 .. MaxWidth]
  BY <1>1, KvFacts
<1>3. PICK n \in 0 .. MaxRows, emit_zero \in BOOLEAN :
        /\ valid' = Shortened(n)
        /\ slab' = IF emit_zero THEN Cleared(Shortened(n)) ELSE slab
        /\ ctx' = SubSeq(ctx, 1, Least(n, k))
        /\ dirty' = IF emit_zero THEN dirty ELSE Most(dirty, k)
        /\ mark' = IF mark # <<>> /\ n < Len(mark[1].ctx) THEN <<>> ELSE mark
        /\ UNCHANGED <<width, src, image>>
  BY DEF KvTruncate
<1>a. n \in Nat /\ Least(n, k) \in Nat /\ Least(n, k) <= k /\ Least(n, k) <= n
  BY <1>2 DEF Least
<1>4. PICK j \in 0 .. k : j = Least(n, k) /\ j <= n /\ j \in Nat
  <2>1. Least(n, k) \in 0 .. k
    BY <1>2, <1>a
  <2> QED BY <1>a, <2>1
<1>5. /\ ctx' = SubSeq(ctx, 1, j) /\ ctx' \in Seq(Token) /\ Len(ctx') = j /\ j <= k
      /\ \A i \in 0 .. j : SubSeq(ctx', 1, i) = SubSeq(ctx, 1, i)
  <2>1. j \in 0 .. Len(ctx)
    BY <1>4
  <2>2. /\ SubSeq(ctx, 1, j) \in Seq(Token) /\ Len(SubSeq(ctx, 1, j)) = j
        /\ \A i \in 0 .. j : SubSeq(SubSeq(ctx, 1, j), 1, i) = SubSeq(ctx, 1, i)
    BY <1>2, <2>1, Prefixes
  <2> QED BY <1>2, <1>3, <1>4, <2>2
<1>6. Shortened(n) = [l \in Layers |-> j]
  BY <1>2, <1>4 DEF Shortened
<1> HIDE DEF k
(* Only rows that are dropped are cleared.                                 *)
<1>7. /\ DOMAIN slab' = Extent(width)
      /\ \A e \in Extent(width) :
           slab'[e] = IF emit_zero /\ SlotAt(width, e) \in j .. k - 1 THEN Zero ELSE slab[e]
  <2>1. CASE ~emit_zero
    BY <1>2, <1>3, <2>1
  <2>2. CASE emit_zero
    <3>1. slab' = Cleared([l \in Layers |-> j])
      BY <1>3, <1>6, <2>2
    <3>2. DOMAIN slab' = Extent(width)
      BY <1>2, <3>1 DEF Cleared
    <3>3. ASSUME NEW e \in Extent(width)
          PROVE  slab'[e] = IF SlotAt(width, e) \in j .. k - 1 THEN Zero ELSE slab[e]
      <4> DEFINE l == LayerAt(width, e)
                 x == e % CachePer(width)
      <4>1. l \in Layers /\ x \in Nat /\ width[l] \in Nat \ {0}
        BY <1>2, InExtent
      <4>2. l = LayerOf(e) /\ x = Inside(e) /\ SlotAt(width, e) = x \div width[l]
        BY DEF LayerAt, LayerOf, Inside, SlotAt
      <4> HIDE DEF l, x
      <4>3. ZeroRange(l, [y \in Layers |-> j]) =
              [offset |-> j * width[l], n |-> (k - j) * width[l]]
        BY <1>2, <4>1 DEF ZeroRange
      <4>4. slab'[e] = IF x \in j * width[l] .. j * width[l] + (k - j) * width[l] - 1
                       THEN Zero ELSE slab[e]
        BY <1>2, <3>1, <4>2, <4>3 DEF Cleared
      <4>5. x \in j * width[l] .. j * width[l] + (k - j) * width[l] - 1
              <=> x \div width[l] \in j .. k - 1
        <5>1. PICK w \in Nat \ {0} : w = width[l]
          BY <4>1
        <5>2. x \in Nat /\ j \in Nat /\ k \in Nat /\ j <= k
          BY <1>2, <1>4, <1>5, <4>1
        <5>3. x \in j * w .. j * w + (k - j) * w - 1 <=> x \div w \in j .. k - 1
          BY <5>2, RowsAre
        <5> QED BY <5>1, <5>3
      <4> QED BY <4>2, <4>4, <4>5
    <3> QED BY <2>2, <3>2, <3>3
  <2> QED BY <2>1, <2>2
<1>8. Holds(width, src, slab', ctx')
  <2>1. Holds(width, src, slab, ctx')
    BY <1>2, <1>5, HoldsPrefix DEF k
  <2>2. ASSUME NEW l \in Layers, src[l] < 0,
               NEW t \in 0 .. Len(ctx') - 1, NEW i \in 0 .. width[l] - 1
        PROVE  slab'[l * CachePer(width) + t * width[l] + i] = <<ctx'[t + 1], t, i>>
    <3>1. PICK e, w, u, v :
            e = l * CachePer(width) + t * width[l] + i /\ w = width /\ u = t /\ v = i
      OBVIOUS
    <3>2. t \in 0 .. j - 1 /\ t \in 0 .. MaxRows - 1
      BY <1>2, <1>4, <1>5
    <3>3. /\ w \in [Layers -> 1 .. MaxWidth] /\ u \in 0 .. MaxRows - 1
          /\ v \in 0 .. w[l] - 1 /\ e = l * CachePer(w) + u * w[l] + v
      BY <1>2, <2>2, <3>1, <3>2
    <3>4. e \in Extent(w) /\ SlotAt(w, e) = u
      BY <3>3, Placed
    <3>5. e \in Extent(width) /\ SlotAt(width, e) \notin j .. k - 1
      BY <1>2, <1>4, <3>1, <3>2, <3>4
    <3>6. slab'[e] = slab[e]
      BY <1>7, <3>5
    <3>7. slab[e] = <<ctx'[t + 1], t, i>>
      BY <2>1, <2>2, <3>1 DEF Holds
    <3> QED BY <3>1, <3>6, <3>7
  <2> QED BY <2>2 DEF Holds
<1>9. Tails(width, src, slab', Most(Len(ctx'), dirty'))
  <2> SUFFICES ASSUME NEW e \in Extent(width),
                      src[LayerAt(width, e)] >= 0 \/ SlotAt(width, e) >= Most(j, dirty')
               PROVE  slab'[e] = Zero
    BY <1>5 DEF Tails
  <2>1. SlotAt(width, e) \in Nat
    BY <1>2, InExtent
  <2>2. src[LayerAt(width, e)] >= 0 \/ SlotAt(width, e) >= Most(k, dirty) => slab[e] = Zero
    BY <1>2 DEF Tails
  <2>3. CASE ~emit_zero
    <3>1. dirty' = Most(dirty, k) /\ slab'[e] = slab[e]
      BY <1>3, <2>3
    <3>2. SlotAt(width, e) >= Most(j, dirty') => SlotAt(width, e) >= Most(k, dirty)
      BY <1>2, <1>4, <2>1, <3>1 DEF Most
    <3> QED BY <2>2, <3>1, <3>2
  <2>4. CASE emit_zero
    <3>1. dirty' = dirty
      BY <1>3, <2>4
    <3>2. SlotAt(width, e) >= Most(j, dirty') =>
            SlotAt(width, e) >= Most(k, dirty) \/ SlotAt(width, e) \in j .. k - 1
      BY <1>2, <1>4, <2>1, <3>1 DEF Most
    <3> QED BY <1>7, <2>2, <2>4, <3>2
  <2> QED BY <2>3, <2>4
<1>10. CacheOK(cache)'
  <2>1. dirty' \in Nat /\ Len(ctx') <= MaxRows /\ DOMAIN slab' = Extent(width)
        /\ valid' = [l \in Layers |-> Len(ctx')] /\ UNCHANGED <<width, src>>
    <3>1. dirty' \in Nat
      BY <1>2, <1>3 DEF Most, k
    <3> QED BY <1>2, <1>3, <1>4, <1>5, <1>6, <1>7, <3>1
  <2> QED BY <1>1, <1>5, <1>8, <1>9, <2>1, CacheNext
<1>11. MarkOK'
  <2>1. CASE mark' = <<>>
    BY <2>1 DEF MarkOK
  <2>2. CASE mark' # <<>>
    <3>1. mark' = mark /\ mark # <<>> /\ ~(n < Len(mark[1].ctx))
      BY <1>3, <2>2
    <3>2. PICK i \in 0 .. Len(ctx) :
            mark = <<[len |-> [l \in Layers |-> i], ctx |-> SubSeq(ctx, 1, i)]>>
      BY <3>1 DEF KvInv, MarkOK
    <3>3. Len(mark[1].ctx) = i /\ i \in Nat
      <4>1. Len(SubSeq(ctx, 1, i)) = i
        BY <1>2, Prefixes
      <4> QED BY <3>2, <4>1
    <3>4. i <= n /\ i <= k
      BY <1>a, <3>1, <3>2, <3>3, <1>2 DEF k
    <3>5. i \in 0 .. j
      BY <1>2, <1>4, <1>a, <3>3, <3>4 DEF Least
    <3>6. mark' = <<[len |-> [l \in Layers |-> i], ctx |-> SubSeq(ctx', 1, i)]>>
      BY <1>5, <3>1, <3>2, <3>5
    <3>7. i \in 0 .. Len(ctx')
      BY <1>5, <3>5
    <3> QED BY <3>6, <3>7 DEF MarkOK
  <2> QED BY <2>1, <2>2
<1>12. ImageOK'
  BY <1>1, <1>3 DEF ImageOK
<1> QED BY <1>10, <1>11, <1>12 DEF KvInv

LEMMA SaveInv ==
  ASSUME KvInv, Save
  PROVE  KvInv'
<1>1. CacheOK(cache) /\ MarkOK
  BY DEF KvInv
<1>2. cache' = cache /\ ctx' = ctx /\ mark' = mark
      /\ image' = <<[words |-> Covered \o checksum(Covered), of |-> cache]>>
  BY DEF Save, cache
<1>3. Covered = CoveredBy(cache.width, cache.src, cache.valid)
  BY CacheIs DEF Covered, CoveredBy
<1>4. image' = <<Image(cache)>> /\ image'[1].of = cache
  BY <1>2, <1>3 DEF Image
<1>5. ImageOK'
  BY <1>1, <1>4 DEF ImageOK
<1>6. MarkOK'
  BY <1>1, <1>2 DEF MarkOK
<1> QED BY <1>1, <1>2, <1>5, <1>6 DEF KvInv
-----------------------------------------------------------------------------
(* The image of a cache: the words of it that are read back.               *)
Word == {<<x>> : x \in 0 .. W - 1}

LEMMA WordIs ==
  /\ W \in Nat \ {0} /\ W \div 2 \in Nat /\ W \div 2 <= W - 1 /\ NLayers <= W \div 2 - 1
  /\ MaxRows <= W \div 2 - 1 /\ MaxWidth <= W \div 2 - 1
  /\ \A v \in Int : put_u32(v) \in Word
  /\ \A v \in 0 .. W \div 2 - 1 : v % W = v
  /\ \A v \in -1 .. W \div 2 - 1 : Signed(v % W) = v
<1>1. /\ W \in Nat /\ NLayers \in Nat \ {0} /\ NLayers \in 0 .. W \div 2 - 1
      /\ MaxRows \in 0 .. W \div 2 - 1 /\ MaxWidth \in 0 .. W \div 2 - 1 /\ W % 2 = 0
  BY KvCacheAssumption
<1>2. W = 2 * (W \div 2) + (W % 2) /\ W \div 2 \in Int
  BY <1>1, Division
<1>3. PICK h \in Int : h = W \div 2
  BY <1>2
<1>4. W = 2 * h /\ h >= 2
  BY <1>1, <1>2, <1>3
<1>5. W \in Nat \ {0} /\ h \in Nat /\ h <= W - 1
  BY <1>4
<1>6. ASSUME NEW v \in Int PROVE put_u32(v) \in Word
  <2>1. v % W \in 0 .. W - 1
    BY <1>5, Division
  <2> QED BY <2>1 DEF put_u32, Word
<1>7. ASSUME NEW v \in 0 .. h - 1 PROVE v % W = v
  <2>1. v \in 0 .. W - 1 /\ 0 \in Int
    BY <1>4
  <2>2. (W * 0 + v) % W = v
    BY <1>5, <2>1, Remainder
  <2>3. W * 0 + v = v
    BY <1>5, <2>1
  <2> QED BY <2>2, <2>3
<1>8. ASSUME NEW v \in -1 .. h - 1 PROVE Signed(v % W) = v
  <2>1. CASE v >= 0
    <3>1. v % W = v
      BY <1>7, <2>1
    <3> QED BY <1>3, <1>4, <2>1, <3>1 DEF Signed
  <2>2. CASE v = -1
    <3>1. W - 1 \in 0 .. W - 1 /\ -1 \in Int
      BY <1>4
    <3>2. (W * (-1) + (W - 1)) % W = W - 1
      BY <1>5, <3>1, Remainder
    <3>3. W * (-1) + (W - 1) = -1
      BY <1>5
    <3>4. v % W = W - 1
      BY <2>2, <3>2, <3>3
    <3> QED BY <1>3, <1>4, <2>2, <3>4 DEF Signed
  <2> QED BY <2>1, <2>2
<1> QED BY <1>1, <1>3, <1>5, <1>6, <1>7, <1>8

(* A part of the image, joined to what is before it.                       *)
Joins(z, a, b, m, n) ==
  /\ z \in Seq(Word) /\ Len(z) = m + n
  /\ \A i \in 1 .. m : z[i] = a[i]
  /\ \A i \in 1 .. n : z[m + i] = b[i]
LEMMA Joined ==
  ASSUME NEW a \in Seq(Word), NEW b \in Seq(Word), NEW m \in Nat, NEW n \in Nat, NEW z,
         Len(a) = m, Len(b) = n, z = a \o b
  PROVE  Joins(z, a, b, m, n)
<1>1. /\ z \in Seq(Word) /\ Len(z) = Len(a) + Len(b)
      /\ \A i \in 1 .. Len(a) + Len(b) : z[i] = IF i <= Len(a) THEN a[i] ELSE b[i - Len(a)]
  BY ConcatProperties
<1>2. ASSUME NEW i \in 1 .. n PROVE z[m + i] = b[i]
  <2>1. m + i \in 1 .. Len(a) + Len(b) /\ ~(m + i <= Len(a)) /\ (m + i) - Len(a) = i
    OBVIOUS
  <2> QED BY <1>1, <2>1
<1> QED BY <1>1, <1>2 DEF Joins

LEMMA PerLayerIs ==
  ASSUME NEW f, \A l \in Layers : f[l] \in Int
  PROVE  /\ PerLayer(f) \in Seq(Word) /\ Len(PerLayer(f)) = NLayers
         /\ \A l \in Layers : PerLayer(f)[l + 1] = <<f[l] % W>>
<1>1. NLayers \in Nat
  BY KvCacheAssumption
<1>2. \A k \in 1 .. NLayers : k - 1 \in Layers /\ put_u32(f[k - 1]) \in Word
  BY <1>1, WordIs DEF Layers
<1>3. PerLayer(f) \in [1 .. NLayers -> Word]
  BY <1>2 DEF PerLayer
<1>4. ASSUME NEW l \in Layers PROVE PerLayer(f)[l + 1] = <<f[l] % W>>
  <2>1. l + 1 \in 1 .. NLayers /\ (l + 1) - 1 = l
    BY <1>1 DEF Layers
  <2> QED BY <2>1 DEF PerLayer, put_u32
<1> QED BY <1>1, <1>3, <1>4

LEMMA HeaderIs ==
  ASSUME NEW w \in [Layers -> 1 .. MaxWidth], NEW h,
         h = <<put_u32(Magic), put_u32(Version), put_u32(0), put_u32(4 * HDR),
               put_u32(NLayers), put_u32(MaxRows), put_u32(HeadDim), put_u32(dtype_size)>>
             \o put_i64(CachePer(w)) \o put_i64(CachePer(w) * NLayers * dtype_size)
             \o [k \in 1 .. 4 |-> put_u32(0)]
  PROVE  /\ h \in Seq(Word) /\ Len(h) = 16
         /\ h[1] = put_u32(Magic) /\ h[2] = put_u32(Version) /\ h[5] = put_u32(NLayers)
<1> DEFINE a == <<put_u32(Magic), put_u32(Version), put_u32(0), put_u32(4 * HDR),
                  put_u32(NLayers), put_u32(MaxRows), put_u32(HeadDim), put_u32(dtype_size)>>
           b == put_i64(CachePer(w))
           c == put_i64(CachePer(w) * NLayers * dtype_size)
           d == [k \in 1 .. 4 |-> put_u32(0)]
<1>1. a \in Seq(Word) /\ Len(a) = 8
      /\ a[1] = put_u32(Magic) /\ a[2] = put_u32(Version) /\ a[5] = put_u32(NLayers)
  <2>1. /\ put_u32(Magic) \in Word /\ put_u32(Version) \in Word /\ put_u32(0) \in Word
        /\ put_u32(4 * HDR) \in Word /\ put_u32(NLayers) \in Word
        /\ put_u32(MaxRows) \in Word /\ put_u32(HeadDim) \in Word
        /\ put_u32(dtype_size) \in Word
    <3>1. /\ Magic \in Int /\ Version \in Int /\ 4 * HDR \in Int /\ NLayers \in Int
          /\ MaxRows \in Int /\ HeadDim \in Int /\ dtype_size \in Int /\ 0 \in Int
      BY KvCacheAssumption DEF Magic, Version, HDR, dtype_size
    <3> QED BY <3>1, WordIs
  <2> QED BY <2>1
<1>2. ASSUME NEW v \in Int
      PROVE  put_i64(v) \in Seq(Word) /\ Len(put_i64(v)) = 2
  <2>1. v \div W \in Int
    BY WordIs, Division
  <2>2. <<v % W>> \in Word /\ <<(v \div W) % W>> \in Word
    BY <2>1, WordIs DEF put_u32
  <2> QED BY <2>2 DEF put_i64
<1>3. b \in Seq(Word) /\ Len(b) = 2 /\ c \in Seq(Word) /\ Len(c) = 2
  <2>1. CachePer(w) \in Int
    BY WidestIs
  <2>2. CachePer(w) * NLayers * dtype_size \in Int
    BY <2>1, KvCacheAssumption DEF dtype_size
  <2> QED BY <1>2, <2>1, <2>2
<1>4. d \in Seq(Word) /\ Len(d) = 4
  <2>1. put_u32(0) \in Word
    BY WordIs
  <2>2. d \in [1 .. 4 -> Word]
    BY <2>1
  <2> QED BY <2>2
<1>5. PICK y, z : y = a \o b /\ z = y \o c /\ h = z \o d
  OBVIOUS
<1> HIDE DEF a, b, c, d
<1>6. 8 \in Nat /\ 2 \in Nat /\ 10 \in Nat /\ 12 \in Nat /\ 4 \in Nat
      /\ 8 + 2 = 10 /\ 10 + 2 = 12 /\ 12 + 4 = 16
  OBVIOUS
<1>7. Joins(y, a, b, 8, 2)
  BY <1>1, <1>3, <1>5, <1>6, Joined, Zenon
<1>8. Joins(z, y, c, 10, 2)
  <2>1. y \in Seq(Word) /\ Len(y) = 10
    BY <1>6, <1>7 DEF Joins
  <2> QED BY <1>3, <1>5, <1>6, <2>1, Joined, Zenon
<1>9. Joins(h, z, d, 12, 4)
  <2>1. z \in Seq(Word) /\ Len(z) = 12
    <3>1. z \in Seq(Word) /\ Len(z) = 10 + 2
      BY <1>8 DEF Joins
    <3> QED BY <1>6, <3>1, Zenon
  <2>2. 12 \in Nat /\ 4 \in Nat /\ d \in Seq(Word) /\ Len(d) = 4 /\ h = z \o d
    BY <1>4, <1>5, <1>6
  <2> QED BY <2>1, <2>2, Joined, Zenon
<1>10. \A i \in 1 .. 8 : i \in 1 .. 10 /\ i \in 1 .. 12
  OBVIOUS
<1>11. \A i \in 1 .. 8 : h[i] = a[i]
  BY <1>7, <1>8, <1>9, <1>10 DEF Joins
<1> QED BY <1>1, <1>6, <1>9, <1>11 DEF Joins

(* What the checksum covers of the image of a cache.                       *)
Laid(x, w, s, v) ==
  /\ x \in Seq(Word) /\ Len(x) = 16 + 3 * NLayers
  /\ x[1] = put_u32(Magic) /\ x[2] = put_u32(Version) /\ x[5] = put_u32(NLayers)
  /\ \A l \in Layers : /\ x[16 + (l + 1)] = <<w[l] % W>>
                       /\ x[16 + NLayers + (l + 1)] = <<s[l] % W>>
                       /\ x[16 + 2 * NLayers + (l + 1)] = <<v[l] % W>>
LEMMA CoveredIs ==
  ASSUME NEW w \in [Layers -> 1 .. MaxWidth], NEW s \in [Layers -> -1 .. NLayers - 1],
         NEW v \in [Layers -> 0 .. MaxRows],
         NEW x, x = CoveredBy(w, s, v)
  PROVE  Laid(x, w, s, v)
<1> DEFINE h == <<put_u32(Magic), put_u32(Version), put_u32(0), put_u32(4 * HDR),
                  put_u32(NLayers), put_u32(MaxRows), put_u32(HeadDim), put_u32(dtype_size)>>
                \o put_i64(CachePer(w)) \o put_i64(CachePer(w) * NLayers * dtype_size)
                \o [k \in 1 .. 4 |-> put_u32(0)]
           a == PerLayer(w)
           b == PerLayer(s)
           c == PerLayer(v)
<1>1. /\ h \in Seq(Word) /\ Len(h) = 16
      /\ h[1] = put_u32(Magic) /\ h[2] = put_u32(Version) /\ h[5] = put_u32(NLayers)
  BY HeaderIs, Zenon
<1>2. x = ((h \o a) \o b) \o c
  BY DEF CoveredBy
<1> HIDE DEF h
<1>3. NLayers \in Nat /\ MaxRows \in Nat /\ MaxWidth \in Nat
  BY KvCacheAssumption
<1>4. /\ a \in Seq(Word) /\ Len(a) = NLayers /\ \A l \in Layers : a[l + 1] = <<w[l] % W>>
      /\ b \in Seq(Word) /\ Len(b) = NLayers /\ \A l \in Layers : b[l + 1] = <<s[l] % W>>
      /\ c \in Seq(Word) /\ Len(c) = NLayers /\ \A l \in Layers : c[l + 1] = <<v[l] % W>>
  <2>1. \A l \in Layers : w[l] \in Int /\ s[l] \in Int /\ v[l] \in Int
    BY <1>3
  <2> QED BY <2>1, PerLayerIs
<1> HIDE DEF a, b, c
<1>a. PICK y, z : y = h \o a /\ z = y \o b /\ x = z \o c
  BY <1>2
<1>b. PICK m \in Nat, n \in Nat : m = 16 + NLayers /\ n = m + NLayers
  BY <1>3
<1>5. Joins(y, h, a, 16, NLayers)
  <2>1. 16 \in Nat
    OBVIOUS
  <2> QED BY <1>1, <1>3, <1>4, <1>a, <2>1, Joined, Zenon
<1>7. Joins(z, y, b, m, NLayers)
  <2>1. y \in Seq(Word) /\ Len(y) = m
    BY <1>5, <1>b DEF Joins
  <2> QED BY <1>3, <1>4, <1>a, <2>1, Joined, Zenon
<1>9. Joins(x, z, c, n, NLayers)
  <2>1. z \in Seq(Word) /\ Len(z) = n
    BY <1>7, <1>b DEF Joins
  <2> QED BY <1>3, <1>4, <1>a, <2>1, Joined, Zenon
<1>10. \A i \in 1 .. 16 : x[i] = h[i]
  <2>1. \A i \in 1 .. 16 : i \in 1 .. m /\ i \in 1 .. n
    BY <1>3, <1>b
  <2> QED BY <1>5, <1>7, <1>9, <2>1 DEF Joins
<1>11. ASSUME NEW l \in Layers
       PROVE  /\ x[16 + (l + 1)] = <<w[l] % W>>
              /\ x[16 + NLayers + (l + 1)] = <<s[l] % W>>
              /\ x[16 + 2 * NLayers + (l + 1)] = <<v[l] % W>>
  <2>1. /\ l + 1 \in 1 .. NLayers /\ 16 + (l + 1) \in 1 .. m /\ 16 + (l + 1) \in 1 .. n
        /\ m + (l + 1) \in 1 .. n /\ m + (l + 1) = 16 + NLayers + (l + 1)
        /\ n + (l + 1) = 16 + 2 * NLayers + (l + 1)
    BY <1>3, <1>b DEF Layers
  <2>2. x[16 + (l + 1)] = a[l + 1]
    <3>1. x[16 + (l + 1)] = z[16 + (l + 1)]
      BY <1>9, <2>1 DEF Joins
    <3>2. z[16 + (l + 1)] = y[16 + (l + 1)]
      BY <1>7, <2>1 DEF Joins
    <3>3. y[16 + (l + 1)] = a[l + 1]
      BY <1>5, <2>1 DEF Joins
    <3> QED BY <3>1, <3>2, <3>3
  <2>3. x[m + (l + 1)] = b[l + 1] /\ x[n + (l + 1)] = c[l + 1]
    BY <1>7, <1>9, <2>1 DEF Joins
  <2> QED BY <1>4, <2>1, <2>2, <2>3
<1>12. Len(x) = 16 + 3 * NLayers
  <2>1. Len(x) = n + NLayers
    BY <1>9 DEF Joins
  <2> QED BY <1>3, <1>b, <2>1
<1> QED BY <1>1, <1>9, <1>10, <1>11, <1>12 DEF Joins, Laid

(* An image: what its sum covers, and the sum.                             *)
Sealed(ws, x, n) ==
  /\ Len(ws) = n + 2 /\ DOMAIN ws = 1 .. n + 2
  /\ \A i \in 1 .. n : ws[i] = x[i]
  /\ ws[n + 1] = <<"lo", x>> /\ ws[n + 2] = <<"hi", x>>
  /\ \E S : ws \in Seq(S)
LEMMA Sealing ==
  ASSUME NEW x \in Seq(Word), NEW n \in Nat, Len(x) = n
  PROVE  Sealed(x \o checksum(x), x, n)
<1> DEFINE S == Word \cup {<<"lo", x>>, <<"hi", x>>}
           c == checksum(x)
           ws == x \o c
<1>1. x \in Seq(S)
  <2>1. x \in [1 .. n -> Word]
    OBVIOUS
  <2>2. x \in [1 .. n -> S]
    BY <2>1
  <2> QED BY <2>2
<1>2. c \in Seq(S) /\ Len(c) = 2 /\ c[1] = <<"lo", x>> /\ c[2] = <<"hi", x>>
  BY DEF checksum
<1> HIDE DEF S, c
<1>3. /\ ws \in Seq(S) /\ Len(ws) = Len(x) + Len(c)
      /\ \A i \in 1 .. Len(x) + Len(c) : ws[i] = IF i <= Len(x) THEN x[i] ELSE c[i - Len(x)]
  BY <1>1, <1>2, ConcatProperties
<1> HIDE DEF ws
<1>4. Len(ws) = n + 2 /\ DOMAIN ws = 1 .. n + 2
  BY <1>2, <1>3
<1>5. /\ \A i \in 1 .. n : i \in 1 .. Len(x) + Len(c) /\ i <= Len(x)
      /\ n + 1 \in 1 .. Len(x) + Len(c) /\ ~(n + 1 <= Len(x)) /\ (n + 1) - Len(x) = 1
      /\ n + 2 \in 1 .. Len(x) + Len(c) /\ ~(n + 2 <= Len(x)) /\ (n + 2) - Len(x) = 2
  BY <1>2
<1>6. ws[n + 1] = c[1] /\ ws[n + 2] = c[2] /\ \A i \in 1 .. n : ws[i] = x[i]
  BY <1>3, <1>5
<1>7. Sealed(ws, x, n)
  BY <1>2, <1>3, <1>4, <1>6 DEF Sealed
<1> QED BY <1>7 DEF ws, c

(* What was accepted passed every check.                                   *)
LEMMA Accepted ==
  ASSUME NEW ws, Len(ws) \in Nat
  PROVE  Deserialized(ws) = 0 <=>
           /\ Len(ws) >= Need(1) /\ ws[1] = put_u32(Magic) /\ ws[2] = put_u32(Version)
           /\ ~(Len(ws) < Need(LayersIn(ws))) /\ SumHolds(ws)
           /\ cfg_sane(WidthIn(ws), SrcIn(ws))
<1>1. Need(1) = 21
  BY DEF Need, HDR
<1>2. CASE Len(ws) < Need(1)
  BY <1>1, <1>2 DEF Deserialized
<1>3. CASE Len(ws) >= Need(1) /\ (ws[1] # put_u32(Magic) \/ ws[2] # put_u32(Version))
  <2>1. ~(Len(ws) < Need(1))
    BY <1>1, <1>3
  <2>2. Deserialized(ws) = -2
    BY <1>3, <2>1 DEF Deserialized
  <2> QED BY <1>3, <2>2
<1>4. CASE ~(Len(ws) < Need(1)) /\ ws[1] = put_u32(Magic) /\ ws[2] = put_u32(Version)
  <2>1. Len(ws) >= Need(1)
    BY <1>1, <1>4
  <2>2. Deserialized(ws) =
          IF Len(ws) < Need(LayersIn(ws)) THEN -4
          ELSE IF ~SumHolds(ws) THEN -3
          ELSE IF ~cfg_sane(WidthIn(ws), SrcIn(ws)) THEN -5 ELSE 0
    BY <1>4 DEF Deserialized
  <2> QED BY <1>4, <2>1, <2>2
<1> QED BY <1>1, <1>2, <1>3, <1>4

(* A reading that differs from the image is not one.                       *)
LEMMA Refused ==
  ASSUME NEW x \in Seq(Word), Len(x) = 16 + 3 * NLayers, x[5] = put_u32(NLayers),
         NEW ws, Sealed(ws, x, 16 + 3 * NLayers), NEW r \in Readings(ws), r # ws
  PROVE  Deserialized(r) # 0
<1> SUFFICES ASSUME Deserialized(r) = 0 PROVE FALSE
  OBVIOUS
<1>1. NLayers \in Nat \ {0} /\ Changes \subseteq 1 .. W - 1 /\ NLayers \in 0 .. W \div 2 - 1
  BY KvCacheAssumption
<1>2. PICK n \in Nat : n = 16 + 3 * NLayers /\ n >= 19
  BY <1>1
<1>3. /\ Len(ws) = n + 2 /\ DOMAIN ws = 1 .. n + 2
      /\ \A i \in 1 .. n : ws[i] = x[i]
      /\ ws[n + 1] = <<"lo", x>> /\ ws[n + 2] = <<"hi", x>>
  BY <1>2 DEF Sealed
<1>4. PICK S : ws \in Seq(S)
  BY DEF Sealed
<1>5. NLayers % W = NLayers /\ W \in Nat \ {0}
  BY <1>1, WordIs
<1>6. ws[5] = <<NLayers>>
  BY <1>2, <1>3, <1>5 DEF put_u32
<1>7. /\ Need(1) = 21 /\ Need(NLayers) = n + 2
  BY <1>1, <1>2 DEF Need, HDR
<1>8. ASSUME NEW m \in 0 .. Len(ws) - 1, r = SubSeq(ws, 1, m) PROVE FALSE
  <2>1. m \in Nat /\ m < n + 2 /\ m <= Len(ws)
    BY <1>2, <1>3, <1>8
  <2>2. Len(r) = m /\ \A i \in 1 .. m : r[i] = ws[i]
    BY <1>4, <1>8, <2>1
  <2>3. Len(r) >= Need(1) /\ ~(Len(r) < Need(LayersIn(r)))
    <3>1. Len(r) \in Nat
      BY <2>1, <2>2
    <3> QED BY <3>1, Accepted
  <2>4. r[5] = <<NLayers>>
    BY <1>6, <1>7, <2>1, <2>2, <2>3
  <2>5. LayersIn(r) = NLayers
    BY <2>4 DEF LayersIn
  <2> QED BY <1>2, <1>7, <2>1, <2>2, <2>3, <2>5
<1>9. ASSUME NEW k \in DOMAIN ws, NEW d \in Changes, r = [ws EXCEPT ![k] = Damaged(@, d)]
      PROVE  FALSE
  <2> DEFINE z == Damaged(ws[k], d)
  <2>1. k \in 1 .. n + 2 /\ d \in 1 .. W - 1
    BY <1>1, <1>3
  <2>2. /\ Len(r) = n + 2 /\ r[k] = z
        /\ \A i \in 1 .. n + 2 : i # k => r[i] = ws[i]
    <3>1. r = [ws EXCEPT ![k] = z]
      BY <1>9
    <3>2. DOMAIN r = 1 .. n + 2 /\ r[k] = z /\ \A i \in 1 .. n + 2 : i # k => r[i] = ws[i]
      BY <1>3, <2>1, <3>1
    <3>3. r \in [1 .. n + 2 -> S \cup {z}]
      <4>1. \A i \in 1 .. n + 2 : ws[i] \in S
        BY <1>3, <1>4
      <4>2. r = [i \in 1 .. n + 2 |-> r[i]]
        BY <1>3, <3>1
      <4>3. \A i \in 1 .. n + 2 : r[i] \in S \cup {z}
        BY <3>2, <4>1
      <4> QED BY <4>2, <4>3
    <3>4. Len(r) = n + 2
      BY <1>2, <3>3
    <3> QED BY <3>2, <3>4
  <2>3. ~(Len(r) < Need(LayersIn(r))) /\ SumHolds(r)
    <3>1. Len(r) \in Nat
      BY <1>2, <2>2
    <3> QED BY <3>1, Accepted
  <2>4. ASSUME NEW i \in 1 .. n
        PROVE  x[i] \in Word /\ Len(x[i]) = 1 /\ x[i][1] \in 0 .. W - 1
    <3>1. x[i] \in Word
      BY <1>2
    <3> QED BY <3>1 DEF Word
  (* The words where a sum would be, and what it would have to be.         *)
  <2>5. ASSUME NEW p \in Nat, p = LayersIn(r), p <= NLayers
        PROVE  /\ r[17 + 3 * p] = <<"lo", SubSeq(r, 1, 16 + 3 * p)>>
               /\ r[18 + 3 * p] = <<"hi", SubSeq(r, 1, 16 + 3 * p)>>
    <3>1. PICK q \in Nat : q = 16 + 3 * p
      BY <2>5
    <3>2. Need(p) = q + 2 /\ (q + 2) - 1 = q + 1 /\ (q + 2) - 2 = q
      BY <3>1 DEF Need, HDR
    <3>3. SubSeq(r, q + 1, q + 2) = checksum(SubSeq(r, 1, q))
      BY <2>3, <2>5, <3>2 DEF SumHolds
    <3>4. SubSeq(r, q + 1, q + 2) = <<r[q + 1], r[q + 2]>>
      <4> DEFINE T == {r[q + 1], r[q + 2]}
      <4>1. \A i \in q + 1 .. q + 2 : r[i] \in T
        BY <3>1
      <4>2. /\ SubSeq(r, q + 1, q + 2) \in Seq(T)
            /\ Len(SubSeq(r, q + 1, q + 2)) = IF q + 1 <= q + 2 THEN q + 2 - (q + 1) + 1 ELSE 0
            /\ \A i \in 1 .. q + 2 - (q + 1) + 1 : SubSeq(r, q + 1, q + 2)[i] = r[q + 1 + i - 1]
        <5>1. q + 1 \in Int /\ q + 2 \in Int
          BY <3>1
        <5> HIDE DEF T
        <5> QED BY <4>1, <5>1, SubSeqProperties
      <4>3. <<r[q + 1], r[q + 2]>> \in Seq(T) /\ Len(<<r[q + 1], r[q + 2]>>) = 2
        OBVIOUS
      <4>4. /\ Len(SubSeq(r, q + 1, q + 2)) = 2
            /\ SubSeq(r, q + 1, q + 2)[1] = r[q + 1] /\ SubSeq(r, q + 1, q + 2)[2] = r[q + 2]
        <5>1. /\ q + 1 <= q + 2 /\ q + 2 - (q + 1) + 1 = 2 /\ 1 \in 1 .. 2 /\ 2 \in 1 .. 2
              /\ q + 1 + 1 - 1 = q + 1 /\ q + 1 + 2 - 1 = q + 2
          BY <3>1
        <5> QED BY <4>2, <5>1
      <4> HIDE DEF T
      <4>5. PICK u, y : u = SubSeq(r, q + 1, q + 2) /\ y = <<r[q + 1], r[q + 2]>>
        OBVIOUS
      <4>6. u \in Seq(T) /\ y \in Seq(T) /\ Len(u) = 2 /\ Len(y) = 2
            /\ u[1] = y[1] /\ u[2] = y[2]
        BY <4>2, <4>3, <4>4, <4>5
      <4>7. \A i \in 1 .. 2 : i = 1 \/ i = 2
        OBVIOUS
      <4>8. u = y
        BY <4>6, <4>7, SeqEqual
      <4> QED BY <4>5, <4>8
    <3>5. r[q + 1] = <<"lo", SubSeq(r, 1, q)>> /\ r[q + 2] = <<"hi", SubSeq(r, 1, q)>>
      BY <3>3, <3>4 DEF checksum
    <3>6. 17 + 3 * p = q + 1 /\ 18 + 3 * p = q + 2
      BY <3>1
    <3> QED BY <3>1, <3>5, <3>6
  <2>6. CASE k = 5
    <3>1. z = <<(NLayers + d) % W>>
      BY <1>6, <2>6 DEF Damaged
    <3>2. PICK p \in Nat : p = LayersIn(r) /\ p # NLayers
      <4>1. LayersIn(r) = (NLayers + d) % W
        BY <2>2, <2>6, <3>1 DEF LayersIn
      <4>2. (NLayers + d) % W \in Nat
        <5>1. NLayers + d \in Int
          BY <1>1, <2>1
        <5>2. (NLayers + d) % W \in 0 .. W - 1
          BY <1>5, <5>1, Division
        <5> QED BY <1>5, <5>2
      <4>3. NLayers % W # (NLayers + d) % W
        <5>1. /\ NLayers \in Int /\ NLayers + d \in Int
              /\ NLayers < NLayers + d /\ (NLayers + d) - NLayers < W
          BY <1>1, <1>5, <2>1
        <5> QED BY <1>5, <5>1, Apart
      <4> QED BY <1>5, <4>1, <4>2, <4>3
    <3>3. p < NLayers
      <4>1. Need(p) = 18 + 3 * p
        BY <3>2 DEF Need, HDR
      <4>2. ~(n + 2 < 18 + 3 * p)
        BY <2>2, <2>3, <3>2, <4>1
      <4> QED BY <1>1, <1>2, <3>2, <4>2
    <3>4. 17 + 3 * p \in 1 .. n /\ 17 + 3 * p # k /\ 17 + 3 * p \in 1 .. n + 2
      BY <1>1, <1>2, <2>6, <3>2, <3>3
    <3>5. r[17 + 3 * p] = x[17 + 3 * p]
      BY <1>3, <2>2, <3>4
    <3>6. r[17 + 3 * p] = <<"lo", SubSeq(r, 1, 16 + 3 * p)>>
      <4>1. p <= NLayers
        BY <1>1, <3>2, <3>3
      <4> QED BY <2>5, <3>2, <4>1, Zenon
    <3>7. PICK i \in 1 .. n : i = 17 + 3 * p
      BY <3>4
    <3>8. x[i] = <<"lo", SubSeq(r, 1, 16 + 3 * p)>>
      BY <3>5, <3>6, <3>7, Zenon
    <3>9. PICK u : u = SubSeq(r, 1, 16 + 3 * p)
      OBVIOUS
    <3>10. x[i] = <<"lo", u>> /\ Len(<<"lo", u>>) = 2
      BY <3>8, <3>9
    <3>11. Len(x[i]) = 1
      BY <2>4
    <3> QED BY <3>10, <3>11
  <2>7. CASE k # 5
    <3>1. LayersIn(r) = NLayers
      <4>1. r[5] = ws[5]
        BY <1>2, <2>2, <2>7
      <4> QED BY <1>6, <4>1 DEF LayersIn
    <3>2. r[n + 1] = <<"lo", SubSeq(r, 1, n)>> /\ r[n + 2] = <<"hi", SubSeq(r, 1, n)>>
      <4>1. NLayers \in Nat /\ NLayers <= NLayers
        BY <1>1
      <4>2. /\ r[17 + 3 * NLayers] = <<"lo", SubSeq(r, 1, 16 + 3 * NLayers)>>
            /\ r[18 + 3 * NLayers] = <<"hi", SubSeq(r, 1, 16 + 3 * NLayers)>>
        BY <2>5, <3>1, <4>1
      <4>3. 17 + 3 * NLayers = n + 1 /\ 18 + 3 * NLayers = n + 2 /\ 16 + 3 * NLayers = n
        BY <1>1, <1>2
      <4> QED BY <4>2, <4>3
    <3>3. CASE k \in 1 .. n
      <4>1. n + 1 # k /\ n + 1 \in 1 .. n + 2
        BY <1>2, <3>3
      <4>2. r[n + 1] = <<"lo", x>>
        BY <1>3, <2>2, <4>1
      <4>3. SubSeq(r, 1, n) = x
        BY <3>2, <4>2
      <4>4. SubSeq(r, 1, n)[k] = z
        <5> DEFINE T == {r[i] : i \in 1 .. n}
        <5>1. \A i \in 1 .. n : r[i] \in T
          OBVIOUS
        <5>2. \A i \in 1 .. n - 1 + 1 : SubSeq(r, 1, n)[i] = r[1 + i - 1]
          <6>1. 1 \in Int /\ n \in Int
            BY <1>2
          <6> HIDE DEF T
          <6> QED BY <5>1, <6>1, SubSeqProperties
        <5>3. k \in 1 .. n - 1 + 1 /\ 1 + k - 1 = k
          BY <1>2, <3>3
        <5> QED BY <2>2, <5>2, <5>3
      <4>5. z = <<(x[k][1] + d) % W>>
        BY <1>3, <2>4, <3>3 DEF Damaged
      <4>6. x[k][1] = (x[k][1] + d) % W
        <5>1. x[k] = <<(x[k][1] + d) % W>>
          BY <4>3, <4>4, <4>5
        <5>2. PICK y : y = (x[k][1] + d) % W
          OBVIOUS
        <5>3. x[k] = <<y>>
          BY <5>1, <5>2
        <5>4. x[k][1] = y
          BY <5>3
        <5> QED BY <5>2, <5>4
      <4>7. PICK y \in 0 .. W - 1 : y = x[k][1]
        BY <2>4, <3>3
      <4>8. y = (y + d) % W
        BY <4>6, <4>7
      <4>9. y % W = y
        <5>1. (W * 0 + y) % W = y
          <6>1. 0 \in Int
            OBVIOUS
          <6> QED BY <1>5, <6>1, Remainder
        <5>2. W * 0 + y = y
          BY <1>5
        <5> QED BY <5>1, <5>2
      <4>10. y % W # (y + d) % W
        <5>1. y \in Int /\ y + d \in Int /\ y < y + d /\ (y + d) - y < W
          BY <1>5, <2>1
        <5> QED BY <1>5, <5>1, Apart
      <4> QED BY <4>8, <4>9, <4>10
    <3>4. ASSUME NEW u, NEW v, NEW t PROVE Damaged(<<u, x>>, d) # <<v, t>>
      <4>1. /\ <<u, x>> \in Seq({u, x, d}) /\ Len(<<u, x>>) = 2 /\ d \in {u, x, d}
            /\ Len(<<v, t>>) = 2
        OBVIOUS
      <4>2. Len(Append(<<u, x>>, d)) = 2 + 1
        BY <4>1, AppendProperties
      <4>3. Damaged(<<u, x>>, d) = Append(<<u, x>>, d)
        BY <4>1 DEF Damaged
      <4> QED BY <4>1, <4>2, <4>3
    <3>5. CASE k = n + 1
      <4>1. r[n + 1] = Damaged(<<"lo", x>>, d)
        BY <1>3, <2>2, <3>5
      <4> QED BY <3>2, <3>4, <4>1, Zenon
    <3>6. CASE k = n + 2
      <4>1. r[n + 2] = Damaged(<<"hi", x>>, d)
        BY <1>3, <2>2, <3>6
      <4> QED BY <3>2, <3>4, <4>1, Zenon
    <3> QED BY <1>2, <2>1, <3>3, <3>5, <3>6
  <2> QED BY <2>6, <2>7
<1> QED BY <1>8, <1>9 DEF Readings

(* The image as it was stored is accepted, and says what was saved.        *)
LEMMA Resumed ==
  ASSUME NEW c, CacheOK(c), NEW ws, ws = Image(c).words
  PROVE  /\ Deserialized(ws) = 0
         /\ WidthIn(ws) = c.width /\ SrcIn(ws) = c.src /\ ValidIn(ws) = c.valid
         /\ \A r \in Readings(ws) : r # ws => Deserialized(r) # 0
<1>1. /\ NLayers \in Nat \ {0} /\ MaxRows \in Nat /\ MaxRows <= W \div 2 - 1
      /\ MaxWidth \in Nat /\ MaxWidth <= W \div 2 - 1 /\ NLayers <= W \div 2 - 1
      /\ W \div 2 \in Nat
  BY KvCacheAssumption, WordIs
<1>2. /\ c.width \in [Layers -> 1 .. MaxWidth] /\ c.src \in [Layers -> -1 .. NLayers - 1]
      /\ c.valid = [l \in Layers |-> Len(c.ctx)] /\ Len(c.ctx) \in 0 .. MaxRows
      /\ cfg_sane(c.width, c.src)
  <2>1. Len(c.ctx) \in Nat
    BY DEF CacheOK
  <2> QED BY <1>1, <2>1 DEF CacheOK, Configured
<1>3. PICK x, w, s, v : /\ x = CoveredBy(c.width, c.src, c.valid)
                        /\ w = c.width /\ s = c.src /\ v = c.valid
  OBVIOUS
<1>4. c.valid \in [Layers -> 0 .. MaxRows]
  BY <1>2
<1>5. /\ x \in Seq(Word) /\ Len(x) = 16 + 3 * NLayers
      /\ x[1] = put_u32(Magic) /\ x[2] = put_u32(Version) /\ x[5] = put_u32(NLayers)
      /\ \A l \in Layers : /\ x[16 + (l + 1)] = <<c.width[l] % W>>
                           /\ x[16 + NLayers + (l + 1)] = <<c.src[l] % W>>
                           /\ x[16 + 2 * NLayers + (l + 1)] = <<c.valid[l] % W>>
  <2>1. /\ w \in [Layers -> 1 .. MaxWidth] /\ s \in [Layers -> -1 .. NLayers - 1]
        /\ v \in [Layers -> 0 .. MaxRows] /\ x = CoveredBy(w, s, v)
    BY <1>2, <1>3, <1>4
  <2>2. Laid(x, w, s, v)
    BY <2>1, CoveredIs, Zenon
  <2> QED BY <1>3, <2>2 DEF Laid
<1>6. PICK n \in Nat : n = 16 + 3 * NLayers /\ n >= 19
  BY <1>1
<1>7. ws = x \o checksum(x)
  BY <1>3 DEF Image
<1>8. Sealed(ws, x, n)
  BY <1>5, <1>6, <1>7, Sealing
<1>9. /\ Len(ws) = n + 2 /\ \A i \in 1 .. n : ws[i] = x[i]
      /\ ws[n + 1] = <<"lo", x>> /\ ws[n + 2] = <<"hi", x>>
  BY <1>8 DEF Sealed
<1>10. PICK S : ws \in Seq(S)
  BY <1>8 DEF Sealed
<1>11. LayersIn(ws) = NLayers
  <2>1. NLayers % W = NLayers
    BY <1>1, WordIs
  <2> QED BY <1>5, <1>6, <1>9, <2>1 DEF LayersIn, put_u32
<1>12. /\ Column(ws, 0) = [l \in Layers |-> c.width[l] % W]
       /\ Column(ws, 1) = [l \in Layers |-> c.src[l] % W]
       /\ Column(ws, 2) = [l \in Layers |-> c.valid[l] % W]
  <2>1. ASSUME NEW l \in Layers
        PROVE  /\ ws[HDR + 0 * NLayers + l + 1] = <<c.width[l] % W>>
               /\ ws[HDR + 1 * NLayers + l + 1] = <<c.src[l] % W>>
               /\ ws[HDR + 2 * NLayers + l + 1] = <<c.valid[l] % W>>
    <3>1. /\ HDR + 0 * NLayers + l + 1 = 16 + (l + 1) /\ 16 + (l + 1) \in 1 .. n
          /\ HDR + 1 * NLayers + l + 1 = 16 + NLayers + (l + 1)
          /\ 16 + NLayers + (l + 1) \in 1 .. n
          /\ HDR + 2 * NLayers + l + 1 = 16 + 2 * NLayers + (l + 1)
          /\ 16 + 2 * NLayers + (l + 1) \in 1 .. n
      BY <1>1, <1>6 DEF HDR, Layers
    <3> QED BY <1>5, <1>9, <3>1
  <2>2. \A l \in Layers : /\ ws[HDR + 0 * NLayers + l + 1][1] = c.width[l] % W
                          /\ ws[HDR + 1 * NLayers + l + 1][1] = c.src[l] % W
                          /\ ws[HDR + 2 * NLayers + l + 1][1] = c.valid[l] % W
    BY <2>1
  <2> QED BY <1>11, <2>2 DEF Column, Layers
<1>13. WidthIn(ws) = c.width /\ SrcIn(ws) = c.src /\ ValidIn(ws) = c.valid
  <2>1. ASSUME NEW l \in Layers
        PROVE  /\ Signed(c.width[l] % W) = c.width[l] /\ Signed(c.src[l] % W) = c.src[l]
               /\ c.valid[l] % W = c.valid[l]
    <3>1. /\ c.width[l] \in -1 .. W \div 2 - 1 /\ c.src[l] \in -1 .. W \div 2 - 1
          /\ c.valid[l] \in 0 .. W \div 2 - 1
      BY <1>1, <1>2, <1>4
    <3> QED BY <3>1, WordIs
  <2>2. /\ WidthIn(ws) = [l \in Layers |-> Signed(c.width[l] % W)]
        /\ SrcIn(ws) = [l \in Layers |-> Signed(c.src[l] % W)]
        /\ ValidIn(ws) = [l \in Layers |-> c.valid[l] % W]
    BY <1>12 DEF WidthIn, SrcIn, ValidIn
  <2> QED BY <1>2, <1>4, <2>1, <2>2
<1>14. SumHolds(ws)
  <2>1. Need(LayersIn(ws)) = n + 2 /\ (n + 2) - 1 = n + 1 /\ (n + 2) - 2 = n
    BY <1>1, <1>6, <1>11 DEF Need, HDR
  <2>2. SubSeq(ws, 1, n) = x
    <3>1. n <= Len(ws) /\ Len(ws) \in Nat
      BY <1>6, <1>9
    <3>2. /\ SubSeq(ws, 1, n) \in Seq(S) /\ Len(SubSeq(ws, 1, n)) = n
          /\ \A i \in 1 .. n : SubSeq(ws, 1, n)[i] = ws[i]
      BY <1>10, <3>1
    <3>3. x \in Seq(S)
      <4>1. \A i \in 1 .. n : x[i] \in S
        <5>1. \A i \in 1 .. n : i \in 1 .. Len(ws)
          BY <1>6, <1>9
        <5> QED BY <1>9, <1>10, <5>1
      <4>2. x \in [1 .. n -> S]
        BY <1>5, <1>6, <4>1
      <4> QED BY <1>6, <4>2
    <3>4. Len(x) = n /\ \A i \in 1 .. n : SubSeq(ws, 1, n)[i] = x[i]
      BY <1>5, <1>6, <1>9, <3>2
    <3> QED BY <3>2, <3>3, <3>4, SeqEqual
  <2>3. SubSeq(ws, n + 1, n + 2) = <<<<"lo", x>>, <<"hi", x>>>>
    <3>1. /\ n + 1 <= n + 2 /\ n + 2 - (n + 1) + 1 = 2 /\ 1 \in 1 .. 2 /\ 2 \in 1 .. 2
          /\ n + 1 + 1 - 1 = n + 1 /\ n + 1 + 2 - 1 = n + 2 /\ n + 1 \in Int /\ n + 2 \in Int
      BY <1>6
    <3> DEFINE T == {<<"lo", x>>, <<"hi", x>>}
    <3>2. \A i \in n + 1 .. n + 2 : ws[i] \in T
      <4>1. \A i \in n + 1 .. n + 2 : i = n + 1 \/ i = n + 2
        BY <1>6
      <4> QED BY <1>9, <4>1
    <3> HIDE DEF T
    <3>3. /\ SubSeq(ws, n + 1, n + 2) \in Seq(T)
          /\ Len(SubSeq(ws, n + 1, n + 2)) = IF n + 1 <= n + 2 THEN n + 2 - (n + 1) + 1 ELSE 0
          /\ \A i \in 1 .. n + 2 - (n + 1) + 1 : SubSeq(ws, n + 1, n + 2)[i] = ws[n + 1 + i - 1]
      BY <3>1, <3>2, SubSeqProperties
    <3>4. /\ Len(SubSeq(ws, n + 1, n + 2)) = 2
          /\ SubSeq(ws, n + 1, n + 2)[1] = <<"lo", x>>
          /\ SubSeq(ws, n + 1, n + 2)[2] = <<"hi", x>>
      BY <1>9, <3>1, <3>3
    <3>5. PICK u, y : u = SubSeq(ws, n + 1, n + 2) /\ y = <<<<"lo", x>>, <<"hi", x>>>>
      OBVIOUS
    <3>6. y \in Seq(T) /\ Len(y) = 2 /\ y[1] = <<"lo", x>> /\ y[2] = <<"hi", x>>
      BY <3>5 DEF T
    <3>7. u \in Seq(T) /\ Len(u) = Len(y) /\ u[1] = y[1] /\ u[2] = y[2]
      BY <3>3, <3>4, <3>5, <3>6
    <3>8. \A i \in 1 .. Len(u) : u[i] = y[i]
      <4>1. \A i \in 1 .. 2 : i = 1 \/ i = 2
        OBVIOUS
      <4> QED BY <3>6, <3>7, <4>1
    <3>9. u = y
      BY <3>6, <3>7, <3>8, SeqEqual
    <3> QED BY <3>5, <3>9
  <2> QED BY <2>1, <2>2, <2>3 DEF SumHolds, checksum
<1>15. Deserialized(ws) = 0
  <2>1. Len(ws) \in Nat /\ Len(ws) >= Need(1) /\ ~(Len(ws) < Need(LayersIn(ws)))
    <3>1. Need(1) = 21 /\ Need(NLayers) = n + 2
      BY <1>1, <1>6 DEF Need, HDR
    <3>2. n + 2 \in Nat /\ n + 2 >= 21 /\ ~(n + 2 < n + 2)
      BY <1>6
    <3> QED BY <1>9, <1>11, <3>1, <3>2
  <2>2. ws[1] = put_u32(Magic) /\ ws[2] = put_u32(Version)
    BY <1>5, <1>6, <1>9
  <2>3. cfg_sane(WidthIn(ws), SrcIn(ws))
    BY <1>2, <1>13
  <2> QED BY <1>14, <2>1, <2>2, <2>3, Accepted
<1>16. ASSUME NEW r \in Readings(ws), r # ws PROVE Deserialized(r) # 0
  <2>1. Sealed(ws, x, 16 + 3 * NLayers)
    BY <1>6, <1>8
  <2> QED BY <1>5, <1>16, <2>1, Refused
<1> QED BY <1>13, <1>15, <1>16

(* What a resumed session has.                                             *)
LEMMA Loading ==
  ASSUME ImageOK, Load
  PROVE  /\ image' = image
         /\ \/ /\ last' = [rc |-> 0, intact |-> TRUE] /\ mark' = <<>>
               /\ cache' = image[1].of /\ CacheOK(image[1].of)
            \/ last'.rc # 0 /\ ~last'.intact /\ cache' = cache /\ mark' = mark
<1>1. image # <<>> /\ image' = image /\ image = <<Image(image[1].of)>> /\ CacheOK(image[1].of)
  BY DEF Load, ImageOK
<1>2. PICK c, ws : c = image[1].of /\ ws = image[1].words
  OBVIOUS
<1>3. CacheOK(c) /\ ws = Image(c).words
  BY <1>1, <1>2
<1>4. /\ Deserialized(ws) = 0
      /\ WidthIn(ws) = c.width /\ SrcIn(ws) = c.src /\ ValidIn(ws) = c.valid
      /\ \A r \in Readings(ws) : r # ws => Deserialized(r) # 0
  BY <1>3, Resumed
<1>5. PICK r \in Readings(ws) :
        Resume(r) /\ last' = [rc |-> Deserialized(r), intact |-> r = ws]
  BY <1>2 DEF Load
<1>6. CASE r = ws
  <2>1. /\ width' = c.width /\ src' = c.src /\ valid' = c.valid
        /\ slab' = c.slab /\ ctx' = c.ctx /\ dirty' = c.dirty /\ mark' = <<>>
    BY <1>2, <1>4, <1>5, <1>6 DEF Resume
  <2>2. cache' = c
    <3>1. c = [width |-> c.width, src |-> c.src, valid |-> c.valid, slab |-> c.slab,
               ctx |-> c.ctx, dirty |-> c.dirty]
      BY <1>3 DEF CacheOK, IsCache
    <3> QED BY <2>1, <3>1 DEF cache
  <2> QED BY <1>1, <1>2, <1>4, <1>5, <1>6, <2>1, <2>2
<1>7. CASE r # ws
  <2>1. Deserialized(r) # 0
    BY <1>4, <1>7
  <2>2. UNCHANGED <<width, src, valid, slab, ctx, dirty, mark>>
    BY <1>5, <2>1 DEF Resume
  <2> QED BY <1>1, <1>5, <1>7, <2>1, <2>2 DEF cache
<1> QED BY <1>6, <1>7

LEMMA LoadInv ==
  ASSUME KvInv, Load
  PROVE  KvInv'
<1>1. CacheOK(cache) /\ MarkOK /\ ImageOK
  BY DEF KvInv
<1>2. /\ image' = image
      /\ \/ /\ last' = [rc |-> 0, intact |-> TRUE] /\ mark' = <<>>
            /\ cache' = image[1].of /\ CacheOK(image[1].of)
         \/ last'.rc # 0 /\ ~last'.intact /\ cache' = cache /\ mark' = mark
  BY <1>1, Loading, Zenon
<1>3. ImageOK'
  BY <1>1, <1>2 DEF ImageOK
<1>4. CASE mark' = <<>> /\ cache' = image[1].of /\ CacheOK(image[1].of)
  <2>1. CacheOK(cache)' /\ MarkOK'
    BY <1>4 DEF MarkOK
  <2> QED BY <1>3, <2>1 DEF KvInv
<1>5. CASE cache' = cache /\ mark' = mark
  <2>1. ctx' = ctx
    BY <1>5, CacheIs
  <2>2. CacheOK(cache)' /\ MarkOK'
    BY <1>1, <1>5, <2>1 DEF MarkOK
  <2> QED BY <1>3, <2>2 DEF KvInv
<1> QED BY <1>2, <1>4, <1>5

LEMMA KvNextInv ==
  ASSUME KvInv, [KvCacheNext]_kvVars
  PROVE  KvInv'
<1>1. CASE UNCHANGED kvVars
  <2>1. cache' = cache /\ ctx' = ctx /\ mark' = mark /\ image' = image
    BY <1>1 DEF kvVars, cache
  <2> QED BY <2>1 DEF KvInv, MarkOK, ImageOK
<1> QED BY <1>1, KvAppendInv, KvMarkInv, KvRestoreInv, KvTruncateInv, SaveInv, LoadInv
         DEF KvCacheNext

(* The cache, its mark and its stored image always tell the truth about    *)
(* one another.                                                            *)
THEOREM KvInvariant == KvCacheSpec => []KvInv
<1>1. KvCacheInit => KvInv
  BY KvInitInv
<1>2. KvInv /\ [KvCacheNext]_kvVars => KvInv'
  BY KvNextInv
<1> QED BY <1>1, <1>2, PTL DEF KvCacheSpec

(* For any number of layers, whatever their widths and whoever they share  *)
(* with: every layer reads exactly the context.                            *)
THEOREM LayersRead == KvCacheSpec => []LayersReadContext
<1>1. ASSUME KvInv PROVE LayersReadContext
  <2>1. /\ width \in [Layers -> 1 .. MaxWidth] /\ src \in [Layers -> -1 .. NLayers - 1]
        /\ \A l \in Layers : src[l] >= 0 => src[l] \in Layers /\ src[src[l]] < 0
        /\ valid = [l \in Layers |-> Len(ctx)] /\ Holds(width, src, slab, ctx)
    <3>1. CacheOK(cache)
      BY <1>1 DEF KvInv
    <3> QED BY <3>1, KvFacts
  <2>2. ASSUME NEW l \in Layers,
               NEW t \in 0 .. Len(ctx) - 1, NEW i \in 0 .. width[Owner(l)] - 1
        PROVE  slab[Address(Owner(l), t, i)] = <<ctx[t + 1], t, i>>
    <3>1. Owner(l) \in Layers /\ src[Owner(l)] < 0
      <4>1. src[l] \in Int
        BY <2>1
      <4> QED BY <2>1, <4>1 DEF Owner
    <3> QED BY <2>1, <3>1 DEF Holds, Address
  <2> QED BY <2>1, <2>2 DEF LayersReadContext
<1> QED BY <1>1, KvInvariant, PTL

(* And nothing is left of rows that were dropped and cleared.              *)
THEOREM TailsClear == KvCacheSpec => []TailsCleared
<1>1. ASSUME KvInv PROVE TailsCleared
  <2>1. DOMAIN slab = Extent(width) /\ Tails(width, src, slab, Most(Len(ctx), dirty))
    <3>1. CacheOK(cache)
      BY <1>1 DEF KvInv
    <3> QED BY <3>1, KvFacts
  <2>2. \A e : LayerOf(e) = LayerAt(width, e) /\ SlotOf(e) = SlotAt(width, e)
    BY DEF LayerOf, SlotOf, Inside, LayerAt, SlotAt
  <2> QED BY <2>1, <2>2 DEF Tails, TailsCleared
<1> QED BY <1>1, KvInvariant, PTL

(* Both: each element of the slabs is the context's, or clear.             *)
THEOREM SlabIsExact == KvCacheSpec => []SlabExact
<1>1. LayersReadContext /\ TailsCleared => SlabExact
  BY DEF SlabExact
<1> QED BY <1>1, LayersRead, TailsClear, PTL

(* A stored image is accepted when it is read back as it was written, and  *)
(* then gives back the cache it was made of; any one damaged byte and any  *)
(* missing end is refused, and changes nothing.                            *)
THEOREM Resuming == KvCacheSpec => ResumeExact
<1> DEFINE Step == /\ last'.rc = 0 => last'.intact /\ cache' = image[1].of
                   /\ last'.rc < 0 => ~last'.intact /\ UNCHANGED cache
<1>1. ASSUME KvInv, [KvCacheNext]_kvVars PROVE [Step]_kvVars
  <2>1. CASE last' = Other
    BY <2>1 DEF Other
  <2>2. CASE Load
    <3>1. ImageOK
      BY <1>1 DEF KvInv
    <3>2. /\ image' = image
          /\ \/ /\ last' = [rc |-> 0, intact |-> TRUE] /\ mark' = <<>>
                /\ cache' = image[1].of /\ CacheOK(image[1].of)
             \/ last'.rc # 0 /\ ~last'.intact /\ cache' = cache /\ mark' = mark
      BY <2>2, <3>1, Loading, Zenon
    <3> QED BY <3>2
  <2> QED BY <1>1, <2>1, <2>2
           DEF KvCacheNext, KvAppend, KvMark, KvRestore, KvTruncate, Save
<1>2. KvCacheSpec => [][Step]_kvVars
  BY <1>1, KvInvariant, PTL DEF KvCacheSpec
<1> QED BY <1>2 DEF ResumeExact

=============================================================================
