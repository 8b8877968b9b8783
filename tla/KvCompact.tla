----------------------------- MODULE KvCompact ------------------------------
(***************************************************************************)
(* Compaction of one K/V slab: src/kvcache.c builds a plan of run moves    *)
(* from per-slot keep flags (tt_kv_compact_plan_from_keep), and the engine *)
(* executes the moves in order, each as one memmove within the slab        *)
(* (src/kvcache.h).  One step per slot the loop visits, then one per move. *)
(* A row is named by the slot it was first in.                             *)
(***************************************************************************)
EXTENDS Integers, Sequences

CONSTANT MaxLen  \* bound on the valid length of the layer

ASSUME CompactAssumption == MaxLen \in Nat \ {0}

VARIABLES
  keep,   \* keep[t], an input; its domain 0 .. valid_len - 1 is one too
  slot,   \* t
  dst,    \* dst, which is also live: both count the kept slots so far
  run,    \* <<>> or the pending run, as a one-element plan
  moves,  \* moves[0 .. nmoves - 1]
  phase,  \* "plan", "move", "done"
  next,   \* the next move to execute
  rows,   \* the slab
  at      \* history: where slot t was planned to go

compactVars == <<keep, slot, dst, run, moves, phase, next, rows, at>>

Slots == DOMAIN keep
Kept == {t \in Slots : keep[t]}
Run(s, d, n) == [src |-> s, dst |-> d, count |-> n]

(* tt_kv_swa_dead_from: the rows of a layer no sliding window reaches, and *)
(* the keep flags tt_kv_compact_plan_swa makes of them.                    *)
SwaDeadFrom_early(valid_len, window) ==
  IF window = 0 \/ valid_len < window THEN 0 ELSE valid_len - window + 1
SwaDeadFrom(valid_len, window) ==
  IF window = 0 \/ valid_len <= window THEN 0 ELSE valid_len - window
SwaKeep(valid_len, window) ==
  [t \in 0 .. valid_len - 1 |-> t >= SwaDeadFrom(valid_len, window)]

CompactInit ==
  /\ \E n \in 1 .. MaxLen : keep \in [0 .. n - 1 -> BOOLEAN]
  /\ slot = 0 /\ dst = 0 /\ run = <<>> /\ moves = <<>>
  /\ phase = "plan" /\ next = 1
  /\ rows = [t \in Slots |-> t] /\ at = [t \in Slots |-> t]

Advances == slot' = slot + 1 /\ dst' = dst + 1 /\ at' = [at EXCEPT ![slot] = dst]

(* The run that ended is emitted.                                          *)
FlushRun_always == moves' = Append(moves, IF run = <<>> THEN Run(-1, -1, 0) ELSE run[1])
FlushRun_inFront == moves' = run \o moves
FlushRun == moves' = moves \o run

DropSlot ==
  /\ phase = "plan" /\ slot \in Slots /\ ~keep[slot]
  /\ slot' = slot + 1
  /\ UNCHANGED <<keep, dst, run, moves, phase, next, rows, at>>

InPlace ==
  /\ phase = "plan" /\ slot \in Slots /\ keep[slot] /\ slot = dst
  /\ FlushRun /\ run' = <<>> /\ Advances
  /\ UNCHANGED <<keep, phase, next, rows>>

Extends_anyGap ==
  /\ run # <<>>
  /\ run[1].dst + run[1].count = dst

Extends ==
  /\ run # <<>>
  /\ run[1].src + run[1].count = slot
  /\ run[1].dst + run[1].count = dst

ExtendRun ==
  /\ phase = "plan" /\ slot \in Slots /\ keep[slot] /\ slot # dst
  /\ Extends
  /\ run' = <<Run(run[1].src, run[1].dst, run[1].count + 1)>> /\ Advances
  /\ UNCHANGED <<keep, moves, phase, next, rows>>

StartRun ==
  /\ phase = "plan" /\ slot \in Slots /\ keep[slot] /\ slot # dst
  /\ ~Extends
  /\ FlushRun /\ run' = <<Run(slot, dst, 1)>> /\ Advances
  /\ UNCHANGED <<keep, phase, next, rows>>

EndPlan ==
  /\ phase = "plan" /\ slot \notin Slots
  /\ FlushRun /\ run' = <<>> /\ phase' = "move"
  /\ UNCHANGED <<keep, slot, dst, next, rows, at>>

(* memmove: the target takes what the source held before.                  *)
Moved(r, m) ==
  [t \in DOMAIN r |-> IF t \in m.dst .. m.dst + m.count - 1 THEN r[t - m.dst + m.src]
                      ELSE r[t]]

ExecuteMove ==
  /\ phase = "move" /\ next <= Len(moves)
  /\ rows' = Moved(rows, moves[next]) /\ next' = next + 1
  /\ UNCHANGED <<keep, slot, dst, run, moves, phase, at>>

EndMoves ==
  /\ phase = "move" /\ next > Len(moves)
  /\ phase' = "done"
  /\ UNCHANGED <<keep, slot, dst, run, moves, next, rows, at>>

CompactNext ==
  DropSlot \/ InPlace \/ ExtendRun \/ StartRun \/ EndPlan \/ ExecuteMove \/ EndMoves

CompactSpec == CompactInit /\ [][CompactNext]_compactVars

-----------------------------------------------------------------------------
Move == [src : Nat, dst : Nat, count : Nat]

CompactTypeOK ==
  /\ \E n \in 1 .. MaxLen : keep \in [0 .. n - 1 -> BOOLEAN]
  /\ slot \in Nat /\ dst \in 0 .. slot
  /\ moves \in Seq(Move)
  /\ run \in Seq(Move) /\ Len(run) <= 1
  /\ phase \in {"plan", "move", "done"} /\ next \in Nat \ {0}
  /\ rows \in [Slots -> Slots] /\ at \in [Slots -> Slots]

(* After the moves, the first compacted_len rows are exactly the kept ones *)
(* in their old order, although targets of early moves overlap the sources *)
(* of later ones and nothing is copied aside.                              *)
Packed ==
  phase = "done" =>
    /\ \A i, j \in 0 .. dst - 1 : i < j => rows[i] < rows[j]
    /\ {rows[i] : i \in 0 .. dst - 1} = Kept

(* A plan only ever moves rows towards the front, runs come in the order of*)
(* their slots, and none reads past the rows that are valid: in that order *)
(* a move cannot damage a row another move still has to read.              *)
PlanMovesDown ==
  /\ \A i \in 1 .. Len(moves) :
       /\ moves[i].dst < moves[i].src /\ moves[i].count > 0
       /\ moves[i].src + moves[i].count <= slot
  /\ \A i, j \in 1 .. Len(moves) : i < j => moves[i].src + moves[i].count <= moves[j].src

(* Compaction of a sliding layer is at most one move, which leaves exactly *)
(* the newest rows of its window, in front, in their order.                *)
WindowIsOneMove ==
  \A w \in 1 .. MaxLen : LET n == slot   live == IF n < w THEN n ELSE w IN
    phase = "done" /\ keep = SwaKeep(n, w) =>
      /\ Len(moves) <= 1 /\ dst = live
      /\ \A i \in 0 .. live - 1 : rows[i] = n - live + i

(* Both of a finished compaction: the kept rows are packed, and those of a *)
(* window in a single move.                                                *)
Compacted == Packed /\ WindowIsOneMove

=============================================================================
