------------------------------- MODULE Window -------------------------------
(***************************************************************************)
(* cso_counter/counter.cpp, the receiving side: a window of NumberBits     *)
(* tags that starts at minReadIndex; maskReadBits says which of them were  *)
(* read.  Here are the functions on the window; who calls them, and when,  *)
(* is in Counter (any hub) and in Delivery (hub, sessions and restarts).   *)
(***************************************************************************)
EXTENDS Integers

CONSTANTS
  NumberBits,   \* NUMBER_BITS: width of the window, 32 in the code
  IndexSpace    \* number of values of a uint64_t

ASSUME WindowAssumption ==
  /\ NumberBits \in Nat \ {0}
  /\ IndexSpace \in Nat \ {0}

VARIABLES minReadIndex, maskReadBits  \* the mask as the set of its 1 bits

Indices == 0 .. IndexSpace - 1
Positions == 0 .. NumberBits - 1

(***************************************************************************)
(* uint64_t arithmetic, written for operands of which one is small.        *)
(***************************************************************************)
Add(a, b) == IF a + b < IndexSpace THEN a + b ELSE a + b - IndexSpace
Sub(a, b) == IF a >= b THEN a - b ELSE a - b + IndexSpace

\* Mutant: a mask without width.
ShiftOneWide(d) == {{d}}

\* 0x01U << d.  A shift by the width or more is undefined: the instruction
\* either masks the count or shifts the bit out.
ShiftOne(d) == IF d < NumberBits THEN {{d}} ELSE {{d % NumberBits}, {}}

Beyond(index) == index >= Add(minReadIndex, NumberBits)

\* Mutants: the new window keeps the old bits; the window does not move.
SlidKeepsMask(index) ==
  IF Beyond(index)
  THEN [min |-> Add(minReadIndex, NumberBits), mask |-> maskReadBits]
  ELSE [min |-> minReadIndex, mask |-> maskReadBits]
SlidForgets(index) ==
  IF Beyond(index)
  THEN [min |-> minReadIndex, mask |-> {}]
  ELSE [min |-> minReadIndex, mask |-> maskReadBits]

\* The window in which markReadDone looks at index: at most one slide.
Slid(index) ==
  IF Beyond(index)
  THEN [min |-> Add(minReadIndex, NumberBits), mask |-> {}]
  ELSE [min |-> minReadIndex, mask |-> maskReadBits]

\* bool markReadDone(index): the possible results and windows afterwards.
MarkReadDone(index) ==
  IF index < minReadIndex
  THEN {[done |-> FALSE, min |-> minReadIndex, mask |-> maskReadBits]}
  ELSE LET w == Slid(index) IN
       {[done |-> bits \cap w.mask = {}, min |-> w.min, mask |-> w.mask \cup bits]
          : bits \in ShiftOne(Sub(index, w.min))}

\* Mutant: the bit of a tag whose callback failed stays set.
KeepRead(index, w) == w.mask

\* void markReadUnused(index), called on the window w that markReadDone left.
MarkReadUnused(index, w) ==
  IF index < w.min \/ index >= Add(w.min, NumberBits)
  THEN w.mask
  ELSE w.mask \ {Sub(index, w.min)}
=============================================================================
