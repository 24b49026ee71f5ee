--------------------------- MODULE CalculateRange ---------------------------
(***************************************************************************)
(* calculateRange (src/rpc/api/settlement.go), the paging helper of the    *)
(* settlement RPCs: given the number of records, the requested count and   *)
(* an optional offset, the [start, end) slice bounds of the page.  Go's    *)
(* int is a signed IntWidth-bit integer, so start + count wraps.  The      *)
(* input is fixed in Init; the state is the call's arguments.              *)
(***************************************************************************)
EXTENDS Integers

CONSTANTS
    IntWidth,   \* bits of Go's int (64 in the build; scaled down)
    Sizes,      \* len of the record slice
    Counts,     \* count argument
    Nil         \* offset == nil

IntMin == -(2^(IntWidth - 1))
IntMax == 2^(IntWidth - 1) - 1
GoInt == IntMin..IntMax

(* Signed two's-complement addition of Go's int.                           *)
GoAdd(a, b) == ((a + b - IntMin) % 2^IntWidth) + IntMin

VARIABLES size, count, offset

vars == <<size, count, offset>>

(* Mutant: an offset equal to size is accepted (> instead of >=).         *)
CalculateRangeAcceptEnd(sz, cnt, off) ==
    LET o == IF off # Nil /\ off >= 0 THEN off ELSE 0
    IN IF sz <= 0 \/ cnt <= 0 \/ o > sz THEN [err |-> TRUE]
       ELSE LET e == GoAdd(o, cnt)
            IN [err |-> FALSE, start |-> o, end |-> IF e > sz THEN sz ELSE e]

(* calculateRange: an error, or the slice bounds.                          *)
CalculateRange(sz, cnt, off) ==
    LET o == IF off # Nil /\ off >= 0 THEN off ELSE 0
    IN IF sz <= 0 \/ cnt <= 0 \/ o >= sz THEN [err |-> TRUE]
       ELSE LET e == GoAdd(o, cnt)
            IN [err |-> FALSE, start |-> o, end |-> IF e > sz THEN sz ELSE e]

Init ==
    /\ size \in Sizes
    /\ count \in Counts
    /\ offset \in GoInt \cup {Nil}

Next == UNCHANGED vars

Spec == Init /\ [][Next]_vars

Result == CalculateRange(size, count, offset)

(* The records a page should hold: the first count records from the       *)
(* offset (0 when absent or negative); none, an error, when there are no  *)
(* records, the count is not positive, or the offset is past the end.     *)
PageRef ==
    LET o == IF offset # Nil /\ offset >= 0 THEN offset ELSE 0
    IN {i \in 0..size - 1 : o <= i /\ i < o + count}

(* A successful calculateRange selects exactly the reference page, and it  *)
(* fails exactly when the reference page is empty.                         *)
PageMatchesReference ==
    /\ Result.err <=> PageRef = {}
    /\ ~Result.err => Result.start..(Result.end - 1) = PageRef

(* The callers slice records[start:end] after a successful call: Go       *)
(* panics unless 0 <= start <= end <= len.                                 *)
SliceBoundsValid ==
    ~Result.err => 0 <= Result.start /\ Result.start <= Result.end /\ Result.end <= size

====
