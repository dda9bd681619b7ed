--------------------------- MODULE ContainerIndex ---------------------------
(***************************************************************************)
(* The index arithmetic every sequence container shares (Container.h), on  *)
(* C ints, which end at MaxInt.  The code computes abs(index) and          *)
(* size - index without a range check; both wrap here, as they do in the   *)
(* compiled program.                                                       *)
(***************************************************************************)
EXTENDS Integers

CONSTANT MaxInt  \* INT_MAX, 2 ^ 31 - 1 in the program

ASSUME MaxIntAssumption == MaxInt \in Nat \ {0}

MinInt == -MaxInt - 1
CInt == MinInt .. MaxInt

OutOfBounds == -1  \* stands for the std::invalid_argument thrown

Wrap(x) == ((x - MinInt) % (2 * MaxInt + 2)) + MinInt
abs(x) == Wrap(IF x < 0 THEN -x ELSE x)

FromTheEnd(index, size) ==
    LET i == Wrap(size - abs(index)) IN IF i < 0 THEN 0 ELSE i

NormalizeIndex(index, size) ==
    CASE index = 0                       -> 0
      [] index < 0 /\ abs(index) > size  -> OutOfBounds
      [] index < 0 /\ abs(index) <= size -> FromTheEnd(index, size)
      [] index > 0 /\ index >= size      -> OutOfBounds
      [] index > 0 /\ index < size       -> index

NormalizeForQueries(index, size) ==
    CASE size = 0 \/ (index < 0 /\ abs(index) > size) -> 0
      [] index >= size                                -> size
      [] OTHER                                        -> NormalizeIndex(index, size)

\* The half-open range of 0-based offsets a query returns.
NormalizeQueryLimits(start, end, containerSize) ==
    LET last  == IF end = 0 THEN containerSize ELSE NormalizeForQueries(end, containerSize)
        first == NormalizeForQueries(start, containerSize)
    IN  [start |-> IF first > last THEN last ELSE first, end |-> last]
=============================================================================
