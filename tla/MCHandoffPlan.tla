--------------------------- MODULE MCHandoffPlan ---------------------------
(* Two executables, two files and one host; vectors of every dialect. *)
EXTENDS HandoffPlan, TLC

CONSTANTS binary1, binary2, old, new, pc

MCBinaries == {binary1, binary2}
MCFiles == {old, new}
MCHosts == {pc}

Vector(op, form, host) == [prefix |-> FALSE, env |-> "", op |-> op, form |-> form, host |-> host]

MCVectors ==
  {Vector("list", "any", pc), Vector("stream", "qt", pc),
   Vector("stream", "embedded", pc), Vector("map", "any", NoHost)}

\* Executables and files are interchangeable.
MCSymmetry == Permutations(MCBinaries) \cup Permutations(MCFiles)

MCDiscoveredOnly == {"BuildDiscoveredPlan"}
=============================================================================
