--------------------------- MODULE ShardAgreement ---------------------------
(***************************************************************************)
(* What one parent-child relationship promises, seen from outside: the     *)
(* child states shard counts about itself; the parent listens on one cell  *)
(* or on a count the child has stated; the child transmits on no more      *)
(* cells than a count it has stated.                                       *)
(***************************************************************************)
EXTENDS Integers

CONSTANT Max            \* the largest shard count of the build

VARIABLES
  stated,   \* every count the child has stated so far
  held,     \* cells the parent listens on for this child
  used      \* cells the child transmits on

avars == <<stated, held, used>>

AInit ==
  /\ stated = {1}
  /\ held = 0
  /\ used = 0

StateCount(n) ==
  /\ stated' = stated \cup {n}
  /\ UNCHANGED <<held, used>>

Listen(n) ==
  /\ n \in stated \cup {0}
  /\ held' = n
  /\ UNCHANGED <<stated, used>>

\* More cells only up to a stated count, fewer at any time.
Use(n) ==
  /\ n < used \/ \E s \in stated : n <= s
  /\ used' = n
  /\ UNCHANGED <<stated, held>>

ANext ==
  \/ \E n \in 1 .. Max : StateCount(n)
  \/ \E n \in 0 .. Max : Listen(n) \/ Use(n)

ASpec == AInit /\ [][ANext]_avars

-----------------------------------------------------------------------------
\* Listening stays within what was stated, and so does transmitting.
Agreement ==
  /\ held \in stated \cup {0}
  /\ \E s \in stated : used <= s
=============================================================================
