----------------------------- MODULE AtomicFile -----------------------------
(***************************************************************************)
(* What a program that replaces a file promises its user: between two      *)
(* creations, a crash leaves what it could have left before or the whole   *)
(* of a new version, and nothing else.  held is the set of contents that a *)
(* crash at this moment may leave.                                         *)
(***************************************************************************)
CONSTANTS Contents,    \* everything that may be found in the file
          Versions     \* the whole versions among them

VARIABLES held, creating

Init == held \in SUBSET Contents /\ held # {} /\ creating = FALSE

\* A file that is being created holds no promise.
Create == /\ creating' \in BOOLEAN
          /\ creating \/ creating'
          /\ held' \in (SUBSET Contents) \ {{}}

Replace == /\ ~creating /\ UNCHANGED creating
           /\ \E v \in Versions : held' = held \union {v}

\* A crash, or fsync, decides.
Settle == /\ ~creating /\ UNCHANGED creating
          /\ \E c \in held : held' = {c}

Next == Create \/ Replace \/ Settle

Spec == Init /\ [][Next]_<<held, creating>>
=============================================================================
