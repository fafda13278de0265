------------------------- MODULE MCTaskConfirmation -------------------------
(* Small instances of TaskConfirmation for TLC.                            *)
EXTENDS TaskConfirmation, TLC

CONSTANTS o1, o2, d1, i1, a, b, r1, r2

OneOwner == [i \in Ideas |-> o1]

Symmetry == Permutations(Requests) \cup Permutations(Contents)

\* The steps of a time that stands: nothing becomes old enough for the retention.
StillNext ==
    \/ \E c \in ConfirmationIds : Propose(c)
    \/ \E r \in Requests, o \in Owners, op \in {"confirm", "reject", "undo"},
          c \in ConfirmationIds \cup {0} : Call(r, op, o, c)
    \/ \E r \in Requests : Serve(r) \/ Fail(r)
    \/ \E i \in Ideas : EditIdea(i)

StillSpec == Init /\ [][StillNext]_vars /\ Fairness

=============================================================================
