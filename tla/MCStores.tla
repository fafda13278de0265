------------------------------- MODULE MCStores -------------------------------
(***************************************************************************)
(* Small instances of the stores in memory beside their tables, and of the *)
(* ledger of task mutations.  They share no state, so a behaviour takes    *)
(* steps of one of them only.                                              *)
(***************************************************************************)
EXTENDS MCTaskConfirmation, Stores

all == <<vars, storeVars>>

\* What a behaviour is not about is absent.
Absent(v) == v = "absent"

AllInit ==
    /\ Init
    /\ \/ StoresInit
       \/ store = "none" /\ Absent(memory) /\ Absent(table) /\ Absent(clock)

\* The parts of Next, one by one, while the stores stand.
Alone == store = "none" /\ UNCHANGED storeVars

AllNext ==
    \/ \E c \in ConfirmationIds : Alone /\ Propose(c)
    \/ \E c \in ConfirmationIds : Alone /\ Purge(c)
    \/ \E r \in Requests, o \in Owners, op \in {"confirm", "reject", "undo"},
          c \in ConfirmationIds \cup {0} : Alone /\ Call(r, op, o, c)
    \/ \E r \in Requests : Alone /\ Serve(r)
    \/ \E r \in Requests : Alone /\ Fail(r)
    \/ \E i \in Ideas : Alone /\ EditIdea(i)
    \/ Alone /\ Tick
    \/ StoresNext /\ UNCHANGED vars

AllSpec == AllInit /\ [][AllNext]_all

=============================================================================
