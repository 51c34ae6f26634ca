------------------------------ MODULE TupleSlot ------------------------------
(***************************************************************************)
(* What the rest of the server takes a tuple lock for: at any moment one   *)
(* (device, user, package) tuple has at most one session.  The lock file   *)
(* of store/lock.ts keeps that promise until some unlink removes a lock    *)
(* file other than the one its caller had read; from then on it promises   *)
(* nothing.  TupleLock is shown to implement this specification.           *)
(***************************************************************************)

CONSTANT Run        \* the start calls, each with a runId of its own

VARIABLES
    holders,        \* the runs whose session owns the tuple
    compromised     \* an unlink has removed the wrong lock file

vars == <<holders, compromised>>

TypeOK ==
    /\ holders \subseteq Run
    /\ compromised \in BOOLEAN

Init ==
    /\ holders = {}
    /\ compromised = FALSE

(* A run is granted the tuple when nobody holds it, or when the promise is *)
(* already lost.                                                           *)
Grant(r) ==
    /\ compromised \/ holders = {}
    /\ holders' = holders \union {r}
    /\ UNCHANGED compromised

(* Sessions end: one releases its lock, or a process dies with all it holds. *)
Vacate(S) ==
    /\ S \subseteq holders
    /\ holders' = holders \ S
    /\ UNCHANGED compromised

(* The promise is lost; nobody's session ends by it, which is the trouble. *)
Compromise ==
    /\ compromised' = TRUE
    /\ UNCHANGED holders

Next ==
    \/ \E r \in Run : Grant(r)
    \/ \E S \in SUBSET holders : Vacate(S)
    \/ Compromise

Spec == Init /\ [][Next]_vars

(* One tuple, one session: until the promise is lost no two runs hold it.  *)
Exclusive ==
    ~compromised => \A r, s \in holders : r = s
=============================================================================
