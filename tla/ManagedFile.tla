---------------------------- MODULE ManagedFile ----------------------------
(***************************************************************************)
(* What AtomicStorage promises its callers: the managed file is one        *)
(* compare-and-swap register.  A call takes effect at one instant, only    *)
(* when the version it was built from is the current one, and a caller     *)
(* that was told ok, busy, conflict or recovery_required knows what        *)
(* happened: only a call that got no answer, or an error, may still take   *)
(* effect later (its recovery).                                            *)
(***************************************************************************)
CONSTANTS
    W,             \* calls
    Data,          \* contents that pass the validator
    Bad, Absent    \* one that does not; no file

VARIABLES
    value,     \* the current version
    request,   \* per call: [data, mode, seen], what it asked for
    answer     \* per call: what it was told

vars == <<value, request, answer>>

Version == Data \cup {Absent}
Open == {"none", "error"}

Init ==
    /\ value \in Version
    /\ request = [w \in W |-> [data |-> Absent, mode |-> "any", seen |-> Absent]]
    /\ answer = [w \in W |-> "none"]

(* A call is built from the version its caller sees.                       *)
Request(w) ==
    /\ request[w].data = Absent
    /\ \E d \in Data \cup {Bad}, m \in {"any", "expect", "create"} :
          /\ m = "expect" => value \in Data
          /\ request' = [request EXCEPT ![w] =
                [data |-> d, mode |-> m, seen |-> IF m = "expect" THEN value ELSE Absent]]
    /\ UNCHANGED <<value, answer>>

Install(w) ==
    /\ answer[w] \in Open
    /\ request[w].data \in Data
    /\ request[w].mode = "expect" => value = request[w].seen
    /\ request[w].mode = "create" => value = Absent
    /\ value' = request[w].data
    /\ UNCHANGED <<request, answer>>

Answer(w) ==
    /\ answer[w] = "none"
    /\ \/ answer' = [answer EXCEPT ![w] = "ok"] /\ value = request[w].data
       \/ \E out \in {"error", "busy", "conflict", "recovery_required"} :
             answer' = [answer EXCEPT ![w] = out]
    /\ UNCHANGED <<value, request>>

Next == \E w \in W : Request(w) \/ Install(w) \/ Answer(w)

Spec == Init /\ [][Next]_vars
=============================================================================
