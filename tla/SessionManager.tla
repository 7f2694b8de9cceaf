---------------------------- MODULE SessionManager ----------------------------
(***************************************************************************)
(* The table of unlocked vaults in the desktop API process                 *)
(* (src/src/vault_unified/session.py): sessions appear at the end of a     *)
(* slow unlock and go with an explicit lock, a lock or suspend of Windows, *)
(* the replacement of the renderer, or half an hour without use.           *)
(*                                                                         *)
(* Every method takes the manager's guard, so each is one action; the      *)
(* unlock is two, for the key derivation between them holds no lock.  The  *)
(* stores of browser and passkey requests hook into locking: the modules   *)
(* that model them extend this one and conjoin their hook to its actions.  *)
(* A token names one unlock call and the session it registers.             *)
(***************************************************************************)
EXTENDS Naturals, FiniteSets

CONSTANTS
    Tokens,     \* unlock calls and the sessions they open
    Vaults,     \* browser bindings: vault file, vault id, key id
    MaxEpoch    \* bound: lock events

ASSUME SessionAssumption == Tokens # {} /\ Vaults # {} /\ MaxEpoch \in Nat

VARIABLES
    session,    \* per token: where its unlock and its session are
    vault,      \* per token: the vault it unlocks
    expected,   \* per token: the epoch its unlock began in
    epoch,      \* lock events so far
    blocked,    \* Windows is locked or suspended
    interrupted \* history: unlocks under way during a lock event

sessionVars == <<session, vault, expected, epoch, blocked, interrupted>>

SessionType ==
    /\ session \in [Tokens -> {"none", "opening", "live", "idle", "gone"}]
    /\ vault \in [Tokens -> Vaults] /\ expected \in [Tokens -> 0..MaxEpoch]
    /\ epoch \in 0..MaxEpoch /\ blocked \in BOOLEAN
    /\ interrupted \subseteq Tokens

SessionInit ==
    /\ session = [t \in Tokens |-> "none"]
    /\ vault \in [Tokens -> Vaults]
    /\ expected = [t \in Tokens |-> 0]
    /\ epoch = 0 /\ blocked = FALSE /\ interrupted = {}

Registered(t) == session[t] \in {"live", "idle"}
LiveVaults == {vault[t] : t \in {u \in Tokens : session[u] = "live"}}

-----------------------------------------------------------------------------
BeginUnlock(t) ==
    /\ session[t] = "none" /\ ~blocked
    /\ session' = [session EXCEPT ![t] = "opening"]
    /\ expected' = [expected EXCEPT ![t] = epoch]
    /\ UNCHANGED <<vault, epoch, blocked, interrupted>>

(* A wrong password, a vault that needs recovery, a missing file.          *)
UnlockFails(t) ==
    /\ session[t] = "opening"
    /\ session' = [session EXCEPT ![t] = "gone"]
    /\ UNCHANGED <<vault, expected, epoch, blocked, interrupted>>

(* Mutant: registration asks only whether Windows is locked now.           *)
Cancelled_BlockedOnly(t) == blocked

Cancelled(t) == blocked \/ expected[t] # epoch

Register(t) ==
    /\ session[t] = "opening"
    /\ session' = [session EXCEPT ![t] = IF Cancelled(t) THEN "gone" ELSE "live"]
    /\ UNCHANGED <<vault, expected, epoch, blocked, interrupted>>

(* 30 minutes pass: the session stays in the table until someone asks.     *)
BecomeIdle(t) ==
    /\ session[t] = "live"
    /\ session' = [session EXCEPT ![t] = "idle"]
    /\ UNCHANGED <<vault, expected, epoch, blocked, interrupted>>

SweepIdle(t) ==
    /\ session[t] = "idle"
    /\ session' = [session EXCEPT ![t] = "gone"]
    /\ UNCHANGED <<vault, expected, epoch, blocked, interrupted>>

Interrupt ==
    /\ epoch < MaxEpoch
    /\ epoch' = epoch + 1
    /\ interrupted' = interrupted \cup {t \in Tokens : session[t] = "opening"}

Lock(t) ==
    /\ Registered(t)
    /\ session' = [session EXCEPT ![t] = "gone"]
    /\ Interrupt
    /\ UNCHANGED <<vault, expected, blocked>>

LockAll ==
    /\ Interrupt
    /\ session' = [t \in Tokens |-> IF Registered(t) THEN "gone" ELSE session[t]]
    /\ UNCHANGED <<vault, expected>>

(* Mutant: sessions are revoked when Windows comes back.                   *)

SetSystemBlocked(b) == blocked' = b /\ LockAll
ResetRenderer == UNCHANGED blocked /\ LockAll

(* What no store hooks into, and what every store does.                    *)
Opening == \E t \in Tokens : BeginUnlock(t) \/ UnlockFails(t) \/ Register(t) \/ BecomeIdle(t)
Locking ==
    \/ \E t \in Tokens : SweepIdle(t) \/ Lock(t)
    \/ \E b \in BOOLEAN : SetSystemBlocked(b)
    \/ ResetRenderer

-----------------------------------------------------------------------------
(* A blocked Windows session has no unlocked vault, however many unlocks   *)
(* were under way when it was blocked (session.py begin_unlock, _register).*)
BlockedMeansLocked == blocked => \A t \in Tokens : ~Registered(t)

(* An unlock that was under way when somebody locked a vault opens no      *)
(* session, also when Windows has been unlocked again meanwhile            *)
(* (session.py lock, lock_all, _register).                                 *)
NoUnlockAcrossLock == \A t \in Tokens : Registered(t) => t \notin interrupted
=============================================================================
