--------------------------- MODULE AtomicStorage ---------------------------
(***************************************************************************)
(* The crash-safe replacement of one managed file                          *)
(* (src/src/vault_unified/storage.py), used for vaults, conflict stores,   *)
(* migration receipts and preferences.                                     *)
(*                                                                         *)
(* W is the set of calls of atomic_write_bytes.  A call has a transaction  *)
(* id of its own (uuid4), which names its temporary file, its backup and   *)
(* its journal, so files are indexed by the call.  R is the set of         *)
(* processes that run recover_atomic_file, one call after another.         *)
(*                                                                         *)
(* A file is its content: a member of Data passes the format validator,    *)
(* Bad does not (corrupt or half written), Absent is no file.  Two         *)
(* contents are equal exactly when their SHA-256 digests are.              *)
(*                                                                         *)
(* Every action is one file-system operation.  _sync_directory follows     *)
(* each of them in the code, so a power failure leaves the state before    *)
(* or after the operation, as the death of the process does.               *)
(***************************************************************************)
EXTENDS Integers, FiniteSets

CONSTANTS
    W,                \* calls of atomic_write_bytes, each with its transaction
    R,                \* recovering processes
    Data,             \* contents that pass the validator
    Bad, Absent,      \* a content that fails the validator; no file
    NoOwner,          \* no lock file
    Windows,          \* ReplaceFileW rather than copy and os.replace
    QuarantineLive,   \* the lock of a running call may be taken away from it
    Interference,     \* what other programs may leave at the live path
    MaxInterference,  \* bound: how often they do
    MaxFailures       \* bound: how many recoveries fail or die

ASSUME ConstantsAssumption ==
    /\ Bad \notin Data /\ Absent \notin Data /\ Bad # Absent
    /\ W \cap R = {} /\ NoOwner \notin W \cup R
    /\ Windows \in BOOLEAN /\ QuarantineLive \in BOOLEAN
    /\ Interference \subseteq Data \cup {Bad, Absent}
    /\ MaxInterference \in Nat /\ MaxFailures \in Nat

Content == Data \cup {Bad, Absent}

VARIABLES
    live, lock,                    \* the managed file; the token in its lock file
    temp, backup, journal, prior,  \* per transaction: its files
    pc, data, mode, seen, old,     \* per write call: where it is, its arguments, what it read
    result,                        \* per write call: what it tells its caller when done
    rpc, target, plan, copied,     \* per recovering process
    failures,                      \* how many recoveries failed or died
    interfered                     \* how often another program changed live

disk == <<live, lock, temp, backup, journal, prior>>
wvars == <<pc, data, mode, seen, old, result>>
rvars == <<rpc, target, plan, copied, failures>>
vars == <<disk, wvars, rvars, interfered>>

BeforeJournal_All ==   \* mutant: the handler always removes the temporary file
    {"locked", "clean", "checked", "tempOpen", "validated", "journalOpen",
     "journaled", "rechecked", "backedUp", "replaced", "verified"}

(* Where a write call is inside its `with _TransactionLock` body, where it *)
(* holds the lock, and where it still runs; the same for a recovery.       *)
BeforeJournal == {"locked", "clean", "checked", "tempOpen", "validated", "journalOpen"}
AfterJournal == {"journaled", "rechecked", "backedUp", "replaced", "verified"}
Body == BeforeJournal \cup AfterJournal
Holding == Body \cup {"exit", "unlink"}
Running == Holding \cup {"ready"}

RBody == {"locked", "copy", "replace", "swap", "verify", "clean", "unjournal"}
RHolding == RBody \cup {"exit", "unlink"}
RRunning == RHolding \cup {"planned"}

Init ==
    /\ live \in {Absent} \cup Data
    /\ lock = NoOwner
    /\ temp = [w \in W |-> Absent]
    /\ backup = [w \in W |-> Absent]
    /\ journal = [w \in W |-> "none"]
    /\ prior = [w \in W |-> Absent]
    /\ pc = [w \in W |-> "idle"]
    /\ data = [w \in W |-> Absent]
    /\ mode = [w \in W |-> "any"]
    /\ seen = [w \in W |-> Absent]
    /\ old = [w \in W |-> Absent]
    /\ result = [w \in W |-> "none"]
    /\ rpc = [r \in R |-> "idle"]
    /\ target = [r \in R |-> NoOwner]
    /\ plan = [r \in R |-> "manual"]
    /\ copied = [r \in R |-> Absent]
    /\ failures = 0
    /\ interfered = 0

(***************************************************************************)
(* atomic_write_bytes                                                      *)
(***************************************************************************)
Goto(w, l) == pc' = [pc EXCEPT ![w] = l]
(* Leave the body, to release the lock and tell the caller `out`.          *)
Leave(w, out) == Goto(w, "exit") /\ result' = [result EXCEPT ![w] = out]

(* The caller builds the replacement: mode "expect" passes the digest of   *)
(* the content it read (expected_old_sha256), "create" must_not_exist.     *)
Prepare(w, d, m) ==
    /\ pc[w] = "idle"
    /\ m = "expect" => live \in Data
    /\ data' = [data EXCEPT ![w] = d]
    /\ mode' = [mode EXCEPT ![w] = m]
    /\ seen' = [seen EXCEPT ![w] = IF m = "expect" THEN live ELSE Absent]
    /\ Goto(w, "ready")
    /\ UNCHANGED <<disk, old, result, rvars, interfered>>

(* __enter__: O_EXCL creation of the lock file.                            *)
LockFree == lock = NoOwner

AcquireLock(w) ==
    /\ pc[w] = "ready" /\ LockFree
    /\ lock' = w
    /\ Goto(w, "locked")
    /\ UNCHANGED <<live, temp, backup, journal, prior, data, mode, seen, old, result, rvars, interfered>>

LockBusy(w) ==
    /\ pc[w] = "ready" /\ ~LockFree
    /\ Goto(w, "done")
    /\ result' = [result EXCEPT ![w] = "busy"]
    /\ UNCHANGED <<disk, data, mode, seen, old, rvars, interfered>>

(* __enter__ raises.  Its handler unlinks the lock file without a look at  *)
(* it: that of another call when no descriptor was left to open any, which *)
(* the comment at storage.py:234 excludes.  A directory sync that raises   *)
(* after the creation leaves the lock behind.                              *)
LockFails(w) ==
    /\ pc[w] = "ready"
    /\ \/ LockFree /\ lock' = w /\ Goto(w, "unlink")
       \/ LockFree /\ lock' \in {NoOwner, w} /\ Goto(w, "done")
       \/ QuarantineLive /\ ~LockFree /\ UNCHANGED lock /\ Goto(w, "unlink")
    /\ result' = [result EXCEPT ![w] = "error"]
    /\ UNCHANGED <<live, temp, backup, journal, prior, data, mode, seen, old, rvars, interfered>>

Clean_Unchecked == TRUE   \* mutant: no require_clean_storage under the lock
Clean == \A t \in W : journal[t] = "none"

RequireClean(w) ==
    /\ pc[w] = "locked"
    /\ IF Clean
         THEN Goto(w, "clean") /\ UNCHANGED result
         ELSE Leave(w, "recovery_required")
    /\ UNCHANGED <<disk, data, mode, seen, old, rvars, interfered>>

(* Digest of the live file and the caller's two preconditions on it.       *)
Refused(w) ==
    \/ mode[w] = "create" /\ live # Absent
    \/ mode[w] = "expect" /\ live # seen[w]

ReadOld(w) ==
    /\ pc[w] = "clean"
    /\ old' = [old EXCEPT ![w] = live]
    /\ IF Refused(w)
         THEN Leave(w, "conflict")
         ELSE Goto(w, "checked") /\ UNCHANGED result
    /\ UNCHANGED <<disk, data, mode, seen, rvars, interfered>>

OpenTemp(w) ==
    /\ pc[w] = "checked"
    /\ temp' = [temp EXCEPT ![w] = Bad]
    /\ Goto(w, "tempOpen")
    /\ UNCHANGED <<live, lock, backup, journal, prior, data, mode, seen, old, result, rvars, interfered>>

(* write, fsync, read back, validate; a rejected candidate is unlinked.    *)
Accepts_Always(c) == TRUE   \* mutant: the validator is not called
Accepts(c) == c \in Data

SyncTemp(w) ==
    /\ pc[w] = "tempOpen"
    /\ IF Accepts(data[w])
         THEN /\ temp' = [temp EXCEPT ![w] = data[w]]
              /\ Goto(w, "validated") /\ UNCHANGED result
         ELSE /\ temp' = [temp EXCEPT ![w] = Absent]
              /\ Leave(w, "error")
    /\ UNCHANGED <<live, lock, backup, journal, prior, data, mode, seen, old, rvars, interfered>>

OpenJournal(w) ==
    /\ pc[w] = "validated"
    /\ journal' = [journal EXCEPT ![w] = "torn"]
    /\ Goto(w, "journalOpen")
    /\ UNCHANGED <<live, lock, temp, backup, prior, data, mode, seen, old, result, rvars, interfered>>

(* The journal names the transaction's files and the digests old, data.    *)
SyncJournal(w) ==
    /\ pc[w] = "journalOpen"
    /\ journal' = [journal EXCEPT ![w] = "written"]
    /\ Goto(w, "journaled")
    /\ UNCHANGED <<live, lock, temp, backup, prior, data, mode, seen, old, result, rvars, interfered>>

Recheck(w) ==
    /\ pc[w] = "journaled"
    /\ IF live = old[w]
         THEN Goto(w, "rechecked") /\ UNCHANGED result
         ELSE Leave(w, "conflict")
    /\ UNCHANGED <<disk, data, mode, seen, old, rvars, interfered>>

(* _replace_with_backup.  A missing target is simply renamed into place;   *)
(* a target that appeared although none was read has no backup path.       *)
ReplaceFresh(w) ==
    /\ pc[w] = "rechecked" /\ live = Absent /\ temp[w] # Absent
    /\ live' = temp[w]
    /\ temp' = [temp EXCEPT ![w] = Absent]
    /\ Goto(w, "replaced")
    /\ UNCHANGED <<lock, backup, journal, prior, data, mode, seen, old, result, rvars, interfered>>

ReplaceNeedsBackup(w) ==
    /\ pc[w] = "rechecked" /\ live # Absent /\ old[w] = Absent
    /\ Leave(w, "error")
    /\ UNCHANGED <<disk, data, mode, seen, old, rvars, interfered>>

(* POSIX: a synced copy of live takes the backup's name.  Windows:         *)
(* ReplaceFileW moves live aside before it moves the replacement in.       *)
BackupCopy(w) == live

BackUp(w) ==
    /\ pc[w] = "rechecked" /\ live # Absent /\ old[w] # Absent
    /\ backup' = [backup EXCEPT ![w] = BackupCopy(w)]
    /\ live' = IF Windows THEN Absent ELSE live
    /\ Goto(w, "backedUp")
    /\ UNCHANGED <<lock, temp, journal, prior, data, mode, seen, old, result, rvars, interfered>>

Swap(w) ==
    /\ pc[w] = "backedUp" /\ temp[w] # Absent
    /\ live' = temp[w]
    /\ temp' = [temp EXCEPT ![w] = Absent]
    /\ Goto(w, "replaced")
    /\ UNCHANGED <<lock, backup, journal, prior, data, mode, seen, old, result, rvars, interfered>>

(* A recovery that ran although this call was alive took its file.         *)
ReplacementGone(w) ==
    /\ \/ pc[w] = "rechecked" /\ live = Absent
       \/ pc[w] = "backedUp"
    /\ temp[w] = Absent
    /\ Leave(w, "error")
    /\ UNCHANGED <<disk, data, mode, seen, old, rvars, interfered>>

(* Read the live file back: its digest is the new one and it validates.    *)
Verify(w) ==
    /\ pc[w] = "replaced"
    /\ IF live = data[w]
         THEN Goto(w, "verified") /\ UNCHANGED result
         ELSE Leave(w, "error")
    /\ UNCHANGED <<disk, data, mode, seen, old, rvars, interfered>>

(* journal.unlink(), which fails when the journal is gone; the             *)
(* _sync_directory after it may still raise.                               *)
Finish(w) ==
    /\ pc[w] = "verified"
    /\ journal' = [journal EXCEPT ![w] = "none"]
    /\ \E out \in IF journal[w] = "none" THEN {"error"} ELSE {"ok", "error"} : Leave(w, out)
    /\ UNCHANGED <<live, lock, temp, backup, prior, data, mode, seen, old, rvars, interfered>>

(* An operation of the body raises.  The handler removes the temporary     *)
(* file when the journal is not known to be there, and nothing else: a     *)
(* journal stays, half written, or whole when its directory sync raised.   *)
Fault(w) ==
    /\ pc[w] \in Body
    /\ temp' = IF pc[w] \in BeforeJournal THEN [temp EXCEPT ![w] = Absent] ELSE temp
    /\ \/ UNCHANGED journal
       \/ pc[w] = "journalOpen" /\ journal' = [journal EXCEPT ![w] = "written"]
    /\ Leave(w, "error")
    /\ UNCHANGED <<live, lock, backup, prior, data, mode, seen, old, rvars, interfered>>

(* __exit__ reads the token and unlinks the lock only when it is its own.  *)
CheckToken(w) ==
    /\ pc[w] = "exit"
    /\ Goto(w, IF lock = w THEN "unlink" ELSE "done")
    /\ UNCHANGED <<disk, data, mode, seen, old, result, rvars, interfered>>

Unlock(w) ==
    /\ pc[w] = "unlink"
    /\ lock' = NoOwner
    /\ Goto(w, "done")
    /\ UNCHANGED <<live, temp, backup, journal, prior, data, mode, seen, old, result, rvars, interfered>>

(* The process dies: its files and its lock stay as they are.              *)
Crash(w) ==
    /\ pc[w] \in Running
    /\ Goto(w, "crashed")
    /\ UNCHANGED <<disk, data, mode, seen, old, result, rvars, interfered>>

Begin(w) == \E d \in Data \cup {Bad}, m \in {"any", "expect", "create"} : Prepare(w, d, m)
Continue(w) ==
    \/ AcquireLock(w) \/ LockBusy(w) \/ RequireClean(w) \/ ReadOld(w)
    \/ OpenTemp(w) \/ SyncTemp(w) \/ OpenJournal(w) \/ SyncJournal(w) \/ Recheck(w)
    \/ ReplaceFresh(w) \/ ReplaceNeedsBackup(w) \/ BackUp(w) \/ Swap(w)
    \/ ReplacementGone(w) \/ Verify(w) \/ Finish(w) \/ CheckToken(w) \/ Unlock(w)

(***************************************************************************)
(* inspect_recovery and recover_atomic_file                                *)
(***************************************************************************)
(* _candidate_matches: the expected digest, and the validator accepts it.  *)
Matches(c, d) == c = d /\ c \in Data

(* The action inspect_recovery finds for the journal of t.                 *)
Inspect_AbsentIsOld(t) ==   \* mutant: "no old digest" matches "no live file"
    IF journal[t] # "written" \/ live \in Data \ {data[t], old[t]} THEN "manual"
    ELSE IF Matches(live, data[t]) THEN "finalize_committed"
    ELSE IF live = old[t] THEN "discard_uncommitted" ELSE "restore_new"
Inspect(t) ==
    IF \/ journal[t] # "written"
       \/ live \in Data \ {data[t], old[t]}    THEN "manual"
    ELSE IF Matches(live, data[t])              THEN "finalize_committed"
    ELSE IF Matches(live, old[t])               THEN "discard_uncommitted"
    ELSE IF Matches(temp[t], data[t])           THEN "restore_new"
    ELSE IF Matches(backup[t], old[t])          THEN "restore_backup"
    ELSE "manual"

RGoto(r, l) == rpc' = [rpc EXCEPT ![r] = l]
RSource(r) == IF plan[r] = "restore_new" THEN temp[target[r]] ELSE backup[target[r]]
RExpected(r) == IF plan[r] = "restore_backup" THEN old[target[r]] ELSE data[target[r]]

(* The plan made before the lock is taken; a manual one stops here.        *)
RSelect(r, t) ==
    /\ rpc[r] = "idle" /\ journal[t] # "none"
    /\ Inspect(t) # "manual"
    /\ target' = [target EXCEPT ![r] = t]
    /\ RGoto(r, "planned")
    /\ UNCHANGED <<disk, wvars, plan, copied, failures, interfered>>

RAcquireLock(r) ==
    /\ rpc[r] = "planned"
    /\ IF LockFree
         THEN lock' = r /\ RGoto(r, "locked")
         ELSE RGoto(r, "idle") /\ UNCHANGED lock
    /\ UNCHANGED <<live, temp, backup, journal, prior, wvars, target, plan, copied, failures, interfered>>

(* The plan is made again under the lock.                                  *)
RReselect(r) ==
    /\ rpc[r] = "locked"
    /\ LET found == Inspect(target[r])
       IN /\ plan' = [plan EXCEPT ![r] = found]
          /\ RGoto(r, IF found = "manual" THEN "exit"
                      ELSE IF found = "finalize_committed" THEN "verify"
                      ELSE IF found = "discard_uncommitted" THEN "clean"
                      ELSE "copy")
    /\ UNCHANGED <<disk, wvars, target, copied, failures, interfered>>

(* _copy_synced to a unique .recovery name, then the validator.            *)
RCopy(r) ==
    /\ rpc[r] = "copy"
    /\ copied' = [copied EXCEPT ![r] = RSource(r)]
    /\ RGoto(r, IF RSource(r) \in Data THEN "replace" ELSE "exit")
    /\ UNCHANGED <<disk, wvars, target, plan, failures, interfered>>

(* _replace_with_backup with the .pre-recovery name as the backup, which   *)
(* must be free.                                                           *)
RReplace(r) ==
    /\ rpc[r] = "replace"
    /\ \/ /\ live = Absent
          /\ live' = copied[r]
          /\ RGoto(r, "verify") /\ UNCHANGED prior
       \/ /\ live # Absent /\ prior[target[r]] # Absent
          /\ RGoto(r, "exit") /\ UNCHANGED <<live, prior>>
       \/ /\ live # Absent /\ prior[target[r]] = Absent
          /\ prior' = [prior EXCEPT ![target[r]] = live]
          /\ live' = IF Windows THEN Absent ELSE live
          /\ RGoto(r, "swap")
    /\ UNCHANGED <<lock, temp, backup, journal, wvars, target, plan, copied, failures, interfered>>

RSwap(r) ==
    /\ rpc[r] = "swap"
    /\ live' = copied[r]
    /\ RGoto(r, "verify")
    /\ UNCHANGED <<lock, temp, backup, journal, prior, wvars, target, plan, copied, failures, interfered>>

RVerify(r) ==
    /\ rpc[r] = "verify"
    /\ RGoto(r, IF Matches(live, RExpected(r)) THEN "clean" ELSE "exit")
    /\ UNCHANGED <<disk, wvars, target, plan, copied, failures, interfered>>

RUnlinkTemp(r) ==
    /\ rpc[r] = "clean"
    /\ temp' = [temp EXCEPT ![target[r]] = Absent]
    /\ RGoto(r, "unjournal")
    /\ UNCHANGED <<live, lock, backup, journal, prior, wvars, target, plan, copied, failures, interfered>>

RUnlinkJournal(r) ==
    /\ rpc[r] = "unjournal"
    /\ journal' = [journal EXCEPT ![target[r]] = "none"]
    /\ RGoto(r, "exit")
    /\ UNCHANGED <<live, lock, temp, backup, prior, wvars, target, plan, copied, failures, interfered>>

RCheckToken(r) ==
    /\ rpc[r] = "exit"
    /\ RGoto(r, IF lock = r THEN "unlink" ELSE "idle")
    /\ UNCHANGED <<disk, wvars, target, plan, copied, failures, interfered>>

RUnlock(r) ==
    /\ rpc[r] = "unlink"
    /\ lock' = NoOwner
    /\ RGoto(r, "idle")
    /\ UNCHANGED <<live, temp, backup, journal, prior, wvars, target, plan, copied, failures, interfered>>

(* An operation of the recovery raises, __enter__ as for a write, or its   *)
(* process dies.                                                           *)
RFail(r) ==
    /\ failures < MaxFailures
    /\ failures' = failures + 1
    /\ \/ rpc[r] \in RBody /\ UNCHANGED lock /\ RGoto(r, "exit")
       \/ rpc[r] \in RRunning /\ UNCHANGED lock /\ RGoto(r, "idle")
       \/ rpc[r] = "planned" /\ LockFree /\ lock' = r /\ RGoto(r, "unlink")
       \/ rpc[r] = "planned" /\ LockFree /\ lock' = r /\ RGoto(r, "idle")
       \/ rpc[r] = "planned" /\ QuarantineLive /\ ~LockFree /\ UNCHANGED lock /\ RGoto(r, "unlink")
    /\ UNCHANGED <<live, temp, backup, journal, prior, wvars, target, plan, copied, interfered>>

Recover(r) ==
    \/ \E t \in W : RSelect(r, t)
    \/ RAcquireLock(r) \/ RReselect(r) \/ RCopy(r) \/ RReplace(r) \/ RSwap(r)
    \/ RVerify(r) \/ RUnlinkTemp(r) \/ RUnlinkJournal(r) \/ RCheckToken(r) \/ RUnlock(r)

(***************************************************************************)
(* The operator's quarantine_stale_lock, and other programs                *)
(***************************************************************************)
OwnerRuns ==
    \/ lock \in W /\ pc[lock] \in Holding
    \/ lock \in R /\ rpc[lock] \in RHolding

(* Age is no proof of death: the code itself lets the lock of a slow call  *)
(* be moved away.                                                          *)
Quarantine ==
    /\ lock # NoOwner
    /\ ~OwnerRuns \/ QuarantineLive
    /\ lock' = NoOwner
    /\ UNCHANGED <<live, temp, backup, journal, prior, wvars, rvars, interfered>>

Interfere ==
    /\ interfered < MaxInterference
    /\ live' \in Interference \ {live}
    /\ interfered' = interfered + 1
    /\ UNCHANGED <<lock, temp, backup, journal, prior, wvars, rvars>>

Next ==
    \/ \E w \in W : Begin(w) \/ Continue(w) \/ LockFails(w) \/ Fault(w) \/ Crash(w)
    \/ \E r \in R : Recover(r) \/ RFail(r)
    \/ Quarantine
    \/ Interfere

Spec == Init /\ [][Next]_vars

(***************************************************************************)
(* Properties.  Those that need the lock to be honoured are guarded by     *)
(* ~QuarantineLive: an operator who moves the lock of a running call away, *)
(* or a failed open whose handler unlinks it, lets a second one in.        *)
(***************************************************************************)
TypeOK ==
    /\ live \in Content /\ lock \in W \cup R \cup {NoOwner}
    /\ temp \in [W -> Content] /\ backup \in [W -> Content] /\ prior \in [W -> Content]
    /\ journal \in [W -> {"none", "torn", "written"}]
    /\ pc \in [W -> {"idle", "done", "crashed"} \cup Running]
    /\ data \in [W -> Content] /\ seen \in [W -> Content] /\ old \in [W -> Content]
    /\ mode \in [W -> {"any", "expect", "create"}]
    /\ result \in [W -> {"none", "ok", "busy", "conflict", "recovery_required", "error"}]
    /\ rpc \in [R -> {"idle"} \cup RRunning]
    /\ target \in [R -> W \cup {NoOwner}]
    /\ plan \in [R -> {"manual", "finalize_committed", "discard_uncommitted",
                       "restore_new", "restore_backup"}]
    /\ copied \in [R -> Content]
    /\ failures \in 0..MaxFailures /\ interfered \in 0..MaxInterference

(* At most one write or recovery is inside the locked body, whatever       *)
(* crashes, and whatever stale locks are quarantined.                      *)
InBody == {w \in W : pc[w] \in Body} \cup {r \in R : rpc[r] \in RBody}
MutualExclusion ==
    ~QuarantineLive => \A p, q \in InBody : p = q

(* _select_plan expects one recovery transaction: a second journal never   *)
(* appears while one is there.                                             *)
OneJournal ==
    ~QuarantineLive => \A t, u \in W : journal[t] # "none" /\ journal[u] # "none" => t = u

(* The bytes of an acknowledged write are the live file or the backup of a *)
(* later transaction, as long as only this code touches the file.          *)
Kept(c) == live = c \/ \E t \in W : backup[t] = c
AckedKept ==
    ~QuarantineLive /\ interfered = 0 => \A w \in W : result[w] = "ok" => Kept(data[w])

(* While a journal is there the live file only moves between the two       *)
(* versions it names (Absent: between the two halves of ReplaceFileW).     *)
FailClosed ==
    [][~QuarantineLive /\ interfered' = 0 /\ live' # live =>
         \A t \in W : journal[t] # "none" => live' \in {old[t], data[t], Absent}]_vars

(* Whoever holds the lock, the live file is always one whole version:      *)
(* never a partial one, and missing only inside ReplaceFileW.              *)
NeverTorn ==
    [][interfered' = interfered /\ live \in Data =>
         live' \in Data \/ (Windows /\ live' = Absent)]_vars

(* A journal is only removed when the live file is one of the versions it  *)
(* names and validates: nothing is left that would still need it.          *)
JournalOutlivesDanger ==
    [][~QuarantineLive /\ interfered = 0 =>
         \A t \in W : journal[t] # "none" /\ journal'[t] = "none" =>
            live \in {old[t], data[t]} \cap Data]_vars

(* The version a reader is entitled to: the live file, or while it is      *)
(* missing the one recovery would put there.                               *)
Pending == {t \in W : Inspect(t) \in {"restore_new", "restore_backup"}}
Version ==
    IF live \in Data \/ Pending = {} THEN live
    ELSE LET t == CHOOSE t \in Pending : TRUE
         IN IF Inspect(t) = "restore_new" THEN data[t] ELSE old[t]

Register == INSTANCE ManagedFile WITH
    value <- Version,
    request <- [w \in W |-> [data |-> data[w], mode |-> mode[w], seen |-> seen[w]]],
    answer <- [w \in W |-> IF pc[w] = "done" THEN result[w] ELSE "none"]

(* The transaction protocol implements the register, with every crash,     *)
(* fault and recovery in it (as long as locks are honoured and no other    *)
(* program writes the file).                                               *)
ImplementsRegister == Register!Spec

=============================================================================
