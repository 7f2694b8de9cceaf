------------------------ MODULE AtomicStorageProofs ------------------------
(***************************************************************************)
(* AtomicStorage for every set of calls, recoverers and contents: mutual   *)
(* exclusion in the locked body and the single journal, what the journal   *)
(* protects and when it may go, that no file is torn and nothing           *)
(* acknowledged is lost, and with all that the implementation of the       *)
(* register that ManagedFile promises.                                     *)
(***************************************************************************)
EXTENDS AtomicStorage, TLAPS

(* A recovery that runs has chosen a transaction.                          *)
Targets == \A r \in R : rpc[r] # "idle" => target[r] \in W
TypeInv == TypeOK /\ Targets

(* Every reachable state is well typed.                                    *)
THEOREM TypeCorrect == Spec => []TypeInv
<1>1. Init => TypeInv
  BY ConstantsAssumption DEF Init, TypeInv, TypeOK, Targets, Content
<1>2. TypeInv /\ [Next]_vars => TypeInv'
  <2> SUFFICES ASSUME TypeInv, [Next]_vars PROVE TypeInv'
    OBVIOUS
  <2> USE ConstantsAssumption DEF TypeInv, Targets, TypeOK, Content, Goto, Leave, RGoto, disk, wvars, rvars
  <2>1. ASSUME NEW w \in W, Begin(w) PROVE TypeInv'
    BY <2>1 DEF Begin, Prepare, Running, Holding, Body
  <2>2. ASSUME NEW w \in W, Continue(w) PROVE TypeInv'
    <3> USE DEF Running, Holding, Body, BeforeJournal, AfterJournal
    <3>1. CASE AcquireLock(w) BY <3>1 DEF AcquireLock
    <3>2. CASE LockBusy(w) BY <3>2 DEF LockBusy
    <3>3. CASE RequireClean(w) BY <3>3 DEF RequireClean
    <3>4. CASE ReadOld(w) BY <3>4 DEF ReadOld
    <3>5. CASE OpenTemp(w) BY <3>5 DEF OpenTemp
    <3>6. CASE SyncTemp(w) BY <3>6 DEF SyncTemp, Accepts
    <3>7. CASE OpenJournal(w) BY <3>7 DEF OpenJournal
    <3>8. CASE SyncJournal(w) BY <3>8 DEF SyncJournal
    <3>9. CASE Recheck(w) BY <3>9 DEF Recheck
    <3>10. CASE ReplaceFresh(w) BY <3>10 DEF ReplaceFresh
    <3>11. CASE ReplaceNeedsBackup(w) BY <3>11 DEF ReplaceNeedsBackup
    <3>12. CASE BackUp(w) BY <3>12 DEF BackUp, BackupCopy
    <3>13. CASE Swap(w) BY <3>13 DEF Swap
    <3>14. CASE ReplacementGone(w) BY <3>14 DEF ReplacementGone
    <3>15. CASE Verify(w) BY <3>15 DEF Verify
    <3>16. CASE Finish(w) BY <3>16 DEF Finish
    <3>17. CASE CheckToken(w) BY <3>17 DEF CheckToken
    <3>18. CASE Unlock(w) BY <3>18 DEF Unlock
    <3> QED BY <2>2, <3>1, <3>2, <3>3, <3>4, <3>5, <3>6, <3>7, <3>8, <3>9, <3>10, <3>11,
               <3>12, <3>13, <3>14, <3>15, <3>16, <3>17, <3>18 DEF Continue
  <2>3. ASSUME NEW w \in W, LockFails(w) \/ Fault(w) PROVE TypeInv'
    BY <2>3 DEF LockFails, Fault, Running, Holding
  <2>4. ASSUME NEW w \in W, Crash(w) PROVE TypeInv'
    BY <2>4 DEF Crash
  <2>5. ASSUME NEW r \in R, Recover(r) PROVE TypeInv'
    <3> USE DEF RRunning, RHolding, RBody
    <3>1. ASSUME NEW t \in W, RSelect(r, t) PROVE TypeInv' BY <3>1 DEF RSelect
    <3>2. CASE RAcquireLock(r) BY <3>2 DEF RAcquireLock
    <3>3. CASE RReselect(r)
      <4>1. PICK found \in {"manual", "finalize_committed", "discard_uncommitted",
                            "restore_new", "restore_backup"} : found = Inspect(target[r])
        BY DEF Inspect
      <4>2. PICK next \in {"exit", "verify", "clean", "copy"} :
               rpc' = [rpc EXCEPT ![r] = next]
        BY <3>3 DEF RReselect
      <4>3. /\ rpc[r] = "locked"
            /\ plan' = [plan EXCEPT ![r] = found]
            /\ UNCHANGED <<disk, wvars, target, copied, failures, interfered>>
        BY <3>3, <4>1 DEF RReselect
      <4> QED BY <4>2, <4>3
    <3>4. CASE RCopy(r)
      <4>1. RSource(r) \in Content
        BY <3>4 DEF RCopy, RSource
      <4> QED BY <3>4, <4>1 DEF RCopy
    <3>5. CASE RReplace(r) BY <3>5 DEF RReplace
    <3>6. CASE RSwap(r) BY <3>6 DEF RSwap
    <3>7. CASE RVerify(r) BY <3>7 DEF RVerify
    <3>8. CASE RUnlinkTemp(r) BY <3>8 DEF RUnlinkTemp
    <3>9. CASE RUnlinkJournal(r) BY <3>9 DEF RUnlinkJournal
    <3>10. CASE RCheckToken(r) BY <3>10 DEF RCheckToken
    <3>11. CASE RUnlock(r) BY <3>11 DEF RUnlock
    <3> QED BY <2>5, <3>1, <3>2, <3>3, <3>4, <3>5, <3>6, <3>7, <3>8, <3>9, <3>10, <3>11
            DEF Recover
  <2>6. ASSUME NEW r \in R, RFail(r) PROVE TypeInv'
    BY <2>6 DEF RFail, RRunning, RHolding, RBody
  <2>7. CASE Quarantine
    BY <2>7 DEF Quarantine
  <2>8. CASE Interfere
    BY <2>8 DEF Interfere
  <2>9. CASE UNCHANGED vars
    BY <2>9 DEF vars
  <2> QED
    BY <2>1, <2>2, <2>3, <2>4, <2>5, <2>6, <2>7, <2>8, <2>9 DEF Next
<1> QED
  BY <1>1, <1>2, PTL DEF Spec

-----------------------------------------------------------------------------
(***************************************************************************)
(* Whoever is between taking and releasing the lock owns the lock file, as *)
(* long as only stale locks are quarantined: this is inductive, and        *)
(* MutualExclusion is not (it says nothing of the lock).                   *)
(***************************************************************************)
LockInv ==
    ~QuarantineLive =>
        /\ \A w \in W : pc[w] \in Holding => lock = w
        /\ \A r \in R : rpc[r] \in RHolding => lock = r

(* No step takes the lock away from its holder, or admits a second one.   *)
LEMMA LockStep == TypeInv /\ LockInv /\ [Next]_vars => LockInv'
<1> SUFFICES ASSUME TypeInv, LockInv, [Next]_vars, ~QuarantineLive PROVE LockInv'
  BY DEF LockInv
<1> USE ConstantsAssumption
        DEF TypeInv, TypeOK, LockInv, Goto, Leave, RGoto, disk, wvars, rvars, Holding, RHolding,
            Body, BeforeJournal, AfterJournal, RBody, LockFree
<1>1. ASSUME NEW w \in W, Begin(w) PROVE LockInv'
  BY <1>1 DEF Begin, Prepare
<1>2. ASSUME NEW w \in W, Continue(w) PROVE LockInv'
  <2>1. CASE AcquireLock(w) BY <2>1 DEF AcquireLock
  <2>2. CASE Unlock(w) BY <2>2 DEF Unlock
  <2>3. CASE LockBusy(w) BY <2>3 DEF LockBusy
  <2>4. CASE CheckToken(w) BY <2>4 DEF CheckToken
  <2>5. ASSUME ~(AcquireLock(w) \/ Unlock(w) \/ LockBusy(w) \/ CheckToken(w))
        PROVE /\ UNCHANGED <<lock, rpc>>
              /\ pc[w] \in Body
              /\ \E l \in Holding : pc' = [pc EXCEPT ![w] = l]
    BY <1>2, <2>5 DEF Continue, RequireClean, ReadOld, OpenTemp, SyncTemp, OpenJournal,
       SyncJournal, Recheck, ReplaceFresh, ReplaceNeedsBackup, BackUp, Swap, ReplacementGone,
       Verify, Finish
  <2> QED BY <2>1, <2>2, <2>3, <2>4, <2>5
<1>3. ASSUME NEW w \in W, LockFails(w) \/ Fault(w) PROVE LockInv'
  <2>1. CASE LockFails(w) BY <2>1 DEF LockFails
  <2>2. CASE Fault(w) BY <2>2 DEF Fault
  <2> QED BY <1>3, <2>1, <2>2
<1>4. ASSUME NEW w \in W, Crash(w) PROVE LockInv'
  BY <1>4 DEF Crash
<1>5. ASSUME NEW r \in R, Recover(r) PROVE LockInv'
  <2>1. ASSUME NEW t \in W, RSelect(r, t) PROVE LockInv' BY <2>1 DEF RSelect
  <2>2. CASE RAcquireLock(r) BY <2>2 DEF RAcquireLock
  <2>3. CASE RUnlock(r) BY <2>3 DEF RUnlock
  <2>4. CASE RCheckToken(r) BY <2>4 DEF RCheckToken
  <2>5. ASSUME RReselect(r) \/ RCopy(r) \/ RReplace(r) \/ RSwap(r) \/ RVerify(r)
               \/ RUnlinkTemp(r) \/ RUnlinkJournal(r)
        PROVE /\ UNCHANGED <<lock, pc>>
              /\ rpc[r] \in RBody
              /\ \E l \in RHolding : rpc' = [rpc EXCEPT ![r] = l]
    BY <2>5 DEF RReselect, RCopy, RReplace, RSwap, RVerify, RUnlinkTemp, RUnlinkJournal
  <2> QED BY <1>5, <2>1, <2>2, <2>3, <2>4, <2>5 DEF Recover
<1>6. ASSUME NEW r \in R, RFail(r) PROVE LockInv'
  BY <1>6 DEF RFail
<1>7. CASE Quarantine
  BY <1>7 DEF Quarantine, OwnerRuns
<1>8. CASE Interfere
  BY <1>8 DEF Interfere
<1>9. CASE UNCHANGED vars
  BY <1>9 DEF vars
<1> QED
  BY <1>1, <1>2, <1>3, <1>4, <1>5, <1>6, <1>7, <1>8, <1>9 DEF Next

(* At most one write or recovery is inside the locked body.                *)
THEOREM LockIsExclusive == Spec => []MutualExclusion
<1>1. Init => LockInv
  BY DEF Init, LockInv, Holding, RHolding, Body, BeforeJournal, AfterJournal, RBody
<1>2. LockInv => MutualExclusion
  BY DEF LockInv, MutualExclusion, InBody, Holding, RHolding
<1> QED
  BY <1>1, <1>2, LockStep, TypeCorrect, PTL DEF Spec

-----------------------------------------------------------------------------
(***************************************************************************)
(* The journal.  A call that has passed require_clean_storage holds the    *)
(* lock, so no journal but its own can be there until it is done.          *)
(***************************************************************************)
Cleared == {"clean", "checked", "tempOpen", "validated"}
Journaling == {"journalOpen", "journaled", "rechecked", "backedUp", "replaced", "verified"}

JournalInv ==
    ~QuarantineLive =>
        /\ OneJournal
        /\ \A w \in W : pc[w] \in Cleared => \A t \in W : journal[t] = "none"
        /\ \A w \in W : pc[w] \in Journaling => \A t \in W : journal[t] # "none" => t = w

(* A journal is written only by a call that has found none.                *)
LEMMA JournalStep == TypeInv /\ LockInv /\ JournalInv /\ [Next]_vars => JournalInv'
<1> SUFFICES ASSUME TypeInv, LockInv, JournalInv, [Next]_vars, ~QuarantineLive PROVE JournalInv'
  BY DEF JournalInv
<1> USE ConstantsAssumption
        DEF TypeInv, TypeOK, LockInv, JournalInv, OneJournal, Cleared, Journaling, Goto, Leave, RGoto,
            disk, wvars, rvars, Holding, RHolding, Body, BeforeJournal, AfterJournal, RBody, Clean
<1>1. ASSUME NEW w \in W, Begin(w) PROVE JournalInv'
  BY <1>1 DEF Begin, Prepare
<1>2. ASSUME NEW w \in W, Continue(w) PROVE JournalInv'
  <2>1. CASE AcquireLock(w) BY <2>1 DEF AcquireLock
  <2>2. CASE RequireClean(w) BY <2>2 DEF RequireClean
  <2>3. CASE ReadOld(w) \/ OpenTemp(w) \/ SyncTemp(w)
    BY <2>3 DEF ReadOld, OpenTemp, SyncTemp
  <2>4. CASE OpenJournal(w) BY <2>4 DEF OpenJournal
  <2>5. CASE SyncJournal(w) BY <2>5 DEF SyncJournal
  <2>6. CASE Recheck(w) \/ ReplaceFresh(w) \/ ReplaceNeedsBackup(w) \/ BackUp(w) \/ Swap(w)
    BY <2>6 DEF Recheck, ReplaceFresh, ReplaceNeedsBackup, BackUp, Swap
  <2>7. CASE ReplacementGone(w) \/ Verify(w) \/ Finish(w)
    BY <2>7 DEF ReplacementGone, Verify, Finish
  <2>8. CASE LockBusy(w) \/ CheckToken(w) \/ Unlock(w)
    BY <2>8 DEF LockBusy, CheckToken, Unlock
  <2> QED BY <1>2, <2>1, <2>2, <2>3, <2>4, <2>5, <2>6, <2>7, <2>8 DEF Continue
<1>3. ASSUME NEW w \in W, LockFails(w) \/ Fault(w) PROVE JournalInv'
  BY <1>3 DEF LockFails, Fault
<1>4. ASSUME NEW w \in W, Crash(w) PROVE JournalInv'
  BY <1>4 DEF Crash
<1>5. ASSUME NEW r \in R, Recover(r) PROVE JournalInv'
  <2>1. CASE RUnlinkJournal(r) BY <2>1 DEF RUnlinkJournal
  <2>2. ASSUME ~RUnlinkJournal(r) PROVE UNCHANGED <<journal, pc>>
    BY <1>5, <2>2 DEF Recover, RSelect, RAcquireLock, RReselect, RCopy, RReplace, RSwap, RVerify,
       RUnlinkTemp, RCheckToken, RUnlock
  <2> QED BY <2>1, <2>2
<1>6. ASSUME NEW r \in R, RFail(r) PROVE JournalInv'
  BY <1>6 DEF RFail
<1>7. CASE Quarantine \/ Interfere
  BY <1>7 DEF Quarantine, Interfere
<1>8. CASE UNCHANGED vars
  BY <1>8 DEF vars
<1> QED
  BY <1>1, <1>2, <1>3, <1>4, <1>5, <1>6, <1>7, <1>8 DEF Next

(* There is never more than one journal, so recovery finds at most one     *)
(* transaction to choose.                                                  *)
THEOREM JournalIsUnique == Spec => []OneJournal
<1>1. Init => LockInv /\ JournalInv
  BY DEF Init, LockInv, JournalInv, OneJournal, Cleared, Journaling, Holding, RHolding, Body,
     BeforeJournal, AfterJournal, RBody
<1>2. JournalInv => OneJournal
  BY DEF JournalInv, OneJournal
<1> QED
  BY <1>1, <1>2, LockStep, JournalStep, TypeCorrect, PTL DEF Spec

-----------------------------------------------------------------------------
(***************************************************************************)
(* What replaces the live file.  A journalled call has fixed the two       *)
(* versions its journal names; the file it moves into place holds the new  *)
(* one, and a recovery copies one of the two.                              *)
(***************************************************************************)
Fixed(w) == pc[w] \notin {"idle", "ready", "locked", "clean"}

CandidateInv ==
    ~QuarantineLive =>
        /\ \A w \in W : journal[w] # "none" => Fixed(w)
        /\ \A w \in W : pc[w] \in {"validated", "journalOpen", "journaled", "rechecked", "backedUp"}
                         => temp[w] = data[w]
        /\ \A r \in R : rpc[r] # "idle" => Fixed(target[r])
        /\ \A r \in R : rpc[r] \in {"copy", "replace", "swap"} =>
              /\ journal[target[r]] # "none"
              /\ plan[r] \in {"restore_new", "restore_backup"}
        /\ \A r \in R : rpc[r] = "copy" => RSource(r) \in {data[target[r]], old[target[r]]}
        /\ \A r \in R : rpc[r] \in {"replace", "swap"} =>
              copied[r] \in {data[target[r]], old[target[r]]}

(* Every file on its way to the live path is one of the two versions.      *)
LEMMA CandidateStep ==
    TypeInv /\ LockInv /\ JournalInv /\ CandidateInv /\ [Next]_vars => CandidateInv'
<1> SUFFICES ASSUME TypeInv, LockInv, JournalInv, CandidateInv, [Next]_vars, ~QuarantineLive
             PROVE CandidateInv'
  BY DEF CandidateInv
<1> USE ConstantsAssumption
        DEF TypeInv, TypeOK, Targets, LockInv, CandidateInv, Fixed, Goto, Leave, RGoto,
            disk, wvars, rvars, Holding, RHolding, Body, BeforeJournal, AfterJournal, RBody
<1>1. ASSUME NEW w \in W, Begin(w) PROVE CandidateInv'
  BY <1>1 DEF Begin, Prepare, RSource
<1>2. ASSUME NEW w \in W, Continue(w) PROVE CandidateInv'
  <2>1. CASE AcquireLock(w) BY <2>1 DEF AcquireLock, RSource
  <2>2. CASE RequireClean(w) BY <2>2 DEF RequireClean, RSource
  <2>3. CASE ReadOld(w) BY <2>3 DEF ReadOld, RSource
  <2>4. CASE OpenTemp(w) BY <2>4 DEF OpenTemp, RSource
  <2>5. CASE SyncTemp(w) BY <2>5 DEF SyncTemp, RSource
  <2>6. CASE OpenJournal(w) BY <2>6 DEF OpenJournal, RSource
  <2>7. CASE SyncJournal(w) BY <2>7 DEF SyncJournal, RSource
  <2>8. CASE Recheck(w) BY <2>8 DEF Recheck, RSource
  <2>9. CASE ReplaceFresh(w) BY <2>9 DEF ReplaceFresh, RSource
  <2>10. CASE ReplaceNeedsBackup(w) BY <2>10 DEF ReplaceNeedsBackup, RSource
  <2>11. CASE BackUp(w) BY <2>11 DEF BackUp, RSource
  <2>12. CASE Swap(w) BY <2>12 DEF Swap, RSource
  <2>13. CASE ReplacementGone(w) \/ Verify(w) BY <2>13 DEF ReplacementGone, Verify, RSource
  <2>14. CASE Finish(w) BY <2>14 DEF Finish, RSource
  <2>15. CASE LockBusy(w) \/ CheckToken(w) \/ Unlock(w)
    BY <2>15 DEF LockBusy, CheckToken, Unlock, RSource
  <2> QED BY <1>2, <2>1, <2>2, <2>3, <2>4, <2>5, <2>6, <2>7, <2>8, <2>9, <2>10, <2>11, <2>12,
             <2>13, <2>14, <2>15 DEF Continue
<1>3. ASSUME NEW w \in W, LockFails(w) \/ Fault(w) PROVE CandidateInv'
  BY <1>3 DEF LockFails, Fault, RSource
<1>4. ASSUME NEW w \in W, Crash(w) PROVE CandidateInv'
  BY <1>4 DEF Crash, RSource
<1>5. ASSUME NEW r \in R, Recover(r) PROVE CandidateInv'
  <2>1. ASSUME NEW t \in W, RSelect(r, t) PROVE CandidateInv' BY <2>1 DEF RSelect, RSource
  <2>2. CASE RAcquireLock(r) BY <2>2 DEF RAcquireLock, RSource
  <2>3. CASE RReselect(r)
    <3>1. PICK next \in {"exit", "verify", "clean", "copy"} : rpc' = [rpc EXCEPT ![r] = next]
      BY <2>3 DEF RReselect
    <3>2. /\ rpc[r] = "locked" /\ plan' = [plan EXCEPT ![r] = Inspect(target[r])]
          /\ UNCHANGED <<disk, wvars, target, copied, failures, interfered>>
      BY <2>3 DEF RReselect
    <3>3. ASSUME next = "copy"
          PROVE  /\ journal[target[r]] = "written"
                 /\ \/ Inspect(target[r]) = "restore_new" /\ temp[target[r]] = data[target[r]]
                    \/ Inspect(target[r]) = "restore_backup" /\ backup[target[r]] = old[target[r]]
      BY <2>3, <3>1, <3>3 DEF RReselect, Inspect, Matches
    <3>4. \A q \in R : rpc'[q] = "copy" => RSource(q)' \in {data[target[q]], old[target[q]]}
      BY <3>1, <3>2, <3>3 DEF RSource
    <3> HIDE DEF RSource
    <3> QED BY <3>1, <3>2, <3>3, <3>4
  <2>4. CASE RCopy(r) BY <2>4 DEF RCopy, RSource
  <2>5. CASE RReplace(r) BY <2>5 DEF RReplace, RSource
  <2>6. CASE RSwap(r) \/ RVerify(r) BY <2>6 DEF RSwap, RVerify, RSource
  <2>7. CASE RUnlinkTemp(r) BY <2>7 DEF RUnlinkTemp, RSource
  <2>8. CASE RUnlinkJournal(r) BY <2>8 DEF RUnlinkJournal, RSource
  <2>9. CASE RCheckToken(r) \/ RUnlock(r) BY <2>9 DEF RCheckToken, RUnlock, RSource
  <2> QED BY <1>5, <2>1, <2>2, <2>3, <2>4, <2>5, <2>6, <2>7, <2>8, <2>9 DEF Recover
<1>6. ASSUME NEW r \in R, RFail(r) PROVE CandidateInv'
  BY <1>6 DEF RFail, RSource
<1>7. CASE Quarantine \/ Interfere
  BY <1>7 DEF Quarantine, Interfere, RSource
<1>8. CASE UNCHANGED vars
  BY <1>8 DEF vars, RSource
<1> QED
  BY <1>1, <1>2, <1>3, <1>4, <1>5, <1>6, <1>7, <1>8 DEF Next

(* While a journal is there, the live file moves only between the versions *)
(* it names.                                                               *)
THEOREM LiveFailsClosed == Spec => FailClosed
<1>1. Init => LockInv /\ JournalInv /\ CandidateInv
  BY DEF Init, LockInv, JournalInv, CandidateInv, Fixed, OneJournal, Cleared, Journaling, Holding,
     RHolding, Body, BeforeJournal, AfterJournal, RBody
<1>2. TypeInv /\ LockInv /\ JournalInv /\ CandidateInv /\ [Next]_vars =>
        [~QuarantineLive /\ interfered' = 0 /\ live' # live =>
            \A t \in W : journal[t] # "none" => live' \in {old[t], data[t], Absent}]_vars
  <2> SUFFICES ASSUME TypeInv, LockInv, JournalInv, CandidateInv, Next, ~QuarantineLive,
                      interfered' = 0, live' # live, NEW t \in W, journal[t] # "none"
               PROVE  live' \in {old[t], data[t], Absent}
    OBVIOUS
  <2> USE ConstantsAssumption DEF TypeInv, TypeOK, Targets
  <2>1. ASSUME NEW w \in W, ReplaceFresh(w) \/ Swap(w) \/ BackUp(w) PROVE live' \in {data[t], Absent}
    BY <2>1 DEF ReplaceFresh, Swap, BackUp, JournalInv, Journaling, CandidateInv
  <2>2. ASSUME NEW r \in R, RReplace(r) \/ RSwap(r)
        PROVE  live' \in {data[t], old[t], Absent}
    <3>1. target[r] \in W /\ target[r] = t
      BY <2>2 DEF RReplace, RSwap, CandidateInv, JournalInv, OneJournal
    <3> QED BY <2>2, <3>1 DEF RReplace, RSwap, CandidateInv
  <2>3. CASE Interfere
    BY <2>3 DEF Interfere
  <2>4. ASSUME NEW w \in W, Begin(w) \/ LockFails(w) \/ Fault(w) \/ Crash(w) PROVE UNCHANGED live
    BY <2>4 DEF Begin, Prepare, LockFails, Fault, Crash, disk
  <2>5. ASSUME NEW w \in W, Continue(w), ~(ReplaceFresh(w) \/ Swap(w) \/ BackUp(w))
        PROVE UNCHANGED live
    BY <2>5 DEF Continue, AcquireLock, LockBusy, RequireClean, ReadOld, OpenTemp, SyncTemp,
       OpenJournal, SyncJournal, Recheck, ReplaceNeedsBackup, ReplacementGone, Verify, Finish,
       CheckToken, Unlock, disk
  <2>6. ASSUME NEW r \in R, Recover(r) \/ RFail(r), ~(RReplace(r) \/ RSwap(r)) PROVE UNCHANGED live
    BY <2>6 DEF Recover, RFail, RSelect, RAcquireLock, RReselect, RCopy, RVerify, RUnlinkTemp,
       RUnlinkJournal, RCheckToken, RUnlock, disk
  <2>7. CASE Quarantine
    BY <2>7 DEF Quarantine
  <2> QED
    BY <2>1, <2>2, <2>3, <2>4, <2>5, <2>6, <2>7 DEF Next
<1>3. Spec => [](TypeInv /\ LockInv /\ JournalInv /\ CandidateInv)
  BY <1>1, LockStep, JournalStep, CandidateStep, TypeCorrect, PTL DEF Spec
<1> QED
  BY <1>2, <1>3, PTL DEF Spec, FailClosed

-----------------------------------------------------------------------------
(***************************************************************************)
(* Where the four files of a transaction are at each place of its call,    *)
(* and what a recovery finds: what the refinement of the register, the     *)
(* removal of journals and the fate of acknowledged writes rest on.  It    *)
(* holds while locks are honoured and only this code writes the file.      *)
(***************************************************************************)
Checked == {"checked", "tempOpen", "validated", "journalOpen", "journaled", "rechecked"}
Candidate == {"validated", "journalOpen", "journaled", "rechecked", "backedUp"}
Written == {"journaled", "rechecked", "backedUp", "replaced", "verified"}
Leaving == {"exit", "unlink"}

(* The caller's preconditions hold of the version the call has read.       *)
Approved(w) ==
    /\ old[w] \in Data \cup {Absent}
    /\ mode[w] = "expect" => old[w] = seen[w]
    /\ mode[w] = "create" => old[w] = Absent

(* A whole journal names two versions between which the live file is, and  *)
(* while it is missing the new version is at hand.                         *)
Recoverable(w) ==
    journal[w] = "written" =>
        /\ data[w] \in Data /\ old[w] \in Data \cup {Absent}
        /\ live \in {old[w], data[w], Absent}
        /\ live = Absent /\ old[w] # Absent => temp[w] = data[w]

Place(w) ==
    /\ pc[w] = "idle" => data[w] = Absent
    /\ pc[w] \in {"idle", "ready", "locked"} => journal[w] = "none"
    /\ pc[w] \in Checked \cup Written => Approved(w)
    /\ pc[w] \in Checked => live = old[w]
    /\ pc[w] \in Candidate \cup Written => data[w] \in Data
    /\ pc[w] \in Candidate => temp[w] = data[w]
    /\ pc[w] = "journalOpen" => journal[w] = "torn"
    /\ pc[w] \in Written => journal[w] = "written"
    /\ pc[w] = "backedUp" => /\ old[w] \in Data /\ backup[w] = old[w]
                             /\ live = IF Windows THEN Absent ELSE old[w]
    /\ pc[w] \in {"replaced", "verified"} => live = data[w]
    /\ pc[w] \in {"idle", "ready", "locked", "clean"} \cup Checked => backup[w] = Absent

Told(w) ==
    /\ pc[w] \in {"idle", "ready"} \cup Body => result[w] = "none"
    /\ pc[w] \in Leaving => result[w] # "none"
    /\ result[w] = "ok" => data[w] \in Data
    /\ pc[w] \in Leaving /\ result[w] = "ok" => live = data[w]

CallInv(w) == Recoverable(w) /\ Place(w) /\ Told(w)

RecoveryInv(r) ==
    /\ rpc[r] # "swap"
    /\ rpc[r] \in {"copy", "replace", "verify", "clean", "unjournal"} => journal[target[r]] = "written"
    /\ rpc[r] \in {"copy", "replace"} => /\ plan[r] = "restore_new" /\ live = Absent
                                         /\ temp[target[r]] = data[target[r]]
    /\ rpc[r] = "replace" => copied[r] = data[target[r]]
    /\ rpc[r] \in {"clean", "unjournal"} => live \in {old[target[r]], data[target[r]]} \cap Data

ProtocolInv ==
    ~QuarantineLive /\ interfered = 0 =>
        /\ live \in Data \cup {Absent}
        /\ \A w \in W : CallInv(w)
        /\ \A r \in R : RecoveryInv(r)

(* Nothing but another program counts as interference.                     *)
LEMMA Interfering == [Next]_vars => Interfere \/ UNCHANGED interfered
<1> SUFFICES ASSUME [Next]_vars, ~Interfere PROVE UNCHANGED interfered
  OBVIOUS
<1>1. ASSUME NEW w \in W, Begin(w) \/ LockFails(w) \/ Fault(w) \/ Crash(w) PROVE UNCHANGED interfered
  BY <1>1 DEF Begin, Prepare, LockFails, Fault, Crash
<1>2. ASSUME NEW w \in W, Continue(w) PROVE UNCHANGED interfered
  BY <1>2 DEF Continue, AcquireLock, LockBusy, RequireClean, ReadOld, OpenTemp, SyncTemp, OpenJournal,
     SyncJournal, Recheck, ReplaceFresh, ReplaceNeedsBackup, BackUp, Swap, ReplacementGone, Verify,
     Finish, CheckToken, Unlock
<1>3. ASSUME NEW r \in R, Recover(r) \/ RFail(r) PROVE UNCHANGED interfered
  BY <1>3 DEF Recover, RFail, RSelect, RAcquireLock, RReselect, RCopy, RReplace, RSwap, RVerify,
     RUnlinkTemp, RUnlinkJournal, RCheckToken, RUnlock
<1> QED BY <1>1, <1>2, <1>3 DEF Next, Quarantine, vars

(* Every step keeps it.                                                    *)
LEMMA ProtocolStep ==
    TypeInv /\ LockInv /\ JournalInv /\ ProtocolInv /\ [Next]_vars => ProtocolInv'
<1> SUFFICES ASSUME TypeInv, LockInv, JournalInv, ProtocolInv, [Next]_vars,
                    ~QuarantineLive, interfered' = 0
             PROVE ProtocolInv'
  BY DEF ProtocolInv
<1>0. interfered = 0
  BY Interfering DEF TypeInv, TypeOK, Interfere
<1> USE ConstantsAssumption, <1>0
        DEF TypeInv, TypeOK, Targets, LockInv, JournalInv, OneJournal, ProtocolInv, CallInv, RecoveryInv,
            Recoverable, Place, Told, Approved, Checked, Candidate, Written, Leaving, Cleared, Journaling,
            Goto, Leave, RGoto, disk, wvars, rvars, Running, Holding, RHolding, RRunning, Body,
            BeforeJournal, AfterJournal, RBody
<1>1. ASSUME NEW w \in W, Begin(w) PROVE ProtocolInv'
  BY <1>1 DEF Begin, Prepare
<1>2. ASSUME NEW w \in W, Continue(w) PROVE ProtocolInv'
  <2>1. CASE AcquireLock(w) BY <2>1 DEF AcquireLock, LockFree
  <2>2. CASE RequireClean(w) BY <2>2 DEF RequireClean
  <2>3. CASE ReadOld(w) BY <2>3 DEF ReadOld, Refused
  <2>4. CASE OpenTemp(w) BY <2>4 DEF OpenTemp
  <2>5. CASE SyncTemp(w) BY <2>5 DEF SyncTemp, Accepts
  <2>6. CASE OpenJournal(w) BY <2>6 DEF OpenJournal
  <2>7. CASE SyncJournal(w) BY <2>7 DEF SyncJournal
  <2>8. CASE Recheck(w) BY <2>8 DEF Recheck
  <2>9. CASE ReplaceFresh(w) BY <2>9 DEF ReplaceFresh
  <2>10. CASE ReplaceNeedsBackup(w) BY <2>10 DEF ReplaceNeedsBackup
  <2>11. CASE BackUp(w) BY <2>11 DEF BackUp, BackupCopy
  <2>12. CASE Swap(w) BY <2>12 DEF Swap
  <2>13. CASE ReplacementGone(w) BY <2>13 DEF ReplacementGone
  <2>14. CASE Verify(w) BY <2>14 DEF Verify
  <2>15. CASE Finish(w) BY <2>15 DEF Finish
  <2>16. CASE LockBusy(w) BY <2>16 DEF LockBusy, LockFree
  <2>17. CASE CheckToken(w) BY <2>17 DEF CheckToken
  <2>18. CASE Unlock(w) BY <2>18 DEF Unlock
  <2> QED BY <1>2, <2>1, <2>2, <2>3, <2>4, <2>5, <2>6, <2>7, <2>8, <2>9, <2>10, <2>11, <2>12,
             <2>13, <2>14, <2>15, <2>16, <2>17, <2>18 DEF Continue
<1>3. ASSUME NEW w \in W, Fault(w) PROVE ProtocolInv'
  <2>1. CASE pc[w] \in BeforeJournal /\ UNCHANGED journal
    BY <1>3, <2>1 DEF Fault
  <2>2. CASE pc[w] = "journalOpen" /\ journal' = [journal EXCEPT ![w] = "written"]
    BY <1>3, <2>2 DEF Fault
  <2>3. CASE pc[w] \in AfterJournal
    BY <1>3, <2>3 DEF Fault
  <2> QED BY <1>3, <2>1, <2>2, <2>3 DEF Fault
<1>10. ASSUME NEW w \in W, LockFails(w) PROVE ProtocolInv'
  BY <1>10 DEF LockFails, LockFree
<1>4. ASSUME NEW w \in W, Crash(w) PROVE ProtocolInv'
  BY <1>4 DEF Crash
<1>5. ASSUME NEW r \in R, Recover(r) PROVE ProtocolInv'
  <2>1. ASSUME NEW t \in W, RSelect(r, t) PROVE ProtocolInv' BY <2>1 DEF RSelect
  <2>2. CASE RAcquireLock(r) BY <2>2 DEF RAcquireLock, LockFree
  <2>3. CASE RReselect(r) BY <2>3 DEF RReselect, Inspect, Matches
  <2>4. CASE RCopy(r) BY <2>4 DEF RCopy, RSource
  <2>5. CASE RReplace(r) BY <2>5 DEF RReplace
  <2>6. CASE RSwap(r) BY <2>6 DEF RSwap
  <2>7. CASE RVerify(r) BY <2>7 DEF RVerify, RExpected, Matches
  <2>8. CASE RUnlinkTemp(r) BY <2>8 DEF RUnlinkTemp
  <2>9. CASE RUnlinkJournal(r) BY <2>9 DEF RUnlinkJournal
  <2>10. CASE RCheckToken(r) BY <2>10 DEF RCheckToken
  <2>11. CASE RUnlock(r) BY <2>11 DEF RUnlock
  <2> QED BY <1>5, <2>1, <2>2, <2>3, <2>4, <2>5, <2>6, <2>7, <2>8, <2>9, <2>10, <2>11 DEF Recover
<1>6. ASSUME NEW r \in R, RFail(r) PROVE ProtocolInv'
  BY <1>6 DEF RFail
<1>7. CASE Quarantine
  BY <1>7 DEF Quarantine
<1>8. CASE UNCHANGED vars
  BY <1>8 DEF vars
<1>9. ASSUME Interfere PROVE FALSE
  BY <1>9 DEF Interfere
<1> QED
  BY <1>1, <1>2, <1>3, <1>4, <1>5, <1>6, <1>7, <1>8, <1>9, <1>10 DEF Next

(* The protocol's invariant holds from the start.                          *)
LEMMA ProtocolInvariant == Spec => [](TypeInv /\ LockInv /\ JournalInv /\ ProtocolInv)
<1>1. Init => LockInv /\ JournalInv /\ ProtocolInv
  BY ConstantsAssumption
     DEF Init, LockInv, JournalInv, OneJournal, ProtocolInv, CallInv, RecoveryInv, Recoverable, Place,
         Told, Checked, Candidate, Written, Leaving, Cleared, Journaling, Holding, RHolding, Body,
         BeforeJournal, AfterJournal, RBody
<1> QED
  BY <1>1, LockStep, JournalStep, ProtocolStep, TypeCorrect, PTL DEF Spec

(* A journal goes only when the live file is a version it names.           *)
THEOREM JournalsAreKept == Spec => JournalOutlivesDanger
<1>1. TypeInv /\ LockInv /\ JournalInv /\ ProtocolInv /\ [Next]_vars =>
        [~QuarantineLive /\ interfered = 0 =>
            \A t \in W : journal[t] # "none" /\ journal'[t] = "none" =>
                live \in {old[t], data[t]} \cap Data]_vars
  <2> SUFFICES ASSUME TypeInv, ProtocolInv, Next, ~QuarantineLive, interfered = 0,
                      NEW t \in W, journal[t] # "none", journal'[t] = "none"
               PROVE  live \in {old[t], data[t]} \cap Data
    OBVIOUS
  <2> USE ConstantsAssumption DEF TypeInv, TypeOK, Targets
  <2>1. ASSUME NEW w \in W, Finish(w) PROVE t = w /\ live = data[t] /\ data[t] \in Data
    BY <2>1 DEF Finish, ProtocolInv, CallInv, Place, Written
  <2>2. ASSUME NEW r \in R, RUnlinkJournal(r)
        PROVE  t = target[r] /\ live \in {old[t], data[t]} \cap Data
    BY <2>2 DEF RUnlinkJournal, ProtocolInv, RecoveryInv
  <2>3. ASSUME NEW w \in W, Begin(w) \/ LockFails(w) \/ Fault(w) \/ Crash(w) PROVE FALSE
    BY <2>3 DEF Begin, Prepare, LockFails, Fault, Crash, disk
  <2>4. ASSUME NEW w \in W, Continue(w), ~Finish(w) PROVE FALSE
    BY <2>4 DEF Continue, AcquireLock, LockBusy, RequireClean, ReadOld, OpenTemp, SyncTemp,
       OpenJournal, SyncJournal, Recheck, ReplaceFresh, ReplaceNeedsBackup, BackUp, Swap,
       ReplacementGone, Verify, CheckToken, Unlock, disk
  <2>5. ASSUME NEW r \in R, Recover(r) \/ RFail(r), ~RUnlinkJournal(r) PROVE FALSE
    BY <2>5 DEF Recover, RFail, RSelect, RAcquireLock, RReselect, RCopy, RReplace, RSwap, RVerify,
       RUnlinkTemp, RCheckToken, RUnlock, disk
  <2>6. ASSUME Quarantine \/ Interfere PROVE FALSE
    BY <2>6 DEF Quarantine, Interfere
  <2> QED BY <2>1, <2>2, <2>3, <2>4, <2>5, <2>6 DEF Next
<1> QED BY <1>1, ProtocolInvariant, PTL DEF Spec, JournalOutlivesDanger

(* What was acknowledged is the live file or the backup of a later call.   *)
THEOREM AcknowledgedIsKept == Spec => []AckedKept
<1>1. Init => AckedKept
  BY DEF Init, AckedKept
<1>2. TypeInv /\ LockInv /\ JournalInv /\ ProtocolInv /\ AckedKept /\ [Next]_vars => AckedKept'
  <2> SUFFICES ASSUME TypeInv, LockInv, JournalInv, ProtocolInv, AckedKept, [Next]_vars,
                      ~QuarantineLive, interfered' = 0, NEW w \in W, result'[w] = "ok"
               PROVE  Kept(data[w])' 
    BY DEF AckedKept
  <2>0. interfered = 0
    BY Interfering DEF TypeInv, TypeOK, Interfere
  <2> USE ConstantsAssumption, <2>0
          DEF TypeInv, TypeOK, Targets, ProtocolInv, CallInv, Place, Told, Kept, AckedKept, Goto, Leave,
              RGoto, disk, wvars, rvars, Body, BeforeJournal, AfterJournal, Leaving
  <2>1. ASSUME NEW c \in W, Finish(c) PROVE Kept(data[w])'
    BY <2>1 DEF Finish, Candidate, Written
  <2>2. ASSUME NEW c \in W, ReplaceFresh(c) \/ Swap(c) \/ BackUp(c) PROVE Kept(data[w])'
    BY <2>2 DEF ReplaceFresh, Swap, BackUp, BackupCopy, Checked
  <2>3. ASSUME NEW r \in R, RReplace(r) \/ RSwap(r) PROVE Kept(data[w])'
    BY <2>3 DEF RReplace, RSwap, RecoveryInv
  <2>4. ASSUME NEW c \in W, Begin(c) \/ LockFails(c) \/ Fault(c) \/ Crash(c) PROVE Kept(data[w])'
    BY <2>4 DEF Begin, Prepare, LockFails, Fault, Crash
  <2>5. ASSUME NEW c \in W, Continue(c), ~(Finish(c) \/ ReplaceFresh(c) \/ Swap(c) \/ BackUp(c))
        PROVE Kept(data[w])'
    BY <2>5 DEF Continue, AcquireLock, LockBusy, RequireClean, ReadOld, OpenTemp, SyncTemp,
       OpenJournal, SyncJournal, Recheck, ReplaceNeedsBackup, ReplacementGone, Verify, CheckToken, Unlock
  <2>6. ASSUME NEW r \in R, Recover(r) \/ RFail(r), ~(RReplace(r) \/ RSwap(r)) PROVE Kept(data[w])'
    BY <2>6 DEF Recover, RFail, RSelect, RAcquireLock, RReselect, RCopy, RVerify, RUnlinkTemp,
       RUnlinkJournal, RCheckToken, RUnlock
  <2>7. CASE Quarantine \/ Interfere \/ UNCHANGED vars
    BY <2>7 DEF Quarantine, Interfere, vars
  <2> QED BY <2>1, <2>2, <2>3, <2>4, <2>5, <2>6, <2>7 DEF Next
<1> QED BY <1>1, <1>2, ProtocolInvariant, PTL DEF Spec

-----------------------------------------------------------------------------
(* What is about to be moved into place is whole.                          *)
WholeInv ==
    /\ \A w \in W : pc[w] \in Candidate => temp[w] \in Data \cup {Absent}
    /\ \A r \in R : rpc[r] \in {"replace", "swap"} => copied[r] \in Data

(* Even with an operator who lets a second call in and other programs that *)
(* write the file: no step of this code leaves a partial file there.       *)
THEOREM WholeFilesOnly == Spec => NeverTorn
<1>1. Init => WholeInv
  BY DEF Init, WholeInv, Candidate
<1>2. TypeInv /\ WholeInv /\ [Next]_vars => WholeInv'
  <2> SUFFICES ASSUME TypeInv, WholeInv, [Next]_vars PROVE WholeInv'
    OBVIOUS
  <2> USE ConstantsAssumption DEF TypeInv, TypeOK, Targets, WholeInv, Candidate, Goto, Leave, RGoto,
          disk, wvars, rvars
  <2>1. ASSUME NEW w \in W, Begin(w) \/ LockFails(w) \/ Fault(w) \/ Crash(w) PROVE WholeInv'
    BY <2>1 DEF Begin, Prepare, LockFails, Fault, Crash
  <2>2. ASSUME NEW w \in W, Continue(w) PROVE WholeInv'
    BY <2>2 DEF Continue, AcquireLock, LockBusy, RequireClean, ReadOld, OpenTemp, SyncTemp, Accepts,
       OpenJournal, SyncJournal, Recheck, ReplaceFresh, ReplaceNeedsBackup, BackUp, Swap,
       ReplacementGone, Verify, Finish, CheckToken, Unlock
  <2>3. ASSUME NEW r \in R, Recover(r) \/ RFail(r) PROVE WholeInv'
    BY <2>3 DEF Recover, RFail, RSelect, RAcquireLock, RReselect, RCopy, RReplace, RSwap, RVerify,
       RUnlinkTemp, RUnlinkJournal, RCheckToken, RUnlock
  <2>4. CASE Quarantine \/ Interfere \/ UNCHANGED vars
    BY <2>4 DEF Quarantine, Interfere, vars
  <2> QED BY <2>1, <2>2, <2>3, <2>4 DEF Next
<1>3. TypeInv /\ WholeInv /\ [Next]_vars =>
        [interfered' = interfered /\ live \in Data =>
            live' \in Data \/ (Windows /\ live' = Absent)]_vars
  <2> SUFFICES ASSUME TypeInv, WholeInv, Next, ~Interfere, live \in Data, live' # live
               PROVE  live' \in Data \/ (Windows /\ live' = Absent)
    BY DEF Interfere, TypeInv, TypeOK
  <2> USE ConstantsAssumption DEF TypeInv, TypeOK, WholeInv, Candidate, disk
  <2>1. ASSUME NEW w \in W, Begin(w) \/ LockFails(w) \/ Fault(w) \/ Crash(w) PROVE FALSE
    BY <2>1 DEF Begin, Prepare, LockFails, Fault, Crash
  <2>2. ASSUME NEW w \in W, Continue(w) PROVE live' \in Data \/ (Windows /\ live' = Absent)
    BY <2>2 DEF Continue, AcquireLock, LockBusy, RequireClean, ReadOld, OpenTemp, SyncTemp,
       OpenJournal, SyncJournal, Recheck, ReplaceFresh, ReplaceNeedsBackup, BackUp, Swap,
       ReplacementGone, Verify, Finish, CheckToken, Unlock
  <2>3. ASSUME NEW r \in R, Recover(r) \/ RFail(r) PROVE live' \in Data \/ (Windows /\ live' = Absent)
    BY <2>3 DEF Recover, RFail, RSelect, RAcquireLock, RReselect, RCopy, RReplace, RSwap, RVerify,
       RUnlinkTemp, RUnlinkJournal, RCheckToken, RUnlock
  <2> QED BY <2>1, <2>2, <2>3 DEF Next, Quarantine
<1> QED BY <1>1, <1>2, <1>3, TypeCorrect, PTL DEF Spec, NeverTorn

-----------------------------------------------------------------------------
(***************************************************************************)
(* The refinement of ManagedFile.  The version a reader is entitled to is  *)
(* the live file; while that is missing, the new version of the one        *)
(* transaction whose journal and replacement are both there.  So a call    *)
(* takes effect when it writes the journal of a file that was missing,     *)
(* when ReplaceFileW moves the old file aside, or when os.replace moves    *)
(* the new one in; no crash, fault or recovery changes the version.        *)
(***************************************************************************)
AtHand(t) == journal[t] = "written" /\ temp[t] = data[t]

Honoured == ~QuarantineLive /\ MaxInterference = 0
Inv == TypeInv /\ LockInv /\ JournalInv /\ ProtocolInv

VersionIs ==
    /\ live \in Data => Version = live
    /\ \A t \in W : live = Absent /\ AtHand(t) => Version = data[t]
    /\ live = Absent /\ (\A t \in W : ~AtHand(t)) => Version = Absent

(* What Version is: recovery never has to choose, and never goes back.     *)
LEMMA VersionFacts == Inv /\ Honoured => VersionIs
<1> SUFFICES ASSUME Inv, Honoured PROVE VersionIs
  OBVIOUS
<1> USE ConstantsAssumption
<1>0. interfered = 0
  BY DEF Inv, TypeInv, TypeOK, Honoured
<1>1. ASSUME NEW t \in W, live = Absent, AtHand(t) PROVE Inspect(t) = "restore_new"
  BY <1>0, <1>1 DEF Inv, Honoured, ProtocolInv, CallInv, Recoverable, AtHand, Inspect, Matches
<1>2. ASSUME NEW t \in W, live = Absent, ~AtHand(t) PROVE Inspect(t) = "manual"
  BY <1>0, <1>2 DEF Inv, Honoured, ProtocolInv, CallInv, Recoverable, AtHand, Inspect, Matches
<1>3. ASSUME live \in Data PROVE Version = live
  BY <1>3 DEF Version
<1>4. ASSUME NEW t \in W, live = Absent, AtHand(t) PROVE Version = data[t]
  <2>1. Pending = {t}
    <3>1. t \in Pending
      BY <1>1, <1>4 DEF Pending
    <3>2. ASSUME NEW u \in Pending PROVE u = t
      <4>1. u \in W /\ journal[u] = "written"
        BY DEF Pending, Inspect
      <4> QED BY <1>4, <4>1 DEF AtHand, Inv, Honoured, JournalInv, OneJournal
    <3> QED BY <3>1, <3>2
  <2>2. (CHOOSE u \in Pending : TRUE) = t
    BY <2>1
  <2> QED BY <1>1, <1>4, <2>1, <2>2 DEF Version
<1>5. ASSUME live = Absent, \A t \in W : ~AtHand(t) PROVE Version = Absent
  <2>1. Pending = {}
    BY <1>2, <1>5 DEF Pending
  <2> QED BY <1>5, <2>1 DEF Version
<1> QED BY <1>3, <1>4, <1>5 DEF VersionIs

Requests == [w \in W |-> [data |-> data[w], mode |-> mode[w], seen |-> seen[w]]]
Answers == [w \in W |-> IF pc[w] = "done" THEN result[w] ELSE "none"]

(* A step that moves no file a version depends on leaves the version.      *)
LEMMA SameVersion ==
    ASSUME Inv, Honoured, VersionIs, VersionIs', UNCHANGED live,
           live \in Data \/ \A t \in W : (AtHand(t) <=> AtHand(t)') /\ (AtHand(t) => data'[t] = data[t])
    PROVE  UNCHANGED Version
<1>1. live \in Data \/ live = Absent
  BY DEF Inv, TypeInv, TypeOK, Honoured, ProtocolInv
<1>2. CASE live \in Data
  BY <1>2 DEF VersionIs
<1>3. ASSUME live = Absent, live \notin Data, NEW t \in W, AtHand(t) PROVE UNCHANGED Version
  BY <1>3 DEF VersionIs
<1>4. ASSUME live = Absent, live \notin Data, \A t \in W : ~AtHand(t) PROVE UNCHANGED Version
  BY <1>4 DEF VersionIs
<1> QED BY <1>1, <1>2, <1>3, <1>4

(* Every step of the protocol is a step of the register, or none.          *)
LEMMA RegisterStep ==
    Inv /\ Honoured /\ VersionIs /\ VersionIs' /\ [Next]_vars => [Register!Next]_(Register!vars)
<1> SUFFICES ASSUME Inv, Honoured, VersionIs, VersionIs', [Next]_vars
             PROVE  [Register!Next]_(Register!vars)
  OBVIOUS
<1> DEFINE Stutter == UNCHANGED <<Version, Requests, Answers>>
<1>a. /\ interfered = 0 /\ TypeInv /\ LockInv /\ JournalInv /\ ~QuarantineLive
      /\ live \in Data \cup {Absent}
      /\ \A w \in W : CallInv(w)
      /\ \A r \in R : RecoveryInv(r)
  BY ConstantsAssumption DEF Inv, TypeInv, TypeOK, Honoured, ProtocolInv
<1>b. ASSUME Stutter PROVE [Register!Next]_(Register!vars)
  BY <1>b DEF Register!vars, Requests, Answers
<1> USE ConstantsAssumption, <1>a
        DEF TypeInv, TypeOK, Targets, Goto, Leave, RGoto, disk, wvars, rvars, AtHand
<1>1. ASSUME NEW w \in W, Begin(w) PROVE [Register!Next]_(Register!vars)
  <2>1. PICK d \in Data \cup {Bad}, m \in {"any", "expect", "create"} : Prepare(w, d, m)
    BY <1>1 DEF Begin
  <2>2. data[w] = Absent /\ journal[w] = "none"
    BY <2>1 DEF Prepare, CallInv, Place
  <2>3. UNCHANGED Version
    BY <2>1, <2>2, SameVersion DEF Prepare
  <2>4. UNCHANGED Answers
    BY <2>1 DEF Prepare, Answers
  <2>5. m = "expect" => Version \in Data /\ Version = live
    BY <2>1 DEF Prepare, VersionIs
  <2>6. /\ Requests[w].data = Absent
        /\ Requests' = [Requests EXCEPT ![w] =
              [data |-> d, mode |-> m, seen |-> IF m = "expect" THEN Version ELSE Absent]]
    BY <2>1, <2>2, <2>5 DEF Prepare, Requests
  <2>7. Register!Request(w)
    BY <2>3, <2>4, <2>5, <2>6 DEF Register!Request, Requests, Answers
  <2> QED BY <2>7 DEF Register!Next
<1> DEFINE Installs(w) ==
        /\ Answers[w] \in Register!Open
        /\ data[w] \in Data
        /\ mode[w] = "expect" => Version = seen[w]
        /\ mode[w] = "create" => Version = Absent
        /\ Version' = data[w]
        /\ UNCHANGED <<Requests, Answers>>
<1>c. ASSUME NEW w \in W, Installs(w) PROVE [Register!Next]_(Register!vars)
  <2>1. Register!Install(w)
    BY <1>c DEF Register!Install, Requests, Answers
  <2> QED BY <2>1 DEF Register!Next
<1>2. ASSUME NEW w \in W, AcquireLock(w) \/ RequireClean(w) \/ ReadOld(w) \/ Recheck(w)
             \/ ReplaceNeedsBackup(w) \/ ReplacementGone(w) \/ Verify(w)
      PROVE  Stutter
  <2>1. UNCHANGED <<live, temp, journal, data, mode, seen>>
    BY <1>2 DEF AcquireLock, RequireClean, ReadOld, Recheck, ReplaceNeedsBackup, ReplacementGone, Verify
  <2>2. UNCHANGED Answers
    BY <1>2 DEF Answers, AcquireLock, RequireClean, ReadOld, Recheck, ReplaceNeedsBackup,
       ReplacementGone, Verify
  <2> QED BY <2>1, <2>2, SameVersion DEF Requests
<1>3. ASSUME NEW w \in W, OpenTemp(w) \/ SyncTemp(w) \/ OpenJournal(w) PROVE Stutter
  <2>1. journal[w] = "none"
    BY <1>3 DEF OpenTemp, SyncTemp, OpenJournal, JournalInv, Cleared
  <2>2. \A t \in W : AtHand(t) <=> AtHand(t)'
    BY <1>3, <2>1 DEF OpenTemp, SyncTemp, OpenJournal
  <2>3. UNCHANGED <<live, data, mode, seen>>
    BY <1>3 DEF OpenTemp, SyncTemp, OpenJournal
  <2>4. UNCHANGED Answers
    BY <1>3 DEF Answers, OpenTemp, SyncTemp, OpenJournal
  <2> QED BY <2>2, <2>3, <2>4, SameVersion DEF Requests
<1>4. ASSUME NEW w \in W, SyncJournal(w) PROVE [Register!Next]_(Register!vars)
  <2>1. /\ journal[w] = "torn" /\ temp[w] = data[w] /\ data[w] \in Data
        /\ live = old[w] /\ Approved(w)
    BY <1>4 DEF SyncJournal, CallInv, Place, Checked, Candidate
  <2>2. \A t \in W : ~AtHand(t)
    BY <2>1 DEF JournalInv, OneJournal
  <2>3. UNCHANGED <<live, data, mode, seen, temp>> /\ AtHand(w)'
    BY <1>4, <2>1 DEF SyncJournal
  <2>4. UNCHANGED Answers /\ Answers[w] = "none"
    BY <1>4 DEF Answers, SyncJournal
  <2>5. CASE live \in Data
    BY <1>b, <2>3, <2>4, <2>5, SameVersion DEF Requests
  <2>6. CASE live = Absent
    <3>1. Version = Absent
      BY <2>2, <2>6 DEF VersionIs
    <3>2. Version' = data[w]
      BY <2>3, <2>6 DEF VersionIs
    <3>3. Installs(w)
      BY <2>1, <2>3, <2>4, <2>6, <3>1, <3>2 DEF Approved, Requests, Register!Open
    <3> QED BY <1>c, <3>3
  <2> QED BY <2>5, <2>6
<1>5. ASSUME NEW w \in W, ReplaceFresh(w) PROVE Stutter
  <2>1. AtHand(w) /\ data[w] \in Data
    BY <1>5 DEF ReplaceFresh, CallInv, Place, Candidate, Written
  <2>2. Version = data[w] /\ Version' = data[w]
    BY <1>5, <2>1 DEF ReplaceFresh, VersionIs
  <2> QED BY <1>5, <2>2 DEF ReplaceFresh, Requests, Answers
<1>6. ASSUME NEW w \in W, BackUp(w) PROVE [Register!Next]_(Register!vars)
  <2>1. /\ AtHand(w) /\ data[w] \in Data
        /\ live = old[w] /\ live \in Data /\ Approved(w)
    BY <1>6 DEF BackUp, CallInv, Place, Checked, Candidate, Written
  <2>2. UNCHANGED <<data, mode, seen>> /\ AtHand(w)' /\ live' = (IF Windows THEN Absent ELSE live)
    BY <1>6, <2>1 DEF BackUp
  <2>3. UNCHANGED Answers /\ Answers[w] = "none"
    BY <1>6 DEF Answers, BackUp
  <2>4. CASE Windows
    <3>1. Version = old[w] /\ Version' = data[w]
      BY <2>1, <2>2, <2>4 DEF VersionIs
    <3>2. Installs(w)
      BY <2>1, <2>2, <2>3, <3>1 DEF Approved, Requests, Register!Open
    <3> QED BY <1>c, <3>2
  <2>5. CASE ~Windows
    BY <1>b, <2>1, <2>2, <2>3, <2>5, SameVersion DEF Requests
  <2> QED BY <2>4, <2>5
<1>7. ASSUME NEW w \in W, Swap(w) PROVE [Register!Next]_(Register!vars)
  <2>1. /\ AtHand(w) /\ data[w] \in Data /\ old[w] \in Data /\ Approved(w)
        /\ live = IF Windows THEN Absent ELSE old[w]
    BY <1>7 DEF Swap, CallInv, Place, Candidate, Written
  <2>2. UNCHANGED <<data, mode, seen>> /\ live' = data[w]
    BY <1>7, <2>1 DEF Swap
  <2>3. UNCHANGED Answers /\ Answers[w] = "none"
    BY <1>7 DEF Answers, Swap
  <2>4. Version' = data[w]
    BY <2>1, <2>2 DEF VersionIs
  <2>5. CASE Windows
    <3>1. Version = data[w]
      BY <2>1, <2>5 DEF VersionIs
    <3> QED BY <1>b, <2>2, <2>3, <2>4, <3>1 DEF Requests
  <2>6. CASE ~Windows
    <3>1. Version = old[w]
      BY <2>1, <2>6 DEF VersionIs
    <3>2. Installs(w)
      BY <2>1, <2>2, <2>3, <2>4, <3>1 DEF Approved, Requests, Register!Open
    <3> QED BY <1>c, <3>2
  <2> QED BY <2>5, <2>6
<1>8. ASSUME NEW w \in W, Finish(w) PROVE Stutter
  <2>1. live \in Data /\ UNCHANGED <<live, data, mode, seen>>
    BY <1>8 DEF Finish, CallInv, Place, Candidate, Written
  <2>2. UNCHANGED Answers
    BY <1>8 DEF Finish, Answers
  <2> QED BY <2>1, <2>2, SameVersion DEF Requests
<1>9. ASSUME NEW w \in W, Fault(w) PROVE Stutter
  <2>1. UNCHANGED <<live, data, mode, seen>>
    BY <1>9 DEF Fault
  <2>2. UNCHANGED Answers
    BY <1>9 DEF Fault, Answers, Body, BeforeJournal, AfterJournal
  <2>3. \A t \in W : AtHand(t) <=> AtHand(t)'
    <3>1. CASE pc[w] \in BeforeJournal
      <4>1. journal[w] \in {"none", "torn"} /\ temp'[w] = Absent
        BY <1>9, <3>1 DEF Fault, BeforeJournal, CallInv, Place, JournalInv, Cleared
      <4>2. pc[w] = "journalOpen" => data[w] \in Data
        BY DEF CallInv, Place, Candidate
      <4> QED BY <1>9, <4>1, <4>2 DEF Fault
    <3>2. CASE pc[w] \notin BeforeJournal
      BY <1>9, <3>2 DEF Fault, BeforeJournal
    <3> QED BY <3>1, <3>2
  <2> QED BY <2>1, <2>2, <2>3, SameVersion DEF Requests
<1>10. ASSUME NEW w \in W, Crash(w) \/ CheckToken(w) PROVE Stutter
  <2>1. UNCHANGED <<live, temp, journal, data, mode, seen>>
    BY <1>10 DEF Crash, CheckToken
  <2>2. UNCHANGED Answers
    BY <1>10 DEF Crash, CheckToken, Answers, Running, Holding, Body, BeforeJournal, AfterJournal, LockInv
  <2> QED BY <2>1, <2>2, SameVersion DEF Requests
<1>15. ASSUME NEW w \in W, LockFails(w), pc'[w] = "unlink" PROVE Stutter
  <2>1. UNCHANGED <<live, temp, journal, data, mode, seen>>
    BY <1>15 DEF LockFails
  <2>2. UNCHANGED Answers
    BY <1>15 DEF LockFails, Answers
  <2> QED BY <2>1, <2>2, SameVersion DEF Requests
<1>11. ASSUME NEW w \in W, LockBusy(w) \/ Unlock(w) \/ (LockFails(w) /\ pc'[w] # "unlink")
       PROVE  [Register!Next]_(Register!vars)
  <2>1. UNCHANGED <<live, temp, journal, data, mode, seen>>
    BY <1>11 DEF LockBusy, Unlock, LockFails
  <2>2. UNCHANGED <<Version, Requests>>
    BY <2>1, SameVersion DEF Requests
  <2>3. PICK out \in {"ok", "error", "busy", "conflict", "recovery_required"} :
          /\ Answers[w] = "none" /\ Answers' = [Answers EXCEPT ![w] = out]
          /\ out = "ok" => live = data[w] /\ data[w] \in Data
    <3>1. CASE LockBusy(w)
      BY <3>1 DEF LockBusy, Answers
    <3>2. CASE Unlock(w)
      <4>1. /\ result[w] \in {"ok", "error", "busy", "conflict", "recovery_required"}
            /\ result[w] = "ok" => live = data[w] /\ data[w] \in Data
        BY <3>2 DEF Unlock, CallInv, Told, Leaving
      <4>2. Answers[w] = "none" /\ Answers' = [Answers EXCEPT ![w] = result[w]]
        BY <3>2 DEF Unlock, Answers
      <4> QED BY <4>1, <4>2
    <3>3. CASE LockFails(w) /\ pc'[w] # "unlink"
      <4>1. pc[w] = "ready" /\ pc' = [pc EXCEPT ![w] = "done"] /\ result' = [result EXCEPT ![w] = "error"]
        BY <3>3 DEF LockFails
      <4>2. Answers[w] = "none" /\ Answers' = [Answers EXCEPT ![w] = "error"]
        BY <4>1 DEF Answers
      <4> QED BY <4>2
    <3> QED BY <1>11, <3>1, <3>2, <3>3
  <2>4. out = "ok" => Version = data[w]
    BY <2>3 DEF VersionIs
  <2>5. Register!Answer(w)
    BY <2>2, <2>3, <2>4 DEF Register!Answer, Requests, Answers
  <2> QED BY <2>5 DEF Register!Next
<1>12. ASSUME NEW r \in R, Recover(r) \/ RFail(r) PROVE Stutter
  <2>1. UNCHANGED <<Requests, Answers>>
    BY <1>12 DEF Requests, Answers, Recover, RFail, RSelect, RAcquireLock, RReselect, RCopy, RReplace,
       RSwap, RVerify, RUnlinkTemp, RUnlinkJournal, RCheckToken, RUnlock
  <2>2. CASE RReplace(r)
    <3>1. /\ target[r] \in W /\ live = Absent /\ AtHand(target[r]) /\ data[target[r]] \in Data
          /\ live' = data[target[r]] /\ UNCHANGED data
      BY <2>2 DEF RReplace, RecoveryInv, CallInv, Recoverable
    <3>2. Version = data[target[r]] /\ Version' = data[target[r]]
      BY <3>1 DEF VersionIs
    <3> QED BY <2>1, <3>2
  <2>3. CASE RUnlinkTemp(r) \/ RUnlinkJournal(r)
    <3>1. live \in Data /\ UNCHANGED live
      BY <2>3 DEF RUnlinkTemp, RUnlinkJournal, RecoveryInv
    <3> QED BY <2>1, <3>1, SameVersion
  <2>4. CASE RSwap(r)
    BY <2>4 DEF RSwap, RecoveryInv
  <2>5. ASSUME ~(RReplace(r) \/ RUnlinkTemp(r) \/ RUnlinkJournal(r) \/ RSwap(r))
        PROVE  UNCHANGED <<live, temp, journal, data>>
    BY <1>12, <2>5 DEF Recover, RFail, RSelect, RAcquireLock, RReselect, RCopy, RVerify, RCheckToken, RUnlock
  <2>6. ASSUME UNCHANGED <<live, temp, journal, data>> PROVE Stutter
    BY <2>1, <2>6, SameVersion
  <2> QED BY <2>2, <2>3, <2>4, <2>5, <2>6
<1>13. CASE Quarantine \/ UNCHANGED vars
  <2>1. UNCHANGED <<live, temp, journal, data>> /\ UNCHANGED <<Requests, Answers>>
    BY <1>13 DEF Quarantine, vars, Requests, Answers
  <2> QED BY <1>b, <2>1, SameVersion
<1>14. CASE Interfere
  BY <1>14 DEF Interfere, Honoured, Inv
<1> QED
  BY <1>b, <1>1, <1>2, <1>3, <1>4, <1>5, <1>6, <1>7, <1>8, <1>9, <1>10, <1>11, <1>12, <1>13, <1>14, <1>15
     DEF Next, Continue

(* While locks are honoured and no other program writes the file, the      *)
(* journalled protocol, whatever crashes, faults and recoveries it meets,  *)
(* is one compare-and-swap register to its callers.                        *)
THEOREM RegisterImplemented ==
    ASSUME Honoured PROVE Spec => ImplementsRegister
<1>1. Init => Register!Init
  <2> SUFFICES ASSUME Init PROVE Register!Init
    OBVIOUS
  <2>1. Pending = {}
    BY DEF Init, Pending, Inspect
  <2>2. Version \in Data \cup {Absent}
    BY <2>1 DEF Init, Version
  <2> QED BY <2>2 DEF Init, Register!Init, Register!Version
<1>2. Spec => []Inv
  BY ProtocolInvariant, PTL DEF Inv
<1>3. Inv => VersionIs
  BY VersionFacts
<1>4. Inv /\ VersionIs /\ VersionIs' /\ [Next]_vars => [Register!Next]_(Register!vars)
  BY RegisterStep
<1> QED BY <1>1, <1>2, <1>3, <1>4, PTL DEF Spec, ImplementsRegister, Register!Spec
=============================================================================
