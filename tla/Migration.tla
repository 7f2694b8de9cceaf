---------------------------- MODULE Migration ----------------------------
(***************************************************************************)
(* The migration of a legacy vault to format v3 and its rollback           *)
(* (src/src/vault_unified/migration.py).                                   *)
(*                                                                         *)
(* A migration leaves three files beside the vault: its receipt, an        *)
(* immutable copy of the legacy vault and the v3 candidate.  Each write is *)
(* one atomic step (ManagedFile); the process may stop between any two, by *)
(* a fault or its death, and the owner runs `resume` or `rollback` on the  *)
(* receipt later, perhaps from two terminals at once.  Meanwhile another   *)
(* program edits the vault.                                                *)
(*                                                                         *)
(* A file is its format, its content (the edits it holds) and an id: a     *)
(* new encryption of the same content is another file.  Files are equal    *)
(* exactly when their digests are.                                         *)
(***************************************************************************)
EXTENDS Naturals, FiniteSets

CONSTANTS
    P,           \* processes that run a migration command
    M,           \* migration ids, drawn by apply
    MaxEdits,    \* bound: edits of the vault by others
    MaxStops,    \* bound: commands that fail or die
    MaxUndo,     \* bound: rollback commands
    NoMigration  \* a process without a command

ASSUME MigrationAssumption ==
    /\ MaxEdits \in Nat /\ MaxStops \in Nat /\ MaxUndo \in Nat /\ NoMigration \notin M

VARIABLES
    target,      \* the vault file
    receipt,     \* per migration: its receipt on disk
    backup,      \* per migration: the immutable legacy copy
    candidate,   \* per migration: the v3 candidate
    proc,        \* per process: where it is, its migration, the receipt it holds in memory
    fresh,       \* ids drawn so far
    edits, stops, undone

files == <<target, receipt, backup, candidate>>
budget == <<edits, stops, undone>>
vars == <<files, proc, fresh, budget>>

File(format, id, content, first) == [format |-> format, id |-> id, content |-> content, first |-> first]
Absent == File("none", 0, {}, FALSE)
NoReceipt == [state |-> "none", legacy |-> Absent, candidate |-> Absent]
Idle == [pc |-> "idle", m |-> NoMigration, receipt |-> NoReceipt]

Legacy(f) == f.format = "legacy"
(* create_v3_container starts at generation 1; an edit leaves it behind.   *)
create_v3_container(content) == File("v3", fresh, content, TRUE)

validate_legacy(f, r) == Legacy(f) /\ f = r.legacy
validate_candidate(f, r, content) ==
    /\ f.format = "v3" /\ f.first /\ f.content = content
    /\ r.candidate # Absent => f = r.candidate

PreCandidate == {"planned", "backup_created"}
PostCandidate == {"candidate_validated", "activated", "rolled_back"}
(* _parse_receipt: the candidate is named exactly when the state says so.  *)
parse_receipt(r) ==
    \/ r.state \in PreCandidate /\ r.candidate = Absent
    \/ r.state \in PostCandidate /\ r.candidate # Absent

active_receipts == {m \in M : receipt[m].state \notin {"none", "rolled_back"}}

Init ==
    /\ target = File("legacy", 0, {}, TRUE)
    /\ receipt = [m \in M |-> NoReceipt]
    /\ backup = [m \in M |-> Absent]
    /\ candidate = [m \in M |-> Absent]
    /\ proc = [p \in P |-> Idle]
    /\ fresh = 1 /\ edits = 0 /\ stops = 0 /\ undone = 0

At(p, pc) == proc[p].pc = pc
Mine(p) == proc[p].m
Held(p) == proc[p].receipt
Goto(p, pc) == proc' = [proc EXCEPT ![p].pc = pc]
Done(p) == proc' = [proc EXCEPT ![p] = Idle]
Command(p, pc, m, r) ==
    At(p, "idle") /\ proc' = [proc EXCEPT ![p] = [pc |-> pc, m |-> m, receipt |-> r]]

(***************************************************************************)
(* _write_receipt replaces what is there now by what the process holds:    *)
(* the digest it expects is the one it reads in the same call.             *)
(***************************************************************************)
put_receipt(p, r, pc) ==
    /\ parse_receipt(r)
    /\ receipt' = [receipt EXCEPT ![Mine(p)] = r]
    /\ proc' = [proc EXCEPT ![p].receipt = r, ![p].pc = pc]
write_receipt(p, r, pc) == put_receipt(p, r, pc) /\ UNCHANGED <<target, backup, candidate, fresh, budget>>

(***************************************************************************)
(* apply and resume                                                        *)
(***************************************************************************)
(* apply_v3_migration looks at the legacy vault and the other receipts...  *)
apply_v3_migration(p, m) ==
    /\ Legacy(target) /\ active_receipts = {}
    /\ receipt[m] = NoReceipt /\ \A q \in P : Mine(q) # m   \* a new uuid
    /\ Command(p, "plan", m, [state |-> "planned", legacy |-> target, candidate |-> Absent])
    /\ UNCHANGED <<files, fresh, budget>>
(* ...and writes its own.                                                  *)
Plan(p) == At(p, "plan") /\ write_receipt(p, Held(p), "load")

resume_v3_migration(p, m) ==
    /\ receipt[m].state # "none"
    /\ Command(p, "load", m, NoReceipt)
    /\ UNCHANGED <<files, fresh, budget>>

(* The checks before the first write of _advance_migration.                *)
HasLegacy(r, m) ==
    \/ validate_legacy(backup[m], r)
    \/ backup[m] = Absent /\ r.state = "planned" /\ validate_legacy(target, r)
Resumable(r, m) == r.state # "rolled_back" /\ HasLegacy(r, m)
Load(p) ==
    LET r == receipt[Mine(p)] IN
    /\ At(p, "load")
    /\ IF Resumable(r, Mine(p))
       THEN proc' = [proc EXCEPT ![p].receipt = r, ![p].pc = "backup"]
       ELSE Done(p)
    /\ UNCHANGED <<files, fresh, budget>>

(* What resume without --apply reports that it would do.                   *)
inspect_v3_migration(m) ==
    LET r == receipt[m]
        Sound == /\ r.candidate # Absent \/ candidate[m] # Absent
                    => validate_candidate(candidate[m], r, r.legacy.content)
                 /\ Resumable(r, m)
    IN CASE r.state = "none" \/ ~Sound -> "refused"
         [] r.candidate # Absent /\ target = r.candidate ->
               IF r.state = "activated" THEN "complete" ELSE "finalize-activation"
         [] target = r.legacy -> IF r.candidate # Absent THEN "activate" ELSE "resume-build"
         [] OTHER -> "refused"

CreateBackup_OfTarget(p) ==   \* mutant: the copy is taken from the vault as it is by then
    LET m == Mine(p) IN
    /\ At(p, "backup")
    /\ IF backup[m] = Absent
       THEN backup' = [backup EXCEPT ![m] = target]
       ELSE UNCHANGED backup
    /\ Goto(p, IF Held(p).state = "planned" THEN "backupReceipt" ELSE "candidate")
    /\ UNCHANGED <<target, receipt, candidate, fresh, budget>>
CreateBackup(p) ==
    LET m == Mine(p) IN
    /\ At(p, "backup")
    /\ IF backup[m] = Absent
       THEN backup' = [backup EXCEPT ![m] = Held(p).legacy]   \* must_not_exist
       ELSE UNCHANGED backup
    /\ Goto(p, IF Held(p).state = "planned" THEN "backupReceipt" ELSE "candidate")
    /\ UNCHANGED <<target, receipt, candidate, fresh, budget>>
BackupReceipt(p) ==
    /\ At(p, "backupReceipt")
    /\ write_receipt(p, [Held(p) EXCEPT !.state = "backup_created"], "candidate")

(* A candidate without a receipt that names it is one that an earlier      *)
(* attempt left: it is taken over when it holds the same content.          *)
CreateCandidate_Anew(p) ==   \* mutant: an earlier candidate is replaced by a new one
    /\ At(p, "candidate")
    /\ candidate' = [candidate EXCEPT ![Mine(p)] = create_v3_container(Held(p).legacy.content)]
    /\ fresh' = fresh + 1
    /\ Goto(p, "candidateReceipt")
    /\ UNCHANGED <<target, receipt, backup, budget>>
CreateCandidate(p) ==
    LET m == Mine(p)
        content == Held(p).legacy.content
    IN
    /\ At(p, "candidate")
    /\ \/ /\ candidate[m] # Absent /\ validate_candidate(candidate[m], Held(p), content)
          /\ UNCHANGED <<candidate, fresh>>
          /\ Goto(p, "candidateReceipt")
       \/ /\ candidate[m] = Absent /\ Held(p).candidate = Absent
          /\ candidate' = [candidate EXCEPT ![m] = create_v3_container(content)]   \* must_not_exist
          /\ fresh' = fresh + 1
          /\ Goto(p, "candidateReceipt")
       \/ /\ IF candidate[m] = Absent THEN Held(p).candidate # Absent
                                      ELSE ~validate_candidate(candidate[m], Held(p), content)
          /\ UNCHANGED <<candidate, fresh>> /\ Done(p)
    /\ UNCHANGED <<target, receipt, backup, budget>>
CandidateReceipt(p) ==
    /\ At(p, "candidateReceipt")
    /\ IF Held(p).candidate = Absent
       THEN write_receipt(p, [Held(p) EXCEPT !.state = "candidate_validated",
                                             !.candidate = candidate[Mine(p)]], "live")
       ELSE Goto(p, "live") /\ UNCHANGED <<files, fresh, budget>>

(* The vault is read, and replaced later if it is still what was read.     *)
ReadLive_LegacyOnly(p) ==   \* mutant: only the legacy vault is expected at the path
    /\ At(p, "live")
    /\ IF target = Held(p).legacy THEN Goto(p, "activate") ELSE Done(p)
    /\ UNCHANGED <<files, fresh, budget>>
ReadLive(p) ==
    /\ At(p, "live")
    /\ CASE target = Held(p).legacy -> Goto(p, "activate")
         [] target = Held(p).candidate -> Goto(p, "activatedReceipt")
         [] OTHER -> Done(p)
    /\ UNCHANGED <<files, fresh, budget>>
Unchanged(f) == target = f
Activate(p) ==
    /\ At(p, "activate")
    /\ IF Unchanged(Held(p).legacy)
       THEN target' = Held(p).candidate /\ Goto(p, "activatedReceipt")
       ELSE Done(p) /\ UNCHANGED target
    /\ UNCHANGED <<receipt, backup, candidate, fresh, budget>>
ActivatedReceipt(p) ==
    /\ At(p, "activatedReceipt")
    /\ IF Held(p).state # "activated"
       THEN /\ put_receipt(p, [Held(p) EXCEPT !.state = "activated"], "return")
            /\ UNCHANGED <<target, backup, candidate, fresh, budget>>
       ELSE Goto(p, "return") /\ UNCHANGED <<files, fresh, budget>>

(***************************************************************************)
(* rollback                                                                *)
(***************************************************************************)
rollback_v3_migration(p, m) ==
    LET r == receipt[m] IN
    /\ undone < MaxUndo /\ undone' = undone + 1
    /\ r.state \in {"activated", "rolled_back"}
    /\ validate_legacy(backup[m], r)
    /\ validate_candidate(candidate[m], r, r.legacy.content)
    /\ CASE target = r.candidate -> Command(p, "restore", m, r)
         [] target = r.legacy -> Command(p, "rolledBackReceipt", m, r)
         [] OTHER -> FALSE
    /\ UNCHANGED <<files, fresh, edits, stops>>
Restore(p) ==
    /\ At(p, "restore")
    /\ IF Unchanged(Held(p).candidate)
       THEN target' = backup[Mine(p)] /\ Goto(p, "rolledBackReceipt")
       ELSE Done(p) /\ UNCHANGED target
    /\ UNCHANGED <<receipt, backup, candidate, fresh, budget>>
RolledBackReceipt(p) ==
    /\ At(p, "rolledBackReceipt")
    /\ IF Held(p).state # "rolled_back"
       THEN write_receipt(p, [Held(p) EXCEPT !.state = "rolled_back"], "return")
       ELSE Goto(p, "return") /\ UNCHANGED <<files, fresh, budget>>

Return(p) == At(p, "return") /\ Done(p) /\ UNCHANGED <<files, fresh, budget>>

(***************************************************************************)
(* The environment                                                         *)
(***************************************************************************)
(* The command fails (no space, a wrong password, a busy file) or dies.    *)
Stop(p) ==
    /\ ~At(p, "idle") /\ stops < MaxStops
    /\ stops' = stops + 1
    /\ Done(p)
    /\ UNCHANGED <<files, fresh, edits, undone>>

(* The owner edits the vault in whatever format it has.                    *)
Edit ==
    /\ edits < MaxEdits /\ edits' = edits + 1
    /\ target' = File(target.format, fresh, target.content \cup {fresh}, FALSE)
    /\ fresh' = fresh + 1
    /\ UNCHANGED <<receipt, backup, candidate, proc, stops, undone>>

Advance(p) ==
    \/ Plan(p) \/ Load(p) \/ CreateBackup(p) \/ BackupReceipt(p)
    \/ CreateCandidate(p) \/ CandidateReceipt(p)
    \/ ReadLive(p) \/ Activate(p) \/ ActivatedReceipt(p)
    \/ Restore(p) \/ RolledBackReceipt(p) \/ Return(p)
migration_group(p, m) ==
    apply_v3_migration(p, m) \/ resume_v3_migration(p, m) \/ rollback_v3_migration(p, m)
Next ==
    \/ \E p \in P : Advance(p) \/ Stop(p)
    \/ \E p \in P, m \in M : migration_group(p, m)
    \/ Edit

Spec == Init /\ [][Next]_vars

(* A command that runs goes on, and the owner resumes what is unfinished.  *)
FairSpec ==
    /\ Spec
    /\ \A p \in P : WF_vars(Advance(p))
    /\ \A m \in M : SF_vars(\E p \in P : resume_v3_migration(p, m))

(***************************************************************************)
(* Properties                                                              *)
(***************************************************************************)
(* No migration or rollback step changes what the vault holds: an edit     *)
(* made while one is under way, or in the migrated vault before it is      *)
(* rolled back, is never lost.                                             *)
ContentKept == [][edits' = edits => target'.content = target.content]_vars

(* Whatever stops where and whichever process overwrites whose receipt,    *)
(* the evidence a receipt names is at its place: the legacy copy from      *)
(* backup_created on and the candidate once there is one.                  *)
EvidenceStays ==
    \A m \in M : LET r == receipt[m] IN
        /\ r.state \notin {"none", "planned"} => backup[m] = r.legacy
        /\ r.candidate # Absent => candidate[m] = r.candidate

(* A migrated vault that nobody edited can be undone: some migration has   *)
(* it as its candidate and keeps a legacy copy of the same content.        *)
MigratedCanReturn ==
    target.format = "v3" /\ target.first =>
        \E m \in M : candidate[m] = target /\ Legacy(backup[m]) /\ backup[m].content = target.content

(* Whenever the dry run offers to go on with a migration, resuming it ends *)
(* with the vault migrated and recorded so, wherever it had stopped, unless*)
(* the vault changes or the migration is rolled back meanwhile.            *)
Unfinished(m) == inspect_v3_migration(m) \in {"resume-build", "activate", "finalize-activation"}
Finishes == \A m \in M : Unfinished(m) ~> ~Unfinished(m)
=============================================================================
