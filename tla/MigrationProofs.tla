-------------------------- MODULE MigrationProofs --------------------------
(***************************************************************************)
(* Migration for any number of processes, migrations, edits, stops and     *)
(* rollbacks: the evidence a receipt names stays, a migrated vault can     *)
(* return, and no step but an edit changes what the vault holds.           *)
(***************************************************************************)
EXTENDS Migration, TLAPS

Files == [format : {"none", "legacy", "v3"}, id : Nat, content : SUBSET Nat, first : BOOLEAN]
States == {"none"} \cup PreCandidate \cup PostCandidate
Receipts == [state : States, legacy : Files, candidate : Files]

(* Where a command is: before it has read a receipt, or at work with one.  *)
Tail == {"candidate", "candidateReceipt", "live", "activate", "activatedReceipt",
         "restore", "rolledBackReceipt", "return"}
Working == {"backup", "backupReceipt"} \cup Tail
Steps == {"idle", "plan", "load"} \cup Working
Procs == [pc : Steps, m : M \cup {NoMigration}, receipt : Receipts]

ProcInv ==
    /\ proc \in [P -> Procs]
    /\ \A p \in P : proc[p].m = NoMigration <=> proc[p].pc = "idle"
FileInv ==
    /\ target \in Files
    /\ receipt \in [M -> Receipts] /\ backup \in [M -> Files] /\ candidate \in [M -> Files]
    /\ fresh \in Nat /\ edits \in Nat /\ stops \in Nat /\ undone \in Nat
TypeInv == ProcInv /\ FileInv

-----------------------------------------------------------------------------
(* The records that stand for nothing there.                               *)
LEMMA Named ==
    /\ Absent \in Files /\ NoReceipt \in Receipts /\ Idle \in Procs
    /\ Idle.pc = "idle" /\ Idle.m = NoMigration /\ NoReceipt.state = "none"
    /\ NoReceipt.candidate = Absent /\ Absent.format = "none"
  BY DEF Absent, NoReceipt, Idle, File, Files, Receipts, Procs, States, PreCandidate, PostCandidate, Steps

(* A command that ends, goes on, takes a receipt or begins stays typed.    *)
LEMMA Moves ==
  ASSUME ProcInv, NEW p \in P
  PROVE  /\ Done(p) => ProcInv'
         /\ \A pc \in Steps \ {"idle"} : ~At(p, "idle") /\ Goto(p, pc) => ProcInv'
         /\ \A pc \in Steps \ {"idle"}, r \in Receipts :
               ~At(p, "idle") /\ proc' = [proc EXCEPT ![p].receipt = r, ![p].pc = pc] => ProcInv'
         /\ \A pc \in Steps \ {"idle"}, m \in M, r \in Receipts : Command(p, pc, m, r) => ProcInv'
<1> USE DEF ProcInv
<1>1. Done(p) => ProcInv'
  BY Named DEF Done
<1>2. ASSUME NEW pc \in Steps \ {"idle"}, ~At(p, "idle"), Goto(p, pc) PROVE ProcInv'
  BY <1>2 DEF Goto, At, Procs
<1>3. ASSUME NEW pc \in Steps \ {"idle"}, NEW r \in Receipts, ~At(p, "idle"),
             proc' = [proc EXCEPT ![p].receipt = r, ![p].pc = pc] PROVE ProcInv'
  BY <1>3 DEF At, Procs
<1>4. ASSUME NEW pc \in Steps \ {"idle"}, NEW m \in M, NEW r \in Receipts, Command(p, pc, m, r)
      PROVE ProcInv'
  BY <1>4, MigrationAssumption DEF Command, Procs
<1> QED BY <1>1, <1>2, <1>3, <1>4

(* A step of a command at work knows its migration and its receipt.        *)
LEMMA AtWork ==
  ASSUME TypeInv, NEW p \in P, ~At(p, "idle")
  PROVE  Mine(p) \in M /\ Held(p) \in Receipts /\ Held(p).legacy \in Files
         /\ Held(p).candidate \in Files /\ Held(p).state \in States
  BY DEF TypeInv, ProcInv, Procs, At, Mine, Held, Receipts

(* Writing a receipt keeps the types.                                      *)
LEMMA WrittenTyped ==
  ASSUME TypeInv, NEW p \in P, ~At(p, "idle"), NEW r \in Receipts, NEW pc \in Steps \ {"idle"},
         write_receipt(p, r, pc)
  PROVE  TypeInv'
  BY AtWork, Moves DEF write_receipt, put_receipt, TypeInv, FileInv, budget

(* Every step of a command, of the owner and of a fault keeps the types.   *)
LEMMA TypeStep == TypeInv /\ [Next]_vars => TypeInv'
<1> SUFFICES ASSUME TypeInv, [Next]_vars PROVE TypeInv'
  OBVIOUS
<1> USE DEF files, budget
<1>a. /\ PreCandidate \subseteq States /\ PostCandidate \subseteq States
      /\ {"plan", "load"} \cup Working \subseteq Steps \ {"idle"}
  BY DEF Steps, Working, Tail, States
<1>1. ASSUME NEW p \in P, Advance(p) PROVE TypeInv'
  <2>1. CASE Plan(p)
    BY <2>1, AtWork, WrittenTyped, <1>a DEF Plan, At
  <2>2. CASE Load(p)
    <3>1. receipt[Mine(p)] \in Receipts
      BY <2>2, AtWork DEF Load, At, TypeInv, FileInv
    <3>2. ProcInv'
      BY <2>2, <3>1, Moves, <1>a DEF Load, At, Working, TypeInv
    <3> QED BY <2>2, <3>2 DEF Load, TypeInv, FileInv
  <2>3. CASE CreateBackup(p)
    <3>1. ProcInv'
      BY <2>3, Moves, <1>a DEF CreateBackup, At, Working, Tail, TypeInv
    <3> QED BY <2>3, <3>1, AtWork DEF CreateBackup, At, TypeInv, FileInv
  <2>4. CASE BackupReceipt(p)
    <3>1. [Held(p) EXCEPT !.state = "backup_created"] \in Receipts
      BY <2>4, AtWork, <1>a DEF BackupReceipt, At, Receipts, PreCandidate
    <3> QED BY <2>4, <3>1, WrittenTyped, <1>a DEF BackupReceipt, At, Working, Tail
  <2>5. CASE CreateCandidate(p)
    <3>1. ProcInv'
      BY <2>5, Moves, <1>a DEF CreateCandidate, At, Working, Tail, TypeInv
    <3>2. create_v3_container(Held(p).legacy.content) \in Files
      BY <2>5, AtWork DEF CreateCandidate, At, create_v3_container, File, Files, TypeInv, FileInv
    <3> QED BY <2>5, <3>1, <3>2, AtWork DEF CreateCandidate, At, TypeInv, FileInv
  <2>6. CASE CandidateReceipt(p)
    <3>1. [Held(p) EXCEPT !.state = "candidate_validated", !.candidate = candidate[Mine(p)]] \in Receipts
      BY <2>6, AtWork, <1>a DEF CandidateReceipt, At, Receipts, PostCandidate, TypeInv, FileInv
    <3>2. CASE Held(p).candidate = Absent
      BY <2>6, <3>1, <3>2, WrittenTyped, <1>a DEF CandidateReceipt, At, Working, Tail
    <3>3. CASE Held(p).candidate # Absent
      BY <2>6, <3>3, Moves, <1>a DEF CandidateReceipt, At, Working, Tail, TypeInv, FileInv
    <3> QED BY <3>2, <3>3
  <2>7. CASE ReadLive(p)
    BY <2>7, Moves, <1>a DEF ReadLive, At, Working, Tail, TypeInv, FileInv
  <2>8. CASE Activate(p)
    <3>1. ProcInv'
      BY <2>8, Moves, <1>a DEF Activate, At, Working, Tail, TypeInv
    <3> QED BY <2>8, <3>1, AtWork DEF Activate, At, TypeInv, FileInv
  <2>9. CASE ActivatedReceipt(p)
    <3>1. [Held(p) EXCEPT !.state = "activated"] \in Receipts
      BY <2>9, AtWork, <1>a DEF ActivatedReceipt, At, Receipts, PostCandidate
    <3>2. CASE Held(p).state # "activated"
      BY <2>9, <3>1, <3>2, WrittenTyped, <1>a
         DEF ActivatedReceipt, write_receipt, At, Working, Tail
    <3>3. CASE Held(p).state = "activated"
      BY <2>9, <3>3, Moves, <1>a DEF ActivatedReceipt, At, Working, Tail, TypeInv, FileInv
    <3> QED BY <3>2, <3>3
  <2>10. CASE Restore(p)
    <3>1. ProcInv'
      BY <2>10, Moves, <1>a DEF Restore, At, Working, Tail, TypeInv
    <3> QED BY <2>10, <3>1, AtWork DEF Restore, At, TypeInv, FileInv
  <2>11. CASE RolledBackReceipt(p)
    <3>1. [Held(p) EXCEPT !.state = "rolled_back"] \in Receipts
      BY <2>11, AtWork, <1>a DEF RolledBackReceipt, At, Receipts, PostCandidate
    <3>2. CASE Held(p).state # "rolled_back"
      BY <2>11, <3>1, <3>2, WrittenTyped, <1>a DEF RolledBackReceipt, At, Working, Tail
    <3>3. CASE Held(p).state = "rolled_back"
      BY <2>11, <3>3, Moves, <1>a DEF RolledBackReceipt, At, Working, Tail, TypeInv, FileInv
    <3> QED BY <3>2, <3>3
  <2>12. CASE Return(p)
    BY <2>12, Moves DEF Return, TypeInv, FileInv
  <2> QED BY <1>1, <2>1, <2>2, <2>3, <2>4, <2>5, <2>6, <2>7, <2>8, <2>9, <2>10, <2>11, <2>12
          DEF Advance
<1>2. ASSUME NEW p \in P, Stop(p) PROVE TypeInv'
  BY <1>2, Moves DEF Stop, TypeInv, FileInv
<1>3. ASSUME NEW p \in P, NEW m \in M, apply_v3_migration(p, m) PROVE TypeInv'
  <2>1. [state |-> "planned", legacy |-> target, candidate |-> Absent] \in Receipts
    BY Named, <1>a DEF Receipts, PreCandidate, TypeInv, FileInv
  <2>2. ProcInv'
    BY <1>3, <2>1, Moves, <1>a DEF apply_v3_migration, TypeInv
  <2> QED BY <1>3, <2>2 DEF apply_v3_migration, TypeInv, FileInv
<1>4. ASSUME NEW p \in P, NEW m \in M, resume_v3_migration(p, m) PROVE TypeInv'
  BY <1>4, Named, Moves, <1>a DEF resume_v3_migration, TypeInv, FileInv
<1>5. ASSUME NEW p \in P, NEW m \in M, rollback_v3_migration(p, m) PROVE TypeInv'
  <2>1. Command(p, "restore", m, receipt[m]) \/ Command(p, "rolledBackReceipt", m, receipt[m])
    BY <1>5 DEF rollback_v3_migration
  <2>2. ProcInv'
    BY <2>1, Moves, <1>a DEF TypeInv, FileInv, Working, Tail
  <2> QED BY <1>5, <2>2 DEF rollback_v3_migration, TypeInv, FileInv
<1>6. CASE Edit
  BY <1>6 DEF Edit, File, Files, TypeInv, ProcInv, FileInv
<1>7. CASE UNCHANGED vars
  BY <1>7 DEF vars, TypeInv, ProcInv, FileInv
<1> QED BY <1>1, <1>2, <1>3, <1>4, <1>5, <1>6, <1>7 DEF Next, migration_group

-----------------------------------------------------------------------------
(* Before a migration has written its receipt nobody else knows it; after  *)
(* that the legacy vault it is about never changes.                        *)
Planning(p) ==
    At(p, "plan") =>
        /\ receipt[Mine(p)] = NoReceipt
        /\ Held(p).state = "planned" /\ Legacy(Held(p).legacy) /\ Held(p).candidate = Absent
        /\ \A q \in P \ {p} : Mine(q) # Mine(p)

(* What is on disk of a migration fits together: either its copy of the    *)
(* legacy vault is the one of the receipt, or nothing needs it yet; its    *)
(* candidate holds the same content and is the one the receipt names.      *)
Coherent(m) ==
    LET r == receipt[m] IN
    /\ r.state = "none" => r = NoReceipt /\ backup[m] = Absent /\ candidate[m] = Absent
    /\ r.state # "none" => Legacy(r.legacy) /\ parse_receipt(r)
    /\ backup[m] # Absent => backup[m] = r.legacy
    /\ r.state \notin {"none", "planned"} => backup[m] # Absent
    /\ candidate[m] # Absent => /\ candidate[m].format = "v3" /\ candidate[m].first
                                /\ candidate[m].content = r.legacy.content
    /\ r.candidate # Absent => candidate[m] = r.candidate

(* The receipt in a command's memory may be out of date, but what it says  *)
(* about the legacy vault and the candidate is still so.                   *)
Faithful(p) ==
    /\ ~At(p, "idle") /\ ~At(p, "plan") => receipt[Mine(p)].state # "none"
    /\ proc[p].pc \in Working =>
          /\ Held(p).state # "none" /\ Held(p).legacy = receipt[Mine(p)].legacy
          /\ Held(p).state # "planned" => backup[Mine(p)] # Absent
          /\ Held(p).candidate # Absent => candidate[Mine(p)] = Held(p).candidate
    /\ proc[p].pc \in Working \ {"backup"} => backup[Mine(p)] # Absent
    /\ At(p, "candidateReceipt") => candidate[Mine(p)] # Absent
    /\ proc[p].pc \in {"live", "activate", "activatedReceipt", "restore", "rolledBackReceipt"}
          => Held(p).candidate # Absent

(* A vault that is a candidate unchanged is one of a migration that kept   *)
(* its legacy copy.                                                        *)
Returnable ==
    /\ target.format \in {"legacy", "v3"}
    /\ target.format = "v3" /\ target.first =>
          \E m \in M : candidate[m] = target /\ backup[m] # Absent

EvidenceInv ==
    /\ TypeInv /\ Returnable
    /\ \A m \in M : Coherent(m)
    /\ \A p \in P : Planning(p) /\ Faithful(p)

(* A command that holds its receipt replaces the one on disk by it.        *)
LEMMA Rewritten ==
  ASSUME EvidenceInv, NEW p \in P, proc[p].pc \in Working \ {"backup"},
         NEW r \in Receipts, NEW pc \in Steps \ {"idle"},
         r.state # "none", r.legacy = Held(p).legacy,
         r.candidate # Absent => candidate[Mine(p)] = r.candidate,
         pc \in {"live", "activate", "activatedReceipt", "restore", "rolledBackReceipt"}
             => r.candidate # Absent,
         pc \in Working \ {"backup", "candidateReceipt"},
         write_receipt(p, r, pc), TypeInv'
  PROVE  EvidenceInv'
<1> USE DEF EvidenceInv
<1>1. /\ Mine(p) \in M /\ backup[Mine(p)] # Absent /\ Held(p).legacy = receipt[Mine(p)].legacy
      /\ receipt[Mine(p)].state # "none"
  BY AtWork DEF Faithful, At, Working, Tail
<1>2. /\ receipt' = [receipt EXCEPT ![Mine(p)] = r]
      /\ proc' = [proc EXCEPT ![p].receipt = r, ![p].pc = pc]
      /\ UNCHANGED <<target, backup, candidate>>
      /\ parse_receipt(r)
  BY DEF write_receipt, put_receipt
<1>3. /\ proc'[p].pc = pc /\ proc'[p].m = proc[p].m /\ proc'[p].receipt = r
      /\ \A q \in P \ {p} : proc'[q] = proc[q]
      /\ receipt'[Mine(p)] = r /\ \A m \in M \ {Mine(p)} : receipt'[m] = receipt[m]
  BY <1>1, <1>2 DEF TypeInv, ProcInv, FileInv, Procs
<1>4. Returnable'
  BY <1>2 DEF Returnable
<1>5. ASSUME NEW m \in M PROVE Coherent(m)'
  BY <1>1, <1>2, <1>3 DEF Coherent
<1>6. \A q \in P : proc[q].pc # "idle" => proc[q].m \in M
  BY AtWork DEF At, Mine
<1>7. ASSUME NEW q \in P PROVE Planning(q)'
  BY <1>1, <1>3, <1>6, Named DEF Planning, At, Mine, Held, Working, Tail
<1>8. Faithful(p)'
  BY <1>1, <1>2, <1>3 DEF Faithful, At, Mine, Held, Working, Tail
<1>9. ASSUME NEW q \in P \ {p} PROVE Faithful(q)'
  <2>1. UNCHANGED <<proc[q], Mine(q), Held(q)>>
    BY <1>3 DEF Mine, Held
  <2>2. CASE At(q, "idle")
    BY <2>1, <2>2 DEF Faithful, At, Working, Tail
  <2>3. CASE ~At(q, "idle")
    <3>1. /\ receipt[Mine(q)].state # "none" => receipt'[Mine(q)].state # "none"
          /\ receipt'[Mine(q)].legacy = receipt[Mine(q)].legacy
      BY <1>1, <1>3, <1>6, <2>3 DEF At, Mine
    <3> QED BY <1>2, <2>1, <3>1 DEF Faithful, At
  <2> QED BY <2>2, <2>3
<1> QED BY <1>4, <1>5, <1>7, <1>8, <1>9

(* A command moves on and leaves the files of every migration alone.       *)
LEMMA Walked ==
  ASSUME EvidenceInv, TypeInv', NEW p \in P, UNCHANGED <<receipt, backup, candidate>>, Returnable',
         \A q \in P \ {p} : proc'[q] = proc[q],
         \/ proc'[p].m \in {proc[p].m, NoMigration}
         \/ receipt[proc'[p].m].state # "none"
         \/ \A q \in P : proc[q].m # proc'[p].m,
         Planning(p)', Faithful(p)'
  PROVE  EvidenceInv'
<1>1. ASSUME NEW m \in M PROVE Coherent(m)'
  BY DEF EvidenceInv, Coherent
<1>2. ASSUME NEW q \in P \ {p} PROVE Planning(q)'
  BY Named, MigrationAssumption DEF EvidenceInv, TypeInv, ProcInv, Procs, Planning, At, Mine, Held
<1>3. ASSUME NEW q \in P \ {p} PROVE Faithful(q)'
  BY DEF EvidenceInv, Faithful, At, Mine, Held
<1> QED BY <1>1, <1>2, <1>3 DEF EvidenceInv

(* A command that ends.                                                    *)
LEMMA Left == ASSUME EvidenceInv, TypeInv', NEW p \in P, Done(p),
                     UNCHANGED <<target, receipt, backup, candidate>>
              PROVE  EvidenceInv'
<1>1. proc'[p] = Idle /\ \A q \in P \ {p} : proc'[q] = proc[q]
  BY DEF Done, EvidenceInv, TypeInv, ProcInv
<1>2. Planning(p)' /\ Faithful(p)'
  BY <1>1, Named DEF Planning, Faithful, At, Working, Tail
<1>3. Returnable'
  BY DEF EvidenceInv, Returnable
<1> QED BY <1>1, <1>2, <1>3, Named, Walked

(* A command that goes on with the receipt it holds.                       *)
LEMMA Gone ==
  ASSUME EvidenceInv, TypeInv', NEW p \in P, proc[p].pc \in Working \ {"backup"},
         NEW pc \in Working \ {"backup"}, Goto(p, pc),
         UNCHANGED <<receipt, backup, candidate>>, Returnable',
         pc = "candidateReceipt" => candidate[Mine(p)] # Absent,
         pc \in {"live", "activate", "activatedReceipt", "restore", "rolledBackReceipt"}
             => Held(p).candidate # Absent
  PROVE  EvidenceInv'
<1>1. /\ proc'[p].pc = pc /\ proc'[p].m = proc[p].m /\ proc'[p].receipt = proc[p].receipt
      /\ \A q \in P \ {p} : proc'[q] = proc[q]
  BY DEF Goto, EvidenceInv, TypeInv, ProcInv, Procs
<1>2. Planning(p)' /\ Faithful(p)'
  BY <1>1 DEF EvidenceInv, Planning, Faithful, At, Mine, Held, Working, Tail
<1> QED BY <1>1, <1>2, Walked

-----------------------------------------------------------------------------
(* Every step, one by one, keeps the evidence together.                    *)
LEMMA EvidenceStep == EvidenceInv /\ [Next]_vars => EvidenceInv'
<1> SUFFICES ASSUME EvidenceInv, [Next]_vars PROVE EvidenceInv'
  OBVIOUS
<1> USE DEF files, budget
<1>a. TypeInv /\ TypeInv'
  BY TypeStep DEF EvidenceInv
<1>b. /\ Working \subseteq Steps \ {"idle"} /\ {"idle", "plan", "load"} \cap Working = {}
      /\ PreCandidate \cup PostCandidate \subseteq States
  BY DEF Steps, Working, Tail, States
<1>1. ASSUME NEW p \in P, Advance(p) PROVE EvidenceInv'
  <2>1. CASE Plan(p)
    <3>1. /\ Mine(p) \in M /\ Held(p) \in Receipts /\ Held(p).state = "planned"
          /\ Legacy(Held(p).legacy) /\ Held(p).candidate = Absent /\ receipt[Mine(p)] = NoReceipt
          /\ \A q \in P \ {p} : Mine(q) # Mine(p)
          /\ backup[Mine(p)] = Absent /\ candidate[Mine(p)] = Absent
      BY <2>1, <1>a, AtWork, Named DEF Plan, At, EvidenceInv, Planning, Coherent
    <3>2. /\ receipt' = [receipt EXCEPT ![Mine(p)] = Held(p)]
          /\ proc' = [proc EXCEPT ![p].receipt = Held(p), ![p].pc = "load"]
          /\ parse_receipt(Held(p))
          /\ UNCHANGED <<target, backup, candidate>>
      BY <2>1 DEF Plan, write_receipt, put_receipt
    <3>3. /\ proc'[p].pc = "load" /\ proc'[p].m = proc[p].m
          /\ \A q \in P \ {p} : proc'[q] = proc[q]
          /\ receipt'[Mine(p)] = Held(p) /\ \A m \in M \ {Mine(p)} : receipt'[m] = receipt[m]
      BY <1>a, <3>1, <3>2 DEF TypeInv, ProcInv, FileInv, Procs
    <3>4. ASSUME NEW m \in M PROVE Coherent(m)'
      BY <3>1, <3>2, <3>3, Named DEF EvidenceInv, Coherent, Legacy
    <3>5. \A q \in P \ {p} : proc[q].pc # "idle" => proc[q].m \in M \ {Mine(p)}
      BY <3>1, <1>a, AtWork DEF At, Mine
    <3>6. ASSUME NEW q \in P PROVE Planning(q)'
      BY <3>1, <3>3, <3>5 DEF EvidenceInv, Planning, At, Mine, Held
    <3>7. ASSUME NEW q \in P PROVE Faithful(q)'
      <4>1. CASE q = p
        BY <1>b, <3>1, <3>3, <4>1 DEF Faithful, At, Mine, Held, Working, Tail
      <4>2. CASE q # p /\ At(q, "idle")
        BY <3>3, <4>2 DEF Faithful, At, Working, Tail
      <4>3. CASE q # p /\ ~At(q, "idle")
        <5>1. /\ proc[q].m \in M \ {proc[p].m} /\ proc'[q] = proc[q]
              /\ receipt'[proc[q].m] = receipt[proc[q].m] /\ Faithful(q)
          BY <3>3, <3>5, <4>3 DEF At, Mine, EvidenceInv
        <5> QED BY <3>2, <5>1 DEF Faithful, At, Mine, Held
      <4> QED BY <4>1, <4>2, <4>3
    <3> QED BY <1>a, <3>2, <3>4, <3>6, <3>7 DEF EvidenceInv, Returnable
  <2>2. CASE Load(p)
    <3>1. CASE Resumable(receipt[Mine(p)], Mine(p))
      <4>1. proc' = [proc EXCEPT ![p].receipt = receipt[Mine(p)], ![p].pc = "backup"]
        BY <2>2, <3>1 DEF Load
      <4>2. /\ proc'[p].pc = "backup" /\ proc'[p].m = proc[p].m
            /\ proc'[p].receipt = receipt[Mine(p)] /\ \A q \in P \ {p} : proc'[q] = proc[q]
        BY <1>a, <4>1 DEF TypeInv, ProcInv, Procs
      <4>3. Mine(p) \in M /\ receipt[Mine(p)].state # "none"
        BY <2>2, <1>a, AtWork DEF Load, At, EvidenceInv, Faithful
      <4>4. Planning(p)' /\ Faithful(p)' /\ Returnable'
        BY <2>2, <4>2, <4>3 DEF Load, EvidenceInv, Returnable, Planning, Faithful, Coherent,
                                At, Mine, Held, Working, Tail
      <4> QED BY <2>2, <1>a, <4>2, <4>4, Walked DEF Load
    <3>2. CASE ~Resumable(receipt[Mine(p)], Mine(p))
      BY <2>2, <3>2, <1>a, Left DEF Load
    <3> QED BY <3>1, <3>2
  <2>3. CASE CreateBackup(p)
    <3> DEFINE pc == IF Held(p).state = "planned" THEN "backupReceipt" ELSE "candidate"
    <3>1. /\ Mine(p) \in M /\ receipt[Mine(p)].state # "none" /\ proc[p].pc = "backup"
          /\ Held(p).legacy = receipt[Mine(p)].legacy /\ Legacy(Held(p).legacy)
          /\ Held(p).legacy # Absent
      BY <2>3, <1>a, AtWork, Named DEF CreateBackup, At, EvidenceInv, Faithful, Coherent, Working, Legacy
    <3>2. /\ proc'[p].pc = pc /\ proc'[p].m = proc[p].m /\ proc'[p].receipt = proc[p].receipt
          /\ \A q \in P \ {p} : proc'[q] = proc[q]
      BY <2>3, <1>a DEF CreateBackup, Goto, TypeInv, ProcInv, Procs
    <3>3. /\ UNCHANGED <<target, receipt, candidate>>
          /\ backup'[Mine(p)] = receipt[Mine(p)].legacy
          /\ \A m \in M : backup[m] # Absent => backup'[m] = backup[m]
          /\ \A m \in M \ {Mine(p)} : backup'[m] = backup[m]
      BY <2>3, <1>a, <3>1 DEF CreateBackup, TypeInv, FileInv, EvidenceInv, Coherent
    <3>4. ASSUME NEW m \in M PROVE Coherent(m)'
      BY <3>1, <3>3 DEF EvidenceInv, Coherent
    <3>5. ASSUME NEW q \in P \ {p} PROVE Planning(q)' /\ Faithful(q)'
      <4>1. proc[q].pc # "idle" => proc[q].m \in M
        BY <1>a, AtWork DEF At, Mine
      <4>2. Planning(q)'
        BY <3>2, <3>3, <4>1 DEF EvidenceInv, Planning, At, Mine, Held
      <4>3. Faithful(q)'
        BY <1>b, <3>2, <3>3, <4>1 DEF EvidenceInv, Faithful, At, Mine, Held
      <4> QED BY <4>2, <4>3
    <3>6. Planning(p)' /\ Faithful(p)'
      BY <3>1, <3>2, <3>3 DEF EvidenceInv, Planning, Faithful, At, Mine, Held, Working, Tail
    <3>7. Returnable'
      BY <3>3 DEF EvidenceInv, Returnable
    <3> QED BY <1>a, <3>4, <3>5, <3>6, <3>7 DEF EvidenceInv
  <2>4. CASE BackupReceipt(p)
    <3> DEFINE r == [Held(p) EXCEPT !.state = "backup_created"]
    <3>1. /\ r \in Receipts /\ r.state # "none" /\ r.legacy = Held(p).legacy
          /\ r.candidate = Held(p).candidate
      BY <2>4, <1>a, <1>b, AtWork DEF BackupReceipt, At, Receipts, PreCandidate
    <3>2. Held(p).candidate # Absent => candidate[Mine(p)] = Held(p).candidate
      BY <2>4 DEF BackupReceipt, At, EvidenceInv, Faithful, Working
    <3> HIDE DEF r
    <3>3. write_receipt(p, r, "candidate") /\ proc[p].pc = "backupReceipt"
      BY <2>4 DEF BackupReceipt, At, r
    <3> QED BY <3>1, <3>2, <3>3, <1>a, <1>b, Rewritten DEF Working, Tail
  <2>5. CASE CreateCandidate(p)
    <3>1. /\ Mine(p) \in M /\ proc[p].pc = "candidate" /\ backup[Mine(p)] # Absent
          /\ Held(p).legacy = receipt[Mine(p)].legacy /\ receipt[Mine(p)].state # "none"
      BY <2>5, <1>a, AtWork DEF CreateCandidate, At, EvidenceInv, Faithful, Working, Tail
    <3>2. CASE Done(p) /\ UNCHANGED candidate
      BY <2>5, <3>2, <1>a, Left DEF CreateCandidate
    <3>3. CASE candidate[Mine(p)] # Absent /\ Goto(p, "candidateReceipt") /\ UNCHANGED candidate
      BY <2>5, <3>1, <3>3, <1>a, Gone DEF CreateCandidate, Working, Tail, EvidenceInv, Returnable
    <3>4. CASE /\ candidate[Mine(p)] = Absent /\ Held(p).candidate = Absent
               /\ candidate' = [candidate EXCEPT ![Mine(p)] = create_v3_container(Held(p).legacy.content)]
               /\ Goto(p, "candidateReceipt")
      <4>1. /\ proc'[p].pc = "candidateReceipt" /\ proc'[p].m = proc[p].m
            /\ proc'[p].receipt = proc[p].receipt /\ \A q \in P \ {p} : proc'[q] = proc[q]
        BY <3>4, <1>a DEF Goto, TypeInv, ProcInv, Procs
      <4>a. LET c == create_v3_container(Held(p).legacy.content) IN
               c.format = "v3" /\ c.first /\ c.content = receipt[Mine(p)].legacy.content /\ c # Absent
        BY <3>1 DEF create_v3_container, File, Absent
      <4>2. /\ candidate'[Mine(p)].format = "v3" /\ candidate'[Mine(p)].first
            /\ candidate'[Mine(p)].content = receipt[Mine(p)].legacy.content
            /\ \A m \in M : candidate[m] # Absent => candidate'[m] = candidate[m]
            /\ \A m \in M \ {Mine(p)} : candidate'[m] = candidate[m]
            /\ candidate'[Mine(p)] # Absent
            /\ UNCHANGED <<target, receipt, backup>>
        BY <2>5, <3>1, <3>4, <4>a, <1>a DEF CreateCandidate, TypeInv, FileInv
      <4>3. receipt[Mine(p)].candidate = Absent
        BY <3>1, <3>4 DEF EvidenceInv, Coherent
      <4>4. ASSUME NEW m \in M PROVE Coherent(m)'
        BY <3>1, <4>2, <4>3 DEF EvidenceInv, Coherent
      <4>5. ASSUME NEW q \in P \ {p} PROVE Planning(q)' /\ Faithful(q)'
        <5>1. proc[q].pc # "idle" => proc[q].m \in M
          BY <1>a, AtWork DEF At, Mine
        <5>2. Planning(q)'
          BY <4>1, <4>2, <5>1 DEF EvidenceInv, Planning, At, Mine, Held
        <5>3. Faithful(q)'
          BY <1>b, <4>1, <4>2, <5>1 DEF EvidenceInv, Faithful, At, Mine, Held
        <5> QED BY <5>2, <5>3
      <4>6. Planning(p)' /\ Faithful(p)'
        BY <3>1, <3>4, <4>1, <4>2 DEF EvidenceInv, Planning, Faithful, At, Mine, Held, Working, Tail
      <4>7. Returnable'
        BY <1>a, <4>2, Named DEF EvidenceInv, Returnable
      <4> QED BY <1>a, <4>4, <4>5, <4>6, <4>7 DEF EvidenceInv
    <3> QED BY <2>5, <3>2, <3>3, <3>4 DEF CreateCandidate
  <2>6. CASE CandidateReceipt(p)
    <3> DEFINE r == [Held(p) EXCEPT !.state = "candidate_validated", !.candidate = candidate[Mine(p)]]
    <3>1. proc[p].pc = "candidateReceipt" /\ candidate[Mine(p)] # Absent
      BY <2>6 DEF CandidateReceipt, At, EvidenceInv, Faithful
    <3>2. CASE Held(p).candidate = Absent
      <4>1. /\ r \in Receipts /\ r.state # "none" /\ r.legacy = Held(p).legacy
            /\ r.candidate = candidate[Mine(p)]
        BY <2>6, <1>a, <1>b, AtWork DEF CandidateReceipt, At, Receipts, PostCandidate, TypeInv, FileInv
      <4>2. write_receipt(p, r, "live")
        BY <2>6, <3>2 DEF CandidateReceipt
      <4> HIDE DEF r
      <4> QED BY <3>1, <4>1, <4>2, <1>a, <1>b, Rewritten DEF Working, Tail
    <3>3. CASE Held(p).candidate # Absent
      BY <2>6, <3>1, <3>3, <1>a, Gone DEF CandidateReceipt, Working, Tail, EvidenceInv, Returnable
    <3> QED BY <3>2, <3>3
  <2>7. CASE ReadLive(p)
    <3>1. proc[p].pc = "live" /\ Held(p).candidate # Absent
      BY <2>7 DEF ReadLive, At, EvidenceInv, Faithful
    <3> QED BY <2>7, <3>1, <1>a, Left, Gone DEF ReadLive, Working, Tail, EvidenceInv, Returnable
  <2>8. CASE Activate(p)
    <3>1. /\ proc[p].pc = "activate" /\ Held(p).candidate # Absent /\ Mine(p) \in M
          /\ candidate[Mine(p)] = Held(p).candidate /\ backup[Mine(p)] # Absent
          /\ candidate[Mine(p)].format = "v3"
      BY <2>8, <1>a, AtWork DEF Activate, At, EvidenceInv, Faithful, Coherent, Working, Tail
    <3>2. CASE Done(p) /\ UNCHANGED target
      BY <2>8, <3>2, <1>a, Left DEF Activate
    <3>3. CASE target' = Held(p).candidate /\ Goto(p, "activatedReceipt")
      <4>1. Returnable'
        BY <2>8, <3>1, <3>3 DEF Activate, Returnable
      <4> QED BY <2>8, <3>1, <3>3, <4>1, <1>a, Gone DEF Activate, Working, Tail
    <3> QED BY <2>8, <3>2, <3>3 DEF Activate
  <2>9. CASE ActivatedReceipt(p)
    <3> DEFINE r == [Held(p) EXCEPT !.state = "activated"]
    <3>1. /\ proc[p].pc = "activatedReceipt" /\ Held(p).candidate # Absent
          /\ candidate[Mine(p)] = Held(p).candidate
      BY <2>9 DEF ActivatedReceipt, At, EvidenceInv, Faithful, Working, Tail
    <3>2. CASE Held(p).state # "activated"
      <4>1. /\ r \in Receipts /\ r.state # "none" /\ r.legacy = Held(p).legacy
            /\ r.candidate = Held(p).candidate
        BY <2>9, <1>a, <1>b, AtWork DEF ActivatedReceipt, At, Receipts, PostCandidate
      <4>2. write_receipt(p, r, "return")
        BY <2>9, <3>2 DEF ActivatedReceipt, write_receipt
      <4> HIDE DEF r
      <4> QED BY <3>1, <4>1, <4>2, <1>a, <1>b, Rewritten DEF Working, Tail
    <3>3. CASE Held(p).state = "activated"
      BY <2>9, <3>1, <3>3, <1>a, Gone DEF ActivatedReceipt, Working, Tail, EvidenceInv, Returnable
    <3> QED BY <3>2, <3>3
  <2>10. CASE Restore(p)
    <3>1. /\ proc[p].pc = "restore" /\ Held(p).candidate # Absent /\ Mine(p) \in M
          /\ Legacy(backup[Mine(p)])
      BY <2>10, <1>a, AtWork DEF Restore, At, EvidenceInv, Faithful, Coherent, Working, Tail
    <3>2. CASE Done(p) /\ UNCHANGED target
      BY <2>10, <3>2, <1>a, Left DEF Restore
    <3>3. CASE target' = backup[Mine(p)] /\ Goto(p, "rolledBackReceipt")
      <4>1. Returnable'
        BY <3>1, <3>3 DEF Returnable, Legacy
      <4> QED BY <2>10, <3>1, <3>3, <4>1, <1>a, Gone DEF Restore, Working, Tail
    <3> QED BY <2>10, <3>2, <3>3 DEF Restore
  <2>11. CASE RolledBackReceipt(p)
    <3> DEFINE r == [Held(p) EXCEPT !.state = "rolled_back"]
    <3>1. /\ proc[p].pc = "rolledBackReceipt" /\ Held(p).candidate # Absent
          /\ candidate[Mine(p)] = Held(p).candidate
      BY <2>11 DEF RolledBackReceipt, At, EvidenceInv, Faithful, Working, Tail
    <3>2. CASE Held(p).state # "rolled_back"
      <4>1. /\ r \in Receipts /\ r.state # "none" /\ r.legacy = Held(p).legacy
            /\ r.candidate = Held(p).candidate
        BY <2>11, <1>a, <1>b, AtWork DEF RolledBackReceipt, At, Receipts, PostCandidate
      <4>2. write_receipt(p, r, "return")
        BY <2>11, <3>2 DEF RolledBackReceipt
      <4> HIDE DEF r
      <4> QED BY <3>1, <4>1, <4>2, <1>a, <1>b, Rewritten DEF Working, Tail
    <3>3. CASE Held(p).state = "rolled_back"
      BY <2>11, <3>1, <3>3, <1>a, Gone DEF RolledBackReceipt, Working, Tail, EvidenceInv, Returnable
    <3> QED BY <3>2, <3>3
  <2>12. CASE Return(p)
    BY <2>12, <1>a, Left DEF Return
  <2> QED BY <1>1, <2>1, <2>2, <2>3, <2>4, <2>5, <2>6, <2>7, <2>8, <2>9, <2>10, <2>11, <2>12
          DEF Advance
<1>2. ASSUME NEW p \in P, Stop(p) PROVE EvidenceInv'
  BY <1>2, <1>a, Left DEF Stop
<1>3. ASSUME NEW p \in P, NEW m \in M, apply_v3_migration(p, m) PROVE EvidenceInv'
  <2>1. /\ proc'[p] = [pc |-> "plan", m |-> m, receipt |-> [state |-> "planned", legacy |-> target, candidate |-> Absent]]
        /\ \A q \in P \ {p} : proc'[q] = proc[q]
    BY <1>3, <1>a DEF apply_v3_migration, Command, TypeInv, ProcInv
  <2>2. Planning(p)' /\ Faithful(p)' /\ Returnable'
    BY <1>3, <2>1 DEF apply_v3_migration, EvidenceInv, Returnable, Planning, Faithful, At, Mine, Held,
                      Working, Tail
  <2> QED BY <1>3, <1>a, <2>1, <2>2, Walked DEF apply_v3_migration, Mine
<1>4. ASSUME NEW p \in P, NEW m \in M, resume_v3_migration(p, m) PROVE EvidenceInv'
  <2>1. /\ proc'[p] = [pc |-> "load", m |-> m, receipt |-> NoReceipt]
        /\ \A q \in P \ {p} : proc'[q] = proc[q]
    BY <1>4, <1>a DEF resume_v3_migration, Command, TypeInv, ProcInv
  <2>2. Planning(p)' /\ Faithful(p)' /\ Returnable'
    BY <1>4, <2>1 DEF resume_v3_migration, EvidenceInv, Returnable, Planning, Faithful, At, Mine, Held,
                      Working, Tail
  <2> QED BY <1>4, <1>a, <2>1, <2>2, Walked DEF resume_v3_migration
<1>5. ASSUME NEW p \in P, NEW m \in M, rollback_v3_migration(p, m) PROVE EvidenceInv'
  <2>1. PICK pc \in {"restore", "rolledBackReceipt"} : Command(p, pc, m, receipt[m])
    BY <1>5 DEF rollback_v3_migration
  <2>2. /\ proc'[p] = [pc |-> pc, m |-> m, receipt |-> receipt[m]]
        /\ \A q \in P \ {p} : proc'[q] = proc[q]
    BY <2>1, <1>a DEF Command, TypeInv, ProcInv
  <2>3. /\ receipt[m].state # "none" /\ backup[m] # Absent /\ candidate[m] # Absent
        /\ receipt[m].candidate # Absent /\ candidate[m] = receipt[m].candidate
        /\ UNCHANGED <<target, receipt, backup, candidate>>
    <3>1. receipt[m].state \in {"activated", "rolled_back"} /\ Coherent(m)
      BY <1>5 DEF rollback_v3_migration, EvidenceInv
    <3>2. backup[m] # Absent /\ receipt[m].candidate # Absent /\ candidate[m] = receipt[m].candidate
      BY <3>1 DEF Coherent, parse_receipt, PreCandidate
    <3> QED BY <1>5, <3>1, <3>2 DEF rollback_v3_migration
  <2>4. Planning(p)' /\ Faithful(p)' /\ Returnable'
    BY <2>2, <2>3 DEF EvidenceInv, Returnable, Planning, Faithful,
                            At, Mine, Held, Working, Tail
  <2> QED BY <1>a, <2>2, <2>3, <2>4, Walked
<1>6. CASE Edit
  <2>1. Returnable'
    BY <1>6 DEF Edit, File, EvidenceInv, Returnable
  <2>2. \A m \in M : Coherent(m)'
    BY <1>6 DEF Edit, EvidenceInv, Coherent
  <2>3. \A p \in P : Planning(p)' /\ Faithful(p)'
    BY <1>6 DEF Edit, EvidenceInv, Planning, Faithful, At, Mine, Held
  <2> QED BY <1>a, <2>1, <2>2, <2>3 DEF EvidenceInv
<1>7. CASE UNCHANGED vars
  <2>1. Returnable' /\ \A m \in M : Coherent(m)'
    BY <1>7 DEF vars, EvidenceInv, Returnable, Coherent
  <2>2. \A p \in P : Planning(p)' /\ Faithful(p)'
    BY <1>7 DEF vars, EvidenceInv, Planning, Faithful, At, Mine, Held
  <2> QED BY <1>a, <2>1, <2>2 DEF EvidenceInv
<1> QED BY <1>1, <1>2, <1>3, <1>4, <1>5, <1>6, <1>7 DEF Next, migration_group

-----------------------------------------------------------------------------
(* It holds from the beginning, when there is no migration.                *)
LEMMA EvidenceInvariant == Spec => []EvidenceInv
<1>1. Init => TypeInv
  BY MigrationAssumption, Named
     DEF Init, TypeInv, ProcInv, FileInv, File, Files, Receipts, Procs, Steps
<1>2. Init => EvidenceInv
  BY <1>1, Named, MigrationAssumption
     DEF Init, File, EvidenceInv, Returnable, Coherent, Planning, Faithful, At, Mine, Working, Tail
<1> QED BY <1>2, EvidenceStep, PTL DEF Spec

(* The evidence a receipt names is at its place at any time, for any number*)
(* of processes, migrations, stops and rollbacks.                          *)
THEOREM EvidenceIsKept == Spec => []EvidenceStays
<1>1. EvidenceInv => EvidenceStays
  <2> SUFFICES ASSUME EvidenceInv, NEW m \in M
               PROVE  /\ receipt[m].state \notin {"none", "planned"} => backup[m] = receipt[m].legacy
                      /\ receipt[m].candidate # Absent => candidate[m] = receipt[m].candidate
    BY DEF EvidenceStays
  <2> QED BY DEF EvidenceInv, Coherent
<1> QED BY <1>1, EvidenceInvariant, PTL

(* A vault that is still the candidate of a migration can be rolled back to*)
(* a legacy copy of the same content.                                      *)
THEOREM ReturnIsPossible == Spec => []MigratedCanReturn
<1>1. EvidenceInv => MigratedCanReturn
  <2> SUFFICES ASSUME EvidenceInv, target.format = "v3", target.first
               PROVE  \E m \in M : /\ candidate[m] = target /\ Legacy(backup[m])
                                   /\ backup[m].content = target.content
    BY DEF MigratedCanReturn
  <2>1. PICK m \in M : candidate[m] = target /\ backup[m] # Absent
    BY DEF EvidenceInv, Returnable
  <2>2. Coherent(m) /\ candidate[m] # Absent
    BY <2>1, Named DEF EvidenceInv
  <2> QED BY <2>1, <2>2, Named DEF Coherent, Legacy
<1> QED BY <1>1, EvidenceInvariant, PTL

(* No step of a migration, of its resumption or of its rollback changes    *)
(* what the vault holds: only an edit does.                                *)
THEOREM EditsSurvive == Spec => ContentKept
<1>1. EvidenceInv /\ [Next]_vars => (edits' = edits => target'.content = target.content)
  <2> SUFFICES ASSUME EvidenceInv, [Next]_vars, edits' = edits PROVE target'.content = target.content
    OBVIOUS
  <2> USE DEF files, budget
  <2>a. TypeInv
    BY DEF EvidenceInv
  <2>1. ASSUME NEW p \in P, Activate(p) PROVE target'.content = target.content
    <3>1. /\ Mine(p) \in M /\ Held(p).candidate # Absent /\ candidate[Mine(p)] = Held(p).candidate
          /\ Held(p).legacy = receipt[Mine(p)].legacy
      BY <2>1, <2>a, AtWork DEF Activate, At, EvidenceInv, Faithful, Working, Tail
    <3>2. candidate[Mine(p)].content = receipt[Mine(p)].legacy.content
      BY <3>1 DEF EvidenceInv, Coherent
    <3> QED BY <2>1, <3>1, <3>2 DEF Activate, Unchanged
  <2>2. ASSUME NEW p \in P, Restore(p) PROVE target'.content = target.content
    <3>1. /\ Mine(p) \in M /\ Held(p).candidate # Absent /\ candidate[Mine(p)] = Held(p).candidate
          /\ backup[Mine(p)] # Absent
      BY <2>2, <2>a, AtWork DEF Restore, At, EvidenceInv, Faithful, Working, Tail
    <3>2. candidate[Mine(p)].content = backup[Mine(p)].content
      BY <3>1 DEF EvidenceInv, Coherent
    <3> QED BY <2>2, <3>1, <3>2 DEF Restore, Unchanged
  <2>3. ASSUME NEW p \in P, Advance(p), ~Activate(p), ~Restore(p) PROVE target' = target
    BY <2>3 DEF Advance, Plan, Load, CreateBackup, BackupReceipt, CreateCandidate, CandidateReceipt,
                ReadLive, ActivatedReceipt, RolledBackReceipt, Return, write_receipt
  <2>4. ASSUME NEW p \in P, Stop(p) PROVE target' = target
    BY <2>4 DEF Stop
  <2>5. ASSUME NEW p \in P, NEW m \in M, migration_group(p, m) PROVE target' = target
    BY <2>5 DEF migration_group, apply_v3_migration, resume_v3_migration, rollback_v3_migration
  <2>6. ~Edit
    <3>1. Edit => edits' = edits + 1
      BY DEF Edit
    <3>2. edits \in Nat
      BY <2>a DEF TypeInv, FileInv
    <3> QED BY <3>1, <3>2
  <2> QED BY <2>1, <2>2, <2>3, <2>4, <2>5, <2>6 DEF Next, vars
<1> QED BY <1>1, EvidenceInvariant, PTL DEF Spec, ContentKept
=============================================================================
