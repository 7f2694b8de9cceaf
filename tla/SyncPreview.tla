---------------------------- MODULE SyncPreview ----------------------------
(***************************************************************************)
(* How the desktop synchronizes: it previews, the user approves, and the   *)
(* approved plan is executed (src/src/vault_unified/api/routes/sync.py,    *)
(* sync/preview.py, and preview_explicit and execute_explicit of           *)
(* manager.py), over the saga of SyncEngine.                               *)
(*                                                                         *)
(* A preview reads the sources and writes nothing.  It is filed as an      *)
(* intent: a one-shot token with the fingerprint of the vault and the      *)
(* digest of the plan.  Execution takes the intent out, compares the       *)
(* fingerprint, plans again and compares the digest, and only then takes   *)
(* the vault lock.  Until it has the lock other handlers may change the    *)
(* entry; at any time they may prepare a save or mark the entry deleted,   *)
(* and other devices may edit the sources.                                 *)
(*                                                                         *)
(* Every change of the vault draws new revisions and times, so that a      *)
(* fingerprint never comes back: `changed` records that it is another one. *)
(* Preferences are in the fingerprint; a preview of a disabled source is   *)
(* shown but can never be executed, so that only enabled ones are modelled.*)
(* A preview during which the vault changes is refused, and is one action. *)
(***************************************************************************)
EXTENDS SyncEngine

CONSTANTS
    Plans,          \* what the user previews: [sources, pull, push]
    MaxPreviews     \* bound: previews

ASSUME PreviewAssumption ==
    /\ Plans \subseteq [sources : SUBSET S \ {{}}, pull : BOOLEAN, push : BOOLEAN]
    /\ MaxPreviews \in Nat

VARIABLES
    desktop,        \* the desktop's process, or a command of the command line
    intent,         \* the preview in the store, or None
    job,            \* the execution under way, or None
    previews

previewVars == <<desktop, intent, job, previews>>

PreviewInit == Init /\ desktop \in BOOLEAN /\ intent = None /\ job = None /\ previews = 0

(* The remote part of the plan's digest, read when the plan includes a     *)
(* pull; a listing that fails leaves its source in the plan as unavailable.*)
Listing(plan, failed) ==
    [s \in plan.sources |->
        IF ~plan.pull THEN "not read" ELSE IF s \in failed THEN "unavailable" ELSE remote[s]]
MayFail(plan, failed) ==
    /\ failed \subseteq plan.sources
    /\ failed # {} => plan.pull /\ MayBreak
    /\ failures' = failures + (IF failed = {} THEN 0 ELSE 1)
    /\ UNCHANGED <<entry, saved, remote, creates, push, stale, edits, remoteEdits>>

(* _preview_push_operations                                                *)
PushAction(s) ==
    IF ~ListedDirty THEN "none"
    ELSE IF entry.pending[s] # None THEN "pending_verification"
    ELSE IF entry.conflict[s] # None THEN "conflict"
    ELSE IF entry.tombstone # None THEN IF Pushable(entry, s) THEN "delete" ELSE "none"
    ELSE IF s \in entry.linked THEN "update" ELSE "add"

Issue(plan) ==
    /\ desktop /\ intent = None /\ previews < MaxPreviews
    /\ \E failed \in SUBSET S :
          /\ MayFail(plan, failed)
          /\ intent' = [plan |-> plan, seen |-> Listing(plan, failed), changed |-> FALSE]
    /\ previews' = previews + 1
    /\ UNCHANGED <<desktop, job>>

(* The token expires, or its session ends.                                 *)
Expire == intent # None /\ intent' = None /\ UNCHANGED <<vars, desktop, job, previews>>

(* consume and the comparison of the fingerprints: the token is spent      *)
(* whether or not they are equal.                                          *)
Consume ==
    /\ intent # None /\ job = None
    /\ intent' = None
    /\ job' = IF intent.changed THEN None
              ELSE [step |-> "checked", plan |-> intent.plan, seen |-> intent.seen,
                    changed |-> FALSE, pulls |-> {}, pushes |-> {}]
    /\ UNCHANGED <<vars, desktop, previews>>

(* The plan is made again; its digest covers the operations, with the      *)
(* revision of the entry they are about, and what was read of the sources. *)
SamePlan_Operations(seen) == ~job.changed   \* mutant: the digest leaves out what the sources hold
SamePlan(seen) == ~job.changed /\ seen = job.seen

Recheck ==
    /\ job # None /\ job.step = "checked"
    /\ \E failed \in SUBSET S :
          /\ MayFail(job.plan, failed)
          /\ job' = IF ~SamePlan(Listing(job.plan, failed)) THEN None
                    ELSE [job EXCEPT !.step = "approved",
                            !.pulls = {s \in job.plan.sources : job.plan.pull /\ job.seen[s] # "unavailable"},
                            !.pushes = {s \in job.plan.sources : job.plan.push /\ PushAction(s) \notin {"none", "conflict"}}]
    /\ UNCHANGED <<desktop, intent, previews>>

(* execute_explicit holds the vault lock from here to its end.             *)
Lock ==
    /\ job # None /\ job.step = "approved" /\ pc = "idle"
    /\ job' = [job EXCEPT !.step = "running"]
    /\ UNCHANGED <<vars, desktop, intent, previews>>
Running == job # None /\ job.step = "running"

(* What another device, or a push of this vault, puts at a source after    *)
(* the second plan; the code does not look at `seen` any more, a property  *)
(* does.                                                                   *)
Later(written) == [s \in job.plan.sources |-> IF s \in written THEN "later" ELSE job.seen[s]]

(* What a commit means for an intent, and for an execution not yet past    *)
(* its second plan.                                                        *)
Noticed ==
    /\ intent' = IF intent = None \/ entry' = entry THEN intent ELSE [intent EXCEPT !.changed = TRUE]
    /\ UNCHANGED <<desktop, previews>>
NoticedByAll(written) ==
    /\ Noticed
    /\ job' = IF job = None THEN job
              ELSE IF job.step # "checked" THEN [job EXCEPT !.seen = Later(written)]
              ELSE [job EXCEPT !.changed = @ \/ entry' # entry]

(* One pull per selected source; one that fails does not end the execution.*)
ExecutePull(s) ==
    /\ Running /\ pc = "idle" /\ s \in job.pulls
    /\ \/ Pull(s)
       \/ entry = None /\ UNCHANGED vars
       \/ entry # None /\ s \notin entry.linked /\ UNCHANGED vars
       \/ /\ MayBreak /\ failures' = failures + 1
          /\ UNCHANGED <<entry, saved, remote, creates, push, stale, edits, remoteEdits>>
    /\ job' = [job EXCEPT !.pulls = @ \ {s}]
    /\ Noticed

(* _execute_push_operation                                                 *)
Blocked(s) == entry = None \/ entry.conflict[s] # None \/ ~Pushable(entry, s)

ExecutePush(s) ==
    /\ Running /\ pc = "idle" /\ job.pulls = {} /\ s \in job.pushes
    /\ IF Blocked(s) THEN UNCHANGED vars ELSE PushBegin(s)
    /\ job' = [job EXCEPT !.pushes = @ \ {s}]
    /\ Noticed

Executed ==
    /\ Running /\ pc = "idle" /\ job.pulls = {} /\ job.pushes = {}
    /\ job' = None
    /\ UNCHANGED <<vars, desktop, intent, previews>>

(* Other handlers, which take the lock.  An entry is pushed outside an     *)
(* execution when the user edits it with auto_push_on_edit, and when a     *)
(* conflict is resolved; the command line pulls and pushes without a       *)
(* preview, the desktop does not.                                          *)
Handler ==
    /\ ~Running
    /\ \/ Hold \/ Commit \/ SaveMark \/ PutBack \/ Purge
       \/ \E s \in S : Abandon(s) \/ (PushBegin(s) /\ (desktop => ListedDirty)) \/ (~desktop /\ Pull(s))
       \/ \E s \in S, choice \in Choices, merged \in Content : Resolve(s, choice, merged)
    /\ NoticedByAll({})

(* What a handler does before it asks for the lock, which an execution     *)
(* does not keep from it.                                                  *)
Unlocked ==
    /\ (\E c \in Content : Prepare(c)) \/ MarkDeleted
    /\ NoticedByAll({})

PushStep == (Push \/ CallFails \/ Unreachable) /\ NoticedByAll({s \in S : remote'[s] # remote[s]})

SavePreferences ==
    /\ intent # None /\ ~intent.changed
    /\ intent' = [intent EXCEPT !.changed = TRUE]
    /\ UNCHANGED <<vars, desktop, job, previews>>

Elsewhere(s) ==
    /\ RemoteEdit(s)
    /\ job' = IF job = None \/ job.step = "checked" THEN job ELSE [job EXCEPT !.seen = Later({s})]
    /\ UNCHANGED <<desktop, intent, previews>>

(* The process dies: intents are in memory only.                           *)
Die ==
    /\ Crash \/ (job # None /\ pc = "idle" /\ UNCHANGED vars)
    /\ intent' = None /\ job' = None /\ UNCHANGED <<desktop, previews>>

PreviewNext ==
    \/ \E plan \in Plans : Issue(plan)
    \/ Expire \/ Consume \/ Recheck \/ Lock \/ Executed
    \/ \E s \in S : ExecutePull(s) \/ ExecutePush(s) \/ Elsewhere(s)
    \/ Handler \/ Unlocked \/ PushStep \/ SavePreferences \/ Die

PreviewSpec == PreviewInit /\ [][PreviewNext]_<<vars, previewVars>>

(***************************************************************************)
(* Properties                                                              *)
(***************************************************************************)
Replaces(s) ==
    /\ Running /\ pc = "call" /\ pc' # "call" /\ s = at
    /\ remote[s] # None /\ remote'[s] # remote[s]

(* A plan with a pull never replaces or deletes, at a source, a version    *)
(* that the user was not shown, unless it was put there after the second   *)
(* plan: also when the pull of the execution fails and its push goes on.   *)
ShownIsReplaced ==
    [][\A s \in S : Replaces(s) /\ job.plan.pull /\ job.seen[s] \notin {"unavailable", "later"} =>
         remote[s] = job.seen[s]]_<<vars, previewVars>>
=============================================================================
