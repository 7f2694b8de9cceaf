----------------------------- MODULE SyncEngine -----------------------------
(***************************************************************************)
(* The durable saga that keeps one vault entry in step with its replicas   *)
(* in other password managers (src/src/vault_unified/sync/engine.py,       *)
(* sync/ledger.py): three-way pull, push with a persisted intent,          *)
(* reconciliation after a crash, conflicts, tombstones and purge.          *)
(*                                                                         *)
(* Every engine operation holds the vault lock, so there is one at a time; *)
(* what interleaves is other devices editing the replicas, remote calls    *)
(* that fail before or after they took effect, the death of the process,   *)
(* and the user: a save is prepared on a copy of the entry, and a deletion *)
(* marks the entry itself, at any time, and only then wait for the lock.   *)
(* An action is a remote call or a save of the vault with the local work   *)
(* around it: `entry` is the object in memory, with the conflicts of the   *)
(* engine, `saved` the one on disk, with the conflicts embedded in it, and *)
(* a crash replaces the first by the second.                               *)
(*                                                                         *)
(* A content is what remote_sync_fingerprint distinguishes.  A content     *)
(* revision is only ever compared with the last one a replica              *)
(* acknowledged, so `acked` records the outcome of that comparison.  The   *)
(* state of a pending operation (intent, unknown) is shown to the user     *)
(* and never read by the engine; it is left out.                           *)
(***************************************************************************)
EXTENDS Integers, FiniteSets

CONSTANTS
    S,                  \* sources (external password managers)
    Content,            \* entry contents
    None,
    IdempotentCreate,   \* sources whose create repeats harmlessly (capabilities)
    DeleteConfirm,      \* sources that confirm a deletion by read-back
    AbsenceIsDelete,    \* sources whose listing proves a deletion
    Choices,            \* resolutions the user picks: "local", "remote", "merge"
    MayDelete,          \* whether the user deletes the entry
    MaxEdits,           \* bound: saves the user prepares, deletions that hold a copy
    MaxRemoteEdits,     \* bound: edits and deletions at the sources
    MaxFailures,        \* bound: failed remote calls and crashes
    MaxEvents           \* bound: all of these together

ASSUME ConstantsAssumption ==
    /\ None \notin Content
    /\ IdempotentCreate \subseteq S /\ DeleteConfirm \subseteq S /\ AbsenceIsDelete \subseteq S
    /\ Choices \subseteq {"local", "remote", "merge"} /\ MayDelete \in BOOLEAN
    /\ MaxEdits \in Nat /\ MaxRemoteEdits \in Nat /\ MaxFailures \in Nat
    /\ MaxEvents \in Nat

VARIABLES
    entry, saved,      \* the entry in memory and in the vault file; None once purged
    remote,            \* per source: content of the entry's object there, or None
    creates,           \* per source: objects created there for this entry
    pc, at, deleting,  \* the push in progress: its step, its source (or None), whether it deletes
    draft,             \* the copy of the entry that a request of the user holds, or None
    forgotten,         \* history: the sources of which such a copy took something back
    edits, remoteEdits, failures

push == <<pc, at, deleting>>
stale == <<draft, forgotten>>
counts == <<edits, remoteEdits, failures>>
vars == <<entry, saved, remote, creates, push, stale, counts>>

Kinds == {"create", "update", "delete"}
Tombstone ==
    {t \in [required : SUBSET S, acknowledged : SUBSET S, abandoned : SUBSET S] :
        /\ t.acknowledged \cup t.abandoned \subseteq t.required
        /\ t.acknowledged \cap t.abandoned = {}}
Conflict == [content : Content, deleted : BOOLEAN]
Entry == [content : Content, status : {"clean", "dirty", "conflict", "deleted"},
          linked : SUBSET S,                   \* linked_sources, replica.external_id
          replicas : SUBSET S,                 \* sources with a ReplicaState
          base : [S -> Content \cup {None}], acked : SUBSET S,
          pending : [S -> Kinds \cup {None}],
          tombstone : Tombstone \cup {None},
          conflict : [S -> Conflict \cup {None}]]

(* A save was prepared on the copy and is refused when the entry has       *)
(* another updated_at by then; a deletion does not look at that.           *)
Draft == [entry : Entry, by : {"save", "deletion"}]

ASSUME EntryAssumption ==
    None \notin Entry /\ None \notin Tombstone /\ None \notin Kinds /\ None \notin Draft

(* An entry made here, or one that some sources already share.             *)
Init ==
    /\ \E c \in Content, shared \in SUBSET S :
          /\ entry = [content |-> c, status |-> IF shared = {} THEN "dirty" ELSE "clean",
                      linked |-> shared, replicas |-> shared,
                      base |-> [s \in S |-> IF s \in shared THEN c ELSE None], acked |-> shared,
                      pending |-> [s \in S |-> None], tombstone |-> None,
                      conflict |-> [s \in S |-> None]]
          /\ remote = [s \in S |-> IF s \in shared THEN c ELSE None]
    /\ saved = entry
    /\ creates = [s \in S |-> 0]
    /\ pc = "idle" /\ at = None /\ deleting = FALSE
    /\ draft = None /\ forgotten = {}
    /\ edits = 0 /\ remoteEdits = 0 /\ failures = 0

MayEdit == edits < MaxEdits /\ edits + remoteEdits + failures < MaxEvents
MayEditRemote == remoteEdits < MaxRemoteEdits /\ edits + remoteEdits + failures < MaxEvents
MayBreak == failures < MaxFailures /\ edits + remoteEdits + failures < MaxEvents

(* replace_entry writes the conflicts that were embedded last;             *)
(* _persist_conflicts embeds those of the engine first.                    *)
Save(e) == entry' = e /\ saved' = [e EXCEPT !.conflict = saved.conflict]
Persist(e) == entry' = e /\ saved' = e

(***************************************************************************)
(* The ledger                                                              *)
(***************************************************************************)
(* _replica: the ReplicaState of s is made when it is first asked for.     *)
WithReplica(e, s) == [e EXCEPT !.replicas = @ \cup {s}]

(* record_base, and what _ack_replica adds to it.                          *)
RecordBase(e, s, c) ==
    [WithReplica(e, s) EXCEPT !.base[s] = c, !.acked = @ \cup {s}]
AckReplica(e, s) == [RecordBase(e, s, e.content) EXCEPT !.pending[s] = None]

(* _refresh_status for the sources a push was asked for.                   *)
Refreshed_ForgetsPending(e, required) ==   \* mutant: a pending operation is not looked at
    [e EXCEPT !.status =
        IF e.tombstone # None THEN "deleted"
        ELSE IF \E s \in S : e.conflict[s] # None THEN "conflict"
        ELSE IF e.replicas \cup required = {} \/ ~(required \subseteq e.replicas)
                \/ ~(e.replicas \subseteq e.acked) THEN "dirty" ELSE "clean"]
Refreshed(e, required) ==
    [e EXCEPT !.status =
        LET sources == required \cup e.replicas IN
        IF e.tombstone # None THEN "deleted"
        ELSE IF \E s \in S : e.conflict[s] # None THEN "conflict"
        ELSE IF \/ sources = {}
                \/ \E s \in sources : s \notin e.replicas \/ e.pending[s] # None \/ s \notin e.acked
             THEN "dirty" ELSE "clean"]

CreateConflict(e, s, c, deleted) ==
    [e EXCEPT !.conflict[s] = [content |-> c, deleted |-> deleted], !.status = "conflict"]
RemoveConflict(e, s) == [e EXCEPT !.conflict[s] = None]

(* _accept_remote: the remote content is a new local revision.             *)
AcceptRemote(e, s, c) ==
    RemoveConflict(RecordBase([e EXCEPT !.content = c, !.acked = {}, !.linked = @ \cup {s}], s, c), s)

NewTombstone(required, acknowledged) ==
    [required |-> required, acknowledged |-> acknowledged \cap required, abandoned |-> {}]
PendingSources(t) == t.required \ (t.acknowledged \cup t.abandoned)

(***************************************************************************)
(* The user                                                                *)
(***************************************************************************)
(* Whatever gives the entry another updated_at makes a prepared save fail. *)
Redated == IF draft # None /\ draft.by = "save" THEN None ELSE draft

Edited_KeepsRevision(e, c) ==   \* mutant: no new content revision
    [e EXCEPT !.content = c, !.status = "dirty"]
Edited(e, c) == [e EXCEPT !.content = c, !.acked = {}, !.status = "dirty"]

(* commit_entry_transaction, before the lock: the copy has the ledger of   *)
(* this moment, also while a push is under way.                            *)
Prepare(c) ==
    /\ entry # None /\ draft = None /\ MayEdit
    /\ entry.tombstone = None /\ entry.status # "deleted" /\ c # entry.content
    /\ draft' = [entry |-> Edited([entry EXCEPT !.conflict = saved.conflict], c), by |-> "save"]
    /\ edits' = edits + 1
    /\ UNCHANGED <<entry, saved, remote, creates, push, forgotten, remoteEdits, failures>>

(* A deletion has resolved the entry, and a commit, of this or of another  *)
(* entry, has put copies of all entries in the place of the objects: what  *)
(* the deletion holds is no longer what the engine works on.               *)
Hold ==
    /\ pc = "idle" /\ entry # None /\ draft = None /\ MayEdit
    /\ entry.tombstone = None /\ entry.status # "deleted"
    /\ draft' = [entry |-> [entry EXCEPT !.conflict = saved.conflict], by |-> "deletion"]
    /\ edits' = edits + 1
    /\ UNCHANGED <<entry, saved, remote, creates, push, forgotten, remoteEdits, failures>>

(* The sources whose link, pending operation or conflict is not in e.      *)
TakenBack(e) ==
    {s \in S : \/ s \in entry.linked \ e.linked
               \/ entry.pending[s] # None /\ e.pending[s] # entry.pending[s]
               \/ e.conflict[s] # entry.conflict[s]}

(* The copy takes the place of the entry, ledger included; the conflicts   *)
(* of the engine are not in the ledger.                                    *)
Replace(e) ==
    /\ entry' = [e EXCEPT !.conflict = entry.conflict] /\ saved' = e
    /\ forgotten' = forgotten \cup TakenBack(e)
    /\ draft' = None
    /\ UNCHANGED <<remote, creates, push, counts>>

(* commit_entry, with the lock; LocalVault.update does Prepare and Commit  *)
(* in one go.                                                              *)
Commit ==
    /\ pc = "idle" /\ draft # None /\ draft.by = "save"
    /\ Replace(draft.entry)

(* UnifiedVault.delete marks the entry without the lock, also while a push *)
(* is under way, and then waits for the lock to save it.                   *)
Marked(e) ==
    [e EXCEPT !.tombstone = IF @ = None THEN NewTombstone(e.linked, {}) ELSE @,
              !.acked = {}, !.status = "deleted"]

MarkDeleted ==
    /\ MayDelete /\ entry # None /\ entry.status # "deleted"
    /\ entry' = Marked(entry) /\ draft' = Redated
    /\ UNCHANGED <<saved, remote, creates, push, forgotten, counts>>

SaveMark ==
    /\ pc = "idle" /\ entry # None /\ entry.status = "deleted"
    /\ Save(entry)
    /\ UNCHANGED <<remote, creates, push, stale, counts>>

(* The route first saves the object it resolved, with its history, and     *)
(* then marks the entry; UnifiedVault.delete saves the one it marked.      *)
PutBack ==
    /\ MayDelete /\ pc = "idle" /\ draft # None /\ draft.by = "deletion"
    /\ \E e \in {draft.entry, Marked(draft.entry)} : Replace(e)

Abandonable(t) == t.required \ t.acknowledged

Abandon(s) ==
    /\ pc = "idle" /\ entry # None /\ entry.tombstone # None
    /\ s \in Abandonable(entry.tombstone)
    /\ Save([entry EXCEPT !.tombstone.abandoned = @ \cup {s}])
    /\ UNCHANGED <<remote, creates, push, stale, counts>>

(* purge_tombstone; the retention deadline may have passed by now, and no  *)
(* request of before the deletion is still waiting.                        *)
PurgeReady_Any(e) ==   \* mutant: one answer is enough
    e.tombstone.required = {} \/ e.tombstone.acknowledged \cup e.tombstone.abandoned # {}
PurgeReady(e) == PendingSources(e.tombstone) = {}

Purge ==
    /\ pc = "idle" /\ entry # None /\ entry.tombstone # None
    /\ PurgeReady(entry)
    /\ entry' = None /\ saved' = None /\ draft' = None
    /\ UNCHANGED <<remote, creates, push, forgotten, counts>>

(* A push of e to s: _push_delete when there is a tombstone at its start,  *)
(* which only turns to linked sources it still needs, and                  *)
(* _push_content_to_source otherwise.                                      *)
Pushable(e, s) ==
    e.tombstone # None =>
        s \in e.linked \ (e.tombstone.acknowledged \cup e.tombstone.abandoned)
Begin(e, s) == pc' = "reconcile" /\ at' = s /\ deleting' = (e.tombstone # None)

(* resolve_conflict; choosing local or merge goes on to push to s.         *)
Resolution(s, choice, merged) ==
    LET record == entry.conflict[s]
        chosen == IF choice = "local" THEN entry.content
                  ELSE IF choice = "remote" THEN record.content ELSE merged
        unlinked == IF record.deleted
                      THEN [entry EXCEPT !.linked = @ \ {s}, !.pending[s] = None] ELSE entry
        resolved == [unlinked EXCEPT !.content = chosen, !.acked = {}]
    IN IF choice = "remote" /\ record.deleted
         THEN [entry EXCEPT !.tombstone = NewTombstone(entry.linked, {s})]
       ELSE IF choice = "remote"
         THEN [RecordBase(resolved, s, chosen) EXCEPT !.pending[s] = None, !.linked = @ \cup {s}]
       ELSE resolved

Resolve(s, choice, merged) ==
    /\ pc = "idle" /\ entry # None /\ entry.conflict[s] # None
    /\ choice # "merge" => merged = entry.content
    /\ Persist(Refreshed(RemoveConflict(Resolution(s, choice, merged), s), {}))
    /\ draft' = IF choice = "merge" \/ (choice = "remote" /\ ~entry.conflict[s].deleted) THEN Redated ELSE draft
    /\ IF choice # "remote" /\ Pushable(entry', s) THEN Begin(entry', s) ELSE UNCHANGED push
    /\ UNCHANGED <<remote, creates, forgotten, counts>>

(***************************************************************************)
(* pull_source: one listing, merged and saved.  A crash before the save    *)
(* leaves no trace, so the whole pull is one action.                       *)
(***************************************************************************)
(* _merge_remote                                                           *)
MustAsk_OnlyConflict(e) == e.status = "conflict"   \* mutant: a dirty entry is overwritten
MustAsk(e) == e.status \in {"dirty", "conflict"}

(* Only the remote side changed, or it is the first version of s seen.     *)
Accepts(e, s, c) ==
    IF e.base[s] = None THEN ~MustAsk(e) \/ e.content = c ELSE e.content = e.base[s] /\ c # e.base[s]

Merged(e, s, c) ==
    LET base == e.base[s]
    IN IF Accepts(e, s, c) THEN AcceptRemote(e, s, c)
       ELSE IF base = None THEN CreateConflict(e, s, c, FALSE)
       ELSE IF e.content = base THEN RemoveConflict([e EXCEPT !.acked = @ \cup {s}], s)
       ELSE IF c = base THEN e
       ELSE IF e.content = c THEN RemoveConflict(RecordBase(e, s, c), s)
       ELSE CreateConflict(e, s, c, FALSE)

(* _observe_remote_absence, for a source whose listing proves a deletion.  *)
Absent(e, s) ==
    IF s \notin AbsenceIsDelete \/ s \notin e.linked \/ e.tombstone # None \/ e.base[s] = None
      THEN e
    ELSE IF e.content # e.base[s] THEN CreateConflict(e, s, e.base[s], TRUE)
    ELSE [e EXCEPT !.tombstone = NewTombstone(e.linked, {s}), !.status = "deleted"]

Pull(s) ==
    /\ pc = "idle" /\ entry # None
    /\ \/ remote[s] # None /\ s \in entry.linked
          /\ Persist(Refreshed(Merged(WithReplica(entry, s), s, remote[s]), {}))
          /\ draft' = IF Accepts(entry, s, remote[s]) THEN Redated ELSE draft
       \/ remote[s] = None /\ Persist(Absent(entry, s)) /\ UNCHANGED draft
    /\ UNCHANGED <<remote, creates, push, forgotten, counts>>

(***************************************************************************)
(* push_entry to one source                                                *)
(***************************************************************************)
Go(step) == pc' = step /\ UNCHANGED <<at, deleting>>
Stop == pc' = "idle" /\ at' = None /\ deleting' = FALSE

PushBegin(s) ==
    /\ pc = "idle" /\ entry # None /\ Pushable(entry, s)
    /\ Begin(entry, s)
    /\ UNCHANGED <<entry, saved, remote, creates, stale, counts>>

(* _ack_delete: an abandonment is replaced by the acknowledgement.         *)
AckDelete(e, s) ==
    [e EXCEPT !.pending[s] = None, !.status = "deleted",
              !.tombstone.acknowledged = IF s \in e.tombstone.required THEN @ \cup {s} ELSE @,
              !.tombstone.abandoned = IF s \in e.tombstone.required THEN @ \ {s} ELSE @]

(* _reconcile_pending, which reads the replica unless it has no id there.  *)
Reconciled(e, s) ==
    LET kind == e.pending[s]
        found == IF s \in e.linked THEN remote[s] ELSE None
    IN IF kind = None THEN "new"
       ELSE IF kind = "create" /\ s \notin e.linked
         THEN IF s \in IdempotentCreate THEN "retry" ELSE "blocked"
       ELSE IF kind = "delete"
         THEN IF found = None /\ s \in DeleteConfirm THEN "deleted"
              ELSE IF found # None /\ found = e.base[s] THEN "retry" ELSE "blocked"
       ELSE IF found # None /\ found = e.content THEN "acknowledged"
       ELSE IF kind = "update" /\ found # None /\ found = e.base[s] THEN "retry"
       ELSE IF kind = "create" /\ found = None /\ s \in IdempotentCreate THEN "retry"
       ELSE "blocked"

Reconcile ==
    /\ pc = "reconcile"
    /\ LET e == WithReplica(entry, at)
           outcome == Reconciled(e, at)
       IN \/ outcome \in {"new", "retry"} /\ entry' = e /\ UNCHANGED saved /\ Go("intent")
          \/ outcome = "acknowledged" /\ Save(AckReplica(e, at)) /\ Go("refresh")
          \/ outcome = "deleted" /\ Save(AckDelete(e, at)) /\ Go("refresh")
          \/ outcome = "blocked" /\ Save(e) /\ Go("refresh")
    /\ UNCHANGED <<remote, creates, stale, counts>>

Kind == IF deleting THEN "delete" ELSE IF at \in entry.linked THEN "update" ELSE "create"

(* The intent is in the vault file before the adapter is called; an        *)
(* operation that is retried keeps the kind it had.                        *)
PersistIntent_Volatile(e) == entry' = e /\ UNCHANGED saved   \* mutant: the intent is not persisted
PersistIntent(e) == Save(e)

Intent ==
    /\ pc = "intent"
    /\ PersistIntent([entry EXCEPT !.pending[at] = IF @ = None THEN Kind ELSE @])
    /\ Go("call")
    /\ UNCHANGED <<remote, creates, stale, counts>>

CallUpdate ==
    /\ pc = "call" /\ Kind = "update" /\ remote[at] # None
    /\ remote' = [remote EXCEPT ![at] = entry.content]
    /\ Go("readback")
    /\ UNCHANGED <<entry, saved, creates, stale, counts>>

(* An idempotent create finds the object an earlier call made.             *)
Created ==
    /\ pc = "call" /\ Kind = "create"
    /\ IF at \in IdempotentCreate /\ creates[at] > 0 THEN UNCHANGED <<remote, creates>>
       ELSE /\ remote' = [remote EXCEPT ![at] = entry.content]
            /\ creates' = [creates EXCEPT ![at] = @ + 1]

CallCreate ==
    /\ Created
    /\ Go("link")
    /\ UNCHANGED <<entry, saved, stale, counts>>

(* The external id is saved before the read-back.  A deletion marked since *)
(* the push began does not ask this source.                                *)
Link ==
    /\ pc = "link"
    /\ Save([entry EXCEPT !.linked = @ \cup {at}])
    /\ forgotten' = IF entry.tombstone = None THEN forgotten ELSE forgotten \cup {at}
    /\ Go("readback")
    /\ UNCHANGED <<remote, creates, draft, counts>>

CallDelete ==
    /\ pc = "call" /\ Kind = "delete" /\ remote[at] # None
    /\ remote' = [remote EXCEPT ![at] = None]
    /\ Go("confirm")
    /\ UNCHANGED <<entry, saved, creates, stale, counts>>

(* The call raises: it did nothing, or its answer was lost.                *)
CallFails ==
    /\ pc = "call" /\ MayBreak
    /\ failures' = failures + 1
    /\ \/ UNCHANGED <<remote, creates>>
       \/ Kind = "update" /\ remote[at] # None
          /\ remote' = [remote EXCEPT ![at] = entry.content] /\ UNCHANGED creates
       \/ Created
       \/ Kind = "delete" /\ remote' = [remote EXCEPT ![at] = None] /\ UNCHANGED creates
    /\ Go("refresh")
    /\ UNCHANGED <<entry, saved, stale, edits, remoteEdits>>

(* There is nothing to update or delete any more.                          *)
CallMisses ==
    /\ pc = "call" /\ Kind \in {"update", "delete"} /\ remote[at] = None
    /\ Go("refresh")
    /\ UNCHANGED <<entry, saved, remote, creates, stale, counts>>

(* The read-back: what is there decides, not what was sent.                *)
Acknowledge ==
    /\ pc = "readback"
    /\ \/ remote[at] = None /\ Save(entry)
       \/ remote[at] = entry.content /\ Save(AckReplica(entry, at))
       \/ remote[at] \notin {None, entry.content} /\ Persist(CreateConflict(entry, at, remote[at], FALSE))
    /\ Go("refresh")
    /\ UNCHANGED <<remote, creates, stale, counts>>

Confirm ==
    /\ pc = "confirm"
    /\ IF at \in DeleteConfirm /\ remote[at] = None THEN Save(AckDelete(entry, at)) ELSE Save(entry)
    /\ Go("refresh")
    /\ UNCHANGED <<remote, creates, stale, counts>>

(* The source cannot be reached for the reconciliation or the read-back.   *)
Unreachable ==
    /\ pc \in {"reconcile", "readback", "confirm"} /\ MayBreak
    /\ failures' = failures + 1
    /\ Save(WithReplica(entry, at))
    /\ Go("refresh")
    /\ UNCHANGED <<remote, creates, stale, edits, remoteEdits>>

(* The end of push_entry; _push_delete leaves the status alone.            *)
Finish ==
    /\ pc = "refresh"
    /\ Save(IF deleting THEN entry ELSE Refreshed(entry, {at}))
    /\ Stop
    /\ UNCHANGED <<remote, creates, stale, counts>>

Push ==
    \/ Reconcile \/ Intent \/ CallUpdate \/ CallCreate \/ Link \/ CallDelete \/ CallMisses
    \/ Acknowledge \/ Confirm \/ Finish

(***************************************************************************)
(* The environment                                                         *)
(***************************************************************************)
RemoteEdit(s) ==
    /\ remote[s] # None /\ MayEditRemote
    /\ \E c \in (Content \cup {None}) \ {remote[s]} : remote' = [remote EXCEPT ![s] = c]
    /\ remoteEdits' = remoteEdits + 1
    /\ UNCHANGED <<entry, saved, creates, push, stale, edits, failures>>

(* When no push is under way, a deletion not yet saved may be lost.        *)
Crash ==
    /\ pc # "idle" \/ entry # saved
    /\ MayBreak /\ failures' = failures + 1
    /\ entry' = saved /\ draft' = None /\ UNCHANGED saved
    /\ Stop
    /\ UNCHANGED <<remote, creates, forgotten, edits, remoteEdits>>

Next ==
    \/ \E c \in Content : Prepare(c)
    \/ Hold \/ Commit \/ MarkDeleted \/ SaveMark \/ PutBack \/ Purge
    \/ \E s \in S : Abandon(s) \/ Pull(s) \/ PushBegin(s) \/ RemoteEdit(s)
    \/ \E s \in S, choice \in Choices, merged \in Content : Resolve(s, choice, merged)
    \/ Push \/ CallFails \/ Unreachable \/ Crash

Spec == Init /\ [][Next]_vars

(* push_all_dirty pushes the entries that list_dirty finds.  The user runs *)
(* it again and again, and a push that began is carried on.                *)
ListedDirty ==
    /\ entry # None
    /\ entry.status = "dirty" \/ (entry.tombstone # None /\ PendingSources(entry.tombstone) # {})

FairSpec == Spec /\ WF_vars(Push) /\ \A s \in S : SF_vars(ListedDirty /\ PushBegin(s))

(***************************************************************************)
(* Properties                                                              *)
(***************************************************************************)
TypeOK ==
    /\ entry \in Entry \cup {None} /\ saved \in Entry \cup {None}
    /\ remote \in [S -> Content \cup {None}] /\ creates \in [S -> Nat]
    /\ pc \in {"idle", "reconcile", "intent", "call", "link", "readback", "confirm", "refresh"}
    /\ at \in S \cup {None} /\ deleting \in BOOLEAN
    /\ draft \in Draft \cup {None} /\ forgotten \subseteq S
    /\ edits \in 0..MaxEdits /\ remoteEdits \in 0..MaxRemoteEdits /\ failures \in 0..MaxFailures

(* An entry shown as clean is, at every replica that ever acknowledged a   *)
(* version, that version, and no conflict is open: also after a crash, on  *)
(* disk, and when a push of the clean entry was cut short.  The conflicts  *)
(* are not those of the entry when a stale copy took its place.            *)
CleanMeansSynced ==
    \A e \in {entry, saved} \ {None} : e.status = "clean" =>
        \A s \in e.replicas :
            /\ e.conflict[s] = None \/ s \in forgotten
            /\ e.base[s] # None => e.base[s] = e.content /\ s \in e.acked

(* A create whose outcome is unknown is not blindly repeated: no source    *)
(* ever gets a second object, whatever fails or dies.  The exception is a  *)
(* source whose link or pending operation a stale copy of the entry took   *)
(* back: a save that was prepared before the push, since commit_entry only *)
(* compares updated_at, which a push does not change (local_store.py:217), *)
(* or the object a deletion puts back (api/routes/entries.py:339).         *)
NoDuplicateCreate == \A s \in S \ (AbsenceIsDelete \cup forgotten) : creates[s] <= 1

(* A purged entry leaves no copy at any source it was linked to, except    *)
(* those the user abandoned, those of which a stale copy took something    *)
(* back, and one that was linked after the deletion was marked, while its  *)
(* create was under way (manager.py:1205, engine.py:542).                  *)
PurgedIsGone ==
    [][entry # None /\ entry' = None =>
         \A s \in entry.linked \ forgotten : s \in entry.tombstone.abandoned \/ remote[s] = None]_vars

(* A pull replaces the content of an entry that is not deleted only when   *)
(* a source acknowledged it.                                               *)
PullKeepsEdits ==
    [][\A s \in S : Pull(s) /\ entry.tombstone = None /\ entry'.content # entry.content =>
         \E t \in S : entry.base[t] = entry.content]_vars

(* The operation of a dirty entry that was interrupted is completed by     *)
(* later runs of push_all_dirty: one that took effect is acknowledged, and *)
(* an update that did not is repeated; unless another device edits the     *)
(* object meanwhile (the user may then be asked), or the user the entry,   *)
(* or a deletion is about to put a copy of the entry back.                 *)
Told(s, c) == remote[s] = c \/ (entry.pending[s] = "update" /\ remote[s] = entry.base[s])
Reconcilable(s, c) ==
    /\ entry # None /\ entry.status = "dirty" /\ entry.content = c
    /\ entry.pending[s] # None /\ entry.conflict[s] = None
    /\ s \in entry.linked /\ remote[s] # None /\ Told(s, c)
PendingClears ==
    \A s \in S, c \in Content :
        Reconcilable(s, c) ~>
            \/ entry = None \/ entry.tombstone # None \/ entry.pending[s] = None
            \/ (draft # None /\ draft.by = "deletion")
            \/ entry.conflict[s] # None \/ entry.content # c \/ ~Told(s, c)
=============================================================================
