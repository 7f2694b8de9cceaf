--------------------------- MODULE ReviewedChanges ---------------------------
(***************************************************************************)
(* Changes that the owner reviews before they are applied: restoring a     *)
(* backup or a recovery kit, importing and undoing an import, organizing   *)
(* and merging accounts, upgrading the payload, and cleaning up backups.   *)
(*                                                                         *)
(* A preview issues a one-shot approval that names what was looked at; the *)
(* request that applies it comes later, through another worker thread,     *)
(* while the same session, other sessions and other programs edit the      *)
(* vault and the backups.  One action is one critical section or one       *)
(* replacement of a file; what lies between two of them may be overtaken.  *)
(*                                                                         *)
(* The vault file, a backup and a kit are an id (the bytes: a nonce makes  *)
(* every encryption new), a payload version and a content: per entry the   *)
(* change that wrote it last, which is what updated_at tells apart.        *)
(***************************************************************************)
EXTENDS Naturals, FiniteSets

CONSTANTS
    Tokens,         \* unlocks, each with the session it opens
    Instance,       \* the scope of approvals given before any unlock
    Requests,       \* worker threads
    Entries,        \* accounts
    Stored,         \* those the vault holds at the start
    Saves,          \* transaction ids of the entry editor
    MaxFresh,       \* bound: encryptions, copies and changes made
    MaxRequests     \* bound: requests other than those that apply a preview

ASSUME ReviewedAssumption ==
    /\ Stored \subseteq Entries /\ Instance \notin Tokens
    /\ MaxFresh \in Nat \ {0} /\ MaxRequests \in Nat

VARIABLES
    file,       \* the vault file
    backups,    \* atomic and manual copies of it, and recovery kits
    catalog,    \* pinned and external paths
    session,    \* per token: its LocalVault
    approvals,  \* previews that wait to be applied
    receipts,   \* imports that may be undone
    request,    \* per thread: what it is about to do
    fresh,      \* encryptions, copies and changes so far
    left,       \* requests that may still be made
    refused     \* history: changes whose save was refused, and deletion
                \*   marks, which are in memory before they are saved

disk == <<file, backups, catalog>>
stores == <<approvals, receipts>>
count == <<fresh, left>>
vars == <<disk, session, stores, request, count, refused>>

new == fresh + 1
Drawn == fresh < MaxFresh /\ fresh' = new

NoEntries == [e \in Entries |-> 0]
File(id, v, content) == [id |-> id, v |-> v, content |-> content]
NoFile == File(0, 0, NoEntries)
Copy(path, kind, f) == [path |-> path, kind |-> kind, f |-> f]
Idle == [at |-> "idle"]
Closed == [st |-> "none", gen |-> 0, rev |-> 0, v |-> 0, content |-> NoEntries, saved |-> {}]

(* A vault in use, with the copy of an older version beside it, or a copy  *)
(* brought to a computer that has no vault.                                *)
Init ==
    /\ \E v \in {2, 3} :
        LET f == File(2, v, [e \in Entries |-> IF e \in Stored THEN 2 ELSE 0]) IN
        \/ file = f /\ backups = {Copy(1, "local_atomic", File(1, v, [e \in Entries |-> IF e \in Stored THEN 1 ELSE 0]))}
        \/ file = NoFile /\ backups = {Copy(1, "manual", f)}
    /\ catalog = [pinned |-> {}, external |-> {}]
    /\ session = [t \in Tokens |-> Closed]
    /\ approvals = {} /\ receipts = {}
    /\ request = [r \in Requests |-> Idle]
    /\ fresh = 2 /\ left = MaxRequests /\ refused = [changes |-> {}, marks |-> {}]

(***************************************************************************)
(* Requests: Answered and Begin spend one, the rest of it runs by steps;   *)
(* what a preview or a receipt allows once costs no further one            *)
(***************************************************************************)
Open(t) == session[t].st = "open"
Free(r) == request[r].at = "idle"
At(r, at) == request[r].at = at
Work(at, t, a, es) == [at |-> at, t |-> t, a |-> a, es |-> es, path |-> 0, seen |-> catalog, then |-> "idle"]
Spend == left > 0 /\ left' = left - 1
Answered == Spend /\ UNCHANGED request
Enter(r, q) == request' = [request EXCEPT ![r] = q]
Begin(r, q) == Spend /\ Enter(r, q)
Go(r, at) == /\ request' = [request EXCEPT ![r] = IF at = "idle" THEN Idle ELSE [@ EXCEPT !.at = at]]
             /\ UNCHANGED left
Finish(r) == Go(r, "idle")

(* upgrade_payload keeps the lock of its vault from its checks to its end. *)
Busy(t) == \E r \in Requests : ~At(r, "idle") /\ request[r].t = t /\ request[r].then = "upgrade"

(***************************************************************************)
(* LocalVault: one copy of the payload per session, saved by               *)
(* compare-and-swap against the revision of the file it was read from      *)
(***************************************************************************)
Set(c, es, n) == [e \in Entries |-> IF e \in es THEN n ELSE c[e]]

(* The replaced bytes stay beside the file.                                *)
atomic_write(f) ==
    /\ file' = f
    /\ backups' = IF file = NoFile THEN backups ELSE backups \cup {Copy(new, "local_atomic", file)}
    /\ Drawn /\ UNCHANGED catalog

write_payload(t, c, saved) ==
    /\ session[t].rev = file.id
    /\ atomic_write(File(new, session[t].v, c))
    /\ session' = [session EXCEPT ![t] = [st |-> @.st, gen |-> @.gen + 1, rev |-> new, v |-> @.v,
                                          content |-> c, saved |-> @.saved \cup saved]]
    /\ UNCHANGED refused

Remember(changes, marks) ==
    refused' = [changes |-> refused.changes \cup changes, marks |-> refused.marks \cup marks]

(* The file moved on, a validator refused, or the disk did: `memory` is    *)
(* what the session holds afterwards.                                      *)
Refused(t, memory, changes) ==
    /\ Remember(changes, {})
    /\ session' = [session EXCEPT ![t].content = memory]
    /\ Drawn /\ UNCHANGED disk

(* The decorator restores the entries it copied before the call.           *)
local_mutation_Kept(t, c) == c
local_mutation(t, c) == session[t].content

(* add, update, upsert, import_entries, mark_synced, delete, purge.        *)
Mutate(t) ==
    /\ Open(t) /\ ~Busy(t) /\ Answered
    /\ \E e \in Entries, n \in {0, new} :
        LET c == Set(session[t].content, {e}, n) IN
        /\ c # session[t].content
        /\ \/ write_payload(t, c, {})
           \/ Refused(t, local_mutation(t, c), {n} \ {0})
    /\ UNCHANGED stores

(* A deletion resolves the entry and then, each time by the lock of        *)
(* replace_entry alone, saves the history on that object, marks the live   *)
(* entry and saves the object that it marked.  Version 3 has a trash, but  *)
(* the command line deletes there too, and without the history.  The       *)
(* object keeps what it said when it was resolved: what would change it in *)
(* place (update, a pull) stands here with what replaces it.               *)
delete_entry(r, t) ==
    /\ Free(r) /\ Open(t)
    /\ \E e \in Entries, at \in {"recorded"} \cup (IF session[t].v = 2 THEN {"resolved"} ELSE {}) :
        /\ session[t].content[e] # 0
        /\ Begin(r, Work(at, t, [seen |-> session[t].content[e]], {e}))
    /\ UNCHANGED <<disk, session, stores, fresh, refused>>

(* The object as it was found replaces whatever the vault holds by then.   *)
replace_entry(r) ==
    LET q == request[r]
        c == Set(session[q.t].content, q.es, q.a.seen)
    IN  /\ q.at \in {"resolved", "marked"} /\ ~Busy(q.t)
        /\ \/ write_payload(q.t, c, {}) /\ Go(r, IF q.at = "resolved" THEN "recorded" ELSE "idle")
           \/ Refused(q.t, local_mutation(q.t, c), {}) /\ Finish(r)
        /\ UNCHANGED stores

(* The live entry is marked in memory without a lock.                      *)
MarkDeleted(r) ==
    LET q == request[r] IN
    /\ At(r, "recorded")
    /\ \/ /\ \A e \in q.es : session[q.t].content[e] = 0
          /\ Finish(r) /\ UNCHANGED <<session, fresh, refused>>
       \/ /\ \A e \in q.es : session[q.t].content[e] # 0
          /\ session' = [session EXCEPT ![q.t].content = Set(@, q.es, new)]
          /\ Remember({}, {new})
          /\ request' = [request EXCEPT ![r] = [@ EXCEPT !.at = "marked", !.a = [seen |-> new]]]
          /\ Drawn /\ UNCHANGED left
    /\ UNCHANGED <<disk, stores>>

(* The editor's save: a receipt of the same transaction answers it; else a *)
(* candidate is prepared from the entry as it is now.                      *)
commit_entry_transaction(r, t) ==
    /\ Free(r) /\ Open(t)
    /\ \E e \in Entries, x \in Saves \ session[t].saved :
        Begin(r, Work("save", t, [tx |-> x, updated_at |-> session[t].content[e]], {e}))
    /\ UNCHANGED <<disk, session, stores, fresh, refused>>

commit_entry_Blind(r) ==
    /\ At(r, "save") /\ ~Busy(request[r].t)
    /\ LET q == request[r]
       IN  write_payload(q.t, Set(session[q.t].content, q.es, new), {q.a.tx})
    /\ Finish(r) /\ UNCHANGED stores
commit_entry(r) ==
    /\ At(r, "save") /\ ~Busy(request[r].t)
    /\ LET q == request[r]
           c == session[q.t].content
       IN  \/ /\ \A e \in q.es : c[e] = q.a.updated_at
              /\ write_payload(q.t, Set(c, q.es, new), {q.a.tx})
           \/ Refused(q.t, c, {new})
    /\ Finish(r) /\ UNCHANGED stores

Unlock(t) ==
    /\ session[t].st = "none" /\ file # NoFile
    /\ session' = [session EXCEPT ![t] = [st |-> "open", gen |-> 0, rev |-> file.id, v |-> file.v,
                                          content |-> file.content, saved |-> {}]]
    /\ UNCHANGED <<disk, stores, request, count, refused>>

CloseAll(ts) == session' = [t \in Tokens |-> IF t \in ts /\ Open(t) THEN [session[t] EXCEPT !.st = "closed"] ELSE session[t]]
clear_scope(ss) == approvals' = {a \in approvals : a.scope \notin ss}
clear_session(ts) == receipts' = {c \in receipts : c.t \notin ts}

Clear(ts) ==
    /\ \E t \in ts : Open(t)
    /\ CloseAll(ts) /\ clear_scope(ts) /\ clear_session(ts)
    /\ UNCHANGED <<disk, request, count, refused>>

lock(t) == Clear({t})
(* A lock or suspend of Windows; a replaced renderer does the same.        *)
system_session_state == Clear(Tokens)

(***************************************************************************)
(* Approvals                                                               *)
(***************************************************************************)
Unchanged(a, t) == session[t].content = a.content /\ session[t].gen = a.gen

Approval(kind, scope, path, shown, es) ==
    [n |-> left, kind |-> kind, scope |-> scope, path |-> path, shown |-> shown, es |-> es,
     active |-> file.id,
     content |-> IF scope = Instance THEN NoEntries ELSE session[scope].content,
     gen |-> IF scope = Instance THEN 0 ELSE session[scope].gen]

issue(a) ==
    /\ Answered /\ approvals' = approvals \cup {a}
    /\ UNCHANGED <<disk, session, receipts, fresh, refused>>

(* consume takes the approval out whatever the request does with it.       *)
consume(r, a, kind, scope, ok, q) ==
    /\ Free(r) /\ a.kind = kind /\ a.scope = scope
    /\ approvals' = approvals \ {a}
    /\ request' = [request EXCEPT ![r] = IF ok THEN q ELSE Idle]
    /\ UNCHANGED <<disk, session, receipts, count, refused>>

(* cancel, and the end of its five minutes.                                *)
Expire ==
    /\ \E a \in approvals : approvals' = approvals \ {a}
    /\ UNCHANGED <<disk, session, receipts, request, count, refused>>

(***************************************************************************)
(* Backups                                                                 *)
(***************************************************************************)
list_backups == {b \in backups : b.kind = "local_atomic" \/ (b.kind = "manual" /\ b.path \in catalog.external)}
Readable(b) == b.f.id # 0

CreateBackup(r, t) ==
    /\ Free(r) /\ Open(t)
    /\ Begin(r, Work("copy", t, [kind |-> "none"], {}))
    /\ UNCHANGED <<disk, session, stores, fresh, refused>>

create_manual_backup(r) ==
    /\ At(r, "copy") /\ file # NoFile
    /\ backups' = backups \cup {Copy(new, "manual", file)}
    /\ request' = [request EXCEPT ![r] = [@ EXCEPT !.at = "register", !.path = new, !.seen = catalog]]
    /\ Drawn /\ UNCHANGED <<file, catalog, session, stores, left, refused>>

(* The catalog is written over whatever was saved since it was read.       *)
save_backup_catalog(r) ==
    LET q == request[r] IN
    /\ \/ /\ At(r, "register") /\ catalog' = [q.seen EXCEPT !.external = @ \cup {q.path}]
          /\ Go(r, IF q.then = "upgrade" THEN "pin" ELSE q.then)
       \/ /\ At(r, "pinned") /\ catalog' = [q.seen EXCEPT !.pinned = @ \cup {q.path}]
          /\ Go(r, q.then)
       \/ /\ At(r, "unpinned") /\ catalog' = [q.seen EXCEPT !.pinned = @ \ {q.path}]
          /\ Go(r, q.then)
    /\ UNCHANGED <<file, backups, session, stores, fresh, refused>>

set_backup_pinned(r, t) ==
    /\ Free(r) /\ Open(t)
    /\ \E b \in list_backups, at \in {"pinned", "unpinned"} :
        Begin(r, [Work(at, t, [kind |-> "none"], {}) EXCEPT !.path = b.path])
    /\ UNCHANGED <<disk, session, stores, fresh, refused>>

PinUpgradeBackup(r) ==
    /\ At(r, "pin")
    /\ request' = [request EXCEPT ![r] = [@ EXCEPT !.at = "pinned", !.seen = catalog]]
    /\ UNCHANGED <<disk, session, stores, count, refused>>

Fail(r) ==
    /\ \E at \in {"copy", "register", "pin", "pinned", "unpinned"} : At(r, at)
    /\ Finish(r) /\ UNCHANGED <<disk, session, stores, fresh, refused>>

(* The newest `keep` eligible backups stay; one per day and week stays     *)
(* too, which a larger `keep` stands for.                                  *)
Eligible(bs) == {b \in bs : b.kind = "local_atomic" /\ Readable(b) /\ b.path \notin catalog.pinned}
retention_plan(keep) ==
    LET eligible == Eligible(list_backups)
    IN  {b \in eligible : Cardinality({c \in eligible : c.path > b.path}) >= keep}

PreviewCleanup(t) ==
    /\ Open(t)
    /\ \E keep \in {0, 1} : retention_plan(keep) # {} /\ issue(Approval("cleanup", t, keep, NoFile, retention_plan(keep)))

(* The approved plan, not the backups of today.                            *)
approved_plan_Anew(a) == retention_plan(a.path)
approved_plan(a) == a.es

(* What is listed now decides what is still eligible.                      *)
apply_retention_plan(r, t) ==
    /\ Open(t)
    /\ \E a \in approvals :
        consume(r, a, "cleanup", t, TRUE, Work("delete", t, a, approved_plan(a) \cap Eligible(list_backups)))

DeleteOne(r) ==
    LET q == request[r] IN
    /\ At(r, "delete")
    /\ IF q.es = {} THEN Finish(r) /\ UNCHANGED backups
       ELSE \E b \in q.es :
            /\ \A c \in q.es : b.path <= c.path
            /\ backups' = backups \ {b}
            /\ request' = [request EXCEPT ![r].es = @ \ {b}] /\ UNCHANGED left
    /\ UNCHANGED <<file, catalog, session, stores, fresh, refused>>

(* Another program damages a backup or puts another vault, here an empty   *)
(* one with the same password, at its path.                                *)
Overwrite ==
    /\ Answered /\ Drawn
    /\ \E b \in backups : \E f \in {NoFile, File(new, 2, NoEntries)} :
        backups' = (backups \ {b}) \cup {Copy(b.path, b.kind, f)}
    /\ UNCHANGED <<file, catalog, session, stores, refused>>

(***************************************************************************)
(* Restores                                                                *)
(***************************************************************************)
PreviewRestore(t) ==
    /\ Open(t)
    /\ \E b \in list_backups : Readable(b) /\ issue(Approval("backup", t, b.path, b.f, {}))

apply_restore(r, t) ==
    /\ Open(t)
    /\ \E a \in approvals :
        consume(r, a, "backup", t, Unchanged(a, t) /\ file.id = a.active, Work("restore", t, a, {}))

(* The file found at the approved path, with the approved digest.          *)
Source_Unchecked(a) == {b \in list_backups : b.path = a.path /\ Readable(b)}
Source(a) == {b \in list_backups : b.path = a.path /\ b.f.id = a.shown.id}

restore_backup(r) ==
    /\ At(r, "restore")
    /\ LET a == request[r].a IN
       \/ /\ file.id = a.active
          /\ \E b \in Source(a) : atomic_write(b.f)
          /\ Go(r, "lock")
       \/ Finish(r) /\ UNCHANGED <<disk, fresh>>
    /\ UNCHANGED <<session, stores, refused>>

(* The restored vault is opened once, which the rollback anchor may        *)
(* refuse; otherwise its session ends.                                     *)
LockRestored(r) ==
    LET t == request[r].t IN
    /\ At(r, "lock") /\ Finish(r)
    /\ \/ CloseAll({t}) /\ clear_scope({t})
       \/ UNCHANGED <<session, approvals>>
    /\ UNCHANGED <<disk, receipts, fresh, refused>>

create_recovery_kit(t) ==
    /\ Open(t) /\ Answered
    /\ backups' = backups \cup {Copy(new, "kit", File(new, session[t].v, session[t].content))}
    /\ Drawn /\ UNCHANGED <<file, catalog, session, stores, refused>>

(* Before any unlock: a kit replaces the vault, a backup only a missing    *)
(* one.                                                                    *)
PreviewInstance ==
    \E b \in backups :
        /\ Readable(b)
        /\ \/ b.kind = "kit" /\ issue(Approval("recovery_kit", Instance, b.path, b.f, {}))
           \/ file = NoFile /\ issue(Approval("startup_backup", Instance, b.path, b.f, {}))

ApplyInstance(r) ==
    \E a \in approvals :
        \/ consume(r, a, "recovery_kit", Instance, file.id = a.active, Work("recover", Instance, a, {}))
        \/ consume(r, a, "startup_backup", Instance, file = NoFile, Work("startup", Instance, a, {}))

restore_from_recovery_kit(r) ==
    /\ At(r, "recover")
    /\ LET a == request[r].a IN
       \/ /\ file.id = a.active
          /\ \E b \in backups : b.path = a.path /\ b.f.id = a.shown.id
          /\ atomic_write(File(new, a.shown.v, a.shown.content))
          /\ Go(r, "lock_all")
       \/ Finish(r) /\ UNCHANGED <<disk, fresh>>
    /\ UNCHANGED <<session, stores, refused>>

lock_all(r) ==
    /\ At(r, "lock_all") /\ Finish(r)
    /\ CloseAll(Tokens)
    /\ IF request[r].t = Instance THEN clear_scope({Instance}) ELSE UNCHANGED approvals
    /\ UNCHANGED <<disk, receipts, fresh, refused>>

(* sessions.restore opens a session, which the route locks again.          *)
restore(r) ==
    /\ At(r, "startup")
    /\ LET a == request[r].a IN
       \/ /\ file = NoFile
          /\ \E b \in backups : b.path = a.path /\ b.f.id = a.shown.id /\ atomic_write(b.f)
          /\ clear_scope({Instance})
       \/ UNCHANGED <<disk, fresh, approvals>>
    /\ Finish(r) /\ UNCHANGED <<session, receipts, refused>>

(***************************************************************************)
(* Batches: imports, organization and merges, the emptying of the trash    *)
(***************************************************************************)
(* What a file may change: entries that are new and entries that look like *)
(* one of its rows; the rows identical to an entry can only be skipped.    *)
build_preview == SUBSET Entries
preview_import(t) == Open(t) /\ \E es \in build_preview : issue(Approval("import", t, 0, NoFile, es))

(* The owner's decisions: of the previewed rows, those to create or use.   *)
prepare_apply(a) == SUBSET a.es \ {{}}
apply_import(r, t) ==
    /\ Open(t)
    /\ \E a \in approvals :
        \/ consume(r, a, "import", t, FALSE, Idle)
        \/ \E es \in prepare_apply(a) :
            consume(r, a, "import", t, Unchanged(a, t), [Work("copy", t, a, es) EXCEPT !.then = "batch"])

Present(t) == {e \in Entries : session[t].content[e] # 0}
PreviewBatch(t) ==
    /\ Open(t) /\ session[t].v = 3
    /\ \E es \in SUBSET Present(t) \ {{}} : issue(Approval("organization", t, 0, NoFile, es))

ApplyBatch(r, t) ==
    /\ Open(t)
    /\ \E a \in approvals : consume(r, a, "organization", t, a.es \subseteq Present(t), Work("batch", t, a, a.es))

purge_expired(r, t) ==
    /\ Free(r) /\ Open(t) /\ session[t].v = 3
    /\ \E e \in Present(t) : Begin(r, Work("batch", t, Approval("maintenance", t, 0, NoFile, {e}), {e}))
    /\ UNCHANGED <<disk, session, stores, fresh, refused>>

commit_import_batch(r) ==
    /\ At(r, "batch") /\ ~Busy(request[r].t)
    /\ LET q == request[r]
           c == session[q.t].content
       IN  \/ /\ Unchanged(q.a, q.t)
              /\ write_payload(q.t, Set(c, q.es, new), {})
              /\ Go(r, IF q.a.kind = "import" THEN "receipt" ELSE "idle")
           \/ Refused(q.t, c, {new}) /\ Finish(r)
    /\ UNCHANGED stores

(* The state after the import is read when the commit is over.             *)
new_receipt(r) ==
    LET q == request[r] IN
    /\ At(r, "receipt") /\ Finish(r)
    /\ receipts' = receipts \cup {[t |-> q.t, before |-> q.a.content, path |-> q.path,
                                   content |-> session[q.t].content, gen |-> session[q.t].gen]}
    /\ UNCHANGED <<disk, session, approvals, fresh, refused>>

undo_import(r, t) ==
    /\ Free(r) /\ Open(t)
    /\ \E c \in receipts : c.t = t /\ Unchanged(c, t) /\ Enter(r, Work("undo", t, c, {}))
    /\ UNCHANGED <<disk, session, stores, count, refused>>

restore_import_payload(r) ==
    /\ At(r, "undo") /\ ~Busy(request[r].t)
    /\ LET q == request[r] IN
       \/ /\ Unchanged(q.a, q.t)
          /\ \E b \in backups : /\ b.path = q.a.path /\ Readable(b) /\ b.f.v = session[q.t].v
                                /\ b.f.content = q.a.before
          /\ write_payload(q.t, q.a.before, {})
          /\ receipts' = receipts \ {q.a}
       \/ Refused(q.t, session[q.t].content, {}) /\ UNCHANGED receipts
    /\ Finish(r) /\ UNCHANGED approvals

(***************************************************************************)
(* The payload upgrade                                                     *)
(***************************************************************************)
PreviewUpgrade(t) == Open(t) /\ session[t].v = 2 /\ issue(Approval("payload_upgrade", t, 0, NoFile, {}))

apply_payload_upgrade(r, t) ==
    /\ Open(t) /\ ~Busy(t)
    /\ \E a \in approvals :
        consume(r, a, "payload_upgrade", t,
                /\ Unchanged(a, t) /\ file.id = a.active /\ session[t].v = 2
                /\ file.content = session[t].content,
                [Work("copy", t, a, {}) EXCEPT !.then = "upgrade"])

upgrade_payload(r) ==
    LET q == request[r] IN
    /\ At(r, "upgrade")
    /\ \/ /\ file.id = q.a.active
          /\ atomic_write(File(new, 3, q.a.content))
          /\ session' = [session EXCEPT ![q.t] = [st |-> @.st, gen |-> @.gen + 1, rev |-> new, v |-> 3,
                                                  content |-> @.content, saved |-> @.saved]]
          /\ Go(r, "lock_all")
       \/ Finish(r) /\ UNCHANGED <<disk, session, fresh>>
    /\ UNCHANGED <<stores, refused>>

-----------------------------------------------------------------------------
Previews ==
    \/ PreviewInstance
    \/ \E t \in Tokens : \/ PreviewCleanup(t) \/ PreviewRestore(t) \/ preview_import(t)
                         \/ PreviewBatch(t) \/ PreviewUpgrade(t)

Start(r) ==
    \/ ApplyInstance(r)
    \/ \E t \in Tokens :
        \/ commit_entry_transaction(r, t) \/ delete_entry(r, t) \/ CreateBackup(r, t) \/ set_backup_pinned(r, t)
        \/ apply_retention_plan(r, t) \/ apply_restore(r, t) \/ apply_import(r, t) \/ ApplyBatch(r, t)
        \/ purge_expired(r, t) \/ undo_import(r, t) \/ apply_payload_upgrade(r, t)

Continue(r) ==
    \/ commit_entry(r) \/ replace_entry(r) \/ MarkDeleted(r)
    \/ create_manual_backup(r) \/ save_backup_catalog(r) \/ PinUpgradeBackup(r)
    \/ Fail(r) \/ DeleteOne(r) \/ restore_backup(r) \/ LockRestored(r)
    \/ restore_from_recovery_kit(r) \/ lock_all(r) \/ restore(r) \/ commit_import_batch(r)
    \/ new_receipt(r) \/ restore_import_payload(r) \/ upgrade_payload(r)

Sessions ==
    \/ \E t \in Tokens : Unlock(t) \/ lock(t) \/ Mutate(t) \/ create_recovery_kit(t)
    \/ system_session_state

Next == Previews \/ Sessions \/ Expire \/ Overwrite \/ \E r \in Requests : Start(r) \/ Continue(r)

Spec == Init /\ [][Next]_vars

-----------------------------------------------------------------------------
(***************************************************************************)
(* Properties                                                              *)
(***************************************************************************)
Steps(r) == request'[r] # request[r]
(* `c` is what the file holds, or has marked for deletion what it holds.   *)
Knows(c) == \A e \in Entries : c[e] = file.content[e] \/ c[e] \in refused.marks
Drafted(r) ==
    /\ At(r, "save")
    /\ \A e \in request[r].es : request[r].a.updated_at \in {file.content[e]} \cup refused.marks
Reviewed(r) ==
    LET q == request[r] IN
    \/ q.at \in {"batch", "undo", "upgrade"} /\ Knows(q.a.content)
    \/ q.at \in {"restore", "recover"} /\ q.a.active = file.id
    \/ q.at = "startup" /\ file = NoFile
Deleting(r) ==
    LET q == request[r] IN
    /\ q.at \in {"resolved", "marked"} /\ Knows(session[q.t].content)
    /\ \A e \in Entries \ q.es : file'.content[e] = session[q.t].content[e]

(* No edit is lost by accident: whoever changes an entry on disk has seen  *)
(* the version that is lost - the editor's draft was made from it, the     *)
(* approval's preview showed it, or it is in the memory that a command     *)
(* works on (commit_entry, commit_import_batch, restore_import_payload,    *)
(* restore_backup, restore_from_recovery_kit, upgrade_payload).  One loss  *)
(* is left out, because the code has it: a deletion puts back the object   *)
(* that it resolved (entries.py:339) or marked (manager.py:1212), over an  *)
(* edit that its own session has committed to that entry since.            *)
EditsKept ==
    [][file' # file => \/ \E r \in Requests : Steps(r) /\ (Drafted(r) \/ Reviewed(r) \/ Deleting(r))
                       \/ \E t \in Tokens : request' = request /\ session'[t].rev = file'.id
                                            /\ Knows(session[t].content)]_vars

(* What an approval puts in place is what its preview showed: the bytes of *)
(* the backup, the content of the kit, the accounts selected, the state    *)
(* before the import - although backups, kits and the vault may be         *)
(* replaced between preview and application.                               *)
AppliedAsShown ==
    [][\A r \in Requests :
        LET q == request[r] IN
        file' # file /\ Steps(r) =>
            CASE q.at \in {"restore", "startup"} -> file' = q.a.shown
              [] q.at = "recover" -> file'.content = q.a.shown.content
              [] q.at = "undo" -> file'.content = q.a.before
              [] q.at = "upgrade" -> file'.content = file.content
              [] OTHER -> \A e \in Entries \ (IF q.at \in {"save", "resolved", "marked"} THEN q.es ELSE q.a.es) :
                              file'.content[e] \in {file.content[e]} \cup refused.marks]_vars

(* A change whose save was refused stays out: it is not in the vault, not  *)
(* in a backup and not in a kit, for the memory it was tried on was        *)
(* restored (commit_entry, commit_import_batch, _local_mutation).          *)
RefusedStaysOut ==
    \A f \in {file} \cup {b.f : b \in backups} : \A e \in Entries : f.content[e] \notin refused.changes

(* A cleanup deletes a backup only if its preview listed it with the bytes *)
(* it has now: what a restore or an edit displaced since stays             *)
(* (apply_retention_plan).                                                 *)
CleanupAsShown ==
    [][\A b \in backups :
        b.path \notin {c.path : c \in backups'} =>
            \E r \in Requests : Steps(r) /\ At(r, "delete") /\ b \in request[r].a.es]_vars
=============================================================================
