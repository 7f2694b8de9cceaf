---------------------------- MODULE PersonalSync ----------------------------
(***************************************************************************)
(* Full-vault synchronization between a person's computers                 *)
(* (src/src/vault_unified/personal_sync): every device publishes immutable *)
(* numbered change records through a shared folder or WebDAV collection,   *)
(* receives the others' in causal order and merges them field by field.    *)
(*                                                                         *)
(* A device's replication state and its entries are committed in one write *)
(* that is refused when the vault changed since the snapshot, so a run of  *)
(* engine.run is: Begin (queue and commit), one Put per outbox record,     *)
(* Finish (download, receive, commit); edits, resolutions and other        *)
(* devices come in between, and a run may stop anywhere.  What Begin does  *)
(* not commit it does not do, so nothing but `todo` and `stale` lives      *)
(* outside the committed state.                                            *)
(*                                                                         *)
(* An entry is its fields and its organization state.  Bookkeeping fields, *)
(* lists that merge by item identity, labels of devices and the encryption *)
(* of records are left out; a listing may be partial.                      *)
(***************************************************************************)
EXTENDS Integers, FiniteSets

CONSTANTS
    D,                  \* devices, ordered as their identifiers are
    O,                  \* entry identities, ordered as well
    F,                  \* fields of an entry
    V,                  \* values of a field
    States,             \* states in use: "active", "trash", and "deleted"
    None,               \* an absent entry, a whole-entry path, no member
    Holders,            \* devices whose vault has the entries before they connect
    Resolvers,          \* devices whose user resolves conflicts
    MaxEdits,           \* bound: edits of entries
    MaxResolves,        \* bound: resolutions
    MaxSeq              \* bound: records, per device

ASSUME ConstantsAssumption ==
    /\ D \subseteq Nat /\ O \subseteq Nat /\ IsFiniteSet(O)
    /\ None \notin F \cup V \cup O \cup [D -> Nat] \cup [fields : [F -> V], state : States]
    /\ "state" \notin F
    /\ "active" \in States /\ States \subseteq {"active", "trash", "deleted"}
    /\ Holders \subseteq D /\ Resolvers \subseteq D
    /\ MaxEdits \in Nat /\ MaxResolves \in Nat /\ MaxSeq \in [D -> Nat]

VARIABLES
    rep,        \* per device: its replication state in the vault
    view,       \* per device: its entries
    run,        \* per device: the synchronization in progress
    store,      \* the records in the folder or collection
    edits, resolves

vars == <<rep, view, run, store, edits, resolves>>

Value == [fields : [F -> V], state : States \ {"deleted"}]
Entries == [O -> Value \cup {None}]
Vector == [D -> Nat]
Record == [device : D, sequence : Nat, context : Vector, object : O \cup {None},
           before : Value \cup {None}, after : Value \cup {None}, resolution : BOOLEAN]
Conflict == [object : O, device : D, sequence : Nat, path : F \cup {None},
             remote : Value \cup V \cup {None}]
Zero == [d \in D |-> 0]

(* A new replica; the vaults of the holders are copies of one vault.       *)
initial ==
    [next |-> 1, seen |-> Zero, versions |-> [o \in O |-> Zero], baseline |-> [o \in O |-> None],
     outbox |-> {}, conflicts |-> {}, tombstones |-> {}, members |-> [d \in D |-> None],
     announced |-> Zero]

Idle == [step |-> "idle", stale |-> FALSE, todo |-> {}]

Init ==
    /\ rep = [d \in D |-> initial]
    /\ \E copied \in Entries :
          view = [d \in D |-> IF d \in Holders THEN copied ELSE [o \in O |-> None]]
    /\ run = [d \in D |-> Idle]
    /\ store = {} /\ edits = 0 /\ resolves = 0

covers(vector, required) == \A d \in D : vector[d] >= required[d]
ConflictsOf(r, o) == {c \in r.conflicts : c.object = o}

(***************************************************************************)
(* replica.queue: what changed since the last queue or receive becomes     *)
(* numbered records, after an announcement when there is one to make.      *)
(***************************************************************************)
Emitted(r, d, n, o, before, after, resolution) ==
    [device |-> d, sequence |-> n, context |-> [r.seen EXCEPT ![d] = n - 1],
     object |-> o, before |-> before, after |-> after, resolution |-> resolution]

Remote(r, d) == [r.seen EXCEPT ![d] = 0]
Announces(r, d) == r.next = 1 \/ ~covers(r.announced, Remote(r, d))

Unsent_Newest(r, emitted) == emitted   \* mutant: what could not be sent yet is dropped
Unsent(r, emitted) == r.outbox \cup emitted

Changed(r, objects, resolved) == {o \in O : r.baseline[o] # objects[o]} \cup resolved
FirstChange(r, d) == IF Announces(r, d) THEN r.next + 1 ELSE r.next
Number(r, d, changed, o) == FirstChange(r, d) + Cardinality({p \in changed : p < o})

Announcement(r, d) ==
    {Emitted(r, d, n, None, None, None, FALSE) : n \in r.next..FirstChange(r, d) - 1}
Changes(r, d, objects, resolved) ==
    LET changed == Changed(r, objects, resolved)
    IN {Emitted(r, d, Number(r, d, changed, o), o, r.baseline[o], objects[o], o \in resolved) : o \in changed}

queue(r, d, objects, resolved) ==
    LET changed == Changed(r, objects, resolved)
    IN [next |-> FirstChange(r, d) + Cardinality(changed),
        seen |-> r.seen,
        versions |-> [o \in O |-> IF o \notin changed THEN r.versions[o]
                                  ELSE [r.versions[o] EXCEPT ![d] = Number(r, d, changed, o)]],
        baseline |-> objects,
        outbox |-> Unsent(r, Announcement(r, d) \cup Changes(r, d, objects, resolved)),
        conflicts |-> r.conflicts, tombstones |-> r.tombstones, members |-> r.members,
        announced |-> IF Announces(r, d) THEN Remote(r, d) ELSE r.announced]

(***************************************************************************)
(* merge.reconcile: the value and the paths in conflict.                   *)
(***************************************************************************)
StateOf(value) == IF value = None THEN "deleted" ELSE value.state
FieldOf(value, f) == IF value = None THEN None ELSE value.fields[f]

(* A trashed or deleted side makes the whole entry the conflict.           *)
Deletion(current, incoming) ==
    LET states == {StateOf(current), StateOf(incoming)}
    IN \/ current = None \/ incoming = None
       \/ states \cap {"trash", "deleted"} # {} /\ Cardinality(states) > 1

Conflicting_Never(base, ours, theirs) == FALSE   \* mutant: our value stays and nothing is kept of theirs
Conflicting(base, ours, theirs) == ours # theirs /\ theirs # base /\ ours # base
Merged_TheirsWins(base, ours, theirs) == IF theirs = base THEN ours ELSE theirs   \* mutant: the other side wins
Merged(base, ours, theirs) == IF ours = base THEN theirs ELSE ours

Untouched(before, current) == current = before
reconcile(before, current, incoming) ==
    IF current = incoming \/ incoming = before THEN [value |-> current, paths |-> {}]
    ELSE IF Untouched(before, current) THEN [value |-> incoming, paths |-> {}]
    ELSE IF Deletion(current, incoming) THEN [value |-> current, paths |-> {None}]
    ELSE LET in(f) == <<FieldOf(before, f), current.fields[f], incoming.fields[f]>>
         IN [value |-> [current EXCEPT !.fields = [f \in F |-> Merged(in(f)[1], in(f)[2], in(f)[3])]],
             paths |-> {f \in F : Conflicting(in(f)[1], in(f)[2], in(f)[3])}]

(***************************************************************************)
(* replica.receive                                                         *)
(***************************************************************************)
(* A record is taken up after its predecessor and everything its author    *)
(* had seen.                                                               *)
Ready(r, record) ==
    record.sequence = r.seen[record.device] + 1 /\ covers(r.seen, record.context)

Refused(r, d, record) ==
    \/ record.sequence = 1 /\ record.object # None
    \/ record.device = d /\ record \notin r.outbox
    \/ record.object # None /\ r.members[record.device] = None

(* A resolution clears the conflicts that its author had seen, only.       *)
Cleared_ByEdits(r, record) ==   \* mutant: any later change of the entry clears them
    {c \in r.conflicts : c.object # record.object \/ record.context[c.device] < c.sequence}
Cleared(r, record) ==
    {c \in r.conflicts : \/ ~record.resolution \/ c.object # record.object
                         \/ record.context[c.device] < c.sequence}

(* The entry after a record of another device, and the paths in conflict.  *)
Revives_Never(r, record, current) == FALSE   \* mutant: a deletion is not retained
Revives(r, record, current) ==
    current = None /\ record.after # None /\ record.object \in r.tombstones

Incoming(r, record, current) ==
    LET causal == covers(record.context, r.versions[record.object])
    IN IF causal /\ (record.resolution \/ ConflictsOf(r, record.object) = {})
         THEN [value |-> record.after, paths |-> {}]
       ELSE IF Revives(r, record, current) THEN [value |-> None, paths |-> {None}]
       ELSE reconcile(record.before, current, record.after)

(* What is acknowledged of an author is the context of its record.         *)
Ack_Receiver(r, record) == [r.seen EXCEPT ![record.device] = record.sequence]   \* mutant: what we saw instead
Ack(r, record) == [record.context EXCEPT ![record.device] = record.sequence]

Found(record, paths) ==
    {[object |-> record.object, device |-> record.device, sequence |-> record.sequence, path |-> p,
      remote |-> IF p = None THEN record.after ELSE record.after.fields[p]] : p \in paths}

(* The replica after a record whose value met conflicts at these paths.    *)
Took(r, record, paths) ==
    LET o == record.object
        e == record.device
        later == [r.versions[o] EXCEPT ![e] = IF @ > record.sequence THEN @ ELSE record.sequence]
    IN [next |-> r.next, baseline |-> r.baseline, announced |-> r.announced,
        seen |-> [r.seen EXCEPT ![e] = record.sequence],
        members |-> [r.members EXCEPT ![e] = Ack(r, record)],
        outbox |-> r.outbox \ {record},
        conflicts |-> Cleared(r, record) \cup Found(record, paths),
        versions |-> IF o = None THEN r.versions ELSE [r.versions EXCEPT ![o] = later],
        tombstones |-> IF o # None /\ record.after = None THEN r.tombstones \cup {o} ELSE r.tombstones]

(* One record, applied to [rep, view, last, error] of device d.  It leaves *)
(* the entries alone when it is the device's own, or an announcement.      *)
Applied(s, d, record) ==
    LET o == record.object
        merged == Incoming(s.rep, record, s.view[o])
    IN IF Refused(s.rep, d, record)
         THEN [rep |-> s.rep, view |-> s.view, last |-> s.last, error |-> TRUE]
       ELSE IF o = None \/ record.device = d
         THEN [rep |-> Took(s.rep, record, {}), view |-> s.view, last |-> {record}, error |-> FALSE]
       ELSE [rep |-> Took(s.rep, record, merged.paths), view |-> [s.view EXCEPT ![o] = merged.value],
             last |-> {record}, error |-> FALSE]

(* The records are gone through by name, again and again until none is     *)
(* ready.                                                                  *)
Named(x, y) == x.device < y.device \/ (x.device = y.device /\ x.sequence < y.sequence)
First(records) == CHOOSE x \in records : \A y \in records : x = y \/ Named(x, y)
Following(s, ready) ==
    LET later == {x \in ready : \A y \in s.last : Named(y, x)}
    IN First(IF later = {} THEN ready ELSE later)
TakeNext(s, d, records) ==
    LET ready == {x \in records : Ready(s.rep, x)}
    IN IF s.error \/ ready = {} THEN s ELSE Applied(s, d, Following(s, ready))

Working(state, objects) == [rep |-> state, view |-> objects, last |-> {}, error |-> FALSE]
receive(d, state, objects, records) ==
    LET taken[n \in Nat] == IF n = 0 THEN Working(state, objects) ELSE TakeNext(taken[n - 1], d, records)
        result == taken[Cardinality(records)]
    IN [rep |-> [result.rep EXCEPT !.baseline = result.view], view |-> result.view, error |-> result.error]

(* What a listing may show of the records not seen yet.  Nothing is taken  *)
(* up after a gap, so of each author it is the records up to some number.  *)
download(d) ==
    {{r \in store : rep[d].seen[r.device] < r.sequence /\ r.sequence <= upTo[r.device]} :
        upTo \in [D -> {0} \cup {r.sequence : r \in store}]}

(***************************************************************************)
(* Connections.preview and apply: one computer starts the history, the     *)
(* others join it with all of what the storage lists, or not at all.       *)
(***************************************************************************)
Connected(d) == rep[d].next > 1

Create(d) ==
    /\ \A e \in D : ~Connected(e)
    /\ rep' = [rep EXCEPT ![d] = queue(rep[d], d, view[d], {})]
    /\ UNCHANGED <<view, run, store, edits, resolves>>

Join(d) ==
    /\ ~Connected(d)
    /\ \E records \in download(d) :
          LET result == receive(d, queue(rep[d], d, view[d], {}), view[d], records)
          IN /\ records # {} /\ ~result.error
             /\ \A r \in records : r.sequence <= result.rep.seen[r.device]
             /\ rep' = [rep EXCEPT ![d] = result.rep]
             /\ view' = [view EXCEPT ![d] = result.view]
    /\ UNCHANGED <<run, store, edits, resolves>>

(***************************************************************************)
(* engine.run                                                              *)
(***************************************************************************)
Stale(d) == [run EXCEPT ![d].stale = @ \/ run[d].step # "idle"]

Begin(d) ==
    /\ Connected(d) /\ run[d].step = "idle"
    /\ rep' = [rep EXCEPT ![d] = queue(rep[d], d, view[d], {})]
    /\ rep'[d].next <= MaxSeq[d] + 1
    /\ run' = [run EXCEPT ![d] = [step |-> "put", stale |-> FALSE, todo |-> rep'[d].outbox]]
    /\ UNCHANGED <<view, store, edits, resolves>>

(* put never replaces a record, and accepts one that is already there.     *)
Put(d) ==
    /\ run[d].step = "put" /\ run[d].todo # {}
    /\ \E r \in run[d].todo :
          /\ \A other \in run[d].todo : r.sequence <= other.sequence
          /\ IF \E held \in store : held.device = d /\ held.sequence = r.sequence /\ held # r
               THEN run' = [run EXCEPT ![d] = Idle] /\ UNCHANGED store
             ELSE run' = [run EXCEPT ![d].todo = @ \ {r}] /\ store' = store \cup {r}
    /\ UNCHANGED <<rep, view, edits, resolves>>

Finish(d) ==
    /\ run[d].step = "put" /\ run[d].todo = {}
    /\ \E records \in download(d) :
          LET result == receive(d, rep[d], view[d], records)
          IN IF result.error \/ run[d].stale THEN UNCHANGED <<rep, view>>
             ELSE rep' = [rep EXCEPT ![d] = result.rep] /\ view' = [view EXCEPT ![d] = result.view]
    /\ run' = [run EXCEPT ![d] = Idle]
    /\ UNCHANGED <<store, edits, resolves>>

(* A request fails, the vault is locked or the process dies.               *)
Interrupted(d) ==
    /\ run[d].step # "idle"
    /\ run' = [run EXCEPT ![d] = Idle]
    /\ UNCHANGED <<rep, view, store, edits, resolves>>

(***************************************************************************)
(* The user                                                                *)
(***************************************************************************)
(* A new entry has a new identity; an entry that was purged stays purged.  *)
Edit(d, o, value) ==
    /\ edits < MaxEdits /\ view[d][o] # None /\ value # view[d][o]
    /\ value = None => "deleted" \in States
    /\ view' = [view EXCEPT ![d][o] = value]
    /\ run' = Stale(d)
    /\ edits' = edits + 1
    /\ UNCHANGED <<rep, store, resolves>>

(* choose: the remote side of a conflict, at its path; of some conflicts,  *)
(* one after the other in any order.                                       *)
Chosen(value, c) == IF c.path = None THEN c.remote ELSE [value EXCEPT !.fields[c.path] = c.remote]
Choices(value, theirs) ==
    LET n == Cardinality(theirs)
    IN {result \in Value \cup {None} :
          \E order \in [1..n -> theirs], chosen \in [0..n -> Value \cup {None}] :
              /\ {order[i] : i \in 1..n} = theirs
              /\ chosen[0] = value /\ chosen[n] = result
              /\ \A i \in 1..n : /\ order[i].path = None \/ chosen[i - 1] # None
                                 /\ chosen[i] = Chosen(chosen[i - 1], order[i])}

(* engine.resolve of every conflict of an entry, the remote side for some. *)
Resolve(d, o, theirs) ==
    /\ d \in Resolvers /\ resolves < MaxResolves /\ ConflictsOf(rep[d], o) # {}
    /\ \E value \in Choices(view[d][o], theirs) :
          view' = [view EXCEPT ![d] = [@ EXCEPT ![o] = value]]
    /\ rep' = [rep EXCEPT ![d] = [queue(rep[d], d, view'[d], {o}) EXCEPT !.conflicts = @ \ ConflictsOf(rep[d], o)]]
    /\ rep'[d].next <= MaxSeq[d] + 1
    /\ run' = Stale(d)
    /\ resolves' = resolves + 1
    /\ UNCHANGED <<store, edits>>

Next ==
    \E d \in D :
        \/ Create(d) \/ Join(d) \/ Begin(d) \/ Put(d) \/ Finish(d) \/ Interrupted(d)
        \/ \E o \in O : \/ \E value \in Value \cup {None} : Edit(d, o, value)
                        \/ \E theirs \in SUBSET ConflictsOf(rep[d], o) : Resolve(d, o, theirs)

Spec == Init /\ [][Next]_vars

(***************************************************************************)
(* Properties                                                              *)
(***************************************************************************)
Replica == [next : Nat \ {0}, seen : Vector, versions : [O -> Vector], baseline : Entries,
            outbox : SUBSET Record, conflicts : SUBSET Conflict, tombstones : SUBSET O,
            members : [D -> Vector \cup {None}], announced : Vector]
TypeOK ==
    /\ \A d \in D :
          /\ rep[d] \in Replica
          /\ run[d].step \in {"idle", "put"} /\ run[d].stale \in BOOLEAN
          /\ run[d].todo \subseteq rep[d].outbox
    /\ view \in [D -> Entries]
    /\ \A r \in store : r \in Record
    /\ edits \in 0..MaxEdits /\ resolves \in 0..MaxResolves

(* Whatever order records arrive in, a device that took one up has taken   *)
(* up everything its author had seen.                                      *)
CausallyClosed ==
    \A d \in D : \A r \in store :
        r.sequence <= rep[d].seen[r.device] => covers(rep[d].seen, r.context)

(* No numbered change is lost between the vault and the storage, whatever  *)
(* is interrupted: until it is there it stays in the outbox.               *)
NothingLost ==
    \A d \in D : \A n \in 1..rep[d].next - 1 :
        \E r \in store \cup rep[d].outbox : r.device = d /\ r.sequence = n

(* A device never believes that another one has seen more than it has: a   *)
(* deletion is not taken as acknowledged too early.                        *)
AckTruthful ==
    \A d, e \in D : rep[d].members[e] # None =>
        \A x \in D : rep[d].members[e][x] <= IF x = e THEN rep[e].next - 1 ELSE rep[e].seen[x]

Aspect(value, a) == IF a = "state" THEN StateOf(value) ELSE FieldOf(value, a)

(* When every device has everything and no conflict is open, they agree.   *)
Quiet ==
    /\ \A d \in D : rep[d].baseline = view[d] /\ rep[d].outbox = {} /\ rep[d].conflicts = {}
    /\ \A d \in D, r \in store : r.sequence <= rep[d].seen[r.device]
BroughtBack(o, a) ==
    \E r, later \in store :
        /\ r.object = o /\ later.object = o /\ r.device = later.device /\ r.sequence < later.sequence
        /\ Aspect(r.before, a) # Aspect(r.after, a) /\ Aspect(later.after, a) = Aspect(r.before, a)
Converged ==
    Quiet => \A d, e \in D, o \in O, a \in F \cup {"state"} :
        Aspect(view[d][o], a) = Aspect(view[e][o], a) \/ BroughtBack(o, a)

Taken(d) == {r \in store : r.sequence \in rep[d].seen[r.device] + 1..rep'[d].seen[r.device]}

(* An entry whose deletion a device has taken up from the storage comes    *)
(* back there only by its user's hand or by a change whose author knew of  *)
(* that deletion, however old the changes that arrive are.                 *)
Deletions(d, o) ==
    {r \in store : r.object = o /\ r.after = None /\ r.sequence <= rep[d].seen[r.device]}
NoRevival ==
    [][\A d \in D, o \in O :
         rep'[d].seen # rep[d].seen /\ view[d][o] = None /\ view'[d][o] # None =>
            \A gone \in Deletions(d, o) : \E r \in Taken(d) :
                r.object = o /\ r.after # None /\ r.context[gone.device] >= gone.sequence]_vars

(* A synchronization replaces the value of a field, or the state, only for *)
(* a device that knew that value: it replaced it, or had seen every change *)
(* that this device made to it.                                            *)
Writes(d, o, a) ==
    {r \in store \cup rep[d].outbox : /\ r.device = d /\ r.object = o
                                      /\ Aspect(r.before, a) # Aspect(r.after, a)}
EditsNotOverwritten ==
    [][\A d \in D, o \in O, a \in F \cup {"state"} :
         (/\ rep'[d].seen # rep[d].seen
          /\ view[d][o] # None /\ Aspect(view'[d][o], a) # Aspect(view[d][o], a)) =>
            \E r \in Taken(d) :
                /\ r.object = o
                /\ \/ Aspect(r.before, a) = Aspect(view[d][o], a)
                   \/ \A w \in Writes(d, o, a) : r.context[d] >= w.sequence]_vars

(* A conflict goes away only by the choice of somebody who had it or had   *)
(* seen the change it is about.                                            *)
ConflictsStay ==
    [][\A d \in D : rep'[d].seen # rep[d].seen => \A c \in rep[d].conflicts \ rep'[d].conflicts :
         \E r \in Taken(d) : r.object = c.object /\ r.resolution /\ r.context[c.device] >= c.sequence]_vars
=============================================================================
