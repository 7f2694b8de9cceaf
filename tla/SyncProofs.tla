------------------------------ MODULE SyncProofs ------------------------------
(***************************************************************************)
(* The saga for any number of sources, contents, edits, failures and       *)
(* crashes.  First the engine: what "clean" promises of an entry, and that *)
(* a create whose outcome is unknown is not repeated.  Both follow from    *)
(* what is true of each of the two copies of the entry, the one in memory  *)
(* and the one in the vault file, whichever operator of the ledger made    *)
(* it.  Then the saga driven from the command line or through previews:    *)
(* what is proved of the engine still holds of it, for a preview and its   *)
(* execution only add failed listings to the engine's steps; and an        *)
(* execution replaces nothing at a source that the user was not shown.     *)
(*                                                                         *)
(* What a request prepares without the vault lock is among the steps.  It  *)
(* may take something of the ledger back; `forgotten` names the sources of *)
(* which it did, and nothing else is exempt.                               *)
(***************************************************************************)
EXTENDS SyncPreview, TLAPS

(* A source whose listing never lets the engine forget a link, and whose   *)
(* create makes a second object when it is repeated.                       *)
Lasting == S \ (AbsenceIsDelete \cup IdempotentCreate)

(* A copy of the entry, with `made` objects created at each source so far  *)
(* and each source holding `held` now.  Nothing is said of the sources     *)
(* `lost`, of which a stale copy took something back.                      *)
Founded(e, made, held, lost) ==
    /\ e \in Entry
    /\ \A s \in S : e.pending[s] = "delete" => e.tombstone # None
    /\ \A s \in e.acked : e.base[s] = e.content
    /\ \A s \in S : e.base[s] # None => s \in e.replicas
    /\ \A s \in Lasting : s \in lost \/ made[s] = 0 \/ s \in e.linked \/ e.pending[s] = "create"
    /\ \A s \in S : e.conflict[s] # None /\ e.conflict[s].deleted =>
          s \in AbsenceIsDelete /\ (s \in lost \/ held[s] = None)
    /\ e.tombstone # None =>
          /\ e.linked \subseteq e.tombstone.required \cup lost
          /\ \A s \in e.tombstone.acknowledged : s \in lost \/ held[s] = None

Settled(e, lost) ==
    /\ e.status = "clean" =>
          /\ \A s \in S : e.conflict[s] = None \/ s \in lost
          /\ \A s \in e.replicas : e.base[s] # None => s \in e.acked
          /\ \E s \in S : e.base[s] = e.content
    /\ e.status = "deleted" => e.tombstone # None

(* A conflict is about an object that is linked.                           *)
Knows(e, lost) == \A s \in S : e.conflict[s] # None => s \in e.linked \cup lost

Sound(e, made, held, lost) == Founded(e, made, held, lost) /\ Settled(e, lost) /\ Knows(e, lost)

(***************************************************************************)
(* The ledger's operators                                                  *)
(***************************************************************************)
LEMMA ReplicaMade ==
  ASSUME NEW e, NEW made, NEW held, NEW lost, NEW s \in S, Founded(e, made, held, lost)
  PROVE  /\ Founded(WithReplica(e, s), made, held, lost)
         /\ Settled(e, lost) => Settled(WithReplica(e, s), lost)
         /\ WithReplica(e, s).linked = e.linked /\ WithReplica(e, s).tombstone = e.tombstone
         /\ WithReplica(e, s).pending = e.pending /\ WithReplica(e, s).content = e.content
         /\ WithReplica(e, s).conflict = e.conflict
         /\ Knows(e, lost) => Knows(WithReplica(e, s), lost)
  BY DEF Founded, Settled, Knows, WithReplica, Entry

(* What the source holds is recorded as what the entry says.               *)
LEMMA Recorded ==
  ASSUME NEW e, NEW made, NEW held, NEW lost, NEW s \in S, Founded(e, made, held, lost), NEW c, c = e.content
  PROVE  /\ Founded(RecordBase(e, s, c), made, held, lost)
         /\ Settled(e, lost) => Settled(RecordBase(e, s, c), lost)
         /\ RecordBase(e, s, c).linked = e.linked /\ RecordBase(e, s, c).tombstone = e.tombstone
         /\ RecordBase(e, s, c).pending = e.pending /\ RecordBase(e, s, c).content = e.content
         /\ RecordBase(e, s, c).conflict = e.conflict /\ RecordBase(e, s, c).status = e.status
         /\ Knows(e, lost) => Knows(RecordBase(e, s, c), lost)
<1> DEFINE d == WithReplica(e, s)
<1>0. Founded(d, made, held, lost) /\ (Settled(e, lost) => Settled(d, lost))
  BY ReplicaMade
<1>1. /\ s \in d.replicas /\ d.linked = e.linked /\ d.tombstone = e.tombstone /\ d.pending = e.pending
      /\ d.content = e.content /\ d.conflict = e.conflict /\ d.status = e.status
  BY DEF WithReplica, Founded, Entry
<1>2. RecordBase(e, s, c) = [d EXCEPT !.base = [d.base EXCEPT ![s] = c], !.acked = d.acked \cup {s}]
  BY <1>0 DEF RecordBase, Founded, Entry
<1>3. c \in Content /\ d \in Entry
  BY <1>0 DEF Founded, Entry
<1> HIDE DEF d
<1> DEFINE f == [d EXCEPT !.base = [d.base EXCEPT ![s] = c], !.acked = d.acked \cup {s}]
<1>4. /\ f \in Entry /\ f.linked = d.linked /\ f.tombstone = d.tombstone /\ f.pending = d.pending
      /\ f.content = d.content /\ f.conflict = d.conflict /\ f.status = d.status
      /\ f.replicas = d.replicas /\ f.acked = d.acked \cup {s} /\ f.base = [d.base EXCEPT ![s] = c]
      /\ \A t \in S : f.base[t] = IF t = s THEN c ELSE d.base[t]
  BY <1>3 DEF Entry
<1> HIDE DEF f
<1>5. Founded(f, made, held, lost)
  BY <1>0, <1>1, <1>4 DEF Founded, Entry
<1>6. Settled(d, lost) => Settled(f, lost)
  BY <1>1, <1>4 DEF Settled, Founded, Entry
<1>7. Knows(e, lost) => Knows(f, lost)
  BY <1>1, <1>4 DEF Knows
<1> QED BY <1>0, <1>1, <1>2, <1>4, <1>5, <1>6, <1>7 DEF f

(* A pending create is only forgotten for a source that is linked.         *)
LEMMA PendingCleared ==
  ASSUME NEW e, NEW made, NEW held, NEW lost, NEW s \in S, Founded(e, made, held, lost), s \in e.linked \/ e.pending[s] # "create"
  PROVE  /\ Founded([e EXCEPT !.pending = [e.pending EXCEPT ![s] = None]], made, held, lost)
         /\ Knows(e, lost) => Knows([e EXCEPT !.pending = [e.pending EXCEPT ![s] = None]], lost)
<1> DEFINE f == [e EXCEPT !.pending = [e.pending EXCEPT ![s] = None]]
<1>1. f \in Entry /\ \A r \in S : f.pending[r] = IF r = s THEN None ELSE e.pending[r]
  BY DEF Founded, Entry
<1>2. /\ f.acked = e.acked /\ f.base = e.base /\ f.conflict = e.conflict /\ f.tombstone = e.tombstone
      /\ f.content = e.content /\ f.replicas = e.replicas /\ f.linked = e.linked
  BY DEF Founded, Entry
<1>3. None # "delete" /\ Lasting \subseteq S
  BY EntryAssumption DEF Kinds, Lasting
<1> HIDE DEF f
<1>4. Founded(f, made, held, lost)
  BY <1>1, <1>2, <1>3 DEF Founded
<1>5. Knows(e, lost) => Knows(f, lost)
  BY <1>2 DEF Knows
<1> QED BY <1>4, <1>5 DEF f

LEMMA Acknowledged ==
  ASSUME NEW e, NEW made, NEW held, NEW lost, NEW s \in S, Sound(e, made, held, lost), s \in e.linked
  PROVE  /\ Sound(AckReplica(e, s), made, held, lost) /\ AckReplica(e, s).linked = e.linked
         /\ AckReplica(e, s).tombstone = e.tombstone /\ AckReplica(e, s).conflict = e.conflict
         /\ \A r \in S : AckReplica(e, s).pending[r] \in {e.pending[r], None}
<1> DEFINE d == RecordBase(e, s, e.content)
<1>1. /\ Founded(d, made, held, lost) /\ Settled(d, lost) /\ Knows(d, lost) /\ d.linked = e.linked
      /\ d.tombstone = e.tombstone /\ d.conflict = e.conflict /\ d.pending = e.pending
  BY Recorded DEF Sound
<1>2. AckReplica(e, s) = [d EXCEPT !.pending = [d.pending EXCEPT ![s] = None]]
  BY <1>1 DEF AckReplica, Founded, Entry
<1> HIDE DEF d
<1>3. /\ Founded([d EXCEPT !.pending = [d.pending EXCEPT ![s] = None]], made, held, lost)
      /\ Knows([d EXCEPT !.pending = [d.pending EXCEPT ![s] = None]], lost)
  BY <1>1, PendingCleared
<1>4. Settled([d EXCEPT !.pending = [d.pending EXCEPT ![s] = None]], lost)
  BY <1>1 DEF Settled, Founded, Entry
<1>5. /\ [d EXCEPT !.pending = [d.pending EXCEPT ![s] = None]].linked = e.linked
      /\ [d EXCEPT !.pending = [d.pending EXCEPT ![s] = None]].tombstone = e.tombstone
      /\ [d EXCEPT !.pending = [d.pending EXCEPT ![s] = None]].conflict = e.conflict
      /\ \A r \in S : [d EXCEPT !.pending = [d.pending EXCEPT ![s] = None]].pending[r] \in {e.pending[r], None}
  BY <1>1 DEF Founded, Entry
<1> QED BY <1>2, <1>3, <1>4, <1>5 DEF Sound

(* Whatever the status was, it is worked out anew.                         *)
LEMMA StatusRefreshed ==
  ASSUME NEW e, NEW made, NEW held, NEW lost, Founded(e, made, held, lost), Knows(e, lost), NEW required \in SUBSET S
  PROVE  /\ Sound(Refreshed(e, required), made, held, lost)
         /\ Refreshed(e, required).linked = e.linked /\ Refreshed(e, required).tombstone = e.tombstone
         /\ Refreshed(e, required).conflict = e.conflict
<1>1. PICK status \in {"clean", "dirty", "conflict", "deleted"} :
        /\ Refreshed(e, required) = [e EXCEPT !.status = status]
        /\ status = "clean" => /\ \A s \in S : e.conflict[s] = None
                               /\ e.replicas \subseteq e.acked /\ e.replicas # {}
        /\ status = "deleted" => e.tombstone # None
  BY DEF Refreshed, Founded, Entry
<1>2. /\ Founded([e EXCEPT !.status = status], made, held, lost) /\ Settled([e EXCEPT !.status = status], lost)
      /\ Knows([e EXCEPT !.status = status], lost)
  BY <1>1 DEF Founded, Settled, Knows, Entry
<1> QED BY <1>1, <1>2 DEF Sound, Founded, Entry

LEMMA ConflictCreated ==
  ASSUME NEW e, NEW made, NEW held, NEW lost, NEW s \in S, Founded(e, made, held, lost), NEW c \in Content, NEW deleted \in BOOLEAN,
         Knows(e, lost), s \in e.linked, deleted => s \in AbsenceIsDelete /\ held[s] = None
  PROVE  /\ Sound(CreateConflict(e, s, c, deleted), made, held, lost)
         /\ CreateConflict(e, s, c, deleted).linked = e.linked
         /\ CreateConflict(e, s, c, deleted).tombstone = e.tombstone
         /\ CreateConflict(e, s, c, deleted).pending = e.pending
<1> DEFINE r == [content |-> c, deleted |-> deleted]
           f == [e EXCEPT !.conflict = [e.conflict EXCEPT ![s] = r], !.status = "conflict"]
<1>1. CreateConflict(e, s, c, deleted) = f
  BY DEF CreateConflict, Founded, Entry
<1>2. r \in Conflict /\ r.deleted = deleted
  BY DEF Conflict
<1> HIDE DEF r
<1>3. f \in Entry /\ f.status = "conflict" /\ \A t \in S : f.conflict[t] = IF t = s THEN r ELSE e.conflict[t]
  BY <1>2 DEF Founded, Entry
<1>4. /\ f.pending = e.pending /\ f.tombstone = e.tombstone /\ f.acked = e.acked /\ f.base = e.base
      /\ f.content = e.content /\ f.replicas = e.replicas /\ f.linked = e.linked
  BY DEF Founded, Entry
<1> HIDE DEF f
<1>5. Founded(f, made, held, lost) /\ Settled(f, lost) /\ Knows(f, lost)
  BY <1>2, <1>3, <1>4 DEF Founded, Settled, Knows
<1> QED BY <1>1, <1>4, <1>5 DEF Sound

LEMMA ConflictRemoved ==
  ASSUME NEW e, NEW made, NEW held, NEW lost, NEW s \in S, Founded(e, made, held, lost)
  PROVE  /\ Founded(RemoveConflict(e, s), made, held, lost) /\ RemoveConflict(e, s).linked = e.linked
         /\ RemoveConflict(e, s).content = e.content
         /\ (\A r \in S \ {s} : e.conflict[r] # None => r \in e.linked \cup lost)
               => Knows(RemoveConflict(e, s), lost)
<1> DEFINE f == [e EXCEPT !.conflict = [e.conflict EXCEPT ![s] = None]]
<1>1. RemoveConflict(e, s) = f
  BY DEF RemoveConflict, Founded, Entry
<1>2. f \in Entry /\ \A t \in S : f.conflict[t] = IF t = s THEN None ELSE e.conflict[t]
  BY DEF Founded, Entry
<1>3. /\ f.pending = e.pending /\ f.tombstone = e.tombstone /\ f.acked = e.acked /\ f.base = e.base
      /\ f.content = e.content /\ f.replicas = e.replicas /\ f.linked = e.linked
  BY DEF Founded, Entry
<1> HIDE DEF f
<1> QED BY <1>1, <1>2, <1>3 DEF Founded, Knows

LEMMA RemoteAccepted ==
  ASSUME NEW e, NEW made, NEW held, NEW lost, NEW s \in S, Founded(e, made, held, lost), Knows(e, lost), s \in e.linked, NEW c \in Content
  PROVE  Founded(AcceptRemote(e, s, c), made, held, lost) /\ Knows(AcceptRemote(e, s, c), lost) /\ AcceptRemote(e, s, c).content = c
<1> DEFINE d == [e EXCEPT !.content = c, !.acked = {}, !.linked = e.linked \cup {s}]
<1>a. /\ d \in Entry /\ d.content = c /\ d.acked = {} /\ d.linked = e.linked
      /\ d.pending = e.pending /\ d.tombstone = e.tombstone /\ d.base = e.base
      /\ d.replicas = e.replicas /\ d.conflict = e.conflict
  BY DEF Founded, Entry
<1>1. Founded(d, made, held, lost) /\ Knows(d, lost) /\ d.content = c
  BY <1>a DEF Founded, Knows
<1>2. AcceptRemote(e, s, c) = RemoveConflict(RecordBase(d, s, c), s)
  BY DEF AcceptRemote
<1> HIDE DEF d
<1>3. /\ Founded(RecordBase(d, s, c), made, held, lost) /\ Knows(RecordBase(d, s, c), lost)
      /\ RecordBase(d, s, c).content = c
  BY <1>1, Recorded
<1> QED BY <1>2, <1>3, ConflictRemoved DEF Knows

LEMMA TombstoneMade ==
  ASSUME NEW required \in SUBSET S, NEW acknowledged
  PROVE  \E t \in Tombstone : /\ t = NewTombstone(required, acknowledged) /\ t # None
                             /\ t.required = required /\ t.acknowledged \subseteq acknowledged
<1> DEFINE t == NewTombstone(required, acknowledged)
<1>1. /\ t \in [required : SUBSET S, acknowledged : SUBSET S, abandoned : SUBSET S]
      /\ t.required = required /\ t.acknowledged = acknowledged \cap required /\ t.abandoned = {}
  BY DEF NewTombstone
<1> HIDE DEF t
<1>2. t \in Tombstone
  BY <1>1 DEF Tombstone
<1> QED BY <1>1, <1>2, EntryAssumption DEF t

(* Saying nothing of more sources.                                         *)
LEMMA MoreLost ==
  ASSUME NEW e, NEW made, NEW held, NEW lost, NEW more, lost \subseteq more, Sound(e, made, held, lost)
  PROVE  Sound(e, made, held, more)
  BY DEF Sound, Founded, Settled, Knows

(* What a source holds may change, as long as nothing comes back.          *)
LEMMA SourceMoved ==
  ASSUME NEW e, NEW made, NEW held, NEW lost, NEW now, Sound(e, made, held, lost),
         \A s \in S : held[s] = None => now[s] = None
  PROVE  Sound(e, made, now, lost)
<1>1. e.tombstone # None => e.tombstone.acknowledged \subseteq S
  BY DEF Sound, Founded, Entry, Tombstone
<1> QED BY <1>1 DEF Sound, Founded

LEMMA DeletionAcknowledged ==
  ASSUME NEW e, NEW made, NEW held, NEW lost, NEW s \in S, Sound(e, made, held, lost), e.tombstone # None,
         s \in e.linked \/ e.pending[s] = "delete", held[s] = None
  PROVE  /\ Sound(AckDelete(e, s), made, held, lost) /\ AckDelete(e, s).linked = e.linked
         /\ AckDelete(e, s).tombstone # None /\ AckDelete(e, s).conflict = e.conflict
<1>1. e.tombstone \in Tombstone
  BY DEF Sound, Founded, Entry
<1> DEFINE t == [e.tombstone EXCEPT
                   !.acknowledged = IF s \in e.tombstone.required THEN e.tombstone.acknowledged \cup {s}
                                                                 ELSE e.tombstone.acknowledged,
                   !.abandoned = IF s \in e.tombstone.required THEN e.tombstone.abandoned \ {s}
                                                              ELSE e.tombstone.abandoned]
           f == [e EXCEPT !.pending = [e.pending EXCEPT ![s] = None], !.status = "deleted", !.tombstone = t]
<1>2. AckDelete(e, s) = f
  BY <1>1 DEF AckDelete, Sound, Founded, Entry, Tombstone
<1>a. /\ e.tombstone \in [required : SUBSET S, acknowledged : SUBSET S, abandoned : SUBSET S]
      /\ e.tombstone.acknowledged \cup e.tombstone.abandoned \subseteq e.tombstone.required
      /\ e.tombstone.acknowledged \cap e.tombstone.abandoned = {}
  BY <1>1 DEF Tombstone
<1>b. /\ t \in [required : SUBSET S, acknowledged : SUBSET S, abandoned : SUBSET S]
      /\ t.required = e.tombstone.required
      /\ t.acknowledged = IF s \in e.tombstone.required THEN e.tombstone.acknowledged \cup {s}
                                                         ELSE e.tombstone.acknowledged
      /\ t.abandoned = IF s \in e.tombstone.required THEN e.tombstone.abandoned \ {s}
                                                      ELSE e.tombstone.abandoned
  BY <1>a
<1> HIDE DEF t
<1>3. t \in Tombstone /\ t # None
  BY <1>a, <1>b, EntryAssumption DEF Tombstone
<1> DEFINE g == [e EXCEPT !.pending = [e.pending EXCEPT ![s] = None]]
<1>B. Founded(e, made, held, lost) /\ Knows(e, lost) /\ (s \in e.linked \/ e.pending[s] # "create")
  BY DEF Sound
<1>C. Founded(g, made, held, lost) /\ Knows(g, lost)
  BY <1>B, PendingCleared
<1>4. Founded(g, made, held, lost) /\ Knows(g, lost) /\ g.linked = e.linked /\ g.tombstone = e.tombstone
      /\ g.conflict = e.conflict
  BY <1>B, <1>C DEF Founded, Entry
<1>5. f = [g EXCEPT !.status = "deleted", !.tombstone = t]
  BY DEF Sound, Founded, Entry
<1> HIDE DEF f, g
<1>D. t.required = e.tombstone.required /\ t.acknowledged \subseteq e.tombstone.acknowledged \cup {s}
  BY <1>b
<1>6. /\ Founded(f, made, held, lost) /\ Settled(f, lost) /\ Knows(f, lost) /\ f.linked = g.linked /\ f.tombstone # None
      /\ f.conflict = g.conflict
  BY <1>3, <1>4, <1>5, <1>D DEF Founded, Settled, Knows, Entry
<1> QED BY <1>2, <1>4, <1>6 DEF Sound

(* A pull from s, without and with an object there.                        *)
LEMMA Pulled ==
  ASSUME NEW e, NEW made, NEW held, NEW lost, NEW s \in S, Founded(e, made, held, lost), Knows(e, lost), s \in e.linked,
         NEW c \in Content
  PROVE  Founded(Merged(e, s, c), made, held, lost) /\ Knows(Merged(e, s, c), lost)
<1> DEFINE Fine(d) == Founded(d, made, held, lost) /\ Knows(d, lost)
<1>1. Fine(AcceptRemote(e, s, c))
  BY RemoteAccepted
<1>2. Fine(CreateConflict(e, s, c, FALSE))
  BY ConflictCreated DEF Sound
<1>3. ASSUME NEW d, Fine(d) PROVE Fine(RemoveConflict(d, s))
  BY <1>3, ConflictRemoved DEF Knows
<1>4. e.content = c => Fine(RemoveConflict(RecordBase(e, s, c), s))
  BY <1>3, Recorded
<1>5. e.base[s] # None /\ e.content = e.base[s] =>
        Fine(RemoveConflict([e EXCEPT !.acked = e.acked \cup {s}], s))
  <2> SUFFICES ASSUME e.base[s] # None, e.content = e.base[s]
               PROVE  Fine([e EXCEPT !.acked = e.acked \cup {s}])
    BY <1>3
  <2> QED BY DEF Founded, Knows, Entry
<1>6. \/ Merged(e, s, c) \in {AcceptRemote(e, s, c), CreateConflict(e, s, c, FALSE), e}
      \/ e.content = c /\ Merged(e, s, c) = RemoveConflict(RecordBase(e, s, c), s)
      \/ e.base[s] # None /\ e.content = e.base[s]
           /\ Merged(e, s, c) = RemoveConflict([e EXCEPT !.acked = e.acked \cup {s}], s)
  BY DEF Merged
<1> QED BY <1>1, <1>2, <1>4, <1>5, <1>6

LEMMA AbsenceObserved ==
  ASSUME NEW e, NEW made, NEW held, NEW lost, NEW s \in S, Sound(e, made, held, lost), held[s] = None
  PROVE  Sound(Absent(e, s), made, held, lost)
<1>1. CASE s \in AbsenceIsDelete /\ s \in e.linked /\ e.base[s] # None /\ Absent(e, s) = CreateConflict(e, s, e.base[s], TRUE)
  <2>1. e.base[s] \in Content
    BY <1>1 DEF Sound, Founded, Entry
  <2> QED BY <1>1, <2>1, ConflictCreated DEF Sound
<1>2. CASE Absent(e, s) = e
  BY <1>2
<1>3. CASE Absent(e, s) = [e EXCEPT !.tombstone = NewTombstone(e.linked, {s}), !.status = "deleted"]
  <2>1. e.linked \in SUBSET S
    BY DEF Sound, Founded, Entry
  <2>2. PICK t \in Tombstone : /\ t # None /\ t = NewTombstone(e.linked, {s})
                               /\ t.required = e.linked /\ t.acknowledged \subseteq {s}
    BY <2>1, TombstoneMade
  <2>3. Sound([e EXCEPT !.tombstone = t, !.status = "deleted"], made, held, lost)
    BY <2>2 DEF Sound, Founded, Settled, Knows, Entry
  <2> QED BY <1>3, <2>2, <2>3
<1> QED BY <1>1, <1>2, <1>3 DEF Absent

(* A resolution, whatever the user chooses.                                *)
LEMMA Resolved ==
  ASSUME NEW e, NEW made, NEW held, NEW lost, Founded(e, made, held, lost), Knows(e, lost), entry = e,
         NEW s \in S, e.conflict[s] # None, NEW choice, NEW merged \in Content
  PROVE  /\ Founded(Resolution(s, choice, merged), made, held, lost)
         /\ Resolution(s, choice, merged).conflict = e.conflict
         /\ e.linked \ {s} \subseteq Resolution(s, choice, merged).linked
<1> DEFINE record == e.conflict[s]
           chosen == IF choice = "local" THEN e.content ELSE IF choice = "remote" THEN record.content ELSE merged
           unlinked == IF record.deleted
                         THEN [e EXCEPT !.linked = e.linked \ {s}, !.pending = [e.pending EXCEPT ![s] = None]]
                         ELSE e
           resolved == [unlinked EXCEPT !.content = chosen, !.acked = {}]
<1>1. record \in Conflict /\ chosen \in Content
  BY DEF Founded, Entry, Conflict
<1>2. record.deleted => s \notin Lasting
  BY DEF Founded, Lasting
<1>3. /\ Founded(unlinked, made, held, lost) /\ unlinked.conflict = e.conflict
      /\ e.linked \ {s} \subseteq unlinked.linked /\ (~record.deleted => unlinked.linked = e.linked)
      /\ unlinked.tombstone = e.tombstone
  BY <1>2, EntryAssumption DEF Founded, Entry, Kinds, Lasting
<1>4. CASE choice = "remote" /\ record.deleted
  <2>1. PICK t \in Tombstone : /\ t # None /\ t = NewTombstone(e.linked, {s})
                               /\ t.required = e.linked /\ t.acknowledged \subseteq {s}
    BY TombstoneMade DEF Founded, Entry
  <2>2. s \in lost \/ held[s] = None
    BY <1>4 DEF Founded
  <2>3. /\ Founded([e EXCEPT !.tombstone = t], made, held, lost)
        /\ [e EXCEPT !.tombstone = t].conflict = e.conflict /\ [e EXCEPT !.tombstone = t].linked = e.linked
    BY <2>1, <2>2 DEF Founded, Entry
  <2> QED BY <1>4, <2>1, <2>3 DEF Resolution
<1> HIDE DEF unlinked
<1>5. /\ Founded(resolved, made, held, lost) /\ resolved.content = chosen
      /\ resolved.conflict = e.conflict /\ resolved.linked = unlinked.linked
  BY <1>1, <1>3 DEF Founded, Entry
<1> HIDE DEF resolved, chosen
<1>6. CASE choice = "remote" /\ ~record.deleted
  <2> DEFINE d == RecordBase(resolved, s, chosen)
  <2>1. Founded(d, made, held, lost) /\ d.conflict = e.conflict /\ d.linked = e.linked
    BY <1>3, <1>5, <1>6, Recorded
  <2>2. Resolution(s, choice, merged) =
          [d EXCEPT !.pending = [d.pending EXCEPT ![s] = None], !.linked = d.linked \cup {s}]
    BY <1>6, <2>1 DEF Resolution, resolved, chosen, unlinked, Founded, Entry
  <2> HIDE DEF d
  <2> DEFINE h == [d EXCEPT !.linked = d.linked \cup {s}]
  <2>3. /\ Founded(h, made, held, lost) /\ h.pending = d.pending /\ s \in h.linked
        /\ h.conflict = e.conflict /\ e.linked \subseteq h.linked
    BY <2>1 DEF Founded, Knows, Entry
  <2>4. Resolution(s, choice, merged) = [h EXCEPT !.pending = [h.pending EXCEPT ![s] = None]]
    BY <2>1, <2>2, <2>3 DEF Founded, Entry
  <2> HIDE DEF h
  <2>5. Founded([h EXCEPT !.pending = [h.pending EXCEPT ![s] = None]], made, held, lost)
    BY <2>3, PendingCleared
  <2>6. /\ [h EXCEPT !.pending = [h.pending EXCEPT ![s] = None]].conflict = h.conflict
        /\ [h EXCEPT !.pending = [h.pending EXCEPT ![s] = None]].linked = h.linked
    BY <2>3 DEF Founded, Entry
  <2> QED BY <2>3, <2>4, <2>5, <2>6
<1>7. CASE choice # "remote"
  <2>1. Resolution(s, choice, merged) = resolved
    BY <1>7 DEF Resolution, resolved, chosen, unlinked
  <2> QED BY <1>3, <1>5, <2>1
<1> QED BY <1>4, <1>6, <1>7

(* A deletion is marked.                                                   *)
LEMMA DeletionMarked ==
  ASSUME NEW e, NEW made, NEW held, NEW lost, Sound(e, made, held, lost)
  PROVE  /\ Sound(Marked(e), made, held, lost) /\ Marked(e).tombstone # None
         /\ Marked(e).linked = e.linked /\ Marked(e).pending = e.pending /\ Marked(e).conflict = e.conflict
         /\ e.tombstone = None => Marked(e).tombstone.acknowledged = {}
         /\ e.tombstone # None => Marked(e).tombstone = e.tombstone
<1>1. e \in Entry
  BY DEF Sound, Founded
<1>2. PICK t \in Tombstone :
        /\ t # None /\ t = IF e.tombstone = None THEN NewTombstone(e.linked, {}) ELSE e.tombstone
        /\ e.linked \subseteq t.required \cup lost /\ \A s \in t.acknowledged : s \in lost \/ held[s] = None
        /\ e.tombstone = None => t.acknowledged = {}
  <2>1. CASE e.tombstone = None
    <3>1. e.linked \in SUBSET S
      BY <1>1 DEF Entry
    <3>2. \A none : none = {} => \E t \in Tombstone :
            t = NewTombstone(e.linked, none) /\ t # None /\ t.required = e.linked /\ t.acknowledged \subseteq none
      BY <3>1, TombstoneMade
    <3> QED BY <2>1, <3>2
  <2>2. CASE e.tombstone # None
    BY <1>1, <2>2 DEF Sound, Founded, Entry
  <2> QED BY <2>1, <2>2
<1> DEFINE f == [e EXCEPT !.tombstone = t, !.acked = {}, !.status = "deleted"]
<1>3. Marked(e) = f
  BY <1>1, <1>2 DEF Marked, Entry
<1>4. /\ Founded(f, made, held, lost) /\ Settled(f, lost) /\ Knows(f, lost)
      /\ f.tombstone = t /\ f.linked = e.linked /\ f.pending = e.pending /\ f.conflict = e.conflict
  BY <1>1, <1>2 DEF Sound, Founded, Settled, Knows, Entry
<1> HIDE DEF f
<1> QED BY <1>2, <1>3, <1>4 DEF Sound

(* The conflicts of one copy of the entry on another.                      *)
LEMMA ConflictsCarried ==
  ASSUME NEW e, NEW f, NEW made, NEW held, NEW lost, Sound(e, made, held, lost), Sound(f, made, held, lost),
         \A s \in S : f.conflict[s] = e.conflict[s] \/ s \in lost
  PROVE  /\ Sound([e EXCEPT !.conflict = f.conflict], made, held, lost)
         /\ [e EXCEPT !.conflict = f.conflict].conflict = f.conflict
         /\ [e EXCEPT !.conflict = f.conflict].pending = e.pending
         /\ [e EXCEPT !.conflict = f.conflict].linked = e.linked
         /\ [e EXCEPT !.conflict = f.conflict].tombstone = e.tombstone
<1> DEFINE g == [e EXCEPT !.conflict = f.conflict]
<1>1. /\ g \in Entry /\ g.conflict = f.conflict /\ g.pending = e.pending /\ g.linked = e.linked
      /\ g.tombstone = e.tombstone /\ g.acked = e.acked /\ g.base = e.base /\ g.content = e.content
      /\ g.replicas = e.replicas /\ g.status = e.status
  BY DEF Sound, Founded, Entry
<1> HIDE DEF g
<1>2. Founded(g, made, held, lost)
  BY <1>1 DEF Sound, Founded
<1>3. Settled(g, lost) /\ Knows(g, lost)
  BY <1>1 DEF Sound, Founded, Settled, Knows
<1> QED BY <1>1, <1>2, <1>3 DEF Sound, g

(***************************************************************************)
(* The inductive invariant                                                 *)
(***************************************************************************)
EntryInv == \A e \in {entry, saved} : e # None => Sound(e, creates, remote, forgotten)

Counted ==
    /\ remote \in [S -> Content \cup {None}] /\ creates \in [S -> Nat]
    /\ edits \in 0..MaxEdits /\ remoteEdits \in 0..MaxRemoteEdits /\ failures \in 0..MaxFailures
    /\ forgotten \subseteq S
    /\ \A s \in S \ (AbsenceIsDelete \cup forgotten) : creates[s] <= 1

(* The vault file is behind the memory only by a mark of deletion and by   *)
(* the time of an acknowledgement.                                         *)
Filed ==
    entry # None =>
        /\ saved # None /\ saved.pending = entry.pending /\ saved.linked = entry.linked
        /\ entry.tombstone = None => saved.tombstone = None
        /\ \A s \in S : saved.conflict[s] = entry.conflict[s] \/ s \in forgotten

(* What a request of the user holds was once the entry, wherever the       *)
(* entry has been sent since.                                              *)
Never == [s \in S |-> 0]
Nowhere == [s \in S |-> None]
Copied ==
    draft # None =>
        /\ entry # None /\ draft \in Draft /\ draft.entry.tombstone = None
        /\ Sound(draft.entry, Never, Nowhere, forgotten)

(* No source has deleted the entry or is asked to.                         *)
Undeleted(e) ==
    /\ \A s \in S : e.pending[s] # "delete"
    /\ e.tombstone # None => e.tombstone.acknowledged = {}

(* The push in progress has an entry, deletes only where the entry is      *)
(* linked, and is about to create only where nothing was created and the   *)
(* vault file already says so.                                             *)
PushInv ==
    /\ pc \in {"idle", "reconcile", "intent", "call", "link", "readback", "confirm", "refresh"}
    /\ at \in S \cup {None} /\ deleting \in BOOLEAN
    /\ pc # "idle" => at \in S /\ entry # None
    /\ pc # "idle" /\ deleting => entry.tombstone # None /\ at \in entry.linked
    /\ pc # "idle" /\ ~deleting => Undeleted(entry) /\ Undeleted(saved)
    /\ pc = "readback" => at \in entry.linked
    /\ pc = "confirm" => deleting
    /\ pc = "intent" /\ at \in Lasting \ forgotten /\ at \notin entry.linked =>
          creates[at] = 0 /\ entry.pending[at] = None
    /\ pc = "call" /\ at \in Lasting \ forgotten /\ at \notin entry.linked =>
          creates[at] = 0 /\ entry.pending[at] = "create"

Inv == EntryInv /\ Counted /\ Filed /\ Copied /\ PushInv

CountsOK ==
    edits \in 0..MaxEdits /\ remoteEdits \in 0..MaxRemoteEdits /\ failures \in 0..MaxFailures

LEMMA InitInv == Init => Inv
<1> SUFFICES ASSUME Init PROVE Inv
  OBVIOUS
<1>1. PICK c \in Content, shared \in SUBSET S :
        /\ entry = [content |-> c, status |-> IF shared = {} THEN "dirty" ELSE "clean",
                    linked |-> shared, replicas |-> shared,
                    base |-> [s \in S |-> IF s \in shared THEN c ELSE None], acked |-> shared,
                    pending |-> [s \in S |-> None], tombstone |-> None,
                    conflict |-> [s \in S |-> None]]
        /\ remote = [s \in S |-> IF s \in shared THEN c ELSE None]
  BY DEF Init
<1>2. entry \in Entry
  BY <1>1 DEF Entry
<1>3. creates = [s \in S |-> 0] /\ saved = entry /\ forgotten = {} /\ draft = None
  BY DEF Init
<1>4. Founded(entry, creates, remote, forgotten)
  BY <1>1, <1>2, <1>3, EntryAssumption DEF Founded, Kinds, Lasting
<1>5. Settled(entry, forgotten) /\ Knows(entry, forgotten)
  BY <1>1 DEF Settled, Knows
<1>6. Counted
  BY <1>1, <1>3, ConstantsAssumption DEF Init, Counted
<1>7. PushInv /\ Copied
  BY <1>3 DEF Init, PushInv, Copied
<1>8. Filed
  BY <1>2, <1>3, EntryAssumption DEF Filed
<1> QED BY <1>3, <1>4, <1>5, <1>6, <1>7, <1>8 DEF Inv, EntryInv, Sound

(* A request that waits is untouched by, or dropped in, every other step.  *)
LEMMA StillCopied ==
  ASSUME Copied, draft' \in {draft, None}, draft' # None => entry' # None, forgotten \subseteq forgotten'
  PROVE  Copied'
<1>1. Never' = Never /\ Nowhere' = Nowhere
  BY DEF Never, Nowhere
<1>2. CASE draft' = None
  BY <1>2 DEF Copied
<1>3. CASE draft # None /\ draft' = draft
  BY <1>1, <1>3, MoreLost DEF Copied
<1> QED BY <1>2, <1>3

(* A step that saves e, whatever it is a step of.                          *)
LEMMA Written ==
  ASSUME Inv, NEW e, forgotten \subseteq forgotten', forgotten' \subseteq S,
         Sound(e, creates, remote, forgotten'),
         (Save(e) /\ e.conflict = entry.conflict /\ entry # None) \/ Persist(e),
         UNCHANGED <<remote, creates>>, draft' \in {draft, None}, CountsOK'
  PROVE  /\ EntryInv' /\ Counted' /\ Filed' /\ Copied' /\ entry' = e /\ entry' # None
         /\ saved'.pending = e.pending /\ saved'.tombstone = e.tombstone
<1>1. e # None /\ entry' = e
  BY EntryAssumption DEF Sound, Founded, Save, Persist
<1>2. /\ Sound(saved', creates, remote, forgotten') /\ saved'.pending = e.pending /\ saved'.linked = e.linked
      /\ saved'.tombstone = e.tombstone
      /\ \A s \in S : saved'.conflict[s] = e.conflict[s] \/ s \in forgotten'
  <2>1. CASE Persist(e)
    BY <2>1 DEF Persist
  <2>2. CASE Save(e) /\ e.conflict = entry.conflict /\ entry # None
    <3>1. PICK f : /\ f = saved /\ Sound(f, creates, remote, forgotten)
                   /\ saved' = [e EXCEPT !.conflict = f.conflict]
                   /\ \A s \in S : f.conflict[s] = e.conflict[s] \/ s \in forgotten
      BY <2>2 DEF Save, Inv, Filed, EntryInv
    <3>2. Sound(f, creates, remote, forgotten') /\ \A s \in S : f.conflict[s] = e.conflict[s] \/ s \in forgotten'
      BY <3>1, MoreLost
    <3> QED BY <3>1, <3>2, ConflictsCarried
  <2> QED BY <2>1, <2>2
<1>3. EntryInv'
  BY <1>1, <1>2 DEF EntryInv
<1>4. Counted'
  BY DEF Inv, Counted, CountsOK
<1>5. Filed'
  BY <1>1, <1>2, EntryAssumption DEF Filed, Sound, Founded
<1>6. Copied'
  BY <1>1, StillCopied DEF Inv
<1> QED BY <1>1, <1>2, <1>3, <1>4, <1>5, <1>6

(* A step that saves e and sends nothing.                                  *)
LEMMA Stored ==
  ASSUME Inv, NEW e, Sound(e, creates, remote, forgotten),
         (Save(e) /\ e.conflict = entry.conflict /\ entry # None) \/ Persist(e),
         UNCHANGED <<remote, creates, forgotten>>, draft' \in {draft, None}, CountsOK',
         at' \in S \cup {None}, deleting' \in BOOLEAN,
         pc' \in {"idle", "reconcile", "readback", "refresh"}, pc' # "idle" => at' \in S,
         pc' # "idle" /\ deleting' => e.tombstone # None /\ at' \in e.linked,
         pc' # "idle" /\ ~deleting' => Undeleted(e),
         pc' = "readback" => at' \in e.linked
  PROVE  Inv' /\ entry' # None
<1>1. forgotten' \subseteq S /\ forgotten \subseteq forgotten' /\ Sound(e, creates, remote, forgotten')
  BY DEF Inv, Counted
<1>2. /\ EntryInv' /\ Counted' /\ Filed' /\ Copied' /\ entry' = e /\ entry' # None
      /\ saved'.pending = e.pending /\ saved'.tombstone = e.tombstone
  BY <1>1, Written
<1>3. PushInv'
  BY <1>2 DEF PushInv, Undeleted
<1> QED BY <1>2, <1>3 DEF Inv

(***************************************************************************)
(* The user and the pull                                                   *)
(***************************************************************************)
(* A copy of the entry as it is, with the conflicts of the vault file.     *)
LEMMA CopyTaken ==
  ASSUME Inv, entry # None, NEW e, e = [entry EXCEPT !.conflict = saved.conflict]
  PROVE  e \in Entry /\ Sound(e, Never, Nowhere, forgotten) /\ e.tombstone = entry.tombstone
<1>1. /\ Sound(entry, creates, remote, forgotten) /\ Sound(saved, creates, remote, forgotten)
      /\ \A s \in S : saved.conflict[s] = entry.conflict[s] \/ s \in forgotten
  BY DEF Inv, EntryInv, Filed
<1>2. Sound(e, creates, remote, forgotten) /\ e.tombstone = entry.tombstone
  BY <1>1, ConflictsCarried
<1>3. e.tombstone # None => e.tombstone.acknowledged \subseteq S
  BY <1>2 DEF Sound, Founded, Entry, Tombstone
<1> QED BY <1>2, <1>3 DEF Sound, Founded, Never, Nowhere, Lasting

LEMMA PrepareStep ==
  ASSUME Inv, NEW c \in Content, Prepare(c) PROVE Inv'
<1>1. PICK e : e = [entry EXCEPT !.conflict = saved.conflict] /\ draft' = [entry |-> Edited(e, c), by |-> "save"]
  BY DEF Prepare
<1>2. /\ entry # None /\ entry.tombstone = None
      /\ UNCHANGED <<entry, saved, remote, creates, pc, at, deleting, forgotten, remoteEdits, failures>>
      /\ edits' = edits + 1 /\ edits < MaxEdits
  BY DEF Prepare, MayEdit, push
<1>3. e \in Entry /\ Sound(e, Never, Nowhere, forgotten) /\ e.tombstone = None
  BY <1>1, <1>2, CopyTaken
<1>4. Edited(e, c) \in Entry /\ Sound(Edited(e, c), Never, Nowhere, forgotten) /\ Edited(e, c).tombstone = None
  BY <1>3 DEF Edited, Sound, Founded, Settled, Knows, Entry
<1>5. Copied'
  BY <1>1, <1>2, <1>4 DEF Copied, Draft, Never, Nowhere
<1>6. EntryInv' /\ Filed' /\ PushInv'
  BY <1>2 DEF Inv, EntryInv, Filed, PushInv
<1>7. Counted'
  BY <1>2, ConstantsAssumption DEF Inv, Counted
<1> QED BY <1>5, <1>6, <1>7 DEF Inv

LEMMA HoldStep ==
  ASSUME Inv, Hold PROVE Inv'
<1>1. PICK e : e = [entry EXCEPT !.conflict = saved.conflict] /\ draft' = [entry |-> e, by |-> "deletion"]
  BY DEF Hold
<1>2. /\ entry # None /\ entry.tombstone = None
      /\ UNCHANGED <<entry, saved, remote, creates, pc, at, deleting, forgotten, remoteEdits, failures>>
      /\ edits' = edits + 1 /\ edits < MaxEdits
  BY DEF Hold, MayEdit, push
<1>3. e \in Entry /\ Sound(e, Never, Nowhere, forgotten) /\ e.tombstone = None
  BY <1>1, <1>2, CopyTaken
<1>5. Copied'
  BY <1>1, <1>2, <1>3 DEF Copied, Draft, Never, Nowhere
<1>6. EntryInv' /\ Filed' /\ PushInv'
  BY <1>2 DEF Inv, EntryInv, Filed, PushInv
<1>7. Counted'
  BY <1>2, ConstantsAssumption DEF Inv, Counted
<1> QED BY <1>5, <1>6, <1>7 DEF Inv

(* A stale copy is sound again when nothing is said of the sources of      *)
(* which it takes something back.                                          *)
LEMMA ReplaceStep ==
  ASSUME Inv, pc = "idle", entry # None, NEW e, Replace(e), Sound(e, Never, Nowhere, forgotten),
         e.tombstone # None => e.tombstone.acknowledged = {}
  PROVE  Inv' /\ entry' # None
<1>1. /\ entry' = [e EXCEPT !.conflict = entry.conflict] /\ saved' = e /\ draft' = None
      /\ forgotten' = forgotten \cup TakenBack(e)
      /\ UNCHANGED <<remote, creates, pc, at, deleting, edits, remoteEdits, failures>>
  BY DEF Replace, push, counts
<1>2. Sound(entry, creates, remote, forgotten)
  BY DEF Inv, EntryInv
<1>3. Sound(entry, creates, remote, forgotten')
  BY <1>1, <1>2, MoreLost
<1>4. \A s \in S \ forgotten' : /\ s \in entry.linked => s \in e.linked
                                /\ entry.pending[s] # None => e.pending[s] = entry.pending[s]
                                /\ e.conflict[s] = entry.conflict[s]
  BY <1>1 DEF TakenBack
<1>5. Sound(e, creates, remote, forgotten')
  <2>1. Sound(e, Never, Nowhere, forgotten')
    BY <1>1, MoreLost
  <2>2. \A s \in Lasting : s \in forgotten' \/ creates[s] = 0 \/ s \in e.linked \/ e.pending[s] = "create"
    <3>1. \A s \in Lasting : /\ s \in S
                             /\ s \in forgotten' \/ creates[s] = 0 \/ s \in entry.linked \/ entry.pending[s] = "create"
      BY <1>3 DEF Sound, Founded, Lasting
    <3>2. "create" # None
      BY EntryAssumption DEF Kinds
    <3> QED BY <1>4, <3>1, <3>2
  <2>3. \A s \in S : e.conflict[s] # None /\ e.conflict[s].deleted =>
                       s \in AbsenceIsDelete /\ (s \in forgotten' \/ remote[s] = None)
    BY <1>3, <1>4, <2>1 DEF Sound, Founded
  <2> QED BY <2>1, <2>2, <2>3 DEF Sound, Founded
<1>6. /\ Sound(entry', creates, remote, forgotten') /\ entry'.conflict = entry.conflict
      /\ entry'.pending = e.pending /\ entry'.linked = e.linked /\ entry'.tombstone = e.tombstone
  BY <1>1, <1>3, <1>4, <1>5, ConflictsCarried
<1>7. entry' # None /\ saved' # None
  BY <1>1, <1>5, <1>6, EntryAssumption DEF Sound, Founded
<1>8. EntryInv' /\ Filed'
  BY <1>1, <1>4, <1>5, <1>6, <1>7 DEF EntryInv, Filed
<1>9. Counted' /\ Copied' /\ PushInv'
  BY <1>1, <1>7 DEF Inv, Counted, Copied, PushInv, TakenBack
<1> QED BY <1>7, <1>8, <1>9 DEF Inv

LEMMA CommitStep ==
  ASSUME Inv, Commit PROVE Inv' /\ entry' # None
  BY ReplaceStep DEF Commit, Inv, Copied

LEMMA PutBackStep ==
  ASSUME Inv, PutBack PROVE Inv' /\ entry' # None
<1>1. PICK e \in {draft.entry, Marked(draft.entry)} : Replace(e)
  BY DEF PutBack
<1>2. Sound(draft.entry, Never, Nowhere, forgotten) /\ draft.entry.tombstone = None /\ entry # None /\ pc = "idle"
  BY DEF PutBack, Inv, Copied
<1>3. PICK d : /\ d = draft.entry /\ d.tombstone = None
               /\ Sound(d, Never, Nowhere, forgotten) /\ Sound(Marked(d), Never, Nowhere, forgotten)
               /\ Marked(d).tombstone.acknowledged = {}
  BY <1>2, DeletionMarked
<1>4. Sound(e, Never, Nowhere, forgotten) /\ (e.tombstone # None => e.tombstone.acknowledged = {})
  BY <1>1, <1>3
<1> QED BY <1>1, <1>2, <1>4, ReplaceStep

LEMMA MarkStep ==
  ASSUME Inv, MarkDeleted PROVE Inv' /\ entry' # None
<1>1. /\ entry # None /\ entry' = Marked(entry) /\ draft' \in {draft, None}
      /\ UNCHANGED <<saved, remote, creates, pc, at, deleting, forgotten, edits, remoteEdits, failures>>
  BY DEF MarkDeleted, Redated, push, counts
<1>2. Sound(entry, creates, remote, forgotten) /\ saved # None
  BY <1>1 DEF Inv, EntryInv, Filed
<1>3. /\ Sound(entry', creates, remote, forgotten) /\ entry'.tombstone # None
      /\ entry'.linked = entry.linked /\ entry'.pending = entry.pending /\ entry'.conflict = entry.conflict
      /\ entry.tombstone = None => entry'.tombstone.acknowledged = {}
      /\ entry.tombstone # None => entry'.tombstone = entry.tombstone
  BY <1>1, <1>2, DeletionMarked
<1>4. entry' # None
  BY <1>3, EntryAssumption DEF Sound, Founded
<1>5. EntryInv' /\ Counted'
  BY <1>1, <1>3 DEF Inv, EntryInv, Counted
<1>6. Filed'
  BY <1>1, <1>2, <1>3 DEF Inv, Filed
<1>7. Copied'
  BY <1>1, <1>4, StillCopied DEF Inv
<1>8. PushInv'
  BY <1>1, <1>3, <1>4 DEF Inv, PushInv, Undeleted
<1> QED BY <1>4, <1>5, <1>6, <1>7, <1>8 DEF Inv

LEMMA SaveMarkStep ==
  ASSUME Inv, SaveMark PROVE Inv' /\ entry' # None
<1>1. /\ Save(entry) /\ entry # None /\ pc = "idle" /\ Sound(entry, creates, remote, forgotten)
      /\ UNCHANGED <<remote, creates, pc, at, deleting, draft, forgotten, edits, remoteEdits, failures>>
  BY DEF SaveMark, push, stale, counts, Inv, EntryInv
<1>2. CountsOK' /\ at \in S \cup {None} /\ deleting \in BOOLEAN
  BY <1>1 DEF Inv, Counted, CountsOK, PushInv
<1> QED BY <1>1, <1>2, Stored

LEMMA AbandonStep ==
  ASSUME Inv, NEW s \in S, Abandon(s) PROVE Inv' /\ entry' # None
<1>1. Sound(entry, creates, remote, forgotten) /\ entry \in Entry /\ entry.tombstone # None /\ entry # None
  BY DEF Abandon, Inv, EntryInv, Sound, Founded
<1>2. entry.tombstone \in Tombstone
  BY <1>1 DEF Entry
<1> DEFINE t == [entry.tombstone EXCEPT !.abandoned = entry.tombstone.abandoned \cup {s}]
           e == [entry EXCEPT !.tombstone = t]
<1>3. t \in Tombstone /\ t # None
  BY <1>2, EntryAssumption DEF Abandon, Abandonable, Tombstone
<1>4. Save(e) /\ UNCHANGED <<remote, creates, draft, forgotten, pc, at, deleting>> /\ pc = "idle" /\ CountsOK'
  BY <1>1, <1>2 DEF Abandon, push, stale, counts, Inv, Counted, CountsOK, Entry
<1>6. t.required = entry.tombstone.required /\ t.acknowledged = entry.tombstone.acknowledged
  BY <1>2 DEF Tombstone
<1> HIDE DEF t
<1>5. Founded(e, creates, remote, forgotten) /\ Settled(e, forgotten) /\ Knows(e, forgotten) /\ e.conflict = entry.conflict
  BY <1>1, <1>3, <1>6 DEF Sound, Founded, Settled, Knows, Entry
<1>7. at \in S \cup {None} /\ deleting \in BOOLEAN
  BY DEF Inv, PushInv
<1> HIDE DEF e
<1> QED BY <1>1, <1>4, <1>5, <1>7, Stored DEF Sound

LEMMA PurgeStep ==
  ASSUME Inv, Purge PROVE Inv'
  BY DEF Purge, Inv, EntryInv, Counted, Filed, Copied, PushInv, push, counts

LEMMA ResolveStep ==
  ASSUME Inv, NEW s \in S, NEW choice \in Choices, NEW merged \in Content, Resolve(s, choice, merged)
  PROVE  Inv' /\ entry' # None
<1>1. /\ Founded(entry, creates, remote, forgotten) /\ Knows(entry, forgotten)
      /\ entry.conflict[s] # None /\ entry # None /\ pc = "idle"
  BY DEF Resolve, Inv, EntryInv, Sound
<1>2. PICK d : /\ d = Resolution(s, choice, merged) /\ Founded(d, creates, remote, forgotten)
               /\ d.conflict = entry.conflict /\ entry.linked \ {s} \subseteq d.linked
  BY <1>1, Resolved
<1>3. /\ Founded(RemoveConflict(Resolution(s, choice, merged), s), creates, remote, forgotten)
      /\ Knows(RemoveConflict(Resolution(s, choice, merged), s), forgotten)
  BY <1>1, <1>2, ConflictRemoved DEF Knows
<1>4. PICK e : /\ e = Refreshed(RemoveConflict(Resolution(s, choice, merged), s), {})
               /\ Sound(e, creates, remote, forgotten)
  BY <1>3, StatusRefreshed
<1>5. /\ Persist(e) /\ UNCHANGED <<remote, creates, forgotten>> /\ CountsOK' /\ draft' \in {draft, None}
      /\ \/ choice # "remote" /\ Pushable(entry', s) /\ Begin(entry', s)
         \/ UNCHANGED <<pc, at, deleting>>
  BY <1>4 DEF Resolve, Redated, counts, push, Inv, Counted, CountsOK
<1>6. entry' = e /\ at \in S \cup {None} /\ deleting \in BOOLEAN
  BY <1>5 DEF Persist, Inv, PushInv
<1>7. CASE UNCHANGED <<pc, at, deleting>>
  BY <1>1, <1>4, <1>5, <1>6, <1>7, Stored
<1>8. CASE Pushable(entry', s) /\ Begin(entry', s)
  <2>1. /\ pc' = "reconcile" /\ at' = s /\ deleting' = (e.tombstone # None)
        /\ (e.tombstone # None => s \in e.linked)
    BY <1>6, <1>8 DEF Begin, Pushable
  <2>2. e.tombstone = None => Undeleted(e)
    BY <1>4 DEF Sound, Founded, Undeleted
  <2> QED BY <1>4, <1>5, <2>1, <2>2, Stored
<1> QED BY <1>5, <1>7, <1>8

LEMMA PullStep ==
  ASSUME Inv, NEW s \in S, Pull(s) PROVE Inv' /\ entry' # None
<1>1. /\ Sound(entry, creates, remote, forgotten) /\ Founded(entry, creates, remote, forgotten)
      /\ Knows(entry, forgotten)
  BY DEF Pull, Inv, EntryInv, Sound
<1>2. /\ UNCHANGED <<remote, creates, forgotten, pc, at, deleting>> /\ pc = "idle" /\ CountsOK'
      /\ at \in S \cup {None} /\ deleting \in BOOLEAN /\ draft' \in {draft, None}
  BY DEF Pull, Redated, push, counts, Inv, Counted, CountsOK, PushInv
<1>3. CASE remote[s] # None /\ s \in entry.linked /\ Persist(Refreshed(Merged(WithReplica(entry, s), s, remote[s]), {}))
  <2>1. remote[s] \in Content
    BY <1>3 DEF Inv, Counted
  <2>a. /\ Founded(WithReplica(entry, s), creates, remote, forgotten) /\ Knows(WithReplica(entry, s), forgotten)
        /\ s \in WithReplica(entry, s).linked
    BY <1>1, <1>3, ReplicaMade
  <2>2. /\ Founded(Merged(WithReplica(entry, s), s, remote[s]), creates, remote, forgotten)
        /\ Knows(Merged(WithReplica(entry, s), s, remote[s]), forgotten)
    BY <2>1, <2>a, Pulled
  <2>3. PICK e : /\ e = Refreshed(Merged(WithReplica(entry, s), s, remote[s]), {})
                 /\ Sound(e, creates, remote, forgotten)
    BY <2>2, StatusRefreshed
  <2> QED BY <1>2, <1>3, <2>3, Stored
<1>4. CASE remote[s] = None /\ Persist(Absent(entry, s))
  <2>1. PICK e : e = Absent(entry, s) /\ Sound(e, creates, remote, forgotten)
    BY <1>1, <1>4, AbsenceObserved
  <2> QED BY <1>2, <1>4, <2>1, Stored
<1> QED BY <1>3, <1>4 DEF Pull

(***************************************************************************)
(* The push                                                                *)
(***************************************************************************)
LEMMA Pushing ==
  ASSUME Inv, pc # "idle"
  PROVE  /\ at \in S /\ Sound(entry, creates, remote, forgotten) /\ Founded(entry, creates, remote, forgotten)
         /\ Settled(entry, forgotten) /\ Knows(entry, forgotten)
         /\ entry # None /\ entry \in Entry /\ deleting \in BOOLEAN
         /\ deleting => entry.tombstone # None /\ at \in entry.linked
         /\ ~deleting => Undeleted(entry) /\ Undeleted(saved)
         /\ CountsOK
  BY DEF Inv, PushInv, EntryInv, Counted, CountsOK, Sound, Founded

(* A step of the push that saves e under the same source.                  *)
LEMMA PushStored ==
  ASSUME Inv, pc # "idle", NEW e, Sound(e, creates, remote, forgotten),
         (Save(e) /\ e.conflict = entry.conflict) \/ Persist(e),
         UNCHANGED <<remote, creates, stale>>, CountsOK', Go("refresh"),
         e.linked = entry.linked, entry.tombstone # None => e.tombstone # None,
         ~deleting => Undeleted(e)
  PROVE  Inv' /\ entry' # None
<1>1. /\ at \in S /\ deleting \in BOOLEAN /\ entry # None
      /\ deleting => entry.tombstone # None /\ at \in entry.linked
  BY Pushing
<1>2. at' = at /\ deleting' = deleting /\ pc' = "refresh" /\ draft' = draft /\ forgotten' = forgotten
  BY DEF Go, stale
<1> QED BY <1>1, <1>2, Stored

LEMMA BeginStep ==
  ASSUME Inv, NEW s \in S, PushBegin(s) PROVE Inv'
<1>1. /\ UNCHANGED <<entry, saved, remote, creates, stale, counts>> /\ at' = s /\ pc' = "reconcile"
      /\ entry # None /\ deleting' = (entry.tombstone # None)
      /\ entry.tombstone # None => s \in entry.linked
  BY DEF PushBegin, Begin, Pushable
<1>2. EntryInv' /\ Counted' /\ Filed' /\ Copied'
  BY <1>1 DEF Inv, EntryInv, Counted, Filed, Copied, Never, Nowhere, counts, stale
<1>3. /\ Sound(entry, creates, remote, forgotten) /\ Sound(saved, creates, remote, forgotten)
      /\ entry.tombstone = None => saved.tombstone = None
  BY <1>1 DEF Inv, EntryInv, Filed
<1>4. entry.tombstone = None => Undeleted(entry) /\ Undeleted(saved)
  BY <1>3 DEF Sound, Founded, Undeleted
<1>5. PushInv'
  BY <1>1, <1>4 DEF PushInv, Undeleted
<1> QED BY <1>2, <1>5 DEF Inv

(* What the reconciliation decides, and of which pending operation.        *)
LEMMA Outcome ==
  ASSUME NEW e, NEW made, NEW held, NEW lost, NEW s \in S, Founded(e, made, held, lost)
  PROVE  /\ Reconciled(e, s) \in {"new", "retry"} /\ s \in Lasting \ lost /\ s \notin e.linked =>
               made[s] = 0 /\ e.pending[s] = None
         /\ Reconciled(e, s) = "acknowledged" => s \in e.linked
         /\ Reconciled(e, s) = "deleted" =>
               e.pending[s] = "delete" /\ e.tombstone # None /\ (s \in e.linked => remote[s] = None)
  BY EntryAssumption DEF Reconciled, Founded, Lasting, Kinds

LEMMA ReconcileStep ==
  ASSUME Inv, Reconcile PROVE Inv' /\ entry' # None
<1> DEFINE e == WithReplica(entry, at)
           outcome == Reconciled(e, at)
<1>1. pc = "reconcile" /\ UNCHANGED <<remote, creates, stale, counts>> /\ UNCHANGED <<at, deleting>>
  BY DEF Reconcile, Go
<1>a. /\ at \in S /\ CountsOK
      /\ Founded(entry, creates, remote, forgotten) /\ Settled(entry, forgotten) /\ Knows(entry, forgotten)
      /\ deleting => entry.tombstone # None /\ at \in entry.linked
      /\ ~deleting => Undeleted(entry) /\ Undeleted(saved)
  BY <1>1, Pushing
<1>b. /\ Sound(e, creates, remote, forgotten) /\ Founded(e, creates, remote, forgotten)
      /\ e.linked = entry.linked /\ e.tombstone = entry.tombstone /\ e.pending = entry.pending
      /\ e.conflict = entry.conflict
  BY <1>a, ReplicaMade DEF Sound
<1>c. e # None
  BY <1>b, EntryAssumption DEF Founded
<1>2. /\ at \in S /\ Sound(e, creates, remote, forgotten) /\ Founded(e, creates, remote, forgotten) /\ e # None
      /\ e.linked = entry.linked /\ e.tombstone = entry.tombstone /\ e.pending = entry.pending
      /\ e.conflict = entry.conflict /\ CountsOK
      /\ deleting => entry.tombstone # None /\ at \in entry.linked
      /\ ~deleting => Undeleted(entry) /\ Undeleted(saved)
  BY <1>a, <1>b, <1>c
<1>3. CountsOK' /\ (~deleting => Undeleted(e))
  BY <1>1, <1>2 DEF CountsOK, counts, Undeleted
<1> HIDE DEF e
<1>4. /\ outcome \in {"new", "retry"} /\ at \in Lasting \ forgotten /\ at \notin e.linked =>
            creates[at] = 0 /\ e.pending[at] = None
      /\ outcome = "acknowledged" => at \in e.linked
      /\ outcome = "deleted" =>
            e.pending[at] = "delete" /\ e.tombstone # None /\ (at \in e.linked => remote[at] = None)
  BY <1>2, Outcome
<1> HIDE DEF outcome
<1>5. \/ outcome \in {"new", "retry"} /\ entry' = e /\ UNCHANGED saved /\ Go("intent")
      \/ outcome = "acknowledged" /\ Save(AckReplica(e, at)) /\ Go("refresh")
      \/ outcome = "deleted" /\ Save(AckDelete(e, at)) /\ Go("refresh")
      \/ Save(e) /\ Go("refresh")
  BY DEF Reconcile, e, outcome
<1>6. CASE outcome \in {"new", "retry"} /\ entry' = e /\ UNCHANGED saved /\ Go("intent")
  <2>1. EntryInv' /\ Counted'
    BY <1>1, <1>2, <1>6 DEF Inv, EntryInv, Counted, counts, stale
  <2>2. Filed' /\ Copied'
    BY <1>1, <1>2, <1>6, Pushing DEF Inv, Filed, Copied, Never, Nowhere, stale
  <2>3. PushInv'
    BY <1>1, <1>2, <1>3, <1>4, <1>6 DEF Inv, PushInv, Go, stale, Undeleted
  <2> QED BY <1>2, <1>6, <2>1, <2>2, <2>3 DEF Inv
<1>7. CASE outcome = "acknowledged" /\ Save(AckReplica(e, at)) /\ Go("refresh")
  <2>1. PICK f : /\ f = AckReplica(e, at) /\ Sound(f, creates, remote, forgotten) /\ f.linked = e.linked
                 /\ f.tombstone = e.tombstone /\ f.conflict = e.conflict
                 /\ \A r \in S : f.pending[r] \in {e.pending[r], None}
    BY <1>2, <1>4, <1>7, Acknowledged
  <2>2. ~deleting => Undeleted(f)
    BY <1>3, <2>1, EntryAssumption DEF Undeleted, Kinds
  <2> QED BY <1>1, <1>2, <1>3, <1>7, <2>1, <2>2, PushStored
<1>8. CASE outcome = "deleted" /\ Save(AckDelete(e, at)) /\ Go("refresh")
  <2>1. deleting
    BY <1>2, <1>3, <1>4, <1>8, Pushing DEF Undeleted
  <2>2. PICK f : /\ f = AckDelete(e, at) /\ Sound(f, creates, remote, forgotten) /\ f.linked = e.linked
                 /\ f.tombstone # None /\ f.conflict = e.conflict
    BY <1>2, <1>4, <1>8, <2>1, DeletionAcknowledged
  <2> QED BY <1>1, <1>2, <1>3, <1>8, <2>1, <2>2, PushStored
<1>9. CASE Save(e) /\ Go("refresh")
  BY <1>1, <1>2, <1>3, <1>9, PushStored
<1> QED BY <1>5, <1>6, <1>7, <1>8, <1>9

LEMMA IntentStep ==
  ASSUME Inv, Intent PROVE Inv' /\ entry' # None
<1> DEFINE pending == [entry.pending EXCEPT ![at] = IF entry.pending[at] = None THEN Kind ELSE entry.pending[at]]
           e == [entry EXCEPT !.pending = pending]
<1>1. /\ pc = "intent" /\ UNCHANGED <<remote, creates, draft, forgotten, counts>>
      /\ at' = at /\ deleting' = deleting /\ pc' = "call"
  BY DEF Intent, Go, stale
<1>2. /\ at \in S /\ Sound(entry, creates, remote, forgotten) /\ entry \in Entry
      /\ Founded(entry, creates, remote, forgotten) /\ entry # None /\ CountsOK
      /\ deleting => entry.tombstone # None /\ at \in entry.linked
      /\ ~deleting => Undeleted(entry)
  BY <1>1, Pushing
<1>3. /\ Kind \in Kinds /\ (Kind = "delete" <=> deleting)
      /\ at \notin entry.linked => Kind = "create"
  BY <1>2 DEF Kind, Kinds
<1>4. Save(e)
  BY <1>2 DEF Intent, PersistIntent, Save, Entry
<1>5. /\ pending \in [S -> Kinds \cup {None}]
      /\ \A s \in S : pending[s] = IF s = at /\ entry.pending[at] = None THEN Kind ELSE entry.pending[s]
  BY <1>2, <1>3 DEF Entry
<1> HIDE DEF pending
<1>6. /\ e \in Entry /\ e.pending = pending /\ e.linked = entry.linked /\ e.tombstone = entry.tombstone
      /\ e.acked = entry.acked /\ e.base = entry.base /\ e.content = entry.content
      /\ e.replicas = entry.replicas /\ e.conflict = entry.conflict /\ e.status = entry.status
  BY <1>2, <1>5 DEF Entry
<1> HIDE DEF e
<1>7. \A s \in Lasting : s \in forgotten \/ creates[s] = 0 \/ s \in entry.linked \/ pending[s] = "create"
  BY <1>2, <1>3, <1>5, EntryAssumption DEF Founded, Kinds, Lasting
<1>8. Sound(e, creates, remote, forgotten)
  BY <1>2, <1>3, <1>5, <1>6, <1>7 DEF Sound, Founded, Settled, Knows
<1>9. CountsOK' /\ forgotten' = forgotten /\ forgotten \subseteq S
  BY <1>1, <1>2 DEF CountsOK, counts, Inv, Counted
<1>10. /\ EntryInv' /\ Counted' /\ Filed' /\ Copied' /\ entry' = e /\ entry' # None
       /\ saved'.pending = e.pending /\ saved'.tombstone = e.tombstone
  BY <1>1, <1>2, <1>4, <1>6, <1>8, <1>9, Written
<1>11. ~deleting => Undeleted(e)
  BY <1>2, <1>3, <1>5, <1>6 DEF Undeleted
<1>12. PushInv'
  <2>1. at \in Lasting \ forgotten /\ at \notin e.linked => creates[at] = 0 /\ e.pending[at] = "create"
    BY <1>1, <1>2, <1>3, <1>5, <1>6 DEF Inv, PushInv
  <2> QED BY <1>1, <1>2, <1>6, <1>10, <1>11, <2>1 DEF PushInv, Inv, Undeleted
<1> QED BY <1>10, <1>12 DEF Inv

(* Steps that change the source, or nothing but the step.                  *)
LEMMA Sent ==
  ASSUME Inv, EntryInv', Counted', UNCHANGED <<entry, saved, draft, forgotten>>
  PROVE  EntryInv' /\ Counted' /\ Filed' /\ Copied'
  BY DEF Inv, Filed, Copied, Never, Nowhere

LEMMA UpdateStep ==
  ASSUME Inv, CallUpdate PROVE Inv'
<1>1. /\ pc = "call" /\ UNCHANGED <<entry, saved, creates, draft, forgotten, counts>>
      /\ at' = at /\ deleting' = deleting /\ pc' = "readback"
      /\ remote' = [remote EXCEPT ![at] = entry.content]
  BY DEF CallUpdate, Go, stale
<1>2. at \in S /\ entry \in Entry /\ at \in entry.linked
  BY <1>1, Pushing DEF CallUpdate, Kind
<1>a. \A s \in S : remote[s] = None => remote'[s] = None
  BY <1>1 DEF CallUpdate, Inv, Counted
<1>3. EntryInv'
  BY <1>1, <1>a, SourceMoved DEF Inv, EntryInv
<1>4. Counted'
  BY <1>1, <1>2 DEF Inv, Counted, counts, Entry
<1>5. PushInv'
  BY <1>1, <1>2 DEF Inv, PushInv, Undeleted
<1> QED BY <1>1, <1>3, <1>4, <1>5, Sent DEF Inv

(* Nothing is created where something was: what makes both copies of the   *)
(* entry sound is that they say so already.                                *)
LEMMA CreationCounted ==
  ASSUME Inv, Created, UNCHANGED <<entry, saved, stale>>, CountsOK'
  PROVE  EntryInv' /\ Counted'
<1>1. pc = "call" /\ Kind = "create" /\ UNCHANGED <<entry, saved, draft, forgotten>> /\ CountsOK'
  BY DEF Created, stale
<1>2. /\ at \in S /\ entry \in Entry /\ at \notin entry.linked /\ ~deleting /\ entry # None
      /\ Undeleted(entry) /\ Undeleted(saved)
  BY <1>1, Pushing DEF Kind
<1>3. /\ saved.pending = entry.pending /\ saved.linked = entry.linked
      /\ at \in Lasting \ forgotten => creates[at] = 0 /\ entry.pending[at] = "create"
  BY <1>1, <1>2 DEF Inv, PushInv, Filed
<1>4. CASE UNCHANGED <<remote, creates>>
  BY <1>1, <1>4 DEF Inv, EntryInv, Counted, CountsOK
<1>5. CASE /\ ~(at \in IdempotentCreate /\ creates[at] > 0)
           /\ remote' = [remote EXCEPT ![at] = entry.content]
           /\ creates' = [creates EXCEPT ![at] = creates[at] + 1]
  <2>1. at \notin AbsenceIsDelete \cup forgotten => creates[at] = 0
    BY <1>2, <1>3, <1>5 DEF Lasting, Inv, Counted
  <2>2. Counted'
    BY <1>1, <1>2, <1>5, <2>1 DEF Inv, Counted, CountsOK, Entry
  <2>3. \A s \in S : s # at => creates'[s] = creates[s] /\ remote'[s] = remote[s]
    BY <1>5 DEF Inv, Counted
  <2>4. ASSUME NEW e \in {entry, saved}, e # None PROVE Sound(e, creates', remote', forgotten)
    <3>1. /\ Sound(e, creates, remote, forgotten) /\ (at \in Lasting \ forgotten => e.pending[at] = "create")
          /\ (e.tombstone # None => e.tombstone.acknowledged = {}) /\ at \notin e.linked
      BY <1>2, <1>3, <2>4 DEF Inv, EntryInv, Undeleted
    <3>2. \A s \in Lasting : s \in forgotten \/ creates'[s] = 0 \/ s \in e.linked \/ e.pending[s] = "create"
      BY <2>3, <3>1 DEF Sound, Founded, Lasting
    <3>3. e.conflict[at] # None => at \in forgotten
      BY <1>2, <3>1 DEF Sound, Knows
    <3>4. \A s \in S : e.conflict[s] # None /\ e.conflict[s].deleted =>
            s \in AbsenceIsDelete /\ (s \in forgotten \/ remote'[s] = None)
      BY <2>3, <3>1, <3>3 DEF Sound, Founded
    <3> QED BY <3>1, <3>2, <3>4 DEF Sound, Founded
  <2> QED BY <1>1, <2>2, <2>4 DEF EntryInv
<1> QED BY <1>4, <1>5 DEF Created

LEMMA CreateStep ==
  ASSUME Inv, CallCreate PROVE Inv'
<1>1. /\ UNCHANGED <<entry, saved, stale, draft, forgotten>> /\ pc = "call" /\ pc' = "link"
      /\ at' = at /\ deleting' = deleting /\ Created
  BY DEF CallCreate, Created, Go, stale
<1>2. CountsOK'
  BY DEF CallCreate, counts, CountsOK, Inv, Counted
<1>3. EntryInv' /\ Counted'
  BY <1>1, <1>2, CreationCounted
<1>4. PushInv'
  BY <1>1 DEF Inv, PushInv, Undeleted
<1> QED BY <1>1, <1>3, <1>4, Sent DEF Inv

(* A source linked after the deletion was marked is not asked to delete.   *)
LEMMA LinkStep ==
  ASSUME Inv, Link PROVE Inv' /\ entry' # None
<1> DEFINE e == [entry EXCEPT !.linked = entry.linked \cup {at}]
<1>1. /\ pc = "link" /\ Save(e) /\ pc' = "readback" /\ at' = at /\ deleting' = deleting
      /\ UNCHANGED <<remote, creates, draft, counts>>
      /\ forgotten' = IF entry.tombstone = None THEN forgotten ELSE forgotten \cup {at}
  BY Pushing DEF Link, Go, Entry
<1>2. /\ Founded(entry, creates, remote, forgotten) /\ Settled(entry, forgotten) /\ Knows(entry, forgotten)
      /\ at \in S /\ CountsOK /\ entry # None
      /\ deleting => entry.tombstone # None
      /\ ~deleting => Undeleted(entry)
  BY <1>1, Pushing
<1>3. CountsOK' /\ forgotten \subseteq forgotten' /\ forgotten' \subseteq S
  BY <1>1, <1>2 DEF CountsOK, counts, Inv, Counted
<1>4. /\ e \in Entry /\ e.linked = entry.linked \cup {at} /\ e.conflict = entry.conflict
      /\ e.pending = entry.pending /\ e.tombstone = entry.tombstone
      /\ e.acked = entry.acked /\ e.base = entry.base /\ e.content = entry.content
      /\ e.replicas = entry.replicas /\ e.status = entry.status
  BY <1>2 DEF Founded, Entry
<1> HIDE DEF e
<1>5. PICK lost : lost = forgotten'
  OBVIOUS
<1>6. /\ Founded(entry, creates, remote, lost) /\ Settled(entry, lost) /\ Knows(entry, lost)
      /\ entry.tombstone # None => at \in lost
  BY <1>1, <1>2, <1>3, <1>5, MoreLost DEF Sound
<1>7. Sound(e, creates, remote, lost)
  BY <1>4, <1>6 DEF Sound, Founded, Settled, Knows
<1>8. /\ EntryInv' /\ Counted' /\ Filed' /\ Copied' /\ entry' = e /\ entry' # None
      /\ saved'.pending = e.pending /\ saved'.tombstone = e.tombstone
  BY <1>1, <1>2, <1>3, <1>4, <1>5, <1>7, Written
<1>9. PushInv'
  BY <1>1, <1>2, <1>4, <1>8 DEF Inv, PushInv, Undeleted
<1> QED BY <1>8, <1>9 DEF Inv

LEMMA DeleteCallStep ==
  ASSUME Inv, CallDelete PROVE Inv'
<1>1. /\ pc = "call" /\ UNCHANGED <<entry, saved, creates, draft, forgotten, counts>>
      /\ at' = at /\ deleting' = deleting /\ pc' = "confirm"
      /\ remote' = [remote EXCEPT ![at] = None] /\ deleting
  BY DEF CallDelete, Go, Kind, stale
<1>a. \A s \in S : remote[s] = None => remote'[s] = None
  BY <1>1 DEF Inv, Counted
<1>2. EntryInv'
  BY <1>1, <1>a, SourceMoved DEF Inv, EntryInv
<1>3. Counted'
  BY <1>1 DEF Inv, Counted, counts
<1>4. PushInv'
  BY <1>1 DEF Inv, PushInv
<1> QED BY <1>1, <1>2, <1>3, <1>4, Sent DEF Inv

LEMMA FailStep ==
  ASSUME Inv, CallFails PROVE Inv'
<1>1. /\ pc = "call" /\ UNCHANGED <<entry, saved, stale, edits, remoteEdits>>
      /\ at' = at /\ deleting' = deleting /\ pc' = "refresh" /\ failures' \in 0..MaxFailures
  BY ConstantsAssumption DEF CallFails, MayBreak, Go, Inv, Counted
<1>b. UNCHANGED <<entry, saved, draft, forgotten>> /\ edits' = edits /\ remoteEdits' = remoteEdits
  BY <1>1 DEF stale
<1>c. CountsOK'
  BY <1>1, <1>b DEF CountsOK, Inv, Counted
<1>2. at \in S /\ entry \in Entry
  BY <1>1, Pushing
<1>3. ASSUME NEW c \in Content \cup {None}, remote' \in {remote, [remote EXCEPT ![at] = c]}, creates' = creates,
             c = None \/ remote[at] # None
      PROVE  EntryInv' /\ Counted'
  <2>a. \A s \in S : remote[s] = None => remote'[s] = None
    BY <1>3 DEF Inv, Counted
  <2>1. EntryInv'
    BY <1>b, <1>3, <2>a, SourceMoved DEF Inv, EntryInv
  <2>2. remote' \in [S -> Content \cup {None}]
    BY <1>2, <1>3 DEF Inv, Counted
  <2> QED BY <1>b, <1>c, <1>3, <2>1, <2>2 DEF Inv, Counted, CountsOK
<1>4. ASSUME Created PROVE EntryInv' /\ Counted'
  BY <1>1, <1>b, <1>c, <1>4, CreationCounted
<1>a. \/ remote' = remote /\ creates' = creates
      \/ remote' = [remote EXCEPT ![at] = entry.content] /\ creates' = creates /\ remote[at] # None
      \/ Created
      \/ remote' = [remote EXCEPT ![at] = None] /\ creates' = creates
  BY DEF CallFails
<1>d. entry.content \in Content
  BY <1>2 DEF Entry
<1>5. EntryInv' /\ Counted'
  BY <1>3, <1>4, <1>a, <1>d
<1>6. PushInv'
  BY <1>1 DEF Inv, PushInv, Undeleted
<1> QED BY <1>b, <1>5, <1>6, Sent DEF Inv

LEMMA MissStep ==
  ASSUME Inv, CallMisses PROVE Inv'
<1>1. /\ UNCHANGED <<entry, saved, remote, creates, draft, forgotten, counts>>
      /\ at' = at /\ deleting' = deleting /\ pc' = "refresh" /\ pc = "call"
  BY DEF CallMisses, Go, stale
<1>2. EntryInv' /\ Counted'
  BY <1>1 DEF Inv, EntryInv, Counted, counts
<1>3. PushInv'
  BY <1>1 DEF Inv, PushInv, Undeleted
<1> QED BY <1>1, <1>2, <1>3, Sent DEF Inv

LEMMA AcknowledgeStep ==
  ASSUME Inv, Acknowledge PROVE Inv' /\ entry' # None
<1>1. pc = "readback" /\ Go("refresh") /\ UNCHANGED <<remote, creates, stale, counts>>
  BY DEF Acknowledge
<1>2. /\ at \in S /\ Sound(entry, creates, remote, forgotten) /\ Founded(entry, creates, remote, forgotten)
      /\ Knows(entry, forgotten) /\ CountsOK /\ at \in entry.linked /\ entry # None
      /\ ~deleting => Undeleted(entry)
  BY <1>1, Pushing DEF Inv, PushInv
<1>3. CountsOK'
  BY <1>1, <1>2 DEF CountsOK, counts
<1>4. CASE Save(entry)
  BY <1>1, <1>2, <1>3, <1>4, PushStored
<1>5. CASE Save(AckReplica(entry, at))
  <2>1. PICK e : /\ e = AckReplica(entry, at) /\ Sound(e, creates, remote, forgotten) /\ e.linked = entry.linked
                 /\ e.tombstone = entry.tombstone /\ e.conflict = entry.conflict
                 /\ \A r \in S : e.pending[r] \in {entry.pending[r], None}
    BY <1>2, Acknowledged
  <2>2. ~deleting => Undeleted(e)
    BY <1>2, <2>1, EntryAssumption DEF Undeleted, Kinds
  <2> QED BY <1>1, <1>2, <1>3, <1>5, <2>1, <2>2, PushStored
<1>6. CASE remote[at] # None /\ Persist(CreateConflict(entry, at, remote[at], FALSE))
  <2>1. remote[at] \in Content
    BY <1>2, <1>6 DEF Inv, Counted
  <2>a. ASSUME NEW c \in Content
        PROVE  /\ Sound(CreateConflict(entry, at, c, FALSE), creates, remote, forgotten)
               /\ CreateConflict(entry, at, c, FALSE).linked = entry.linked
               /\ CreateConflict(entry, at, c, FALSE).tombstone = entry.tombstone
               /\ CreateConflict(entry, at, c, FALSE).pending = entry.pending
    BY <1>2, ConflictCreated
  <2>2. PICK e : /\ e = CreateConflict(entry, at, remote[at], FALSE) /\ Sound(e, creates, remote, forgotten)
                 /\ e.linked = entry.linked /\ e.tombstone = entry.tombstone /\ e.pending = entry.pending
    BY <2>1, <2>a
  <2>3. ~deleting => Undeleted(e)
    BY <1>2, <2>2 DEF Undeleted
  <2> QED BY <1>1, <1>2, <1>3, <1>6, <2>2, <2>3, PushStored
<1> QED BY <1>4, <1>5, <1>6 DEF Acknowledge

LEMMA ConfirmStep ==
  ASSUME Inv, Confirm PROVE Inv' /\ entry' # None
<1>1. /\ pc = "confirm" /\ Go("refresh") /\ UNCHANGED <<remote, creates, stale, counts>>
      /\ (remote[at] = None /\ Save(AckDelete(entry, at))) \/ Save(entry)
  BY DEF Confirm
<1>2. /\ at \in S /\ Sound(entry, creates, remote, forgotten) /\ CountsOK /\ entry # None
      /\ deleting /\ entry.tombstone # None /\ at \in entry.linked
  BY <1>1, Pushing DEF Inv, PushInv
<1>3. CountsOK'
  BY <1>1, <1>2 DEF CountsOK, counts
<1>4. CASE remote[at] = None /\ Save(AckDelete(entry, at))
  <2>1. PICK e : /\ e = AckDelete(entry, at) /\ Sound(e, creates, remote, forgotten) /\ e.linked = entry.linked
                 /\ e.tombstone # None /\ e.conflict = entry.conflict
    BY <1>2, <1>4, DeletionAcknowledged
  <2> QED BY <1>1, <1>2, <1>3, <1>4, <2>1, PushStored
<1>5. CASE Save(entry)
  BY <1>1, <1>2, <1>3, <1>5, PushStored
<1> QED BY <1>1, <1>4, <1>5

LEMMA UnreachableStep ==
  ASSUME Inv, Unreachable PROVE Inv' /\ entry' # None
<1>1. /\ pc \in {"reconcile", "readback", "confirm"} /\ Go("refresh")
      /\ UNCHANGED <<remote, creates, stale, edits, remoteEdits>> /\ Save(WithReplica(entry, at))
      /\ failures < MaxFailures /\ failures' = failures + 1
  BY DEF Unreachable, MayBreak
<1>2. /\ at \in S /\ Sound(entry, creates, remote, forgotten) /\ Founded(entry, creates, remote, forgotten)
      /\ CountsOK /\ entry # None
      /\ ~deleting => Undeleted(entry)
  BY <1>1, Pushing
<1>3. CountsOK'
  BY <1>1, <1>2, ConstantsAssumption DEF CountsOK
<1>4. PICK e : /\ e = WithReplica(entry, at) /\ Sound(e, creates, remote, forgotten)
               /\ e.linked = entry.linked /\ e.tombstone = entry.tombstone
               /\ e.pending = entry.pending /\ e.conflict = entry.conflict
  BY <1>2, ReplicaMade DEF Sound
<1>5. ~deleting => Undeleted(e)
  BY <1>2, <1>4 DEF Undeleted
<1> QED BY <1>1, <1>2, <1>3, <1>4, <1>5, PushStored

LEMMA FinishStep ==
  ASSUME Inv, Finish PROVE Inv' /\ entry' # None
<1>1. /\ pc = "refresh" /\ at' = None /\ deleting' = FALSE /\ pc' = "idle"
      /\ UNCHANGED <<remote, creates, draft, forgotten, counts>>
      /\ Save(entry) \/ Save(Refreshed(entry, {at}))
  BY DEF Finish, Stop, stale
<1>2. /\ at \in S /\ Sound(entry, creates, remote, forgotten) /\ Founded(entry, creates, remote, forgotten)
      /\ Knows(entry, forgotten) /\ CountsOK /\ entry # None
  BY <1>1, Pushing
<1>3. CountsOK'
  BY <1>1, <1>2 DEF CountsOK, counts
<1>4. Sound(Refreshed(entry, {at}), creates, remote, forgotten) /\ Refreshed(entry, {at}).conflict = entry.conflict
  BY <1>2, StatusRefreshed
<1>5. PICK e : Save(e) /\ Sound(e, creates, remote, forgotten) /\ e.conflict = entry.conflict
  BY <1>1, <1>2, <1>4
<1> QED BY <1>1, <1>2, <1>3, <1>5, Stored

(***************************************************************************)
(* The environment, and every step                                         *)
(***************************************************************************)
LEMMA RemoteStep ==
  ASSUME Inv, NEW s \in S, RemoteEdit(s) PROVE Inv'
<1>1. /\ UNCHANGED <<entry, saved, creates, pc, at, deleting, draft, forgotten, edits, failures>>
      /\ remoteEdits < MaxRemoteEdits /\ remoteEdits' = remoteEdits + 1
  BY DEF RemoteEdit, MayEditRemote, push, stale
<1>2. PICK c \in Content \cup {None} : remote' = [remote EXCEPT ![s] = c]
  BY DEF RemoteEdit
<1>a. \A r \in S : remote[r] = None => remote'[r] = None
  BY <1>2 DEF RemoteEdit, Inv, Counted
<1>3. EntryInv'
  BY <1>1, <1>a, SourceMoved DEF Inv, EntryInv
<1>4. PushInv'
  BY <1>1 DEF Inv, PushInv, Undeleted
<1>5. remote' \in [S -> Content \cup {None}]
  BY <1>2 DEF Inv, Counted
<1>6. Counted'
  BY <1>1, <1>5, ConstantsAssumption DEF Inv, Counted
<1> QED BY <1>1, <1>3, <1>4, <1>6, Sent DEF Inv

LEMMA CrashStep ==
  ASSUME Inv, Crash PROVE Inv' /\ (saved # None => entry' # None)
<1>1. /\ entry' = saved /\ saved' = saved /\ draft' = None /\ pc' = "idle" /\ at' = None /\ deleting' = FALSE
      /\ UNCHANGED <<remote, creates, forgotten, edits, remoteEdits>>
      /\ failures < MaxFailures /\ failures' = failures + 1
  BY DEF Crash, MayBreak, Stop
<1>2. EntryInv' /\ Filed' /\ Copied' /\ PushInv'
  BY <1>1 DEF Inv, EntryInv, Filed, Copied, PushInv
<1>3. Counted'
  BY <1>1, ConstantsAssumption DEF Inv, Counted
<1> QED BY <1>1, <1>2, <1>3 DEF Inv

LEMMA Step == Inv /\ [Next]_vars => Inv'
<1> SUFFICES ASSUME Inv, [Next]_vars PROVE Inv'
  OBVIOUS
<1>1. CASE \E c \in Content : Prepare(c)
  BY <1>1, PrepareStep
<1>2. CASE Hold \/ Commit \/ MarkDeleted \/ SaveMark \/ PutBack \/ Purge
  BY <1>2, HoldStep, CommitStep, MarkStep, SaveMarkStep, PutBackStep, PurgeStep
<1>3. CASE \E s \in S : Abandon(s) \/ Pull(s) \/ PushBegin(s) \/ RemoteEdit(s)
  BY <1>3, AbandonStep, PullStep, BeginStep, RemoteStep
<1>4. CASE \E s \in S, choice \in Choices, merged \in Content : Resolve(s, choice, merged)
  BY <1>4, ResolveStep
<1>5. CASE Push
  BY <1>5, ReconcileStep, IntentStep, UpdateStep, CreateStep, LinkStep, DeleteCallStep, MissStep,
     AcknowledgeStep, ConfirmStep, FinishStep DEF Push
<1>6. CASE CallFails \/ Unreachable \/ Crash
  BY <1>6, FailStep, UnreachableStep, CrashStep
<1>7. CASE UNCHANGED vars
  <2>1. UNCHANGED <<entry, saved, remote, creates, pc, at, deleting, draft, forgotten, edits, remoteEdits, failures>>
    BY <1>7 DEF vars, push, counts, stale
  <2> QED BY <2>1 DEF Inv, EntryInv, Counted, Filed, Copied, Never, Nowhere, PushInv, Undeleted
<1> QED BY <1>1, <1>2, <1>3, <1>4, <1>5, <1>6, <1>7 DEF Next

LEMMA Invariance == Spec => []Inv
  BY InitInv, Step, PTL DEF Spec

(* A pull only overwrites a content that some source has acknowledged.     *)
LEMMA PullOverwrites ==
  ASSUME Inv, NEW s \in S, Pull(s), entry.tombstone = None, entry'.content # entry.content
  PROVE  \E t \in S : entry.base[t] = entry.content
<1>1. Founded(entry, creates, remote, forgotten) /\ Settled(entry, forgotten) /\ Knows(entry, forgotten) /\ entry # None
  BY DEF Pull, Inv, EntryInv, Sound
<1>2. entry.status # "deleted"
  BY <1>1 DEF Settled
<1>3. CASE entry.status = "clean"
  BY <1>1, <1>3 DEF Settled
<1>4. CASE MustAsk(entry) /\ ~\E t \in S : entry.base[t] = entry.content
  <2> DEFINE e == WithReplica(entry, s)
  <2>a. Founded(e, creates, remote, forgotten) /\ Knows(e, forgotten) /\ e.linked = entry.linked
    BY <1>1, ReplicaMade
  <2>b. e.content = entry.content /\ e.base = entry.base /\ e.status = entry.status
    BY <1>1 DEF WithReplica, Founded, Entry
  <2>1. Founded(e, creates, remote, forgotten) /\ Knows(e, forgotten) /\ e.content = entry.content /\ e.base = entry.base /\ MustAsk(e)
    BY <1>4, <2>a, <2>b DEF MustAsk
  <2> HIDE DEF e
  <2>2. Absent(entry, s).content = entry.content
    BY <1>1 DEF Absent, CreateConflict, Founded, Entry
  <2>3. ASSUME NEW c \in Content, s \in e.linked PROVE Merged(e, s, c).content = e.content
    <3>1. CreateConflict(e, s, c, FALSE).content = e.content
      BY <2>1 DEF CreateConflict, Founded, Entry
    <3>2. e.content = c => RemoveConflict(RecordBase(e, s, c), s).content = e.content
      <4> SUFFICES ASSUME e.content = c PROVE RemoveConflict(RecordBase(e, s, c), s).content = e.content
        OBVIOUS
      <4>1. PICK d : d = RecordBase(e, s, c) /\ Founded(d, creates, remote, forgotten) /\ d.content = e.content
        BY <2>1, Recorded
      <4>2. RemoveConflict(d, s).content = d.content
        BY <4>1 DEF RemoveConflict, Founded, Entry
      <4> QED BY <4>1, <4>2
    <3>3. e.content = c => AcceptRemote(e, s, c).content = e.content
      <4>1. Founded(AcceptRemote(e, s, c), creates, remote, forgotten) /\ AcceptRemote(e, s, c).content = c
        BY <2>1, <2>3, RemoteAccepted
      <4> QED BY <4>1
    <3> QED BY <1>4, <2>1, <3>1, <3>2, <3>3 DEF Merged, Accepts
  <2>4. ASSUME NEW d, Founded(d, creates, remote, forgotten) PROVE Refreshed(d, {}).content = d.content
    BY <2>4 DEF Refreshed, Founded, Entry
  <2>5. remote[s] # None /\ s \in entry.linked =>
          Refreshed(Merged(e, s, remote[s]), {}).content = entry.content
    <3> SUFFICES ASSUME remote[s] # None, s \in e.linked
                 PROVE  Refreshed(Merged(e, s, remote[s]), {}).content = entry.content
      BY <2>a
    <3>1. remote[s] \in Content
      BY DEF Inv, Counted
    <3>2. Founded(Merged(e, s, remote[s]), creates, remote, forgotten)
      BY <2>1, <3>1, Pulled
    <3> QED BY <2>1, <2>3, <2>4, <3>1, <3>2
  <2> QED BY <2>2, <2>5 DEF Pull, Persist, e
<1> QED BY <1>1, <1>2, <1>3, <1>4 DEF MustAsk, Founded, Entry

(* The entry only goes with a purge, when nothing is left of it.           *)
LEMMA PurgeLeavesNothing ==
  ASSUME Inv, Next, entry # None, entry' = None, NEW s \in entry.linked \ forgotten
  PROVE  s \in entry.tombstone.abandoned \/ remote[s] = None
<1>1. Founded(entry, creates, remote, forgotten)
  BY DEF Inv, EntryInv, Sound
<1>2. CASE Purge
  BY <1>1, <1>2 DEF Purge, PurgeReady, PendingSources, Founded
<1>3. CASE ~Purge
  <2>1. \/ Commit \/ MarkDeleted \/ SaveMark \/ PutBack
        \/ \E r \in S : Abandon(r) \/ Pull(r)
        \/ \E r \in S, choice \in Choices, merged \in Content : Resolve(r, choice, merged)
        \/ Reconcile \/ Intent \/ Link \/ Acknowledge \/ Confirm \/ Finish \/ Unreachable \/ Crash
        \/ UNCHANGED entry
    BY <1>3 DEF Next, Push, Prepare, Hold, PushBegin, RemoteEdit, CallUpdate, CallCreate, CallDelete, CallMisses,
                CallFails
  <2>2. saved # None
    BY DEF Inv, Filed
  <2> QED BY <2>1, <2>2, CommitStep, MarkStep, SaveMarkStep, PutBackStep, AbandonStep, PullStep, ResolveStep,
             ReconcileStep, IntentStep, LinkStep, AcknowledgeStep, ConfirmStep, FinishStep, UnreachableStep, CrashStep
<1> QED BY <1>2, <1>3

LEMMA InvMeansClean == Inv => CleanMeansSynced
<1> SUFFICES ASSUME Inv, NEW e \in {entry, saved} \ {None}, e.status = "clean", NEW s \in e.replicas
             PROVE  (e.conflict[s] = None \/ s \in forgotten) /\ (e.base[s] # None => e.base[s] = e.content /\ s \in e.acked)
  BY DEF CleanMeansSynced
<1>1. Founded(e, creates, remote, forgotten) /\ Settled(e, forgotten) /\ s \in S
  BY DEF Inv, EntryInv, Sound, Founded, Entry
<1> QED BY <1>1 DEF Founded, Settled

-----------------------------------------------------------------------------
(* Every variable of the saga keeps its type; in particular a tombstone    *)
(* acknowledges and abandons only what it requires, and never both         *)
(* (engine.py and ledger.py, all operations).                              *)
THEOREM TypeCorrect == Spec => []TypeOK
<1>1. Inv => TypeOK
  BY DEF Inv, EntryInv, Counted, Copied, PushInv, TypeOK, Sound, Founded
<1> QED BY <1>1, Invariance, PTL

(* An entry that is shown as clean is at every replica with a base the     *)
(* version that the replica acknowledged, in memory and on disk, whatever  *)
(* failed or died, and no conflict is open but at sources of which a stale *)
(* copy of the entry took something back (_refresh_status and everything   *)
(* that saves without it).                                                 *)
THEOREM CleanIsSynced == Spec => []CleanMeansSynced
<1> QED BY InvMeansClean, Invariance, PTL

(* No source whose listing does not prove deletions ever gets a second     *)
(* object for the entry: an intent in the vault file stops the repetition  *)
(* of a create whose outcome is unknown (_push_content_to_source,          *)
(* _reconcile_pending).  Saves prepared, and deletions marked, at any      *)
(* moment of a push are among the steps; the sources of which one of them  *)
(* did take back a link or a pending operation are what is left out        *)
(* (commit_entry, local_store.py:217).                                     *)
THEOREM CreatesAreNotRepeated == Spec => []NoDuplicateCreate
<1>1. Inv => NoDuplicateCreate
  BY DEF Inv, Counted, NoDuplicateCreate
<1> QED BY <1>1, Invariance, PTL

(* A pull replaces the content of an entry only when some source           *)
(* acknowledged that content: an edit that no replica has is never lost to *)
(* one (_merge_remote).                                                    *)
THEOREM PullsKeepEdits == Spec => PullKeepsEdits
<1>1. Inv /\ [Next]_vars =>
        [\A s \in S : Pull(s) /\ entry.tombstone = None /\ entry'.content # entry.content =>
            \E t \in S : entry.base[t] = entry.content]_vars
  BY PullOverwrites
<1> QED BY <1>1, Invariance, PTL DEF Spec, PullKeepsEdits

(* A purged entry is gone at every source it was linked to, except those   *)
(* that the user abandoned: a tombstone asks every linked source, and what *)
(* acknowledged it holds nothing any more (_ack_delete, purge_tombstone).  *)
(* Left out are the sources of which a stale copy took something back and  *)
(* those whose create was under way when the deletion was marked: the only *)
(* way for a linked source not to be asked (manager.py:1205,               *)
(* engine.py:542).                                                         *)
THEOREM PurgeIsComplete == Spec => PurgedIsGone
<1>1. Inv /\ [Next]_vars =>
        [entry # None /\ entry' = None =>
           \A s \in entry.linked \ forgotten : s \in entry.tombstone.abandoned \/ remote[s] = None]_vars
  BY PurgeLeavesNothing
<1> QED BY <1>1, Invariance, PTL DEF Spec, PurgedIsGone

-----------------------------------------------------------------------------
(***************************************************************************)
(* Through previews                                                        *)
(***************************************************************************)

(* A listing that may fail, and nothing else.                              *)
Listed ==
    /\ UNCHANGED <<entry, saved, remote, creates, push, stale, edits, remoteEdits>>
    /\ failures' \in {failures, failures + 1} /\ (failures' # failures => failures < MaxFailures)

LEMMA ListingStep ==
  ASSUME Inv, Listed PROVE Inv'
<1>1. /\ UNCHANGED <<entry, saved, remote, creates, pc, at, deleting, draft, forgotten, edits, remoteEdits>>
      /\ failures' \in 0..MaxFailures
  BY ConstantsAssumption DEF Listed, push, stale, Inv, Counted
<1>2. EntryInv' /\ PushInv'
  BY <1>1 DEF Inv, EntryInv, PushInv, Undeleted
<1>3. Counted'
  BY <1>1 DEF Inv, Counted
<1> QED BY <1>1, <1>2, <1>3, Sent DEF Inv

LEMMA PreviewSteps == Inv /\ PreviewNext => [Next]_vars \/ Listed
<1> SUFFICES ASSUME Inv, PreviewNext PROVE [Next]_vars \/ Listed
  OBVIOUS
<1>1. ASSUME NEW plan, NEW failed, MayFail(plan, failed) PROVE Listed
  BY <1>1 DEF MayFail, MayBreak, Listed, Inv, Counted
<1>2. CASE \E plan \in Plans : Issue(plan)
  BY <1>1, <1>2 DEF Issue
<1>3. CASE Recheck
  BY <1>1, <1>3 DEF Recheck
<1>4. CASE Expire \/ Consume \/ Lock \/ Executed \/ SavePreferences
  BY <1>4 DEF Expire, Consume, Lock, Executed, SavePreferences
<1>5. CASE \E s \in S : ExecutePull(s)
  BY <1>5 DEF ExecutePull, MayBreak, Next, Listed
<1>6. CASE \E s \in S : ExecutePush(s) \/ Elsewhere(s)
  BY <1>6 DEF ExecutePush, Elsewhere, Next
<1>7. CASE Handler \/ Unlocked
  BY <1>7 DEF Handler, Unlocked, Next
<1>8. CASE PushStep \/ Die
  BY <1>8 DEF PushStep, Die, Next
<1> QED BY <1>2, <1>3, <1>4, <1>5, <1>6, <1>7, <1>8 DEF PreviewNext

LEMMA PreviewInvariance == PreviewSpec => []Inv
<1>1. PreviewInit => Inv
  BY InitInv DEF PreviewInit
<1>2. Inv /\ [PreviewNext]_<<vars, previewVars>> => Inv'
  <2>1. Inv /\ PreviewNext => Inv'
    BY PreviewSteps, ListingStep, Step
  <2>2. Inv /\ UNCHANGED vars => Inv'
    BY Step
  <2> QED BY <2>1, <2>2
<1> QED BY <1>1, <1>2, PTL DEF PreviewSpec

(* Clean entries are synced, with previews and executions under way        *)
(* (sync/preview.py, sync/engine.py, execute_explicit).                    *)
THEOREM CleanIsSyncedThroughPreviews == PreviewSpec => []CleanMeansSynced
<1>1. Inv => CleanMeansSynced
  BY InvMeansClean
<1> QED BY <1>1, PreviewInvariance, PTL

(* No approved plan repeats a create whose outcome is unknown, with saves  *)
(* prepared and deletions marked while it is executed, for the sources of  *)
(* which no stale copy took anything back.                                 *)
THEOREM CreatesAreNotRepeatedThroughPreviews == PreviewSpec => []NoDuplicateCreate
<1>1. Inv => NoDuplicateCreate
  BY DEF Inv, Counted, NoDuplicateCreate
<1> QED BY <1>1, PreviewInvariance, PTL

(* A purge leaves nothing behind but what was abandoned, also next to an   *)
(* execution and to deletions marked during its pushes, for the sources of *)
(* which no stale copy took anything back and that were linked before.     *)
THEOREM PurgeIsCompleteThroughPreviews == PreviewSpec => PurgedIsGone
<1>1. Inv /\ [PreviewNext]_<<vars, previewVars>> =>
        [entry # None /\ entry' = None =>
           \A s \in entry.linked \ forgotten : s \in entry.tombstone.abandoned \/ remote[s] = None]_vars
  BY PreviewSteps, PurgeLeavesNothing DEF Listed, vars
<1> QED BY <1>1, PreviewInvariance, PTL DEF PreviewSpec, PurgedIsGone

(* No edit is lost to a pull, whether the command line or an approved plan *)
(* pulls.                                                                  *)
THEOREM PullsKeepEditsThroughPreviews == PreviewSpec => PullKeepsEdits
<1>1. Inv /\ [PreviewNext]_<<vars, previewVars>> =>
        [\A s \in S : Pull(s) /\ entry.tombstone = None /\ entry'.content # entry.content =>
            \E t \in S : entry.base[t] = entry.content]_vars
  BY PullOverwrites
<1> QED BY <1>1, PreviewInvariance, PTL DEF PreviewSpec, PullKeepsEdits

-----------------------------------------------------------------------------
(* From the second plan on, an execution knows what each selected source   *)
(* holds, or that it could not be read, or that it changed since; and its  *)
(* pushes go to selected sources only.                                     *)
JobInv ==
    job # None =>
        /\ job = [step |-> job.step, plan |-> job.plan, seen |-> job.seen, changed |-> job.changed,
                  pulls |-> job.pulls, pushes |-> job.pushes]
        /\ job.step \in {"checked", "approved", "running"}
        /\ job.plan.sources \subseteq S /\ job.pushes \subseteq job.plan.sources
        /\ job.step # "checked" /\ job.plan.pull =>
              \A s \in job.plan.sources : job.seen[s] \in {"unavailable", "later", remote[s]}
        /\ Running /\ pc # "idle" => at \in job.plan.sources
IntentInv ==
    intent # None =>
        /\ intent = [plan |-> intent.plan, seen |-> intent.seen, changed |-> intent.changed]
        /\ intent.plan.sources \subseteq S

(* A step beside the plan that says which sources it changed.              *)
LEMMA ChangeNoticed ==
  ASSUME JobInv, NEW written, NoticedByAll(written), pc' # "idle" /\ Running => at' = at /\ pc # "idle",
         \A s \in S : remote'[s] # remote[s] => s \in written
  PROVE  JobInv'
<1>1. CASE job = None
  BY <1>1 DEF NoticedByAll, JobInv
<1>2. CASE job # None /\ job.step # "checked"
  <2>1. job' = [step |-> job.step, plan |-> job.plan, seen |-> Later(written), changed |-> job.changed,
                pulls |-> job.pulls, pushes |-> job.pushes]
    BY <1>2 DEF NoticedByAll, JobInv
  <2>2. ASSUME job.plan.pull, NEW s \in job.plan.sources
        PROVE  Later(written)[s] \in {"unavailable", "later", remote'[s]}
    BY <1>2, <2>2 DEF JobInv, Later
  <2> QED BY <1>2, <2>1, <2>2 DEF JobInv, Running
<1>3. CASE job # None /\ job.step = "checked"
  <2>1. PICK c : job' = [step |-> "checked", plan |-> job.plan, seen |-> job.seen, changed |-> c,
                         pulls |-> job.pulls, pushes |-> job.pushes]
    BY <1>3 DEF NoticedByAll, JobInv
  <2> QED BY <1>3, <2>1 DEF JobInv, Running
<1> QED BY <1>1, <1>2, <1>3

LEMMA IntentNoticed ==
  ASSUME IntentInv, Noticed PROVE IntentInv'
<1>1. intent' = intent \/ (intent # None /\ intent' = [intent EXCEPT !.changed = TRUE])
  BY DEF Noticed
<1>2. CASE intent' = intent
  BY <1>2 DEF IntentInv
<1>3. CASE intent # None /\ intent' = [intent EXCEPT !.changed = TRUE]
  <2>1. intent' = [plan |-> intent.plan, seen |-> intent.seen, changed |-> TRUE]
    BY <1>3 DEF IntentInv
  <2> QED BY <1>3, <2>1 DEF IntentInv
<1> QED BY <1>1, <1>2, <1>3

(* The second plan: it is the one that was shown, of the sources as they   *)
(* are now.                                                                *)
LEMMA RecheckStep ==
  ASSUME JobInv, Recheck PROVE JobInv'
<1>1. UNCHANGED <<remote, pc, at>> /\ job # None /\ job.step = "checked"
  BY DEF Recheck, MayFail, push
<1>2. PICK failed \in SUBSET S :
        job' = IF ~SamePlan(Listing(job.plan, failed)) THEN None
               ELSE [job EXCEPT !.step = "approved",
                       !.pulls = {s \in job.plan.sources : job.plan.pull /\ job.seen[s] # "unavailable"},
                       !.pushes = {s \in job.plan.sources : job.plan.push /\ PushAction(s) \notin {"none", "conflict"}}]
  BY DEF Recheck
<1>3. CASE job' = None
  BY <1>3 DEF JobInv
<1>4. CASE job' # None
  <2>1. job.seen = Listing(job.plan, failed)
    BY <1>2, <1>4 DEF SamePlan
  <2>2. ASSUME job.plan.pull, NEW s \in job.plan.sources
        PROVE  job.seen[s] \in {"unavailable", "later", remote[s]}
    BY <2>1, <2>2 DEF Listing
  <2>3. PICK pulls, pushes : /\ pushes \subseteq job.plan.sources
                             /\ job' = [step |-> "approved", plan |-> job.plan, seen |-> job.seen,
                                        changed |-> job.changed, pulls |-> pulls, pushes |-> pushes]
    BY <1>1, <1>2, <1>4 DEF JobInv
  <2> QED BY <1>1, <2>2, <2>3 DEF JobInv, Running
<1> QED BY <1>3, <1>4

LEMMA PlanStep ==
  ASSUME JobInv, IntentInv, PreviewNext PROVE JobInv' /\ IntentInv'
<1>1. ASSUME NEW plan \in Plans, Issue(plan) PROVE JobInv' /\ IntentInv'
  <2>1. UNCHANGED <<remote, pc, at, job>>
    BY <1>1 DEF Issue, MayFail, push
  <2>2. PICK seen : intent' = [plan |-> plan, seen |-> seen, changed |-> FALSE]
    BY <1>1 DEF Issue
  <2>3. plan.sources \subseteq S
    BY PreviewAssumption
  <2> QED BY <2>1, <2>2, <2>3 DEF JobInv, IntentInv, Running
<1>2. CASE Expire \/ SavePreferences
  <2>1. UNCHANGED <<remote, pc, at, job>>
    BY <1>2 DEF Expire, SavePreferences, vars, push
  <2>2. CASE Expire
    BY <2>1, <2>2 DEF Expire, JobInv, IntentInv, Running
  <2>3. CASE SavePreferences
    <3>1. intent' = [plan |-> intent.plan, seen |-> intent.seen, changed |-> TRUE]
      BY <2>3 DEF SavePreferences, IntentInv
    <3> QED BY <2>1, <2>3, <3>1 DEF SavePreferences, JobInv, IntentInv, Running
  <2> QED BY <1>2, <2>2, <2>3
<1>3. CASE Consume
  <2>1. intent' = None /\ UNCHANGED <<remote, pc, at>>
    BY <1>3 DEF Consume, vars, push
  <2>2. \/ job' = None
        \/ job' = [step |-> "checked", plan |-> intent.plan, seen |-> intent.seen,
                    changed |-> FALSE, pulls |-> {}, pushes |-> {}]
    BY <1>3 DEF Consume
  <2>3. intent.plan.sources \subseteq S
    BY <1>3 DEF Consume, IntentInv
  <2> QED BY <2>1, <2>2, <2>3 DEF JobInv, IntentInv, Running
<1>4. CASE Recheck
  BY <1>4, RecheckStep DEF Recheck, IntentInv
<1>5. CASE Lock
  <2>1. UNCHANGED <<remote, pc, at, intent>> /\ pc = "idle"
    BY <1>5 DEF Lock, vars, push
  <2>2. /\ job # None /\ job.step = "approved"
        /\ job' = [step |-> "running", plan |-> job.plan, seen |-> job.seen, changed |-> job.changed,
                   pulls |-> job.pulls, pushes |-> job.pushes]
    BY <1>5 DEF Lock, JobInv
  <2> QED BY <2>1, <2>2 DEF JobInv, IntentInv, Running
<1>6. CASE Executed \/ Die
  BY <1>6 DEF Executed, Die, JobInv, IntentInv
<1>7. ASSUME NEW s \in S, ExecutePull(s) PROVE JobInv' /\ IntentInv'
  <2>1. UNCHANGED <<remote, pc, at>> /\ pc = "idle" /\ Noticed
    BY <1>7 DEF ExecutePull, Pull, vars, push
  <2>2. /\ job # None /\ job.step = "running"
        /\ job' = [step |-> job.step, plan |-> job.plan, seen |-> job.seen, changed |-> job.changed,
                   pulls |-> job.pulls \ {s}, pushes |-> job.pushes]
    BY <1>7 DEF ExecutePull, Running, JobInv
  <2> QED BY <2>1, <2>2, IntentNoticed DEF JobInv, Running
<1>8. ASSUME NEW s \in S, ExecutePush(s) PROVE JobInv' /\ IntentInv'
  <2>1. /\ remote' = remote /\ pc = "idle" /\ Noticed /\ s \in job.pushes
        /\ pc' # "idle" => at' = s
    BY <1>8 DEF ExecutePush, PushBegin, Begin, vars, push
  <2>2. /\ job # None /\ job.step = "running"
        /\ job' = [step |-> job.step, plan |-> job.plan, seen |-> job.seen, changed |-> job.changed,
                   pulls |-> job.pulls, pushes |-> job.pushes \ {s}]
    BY <1>8 DEF ExecutePush, Running, JobInv
  <2> QED BY <2>1, <2>2, IntentNoticed DEF JobInv, Running
<1>9. ASSUME NEW s \in S, Elsewhere(s) PROVE JobInv' /\ IntentInv'
  <2>1. UNCHANGED <<pc, at, intent>> /\ \E c : remote' = [remote EXCEPT ![s] = c]
    BY <1>9 DEF Elsewhere, RemoteEdit, push
  <2>2. CASE job = None \/ job.step = "checked"
    BY <1>9, <2>1, <2>2 DEF Elsewhere, JobInv, IntentInv, Running
  <2>3. CASE job # None /\ job.step # "checked"
    <3>1. job' = [step |-> job.step, plan |-> job.plan, seen |-> Later({s}), changed |-> job.changed,
                  pulls |-> job.pulls, pushes |-> job.pushes]
      BY <1>9, <2>3 DEF Elsewhere, JobInv
    <3>2. ASSUME job.plan.pull, NEW r \in job.plan.sources
          PROVE  Later({s})[r] \in {"unavailable", "later", remote'[r]}
      BY <2>1, <2>3, <3>2 DEF JobInv, Later
    <3> QED BY <2>1, <2>3, <3>1, <3>2 DEF JobInv, IntentInv, Running
  <2> QED BY <2>2, <2>3
<1>10. CASE Handler
  <2>1. remote' = remote /\ ~Running /\ NoticedByAll({}) /\ Noticed
    BY <1>10 DEF Handler, NoticedByAll, Hold, Commit, Replace, SaveMark, PutBack, Purge, Abandon, PushBegin, Pull,
                 Resolve
  <2> QED BY <2>1, ChangeNoticed, IntentNoticed
<1>12. CASE Unlocked
  <2>1. remote' = remote /\ pc' = pc /\ at' = at /\ NoticedByAll({}) /\ Noticed
    BY <1>12 DEF Unlocked, NoticedByAll, Prepare, MarkDeleted, push
  <2> QED BY <2>1, ChangeNoticed, IntentNoticed
<1>11. CASE PushStep
  <2>1. PICK written : written = {s \in S : remote'[s] # remote[s]} /\ NoticedByAll(written) /\ Noticed
    BY <1>11 DEF PushStep, NoticedByAll
  <2>2. (pc' # "idle" => at' = at) /\ pc # "idle"
    BY <1>11 DEF PushStep, Push, CallFails, Unreachable, Reconcile, Intent, CallUpdate, CallCreate, Created, Link,
       CallDelete, CallMisses, Acknowledge, Confirm, Finish, Go, Stop
  <2> QED BY <2>1, <2>2, ChangeNoticed, IntentNoticed
<1> QED BY <1>1, <1>2, <1>3, <1>4, <1>5, <1>6, <1>7, <1>8, <1>9, <1>10, <1>11, <1>12 DEF PreviewNext

LEMMA PlanInvariance == PreviewSpec => [](JobInv /\ IntentInv)
<1>1. PreviewInit => JobInv /\ IntentInv
  BY DEF PreviewInit, JobInv, IntentInv
<1>2. JobInv /\ IntentInv /\ [PreviewNext]_<<vars, previewVars>> => (JobInv /\ IntentInv)'
  <2>1. JobInv /\ IntentInv /\ UNCHANGED <<vars, previewVars>> => (JobInv /\ IntentInv)'
    BY DEF JobInv, IntentInv, Running, vars, previewVars, push
  <2> QED BY <2>1, PlanStep
<1> QED BY <1>1, <1>2, PTL DEF PreviewSpec

(* An execution never replaces at a source what its plan did not show,     *)
(* unless it was put there after the second plan, for any plan, any number *)
(* of sources and whatever fails (execute_explicit, the digest of the      *)
(* plan).                                                                  *)
THEOREM OnlyShownIsReplaced == PreviewSpec => ShownIsReplaced
<1>1. JobInv /\ IntentInv /\ [PreviewNext]_<<vars, previewVars>> =>
        [\A s \in S : Replaces(s) /\ job.plan.pull /\ job.seen[s] \notin {"unavailable", "later"} =>
            remote[s] = job.seen[s]]_<<vars, previewVars>>
  BY DEF JobInv, Replaces, Running
<1> QED BY <1>1, PlanInvariance, PTL DEF PreviewSpec, ShownIsReplaced
=============================================================================
