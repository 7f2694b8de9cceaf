------------------------------- MODULE Sharing -------------------------------
(***************************************************************************)
(* Encrypted sharing: links to single accounts and a family vault, kept by *)
(* a separate service that sees ciphertext only (src/src/vault_unified/    *)
(* sharing/).                                                              *)
(*                                                                         *)
(* A desktop writes what it is about to ask into its own encrypted vault   *)
(* (the outbox) and then asks; the answer may be lost, the desktop may     *)
(* lock or die, and the request may reach the service long after a later   *)
(* one.  A signed request is served at most once (its nonce); a retry      *)
(* signs anew.  The service runs every request as one transaction.         *)
(*                                                                         *)
(* One owner holds all the shares and one family; a document is the set of *)
(* changes it holds, a key, a manifest and a blob are numbers drawn once.  *)
(***************************************************************************)
EXTENDS Naturals, FiniteSets

CONSTANTS
    Owner,          \* who founds the family and publishes the shares
    Others,         \* people who may be invited
    Shares,         \* ids of shares, drawn when they are published
    Threads,        \* worker threads of the desktops
    MaxReads,       \* views each share permits
    MaxFresh,       \* bound: numbers drawn
    MaxCalls        \* bound: retries, refreshes and discards

ASSUME SharingAssumption ==
    /\ Owner \notin Others
    /\ MaxReads \in Nat \ {0} /\ MaxFresh \in Nat /\ MaxCalls \in Nat

VARIABLES
    share,              \* the service: rows of shares
    fam,                \* the service: the family's row
    invites, pending,   \* the service: invitations and join requests
    expired,            \* shares and invitations whose deadline passed
    flight,             \* requests whose desktop no longer waits
    desk,               \* per person: the sharing state in their vault
    call,               \* per thread: a request under way
    fresh, left,
    views, completed, applied, knows    \* history: views handed out, operations
                        \* reported as completed, those the service accepted,
                        \* keys each person has held

service == <<share, fam, invites, pending, expired>>
history == <<views, completed, applied, knows>>
vars == <<service, flight, desk, call, fresh, left, history>>

People == Others \cup {Owner}
new == fresh + 1
None == [n |-> 0]
NoFam == [id |-> 0, rev |-> 0, epoch |-> 0, mid |-> 0, role |-> [p \in People |-> "none"],
          wrap |-> [p \in People |-> 0], key |-> 0, blob |-> 0, doc |-> {}, author |-> Owner]
NoDesk == [gen |-> 0, phase |-> [s \in Shares |-> "none"], out |-> {}, wire |-> NoFam, link |-> "none"]
Idle == [at |-> "idle"]
Op(n, act, x) == [n |-> n, act |-> act, x |-> x, who |-> Owner, role |-> "none",
                  rev |-> 0, epoch |-> 0, key |-> 0, doc |-> {}]

(* A family of the owner, and of one other member who may edit or read, or *)
(* who was handed an invitation; `role` is what they have.         *)
Family(who, role) ==
    [NoFam EXCEPT !.id = 1, !.rev = 1, !.epoch = 1, !.mid = 1, !.key = 1, !.blob = 1,
                  !.role = [p \in People |-> IF p = Owner THEN "owner" ELSE IF p = who THEN role ELSE "none"],
                  !.wrap = [p \in People |-> IF p = Owner \/ (p = who /\ role # "none") THEN 1 ELSE 0]]
Member(f) == [NoDesk EXCEPT !.wire = f, !.link = "in"]
Init ==
    /\ \/ fam = NoFam /\ invites = {} /\ completed = {} /\ desk = [p \in People |-> NoDesk]
       \/ \E who \in Others, role \in {"editor", "reader", "none"} :
            /\ fam = Family(who, role)
            /\ invites = IF role = "none" THEN {[id |-> 1, role |-> "editor", accepted |-> Owner]} ELSE {}
            /\ completed = IF role = "none" THEN {[Op(1, "invite", 0) EXCEPT !.role = "editor"]} ELSE {}
            /\ desk = [p \in People |-> IF fam.role[p] # "none" THEN Member(fam) ELSE NoDesk]
    /\ share = [s \in Shares |-> None] /\ pending = {} /\ expired = {} /\ flight = {}
    /\ call = [r \in Threads |-> Idle]
    /\ fresh = 1 /\ left = MaxCalls
    /\ views = [s \in Shares |-> 0] /\ applied = {o.n : o \in completed}
    /\ knows = [p \in People |-> {fam.wrap[p]} \ {0}]

(***************************************************************************)
(* The service; each operation answers with a status and what it returns   *)
(***************************************************************************)
Answer(status) == [status |-> status, revoked |-> FALSE, waiting |-> FALSE]
Ok == Answer("ok")
Info(row) == [Ok EXCEPT !.revoked = row.revoked]
Row(op, revoked) == [n |-> op.n, reads |-> 0, revoked |-> revoked]

KeepFamily == UNCHANGED <<fam, invites, pending, applied>>
KeepAll == UNCHANGED <<share, fam, invites, pending, applied>>
Refuse(a, status) == a = Answer(status) /\ KeepAll

share_create_Anew(op, a) ==     \* mutant: a repeated creation replaces the row
    /\ op.act = "share" /\ op.x \notin expired
    /\ share' = [share EXCEPT ![op.x] = IF @.n # 0 /\ @.revoked THEN @ ELSE Row(op, FALSE)]
    /\ a = Info(share'[op.x]) /\ KeepFamily
share_create(op, a) ==
    /\ op.act = "share"
    /\ \/ share[op.x].n # 0 /\ a = Info(share[op.x]) /\ KeepAll
       \/ /\ share[op.x].n = 0 /\ op.x \notin expired
          /\ share' = [share EXCEPT ![op.x] = Row(op, FALSE)]
          /\ a = Ok /\ KeepFamily
       \/ share[op.x].n = 0 /\ op.x \in expired /\ Refuse(a, "invalid")

(* A revocation that overtakes the creation leaves a row in its place.     *)
share_manage_Silent(op, a) ==   \* mutant: what is missing counts as revoked
    /\ op.act = "revoke-share"
    /\ share' = [share EXCEPT ![op.x] = IF @.n = 0 THEN @ ELSE [@ EXCEPT !.revoked = TRUE]]
    /\ a = [Ok EXCEPT !.revoked = TRUE] /\ KeepFamily
share_manage(op, a) ==
    /\ op.act = "revoke-share"
    /\ share' = [share EXCEPT ![op.x] = IF @.n = 0 THEN Row(op, TRUE) ELSE [@ EXCEPT !.revoked = TRUE]]
    /\ a = Info(share'[op.x]) /\ KeepFamily

share_read(s) ==
    /\ share[s].n # 0 /\ ~share[s].revoked /\ s \notin expired /\ share[s].reads < MaxReads
    /\ share' = [share EXCEPT ![s].reads = @ + 1]
    /\ views' = [views EXCEPT ![s] = @ + 1]
    /\ UNCHANGED <<fam, invites, pending, expired, flight, desk, call, fresh, left, completed, applied, knows>>

(* The purge that opens every transaction, once a deadline has passed; a   *)
(* row goes 30 days later.                                                 *)
Expire(x) ==
    /\ x \notin expired /\ expired' = expired \cup {x}
    /\ invites' = {i \in invites : i.id # x} /\ pending' = {q \in pending : q.id # x}
    /\ UNCHANGED <<share, fam, flight, desk, call, fresh, left, history>>
Prune(s) ==
    /\ s \in expired /\ share[s].n # 0 /\ share' = [share EXCEPT ![s] = None]
    /\ UNCHANGED <<fam, invites, pending, expired, flight, desk, call, fresh, left, history>>

Accepted(op) == applied' = applied \cup {op.n}

(* A repeated creation is known by its id; a second family of the owner is *)
(* not followed.                                                           *)
family_create(op, a) ==
    /\ op.act = "create-family" /\ a = Ok
    /\ \/ fam.id = op.n /\ KeepAll
       \/ /\ fam.rev = 0
          /\ fam' = [Family(Owner, "owner") EXCEPT !.id = op.n, !.mid = op.n, !.blob = op.n, !.key = op.n,
                                                   !.wrap[Owner] = op.n]
          /\ Accepted(op) /\ UNCHANGED <<share, invites, pending>>

accept(p, op, a) ==
    /\ op.act = "join-family"
    /\ LET mine == {i \in invites : i.id = op.x} IN
       \/ (mine = {} \/ \E i \in mine : i.accepted \notin {Owner, p}) /\ Refuse(a, "gone")
       \/ /\ \E i \in mine : i.accepted \in {Owner, p}
          /\ fam.role[p] # "none" /\ a = Ok /\ Accepted(op) /\ UNCHANGED <<share, fam, invites, pending>>
       \/ \E i \in mine :
          /\ i.accepted \in {Owner, p} /\ fam.role[p] = "none"
          /\ invites' = (invites \ {i}) \cup {[i EXCEPT !.accepted = p]}
          /\ pending' = pending \cup {[id |-> i.id, who |-> p, role |-> i.role]}
          /\ a = [Ok EXCEPT !.waiting = TRUE] /\ Accepted(op) /\ UNCHANGED <<share, fam>>

(* `accepted` is the owner as long as nobody accepted.                     *)
invite(op, a) ==
    /\ op.act = "invite"
    /\ \/ op.n \in expired /\ Refuse(a, "invalid")
       \/ /\ op.n \notin expired /\ a = Ok
          /\ IF \E i \in invites : i.id = op.n THEN KeepAll
             ELSE /\ invites' = invites \cup {[id |-> op.n, role |-> op.role, accepted |-> Owner]}
                  /\ Accepted(op) /\ UNCHANGED <<share, fam, pending>>

revoke_invite(op, a) ==
    /\ op.act = "revoke-invite" /\ a = Ok
    /\ invites' = {i \in invites : i.id # op.x} /\ pending' = {q \in pending : q.id # op.x}
    /\ Accepted(op) /\ UNCHANGED <<share, fam>>

revision_Any(op) == op.epoch = fam.epoch     \* mutant: only the key is compared
revision(op) == op.rev = fam.rev

write_content(op, author, f) ==
    [f EXCEPT !.rev = @ + 1, !.blob = op.n, !.key = op.key, !.doc = op.doc, !.author = author]

write(p, op, a) ==
    /\ op.act = "write"
    /\ \/ fam.role[p] = "reader" /\ Refuse(a, "denied")
       \/ /\ fam.role[p] # "reader"
          /\ IF ~revision(op) \/ op.epoch # fam.epoch THEN Refuse(a, "conflict")
             ELSE fam' = write_content(op, p, fam) /\ a = Ok /\ Accepted(op) /\ UNCHANGED <<share, invites, pending>>

approve(op, a) ==
    /\ op.act = "approve-member"
    /\ \/ ~revision(op) /\ Refuse(a, "conflict")
       \/ revision(op) /\ [id |-> op.x, who |-> op.who, role |-> op.role] \notin pending /\ Refuse(a, "gone")
       \/ /\ revision(op) /\ [id |-> op.x, who |-> op.who, role |-> op.role] \in pending
          /\ fam' = [fam EXCEPT !.rev = @ + 1, !.mid = op.n, !.role[op.who] = op.role, !.wrap[op.who] = op.key]
          /\ pending' = {q \in pending : q.who # op.who}
          /\ invites' = {i \in invites : i.accepted # op.who}
          /\ a = Ok /\ Accepted(op) /\ UNCHANGED share

remove(op, a) ==
    /\ op.act = "remove-member"
    /\ \/ ~revision(op) /\ Refuse(a, "conflict")
       \/ /\ revision(op)
          /\ fam' = [write_content(op, Owner, fam) EXCEPT !.epoch = @ + 1, !.mid = op.n, !.role[op.who] = "none",
                        !.wrap = [p \in People |-> IF p = op.who \/ fam.role[p] = "none" THEN 0 ELSE op.key]]
          /\ invites' = {} /\ pending' = {}
          /\ a = Ok /\ Accepted(op) /\ UNCHANGED share

FamilyOf(act) == act \notin {"share", "revoke-share"}

(* Membership is looked at before the operation is.                        *)
family_operation(p, op, a) ==
    \/ family_create(op, a) \/ accept(p, op, a)
    \/ /\ FamilyOf(op.act) /\ op.act \notin {"create-family", "join-family"} /\ fam.role[p] = "none"
       /\ Refuse(a, IF fam.rev = 0 THEN "missing" ELSE "denied")
    \/ fam.role[p] # "none" /\ (invite(op, a) \/ revoke_invite(op, a) \/ write(p, op, a) \/ approve(op, a) \/ remove(op, a))

Answers == [status : {"ok", "invalid", "missing", "denied", "conflict", "gone"}, revoked : BOOLEAN, waiting : BOOLEAN]
Serve(p, op, a) == share_create(op, a) \/ share_manage(op, a) \/ family_operation(p, op, a)

(***************************************************************************)
(* The desktop: an operation is previewed and saved in the vault.  The     *)
(* preview holds for one generation of the vault, so what it looked at is  *)
(* what apply finds.                                                       *)
(***************************************************************************)
verify_family(p, w) == w.role[w.author] \in {"owner", "editor"} /\ w.role[p] # "none" /\ w.wrap[p] = w.key
Role(p) == IF desk[p].link = "in" /\ verify_family(p, desk[p].wire) THEN desk[p].wire.role[p] ELSE "none"
Proposal(act, x, w) == [Op(new, act, x) EXCEPT !.rev = w.rev, !.epoch = w.epoch, !.key = w.key]
PendingFamily(p) == {o \in desk[p].out : FamilyOf(o.act)}

Save(p, op, d) ==
    /\ fresh < MaxFresh /\ fresh' = new
    /\ desk' = [desk EXCEPT ![p] = [d EXCEPT !.gen = @ + 1, !.out = @ \cup {op}]]
    /\ UNCHANGED <<service, flight, call, left, history>>

PublishShare ==
    \E s \in Shares : /\ desk[Owner].phase[s] = "none"
                      /\ Save(Owner, Op(new, "share", s), [desk[Owner] EXCEPT !.phase[s] = "pending"])

(* The creation that waits in the outbox is never sent again.              *)
RevokeShare ==
    \E s \in Shares :
        /\ desk[Owner].phase[s] # "none"
        /\ Save(Owner, Op(new, "revoke-share", s),
                [desk[Owner] EXCEPT !.phase[s] = "revoking", !.out = {o \in @ : FamilyOf(o.act) \/ o.x # s}])

create_family == desk[Owner].link = "none" /\ Save(Owner, Op(new, "create-family", 0), [desk[Owner] EXCEPT !.link = "in"])

(* The code is handed over once the owner's desktop knows that the         *)
(* invitation is there.                                                    *)
JoinFamily(p) ==
    /\ p # Owner /\ desk[p].link \in {"none", "removed"}
    /\ \E o \in completed : o.act = "invite" /\ Save(p, Op(new, "join-family", o.n), [desk[p] EXCEPT !.link = "waiting", !.wire = NoFam])

ManageFamily(p) ==
    LET w == desk[p].wire IN
    /\ Role(p) = "owner" /\ PendingFamily(p) = {}
    /\ \/ \E role \in {"editor", "reader"} : Save(p, [Op(new, "invite", 0) EXCEPT !.role = role], desk[p])
       \/ \E i \in invites : Save(p, Op(new, "revoke-invite", i.id), desk[p])
       \/ \E q \in pending :
            /\ w.role[q.who] = "none"
            /\ Save(p, [Proposal("approve-member", q.id, w) EXCEPT !.who = q.who, !.role = q.role], desk[p])

remove_proposal_SameKey(p) ==   \* mutant: the key is not drawn anew
    \E m \in {q \in Others : desk[p].wire.role[q] # "none"} :
        Save(p, [Proposal("remove-member", 0, desk[p].wire) EXCEPT !.who = m, !.doc = desk[p].wire.doc], desk[p])
remove_proposal(p) ==
    \E m \in {q \in Others : desk[p].wire.role[q] # "none"} :
        Save(p, [Proposal("remove-member", 0, desk[p].wire) EXCEPT !.who = m, !.key = new, !.doc = desk[p].wire.doc], desk[p])
RemoveMember(p) == Role(p) = "owner" /\ PendingFamily(p) = {} /\ remove_proposal(p)

(* save-entry, trash-entry, restore-entry, restore-history; a draft that   *)
(* met a conflict may be replaced by one made from the refreshed family.   *)
write_proposal(p) ==
    LET w == desk[p].wire IN
    /\ Role(p) \in {"owner", "editor"}
    /\ \A o \in PendingFamily(p) : o.act = "write"
    /\ Save(p, [Proposal("write", 0, w) EXCEPT !.doc = w.doc \cup {new}], [desk[p] EXCEPT !.out = @ \ PendingFamily(p)])

apply == PublishShare \/ RevokeShare \/ create_family
         \/ \E p \in People : JoinFamily(p) \/ ManageFamily(p) \/ RemoveMember(p) \/ write_proposal(p)

(***************************************************************************)
(* The desktop: requests.  The state is read, then the generation that the *)
(* commit compares; a change between the two is not noticed.               *)
(***************************************************************************)
At(r, at) == call[r].at = at
Go(r, c) == call' = [call EXCEPT ![r] = c]
Begin(r, p, kind, op) ==
    /\ At(r, "idle") /\ left > 0 /\ left' = left - 1
    /\ Go(r, [at |-> "read", p |-> p, kind |-> kind, op |-> op, snap |-> desk[p], gen |-> 0, a |-> Ok, wire |-> NoFam])
    /\ UNCHANGED <<service, flight, desk, fresh, history>>

retry(r, p) == \E op \in desk[p].out : Begin(r, p, "retry", op)
refresh(r, p) == desk[p].link # "none" /\ Begin(r, p, "refresh", None)
(* An operation on the family is discarded after a refresh.                *)
discard(r, p) == \E op \in PendingFamily(p) : Begin(r, p, "discard", op)

Generation(r) ==
    /\ At(r, "read")
    /\ Go(r, [call[r] EXCEPT !.gen = desk[call[r].p].gen,
                !.at = IF call[r].kind = "retry" THEN "send"
                       ELSE IF call[r].kind = "discard" /\ call[r].op.act \in {"join-family", "create-family"} THEN "pop"
                       ELSE "fetch"])
    /\ UNCHANGED <<service, flight, desk, fresh, left, history>>

post(r) ==
    /\ At(r, "send")
    /\ \E a \in Answers : /\ Serve(call[r].p, call[r].op, a)
                          /\ Go(r, [call[r] EXCEPT !.at = "answered", !.a = a])
    /\ UNCHANGED <<expired, flight, desk, fresh, left, views, completed, knows>>

(* The desktop gives up (15 seconds), is locked or dies; the request does  *)
(* not, and may be served later.                                           *)
Timeout(r) ==
    /\ At(r, "send") /\ Go(r, Idle)
    /\ flight' = flight \cup {[p |-> call[r].p, op |-> call[r].op, n |-> left]}
    /\ UNCHANGED <<service, desk, fresh, left, history>>
Late ==
    \E q \in flight : /\ \E a \in Answers : Serve(q.p, q.op, a)
                      /\ flight' = flight \ {q}
                      /\ UNCHANGED <<expired, desk, call, fresh, left, views, completed, knows>>
Drop(r) ==
    /\ ~At(r, "idle") /\ Go(r, Idle)
    /\ UNCHANGED <<service, flight, desk, fresh, left, history>>

(* The previous answer may have been lost: the operation counts as done if *)
(* the family holds what it proposed.                                      *)
matches_Any(op) == TRUE         \* mutant: a conflict means that it was done before
matches(op) ==
    /\ IF op.act = "write" THEN fam.blob = op.n ELSE fam.mid = op.n
    /\ fam.rev >= op.rev + 1
Verifiable == {"write", "approve-member", "remove-member"}
CheckDone(r) ==
    LET c == call[r] IN
    /\ At(r, "answered") /\ c.a.status \in {"conflict", "gone"} /\ c.op.act \in Verifiable
    /\ fam.role[c.p] # "none" /\ verify_family(c.p, fam) /\ matches(c.op)
    /\ Go(r, [c EXCEPT !.a = Ok])
    /\ UNCHANGED <<service, flight, desk, fresh, left, history>>

(* What the service returns must not be older than what the desktop has.   *)
ReadFamily(r, next) ==
    LET c == call[r] IN
    /\ fam.role[c.p] # "none" /\ verify_family(c.p, fam)
    /\ fam.rev >= c.snap.wire.rev /\ fam.epoch >= c.snap.wire.epoch
    /\ knows' = [knows EXCEPT ![c.p] = @ \cup {fam.wrap[c.p]}]
    /\ Go(r, [c EXCEPT !.at = next, !.wire = fam])
    /\ UNCHANGED <<service, flight, desk, fresh, left, views, completed, applied>>

Answered(r) ==
    LET c == call[r] IN
    /\ At(r, "answered") /\ c.a.status = "ok"
    /\ IF FamilyOf(c.op.act) /\ ~c.a.waiting THEN ReadFamily(r, "commit")
       ELSE Go(r, [c EXCEPT !.at = "commit"]) /\ UNCHANGED <<service, flight, desk, fresh, left, history>>

Fetch(r) ==
    LET c == call[r] IN
    /\ At(r, "fetch")
    /\ \/ ReadFamily(r, "commit")
       \/ /\ fam.rev # 0 /\ fam.role[c.p] = "none"
          /\ ~(c.snap.link = "waiting" /\ \E q \in pending : q.who = c.p)
          /\ Go(r, [c EXCEPT !.at = "commit"])
          /\ UNCHANGED <<service, flight, desk, fresh, left, history>>

Refreshed(c) == IF c.wire.rev = 0 THEN [c.snap EXCEPT !.wire = NoFam, !.link = "removed"]
                ELSE [c.snap EXCEPT !.wire = c.wire, !.link = "in"]
Completed(c) ==
    LET d == [c.snap EXCEPT !.out = @ \ {c.op}] IN
    IF ~FamilyOf(c.op.act) THEN [d EXCEPT !.phase[c.op.x] = IF c.a.revoked THEN "revoked" ELSE "ready"]
    ELSE IF c.a.waiting THEN [d EXCEPT !.link = "waiting"]
    ELSE [d EXCEPT !.wire = c.wire, !.link = "in"]

commit(r) ==
    LET c == call[r] IN
    /\ At(r, "commit") /\ desk[c.p].gen = c.gen
    /\ desk' = [desk EXCEPT ![c.p] = [(IF c.kind = "retry" THEN Completed(c) ELSE Refreshed(c)) EXCEPT !.gen = c.gen + 1]]
    /\ completed' = IF c.kind = "retry" THEN completed \cup {c.op} ELSE completed
    /\ Go(r, IF c.kind = "discard" /\ c.wire.rev # 0 THEN [c EXCEPT !.at = "pop"] ELSE Idle)
    /\ UNCHANGED <<service, flight, fresh, left, views, applied, knows>>

Pop(r) ==
    LET c == call[r] IN
    /\ At(r, "pop") /\ Go(r, Idle)
    /\ desk' = [desk EXCEPT ![c.p] = [desk[c.p] EXCEPT !.gen = @ + 1, !.out = {o \in @ : o.n # c.op.n}]]
    /\ UNCHANGED <<service, flight, fresh, left, history>>

-----------------------------------------------------------------------------
Request(r) == Generation(r) \/ post(r) \/ Timeout(r) \/ Drop(r) \/ CheckDone(r) \/ Answered(r) \/ Fetch(r) \/ commit(r) \/ Pop(r)
Next ==
    \/ apply \/ Late
    \/ \E x \in {s \in Shares : desk[Owner].phase[s] # "none"} \cup {i.id : i \in invites} : Expire(x)
    \/ \E s \in Shares : share_read(s) \/ Prune(s)
    \/ \E r \in Threads : Request(r) \/ \E p \in People : retry(r, p) \/ refresh(r, p) \/ discard(r, p)
Spec == Init /\ [][Next]_vars

-----------------------------------------------------------------------------
(***************************************************************************)
(* Properties                                                              *)
(***************************************************************************)
(* A share is opened at most as often as its owner permitted, although its *)
(* creation is repeated after answers were lost (share_create, share_read).*)
ViewsWithinLimit == \A s \in Shares : views[s] <= MaxReads

(* Nobody opens a share that its owner's desktop shows as revoked, in      *)
(* whatever order creation, repetition and revocation reach the service.   *)
RevokedIsGone == [][\A s \in Shares : views'[s] # views[s] => desk[Owner].phase[s] # "revoked"]_vars

(* The family's document loses no accepted change: every accepted proposal *)
(* was made from the document it replaces, also the one that removes a     *)
(* member and the one that comes late (revision, membership).              *)
SharedEditsKept == [][fam.doc \subseteq fam'.doc]_vars

(* The document is readable by exactly the members: each can unwrap the    *)
(* key that encrypts it and trusts its author, and nobody who was removed  *)
(* has held that key (membership, remove_proposal, verify_family).         *)
ReadableByMembers ==
    fam.rev # 0 => \A p \in People : IF fam.role[p] # "none" THEN verify_family(p, fam) ELSE fam.key \notin knows[p]

(* What a desktop reports as completed the service did accept, although    *)
(* answers are lost and conflicts are taken for repetitions (retry).       *)
CompletedWasAccepted == \A op \in completed : FamilyOf(op.act) => op.n \in applied
=============================================================================
