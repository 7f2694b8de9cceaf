---------------------------- MODULE SharingProofs ----------------------------
(***************************************************************************)
(* Sharing for any number of people, shares, threads, repetitions and late *)
(* requests: the views of a share, its revocation, the family's document   *)
(* and who can read it, and what is reported as completed.  The service    *)
(* alone limits the views; the others need what the desktops, their        *)
(* requests and the requests that nobody waits for any more still carry.   *)
(***************************************************************************)
EXTENDS Sharing, TLAPS

(* A share that nobody can open again, whatever request comes late.        *)
Gone(s) == s \in expired \/ (share[s].n # 0 /\ share[s].revoked)

(* The views are the row's, until the deadline.                            *)
Counted(s) ==
    /\ \/ share[s] = None
       \/ /\ share[s] = [n |-> share[s].n, reads |-> share[s].reads, revoked |-> share[s].revoked]
          /\ share[s].reads \in Nat /\ share[s].revoked \in BOOLEAN
    /\ views[s] \in Nat /\ views[s] <= MaxReads
    /\ s \notin expired => views[s] = IF share[s].n = 0 THEN 0 ELSE share[s].reads

Rows ==
    /\ share = [s \in Shares |-> share[s]] /\ views = [s \in Shares |-> views[s]]
    /\ \A s \in Shares : Counted(s)

Founded ==
    /\ fam = [id |-> fam.id, rev |-> fam.rev, epoch |-> fam.epoch, mid |-> fam.mid, role |-> fam.role, wrap |-> fam.wrap,
              key |-> fam.key, blob |-> fam.blob, doc |-> fam.doc, author |-> fam.author]
    /\ fam.rev \in Nat /\ (fam.rev = 0 => fam = NoFam)

(* A key that the family uses or that somebody has had.                    *)
Held(k) == k = fam.key \/ \E p \in People : k \in knows[p]

(* A copy of the family: as it is, or of an earlier revision.              *)
Copied(w) == w.rev \in Nat /\ w.rev <= fam.rev /\ (w.rev = fam.rev => w = fam)

(* What a proposal was made from: the family as it is, or an earlier       *)
(* revision.  One that removes a member brings a key that nobody has seen. *)
Made(op) ==
    /\ op.act \in {"write", "approve-member", "remove-member"} => op.rev \in Nat /\ op.rev <= fam.rev
    /\ op.act \in {"write", "remove-member"} /\ op.rev = fam.rev => fam.doc \subseteq op.doc
    /\ op.act \in {"write", "approve-member"} /\ op.rev = fam.rev => op.key = fam.key
    /\ op.act = "remove-member" => op.who \in Others /\ op.key = op.n /\ (op.rev = fam.rev => ~Held(op.key))
    /\ op.act = "invite" => op.role \in {"editor", "reader"}
Based(op) == op.n \in Nat \ {0, 1} /\ op.n <= fresh /\ Made(op)

(* Who belongs to the family and who is about to, and that exactly the     *)
(* members can read it.                                                    *)
Roles == {"none", "owner", "editor", "reader"}
Members ==
    /\ fam.role = [p \in People |-> fam.role[p]] /\ fam.wrap = [p \in People |-> fam.wrap[p]]
    /\ knows = [p \in People |-> knows[p]]
    /\ fam.author \in People /\ \A p \in People : fam.role[p] \in Roles
    /\ fam.rev = 0 => invites = {} /\ pending = {} /\ \A p \in People : knows[p] = {}
    /\ fam.rev # 0 => fam.role[Owner] = "owner"
    /\ \A i \in invites : i = [id |-> i.id, role |-> i.role, accepted |-> i.accepted] /\ i.role \in {"editor", "reader"}
    /\ \A q \in pending : q.role \in {"editor", "reader"} /\ q.who \in People /\ fam.role[q.who] = "none"
    /\ \A k : Held(k) => k \in Nat /\ k <= fresh
    /\ ReadableByMembers

DeskOk(d) ==
    /\ d = [gen |-> d.gen, phase |-> d.phase, out |-> d.out, wire |-> d.wire, link |-> d.link]
    /\ d.phase = [s \in Shares |-> d.phase[s]]
    /\ \A op \in d.out : Based(op)
    /\ Copied(d.wire)
    /\ \A s \in Shares : d.phase[s] = "revoked" => Gone(s)

Steps == {"read", "send", "answered", "fetch", "commit", "pop"}
CallOk(c) ==
    \/ c.at = "idle"
    \/ /\ c = [at |-> c.at, p |-> c.p, kind |-> c.kind, op |-> c.op, snap |-> c.snap, gen |-> c.gen,
               a |-> c.a, wire |-> c.wire]
       /\ c.at \in Steps /\ c.p \in People /\ DeskOk(c.snap) /\ Copied(c.wire)
       /\ c.kind = "retry" => Based(c.op)
       /\ (c.at \in {"send", "answered"} => c.kind = "retry") /\ (c.at = "fetch" => c.kind # "retry")
       /\ (/\ c.at \in {"answered", "commit"} /\ c.kind = "retry" /\ ~FamilyOf(c.op.act)
           /\ c.a.revoked /\ c.op.x \in Shares) => Gone(c.op.x)

Inv ==
    /\ Rows /\ Founded /\ Members /\ fresh \in Nat \ {0}
    /\ desk = [p \in People |-> desk[p]] /\ \A p \in People : DeskOk(desk[p])
    /\ call = [r \in Threads |-> call[r]] /\ \A r \in Threads : CallOk(call[r])
    /\ \A q \in flight : q.p \in People /\ Based(q.op)

(* What is known of a share or a revision does not become false when the   *)
(* service goes on, and nobody gets a new key but with a new revision.     *)
GoesOn ==
    /\ fam' = fam \/ fam'.rev > fam.rev
    /\ fam'.rev \in Nat
    /\ \A s \in Shares : Gone(s) => Gone(s)'
Learns ==
    /\ fresh \in Nat \ {0} /\ fresh' \in Nat \ {0} /\ fresh <= fresh'
    /\ fam' = fam => \A k : Held(k)' => Held(k)

(* So every copy, proposal, vault and request stays in order.              *)
LEMMA Remains ==
  ASSUME Founded, GoesOn, Learns
  PROVE  /\ \A w : Copied(w) => Copied(w)'
         /\ \A op : Based(op) => Based(op)'
         /\ \A d : DeskOk(d) => DeskOk(d)'
         /\ \A c : CallOk(c) => CallOk(c)'
<1>1. ASSUME NEW w, Copied(w) PROVE Copied(w)'
  BY <1>1 DEF Copied, GoesOn, Founded
<1>2. ASSUME NEW op, Based(op) PROVE Based(op)'
  <2>1. op.n \in Nat \ {0, 1} /\ op.n <= fresh'
    BY <1>2 DEF Based, Learns
  <2>2. CASE fam' = fam
    BY <1>2, <2>1, <2>2 DEF Based, Made, Learns
  <2>3. CASE fam'.rev > fam.rev
    BY <1>2, <2>1, <2>3 DEF Based, Made, GoesOn, Founded
  <2> QED BY <2>2, <2>3 DEF GoesOn
<1>3. ASSUME NEW d, DeskOk(d) PROVE DeskOk(d)'
  BY <1>1, <1>2, <1>3 DEF DeskOk, GoesOn
<1>4. ASSUME NEW c, CallOk(c) PROVE CallOk(c)'
  <2>1. CASE c.at = "idle"
    BY <2>1 DEF CallOk
  <2>2. CASE c.at # "idle"
    <3>1. DeskOk(c.snap)' /\ Copied(c.wire)' /\ (c.kind = "retry" => Based(c.op)')
      BY <1>1, <1>2, <1>3, <1>4, <2>2 DEF CallOk
    <3>2. /\ c = [at |-> c.at, p |-> c.p, kind |-> c.kind, op |-> c.op, snap |-> c.snap, gen |-> c.gen,
                  a |-> c.a, wire |-> c.wire]
          /\ c.at \in Steps /\ c.p \in People
          /\ (c.at \in {"send", "answered"} => c.kind = "retry") /\ (c.at = "fetch" => c.kind # "retry")
          /\ (/\ c.at \in {"answered", "commit"} /\ c.kind = "retry" /\ ~FamilyOf(c.op.act)
              /\ c.a.revoked /\ c.op.x \in Shares) => Gone(c.op.x)'
      BY <1>4, <2>2 DEF CallOk, GoesOn
    <3> QED BY <3>1, <3>2 DEF CallOk
  <2> QED BY <2>1, <2>2
<1> QED BY <1>1, <1>2, <1>3, <1>4

-----------------------------------------------------------------------------
(* A family of two people, spelled out.                                    *)
LEMMA NewFamily ==
  ASSUME NEW who, NEW role, NEW f, f = Family(who, role)
  PROVE  f = [id |-> 1, rev |-> 1, epoch |-> 1, mid |-> 1,
              role |-> [p \in People |-> IF p = Owner THEN "owner" ELSE IF p = who THEN role ELSE "none"],
              wrap |-> [p \in People |-> IF p = Owner \/ (p = who /\ role # "none") THEN 1 ELSE 0],
              key |-> 1, blob |-> 1, doc |-> {}, author |-> Owner]
<1>1. PICK n, r, w :
        /\ n = NoFam /\ r = [p \in People |-> IF p = Owner THEN "owner" ELSE IF p = who THEN role ELSE "none"]
        /\ w = [p \in People |-> IF p = Owner \/ (p = who /\ role # "none") THEN 1 ELSE 0]
        /\ f = [n EXCEPT !.id = 1, !.rev = 1, !.epoch = 1, !.mid = 1, !.key = 1, !.blob = 1, !.role = r, !.wrap = w]
  BY DEF Family
<1>2. PICK none, zero :
        n = [id |-> 0, rev |-> 0, epoch |-> 0, mid |-> 0, role |-> none, wrap |-> zero, key |-> 0, blob |-> 0, doc |-> {}, author |-> Owner]
  BY <1>1 DEF NoFam
<1>3. PICK n0, n1, n2 : /\ n0 = [n EXCEPT !.id = 1, !.rev = 1] /\ n1 = [n0 EXCEPT !.epoch = 1, !.mid = 1]
                        /\ n2 = [n1 EXCEPT !.key = 1, !.blob = 1]
  OBVIOUS
<1>0. n0 = [id |-> 1, rev |-> 1, epoch |-> 0, mid |-> 0, role |-> none, wrap |-> zero, key |-> 0, blob |-> 0, doc |-> {}, author |-> Owner]
  BY <1>2, <1>3
<1>4. n1 = [id |-> 1, rev |-> 1, epoch |-> 1, mid |-> 1, role |-> none, wrap |-> zero, key |-> 0, blob |-> 0, doc |-> {}, author |-> Owner]
  <2>1. PICK e : e = [n0 EXCEPT !.epoch = 1]
    OBVIOUS
  <2>2. e = [id |-> 1, rev |-> 1, epoch |-> 1, mid |-> 0, role |-> none, wrap |-> zero, key |-> 0, blob |-> 0, doc |-> {}, author |-> Owner]
    BY <1>0, <2>1
  <2>3. n1 = [e EXCEPT !.mid = 1]
    BY <1>3, <2>1
  <2> QED BY <2>2, <2>3
<1>5. n2 = [id |-> 1, rev |-> 1, epoch |-> 1, mid |-> 1, role |-> none, wrap |-> zero, key |-> 1, blob |-> 1, doc |-> {}, author |-> Owner]
  <2>1. PICK k : k = [n1 EXCEPT !.key = 1]
    OBVIOUS
  <2>2. k = [id |-> 1, rev |-> 1, epoch |-> 1, mid |-> 1, role |-> none, wrap |-> zero, key |-> 1, blob |-> 0, doc |-> {}, author |-> Owner]
    BY <1>4, <2>1
  <2>3. n2 = [k EXCEPT !.blob = 1]
    BY <1>3, <2>1
  <2> QED BY <2>2, <2>3
<1>6. f = [n2 EXCEPT !.role = r, !.wrap = w]
  BY <1>1, <1>3
<1>7. f = [id |-> 1, rev |-> 1, epoch |-> 1, mid |-> 1, role |-> r, wrap |-> w, key |-> 1, blob |-> 1, doc |-> {}, author |-> Owner]
  BY <1>5, <1>6
<1> QED BY <1>1, <1>7

(* The first revision, which only its founder can read.                    *)
First(n) == [Family(Owner, "owner") EXCEPT !.id = n, !.mid = n, !.blob = n, !.key = n, !.wrap[Owner] = n]
LEMMA FirstRevision ==
  ASSUME NEW n
  PROVE  \E role, wrap :
           /\ First(n) = [id |-> n, rev |-> 1, epoch |-> 1, mid |-> n, role |-> role, wrap |-> wrap, key |-> n, blob |-> n, doc |-> {},
                   author |-> Owner]
           /\ role = [p \in People |-> IF p = Owner THEN "owner" ELSE "none"]
           /\ wrap = [p \in People |-> wrap[p]] /\ wrap[Owner] = n
<1>1. PICK f, o, role, wrap :
        /\ f = First(n) /\ o = Family(Owner, "owner") /\ role = [p \in People |-> IF p = Owner THEN "owner" ELSE "none"]
        /\ wrap = [p \in People |-> IF p = Owner THEN 1 ELSE 0]
  OBVIOUS
<1>2. o = [id |-> 1, rev |-> 1, epoch |-> 1, mid |-> 1, role |-> role, wrap |-> wrap, key |-> 1, blob |-> 1, doc |-> {}, author |-> Owner]
  <2>1. PICK r, w :
          /\ r = [p \in People |-> IF p = Owner THEN "owner" ELSE IF p = Owner THEN "owner" ELSE "none"]
          /\ w = [p \in People |-> IF p = Owner \/ (p = Owner /\ "owner" # "none") THEN 1 ELSE 0]
    OBVIOUS
  <2>2. o = [id |-> 1, rev |-> 1, epoch |-> 1, mid |-> 1, role |-> r, wrap |-> w, key |-> 1, blob |-> 1, doc |-> {}, author |-> Owner]
    BY <1>1, <2>1, NewFamily
  <2>3. r = role /\ w = wrap
    BY <1>1, <2>1
  <2> QED BY <2>2, <2>3
<1>3. PICK g, h : g = [o EXCEPT !.id = n, !.mid = n, !.blob = n] /\ h = [wrap EXCEPT ![Owner] = n]
  OBVIOUS
<1>4. g = [id |-> n, rev |-> 1, epoch |-> 1, mid |-> n, role |-> role, wrap |-> wrap, key |-> 1, blob |-> n, doc |-> {}, author |-> Owner]
  BY <1>2, <1>3
<1>5. PICK k : k = [g EXCEPT !.key = n] /\ f = [k EXCEPT !.wrap[Owner] = n]
  BY <1>1, <1>3 DEF First
<1>6. k = [id |-> n, rev |-> 1, epoch |-> 1, mid |-> n, role |-> role, wrap |-> wrap, key |-> n, blob |-> n, doc |-> {}, author |-> Owner]
  BY <1>4, <1>5
<1>8. f = [k EXCEPT !.wrap = h]
  <2>1. f = [k EXCEPT !.wrap = [k.wrap EXCEPT ![Owner] = n]]
    BY <1>5
  <2>2. k.wrap = wrap
    BY <1>6
  <2> QED BY <1>3, <2>1, <2>2
<1>9. f = [id |-> n, rev |-> 1, epoch |-> 1, mid |-> n, role |-> role, wrap |-> h, key |-> n, blob |-> n, doc |-> {}, author |-> Owner]
  BY <1>6, <1>8
<1>7. h = [p \in People |-> h[p]] /\ h[Owner] = n
  BY <1>1, <1>3 DEF People
<1> QED BY <1>1, <1>7, <1>9

(* One request at the service: it only adds to the family's document, and  *)
(* an answer that says "revoked" is true from then on.                     *)
LEMMA Served ==
  ASSUME Rows, Founded, NEW p, NEW op, Based(op), NEW a, Serve(p, op, a), UNCHANGED <<expired, views>>
  PROVE  /\ Rows' /\ Founded' /\ GoesOn
         /\ fam.doc \subseteq fam'.doc
         /\ ~FamilyOf(op.act) /\ a.revoked /\ op.x \in Shares => Gone(op.x)'
<1>a. op.n \in Nat \ {0}
  BY DEF Based
<1>b. ASSUME NEW status PROVE ~Answer(status).revoked
  BY DEF Answer
<1>c. ASSUME share' = share
      PROVE  Rows' /\ \A s \in Shares : Gone(s) => Gone(s)'
  BY <1>c DEF Rows, Counted, Gone
<1>d. ASSUME fam' = fam PROVE Founded' /\ fam.doc \subseteq fam'.doc /\ fam'.rev \in Nat
  BY <1>d DEF Founded
<1>e. fam = [id |-> fam.id, rev |-> fam.rev, epoch |-> fam.epoch, mid |-> fam.mid, role |-> fam.role, wrap |-> fam.wrap,
             key |-> fam.key, blob |-> fam.blob, doc |-> fam.doc, author |-> fam.author]
  BY DEF Founded
<1>g. ASSUME NEW f, NEW author, f = write_content(op, author, fam)
      PROVE  f =
                [id |-> fam.id, rev |-> fam.rev + 1, epoch |-> fam.epoch, mid |-> fam.mid, role |-> fam.role, wrap |-> fam.wrap,
                 key |-> op.key, blob |-> op.n, doc |-> op.doc, author |-> author]
  BY <1>e, <1>g DEF write_content
<1>f. ASSUME NEW i, NEW e, NEW m, NEW role, NEW wrap, NEW k, NEW b, NEW doc, NEW author,
             fam' = [id |-> i, rev |-> fam.rev + 1, epoch |-> e, mid |-> m, role |-> role, wrap |-> wrap,
                     key |-> k, blob |-> b, doc |-> doc, author |-> author]
      PROVE  fam'.rev = fam.rev + 1 /\ fam'.doc = doc /\ Founded'
  BY <1>f DEF Founded
<1>1. CASE op.act \in {"share", "revoke-share"} /\ fam' = fam
  <2>1. Founded' /\ fam.doc \subseteq fam'.doc /\ fam'.rev \in Nat
    BY <1>1, <1>d
  <2>2. CASE share' = share
    <3>1. share_create(op, a) \/ share_manage(op, a)
      BY <1>1 DEF Serve, family_operation, family_create, accept, FamilyOf, invite, revoke_invite, write, approve, remove
    <3>2. a.revoked /\ op.x \in Shares => Gone(op.x)'
      <4>1. CASE share_create(op, a)
        BY <1>b, <2>2, <4>1 DEF share_create, Refuse, Ok, Info, Answer, Gone
      <4>2. CASE share_manage(op, a)
        <5>1. ASSUME op.x \in Shares PROVE share'[op.x].n # 0 /\ a.revoked = share'[op.x].revoked
          <6>1. share'[op.x] = IF share[op.x].n = 0 THEN Row(op, TRUE) ELSE [share[op.x] EXCEPT !.revoked = TRUE]
            BY <4>2, <5>1 DEF share_manage, Rows
          <6>2. share'[op.x].n # 0
            BY <1>a, <5>1, <6>1 DEF Row, Rows, Counted
          <6> QED BY <4>2, <6>2 DEF share_manage, Info, Ok, Answer
        <5> QED BY <5>1 DEF Gone
      <4> QED BY <3>1, <4>1, <4>2
    <3> QED BY <1>1, <1>c, <2>1, <2>2, <3>2 DEF GoesOn
  <2>3. CASE share' # share
    <3>1. \/ /\ share[op.x].n = 0 /\ op.x \notin expired
             /\ share' = [share EXCEPT ![op.x] = Row(op, FALSE)] /\ a = Ok
          \/ /\ share' = [share EXCEPT ![op.x] = IF share[op.x].n = 0 THEN Row(op, TRUE)
                                                 ELSE [share[op.x] EXCEPT !.revoked = TRUE]]
             /\ a = Info(share'[op.x])
      BY <1>1, <2>3 DEF Serve, share_create, share_manage, family_operation, family_create, accept, FamilyOf, invite,
                        revoke_invite, write, approve, remove, Refuse, KeepAll
    <3>2. \A s \in Shares \ {op.x} : share'[s] = share[s]
      BY <3>1 DEF Rows
    <3>3. share' = [s \in Shares |-> share'[s]]
      BY <3>1 DEF Rows
    <3>4. ASSUME op.x \in Shares
          PROVE  /\ Counted(op.x)' /\ (Gone(op.x) => Gone(op.x)') /\ (a.revoked => Gone(op.x)')
      <4>1. Counted(op.x)
        BY <3>4 DEF Rows
      <4>2. CASE /\ share[op.x].n = 0 /\ op.x \notin expired
                 /\ share' = [share EXCEPT ![op.x] = Row(op, FALSE)] /\ a = Ok
        <5>1. share'[op.x] = [n |-> op.n, reads |-> 0, revoked |-> FALSE]
          BY <3>4, <4>2 DEF Rows, Row
        <5>2. views[op.x] = 0
          BY <4>1, <4>2 DEF Counted
        <5>3. share'[op.x].n # 0 /\ share'[op.x].reads = 0 /\ share'[op.x].revoked = FALSE
          BY <1>a, <5>1
        <5>4. Counted(op.x)'
          BY <4>1, <5>1, <5>2, <5>3 DEF Counted
        <5>5. ~Gone(op.x) /\ ~a.revoked
          BY <4>2 DEF Gone, Ok, Answer
        <5> QED BY <5>4, <5>5
      <4>3. CASE /\ share' = [share EXCEPT ![op.x] = IF share[op.x].n = 0 THEN Row(op, TRUE)
                                                     ELSE [share[op.x] EXCEPT !.revoked = TRUE]]
        <5>1. share'[op.x] = IF share[op.x].n = 0 THEN [n |-> op.n, reads |-> 0, revoked |-> TRUE]
                             ELSE [share[op.x] EXCEPT !.revoked = TRUE]
          BY <3>4, <4>3 DEF Rows, Row
        <5>2. CASE share[op.x].n = 0
          BY <1>a, <4>1, <5>1, <5>2 DEF Counted, Gone
        <5>3. CASE share[op.x].n # 0
          <6>1. share[op.x] # None
            BY <5>3 DEF None
          <6>2. share[op.x] = [n |-> share[op.x].n, reads |-> share[op.x].reads, revoked |-> share[op.x].revoked]
            BY <4>1, <6>1 DEF Counted
          <6>3. share'[op.x] = [n |-> share[op.x].n, reads |-> share[op.x].reads, revoked |-> TRUE]
            BY <5>1, <5>3, <6>2
          <6> QED BY <4>1, <5>3, <6>1, <6>3 DEF Counted, Gone
        <5> QED BY <5>2, <5>3
      <4> QED BY <3>1, <4>2, <4>3
    <3>5. \A s \in Shares : Counted(s)' /\ (Gone(s) => Gone(s)')
      BY <3>2, <3>4 DEF Rows, Counted, Gone
    <3> QED BY <1>1, <2>1, <3>3, <3>4, <3>5 DEF Rows, GoesOn
  <2> QED BY <2>2, <2>3
<1>2. CASE FamilyOf(op.act) /\ share' = share
  <2>1. \/ fam' = fam
        \/ family_create(op, a) /\ fam.rev = 0
        \/ write(p, op, a) /\ op.rev = fam.rev
        \/ approve(op, a)
        \/ remove(op, a) /\ op.rev = fam.rev
    BY <1>2 DEF Serve, share_create, share_manage, FamilyOf, family_operation, family_create, accept, invite,
                revoke_invite, write, approve, remove, Refuse, KeepAll, revision
  <2>2. CASE fam' = fam
    BY <1>2, <1>c, <1>d, <2>2 DEF GoesOn
  <2>3. CASE fam' # fam
    <3>1. CASE family_create(op, a) /\ fam.rev = 0
      <4>1. fam' = [Family(Owner, "owner") EXCEPT !.id = op.n, !.mid = op.n, !.blob = op.n, !.key = op.n, !.wrap[Owner] = op.n]
        BY <2>3, <3>1 DEF family_create, KeepAll
      <4>2. PICK role, wrap :
              fam' = [id |-> op.n, rev |-> 1, epoch |-> 1, mid |-> op.n, role |-> role, wrap |-> wrap, key |-> op.n, blob |-> op.n, doc |-> {},
                      author |-> Owner]
        <5>1. fam' = First(op.n)
          BY <4>1 DEF First
        <5>2. PICK role, wrap :
                /\ First(op.n) = [id |-> op.n, rev |-> 1, epoch |-> 1, mid |-> op.n, role |-> role, wrap |-> wrap, key |-> op.n, blob |-> op.n,
                                  doc |-> {}, author |-> Owner]
                /\ role = [q \in People |-> IF q = Owner THEN "owner" ELSE "none"]
                /\ wrap = [q \in People |-> wrap[q]] /\ wrap[Owner] = op.n
          BY FirstRevision
        <5> QED BY <5>1, <5>2
      <4>3. fam.doc = {} /\ fam'.rev = 1
        BY <3>1, <4>2 DEF Founded, NoFam
      <4>4. Founded'
        BY <4>2 DEF Founded
      <4> QED BY <1>2, <1>c, <3>1, <4>3, <4>4 DEF GoesOn
    <3>2. CASE write(p, op, a) /\ op.rev = fam.rev
      <4>1. fam' = write_content(op, p, fam) /\ op.act = "write"
        BY <2>3, <3>2 DEF write, Refuse, KeepAll
      <4>2. fam'.rev = fam.rev + 1 /\ fam'.doc = op.doc /\ Founded'
        <5>1. fam' = [id |-> fam.id, rev |-> fam.rev + 1, epoch |-> fam.epoch, mid |-> fam.mid, role |-> fam.role, wrap |-> fam.wrap,
                      key |-> op.key, blob |-> op.n, doc |-> op.doc, author |-> p]
          BY <1>e, <4>1 DEF write_content
        <5> QED BY <1>f, <5>1
      <4>3. fam.doc \subseteq op.doc
        BY <3>2, <4>1 DEF Based, Made
      <4> QED BY <1>2, <1>c, <4>2, <4>3 DEF GoesOn, Founded
    <3>3. CASE approve(op, a)
      <4>1. fam' = [fam EXCEPT !.rev = fam.rev + 1, !.mid = op.n, !.role[op.who] = op.role, !.wrap[op.who] = op.key]
        BY <2>3, <3>3 DEF approve, Refuse, KeepAll
      <4>2. fam'.rev = fam.rev + 1 /\ fam'.doc = fam.doc /\ Founded'
        <5>1. PICK role, wrap :
                fam' = [id |-> fam.id, rev |-> fam.rev + 1, epoch |-> fam.epoch, mid |-> op.n, role |-> role, wrap |-> wrap,
                        key |-> fam.key, blob |-> fam.blob, doc |-> fam.doc, author |-> fam.author]
          BY <1>e, <4>1
        <5> QED BY <1>f, <5>1
      <4> QED BY <1>2, <1>c, <4>2 DEF GoesOn, Founded
    <3>4. CASE remove(op, a) /\ op.rev = fam.rev
      <4>1. op.act = "remove-member" /\ \E w :
              fam' = [write_content(op, Owner, fam) EXCEPT !.epoch = fam.epoch + 1, !.mid = op.n, !.role[op.who] = "none", !.wrap = w]
        <5>1. write_content(op, Owner, fam).epoch = fam.epoch
          BY DEF write_content, Founded
        <5> QED BY <2>3, <3>4, <5>1 DEF remove, Refuse, KeepAll
      <4>2. fam'.rev = fam.rev + 1 /\ fam'.doc = op.doc /\ Founded'
        <5>1. PICK w :
                fam' = [write_content(op, Owner, fam) EXCEPT !.epoch = fam.epoch + 1, !.mid = op.n, !.role[op.who] = "none", !.wrap = w]
          BY <4>1
        <5>2. write_content(op, Owner, fam) =
                [id |-> fam.id, rev |-> fam.rev + 1, epoch |-> fam.epoch, mid |-> fam.mid, role |-> fam.role, wrap |-> fam.wrap,
                 key |-> op.key, blob |-> op.n, doc |-> op.doc, author |-> Owner]
          BY <1>g
        <5>3. fam' = [id |-> fam.id, rev |-> fam.rev + 1, epoch |-> fam.epoch + 1, mid |-> op.n, role |-> [fam.role EXCEPT ![op.who] = "none"],
                      wrap |-> w, key |-> op.key, blob |-> op.n, doc |-> op.doc, author |-> Owner]
          <6> DEFINE f == write_content(op, Owner, fam)
          <6>1. f = [id |-> fam.id, rev |-> fam.rev + 1, epoch |-> fam.epoch, mid |-> fam.mid, role |-> fam.role, wrap |-> fam.wrap,
                     key |-> op.key, blob |-> op.n, doc |-> op.doc, author |-> Owner]
            BY <5>2
          <6>2. fam' = [f EXCEPT !.epoch = fam.epoch + 1, !.mid = op.n, !.role[op.who] = "none", !.wrap = w]
            BY <5>1
          <6> HIDE DEF f
          <6> QED BY <6>1, <6>2
        <5> QED BY <1>f, <5>3
      <4>3. fam.doc \subseteq op.doc
        BY <3>4, <4>1 DEF Based, Made
      <4> QED BY <1>2, <1>c, <4>2, <4>3 DEF GoesOn, Founded
    <3> QED BY <2>1, <2>3, <3>1, <3>2, <3>3, <3>4
  <2> QED BY <2>2, <2>3
<1> QED
  <2>1. CASE share_create(op, a) \/ share_manage(op, a)
    BY <1>1, <2>1 DEF share_create, share_manage, KeepFamily, KeepAll, Refuse
  <2>2. CASE family_operation(p, op, a)
    BY <1>2, <2>2 DEF family_operation, family_create, accept, FamilyOf, invite, revoke_invite, write, approve, remove,
                      Refuse, KeepAll
  <2> QED BY <2>1, <2>2 DEF Serve

(* One request at the service leaves a family that exactly its members can *)
(* read: whoever writes has its key, whoever joins gets it, and when       *)
(* somebody is removed it is replaced by one that nobody has had.          *)
LEMMA Joined ==
  ASSUME Founded, Members, NEW p \in People, NEW op, Based(op), NEW a, Serve(p, op, a), fresh \in Nat,
         UNCHANGED <<fresh, knows>>
  PROVE  Members'
<1>a. /\ fam.role = [q \in People |-> fam.role[q]] /\ fam.wrap = [q \in People |-> fam.wrap[q]]
      /\ knows = [q \in People |-> knows[q]] /\ fam.author \in People /\ \A q \in People : fam.role[q] \in Roles
      /\ fam.rev = 0 => invites = {} /\ pending = {} /\ \A q \in People : knows[q] = {}
      /\ fam.rev # 0 => fam.role[Owner] = "owner"
      /\ \A i \in invites : i = [id |-> i.id, role |-> i.role, accepted |-> i.accepted] /\ i.role \in {"editor", "reader"}
      /\ \A q \in pending : q.role \in {"editor", "reader"} /\ q.who \in People /\ fam.role[q.who] = "none"
      /\ \A k : Held(k) => k \in Nat /\ k <= fresh
      /\ ReadableByMembers
  BY DEF Members
<1>b. \A q \in People : fam.role[q] # "none" => fam.rev # 0
  BY DEF Founded, NoFam
<1>c. /\ Owner \in People /\ \A q \in Others : q \in People /\ q # Owner
      /\ op.n \in Nat \ {0} /\ op.n <= fresh /\ Made(op)
  BY SharingAssumption DEF People, Based
<1>d. ASSUME fam' = fam,
             \A i \in invites' : i = [id |-> i.id, role |-> i.role, accepted |-> i.accepted] /\ i.role \in {"editor", "reader"},
             \A q \in pending' : q \in pending \/ (q.role \in {"editor", "reader"} /\ q.who \in People /\ fam.role[q.who] = "none"),
             fam.rev = 0 => invites' = {} /\ pending' = {}
      PROVE  Members'
  BY <1>a, <1>d DEF Members, Held, ReadableByMembers
<1>1. CASE UNCHANGED <<fam, invites, pending>>
  BY <1>1, <1>a, <1>d
<1>2. CASE family_create(op, a) /\ fam.rev = 0 /\ fam' # fam
  <2>1. fam' = [Family(Owner, "owner") EXCEPT !.id = op.n, !.mid = op.n, !.blob = op.n, !.key = op.n, !.wrap[Owner] = op.n]
    BY <1>2 DEF family_create, KeepAll
  <2>2. PICK role, wrap :
          /\ fam' = [id |-> op.n, rev |-> 1, epoch |-> 1, mid |-> op.n, role |-> role, wrap |-> wrap, key |-> op.n, blob |-> op.n, doc |-> {},
                     author |-> Owner]
          /\ role = [q \in People |-> IF q = Owner THEN "owner" ELSE "none"]
          /\ wrap = [q \in People |-> wrap[q]] /\ wrap[Owner] = op.n
    <3>1. fam' = First(op.n)
      BY <2>1 DEF First
    <3>2. PICK role, wrap :
            /\ First(op.n) = [id |-> op.n, rev |-> 1, epoch |-> 1, mid |-> op.n, role |-> role, wrap |-> wrap, key |-> op.n, blob |-> op.n,
                              doc |-> {}, author |-> Owner]
            /\ role = [q \in People |-> IF q = Owner THEN "owner" ELSE "none"]
            /\ wrap = [q \in People |-> wrap[q]] /\ wrap[Owner] = op.n
      BY FirstRevision
    <3> QED BY <3>1, <3>2
  <2>4. invites' = {} /\ pending' = {}
    BY <1>2, <1>a DEF family_create, KeepAll
  <2>5. \A q \in People : role[q] = IF q = Owner THEN "owner" ELSE "none"
    BY <2>2
  <2>6. role = [q \in People |-> role[q]] /\ wrap = [q \in People |-> wrap[q]] /\ wrap[Owner] = op.n
    BY <2>2
  <2>7. fam'.rev = 1 /\ fam'.role = role /\ fam'.wrap = wrap /\ fam'.key = op.n /\ fam'.author = Owner
    BY <2>2
  <2>8. ReadableByMembers'
    BY <1>2, <1>a, <1>c, <2>5, <2>6, <2>7 DEF ReadableByMembers, verify_family
  <2>9. \A k : Held(k)' => k \in Nat /\ k <= fresh
    BY <1>2, <1>a, <1>c, <2>7 DEF Held
  <2> QED BY <1>a, <1>c, <2>4, <2>5, <2>6, <2>7, <2>8, <2>9 DEF Members, Roles
<1>3. CASE accept(p, op, a) /\ ~UNCHANGED <<invites, pending>>
  <2>1. PICK i \in invites : /\ fam.role[p] = "none" /\ fam' = fam
                             /\ invites' = (invites \ {i}) \cup {[i EXCEPT !.accepted = p]}
                             /\ pending' = pending \cup {[id |-> i.id, who |-> p, role |-> i.role]}
    BY <1>3 DEF accept, Refuse, KeepAll
  <2>2. PICK j : j = [i EXCEPT !.accepted = p]
    OBVIOUS
  <2>3. j = [id |-> i.id, role |-> i.role, accepted |-> p]
    BY <1>a, <2>2
  <2> QED BY <1>a, <1>d, <2>1, <2>2, <2>3
<1>4. CASE invite(op, a) /\ fam.role[p] # "none" /\ ~UNCHANGED <<invites, pending>>
  <2>1. /\ fam' = fam /\ pending' = pending /\ op.act = "invite"
        /\ invites' = invites \cup {[id |-> op.n, role |-> op.role, accepted |-> Owner]}
    BY <1>4 DEF invite, Refuse, KeepAll
  <2> QED BY <1>4, <1>a, <1>b, <1>c, <1>d, <2>1 DEF Made
<1>5. CASE revoke_invite(op, a)
  <2>1. fam' = fam /\ invites' \subseteq invites /\ pending' \subseteq pending
    BY <1>5 DEF revoke_invite
  <2> QED BY <1>a, <1>d, <2>1
<1>6. CASE write(p, op, a) /\ fam.role[p] # "none" /\ ~UNCHANGED <<fam, invites, pending>>
  <2>1. /\ fam' = write_content(op, p, fam) /\ op.act = "write" /\ op.rev = fam.rev /\ fam.role[p] # "reader"
        /\ UNCHANGED <<invites, pending>>
    BY <1>6 DEF write, Refuse, KeepAll, revision
  <2>2. fam' = [id |-> fam.id, rev |-> fam.rev + 1, epoch |-> fam.epoch, mid |-> fam.mid, role |-> fam.role, wrap |-> fam.wrap,
                key |-> op.key, blob |-> op.n, doc |-> op.doc, author |-> p]
    BY <2>1 DEF write_content, Founded
  <2>3. fam'.rev = fam.rev + 1 /\ fam'.role = fam.role /\ fam'.wrap = fam.wrap /\ fam'.key = fam.key /\ fam'.author = p
    BY <1>c, <2>1, <2>2 DEF Made
  <2>4. fam.rev \in Nat \ {0} /\ fam.role[p] \in {"owner", "editor"}
    BY <1>6, <1>a, <1>b, <2>1 DEF Roles, Founded
  <2>5. ReadableByMembers'
    BY <1>a, <2>3, <2>4 DEF ReadableByMembers, verify_family
  <2> QED BY <1>a, <2>1, <2>3, <2>4, <2>5 DEF Members, Held
<1>7. CASE approve(op, a) /\ fam.role[p] # "none" /\ ~UNCHANGED <<fam, invites, pending>>
  <2>1. PICK q : /\ q = [id |-> op.x, who |-> op.who, role |-> op.role] /\ q \in pending /\ op.rev = fam.rev /\ op.act = "approve-member"
                 /\ fam' = [fam EXCEPT !.rev = fam.rev + 1, !.mid = op.n, !.role[op.who] = op.role, !.wrap[op.who] = op.key]
                 /\ pending' = {r \in pending : r.who # op.who} /\ invites' \subseteq invites
    BY <1>7 DEF approve, Refuse, KeepAll, revision
  <2>2. op.role \in {"editor", "reader"} /\ op.who \in People /\ fam.role[op.who] = "none" /\ op.key = fam.key
    BY <1>a, <1>c, <2>1 DEF Made
  <2>3. PICK role, wrap : role = [fam.role EXCEPT ![op.who] = op.role] /\ wrap = [fam.wrap EXCEPT ![op.who] = fam.key]
    OBVIOUS
  <2>4. fam' = [id |-> fam.id, rev |-> fam.rev + 1, epoch |-> fam.epoch, mid |-> op.n, role |-> role, wrap |-> wrap,
                key |-> fam.key, blob |-> fam.blob, doc |-> fam.doc, author |-> fam.author]
    BY <2>1, <2>2, <2>3 DEF Founded
  <2>5. /\ fam'.rev = fam.rev + 1 /\ fam'.role = role /\ fam'.wrap = wrap /\ fam'.key = fam.key /\ fam'.author = fam.author
    BY <2>4
  <2>6. /\ role = [r \in People |-> role[r]] /\ wrap = [r \in People |-> wrap[r]]
        /\ \A r \in People : IF r = op.who THEN role[r] = op.role /\ wrap[r] = fam.key
                              ELSE role[r] = fam.role[r] /\ wrap[r] = fam.wrap[r]
    BY <1>a, <2>2, <2>3
  <2>7. fam.rev \in Nat \ {0}
    BY <1>7, <1>b DEF Founded
  <2>8. fam.author \in People /\ fam.role[fam.author] \in {"owner", "editor"}
    <3>1. verify_family(p, fam)
      BY <1>7, <1>a, <2>7 DEF ReadableByMembers
    <3> QED BY <1>a, <3>1 DEF verify_family
  <2>9. ReadableByMembers'
    BY <1>a, <2>2, <2>5, <2>6, <2>7, <2>8 DEF ReadableByMembers, verify_family
  <2>10. \A k : Held(k)' => k \in Nat /\ k <= fresh
    BY <1>a, <2>5 DEF Held
  <2> QED BY <1>a, <1>c, <2>1, <2>2, <2>5, <2>6, <2>7, <2>9, <2>10 DEF Members, Roles
<1>8. CASE remove(op, a) /\ fam.role[p] # "none" /\ ~UNCHANGED <<fam, invites, pending>>
  <2>1. PICK f, wrap : /\ f = write_content(op, Owner, fam) /\ op.act = "remove-member" /\ op.rev = fam.rev
                       /\ wrap = [q \in People |-> IF q = op.who \/ fam.role[q] = "none" THEN 0 ELSE op.key]
                       /\ fam' = [f EXCEPT !.epoch = f.epoch + 1, !.mid = op.n, !.role[op.who] = "none", !.wrap = wrap]
                       /\ invites' = {} /\ pending' = {}
    BY <1>8 DEF remove, Refuse, KeepAll, revision
  <2>2. op.who \in Others /\ ~Held(op.key) /\ op.key = op.n
    BY <1>c, <2>1 DEF Made
  <2>3. PICK role : role = [fam.role EXCEPT ![op.who] = "none"]
    OBVIOUS
  <2>4. f = [id |-> fam.id, rev |-> fam.rev + 1, epoch |-> fam.epoch, mid |-> fam.mid, role |-> fam.role, wrap |-> fam.wrap,
             key |-> op.key, blob |-> op.n, doc |-> op.doc, author |-> Owner]
    BY <2>1 DEF write_content, Founded
  <2>5. fam' = [id |-> fam.id, rev |-> fam.rev + 1, epoch |-> fam.epoch + 1, mid |-> op.n, role |-> role, wrap |-> wrap,
                key |-> op.key, blob |-> op.n, doc |-> op.doc, author |-> Owner]
    <3>1. PICK g : g = [f EXCEPT !.epoch = f.epoch + 1, !.mid = op.n]
      OBVIOUS
    <3>2. g = [id |-> fam.id, rev |-> fam.rev + 1, epoch |-> fam.epoch + 1, mid |-> op.n, role |-> fam.role, wrap |-> fam.wrap,
               key |-> op.key, blob |-> op.n, doc |-> op.doc, author |-> Owner]
      BY <2>4, <3>1
    <3>3. fam' = [g EXCEPT !.role[op.who] = "none", !.wrap = wrap]
      BY <2>1, <3>1
    <3> QED BY <2>3, <3>2, <3>3
  <2>6. fam'.rev = fam.rev + 1 /\ fam'.role = role /\ fam'.wrap = wrap /\ fam'.key = op.key /\ fam'.author = Owner
    BY <2>5
  <2>7. /\ role = [r \in People |-> role[r]] /\ wrap = [r \in People |-> wrap[r]]
        /\ \A r \in People : role[r] = IF r = op.who THEN "none" ELSE fam.role[r]
        /\ \A r \in People : role[r] # "none" => wrap[r] = op.key
    <3>1. role = [r \in People |-> role[r]] /\ \A r \in People : role[r] = IF r = op.who THEN "none" ELSE fam.role[r]
      BY <1>a, <1>c, <2>2, <2>3
    <3>2. wrap = [r \in People |-> wrap[r]] /\ \A r \in People : r # op.who /\ fam.role[r] # "none" => wrap[r] = op.key
      BY <2>1
    <3>3. \A r \in People : role[r] # "none" => wrap[r] = op.key
      BY <3>1, <3>2
    <3> QED BY <3>1, <3>2, <3>3
  <2>8. fam.rev \in Nat \ {0} /\ \A q \in People : op.key \notin knows[q]
    BY <1>8, <1>b, <2>2 DEF Founded, Held
  <2>9. ReadableByMembers'
    BY <1>a, <1>c, <2>2, <2>6, <2>7, <2>8 DEF ReadableByMembers, verify_family
  <2>10. \A k : Held(k)' => k \in Nat /\ k <= fresh
    BY <1>a, <1>c, <2>2, <2>6 DEF Held
  <2> QED BY <1>a, <1>c, <2>1, <2>2, <2>6, <2>7, <2>8, <2>9, <2>10 DEF Members, Roles
<1> QED
  <2>1. CASE share_create(op, a) \/ share_manage(op, a)
    BY <1>1, <2>1 DEF share_create, share_manage, KeepFamily, KeepAll, Refuse
  <2>2. CASE family_create(op, a)
    BY <1>1, <1>2, <2>2 DEF family_create, KeepAll
  <2>3. CASE accept(p, op, a)
    BY <1>1, <1>3, <2>3 DEF accept, Refuse, KeepAll
  <2>4. CASE fam.role[p] # "none" /\ invite(op, a)
    BY <1>1, <1>4, <2>4 DEF invite, Refuse, KeepAll
  <2>5. CASE fam.role[p] # "none" /\ write(p, op, a)
    BY <1>1, <1>6, <2>5 DEF write, Refuse, KeepAll
  <2>6. CASE fam.role[p] # "none" /\ approve(op, a)
    BY <1>1, <1>7, <2>6 DEF approve, Refuse, KeepAll, Founded
  <2>7. CASE fam.role[p] # "none" /\ remove(op, a)
    BY <1>1, <1>8, <2>7 DEF remove, Refuse, KeepAll, Founded
  <2> QED BY <1>1, <1>5, <2>1, <2>2, <2>3, <2>4, <2>5, <2>6, <2>7 DEF Serve, family_operation, Refuse, KeepAll

-----------------------------------------------------------------------------
(* A proposal is saved in the vault together with what else changes there. *)
LEMMA Saved ==
  ASSUME Inv, NEW p \in People, NEW op, NEW d, Save(p, op, d), op.n = new, Made(op), DeskOk(d)
  PROVE  Inv'
<1> USE DEF Save
<1>1. UNCHANGED <<share, fam, invites, pending, expired, flight, call, views, knows>> /\ fresh' \in Nat \ {0} /\ fresh' = fresh + 1
  BY DEF service, history, Inv, new
<1>2. GoesOn /\ Learns
  BY <1>1 DEF GoesOn, Learns, Held, Gone, Inv, Founded
<1>3. Founded
  BY DEF Inv
<1>4. desk' = [desk EXCEPT ![p] = [d EXCEPT !.gen = d.gen + 1, !.out = d.out \cup {op}]]
  OBVIOUS
<1>5. ASSUME NEW e, e = [d EXCEPT !.gen = d.gen + 1, !.out = d.out \cup {op}] PROVE DeskOk(e)'
  <2>1. e = [gen |-> d.gen + 1, phase |-> d.phase, out |-> d.out \cup {op}, wire |-> d.wire, link |-> d.link]
    BY <1>5 DEF DeskOk
  <2>2. DeskOk(d)'
    BY <1>2, <1>3, Remains
  <2>3. Based(op)'
    BY <1>1 DEF Based, Made, Held, Inv, new
  <2> QED BY <2>1, <2>2, <2>3 DEF DeskOk
<1>6. desk' = [q \in People |-> desk'[q]]
  BY <1>4 DEF Inv
<1>7. \A q \in People \ {p} : desk'[q] = desk[q]
  BY <1>4 DEF Inv
<1>8. ASSUME NEW q \in People PROVE DeskOk(desk[q])'
  <2>1. PICK e : e = desk'[q]
    OBVIOUS
  <2>2. DeskOk(e)'
    <3>1. CASE q = p
      BY <1>4, <1>5, <2>1, <3>1 DEF Inv
    <3>2. CASE q # p
      <4>1. DeskOk(e)
        BY <1>7, <2>1, <3>2 DEF Inv
      <4> QED BY <1>2, <1>3, <4>1, Remains
    <3> QED BY <3>1, <3>2
  <2> QED BY <2>1, <2>2
<1>9. \A r \in Threads : CallOk(call[r])'
  BY <1>2, <1>3, Remains DEF Inv
<1>10. \A q \in flight : q.p \in People /\ Based(q.op)'
  BY <1>2, <1>3, Remains DEF Inv
<1>11. Rows' /\ Founded' /\ Members'
  <2>1. Rows' /\ Founded'
    BY <1>1 DEF Inv, Rows, Counted, Founded
  <2>2. Members'
    <3>1. ASSUME NEW k, Held(k)' PROVE k \in Nat /\ k <= fresh'
      <4>1. Held(k)
        BY <1>1, <3>1 DEF Held
      <4> QED BY <1>1, <4>1 DEF Inv, Members
    <3>2. ReadableByMembers'
      BY <1>1 DEF Inv, Members, ReadableByMembers, verify_family
    <3> QED BY <1>1, <3>1, <3>2 DEF Inv, Members
  <2> QED BY <2>1, <2>2
<1> QED BY <1>1, <1>6, <1>8, <1>9, <1>10, <1>11 DEF Inv

(* A vault whose sharing state is put together from parts.                 *)
LEMMA Assembled ==
  ASSUME NEW d, NEW gen, NEW phase, NEW out, NEW wire, NEW link,
         d = [gen |-> gen, phase |-> phase, out |-> out, wire |-> wire, link |-> link],
         phase = [s \in Shares |-> phase[s]], \A op \in out : Based(op), Copied(wire),
         \A s \in Shares : phase[s] = "revoked" => Gone(s)
  PROVE  DeskOk(d)
<1>1. d.gen = gen /\ d.phase = phase /\ d.out = out /\ d.wire = wire /\ d.link = link
  OBVIOUS
<1>2. d = [gen |-> d.gen, phase |-> d.phase, out |-> d.out, wire |-> d.wire, link |-> d.link]
  BY <1>1
<1>3. d.phase = [s \in Shares |-> d.phase[s]] /\ \A s \in Shares : d.phase[s] = "revoked" => Gone(s)
  BY <1>1
<1> QED BY <1>1, <1>2, <1>3 DEF DeskOk

(* What the desktops propose is based on the family they have.             *)
LEMMA Proposed == Inv /\ apply => Inv'
<1> SUFFICES ASSUME Inv, apply PROVE Inv'
  OBVIOUS
<1>a. \A p \in People : DeskOk(desk[p])
  BY DEF Inv
<1>b. new \in Nat \ {0} /\ Owner \in People
  BY DEF Inv, new, People
<1>c. ASSUME NEW act, NEW x, NEW op, op = Op(new, act, x)
      PROVE  op = [n |-> new, act |-> act, x |-> x, who |-> Owner, role |-> "none", rev |-> 0, epoch |-> 0, key |-> 0, doc |-> {}]
  BY <1>c DEF Op
<1>d. ASSUME NEW act, NEW x, act \in {"share", "revoke-share", "create-family", "join-family", "revoke-invite"} PROVE Op(new, act, x).n = new /\ Made(Op(new, act, x))
  <2>1. ASSUME NEW op, op = Op(new, act, x) PROVE op.n = new /\ op.act = act
    BY <1>c, <2>1
  <2>2. ASSUME NEW op, op = Op(new, act, x) PROVE op.n = new /\ Made(op)
    BY <1>b, <1>d, <2>1, <2>2 DEF Made
  <2> QED BY <2>2
<1>f. ASSUME NEW act, NEW x, NEW w, NEW op, op = Proposal(act, x, w)
      PROVE  op = [n |-> new, act |-> act, x |-> x, who |-> Owner, role |-> "none", rev |-> w.rev, epoch |-> w.epoch,
                   key |-> w.key, doc |-> {}]
  <2>1. ASSUME NEW o, o = Op(new, act, x), op = [o EXCEPT !.rev = w.rev, !.epoch = w.epoch, !.key = w.key]
        PROVE  op =
                  [n |-> new, act |-> act, x |-> x, who |-> Owner, role |-> "none", rev |-> w.rev, epoch |-> w.epoch,
                   key |-> w.key, doc |-> {}]
    <3>1. o = [n |-> new, act |-> act, x |-> x, who |-> Owner, role |-> "none", rev |-> 0, epoch |-> 0, key |-> 0, doc |-> {}]
      BY <1>c, <2>1
    <3>2. PICK e : e = [o EXCEPT !.rev = w.rev, !.epoch = w.epoch]
      OBVIOUS
    <3>3. e = [n |-> new, act |-> act, x |-> x, who |-> Owner, role |-> "none", rev |-> w.rev, epoch |-> w.epoch,
               key |-> 0, doc |-> {}]
      BY <3>1, <3>2
    <3>4. op = [e EXCEPT !.key = w.key]
      BY <2>1, <3>1, <3>2
    <3> QED BY <3>3, <3>4
  <2> QED BY <1>f, <2>1 DEF Proposal
(* The sharing state of a vault, taken apart.                              *)
<1>g. ASSUME NEW p \in People
      PROVE  /\ desk[p] = [gen |-> desk[p].gen, phase |-> desk[p].phase, out |-> desk[p].out, wire |-> desk[p].wire,
                           link |-> desk[p].link]
             /\ desk[p].phase = [s \in Shares |-> desk[p].phase[s]]
             /\ \A op \in desk[p].out : Based(op)
             /\ Copied(desk[p].wire)
             /\ \A s \in Shares : desk[p].phase[s] = "revoked" => Gone(s)
  BY <1>a DEF DeskOk
<1>1. ASSUME PublishShare PROVE Inv'
  <2>1. PICK s \in Shares : Save(Owner, Op(new, "share", s), [desk[Owner] EXCEPT !.phase[s] = "pending"])
    BY <1>1 DEF PublishShare
  <2>2. ASSUME NEW d, d = [desk[Owner] EXCEPT !.phase[s] = "pending"] PROVE DeskOk(d)
    <3> DEFINE phase == [desk[Owner].phase EXCEPT ![s] = "pending"]
    <3>1. d = [gen |-> desk[Owner].gen, phase |-> phase, out |-> desk[Owner].out, wire |-> desk[Owner].wire, link |-> desk[Owner].link]
      <4>1. desk[Owner] = [gen |-> desk[Owner].gen, phase |-> desk[Owner].phase, out |-> desk[Owner].out, wire |-> desk[Owner].wire, link |-> desk[Owner].link]
        BY <1>b, <1>g
      <4> QED BY <2>2, <4>1
    <3>2. phase = [t \in Shares |-> phase[t]] /\ \A t \in Shares : phase[t] = "revoked" => Gone(t)
      BY <1>b, <1>g
    <3> HIDE DEF phase
    <3> QED BY <1>b, <1>g, <3>1, <3>2, Assembled
  <2> QED BY <1>b, <1>d, <2>1, <2>2, Saved
<1>2. ASSUME RevokeShare PROVE Inv'
  <2>1. PICK s \in Shares :
          \E e : /\ e = [desk[Owner] EXCEPT !.phase[s] = "revoking", !.out = {o \in desk[Owner].out : FamilyOf(o.act) \/ o.x # s}]
                 /\ Save(Owner, Op(new, "revoke-share", s), e)
    BY <1>2 DEF RevokeShare
  <2>2. ASSUME NEW d, d = [desk[Owner] EXCEPT !.phase[s] = "revoking", !.out = {o \in desk[Owner].out : FamilyOf(o.act) \/ o.x # s}]
        PROVE  DeskOk(d)
    <3> DEFINE phase == [desk[Owner].phase EXCEPT ![s] = "revoking"]
               out == {o \in desk[Owner].out : FamilyOf(o.act) \/ o.x # s}
    <3>1. d = [gen |-> desk[Owner].gen, phase |-> phase, out |-> out, wire |-> desk[Owner].wire, link |-> desk[Owner].link]
      <4>1. desk[Owner] = [gen |-> desk[Owner].gen, phase |-> desk[Owner].phase, out |-> desk[Owner].out, wire |-> desk[Owner].wire, link |-> desk[Owner].link]
        BY <1>b, <1>g
      <4> QED BY <2>2, <4>1
    <3>2. phase = [t \in Shares |-> phase[t]] /\ \A t \in Shares : phase[t] = "revoked" => Gone(t)
      BY <1>b, <1>g
    <3>3. \A op \in out : Based(op)
      BY <1>b, <1>g
    <3> HIDE DEF phase, out
    <3> QED BY <1>b, <1>g, <3>1, <3>2, <3>3, Assembled
  <2>3. PICK d, op : /\ d = [desk[Owner] EXCEPT !.phase[s] = "revoking", !.out = {o \in desk[Owner].out : FamilyOf(o.act) \/ o.x # s}]
                     /\ op = Op(new, "revoke-share", s) /\ Save(Owner, op, d)
    BY <2>1
  <2>4. DeskOk(d)
    BY <2>2, <2>3
  <2>5. op.n = new /\ Made(op)
    BY <1>d, <2>3
  <2> QED BY <1>b, <2>3, <2>4, <2>5, Saved
<1>3. ASSUME create_family PROVE Inv'
  <2>1. ASSUME NEW d, d = [desk[Owner] EXCEPT !.link = "in"] PROVE DeskOk(d)
    <3>1. d = [gen |-> desk[Owner].gen, phase |-> desk[Owner].phase, out |-> desk[Owner].out, wire |-> desk[Owner].wire, link |-> "in"]
      <4>1. desk[Owner] = [gen |-> desk[Owner].gen, phase |-> desk[Owner].phase, out |-> desk[Owner].out, wire |-> desk[Owner].wire, link |-> desk[Owner].link]
        BY <1>b, <1>g
      <4> QED BY <2>1, <4>1
    <3> QED BY <1>b, <1>g, <3>1, Assembled
  <2> QED BY <1>3, <1>b, <1>d, <2>1, Saved DEF create_family
<1>4. ASSUME NEW p \in People, JoinFamily(p) PROVE Inv'
  <2>1. ASSUME NEW d, d = [desk[p] EXCEPT !.link = "waiting", !.wire = NoFam] PROVE DeskOk(d)
    <3>1. Copied(NoFam)
      BY DEF NoFam, Copied, Inv, Founded
    <3>2. d = [gen |-> desk[p].gen, phase |-> desk[p].phase, out |-> desk[p].out, wire |-> NoFam, link |-> "waiting"]
      <4>1. desk[p] = [gen |-> desk[p].gen, phase |-> desk[p].phase, out |-> desk[p].out, wire |-> desk[p].wire, link |-> desk[p].link]
        BY <1>g
      <4> QED BY <2>1, <4>1
    <3> QED BY <1>g, <3>1, <3>2, Assembled
  <2>2. \A x : Op(new, "join-family", x).n = new /\ Made(Op(new, "join-family", x))
    BY <1>d
  <2> QED BY <1>4, <2>1, <2>2, Saved DEF JoinFamily
<1>5. ASSUME NEW p \in People, ManageFamily(p) PROVE Inv'
  <2>1. CASE \E role \in {"editor", "reader"} : Save(p, [Op(new, "invite", 0) EXCEPT !.role = role], desk[p])
    <3>1. PICK role, o, op :
            role \in {"editor", "reader"} /\ o = Op(new, "invite", 0) /\ op = [o EXCEPT !.role = role] /\ Save(p, op, desk[p])
      BY <2>1
    <3>2. op.n = new /\ op.act = "invite" /\ op.role = role
      BY <1>c, <3>1
    <3>3. Made(op)
      BY <3>1, <3>2 DEF Made
    <3> QED BY <1>a, <3>1, <3>2, <3>3, Saved
  <2>2. CASE \E i : Save(p, Op(new, "revoke-invite", i.id), desk[p])
    BY <1>a, <1>d, <2>2, Saved
  <2>3. CASE \E q : Save(p, [Proposal("approve-member", q.id, desk[p].wire) EXCEPT !.who = q.who, !.role = q.role], desk[p])
    <3>1. PICK x, who, role, o, op :
            /\ o = Proposal("approve-member", x, desk[p].wire) /\ op = [o EXCEPT !.who = who, !.role = role]
            /\ Save(p, op, desk[p])
      BY <2>3
    <3>2. op.n = new /\ op.act = "approve-member" /\ op.rev = desk[p].wire.rev /\ op.key = desk[p].wire.key
      BY <1>f, <3>1
    <3>3. Made(op)
      BY <1>g, <3>2 DEF Made, Copied
    <3> QED BY <1>a, <3>1, <3>2, <3>3, Saved
  <2> QED BY <1>5, <2>1, <2>2, <2>3 DEF ManageFamily
<1>6. ASSUME NEW p \in People, RemoveMember(p) PROVE Inv'
  <2>1. PICK m, o, op :
          /\ m \in Others /\ o = Proposal("remove-member", 0, desk[p].wire)
          /\ op = [o EXCEPT !.who = m, !.key = new, !.doc = desk[p].wire.doc] /\ Save(p, op, desk[p])
    BY <1>6 DEF RemoveMember, remove_proposal
  <2>2. /\ op.n = new /\ op.act = "remove-member" /\ op.who = m /\ op.key = new
        /\ op.rev = desk[p].wire.rev /\ op.doc = desk[p].wire.doc
    BY <1>f, <2>1
  <2>3. ~Held(new)
    BY DEF Inv, Members, new
  <2>4. Made(op)
    BY <1>g, <2>1, <2>2, <2>3 DEF Made, Copied
  <2> QED BY <1>a, <2>1, <2>2, <2>4, Saved
<1>7. ASSUME NEW p \in People, write_proposal(p) PROVE Inv'
  <2>1. PICK o, op :
          /\ o = Proposal("write", 0, desk[p].wire) /\ op = [o EXCEPT !.doc = desk[p].wire.doc \cup {new}]
          /\ Save(p, op, [desk[p] EXCEPT !.out = desk[p].out \ PendingFamily(p)])
    BY <1>7 DEF write_proposal
  <2>2. /\ op.n = new /\ op.act = "write" /\ op.rev = desk[p].wire.rev /\ op.key = desk[p].wire.key
        /\ op.doc = desk[p].wire.doc \cup {new}
    BY <1>f, <2>1
  <2>4. Made(op)
    BY <1>g, <2>2 DEF Made, Copied
  <2>3. ASSUME NEW d, d = [desk[p] EXCEPT !.out = desk[p].out \ PendingFamily(p)] PROVE DeskOk(d)
    <3>1. d = [gen |-> desk[p].gen, phase |-> desk[p].phase, out |-> desk[p].out \ PendingFamily(p), wire |-> desk[p].wire,
               link |-> desk[p].link]
      <4>1. desk[p] = [gen |-> desk[p].gen, phase |-> desk[p].phase, out |-> desk[p].out, wire |-> desk[p].wire, link |-> desk[p].link]
        BY <1>g
      <4> QED BY <2>3, <4>1
    <3>2. \A x \in desk[p].out \ PendingFamily(p) : Based(x)
      BY <1>g
    <3> QED BY <1>g, <3>1, <3>2, Assembled
  <2> QED BY <2>1, <2>2, <2>3, <2>4, Saved
<1> QED BY <1>1, <1>2, <1>3, <1>4, <1>5, <1>6, <1>7 DEF apply

-----------------------------------------------------------------------------
(* A request that goes on, put together from parts.                        *)
LEMMA Going ==
  ASSUME NEW c, NEW at \in Steps, NEW p \in People, NEW kind, NEW op, NEW snap, NEW gen, NEW a, NEW wire,
         c = [at |-> at, p |-> p, kind |-> kind, op |-> op, snap |-> snap, gen |-> gen, a |-> a, wire |-> wire],
         DeskOk(snap), Copied(wire), kind = "retry" => Based(op),
         at \in {"send", "answered"} => kind = "retry", at = "fetch" => kind # "retry",
         at \in {"answered", "commit"} /\ kind = "retry" /\ ~FamilyOf(op.act) /\ a.revoked
            /\ op.x \in Shares => Gone(op.x)
  PROVE  CallOk(c)
<1>1. c.at = at /\ c.p = p /\ c.kind = kind /\ c.op = op /\ c.snap = snap /\ c.gen = gen /\ c.a = a /\ c.wire = wire
  OBVIOUS
<1>2. c = [at |-> c.at, p |-> c.p, kind |-> c.kind, op |-> c.op, snap |-> c.snap, gen |-> c.gen,
           a |-> c.a, wire |-> c.wire]
  BY <1>1
<1> QED BY <1>1, <1>2 DEF CallOk

(* Only what the desktops hold changes, and stays true.                    *)
LEMMA Moved ==
  ASSUME Inv, UNCHANGED <<share, fam, invites, pending, expired, fresh, views, knows>>,
         desk' = [p \in People |-> desk'[p]], \A p \in People : \A d : d = desk'[p] => DeskOk(d),
         call' = [r \in Threads |-> call'[r]], \A r \in Threads : \A c : c = call'[r] => CallOk(c),
         \A q \in flight' : q.p \in People /\ Based(q.op)
  PROVE  Inv'
<1>1. GoesOn /\ Learns /\ Founded
  BY DEF GoesOn, Learns, Held, Gone, Inv, Founded
<1>2. ASSUME NEW p \in People PROVE DeskOk(desk[p])'
  <2>1. PICK d : d = desk'[p] /\ DeskOk(d)
    OBVIOUS
  <2>2. DeskOk(d)'
    BY <1>1, <2>1, Remains
  <2> QED BY <2>1, <2>2
<1>3. ASSUME NEW r \in Threads PROVE CallOk(call[r])'
  <2>1. PICK c : c = call'[r] /\ CallOk(c)
    OBVIOUS
  <2>2. CallOk(c)'
    BY <1>1, <2>1, Remains
  <2> QED BY <2>1, <2>2
<1>4. ASSUME NEW q, q \in flight' PROVE Based(q.op)'
  BY <1>1, <1>4, Remains
<1>5. Rows' /\ Founded' /\ Members' /\ fresh' \in Nat \ {0}
  BY DEF Inv, Rows, Counted, Founded, Members, Held, ReadableByMembers
<1> QED BY <1>2, <1>3, <1>4, <1>5 DEF Inv

(* One request goes on and the vaults stay as they are.                    *)
LEMMA Went ==
  ASSUME Inv, NEW r \in Threads, NEW c, Go(r, c), CallOk(c),
         UNCHANGED <<share, fam, invites, pending, expired, desk, fresh, views, knows>>,
         \A q \in flight' : q.p \in People /\ Based(q.op)
  PROVE  Inv'
<1>1. desk' = [p \in People |-> desk'[p]] /\ call' = [s \in Threads |-> call'[s]]
  BY DEF Inv, Go
<1>2. \A p \in People : \A d : d = desk'[p] => DeskOk(d)
  BY DEF Inv
<1>3. \A s \in Threads : \A e : e = call'[s] => CallOk(e)
  BY DEF Inv, Go
<1> QED BY <1>1, <1>2, <1>3, Moved

(* The service goes on, whoever asked: the desktops stay as they are.      *)
LEMMA ServiceStep ==
  ASSUME Inv, Rows', Founded', Members', GoesOn, Learns, desk' = desk,
         call' = [r \in Threads |-> call'[r]], \A r \in Threads : \A c : c = call'[r] => CallOk(c) \/ CallOk(c)',
         \A q \in flight' : q.p \in People /\ Based(q.op)
  PROVE  Inv'
<1>1. Founded /\ fresh' \in Nat \ {0}
  BY DEF Inv, Learns
<1>2. ASSUME NEW p \in People PROVE DeskOk(desk[p])'
  <2>1. PICK d : d = desk[p] /\ DeskOk(d)
    BY DEF Inv
  <2>2. DeskOk(d)'
    BY <1>1, <2>1, Remains
  <2> QED BY <2>1, <2>2
<1>3. ASSUME NEW r \in Threads PROVE CallOk(call[r])'
  <2>1. PICK c : c = call'[r]
    OBVIOUS
  <2>2. CallOk(c)'
    BY <1>1, <2>1, Remains
  <2> QED BY <2>1, <2>2
<1>4. ASSUME NEW q, q \in flight' PROVE Based(q.op)'
  BY <1>1, <1>4, Remains
<1> QED BY <1>1, <1>2, <1>3, <1>4 DEF Inv

-----------------------------------------------------------------------------
(* The steps of the requests of one thread.                                *)
LEMMA RequestStep ==
  ASSUME Inv, NEW r \in Threads, Request(r) \/ \E p \in People : retry(r, p) \/ refresh(r, p) \/ discard(r, p)
  PROVE  Inv' /\ fam.doc \subseteq fam'.doc /\ views' = views
<1> USE DEF history, service
<1>a. Founded /\ fresh \in Nat \ {0} /\ (\A p \in People : DeskOk(desk[p])) /\ CallOk(call[r]) /\ \A q \in flight : q.p \in People /\ Based(q.op)
  BY DEF Inv
<1>b. CallOk(Idle)
  BY DEF CallOk, Idle
<1>c. Copied(NoFam) /\ Copied(fam)
  BY <1>a DEF NoFam, Copied, Founded
<1>d. ~Ok.revoked
  BY DEF Ok, Answer
(* A request under way, taken apart.                                       *)
<1>e. ASSUME NEW c, c = call[r], c.at # "idle"
      PROVE  /\ c = [at |-> c.at, p |-> c.p, kind |-> c.kind, op |-> c.op, snap |-> c.snap, gen |-> c.gen,
                     a |-> c.a, wire |-> c.wire]
             /\ c.at \in Steps /\ c.p \in People /\ DeskOk(c.snap) /\ Copied(c.wire)
             /\ c.kind = "retry" => Based(c.op)
             /\ (c.at \in {"send", "answered"} => c.kind = "retry") /\ (c.at = "fetch" => c.kind # "retry")
             /\ c.at \in {"answered", "commit"} /\ c.kind = "retry" /\ ~FamilyOf(c.op.act) /\ c.a.revoked
                   /\ c.op.x \in Shares => Gone(c.op.x)
  BY <1>a, <1>e DEF CallOk
<1>1. ASSUME NEW p \in People, NEW kind, NEW op, Begin(r, p, kind, op), kind = "retry" => Based(op)
      PROVE  Inv' /\ fam.doc \subseteq fam'.doc /\ views' = views
  <2>1. ASSUME NEW c, c = [at |-> "read", p |-> p, kind |-> kind, op |-> op, snap |-> desk[p], gen |-> 0, a |-> Ok, wire |-> NoFam]
        PROVE  CallOk(c)
    BY <1>1, <1>a, <1>c, <2>1, Going DEF Steps
  <2>2. Go(r, [at |-> "read", p |-> p, kind |-> kind, op |-> op, snap |-> desk[p], gen |-> 0, a |-> Ok, wire |-> NoFam])
    BY <1>1 DEF Begin
  <2>3. CallOk([at |-> "read", p |-> p, kind |-> kind, op |-> op, snap |-> desk[p], gen |-> 0, a |-> Ok, wire |-> NoFam])
    BY <2>1
  <2> QED BY <1>1, <1>a, <2>2, <2>3, Went DEF Begin
<1>2. ASSUME Generation(r) PROVE Inv' /\ fam.doc \subseteq fam'.doc /\ views' = views
  <2>1. PICK c : c = call[r]
    OBVIOUS
  <2>2. PICK at, gen, d : /\ d = [c EXCEPT !.gen = gen, !.at = at] /\ Go(r, d)
                          /\ (at = "send" /\ c.kind = "retry") \/ (at \in {"pop", "fetch"} /\ c.kind # "retry")
    BY <1>2, <2>1 DEF Generation
  <2>3. c.at = "read" /\ UNCHANGED <<share, fam, invites, pending, expired, views, knows, desk, flight, fresh>>
    BY <1>2, <2>1 DEF Generation, At
  <2>4. d = [at |-> at, p |-> c.p, kind |-> c.kind, op |-> c.op, snap |-> c.snap, gen |-> gen, a |-> c.a, wire |-> c.wire]
    <3>1. c = [at |-> c.at, p |-> c.p, kind |-> c.kind, op |-> c.op, snap |-> c.snap, gen |-> c.gen, a |-> c.a, wire |-> c.wire]
      BY <1>e, <2>1, <2>3
    <3> QED BY <2>2, <3>1
  <2>5. c.p \in People /\ DeskOk(c.snap) /\ Copied(c.wire) /\ (c.kind = "retry" => Based(c.op))
    BY <1>e, <2>1, <2>3
  <2>6. CallOk(d)
    <3>1. /\ at \in Steps /\ at \notin {"answered", "commit"} /\ (at = "fetch" => c.kind # "retry")
          /\ at \in {"send", "answered"} => c.kind = "retry"
      BY <2>2 DEF Steps
    <3> QED BY <2>4, <2>5, <3>1, Going
  <2> QED BY <1>a, <2>2, <2>3, <2>6, Went
<1>3. ASSUME post(r) PROVE Inv' /\ fam.doc \subseteq fam'.doc /\ views' = views
  <2>1. PICK c : c = call[r]
    OBVIOUS
  <2>2. PICK a, d : d = [c EXCEPT !.at = "answered", !.a = a] /\ Go(r, d) /\ Serve(c.p, c.op, a)
    BY <1>3, <2>1 DEF post
  <2>3. c.at = "send" /\ UNCHANGED <<expired, flight, desk, fresh, views, knows>>
    BY <1>3, <2>1 DEF post, At
  <2>4. /\ c.p \in People /\ DeskOk(c.snap) /\ Copied(c.wire) /\ c.kind = "retry" /\ Based(c.op)
        /\ c = [at |-> c.at, p |-> c.p, kind |-> c.kind, op |-> c.op, snap |-> c.snap, gen |-> c.gen, a |-> c.a, wire |-> c.wire]
    BY <1>e, <2>1, <2>3
  <2>5. /\ Rows' /\ Founded' /\ GoesOn /\ fam.doc \subseteq fam'.doc
        /\ ~FamilyOf(c.op.act) /\ a.revoked /\ c.op.x \in Shares => Gone(c.op.x)'
    BY <2>2, <2>3, <2>4, Served DEF Inv
  <2>9. Members'
    BY <2>2, <2>3, <2>4, Joined DEF Inv
  <2>10. Learns
    BY <1>a, <2>3 DEF Learns, Held
  <2>6. d = [at |-> "answered", p |-> c.p, kind |-> c.kind, op |-> c.op, snap |-> c.snap, gen |-> c.gen, a |-> a, wire |-> c.wire]
    BY <2>2, <2>4
  <2>7. CallOk(d)'
    <3>1. DeskOk(c.snap)' /\ Copied(c.wire)' /\ Based(c.op)'
      <4>1. PICK snap, op, w : snap = c.snap /\ op = c.op /\ w = c.wire
        OBVIOUS
      <4>2. DeskOk(snap) /\ Copied(w) /\ Based(op)
        BY <2>4, <4>1
      <4>3. DeskOk(snap)' /\ Copied(w)' /\ Based(op)'
        BY <1>a, <2>5, <2>10, <4>2, Remains
      <4> QED BY <4>1, <4>3
    <3>2. d.at = "answered" /\ d.p = c.p /\ d.kind = c.kind /\ d.op = c.op /\ d.snap = c.snap /\ d.gen = c.gen /\ d.a = a /\ d.wire = c.wire
      BY <2>6
    <3>3. d = [at |-> d.at, p |-> d.p, kind |-> d.kind, op |-> d.op, snap |-> d.snap, gen |-> d.gen, a |-> d.a, wire |-> d.wire]
      BY <2>6, <3>2
    <3> QED BY <2>4, <2>5, <3>1, <3>2, <3>3 DEF CallOk, Steps
  <2>8. call' = [s \in Threads |-> call'[s]] /\ \A s \in Threads : \A e : e = call'[s] => CallOk(e) \/ CallOk(e)'
    BY <2>2, <2>7 DEF Go, Inv
  <2> QED BY <1>a, <2>3, <2>5, <2>8, <2>9, <2>10, ServiceStep
<1>4. ASSUME Timeout(r) PROVE Inv' /\ fam.doc \subseteq fam'.doc /\ views' = views
  <2>1. PICK c : c = call[r]
    OBVIOUS
  <2>2. c.at = "send" /\ c.p \in People /\ Based(c.op) /\ UNCHANGED <<share, fam, invites, pending, expired, views, knows, desk, fresh>>
    BY <1>4, <1>e, <2>1 DEF Timeout, At
  <2>3. \A q \in flight' : q \in flight \/ (q.op = c.op /\ q.p = c.p)
    BY <1>4, <2>1 DEF Timeout
  <2> QED BY <1>4, <1>a, <1>b, <2>2, <2>3, Went DEF Timeout
<1>5. ASSUME Drop(r) PROVE Inv' /\ fam.doc \subseteq fam'.doc /\ views' = views
  BY <1>5, <1>a, <1>b, Went DEF Drop
<1>6. ASSUME CheckDone(r) PROVE Inv' /\ fam.doc \subseteq fam'.doc /\ views' = views
  <2>1. PICK c : c = call[r]
    OBVIOUS
  <2>2. PICK d : d = [c EXCEPT !.a = Ok] /\ Go(r, d)
    BY <1>6, <2>1 DEF CheckDone
  <2>3. c.at = "answered" /\ UNCHANGED <<share, fam, invites, pending, expired, views, knows, desk, flight, fresh>>
    BY <1>6, <2>1 DEF CheckDone, At
  <2>4. /\ c.p \in People /\ DeskOk(c.snap) /\ Copied(c.wire) /\ c.kind = "retry" /\ Based(c.op)
        /\ c = [at |-> c.at, p |-> c.p, kind |-> c.kind, op |-> c.op, snap |-> c.snap, gen |-> c.gen, a |-> c.a, wire |-> c.wire]
    BY <1>e, <2>1, <2>3
  <2>5. d = [at |-> "answered", p |-> c.p, kind |-> c.kind, op |-> c.op, snap |-> c.snap, gen |-> c.gen, a |-> Ok, wire |-> c.wire]
    BY <2>2, <2>3, <2>4
  <2>6. CallOk(d)
    BY <1>d, <2>4, <2>5, Going DEF Steps
  <2> QED BY <1>a, <2>2, <2>3, <2>6, Went
<1>7. ASSUME NEW c, c = call[r], c.at \in {"answered", "fetch"}, NEW wire, wire \in {c.wire, fam},
             NEW d, d = [c EXCEPT !.at = "commit", !.wire = wire], Go(r, d),
             UNCHANGED <<share, fam, invites, pending, expired, views, desk, flight, fresh>>,
             \/ knows' = knows
             \/ fam.role[c.p] # "none" /\ knows' = [knows EXCEPT ![c.p] = knows[c.p] \cup {fam.wrap[c.p]}]
      PROVE  Inv'
  <2>1. /\ c.p \in People /\ DeskOk(c.snap) /\ Copied(wire) /\ (c.kind = "retry" => Based(c.op))
        /\ c = [at |-> c.at, p |-> c.p, kind |-> c.kind, op |-> c.op, snap |-> c.snap, gen |-> c.gen, a |-> c.a, wire |-> c.wire]
        /\ c.kind = "retry" /\ ~FamilyOf(c.op.act) /\ c.a.revoked /\ c.op.x \in Shares => Gone(c.op.x)
    BY <1>e, <1>7, <1>c
  <2>2. d = [at |-> "commit", p |-> c.p, kind |-> c.kind, op |-> c.op, snap |-> c.snap, gen |-> c.gen, a |-> c.a, wire |-> wire]
    BY <1>7, <2>1
  <2>3. CallOk(d)
    BY <2>1, <2>2, Going DEF Steps
  <2>4. /\ knows = [p \in People |-> knows[p]] /\ \A p \in People : fam.role[p] # "none" => fam.rev # 0
        /\ \A p \in People : fam.role[p] # "none" => fam.wrap[p] = fam.key
    BY <1>a DEF Inv, Members, Founded, NoFam, ReadableByMembers, verify_family
  <2>5. /\ knows' = [p \in People |-> knows'[p]]
        /\ \A p \in People : \A k \in knows'[p] : k \in knows[p] \/ (k = fam.key /\ fam.role[p] # "none")
    BY <1>7, <2>1, <2>4
  <2>6. \A k : Held(k)' => Held(k)
    BY <1>7, <2>5 DEF Held
  <2>7. Learns /\ GoesOn /\ Rows' /\ Founded'
    BY <1>a, <1>7, <2>6 DEF Inv, Learns, GoesOn, Gone, Founded, Rows, Counted
  <2>8. Members'
    <3>1. ReadableByMembers'
      BY <1>7, <2>5 DEF Inv, Members, ReadableByMembers, verify_family
    <3>2. fam.rev = 0 => \A p \in People : knows'[p] = {}
      BY <2>4, <2>5 DEF Inv, Members
    <3>3. \A k : Held(k)' => k \in Nat /\ k <= fresh
      BY <2>6 DEF Inv, Members
    <3> QED BY <1>7, <2>5, <3>1, <3>2, <3>3 DEF Inv, Members
  <2>9. call' = [s \in Threads |-> call'[s]] /\ \A s \in Threads : \A e : e = call'[s] => CallOk(e) \/ CallOk(e)'
    BY <1>7, <2>3 DEF Go, Inv
  <2> QED BY <1>a, <1>7, <2>7, <2>8, <2>9, ServiceStep
<1>8. ASSUME Answered(r) \/ Fetch(r) PROVE Inv' /\ fam.doc \subseteq fam'.doc /\ views' = views
  <2>1. PICK c : c = call[r]
    OBVIOUS
  <2>2. /\ c.at \in {"answered", "fetch"}
        /\ UNCHANGED <<share, fam, invites, pending, expired, views, desk, flight, fresh>>
        /\ \/ knows' = knows
           \/ fam.role[c.p] # "none" /\ knows' = [knows EXCEPT ![c.p] = knows[c.p] \cup {fam.wrap[c.p]}]
    BY <1>8, <2>1 DEF Answered, Fetch, ReadFamily, At
  <2>3. PICK e : Go(r, e) /\ (e = [c EXCEPT !.at = "commit", !.wire = fam] \/ e = [c EXCEPT !.at = "commit"])
    BY <1>8, <2>1 DEF Answered, Fetch, ReadFamily
  <2>4. e = [c EXCEPT !.at = "commit"] => e = [c EXCEPT !.at = "commit", !.wire = c.wire]
    <3>1. c = [at |-> c.at, p |-> c.p, kind |-> c.kind, op |-> c.op, snap |-> c.snap, gen |-> c.gen, a |-> c.a, wire |-> c.wire]
      BY <1>e, <2>1, <2>2
    <3> QED BY <3>1
  <2>5. PICK wire : wire \in {c.wire, fam} /\ e = [c EXCEPT !.at = "commit", !.wire = wire]
    BY <2>3, <2>4
  <2>6. Inv'
    BY <1>7, <2>1, <2>2, <2>3, <2>5
  <2> QED BY <2>2, <2>6
(* The vault is written; whatever it held before is replaced.              *)
<1>9. ASSUME NEW p \in People, NEW d, DeskOk(d), desk' = [desk EXCEPT ![p] = d], NEW c, CallOk(c), Go(r, c),
             UNCHANGED <<share, fam, invites, pending, expired, views, knows, flight, fresh>>
      PROVE  Inv'
  <2>1. desk' = [q \in People |-> desk'[q]] /\ call' = [s \in Threads |-> call'[s]]
    BY <1>9 DEF Inv, Go
  <2>2. \A q \in People : \A e : e = desk'[q] => DeskOk(e)
    BY <1>9, <1>a DEF Inv
  <2>3. \A s \in Threads : \A e : e = call'[s] => CallOk(e)
    BY <1>9 DEF Inv, Go
  <2> QED BY <1>9, <1>a, <2>1, <2>2, <2>3, Moved
<1>10. ASSUME commit(r) PROVE Inv' /\ fam.doc \subseteq fam'.doc /\ views' = views
  <2>1. PICK c : c = call[r]
    OBVIOUS
  <2>2. c.at = "commit" /\ UNCHANGED <<share, fam, invites, pending, expired, views, knows, flight, fresh>>
    BY <1>10, <2>1 DEF commit, At
  <2>3. /\ c.p \in People /\ DeskOk(c.snap) /\ Copied(c.wire) /\ (c.kind = "retry" => Based(c.op))
        /\ c = [at |-> c.at, p |-> c.p, kind |-> c.kind, op |-> c.op, snap |-> c.snap, gen |-> c.gen, a |-> c.a, wire |-> c.wire]
        /\ c.kind = "retry" /\ ~FamilyOf(c.op.act) /\ c.a.revoked /\ c.op.x \in Shares => Gone(c.op.x)
    BY <1>e, <2>1, <2>2
  <2>4. PICK e : Go(r, e) /\ (e = Idle \/ (e = [c EXCEPT !.at = "pop"]))
    BY <1>10, <2>1 DEF commit
  <2>5. CallOk(e)
    <3>1. CASE e = [c EXCEPT !.at = "pop"]
      <4>1. e = [at |-> "pop", p |-> c.p, kind |-> c.kind, op |-> c.op, snap |-> c.snap, gen |-> c.gen, a |-> c.a, wire |-> c.wire]
        BY <2>3, <3>1
      <4> QED BY <2>3, <4>1, Going DEF Steps
    <3> QED BY <1>b, <2>4, <3>1
  <2>6. PICK s : s = c.snap
    OBVIOUS
  <2>7. /\ s = [gen |-> s.gen, phase |-> s.phase, out |-> s.out, wire |-> s.wire, link |-> s.link]
        /\ s.phase = [t \in Shares |-> s.phase[t]]
        /\ \A op \in s.out : Based(op)
        /\ Copied(s.wire)
        /\ \A t \in Shares : s.phase[t] = "revoked" => Gone(t)
    BY <2>3, <2>6 DEF DeskOk
  <2>8. ASSUME NEW d, d = Completed(c), c.kind = "retry" PROVE DeskOk(d)
    <3>1. PICK o : o = [s EXCEPT !.out = s.out \ {c.op}]
      OBVIOUS
    <3>2. o = [gen |-> s.gen, phase |-> s.phase, out |-> s.out \ {c.op}, wire |-> s.wire, link |-> s.link]
      BY <2>7, <3>1
    <3>3. \A op \in s.out \ {c.op} : Based(op)
      BY <2>7
    <3>4. CASE ~FamilyOf(c.op.act)
      <4>1. PICK end : end = IF c.a.revoked THEN "revoked" ELSE "ready"
        OBVIOUS
      <4>2. d = [o EXCEPT !.phase[c.op.x] = end]
        BY <2>6, <2>8, <3>1, <3>4, <4>1 DEF Completed
      <4>3. PICK phase : phase = [s.phase EXCEPT ![c.op.x] = end]
        OBVIOUS
      <4>4. d = [gen |-> s.gen, phase |-> phase, out |-> s.out \ {c.op}, wire |-> s.wire, link |-> s.link]
        BY <3>2, <4>2, <4>3
      <4>5. phase = [t \in Shares |-> phase[t]]
        BY <2>7, <4>3
      <4>6. ASSUME NEW t \in Shares, phase[t] = "revoked" PROVE Gone(t)
        <5>1. CASE t = c.op.x
          BY <2>3, <2>7, <2>8, <3>4, <4>1, <4>3, <4>6, <5>1
        <5>2. CASE t # c.op.x
          BY <2>7, <4>3, <4>6, <5>2
        <5> QED BY <5>1, <5>2
      <4> QED BY <2>7, <3>3, <4>4, <4>5, <4>6, Assembled
    <3>5. CASE FamilyOf(c.op.act) /\ c.a.waiting
      <4>1. d = [o EXCEPT !.link = "waiting"]
        BY <2>6, <2>8, <3>1, <3>5 DEF Completed
      <4>2. d = [gen |-> s.gen, phase |-> s.phase, out |-> s.out \ {c.op}, wire |-> s.wire, link |-> "waiting"]
        BY <3>2, <4>1
      <4> QED BY <2>7, <3>3, <4>2, Assembled
    <3>6. CASE FamilyOf(c.op.act) /\ ~c.a.waiting
      <4>1. d = [o EXCEPT !.wire = c.wire, !.link = "in"]
        BY <2>6, <2>8, <3>1, <3>6 DEF Completed
      <4>2. d = [gen |-> s.gen, phase |-> s.phase, out |-> s.out \ {c.op}, wire |-> c.wire, link |-> "in"]
        BY <3>2, <4>1
      <4> QED BY <2>3, <2>7, <3>3, <4>2, Assembled
    <3> QED BY <3>4, <3>5, <3>6
  <2>9. ASSUME NEW d, d = Refreshed(c) PROVE DeskOk(d)
    <3>1. CASE c.wire.rev = 0
      <4>1. d = [s EXCEPT !.wire = NoFam, !.link = "removed"]
        BY <2>6, <2>9, <3>1 DEF Refreshed
      <4>2. d = [gen |-> s.gen, phase |-> s.phase, out |-> s.out, wire |-> NoFam, link |-> "removed"]
        BY <2>7, <4>1
      <4> QED BY <1>c, <2>7, <4>2, Assembled
    <3>2. CASE c.wire.rev # 0
      <4>1. d = [s EXCEPT !.wire = c.wire, !.link = "in"]
        BY <2>6, <2>9, <3>2 DEF Refreshed
      <4>2. d = [gen |-> s.gen, phase |-> s.phase, out |-> s.out, wire |-> c.wire, link |-> "in"]
        BY <2>7, <4>1
      <4> QED BY <2>3, <2>7, <4>2, Assembled
    <3> QED BY <3>1, <3>2
  <2>10. PICK o, d : /\ o = IF c.kind = "retry" THEN Completed(c) ELSE Refreshed(c)
                     /\ d = [o EXCEPT !.gen = c.gen + 1] /\ desk' = [desk EXCEPT ![c.p] = d]
    BY <1>10, <2>1 DEF commit
  <2>11. DeskOk(d)
    <3>1. DeskOk(o)
      BY <2>8, <2>9, <2>10
    <3>2. d = [gen |-> c.gen + 1, phase |-> o.phase, out |-> o.out, wire |-> o.wire, link |-> o.link]
      <4>1. o = [gen |-> o.gen, phase |-> o.phase, out |-> o.out, wire |-> o.wire, link |-> o.link]
        BY <3>1 DEF DeskOk
      <4> QED BY <2>10, <4>1
    <3>3. /\ o.phase = [t \in Shares |-> o.phase[t]] /\ \A op \in o.out : Based(op)
          /\ Copied(o.wire) /\ \A t \in Shares : o.phase[t] = "revoked" => Gone(t)
      BY <3>1 DEF DeskOk
    <3> QED BY <3>2, <3>3, Assembled
  <2>12. Inv'
    BY <1>9, <2>2, <2>3, <2>4, <2>5, <2>10, <2>11
  <2> QED BY <2>2, <2>12
<1>11. ASSUME Pop(r) PROVE Inv' /\ fam.doc \subseteq fam'.doc /\ views' = views
  <2>1. PICK c : c = call[r]
    OBVIOUS
  <2>2. c.at = "pop" /\ Go(r, Idle) /\ UNCHANGED <<share, fam, invites, pending, expired, views, knows, flight, fresh>>
    BY <1>11, <2>1 DEF Pop, At
  <2>3. c.p \in People
    BY <1>e, <2>1, <2>2
  <2>4. PICK s, d : /\ s = desk[c.p] /\ d = [s EXCEPT !.gen = s.gen + 1, !.out = {o \in s.out : o.n # c.op.n}]
                    /\ desk' = [desk EXCEPT ![c.p] = d]
    <3>1. desk' = [desk EXCEPT ![call[r].p] = [desk[call[r].p] EXCEPT !.gen = desk[call[r].p].gen + 1,
                                                  !.out = {o \in desk[call[r].p].out : o.n # call[r].op.n}]]
      BY <1>11 DEF Pop
    <3> QED BY <2>1, <3>1
  <2>5. DeskOk(d)
    <3>1. /\ s = [gen |-> s.gen, phase |-> s.phase, out |-> s.out, wire |-> s.wire, link |-> s.link]
          /\ s.phase = [t \in Shares |-> s.phase[t]]
          /\ \A op \in s.out : Based(op)
          /\ Copied(s.wire)
          /\ \A t \in Shares : s.phase[t] = "revoked" => Gone(t)
      BY <1>a, <2>3, <2>4 DEF DeskOk
    <3>2. d = [gen |-> s.gen + 1, phase |-> s.phase, out |-> {o \in s.out : o.n # c.op.n}, wire |-> s.wire, link |-> s.link]
      BY <2>4, <3>1
    <3>3. \A op \in {o \in s.out : o.n # c.op.n} : Based(op)
      BY <3>1
    <3> QED BY <3>1, <3>2, <3>3, Assembled
  <2>6. Inv'
    BY <1>9, <1>b, <2>2, <2>3, <2>4, <2>5
  <2> QED BY <2>2, <2>6
<1>12. ASSUME NEW p \in People, retry(r, p) \/ refresh(r, p) \/ discard(r, p)
       PROVE  Inv' /\ fam.doc \subseteq fam'.doc /\ views' = views
  <2>1. \A op \in desk[p].out : Based(op)
    BY <1>a DEF DeskOk
  <2>2. PICK kind, op : Begin(r, p, kind, op) /\ (kind = "retry" => Based(op))
    BY <1>12, <2>1 DEF retry, refresh, discard, PendingFamily
  <2> QED BY <1>1, <2>2
<1> QED BY <1>2, <1>3, <1>4, <1>5, <1>6, <1>8, <1>10, <1>11, <1>12 DEF Request

-----------------------------------------------------------------------------
(* Every step keeps the invariant, the family's document only grows, and a *)
(* share is only opened while it is not gone.                              *)
LEMMA SharingStep ==
  Inv /\ [Next]_vars => /\ Inv'
                        /\ fam.doc \subseteq fam'.doc
                        /\ \A s \in Shares : views'[s] # views[s] => ~Gone(s)
<1> SUFFICES ASSUME Inv, [Next]_vars
             PROVE  Inv' /\ fam.doc \subseteq fam'.doc /\ \A s \in Shares : views'[s] # views[s] => ~Gone(s)
  OBVIOUS
<1> USE DEF history, service
<1>a. /\ Founded /\ fresh \in Nat \ {0} /\ (\A q \in flight : q.p \in People /\ Based(q.op))
      /\ desk = [p \in People |-> desk[p]] /\ \A p \in People : DeskOk(desk[p])
      /\ call = [r \in Threads |-> call[r]] /\ \A r \in Threads : CallOk(call[r])
  BY DEF Inv
(* The steps of the service that nobody waits for.                         *)
<1>b. ASSUME Rows', UNCHANGED <<fam, flight, desk, call, fresh, knows>>, invites' \subseteq invites, pending' \subseteq pending,
             \A s \in Shares : Gone(s) => Gone(s)'
      PROVE  Inv'
  <2>1. GoesOn /\ Founded'
    BY <1>a, <1>b DEF GoesOn, Founded
  <2>2. Learns
    BY <1>a, <1>b DEF Learns, Held
  <2>3. ReadableByMembers' /\ \A k : Held(k)' => k \in Nat /\ k <= fresh
    BY <1>b DEF Inv, Members, Held, ReadableByMembers, verify_family
  <2>4. Members'
    BY <1>b, <2>3 DEF Inv, Members
  <2> QED BY <1>a, <1>b, <2>1, <2>2, <2>4, ServiceStep
<1>1. CASE apply
  <2>1. Inv'
    BY <1>1, Proposed
  <2>2. fam' = fam /\ views' = views
    BY <1>1 DEF apply, PublishShare, RevokeShare, create_family, JoinFamily, ManageFamily, RemoveMember, remove_proposal,
                write_proposal, Save
  <2> QED BY <2>1, <2>2
<1>2. CASE Late
  <2>1. PICK q \in flight : /\ \E a : Serve(q.p, q.op, a)
                            /\ flight' = flight \ {q} /\ UNCHANGED <<expired, desk, call, fresh, views, knows>>
    BY <1>2 DEF Late
  <2>2. PICK a : Serve(q.p, q.op, a)
    BY <2>1
  <2>3. q.p \in People /\ Based(q.op)
    BY <1>a
  <2>4. Rows' /\ Founded' /\ GoesOn /\ fam.doc \subseteq fam'.doc
    BY <2>1, <2>2, <2>3, Served DEF Inv
  <2>6. Members'
    BY <1>a, <2>1, <2>2, <2>3, Joined DEF Inv
  <2>7. Learns
    BY <1>a, <2>1 DEF Learns, Held
  <2>5. Inv'
    BY <1>a, <2>1, <2>4, <2>6, <2>7, ServiceStep
  <2> QED BY <2>1, <2>4, <2>5
<1>3. ASSUME NEW x, Expire(x) PROVE Inv' /\ fam.doc \subseteq fam'.doc /\ views' = views
  <2>1. /\ UNCHANGED <<share, fam, flight, desk, call, fresh, views, knows>>
        /\ invites' \subseteq invites /\ pending' \subseteq pending /\ expired' = expired \cup {x}
    BY <1>3 DEF Expire
  <2>2. Rows' /\ \A s \in Shares : Gone(s) => Gone(s)'
    BY <2>1 DEF Inv, Rows, Counted, Gone
  <2> QED BY <1>b, <2>1, <2>2
<1>4. ASSUME NEW s \in Shares, Prune(s) PROVE Inv' /\ fam.doc \subseteq fam'.doc /\ views' = views
  <2>1. /\ UNCHANGED <<fam, invites, pending, flight, desk, call, fresh, views, knows, expired>> /\ s \in expired /\ share' = [share EXCEPT ![s] = None]
    BY <1>4 DEF Prune
  <2>2. Rows' /\ \A t \in Shares : Gone(t) => Gone(t)'
    BY <2>1 DEF Inv, Rows, Counted, Gone
  <2> QED BY <1>b, <2>1, <2>2
<1>5. ASSUME NEW s \in Shares, share_read(s)
      PROVE  Inv' /\ fam' = fam /\ \A t \in Shares : views'[t] # views[t] => ~Gone(t)
  <2>1. /\ UNCHANGED <<fam, invites, pending, flight, desk, call, fresh, knows, expired>>
        /\ share[s].n # 0 /\ ~share[s].revoked /\ s \notin expired /\ share[s].reads < MaxReads
        /\ share' = [share EXCEPT ![s].reads = share[s].reads + 1] /\ views' = [views EXCEPT ![s] = views[s] + 1]
    BY <1>5 DEF share_read
  <2>2. /\ share = [t \in Shares |-> share[t]] /\ views = [t \in Shares |-> views[t]]
        /\ \A t \in Shares : Counted(t)
    BY DEF Inv, Rows
  <2>3. Counted(s)'
    <3>1. /\ share[s] = [n |-> share[s].n, reads |-> share[s].reads, revoked |-> share[s].revoked]
          /\ share[s].reads \in Nat /\ views[s] = share[s].reads /\ share[s].revoked \in BOOLEAN
      BY <2>1, <2>2 DEF Counted, None
    <3>2. share'[s] = [n |-> share[s].n, reads |-> share[s].reads + 1, revoked |-> share[s].revoked]
      <4>1. share'[s] = [share[s] EXCEPT !.reads = share[s].reads + 1]
        BY <2>1, <2>2
      <4> QED BY <3>1, <4>1
    <3>3. views'[s] = views[s] + 1 /\ views'[s] \in Nat /\ views'[s] <= MaxReads
      BY <2>1, <2>2, <3>1, SharingAssumption
    <3>4. /\ share'[s] = [n |-> share'[s].n, reads |-> share'[s].reads, revoked |-> share'[s].revoked]
          /\ share'[s].reads = share[s].reads + 1 /\ share'[s].n # 0 /\ share'[s].revoked \in BOOLEAN
      BY <2>1, <3>1, <3>2
    <3> QED BY <3>1, <3>3, <3>4 DEF Counted
  <2>4. ASSUME NEW t \in Shares \ {s} PROVE Counted(t)' /\ (Gone(t) => Gone(t)') /\ views'[t] = views[t]
    BY <2>1, <2>2 DEF Counted, Gone
  <2>5. ~Gone(s)
    BY <2>1 DEF Gone
  <2>6. Rows'
    BY <2>1, <2>2, <2>3, <2>4 DEF Rows
  <2> QED BY <1>b, <2>1, <2>4, <2>5, <2>6
<1>6. ASSUME NEW r \in Threads, Request(r) \/ \E p \in People : retry(r, p) \/ refresh(r, p) \/ discard(r, p)
      PROVE  Inv' /\ fam.doc \subseteq fam'.doc /\ views' = views
  BY <1>6, RequestStep
<1>7. CASE UNCHANGED vars
  <2>1. UNCHANGED <<share, fam, invites, pending, expired, flight, desk, call, fresh, views, knows>>
    BY <1>7 DEF vars
  <2>2. Rows' /\ \A s \in Shares : Gone(s) => Gone(s)'
    BY <2>1 DEF Inv, Rows, Counted, Gone
  <2> QED BY <1>b, <2>1, <2>2
<1> QED BY <1>1, <1>2, <1>3, <1>4, <1>5, <1>6, <1>7 DEF Next

(* The invariant holds of every reachable state.                           *)
LEMMA SharingInvariant == Spec => []Inv
<1>1. Init => Inv
  <2> SUFFICES ASSUME Init PROVE Inv
    OBVIOUS
  <2>1. Rows /\ fresh \in Nat \ {0} /\ call = [r \in Threads |-> call[r]] /\ (\A r \in Threads : CallOk(call[r])) /\ flight = {}
    BY SharingAssumption DEF Init, Rows, Counted, None, CallOk, Idle
  <2>2. \/ fam = NoFam /\ invites = {}
        \/ \E who \in Others, role \in {"editor", "reader", "none"} :
             /\ fam = Family(who, role)
             /\ invites = IF role = "none" THEN {[id |-> 1, role |-> "editor", accepted |-> Owner]} ELSE {}
    BY DEF Init
  <2>3. Founded /\ Members
    <3>1. fresh = 1 /\ pending = {} /\ knows = [p \in People |-> {fam.wrap[p]} \ {0}] /\ Owner \in People
      BY DEF Init, People
    <3>2. CASE fam = NoFam /\ invites = {}
      <4>1. /\ fam.rev = 0 /\ fam.role = [p \in People |-> "none"] /\ fam.wrap = [p \in People |-> 0] /\ fam.key = 0 /\ fam.author = Owner
        BY <3>2 DEF NoFam
      <4>2. Founded
        BY <3>2 DEF NoFam, Founded
      <4>3. knows = [p \in People |-> knows[p]] /\ \A p \in People : knows[p] = {}
        BY <3>1, <4>1
      <4>4. \A k : Held(k) => k = 0
        BY <4>1, <4>3 DEF Held
      <4> QED BY <3>1, <3>2, <4>1, <4>2, <4>3, <4>4 DEF Members, ReadableByMembers, Roles
    <3>3. ASSUME NEW who \in Others, NEW role \in {"editor", "reader", "none"}, fam = Family(who, role),
                 invites = IF role = "none" THEN {[id |-> 1, role |-> "editor", accepted |-> Owner]} ELSE {}
          PROVE  Founded /\ Members
      <4>1. fam = [id |-> 1, rev |-> 1, epoch |-> 1, mid |-> 1,
                   role |-> [p \in People |-> IF p = Owner THEN "owner" ELSE IF p = who THEN role ELSE "none"],
                   wrap |-> [p \in People |-> IF p = Owner \/ (p = who /\ role # "none") THEN 1 ELSE 0],
                   key |-> 1, blob |-> 1, doc |-> {}, author |-> Owner]
        BY <3>3, NewFamily
      <4>2. PICK roles, wrap :
              /\ roles = [p \in People |-> IF p = Owner THEN "owner" ELSE IF p = who THEN role ELSE "none"]
              /\ wrap = [p \in People |-> IF p = Owner \/ (p = who /\ role # "none") THEN 1 ELSE 0]
        OBVIOUS
      <4>3. /\ fam.rev = 1 /\ fam.role = roles /\ fam.wrap = wrap /\ fam.key = 1 /\ fam.author = Owner /\ Founded
        BY <4>1, <4>2 DEF Founded
      <4>4. /\ roles = [p \in People |-> roles[p]] /\ wrap = [p \in People |-> wrap[p]]
            /\ roles[Owner] = "owner" /\ \A p \in People : roles[p] \in Roles
        BY <3>1, <4>2 DEF Roles
      <4>5. \A p \in People : wrap[p] = IF roles[p] = "none" THEN 0 ELSE 1
        BY <4>2, SharingAssumption
      <4>6. knows = [p \in People |-> knows[p]] /\ \A p \in People : knows[p] = IF roles[p] = "none" THEN {} ELSE {1}
        BY <3>1, <4>3, <4>5
      <4>7. \A k : Held(k) => k = 1
        BY <4>3, <4>6 DEF Held
      <4>8. ReadableByMembers
        BY <3>1, <4>3, <4>4, <4>5, <4>6 DEF ReadableByMembers, verify_family
      <4>9. \A i \in invites : i = [id |-> i.id, role |-> i.role, accepted |-> i.accepted] /\ i.role \in {"editor", "reader"}
        BY <3>3
      <4> QED BY <3>1, <4>3, <4>4, <4>6, <4>7, <4>8, <4>9 DEF Members
    <3> QED BY <2>2, <3>2, <3>3
  <2>4. ASSUME NEW d, d = NoDesk \/ d = Member(fam) PROVE DeskOk(d)
    <3>1. Copied(NoFam) /\ Copied(fam)
      BY <2>3 DEF NoFam, Copied, Founded
    <3>2. PICK phase : phase = [s \in Shares |-> "none"]
      OBVIOUS
    <3>3. phase = [s \in Shares |-> phase[s]] /\ \A s \in Shares : phase[s] # "revoked"
      BY <3>2
    <3>4. PICK w, link : d = [gen |-> 0, phase |-> phase, out |-> {}, wire |-> w, link |-> link] /\ w \in {NoFam, fam}
      BY <2>4, <3>2 DEF NoDesk, Member
    <3> QED BY <3>1, <3>3, <3>4, Assembled
  <2>5. desk = [p \in People |-> desk[p]] /\ \A p \in People : desk[p] = NoDesk \/ desk[p] = Member(fam)
    BY DEF Init
  <2> QED BY <2>1, <2>3, <2>4, <2>5 DEF Inv
<1> QED BY <1>1, SharingStep, PTL DEF Spec

(* No share is opened more often than its owner permitted, for any number  *)
(* of lost answers, repeated creations and late requests.                  *)
THEOREM ViewsAreLimited == Spec => []ViewsWithinLimit
<1>1. Inv => ViewsWithinLimit
  BY DEF Inv, Rows, Counted, ViewsWithinLimit
<1> QED BY <1>1, SharingInvariant, PTL

(* A share that the desktop shows as revoked is never opened again, in     *)
(* whatever order the requests about it reach the service.                 *)
THEOREM RevocationIsFinal == Spec => RevokedIsGone
<1>1. Inv /\ [Next]_vars => \A s \in Shares : views'[s] # views[s] => desk[Owner].phase[s] # "revoked"
  BY SharingStep DEF Inv, DeskOk, People
<1> QED BY <1>1, SharingInvariant, PTL DEF Spec, RevokedIsGone

(* The family's document only grows: nothing that was accepted is lost.    *)
THEOREM DocumentOnlyGrows == Spec => SharedEditsKept
<1>1. Inv /\ [Next]_vars => fam.doc \subseteq fam'.doc
  BY SharingStep
<1> QED BY <1>1, SharingInvariant, PTL DEF Spec, SharedEditsKept

(* Exactly the members can read the family's document, whoever writes,     *)
(* joins or is removed meanwhile and whichever request comes late: each    *)
(* member can unwrap its key, and nobody else has ever had it.             *)
THEOREM MembersOnlyRead == Spec => []ReadableByMembers
<1>1. Inv => ReadableByMembers
  BY DEF Inv, Members
<1> QED BY <1>1, SharingInvariant, PTL
-----------------------------------------------------------------------------
(* Completed operations.  What the family and its invitations carry the    *)
(* numbers of was accepted (1 stands for what there was at the beginning), *)
(* and a request that succeeded, or counts as done before, was accepted.   *)
Known(n) == n \in {0, 1} \/ n \in applied
Recorded == Known(fam.id) /\ Known(fam.mid) /\ Known(fam.blob) /\ \A i \in invites : i.id \in applied
Told(c) == (c.at = "answered" /\ c.a.status = "ok") \/ (c.at = "commit" /\ c.kind = "retry")
              => (FamilyOf(c.op.act) => c.op.n \in applied)
AckInv == CompletedWasAccepted /\ Recorded /\ \A r \in Threads : Told(call[r])

(* The service says "ok" only to what it accepts or did accept before.     *)
LEMMA Acknowledged ==
  ASSUME Founded, Members, Recorded, NEW p, NEW op, Based(op), NEW a, Serve(p, op, a)
  PROVE  /\ Recorded' /\ applied \subseteq applied'
         /\ FamilyOf(op.act) /\ a.status = "ok" => op.n \in applied'
<1>a. ASSUME NEW status PROVE Answer(status).status = status
  BY DEF Answer
<1>b. op.n \in Nat \ {0, 1}
  BY DEF Based
<1>c. ASSUME UNCHANGED <<fam, invites, applied>> PROVE Recorded' /\ applied \subseteq applied'
  BY <1>c DEF Recorded, Known
<1>d. ASSUME applied' = applied \cup {op.n}, NEW x \in {fam.id, op.n}, NEW m \in {fam.mid, op.n}, NEW b \in {fam.blob, op.n},
             fam'.id = x, fam'.mid = m, fam'.blob = b, \A i \in invites' : i.id = op.n \/ \E j \in invites : i.id = j.id
      PROVE  Recorded' /\ applied \subseteq applied' /\ op.n \in applied'
  BY <1>d DEF Recorded, Known
<1>e. ASSUME NEW status, Refuse(a, status), status # "ok"
      PROVE  UNCHANGED <<fam, invites, applied>> /\ a.status # "ok"
  BY <1>a, <1>e DEF Refuse, KeepAll
<1>f. fam = [id |-> fam.id, rev |-> fam.rev, epoch |-> fam.epoch, mid |-> fam.mid, role |-> fam.role, wrap |-> fam.wrap,
             key |-> fam.key, blob |-> fam.blob, doc |-> fam.doc, author |-> fam.author]
  BY DEF Founded
<1>1. CASE share_create(op, a) \/ share_manage(op, a)
  BY <1>1, <1>c DEF share_create, share_manage, KeepFamily, KeepAll, Refuse, FamilyOf
<1>2. CASE family_create(op, a)
  <2>1. CASE fam.id = op.n /\ KeepAll
    BY <1>b, <1>c, <2>1 DEF KeepAll, Recorded, Known
  <2>2. CASE fam.id # op.n \/ ~KeepAll
    <3>1. fam' = First(op.n) /\ applied' = applied \cup {op.n} /\ invites' = invites
      BY <1>2, <2>2 DEF family_create, First, Accepted
    <3>2. fam'.id = op.n /\ fam'.mid = op.n /\ fam'.blob = op.n
      BY <3>1, FirstRevision
    <3> QED BY <1>d, <3>1, <3>2
  <2> QED BY <2>1, <2>2
<1>3. CASE accept(p, op, a)
  <2>1. CASE Refuse(a, "gone")
    BY <1>c, <1>e, <2>1
  <2>2. CASE applied' = applied \cup {op.n} /\ UNCHANGED <<fam, invites>>
    BY <1>d, <2>2
  <2>3. ASSUME NEW i \in invites, invites' = (invites \ {i}) \cup {[i EXCEPT !.accepted = p]},
               applied' = applied \cup {op.n}, fam' = fam
        PROVE  Recorded' /\ applied \subseteq applied' /\ op.n \in applied'
    <3>1. PICK j : j = [i EXCEPT !.accepted = p]
      OBVIOUS
    <3>2. j.id = i.id
      BY <3>1 DEF Members
    <3> QED BY <1>d, <2>3, <3>1, <3>2
  <2> QED BY <1>3, <2>1, <2>2, <2>3 DEF accept, Accepted
<1>4. CASE invite(op, a)
  <2>1. CASE Refuse(a, "invalid")
    BY <1>c, <1>e, <2>1
  <2>2. CASE KeepAll /\ \E i \in invites : i.id = op.n
    BY <1>c, <2>2 DEF KeepAll, Recorded
  <2>3. CASE /\ invites' = invites \cup {[id |-> op.n, role |-> op.role, accepted |-> Owner]}
             /\ applied' = applied \cup {op.n} /\ fam' = fam
    BY <1>d, <2>3
  <2> QED BY <1>4, <2>1, <2>2, <2>3 DEF invite, Accepted
<1>5. CASE revoke_invite(op, a)
  <2>1. invites' \subseteq invites /\ fam' = fam /\ applied' = applied \cup {op.n}
    BY <1>5 DEF revoke_invite, Accepted
  <2> QED BY <1>d, <2>1
<1>6. CASE write(p, op, a)
  <2>1. CASE Refuse(a, "denied") \/ Refuse(a, "conflict")
    BY <1>c, <1>e, <2>1
  <2>2. CASE fam' = write_content(op, p, fam) /\ invites' = invites /\ applied' = applied \cup {op.n}
    <3>1. fam' = [id |-> fam.id, rev |-> fam.rev + 1, epoch |-> fam.epoch, mid |-> fam.mid, role |-> fam.role, wrap |-> fam.wrap,
                  key |-> op.key, blob |-> op.n, doc |-> op.doc, author |-> p]
      BY <1>f, <2>2 DEF write_content
    <3>2. fam'.id = fam.id /\ fam'.mid = fam.mid /\ fam'.blob = op.n
      BY <3>1
    <3> QED BY <1>d, <2>2, <3>2
  <2> QED BY <1>6, <2>1, <2>2 DEF write, Accepted
<1>7. CASE approve(op, a)
  <2>1. CASE Refuse(a, "conflict") \/ Refuse(a, "gone")
    BY <1>c, <1>e, <2>1
  <2>2. CASE /\ fam' = [fam EXCEPT !.rev = fam.rev + 1, !.mid = op.n, !.role[op.who] = op.role, !.wrap[op.who] = op.key]
             /\ invites' \subseteq invites /\ applied' = applied \cup {op.n}
    <3>1. fam'.id = fam.id /\ fam'.mid = op.n /\ fam'.blob = fam.blob
      BY <1>f, <2>2
    <3> QED BY <1>d, <2>2, <3>1
  <2> QED BY <1>7, <2>1, <2>2 DEF approve, Accepted
<1>8. CASE remove(op, a)
  <2>1. CASE Refuse(a, "conflict")
    BY <1>c, <1>e, <2>1
  <2>2. CASE ~Refuse(a, "conflict")
    <3>1. PICK f, wrap :
            /\ f = write_content(op, Owner, fam) /\ invites' = {} /\ applied' = applied \cup {op.n}
            /\ fam' = [f EXCEPT !.epoch = f.epoch + 1, !.mid = op.n, !.role[op.who] = "none", !.wrap = wrap]
      BY <1>8, <2>2 DEF remove, Accepted
    <3>2. f = [id |-> fam.id, rev |-> fam.rev + 1, epoch |-> fam.epoch, mid |-> fam.mid, role |-> fam.role, wrap |-> fam.wrap,
               key |-> op.key, blob |-> op.n, doc |-> op.doc, author |-> Owner]
      BY <1>f, <3>1 DEF write_content
    <3>3. PICK g : g = [f EXCEPT !.epoch = f.epoch + 1, !.mid = op.n]
      OBVIOUS
    <3>4. g = [id |-> fam.id, rev |-> fam.rev + 1, epoch |-> fam.epoch + 1, mid |-> op.n, role |-> fam.role, wrap |-> fam.wrap,
               key |-> op.key, blob |-> op.n, doc |-> op.doc, author |-> Owner]
      BY <3>2, <3>3
    <3>5. fam' = [g EXCEPT !.role[op.who] = "none", !.wrap = wrap]
      BY <3>1, <3>3
    <3>6. fam'.id = fam.id /\ fam'.mid = op.n /\ fam'.blob = op.n
      BY <3>4, <3>5
    <3> QED BY <1>d, <3>1, <3>6
  <2> QED BY <2>1, <2>2
<1> QED
  BY <1>1, <1>2, <1>3, <1>4, <1>5, <1>6, <1>7, <1>8, <1>c, <1>e DEF Serve, family_operation

(* Every step keeps that; a conflict counts as done before only if the     *)
(* family carries the operation's number.                                  *)
LEMMA AckStep == Inv /\ AckInv /\ [Next]_vars => AckInv'
<1> SUFFICES ASSUME Inv, AckInv, [Next]_vars PROVE AckInv'
  OBVIOUS
<1> USE DEF history, service
<1>a. /\ Founded /\ Members /\ (\A q \in flight : q.p \in People /\ Based(q.op))
      /\ call = [r \in Threads |-> call[r]] /\ \A r \in Threads : CallOk(call[r])
  BY DEF Inv
<1>b. CompletedWasAccepted /\ Recorded /\ \A r \in Threads : Told(call[r])
  BY DEF AckInv
<1>c. Told(Idle)
  BY DEF Told, Idle
(* What does not touch the service, and at most one request.               *)
<1>d. ASSUME UNCHANGED <<fam, completed, applied>>, invites' \subseteq invites,
             \A r \in Threads : \A c : c = call'[r] => c = call[r] \/ Told(c)
      PROVE  AckInv'
  BY <1>b, <1>d DEF AckInv, CompletedWasAccepted, Recorded, Known, Told
<1>e. ASSUME NEW r \in Threads, NEW c, Go(r, c), Told(c), UNCHANGED <<fam, invites, completed, applied>>
      PROVE  AckInv'
  <2>1. \A s \in Threads : \A d : d = call'[s] => d = call[s] \/ Told(d)
    BY <1>a, <1>e DEF Go
  <2> QED BY <1>d, <1>e, <2>1
<1>f. ASSUME NEW p, NEW op, Based(op), NEW a, Serve(p, op, a), completed' = completed,
             \A r \in Threads : \A c : c = call'[r] =>
                c = call[r] \/ (c.at = "answered" /\ c.op = op /\ c.a = a)
      PROVE  AckInv'
  <2>1. /\ Recorded' /\ applied \subseteq applied'
        /\ FamilyOf(op.act) /\ a.status = "ok" => op.n \in applied'
    BY <1>a, <1>b, <1>f, Acknowledged
  <2>2. ASSUME NEW r \in Threads PROVE Told(call[r])'
    <3>1. PICK c : c = call'[r]
      OBVIOUS
    <3>2. CASE c = call[r]
      BY <1>b, <2>1, <3>1, <3>2 DEF Told
    <3>3. CASE c.at = "answered" /\ c.op = op /\ c.a = a
      BY <2>1, <3>1, <3>3 DEF Told
    <3> QED BY <1>f, <3>1, <3>2, <3>3
  <2> QED BY <1>b, <1>f, <2>1, <2>2 DEF AckInv, CompletedWasAccepted
<1>1. CASE apply
  BY <1>1, <1>d DEF apply, PublishShare, RevokeShare, create_family, JoinFamily, ManageFamily, RemoveMember, remove_proposal,
                    write_proposal, Save
<1>2. CASE Late
  <2>1. PICK q \in flight : (\E a : Serve(q.p, q.op, a)) /\ UNCHANGED <<call, completed>>
    BY <1>2 DEF Late
  <2>2. PICK a : Serve(q.p, q.op, a)
    BY <2>1
  <2> QED BY <1>a, <1>f, <2>1, <2>2
<1>3. ASSUME NEW x, Expire(x) PROVE AckInv'
  BY <1>3, <1>d DEF Expire
<1>4. ASSUME NEW s \in Shares, Prune(s) \/ share_read(s) PROVE AckInv'
  BY <1>4, <1>d DEF Prune, share_read
<1>5. ASSUME NEW r \in Threads, NEW p, retry(r, p) \/ refresh(r, p) \/ discard(r, p) PROVE AckInv'
  <2>1. PICK kind, op : Begin(r, p, kind, op)
    BY <1>5 DEF retry, refresh, discard
  <2>2. PICK c : Go(r, c) /\ c.at = "read"
    BY <2>1 DEF Begin
  <2> QED BY <1>e, <2>1, <2>2 DEF Begin, Told
<1>6. ASSUME NEW r \in Threads, Request(r) PROVE AckInv'
  <2>1. PICK c : c = call[r] /\ CallOk(c) /\ Told(c)
    BY <1>a, <1>b
  <2>2. ASSUME c.at # "idle"
        PROVE  /\ c = [at |-> c.at, p |-> c.p, kind |-> c.kind, op |-> c.op, snap |-> c.snap, gen |-> c.gen,
                       a |-> c.a, wire |-> c.wire]
               /\ c.kind = "retry" => Based(c.op)
               /\ (c.at \in {"send", "answered"} => c.kind = "retry") /\ (c.at = "fetch" => c.kind # "retry")
    BY <2>1, <2>2 DEF CallOk
  <2>3. CASE Generation(r)
    <3>1. PICK at, gen, d : d = [c EXCEPT !.gen = gen, !.at = at] /\ Go(r, d) /\ at \in {"send", "pop", "fetch"}
      BY <2>1, <2>3 DEF Generation
    <3>2. d.at = at
      BY <2>1, <2>2, <2>3, <3>1 DEF Generation, At
    <3>3. Told(d)
      BY <3>1, <3>2 DEF Told
    <3> QED BY <1>e, <2>3, <3>1, <3>3 DEF Generation
  <2>4. CASE post(r)
    <3>1. PICK a, d : d = [c EXCEPT !.at = "answered", !.a = a] /\ Go(r, d) /\ Serve(c.p, c.op, a) /\ completed' = completed
      BY <2>1, <2>4 DEF post
    <3>2. d.at = "answered" /\ d.op = c.op /\ d.a = a /\ Based(c.op)
      BY <2>1, <2>2, <2>4, <3>1 DEF post, At
    <3>3. \A s \in Threads : \A e : e = call'[s] => e = call[s] \/ (e.at = "answered" /\ e.op = c.op /\ e.a = a)
      BY <1>a, <3>1, <3>2 DEF Go
    <3> QED BY <1>f, <3>1, <3>2, <3>3
  <2>5. CASE Timeout(r) \/ Drop(r)
    BY <1>c, <1>e, <2>5 DEF Timeout, Drop
  <2>6. CASE CheckDone(r)
    <3>1. PICK d : d = [c EXCEPT !.a = Ok] /\ Go(r, d) /\ matches(c.op) /\ c.at = "answered"
      BY <2>1, <2>6 DEF CheckDone, At
    <3>2. d.op = c.op /\ Based(c.op)
      BY <2>2, <3>1
    <3>3. c.op.n \in applied
      BY <1>b, <3>1, <3>2 DEF matches, Recorded, Known, Based
    <3>4. Told(d)
      BY <3>2, <3>3 DEF Told
    <3> QED BY <1>e, <2>6, <3>1, <3>4 DEF CheckDone
  <2>7. CASE Answered(r) \/ Fetch(r)
    <3>1. PICK d : Go(r, d) /\ (d = [c EXCEPT !.at = "commit", !.wire = fam] \/ d = [c EXCEPT !.at = "commit"])
      BY <2>1, <2>7 DEF Answered, Fetch, ReadFamily
    <3>2. (c.at = "answered" /\ c.a.status = "ok") \/ c.at = "fetch"
      BY <2>1, <2>7 DEF Answered, Fetch, At
    <3>3. d.op = c.op /\ d.kind = c.kind /\ d.at = "commit"
      BY <2>2, <3>1, <3>2
    <3>4. Told(d)
      BY <2>1, <2>2, <3>2, <3>3 DEF Told
    <3> QED BY <1>e, <2>7, <3>1, <3>4 DEF Answered, Fetch, ReadFamily
  <2>8. CASE commit(r)
    <3>1. /\ completed' = IF c.kind = "retry" THEN completed \cup {c.op} ELSE completed
          /\ UNCHANGED <<fam, invites, applied>> /\ c.at = "commit"
      BY <2>1, <2>8 DEF commit, At
    <3>2. PICK d : Go(r, d) /\ (d = Idle \/ d = [c EXCEPT !.at = "pop"])
      BY <2>1, <2>8 DEF commit
    <3>3. Told(d)
      BY <1>c, <2>2, <3>1, <3>2 DEF Told
    <3>4. ASSUME NEW s \in Threads PROVE Told(call[s])'
      <4>1. PICK e : e = call'[s] /\ Told(e)
        BY <1>a, <1>b, <3>2, <3>3 DEF Go
      <4> QED BY <3>1, <4>1 DEF Told
    <3>5. Recorded'
      BY <1>b, <3>1 DEF Recorded, Known
    <3>6. CompletedWasAccepted'
      BY <1>b, <2>1, <3>1 DEF CompletedWasAccepted, Told
    <3> QED BY <3>4, <3>5, <3>6 DEF AckInv
  <2>9. CASE Pop(r)
    BY <1>c, <1>e, <2>9 DEF Pop
  <2> QED BY <1>6, <2>3, <2>4, <2>5, <2>6, <2>7, <2>8, <2>9 DEF Request
<1>7. CASE UNCHANGED vars
  BY <1>7, <1>d DEF vars
<1> QED BY <1>1, <1>2, <1>3, <1>4, <1>5, <1>6, <1>7 DEF Next

(* What a desktop reports as completed was accepted by the service, for    *)
(* any answers lost, late requests and conflicts taken for repetitions.    *)
THEOREM ReportedWasAccepted == Spec => []CompletedWasAccepted
<1>1. Init => AckInv
  <2> SUFFICES ASSUME Init PROVE AckInv
    OBVIOUS
  <2>1. CompletedWasAccepted /\ \A r \in Threads : Told(call[r])
    BY DEF Init, CompletedWasAccepted, Told, Idle
  <2>2. CASE fam = NoFam /\ invites = {}
    BY <2>1, <2>2 DEF NoFam, Recorded, Known, AckInv
  <2>3. ASSUME NEW who, NEW role, fam = Family(who, role)
        PROVE  fam.id = 1 /\ fam.mid = 1 /\ fam.blob = 1
    BY <2>3, NewFamily
  <2>4. ASSUME NEW role, completed = IF role = "none" THEN {[Op(1, "invite", 0) EXCEPT !.role = "editor"]} ELSE {},
               invites = IF role = "none" THEN {[id |-> 1, role |-> "editor", accepted |-> Owner]} ELSE {},
               applied = {o.n : o \in completed}
        PROVE  \A i \in invites : i.id \in applied
    <3>1. PICK o, op : o = Op(1, "invite", 0) /\ op = [o EXCEPT !.role = "editor"]
      OBVIOUS
    <3>2. op.n = 1
      BY <3>1 DEF Op
    <3>3. role = "none" => completed = {op}
      BY <2>4, <3>1
    <3> QED BY <2>4, <3>2, <3>3
  <2>5. CASE \E who \in Others, role \in {"editor", "reader", "none"} :
               /\ fam = Family(who, role)
               /\ invites = IF role = "none" THEN {[id |-> 1, role |-> "editor", accepted |-> Owner]} ELSE {}
               /\ completed = IF role = "none" THEN {[Op(1, "invite", 0) EXCEPT !.role = "editor"]} ELSE {}
    <3>1. applied = {o.n : o \in completed}
      BY DEF Init
    <3>2. Known(fam.id) /\ Known(fam.mid) /\ Known(fam.blob)
      BY <2>3, <2>5 DEF Known
    <3>3. \A i \in invites : i.id \in applied
      BY <2>4, <2>5, <3>1
    <3> QED BY <2>1, <3>2, <3>3 DEF AckInv, Recorded
  <2> QED BY <2>1, <2>2, <2>5 DEF Init, AckInv
<1>2. AckInv => CompletedWasAccepted
  BY DEF AckInv
<1> QED BY <1>1, <1>2, AckStep, SharingInvariant, PTL DEF Spec
=============================================================================
