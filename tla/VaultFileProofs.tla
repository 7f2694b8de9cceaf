--------------------------- MODULE VaultFileProofs ---------------------------
(***************************************************************************)
(* Proofs about the vault file: no anchor accuses a vault that nobody      *)
(* rolled back, an enrolled device keeps opening it, a withdrawn           *)
(* credential never does again, and no edit is lost - for any number of    *)
(* processes and calls, whatever fails, crashes or races.                  *)
(*                                                                         *)
(* First what the frames look like that v3_crypto builds; then what every  *)
(* call knows when it starts (Began) and what each of its steps does       *)
(* (Effect); then one invariant for each promise.                          *)
(***************************************************************************)
EXTENDS VaultFile, TLAPS

Credential == [slot : Nat, secret : Nat]
Key == [slot : Nat, secret : Nat \ {0}]
Payloads == [version : {2, 3}, edits : SUBSET Nat]
Bound == [vault : Nat, dek : Nat, nonce : Nat, gen : Nat, kgen : Nat, schema : {2, 3}, anchored : BOOLEAN]
Sealed == [dek : Nat, aad : Bound, payload : Payloads]
Framed == [kind : {"v3"}, header : V3Header, slots : SUBSET KeySlot, ciphertext : Sealed]
OldFormat == [kind : {"legacy"}, cred : Key, salt : Nat, payload : Payloads]
Container == {Absent} \cup OldFormat \cup Framed
Kinds == {"none", "create", "open", "commit", "upgrade", "enable", "disable", "rotate", "rekey",
          "anchor", "unanchor", "check", "find"}
Places == {"idle", "load", "key", "store", "write", "cleanup", "forget", "setAnchor", "dropAnchor",
           "verify", "compare", "advance", "return"}
Operation == [pc : Places, kind : Kinds, cred : Credential, new : Credential, base : Container,
              frame : Container, seen : Container, then : {"return", "write"}]
Revisions == {container_revision(f) : f \in Container}
VaultSession == [open : BOOLEAN, cred : Credential, revision : Revisions, payload : Payloads]

TypeInv ==
    /\ file \in Container /\ copy \in Container
    /\ devices \subseteq Nat /\ enabled \subseteq Nat /\ withdrawn \subseteq Credential
    /\ op \in [P -> Operation]
    /\ fresh \in Nat \ {0} /\ started \in Nat /\ restores \in Nat
    /\ \A a \in anchors : a.file_sha256 \in Framed
    /\ \A p \in P : op[p].pc \in {"compare", "advance"} => op[p].seen \in Framed
    /\ \A p \in P : op[p].kind = "anchor" => op[p].frame \in Framed
    /\ \A p \in P : op[p].pc = "setAnchor" => op[p].kind = "anchor"
    /\ \A p \in P : op[p].pc = "dropAnchor" => op[p].kind = "unanchor"
    /\ \A p \in P : op[p].pc = "forget" => op[p].kind = "disable"
    /\ \A p \in P : op[p].then = "write" => op[p].kind = "upgrade"
    /\ \A p \in P : op[p].kind = "open" => Exists(op[p].base)
    /\ \A p \in P : op[p].kind \in {"commit", "upgrade"} => Exists(op[p].frame)
    /\ session \in [P -> VaultSession]

(* The credentials that a container has a wrapped key for.                 *)
Creds(f) == IF IsV3(f) THEN {s.cred : s \in f.slots} ELSE IF Exists(f) THEN {f.cred} ELSE {}

(* g is a later version of the same vault than f.                          *)
Succeeds(f, g) ==
    IsV3(f) =>
      /\ IsV3(g) /\ g.header.vault = f.header.vault
      /\ f.header.gen <= g.header.gen /\ f.header.kgen <= g.header.kgen
      /\ f.header.gen # g.header.gen \/ f.header.kgen # g.header.kgen

(* What an operation knows when it starts.  A check, an opening or looking *)
(* for a device key builds nothing; every other call has built the         *)
(* successor of the file it read.                                          *)
Asks(o) ==
    /\ \/ o.kind \in {"open", "check"} /\ o.pc \in {"verify", "return"}
       \/ o.kind = "find" /\ o.pc = "load" /\ o.cred.slot # PasswordSlot
    /\ o.then = "return" /\ o.cred \in Creds(file) /\ o.new = o.cred
Drawing == {"create", "enable", "rotate"}
Plans(o) ==
    /\ o.kind \in Kinds \ {"none", "open", "check", "find"}
    /\ \/ o.pc = "store" /\ o.kind = "enable" /\ o.then = "return"
       \/ o.pc = "write" /\ o.kind # "enable" /\ (o.then = "write" => o.kind = "upgrade")
       \/ o.pc = "verify" /\ o.kind = "upgrade" /\ o.then = "write"
    /\ o.kind \in Drawing => o.new.secret = fresh
    /\ o.kind = "enable" => o.new = Device(fresh)
    /\ o.kind \in {"create", "rotate"} => o.new = Password(fresh)
    /\ o.kind = "disable" => o.new = Device(o.new.slot) /\ o.new.slot \in DeviceSlots(file)
    /\ IF o.kind = "create" THEN o.cred = o.new /\ ~Exists(file) ELSE o.cred \in Creds(file)
    /\ o.kind \notin Drawing \cup {"disable"} => o.new = o.cred
    /\ Creds(o.frame) \subseteq Creds(file) \cup (IF o.kind \in Drawing THEN {o.new} ELSE {})
    /\ o.kind = "disable" => o.new \notin Creds(o.frame)
    /\ o.kind = "rotate" => Creds(o.frame) = {o.new}
    /\ Exists(o.frame) /\ Succeeds(file, o.frame)
    /\ o.kind = "anchor" => o.frame \in Framed

(* What a frame carries of the file it replaces: the same content, or a    *)
(* new one under a new nonce; and every edit, those of the session that    *)
(* saves being the file's.                                                 *)
SameContent(f) ==
    /\ IsV3(f) /\ Exists(file)
    /\ container_revision(f) = container_revision(file) /\ PayloadOf(f) = PayloadOf(file)
NewContent(f) == IsV3(f) => fresh <= f.header.nonce /\ f.header.nonce < fresh'
KeepsEdits(s, f) ==
    Exists(file) =>
        \/ PayloadOf(file).edits \subseteq PayloadOf(f).edits
        \/ s.open /\ UpToDate(s) /\ s.payload.edits \subseteq PayloadOf(f).edits
Carries(p, f) == Exists(f) => (SameContent(f) \/ NewContent(f)) /\ KeepsEdits(session[p], f)

Began(p) ==
    \E o \in Operation :
        /\ At(p, "idle") /\ op' = [op EXCEPT ![p] = o]
        /\ o.base = file /\ o.seen = Absent
        /\ Asks(o) \/ (Plans(o) /\ (o.kind \in Drawing => fresh < fresh'))
        /\ Carries(p, o.frame) /\ (Asks(o) => o.frame = Absent)
        /\ fresh' \in Nat /\ fresh <= fresh' /\ started' \in Nat
        /\ UNCHANGED <<stores, session, copy, restores, ghosts>>

-----------------------------------------------------------------------------
LEMMA HeaderFields ==
    ASSUME NEW h \in V3Header
    PROVE  /\ h = [vault |-> h.vault, dek |-> h.dek, nonce |-> h.nonce, gen |-> h.gen, kgen |-> h.kgen,
                   schema |-> h.schema, anchored |-> h.anchored]
           /\ h.vault \in Nat /\ h.dek \in Nat /\ h.nonce \in Nat /\ h.gen \in Nat \ {0} /\ h.kgen \in Nat \ {0}
           /\ h.schema \in {2, 3} /\ h.anchored \in BOOLEAN
           /\ h.gen + 1 \in Nat \ {0} /\ h.kgen + 1 \in Nat \ {0}
  BY DEF V3Header

LEMMA Sealing ==
    ASSUME NEW h \in V3Header, NEW payload \in Payloads
    PROVE  encrypt(h, payload) \in Sealed /\ encrypt(h, payload).payload = payload
<1>1. payload_aad(h) \in Bound
  BY DEF payload_aad, V3Header, Bound
<1>2. h.dek \in Nat
  BY DEF V3Header
<1> QED BY <1>1, <1>2 DEF encrypt, Sealed

LEMMA Wrapping ==
    ASSUME NEW h \in V3Header, NEW cred \in Key
    PROVE  wrap_dek(cred, h) \in KeySlot /\ wrap_dek(cred, h).cred = cred
  BY DEF V3Header, KeySlot, wrap_dek, wrap_aad, Key

(* What a frame is made of.                                                *)
LEMMA Framing ==
    ASSUME NEW h \in V3Header, NEW slots \in SUBSET KeySlot, NEW text \in Sealed,
           NEW g, g = assemble_frame(h, slots, text)
    PROVE  /\ g \in Framed /\ g \in Container /\ IsV3(g) /\ Exists(g)
           /\ g.header = h /\ g.slots = slots /\ g.ciphertext = text
           /\ PayloadOf(g) = text.payload /\ Creds(g) = {s.cred : s \in slots}
  BY DEF assemble_frame, Framed, Container, IsV3, Exists, PayloadOf, Creds

(* A credential opens only a container that has a wrapped key for it.      *)
LEMMA OpeningCred ==
    ASSUME NEW f \in Container, NEW cred, decrypt_payload(cred, f)
    PROVE  cred \in Creds(f) /\ cred \in Key /\ Exists(f)
<1>1. CASE f \in OldFormat
  BY <1>1 DEF decrypt_payload, OldFormat, Creds, IsV3, Exists
<1>2. CASE f \in Framed
  <2>1. PICK s \in f.slots : s.cred = cred
    BY <1>2 DEF decrypt_payload, decrypt_v3_payload, unlock_dek, Framed
  <2>2. s \in KeySlot
    BY <1>2, <2>1 DEF Framed
  <2> QED BY <1>2, <2>1, <2>2 DEF KeySlot, Key, Creds, IsV3, Exists, Framed
<1> QED BY <1>1, <1>2 DEF Container, Absent, decrypt_payload

LEMMA CredsAreKeys ==
    ASSUME NEW f \in Container
    PROVE  Creds(f) \subseteq Key /\ Key \subseteq Credential
  BY DEF Container, Creds, OldFormat, Framed, KeySlot, Key, Credential, Absent, IsV3, Exists

(* A new container, or one with a new data key, under the header h.        *)
LEMMA CreatedFrame ==
    ASSUME NEW cred \in Key, NEW payload \in Payloads, NEW h \in V3Header,
           NEW g, g = assemble_frame(h, {wrap_dek(cred, h)}, encrypt(h, payload))
    PROVE  /\ g \in Framed /\ g \in Container /\ IsV3(g) /\ Exists(g) /\ g.header = h
           /\ PayloadOf(g) = payload /\ Creds(g) = {cred}
<1>1. encrypt(h, payload) \in Sealed /\ encrypt(h, payload).payload = payload
  BY Sealing
<1>2. {wrap_dek(cred, h)} \in SUBSET KeySlot /\ {s.cred : s \in {wrap_dek(cred, h)}} = {cred}
  BY Wrapping
<1> QED BY <1>1, <1>2, Framing

(* A new payload or a new marker under the same keys.                      *)
LEMMA UpdatedFrame ==
    ASSUME NEW f \in Framed, NEW n \in Nat, NEW payload \in Payloads,
           NEW g, g = update_v3_container(f, payload, n)
    PROVE  /\ g \in Framed /\ g \in Container /\ IsV3(g) /\ Exists(g)
           /\ g.header.vault = f.header.vault /\ g.header.gen = f.header.gen + 1
           /\ g.header.kgen = f.header.kgen /\ g.header.nonce = n
           /\ PayloadOf(g) = payload /\ Creds(g) = Creds(f)
<1>1. /\ f.header \in V3Header /\ f.slots \in SUBSET KeySlot
      /\ PayloadOf(f) \in Payloads /\ Creds(f) = {s.cred : s \in f.slots}
  BY DEF Framed, Sealed, PayloadOf, IsV3, Creds
<1>2. PICK h \in V3Header : h = f.header
  BY <1>1
<1>3. /\ h = [vault |-> h.vault, dek |-> h.dek, nonce |-> h.nonce, gen |-> h.gen, kgen |-> h.kgen,
              schema |-> h.schema, anchored |-> h.anchored]
      /\ h.gen + 1 \in Nat \ {0} /\ h.kgen + 1 \in Nat \ {0}
  BY HeaderFields
<1>4. PICK k : k = [f.header EXCEPT !.gen = @ + 1, !.schema = payload.version, !.nonce = n]
  OBVIOUS
<1>5. k = [vault |-> h.vault, dek |-> h.dek, nonce |-> n, gen |-> h.gen + 1, kgen |-> h.kgen,
           schema |-> payload.version, anchored |-> h.anchored]
  BY <1>2, <1>3, <1>4
<1>6. /\ k \in V3Header
      /\ k.vault = f.header.vault /\ k.gen = f.header.gen + 1 /\ k.kgen = f.header.kgen /\ k.nonce = n
  BY <1>2, <1>3, <1>5 DEF V3Header, Payloads
<1>7. g = assemble_frame(k, f.slots, encrypt(k, payload))
  BY <1>4 DEF update_v3_container
<1>8. encrypt(k, payload) \in Sealed /\ encrypt(k, payload).payload = payload
  BY <1>1, <1>6, Sealing
<1>9. /\ g \in Framed /\ g \in Container /\ IsV3(g) /\ Exists(g) /\ g.header = k
      /\ PayloadOf(g) = payload /\ Creds(g) = Creds(f)
  BY <1>1, <1>6, <1>7, <1>8, Framing
<1> QED BY <1>6, <1>9

LEMMA MarkedFrame ==
    ASSUME NEW f \in Framed, NEW n \in Nat,
           NEW g, \E anchored \in BOOLEAN : g = update_v3_extensions(f, anchored, n)
    PROVE  /\ g \in Framed /\ g \in Container /\ IsV3(g) /\ Exists(g)
           /\ g.header.vault = f.header.vault /\ g.header.gen = f.header.gen + 1
           /\ g.header.kgen = f.header.kgen /\ g.header.nonce = n
           /\ PayloadOf(g) = PayloadOf(f) /\ Creds(g) = Creds(f)
<1>1. /\ f.header \in V3Header /\ f.slots \in SUBSET KeySlot
      /\ PayloadOf(f) \in Payloads /\ Creds(f) = {s.cred : s \in f.slots}
  BY DEF Framed, Sealed, PayloadOf, IsV3, Creds
<1>2. PICK h \in V3Header : h = f.header
  BY <1>1
<1>3. /\ h = [vault |-> h.vault, dek |-> h.dek, nonce |-> h.nonce, gen |-> h.gen, kgen |-> h.kgen,
              schema |-> h.schema, anchored |-> h.anchored]
      /\ h.gen + 1 \in Nat \ {0} /\ h.kgen + 1 \in Nat \ {0}
  BY HeaderFields
<1>0. PICK anchored \in BOOLEAN : g = update_v3_extensions(f, anchored, n)
  OBVIOUS
<1>4. PICK k : k = [f.header EXCEPT !.gen = @ + 1, !.nonce = n, !.anchored = anchored]
  OBVIOUS
<1>5. k = [vault |-> h.vault, dek |-> h.dek, nonce |-> n, gen |-> h.gen + 1, kgen |-> h.kgen,
           schema |-> h.schema, anchored |-> anchored]
  BY <1>2, <1>3, <1>4
<1>6. /\ k \in V3Header
      /\ k.vault = f.header.vault /\ k.gen = f.header.gen + 1 /\ k.kgen = f.header.kgen /\ k.nonce = n
  BY <1>2, <1>3, <1>5 DEF V3Header
<1>7. g = assemble_frame(k, f.slots, encrypt(k, PayloadOf(f)))
  BY <1>0, <1>4 DEF update_v3_extensions
<1>8. encrypt(k, PayloadOf(f)) \in Sealed /\ encrypt(k, PayloadOf(f)).payload = PayloadOf(f)
  BY <1>1, <1>6, Sealing
<1>9. /\ g \in Framed /\ g \in Container /\ IsV3(g) /\ Exists(g) /\ g.header = k
      /\ PayloadOf(g) = PayloadOf(f) /\ Creds(g) = Creds(f)
  BY <1>1, <1>6, <1>7, <1>8, Framing
<1> QED BY <1>6, <1>9

(* New key slots over the same payload: the next key generation.           *)
LEMMA RekeyedFrame ==
    ASSUME NEW f \in Framed, NEW creds \in SUBSET Key,
           NEW g, g = assemble_frame(NextKeys(f), {wrap_dek(c, NextKeys(f)) : c \in creds}, f.ciphertext)
    PROVE  /\ g \in Framed /\ g \in Container /\ IsV3(g) /\ Exists(g)
           /\ g.header.vault = f.header.vault /\ g.header.gen = f.header.gen
           /\ g.header.kgen = f.header.kgen + 1 /\ g.header.nonce = f.header.nonce
           /\ container_revision(g) = container_revision(f)
           /\ PayloadOf(g) = PayloadOf(f) /\ Creds(g) = creds
<1>1. /\ f.header \in V3Header /\ f.ciphertext \in Sealed /\ PayloadOf(f) = f.ciphertext.payload
      /\ f.kind = "v3"
  BY DEF Framed, PayloadOf, IsV3
<1>2. PICK h \in V3Header : h = f.header
  BY <1>1
<1>3. /\ h = [vault |-> h.vault, dek |-> h.dek, nonce |-> h.nonce, gen |-> h.gen, kgen |-> h.kgen,
              schema |-> h.schema, anchored |-> h.anchored]
      /\ h.gen + 1 \in Nat \ {0} /\ h.kgen + 1 \in Nat \ {0}
  BY HeaderFields
<1>4. PICK k : k = NextKeys(f)
  OBVIOUS
<1>5. k = [vault |-> h.vault, dek |-> h.dek, nonce |-> h.nonce, gen |-> h.gen, kgen |-> h.kgen + 1,
           schema |-> h.schema, anchored |-> h.anchored]
  BY <1>2, <1>3, <1>4 DEF NextKeys
<1>6. /\ k \in V3Header /\ k.vault = f.header.vault /\ k.dek = f.header.dek /\ k.gen = f.header.gen
      /\ k.kgen = f.header.kgen + 1 /\ k.nonce = f.header.nonce
  BY <1>2, <1>3, <1>5 DEF V3Header
<1>7. PICK slots : slots = {wrap_dek(c, k) : c \in creds}
  OBVIOUS
<1>8. slots \in SUBSET KeySlot /\ {s.cred : s \in slots} = creds
  BY <1>6, <1>7, Wrapping
<1>9. PICK text \in Sealed : text = f.ciphertext
  BY <1>1
<1>10. g = assemble_frame(k, slots, text)
  BY <1>4, <1>7, <1>9
<1>11. k \in V3Header /\ slots \in SUBSET KeySlot
  BY <1>6, <1>8
<1>12. /\ g \in Framed /\ g \in Container /\ IsV3(g) /\ Exists(g) /\ g.header = k
       /\ PayloadOf(g) = text.payload /\ Creds(g) = {s.cred : s \in slots}
  <2>1. g = assemble_frame(k, slots, text) /\ k \in V3Header /\ slots \in SUBSET KeySlot /\ text \in Sealed
    BY <1>9, <1>10, <1>11
  <2> QED BY ONLY <2>1, Framing
<1>13. container_revision(g) = container_revision(f)
  BY <1>1, <1>6, <1>12 DEF container_revision, IsV3
<1> QED BY <1>1, <1>6, <1>8, <1>9, <1>12, <1>13

-----------------------------------------------------------------------------
Called(kind, cred, new, frame, pc, then) ==
    [pc |-> pc, kind |-> kind, cred |-> cred, new |-> new, base |-> file,
     frame |-> frame, seen |-> Absent, then |-> then]

LEMMA Starting ==
    ASSUME TypeInv, NEW p \in P, NEW kind \in Kinds, NEW cred \in Credential, NEW new \in Credential,
           NEW frame \in Container, NEW pc \in Places, NEW then \in {"return", "write"},
           Start(p, kind, cred, new, frame, pc, then), fresh' \in Nat, fresh <= fresh',
           NEW o, o = Called(kind, cred, new, frame, pc, then), Carries(p, frame), Asks(o) => frame = Absent,
           Asks(o) \/ (Plans(o) /\ (kind \in Drawing => fresh < fresh'))
    PROVE  Began(p)
<1>1. o \in Operation
  BY DEF Called, Operation, TypeInv, Container
<1>2. /\ At(p, "idle") /\ op' = [op EXCEPT ![p] = o] /\ o.base = file /\ o.seen = Absent /\ o.kind = kind
      /\ o.frame = frame
      /\ started' \in Nat /\ UNCHANGED <<stores, session, copy, restores, ghosts>>
  BY DEF Start, TypeInv, Called
<1> QED BY <1>1, <1>2 DEF Began

(* The two halves of enable_device_unlock.                                 *)
Enrolling(p) ==
    \E cred \in Credentials :
        /\ ByPassword(cred) /\ device_slots(file) = {} /\ Draw(1)
        /\ Start(p, "enable", cred, Device(fresh),
                 add_v3_device_slot(cred, Device(fresh), file), "store", "return")
Finding(p) ==
    \E s \in IF IsV3(file) THEN device_slots(file) ELSE {} :
        /\ Start(p, "find", s.cred, s.cred, Absent, "load", "return")
        /\ UNCHANGED fresh

LEMMA Asking ==
    ASSUME TypeInv, NEW p \in P, read_encrypted_snapshot(p) \/ verify_rollback_anchor(p) \/ Finding(p)
    PROVE  Began(p)
<1>1. ASSUME NEW kind \in {"open", "check"}, NEW cred, NEW pc \in {"verify", "return"},
             Opening(cred), Start(p, kind, cred, cred, Absent, pc, "return"), UNCHANGED fresh
      PROVE  Began(p)
  <2>1. cred \in Creds(file) /\ cred \in Credential
    BY <1>1, OpeningCred, CredsAreKeys DEF Opening, TypeInv
  <2>2. PICK o : o = Called(kind, cred, cred, Absent, pc, "return")
    OBVIOUS
  <2>3. Asks(o)
    BY <1>1, <2>1, <2>2 DEF Asks, Called
  <2>4. /\ kind \in Kinds /\ Absent \in Container /\ pc \in Places /\ fresh' \in Nat /\ fresh <= fresh'
    BY <1>1 DEF Kinds, Container, Places, TypeInv
  <2>5. Carries(p, Absent)
    BY DEF Carries, Exists, Absent
  <2> QED BY <1>1, <2>1, <2>2, <2>3, <2>4, <2>5, Starting
<1>2. CASE read_encrypted_snapshot(p)
  <2>1. PICK cred \in Credentials :
          /\ Opening(cred)
          /\ Start(p, "open", cred, cred, Absent,
                   IF IsV3(file) /\ file.header.anchored THEN "verify" ELSE "return", "return")
          /\ UNCHANGED fresh
    BY <1>2 DEF read_encrypted_snapshot
  <2>2. PICK pc : pc = IF IsV3(file) /\ file.header.anchored THEN "verify" ELSE "return"
    OBVIOUS
  <2>3. Start(p, "open", cred, cred, Absent, pc, "return") /\ pc \in {"verify", "return"}
    BY <2>1, <2>2
  <2> QED BY <1>1, <2>1, <2>3
<1>3. CASE verify_rollback_anchor(p)
  <2>1. PICK cred \in Credentials :
          Opening(cred) /\ Start(p, "check", cred, cred, Absent, "verify", "return") /\ UNCHANGED fresh
    BY <1>3 DEF verify_rollback_anchor
  <2> QED BY <1>1, <2>1
<1>4. CASE Finding(p)
  <2>1. PICK s \in device_slots(file) :
          IsV3(file) /\ Start(p, "find", s.cred, s.cred, Absent, "load", "return") /\ UNCHANGED fresh
    BY <1>4 DEF Finding
  <2>2. PICK cred : cred = s.cred
    OBVIOUS
  <2>3. cred \in Creds(file) /\ cred.slot # PasswordSlot
    BY <2>1, <2>2 DEF device_slots, password_slots, Creds
  <2>4. cred \in Credential
    BY <2>3, CredsAreKeys DEF TypeInv
  <2>5. PICK o : o = Called("find", cred, cred, Absent, "load", "return")
    OBVIOUS
  <2>6. Asks(o)
    BY <2>3, <2>5 DEF Asks, Called
  <2>7. /\ "find" \in Kinds /\ Absent \in Container /\ "load" \in Places /\ "return" \in {"return", "write"}
        /\ fresh' \in Nat /\ fresh <= fresh'
    BY <2>1 DEF Kinds, Container, Places, TypeInv
  <2>8. Carries(p, Absent)
    BY DEF Carries, Exists, Absent
  <2>9. Start(p, "find", cred, cred, Absent, "load", "return")
    BY <2>1, <2>2
  <2> QED BY <2>4, <2>5, <2>6, <2>7, <2>8, <2>9, Starting
<1> QED BY <1>2, <1>3, <1>4

(* The two ways to make a vault.                                           *)
LEMMA Creating ==
    ASSUME TypeInv, NEW p \in P, init(p)
    PROVE  Began(p)
<1>1. PICK frame :
         /\ file = Absent /\ Draw(2)
         /\ Start(p, "create", Password(fresh), Password(fresh), frame, "write", "return")
         /\ \/ frame = Legacy(Password(fresh), fresh + 1, Payload(2, {}))
            \/ frame = create_v3_container(Password(fresh), Payload(2, {}), fresh + 1, fresh + 1, 1, 1, FALSE)
  BY DEF init, create_v3_file, create_legacy
<1>2. PICK cred : cred = Password(fresh)
  OBVIOUS
<1>3. cred \in Key /\ cred \in Credential /\ cred.secret = fresh /\ Payload(2, {}) \in Payloads
  BY <1>2 DEF TypeInv, Key, Credential, Password, PasswordSlot, Payload, Payloads
<1>4. frame \in Container /\ Exists(frame) /\ Creds(frame) = {cred}
  <2>1. CASE frame = Legacy(Password(fresh), fresh + 1, Payload(2, {}))
    BY <2>1, <1>2, <1>3 DEF Legacy, OldFormat, Container, Exists, Creds, IsV3, TypeInv
  <2>2. CASE frame = create_v3_container(Password(fresh), Payload(2, {}), fresh + 1, fresh + 1, 1, 1, FALSE)
    <3>1. PICK payload : payload = Payload(2, {})
      OBVIOUS
    <3>2. PICK h : h = base_header(fresh + 1, fresh + 1, 1, 1, payload.version, FALSE)
      OBVIOUS
    <3>3. h \in V3Header
      BY <1>3, <3>1, <3>2 DEF base_header, V3Header, Payloads, TypeInv
    <3>4. frame = assemble_frame(h, {wrap_dek(cred, h)}, encrypt(h, payload))
      BY <1>2, <2>2, <3>1, <3>2 DEF create_v3_container
    <3> QED BY <1>3, <3>1, <3>3, <3>4, CreatedFrame
  <2> QED BY <1>1, <2>1, <2>2
<1>8. Carries(p, frame)
  <2>1. ~Exists(file)
    BY <1>1 DEF Exists, Absent
  <2>2. NewContent(frame)
    <3>1. fresh' = fresh + 2 /\ fresh \in Nat
      BY <1>1 DEF Draw, TypeInv
    <3>2. CASE frame = Legacy(Password(fresh), fresh + 1, Payload(2, {}))
      BY <3>2 DEF Legacy, NewContent, IsV3
    <3>3. CASE frame = create_v3_container(Password(fresh), Payload(2, {}), fresh + 1, fresh + 1, 1, 1, FALSE)
      <4>1. frame.header.nonce = fresh + 1
        BY <3>3 DEF create_v3_container, base_header, assemble_frame
      <4> QED BY <3>1, <4>1 DEF NewContent
    <3> QED BY <1>1, <3>2, <3>3
  <2> QED BY <2>1, <2>2 DEF Carries, KeepsEdits
<1>5. PICK o : o = Called("create", cred, cred, frame, "write", "return")
  OBVIOUS
<1>6. Plans(o)
  BY <1>1, <1>2, <1>3, <1>4, <1>5 DEF Plans, Called, Drawing, Kinds, Succeeds, Absent, IsV3, Exists
<1>7. /\ "create" \in Kinds /\ "write" \in Places /\ "return" \in {"return", "write"}
      /\ fresh' \in Nat /\ fresh < fresh' /\ fresh <= fresh'
  BY <1>1 DEF Kinds, Places, Draw, TypeInv
<1>9. ~Asks(o)
  BY <1>5 DEF Asks, Called
<1> QED BY <1>1, <1>2, <1>3, <1>4, <1>5, <1>6, <1>7, <1>8, <1>9, Starting

(* Saving an edit, or the payload in the next version.                     *)
LEMMA Saving ==
    ASSUME TypeInv, NEW p \in P, write_encrypted_file(p) \/ upgrade_payload(p)
    PROVE  Began(p)
<1>1. PICK s : s = session[p]
  OBVIOUS
<1>2. s.payload \in Payloads /\ s.payload.edits \subseteq Nat
  BY <1>1 DEF TypeInv, VaultSession, Payloads
<1>3. ASSUME CanUpdate(s)
      PROVE  s.cred \in Creds(file) /\ s.cred \in Key /\ s.cred \in Credential /\ Exists(file)
  BY <1>3, OpeningCred, CredsAreKeys DEF CanUpdate, TypeInv
<1>4. ASSUME NEW cred \in Key, cred \in Creds(file), Exists(file), NEW kind \in {"commit", "upgrade"},
             NEW frame \in Container, NEW pc \in {"write", "verify"}, NEW then \in {"return", "write"},
             pc = "verify" => then = "write", then = "write" => kind = "upgrade", Draw(1),
             Start(p, kind, cred, cred, frame, pc, then),
             Exists(frame), Creds(frame) \subseteq Creds(file), Succeeds(file, frame), Carries(p, frame)
      PROVE  Began(p)
  <2>1. PICK o : o = Called(kind, cred, cred, frame, pc, then)
    OBVIOUS
  <2>2. Plans(o)
    BY <1>4, <2>1 DEF Plans, Called, Drawing, Kinds
  <2>3. /\ kind \in Kinds /\ pc \in Places /\ cred \in Credential
        /\ fresh' \in Nat /\ fresh <= fresh' /\ kind \notin Drawing /\ ~Asks(o)
    BY <1>4, <2>1 DEF Kinds, Places, Draw, TypeInv, Key, Credential, Drawing, Asks, Called
  <2> QED BY <1>4, <2>1, <2>2, <2>3, Starting
<1>5. file \in Container
  BY DEF TypeInv
<1>6. ASSUME NEW payload \in Payloads, NEW g, IsV3(file), g = update_v3_container(file, payload, fresh)
      PROVE  /\ g \in Container /\ Exists(g) /\ Creds(g) = Creds(file) /\ Succeeds(file, g)
             /\ g.header.nonce = fresh /\ PayloadOf(g) = payload
  <2>1. file \in Framed
    BY <1>5, <1>6 DEF Container, IsV3, Absent, OldFormat
  <2>2. file.header.gen \in Nat /\ file.header.kgen \in Nat
    BY <2>1 DEF Framed, V3Header
  <2>3. /\ g \in Container /\ IsV3(g) /\ Exists(g) /\ Creds(g) = Creds(file)
        /\ g.header.vault = file.header.vault /\ g.header.gen = file.header.gen + 1
        /\ g.header.kgen = file.header.kgen /\ g.header.nonce = fresh /\ PayloadOf(g) = payload
    BY <1>6, <2>1, UpdatedFrame DEF TypeInv
  <2> QED BY <2>2, <2>3 DEF Succeeds
<1>7. CASE write_encrypted_file(p)
  <2>1. PICK payload : payload = Payload(s.payload.version, s.payload.edits \cup {fresh})
    OBVIOUS
  <2>2. payload \in Payloads
    BY <1>2, <2>1 DEF Payload, Payloads, TypeInv
  <2>3. PICK frame : frame = IF IsV3(file) THEN update_v3_container(file, payload, fresh)
                                           ELSE Legacy(s.cred, fresh, payload)
    OBVIOUS
  <2>4. CanUpdate(s) /\ Draw(1) /\ Start(p, "commit", s.cred, s.cred, frame, "write", "return")
    BY <1>1, <1>7, <2>1, <2>3 DEF write_encrypted_file
  <2>5. frame \in Container /\ Exists(frame) /\ Creds(frame) \subseteq Creds(file) /\ Succeeds(file, frame)
    <3>1. CASE IsV3(file)
      BY <1>6, <2>2, <2>3, <3>1
    <3>2. CASE ~IsV3(file)
      <4>1. frame \in OldFormat /\ frame.cred = s.cred
        BY <1>3, <2>2, <2>3, <2>4, <3>2 DEF Legacy, OldFormat, TypeInv
      <4> QED BY <1>3, <2>4, <3>2, <4>1 DEF Container, OldFormat, Exists, Creds, IsV3, Succeeds
    <3> QED BY <3>1, <3>2
  <2>6. Carries(p, frame)
    <3>1. PayloadOf(frame) = payload /\ (IsV3(frame) => frame.header.nonce = fresh)
      BY <1>6, <2>2, <2>3 DEF Legacy, IsV3, PayloadOf
    <3>2. s.open /\ UpToDate(s) /\ s.payload.edits \subseteq payload.edits /\ fresh' = fresh + 1
      BY <1>1, <1>7, <2>1 DEF write_encrypted_file, Payload, Draw
    <3> QED BY <1>1, <3>1, <3>2 DEF Carries, NewContent, KeepsEdits, TypeInv
  <2> QED BY <1>3, <1>4, <2>4, <2>5, <2>6
<1>8. CASE upgrade_payload(p)
  <2>1. PICK payload : payload = Payload(3, s.payload.edits)
    OBVIOUS
  <2>2. payload \in Payloads
    BY <1>2, <2>1 DEF Payload, Payloads
  <2>3. PICK frame, pc :
          /\ frame = IF IsV3(file) THEN update_v3_container(file, payload, fresh)
                     ELSE create_v3_container(s.cred, payload, fresh, fresh, 1, 1, FALSE)
          /\ pc = IF IsV3(file) /\ file.header.anchored THEN "verify" ELSE "write"
    OBVIOUS
  <2>4. /\ CanUpdate(s) /\ Draw(1)
        /\ Start(p, "upgrade", s.cred, s.cred, frame, pc, "write") /\ pc \in {"write", "verify"}
    BY <1>1, <1>8, <2>1, <2>3 DEF upgrade_payload
  <2>5. frame \in Container /\ Exists(frame) /\ Creds(frame) \subseteq Creds(file) /\ Succeeds(file, frame)
    <3>1. CASE IsV3(file)
      BY <1>6, <2>2, <2>3, <3>1
    <3>2. CASE ~IsV3(file)
      <4>1. PICK cred : cred = s.cred
        OBVIOUS
      <4>2. cred \in Key /\ cred \in Creds(file) /\ payload \in Payloads
        BY <1>3, <2>2, <2>4, <4>1
      <4>3. PICK h : h = base_header(fresh, fresh, 1, 1, payload.version, FALSE)
        OBVIOUS
      <4>4. h \in V3Header /\ frame = assemble_frame(h, {wrap_dek(cred, h)}, encrypt(h, payload))
        <5>1. h \in V3Header
          BY <2>2, <4>3 DEF base_header, V3Header, Payloads, TypeInv
        <5>2. frame = assemble_frame(h, {wrap_dek(cred, h)}, encrypt(h, payload))
          BY <2>3, <3>2, <4>1, <4>3 DEF create_v3_container
        <5> QED BY <5>1, <5>2
      <4>5. frame \in Container /\ Exists(frame) /\ Creds(frame) = {cred}
        BY <4>2, <4>4, CreatedFrame
      <4> QED BY <3>2, <4>2, <4>5 DEF Succeeds
    <3> QED BY <3>1, <3>2
  <2>6. Carries(p, frame)
    <3>1. PayloadOf(frame) = payload /\ (IsV3(frame) => frame.header.nonce = fresh)
      <4>1. CASE IsV3(file)
        BY <1>6, <2>2, <2>3, <4>1
      <4>2. CASE ~IsV3(file)
        BY <2>3, <4>2 DEF create_v3_container, base_header, assemble_frame, encrypt, IsV3, PayloadOf
      <4> QED BY <4>1, <4>2
    <3>2. PayloadOf(file).edits \subseteq payload.edits /\ fresh' = fresh + 1
      BY <1>1, <1>8, <2>1 DEF upgrade_payload, Payload, Draw
    <3> QED BY <3>1, <3>2 DEF Carries, NewContent, KeepsEdits, TypeInv
  <2> QED BY <1>3, <1>4, <2>4, <2>5, <2>6
<1> QED BY <1>7, <1>8

(* Enrolling and removing a device, and replacing the password: new key    *)
(* slots for the credentials that remain.                                  *)
LEMMA Rekeying ==
    ASSUME TypeInv, NEW p \in P,
           Enrolling(p) \/ disable_device_unlock(p) \/ rotate_v3_password_file(p)
    PROVE  Began(p)
<1>1. ASSUME NEW cred, ByPassword(cred)
      PROVE  /\ file \in Framed /\ cred \in Key /\ cred \in Credential
             /\ cred \in Creds(file) /\ cred.slot = 0 /\ Exists(file)
  <2>1. file \in Framed /\ cred.slot = 0 /\ decrypt_payload(cred, file)
    BY <1>1 DEF ByPassword, Opening, TypeInv, Container, IsV3, Absent, OldFormat, PasswordSlot
  <2> QED BY <2>1, OpeningCred, CredsAreKeys DEF TypeInv
<1>2. ASSUME NEW creds \in SUBSET Key, NEW g, file \in Framed,
             g = assemble_frame(NextKeys(file), {wrap_dek(c, NextKeys(file)) : c \in creds}, file.ciphertext)
      PROVE  g \in Container /\ Exists(g) /\ Creds(g) = creds /\ Succeeds(file, g) /\ Carries(p, g)
  <2>1. file.header.gen \in Nat /\ file.header.kgen \in Nat
    BY <1>2 DEF Framed, V3Header
  <2>2. /\ g \in Container /\ IsV3(g) /\ Exists(g) /\ Creds(g) = creds
        /\ g.header.vault = file.header.vault /\ g.header.gen = file.header.gen
        /\ g.header.kgen = file.header.kgen + 1
        /\ container_revision(g) = container_revision(file) /\ PayloadOf(g) = PayloadOf(file)
    BY ONLY <1>2, RekeyedFrame
  <2>3. Exists(file)
    BY <1>2 DEF Framed, Exists
  <2> QED BY <2>1, <2>2, <2>3 DEF Succeeds, Carries, SameContent, KeepsEdits
<1>3. CASE Enrolling(p)
  <2>1. PICK cred \in Credentials :
          /\ ByPassword(cred) /\ device_slots(file) = {} /\ Draw(1)
          /\ Start(p, "enable", cred, Device(fresh),
                   add_v3_device_slot(cred, Device(fresh), file), "store", "return")
    BY <1>3 DEF Enrolling
  <2>2. PICK new, frame : new = Device(fresh) /\ frame = add_v3_device_slot(cred, new, file)
    OBVIOUS
  <2>3. new \in Key /\ new \in Credential /\ new.secret = fresh /\ fresh' = fresh + 1
    BY <2>1, <2>2 DEF Device, Key, Credential, TypeInv, Draw
  <2>4. frame = assemble_frame(NextKeys(file), {wrap_dek(c, NextKeys(file)) : c \in {cred, new}}, file.ciphertext)
    BY <2>2 DEF add_v3_device_slot
  <2>5. frame \in Container /\ Exists(frame) /\ Creds(frame) = {cred, new} /\ Succeeds(file, frame) /\ Carries(p, frame)
    <3>1. PICK creds : creds = {cred, new}
      OBVIOUS
    <3>2. creds \in SUBSET Key /\ file \in Framed
      BY <1>1, <2>1, <2>3, <3>1
    <3> QED BY <1>2, <2>4, <3>1, <3>2
  <2>6. PICK o : o = Called("enable", cred, new, frame, "store", "return")
    OBVIOUS
  <2>7. Plans(o)
    BY <1>1, <2>1, <2>2, <2>3, <2>5, <2>6 DEF Plans, Called, Drawing, Kinds
  <2>8. /\ "enable" \in Kinds /\ "store" \in Places /\ "return" \in {"return", "write"}
        /\ fresh' \in Nat /\ fresh < fresh' /\ fresh <= fresh' /\ ~Asks(o)
    BY <2>3, <2>6 DEF Kinds, Places, TypeInv, Asks, Called
  <2>9. Start(p, "enable", cred, new, frame, "store", "return") /\ cred \in Credential
    BY <1>1, <2>1, <2>2
  <2> QED BY <2>3, <2>5, <2>6, <2>7, <2>8, <2>9, Starting
<1>4. CASE disable_device_unlock(p)
  <2>1. PICK cred \in Credentials, slot \in DeviceSlots(file) :
          /\ ByPassword(cred) /\ UNCHANGED fresh
          /\ Start(p, "disable", cred, Device(slot), remove_v3_device_slot(cred, file), "write", "return")
    BY <1>4 DEF disable_device_unlock
  <2>2. PICK new, frame : new = Device(slot) /\ frame = remove_v3_device_slot(cred, file)
    OBVIOUS
  <2>3. slot \in Nat /\ slot # 0
    BY <1>1, <2>1 DEF DeviceSlots, device_slots, password_slots, Framed, KeySlot, PasswordSlot
  <2>4. new \in Credential /\ new.slot = slot /\ new # cred
    <3>1. slot \in Nat /\ cred.slot = 0
      BY <1>1, <2>1, <2>3
    <3> QED BY <2>2, <2>3, <3>1 DEF Device, Credential
  <2>5. frame = assemble_frame(NextKeys(file), {wrap_dek(c, NextKeys(file)) : c \in {cred}}, file.ciphertext)
    BY <2>2 DEF remove_v3_device_slot
  <2>6. frame \in Container /\ Exists(frame) /\ Creds(frame) = {cred} /\ Succeeds(file, frame) /\ Carries(p, frame)
    <3>1. PICK creds : creds = {cred}
      OBVIOUS
    <3>2. creds \in SUBSET Key /\ file \in Framed
      BY <1>1, <2>1, <3>1
    <3> QED BY <1>2, <2>5, <3>1, <3>2
  <2>7. PICK o : o = Called("disable", cred, new, frame, "write", "return")
    OBVIOUS
  <2>8. Plans(o)
    BY <1>1, <2>1, <2>2, <2>4, <2>6, <2>7 DEF Plans, Called, Drawing, Kinds
  <2>9. /\ "disable" \in Kinds /\ "write" \in Places /\ "return" \in {"return", "write"}
        /\ fresh' \in Nat /\ fresh <= fresh' /\ "disable" \notin Drawing /\ ~Asks(o)
    BY <2>1, <2>7 DEF Kinds, Places, TypeInv, Drawing, Asks, Called
  <2>10. Start(p, "disable", cred, new, frame, "write", "return") /\ cred \in Credential
    BY <1>1, <2>1, <2>2
  <2> QED BY <2>4, <2>6, <2>7, <2>8, <2>9, <2>10, Starting
<1>5. CASE rotate_v3_password_file(p)
  <2>1. PICK cred \in Credentials :
          /\ ByPassword(cred) /\ device_slots(file) = {} /\ Draw(1)
          /\ Start(p, "rotate", cred, Password(fresh), rotate_v3_password(Password(fresh), file),
                   "write", "return")
    BY <1>5 DEF rotate_v3_password_file
  <2>2. PICK new, frame : new = Password(fresh) /\ frame = rotate_v3_password(new, file)
    OBVIOUS
  <2>3. new \in Key /\ new \in Credential /\ new.secret = fresh /\ fresh' = fresh + 1
    BY <2>1, <2>2 DEF Password, PasswordSlot, Key, Credential, TypeInv, Draw
  <2>4. frame = assemble_frame(NextKeys(file), {wrap_dek(c, NextKeys(file)) : c \in {new}}, file.ciphertext)
    BY <2>2 DEF rotate_v3_password
  <2>5. frame \in Container /\ Exists(frame) /\ Creds(frame) = {new} /\ Succeeds(file, frame) /\ Carries(p, frame)
    <3>1. PICK creds : creds = {new}
      OBVIOUS
    <3>2. creds \in SUBSET Key /\ file \in Framed
      BY <1>1, <2>1, <2>3, <3>1
    <3> QED BY <1>2, <2>4, <3>1, <3>2
  <2>6. PICK o : o = Called("rotate", cred, new, frame, "write", "return")
    OBVIOUS
  <2>7. Plans(o)
    BY <1>1, <2>1, <2>2, <2>3, <2>5, <2>6 DEF Plans, Called, Drawing, Kinds
  <2>8. /\ "rotate" \in Kinds /\ "write" \in Places /\ "return" \in {"return", "write"}
        /\ fresh' \in Nat /\ fresh < fresh' /\ fresh <= fresh' /\ ~Asks(o)
    BY <2>3, <2>6 DEF Kinds, Places, TypeInv, Asks, Called
  <2>9. Start(p, "rotate", cred, new, frame, "write", "return") /\ cred \in Credential
    BY <1>1, <2>1, <2>2
  <2> QED BY <2>3, <2>5, <2>6, <2>7, <2>8, <2>9, Starting
<1> QED BY <1>3, <1>4, <1>5

(* A new data key, or the rollback marker set or cleared.                  *)
LEMMA Resealing ==
    ASSUME TypeInv, NEW p \in P,
           rotate_v3_dek_file(p) \/ enable_rollback_anchor(p) \/ disable_rollback_anchor(p)
    PROVE  Began(p)
<1>1. ASSUME NEW cred, IsV3(file), Opening(cred)
      PROVE  /\ file \in Framed /\ cred \in Key /\ cred \in Credential
             /\ cred \in Creds(file) /\ Exists(file)
  <2>1. file \in Framed /\ decrypt_payload(cred, file)
    BY <1>1 DEF Opening, TypeInv, Container, IsV3, Absent, OldFormat
  <2> QED BY <2>1, OpeningCred, CredsAreKeys DEF TypeInv
<1>2. ASSUME NEW cred, IsV3(file), Opening(cred), NEW kind \in {"rekey", "anchor", "unanchor"},
             NEW frame, frame \in Framed, Creds(frame) \subseteq Creds(file), Succeeds(file, frame), Draw(1),
             frame.header.nonce = fresh, PayloadOf(frame) = PayloadOf(file), Start(p, kind, cred, cred, frame, "write", "return")
      PROVE  Began(p)
  <2>1. PICK o : o = Called(kind, cred, cred, frame, "write", "return")
    OBVIOUS
  <2>2. frame \in Container /\ Exists(frame)
    BY <1>2 DEF Container, Framed, Exists
  <2>3. Plans(o)
    BY <1>1, <1>2, <2>1, <2>2 DEF Plans, Called, Drawing, Kinds
  <2>4. /\ kind \in Kinds /\ "write" \in Places /\ "return" \in {"return", "write"}
        /\ fresh' \in Nat /\ fresh <= fresh' /\ kind \notin Drawing /\ ~Asks(o)
    BY <1>2, <2>1 DEF Kinds, Places, TypeInv, Drawing, Draw, Asks, Called
  <2>5. Carries(p, frame)
    BY <1>2 DEF Carries, NewContent, KeepsEdits, Draw, TypeInv
  <2> QED BY <1>1, <1>2, <2>1, <2>2, <2>3, <2>4, <2>5, Starting
<1>3. ASSUME file \in Framed
      PROVE  /\ file.header.gen \in Nat /\ file.header.gen + 1 \in Nat \ {0}
             /\ file.header.kgen \in Nat /\ file.header.kgen + 1 \in Nat \ {0}
             /\ file.header.vault \in Nat /\ file.header.anchored \in BOOLEAN /\ PayloadOf(file) \in Payloads
  BY <1>3 DEF Framed, V3Header, Sealed, PayloadOf, IsV3
<1>4. CASE rotate_v3_dek_file(p)
  <2>1. PICK cred \in Credentials :
          /\ ByPassword(cred) /\ device_slots(file) = {} /\ Draw(1)
          /\ Start(p, "rekey", cred, cred, rotate_v3_dek(cred, file, fresh), "write", "return")
    BY <1>4 DEF rotate_v3_dek_file
  <2>2. IsV3(file) /\ Opening(cred) /\ file \in Framed /\ cred \in Key
    BY <1>1, <2>1 DEF ByPassword
  <2>3. PICK frame, payload :
          frame = rotate_v3_dek(cred, file, fresh) /\ payload = PayloadOf(file) /\ payload \in Payloads
    BY <1>3, <2>2
  <2>4. PICK h : h = base_header(file.header.vault, fresh, file.header.gen + 1, file.header.kgen + 1,
                                 payload.version, file.header.anchored)
    OBVIOUS
  <2>5. /\ h \in V3Header /\ h.vault = file.header.vault
        /\ h.gen = file.header.gen + 1 /\ h.kgen = file.header.kgen + 1 /\ h.nonce = fresh
    BY <1>3, <2>2, <2>3, <2>4 DEF base_header, V3Header, Payloads, TypeInv
  <2>6. frame = assemble_frame(h, {wrap_dek(cred, h)}, encrypt(h, payload))
    BY <2>3, <2>4 DEF rotate_v3_dek, create_v3_container
  <2>7. frame \in Framed /\ IsV3(frame) /\ Creds(frame) = {cred} /\ frame.header = h /\ PayloadOf(frame) = payload
    BY <2>2, <2>3, <2>5, <2>6, CreatedFrame
  <2>8. Succeeds(file, frame)
    BY <1>3, <2>2, <2>5, <2>7 DEF Succeeds
  <2> QED BY <1>1, <1>2, <2>1, <2>2, <2>3, <2>5, <2>7, <2>8
<1>5. CASE enable_rollback_anchor(p) \/ disable_rollback_anchor(p)
  <2>1. ASSUME NEW cred, NEW kind \in {"anchor", "unanchor"}, IsV3(file), Opening(cred), Draw(1), NEW frame,
               frame = update_v3_extensions(file, TRUE, fresh) \/ frame = update_v3_extensions(file, FALSE, fresh),
               Start(p, kind, cred, cred, frame, "write", "return")
        PROVE  Began(p)
    <3>1. file \in Framed /\ fresh \in Nat
      BY <1>1, <2>1 DEF TypeInv
    <3>2. /\ frame \in Framed /\ IsV3(frame) /\ Creds(frame) = Creds(file)
          /\ frame.header.vault = file.header.vault /\ frame.header.gen = file.header.gen + 1
          /\ frame.header.kgen = file.header.kgen
          /\ frame.header.nonce = fresh /\ PayloadOf(frame) = PayloadOf(file)
      <4>1. PICK f, n : f = file /\ n = fresh
        OBVIOUS
      <4>2. \E m \in BOOLEAN : frame = update_v3_extensions(f, m, n)
        BY <2>1, <4>1
      <4>3. f \in Framed /\ n \in Nat
        BY <3>1, <4>1
      <4>4. /\ frame \in Framed /\ IsV3(frame) /\ Creds(frame) = Creds(f)
            /\ frame.header.vault = f.header.vault /\ frame.header.gen = f.header.gen + 1
            /\ frame.header.kgen = f.header.kgen
            /\ frame.header.nonce = n /\ PayloadOf(frame) = PayloadOf(f)
        BY ONLY <4>2, <4>3, MarkedFrame
      <4> QED BY <4>1, <4>4
    <3>3. Succeeds(file, frame)
      BY <1>3, <3>1, <3>2 DEF Succeeds
    <3> QED BY <1>2, <2>1, <3>2, <3>3
  <2>2. CASE enable_rollback_anchor(p)
    <3>1. PICK cred \in Credentials :
            /\ IsV3(file) /\ Opening(cred) /\ Draw(1)
            /\ Start(p, "anchor", cred, cred, update_v3_extensions(file, TRUE, fresh), "write", "return")
      BY <2>2 DEF enable_rollback_anchor
    <3> QED BY <2>1, <3>1
  <2>3. CASE disable_rollback_anchor(p)
    <3>1. PICK cred \in Credentials :
            /\ IsV3(file) /\ Opening(cred) /\ Draw(1)
            /\ Start(p, "unanchor", cred, cred, update_v3_extensions(file, FALSE, fresh), "write", "return")
      BY <2>3 DEF disable_rollback_anchor
    <3> QED BY <2>1, <3>1
  <2> QED BY <1>5, <2>2, <2>3
<1> QED BY <1>4, <1>5

(* Every call starts with what the rest of the proof needs.                *)
LEMMA Begins ==
    ASSUME TypeInv, NEW p \in P, Begin(p)
    PROVE  Began(p)
<1>1. enable_device_unlock(p) => Enrolling(p) \/ Finding(p)
  BY DEF enable_device_unlock, Enrolling, Finding
<1> QED BY <1>1, Asking, Creating, Saving, Rekeying, Resealing DEF Begin, v3_group

-----------------------------------------------------------------------------
(* A step of one call: it ends, or goes on with what it has built.         *)
Kept(p) ==
    /\ op'[p].kind = op[p].kind /\ op'[p].cred = op[p].cred /\ op'[p].new = op[p].new
    /\ op'[p].base = op[p].base /\ op'[p].frame = op[p].frame
Others(p) == op' \in [P -> Operation] /\ \A q \in P : q # p => op'[q] = op[q]

LEMMA IdleCall == Idle \in Operation /\ Idle.pc = "idle" /\ Idle.kind = "none" /\ Idle.then = "return"
<1>1. Absent \in Container /\ Nobody \in Credential
  BY DEF Container, Nobody, Credential, PasswordSlot
<1> QED BY <1>1 DEF Idle, Operation, Places, Kinds

LEMMA Failing ==
    ASSUME TypeInv, NEW p \in P, Fail(p)
    PROVE  Others(p) /\ op'[p] = Idle
  BY IdleCall DEF TypeInv, Fail, Others

LEMMA Going ==
    ASSUME TypeInv, NEW p \in P, NEW pc \in Places, Goto(p, pc)
    PROVE  /\ Others(p) /\ Kept(p) /\ op'[p].pc = pc
           /\ op'[p].then = op[p].then /\ op'[p].seen = op[p].seen
<1>1. op[p] \in Operation
  BY DEF TypeInv
<1>2. PICK o : o = [op[p] EXCEPT !.pc = pc]
  OBVIOUS
<1>3. /\ o \in Operation /\ o.pc = pc /\ o.kind = op[p].kind /\ o.cred = op[p].cred /\ o.new = op[p].new
      /\ o.base = op[p].base /\ o.frame = op[p].frame /\ o.then = op[p].then /\ o.seen = op[p].seen
  BY <1>1, <1>2 DEF Operation
<1>4. op' = [op EXCEPT ![p] = o]
  BY <1>2 DEF Goto
<1> QED BY <1>3, <1>4 DEF TypeInv, Others, Kept

(* What the steps of a call do, as far as the invariants need it.          *)
Ends(p) == op'[p] = Idle
Goes(p, pc) == Kept(p) /\ op'[p].pc = pc /\ op'[p].then = op[p].then /\ op'[p].seen = op[p].seen
Loads(p) ==
    /\ At(p, "load") /\ (Ends(p) \/ Goes(p, "key")) /\ UNCHANGED <<stores, ghosts>>
Finds(p) ==
    /\ At(p, "key") /\ (Ends(p) \/ (Goes(p, "return") /\ op[p].new.slot \in devices))
    /\ UNCHANGED <<stores, ghosts>>
Stores(p) ==
    /\ At(p, "store") /\ Goes(p, "write")
    /\ devices' = devices \cup {op[p].new.slot} /\ UNCHANGED <<file, anchors, ghosts>>
Replaces(p) ==
    /\ At(p, "write") /\ file = op[p].base /\ file' = op[p].frame
    /\ Kept(p) /\ op'[p].pc = AfterWrite(op[p].kind) /\ op'[p].then = "return"
    /\ UNCHANGED <<devices, anchors, ghosts>>
Breaks(p) ==
    /\ At(p, "write")
    /\ IF op[p].kind = "enable" THEN Goes(p, "cleanup") ELSE Ends(p)
    /\ \/ file' = file /\ raised' = raised
       \/ /\ file = op[p].base /\ file' = op[p].frame
          /\ raised' = IF op[p].kind = "enable" THEN raised \cup {op[p].new.slot} ELSE raised
    /\ UNCHANGED <<devices, anchors, enabled, withdrawn>>
Cleans(p) ==
    /\ At(p, "cleanup") /\ Ends(p)
    /\ devices' = devices \ {op[p].new.slot} /\ UNCHANGED <<file, anchors, ghosts>>
Forgets(p) ==
    /\ At(p, "forget") /\ (Ends(p) \/ Goes(p, "verify"))
    /\ devices' = devices \ {op[p].new.slot} /\ UNCHANGED <<file, anchors, ghosts>>
Anchors(p) ==
    /\ \/ At(p, "setAnchor") /\ Goes(p, "return") /\ SetAnchor(anchor_for(op[p].frame))
       \/ At(p, "advance") /\ Goes(p, op[p].then) /\ SetAnchor(anchor_for(op[p].seen))
    /\ UNCHANGED <<file, devices, ghosts>>
Unanchors(p) ==
    /\ At(p, "dropAnchor") /\ (Ends(p) \/ Goes(p, "return"))
    /\ anchors' \subseteq anchors /\ UNCHANGED <<file, devices, ghosts>>
Looks(p) ==
    /\ At(p, "verify")
    /\ \/ Ends(p)
       \/ Goes(p, op[p].then)
       \/ Kept(p) /\ op'[p].pc = "compare" /\ op'[p].then = op[p].then /\ op'[p].seen = file /\ IsV3(file)
    /\ UNCHANGED <<stores, ghosts>>
Compares(p) ==
    /\ At(p, "compare") /\ (Ends(p) \/ Goes(p, op[p].then) \/ Goes(p, "advance"))
    /\ UNCHANGED <<stores, ghosts>>
Stops(p) == ~At(p, "idle") /\ Ends(p) /\ UNCHANGED <<stores, ghosts>>
Answers(p) ==
    /\ At(p, "return") /\ Ends(p) /\ UNCHANGED <<stores, raised>>
    /\ enabled' = IF op[p].kind \in {"enable", "find"} THEN enabled \cup {op[p].new.slot} ELSE enabled
    /\ withdrawn' = withdrawn \cup (CASE op[p].kind = "rotate" -> {op[p].cred}
                                      [] op[p].kind = "disable" -> {op[p].new}
                                      [] OTHER -> {})
Effect(p) ==
    \/ Loads(p) \/ Finds(p) \/ Stores(p) \/ Replaces(p) \/ Breaks(p) \/ Cleans(p)
    \/ Forgets(p) \/ Anchors(p) \/ Unanchors(p)
    \/ Looks(p) \/ Compares(p) \/ Stops(p) \/ Answers(p)

LEMMA Continues ==
    ASSUME TypeInv, NEW p \in P, Continue(p)
    PROVE  Others(p) /\ Effect(p) /\ UNCHANGED budget
<1>1. op[p] \in Operation /\ op[p].then \in Places
  BY DEF TypeInv, Operation, Places
<1> USE DEF Step, budget, Goes, Ends
<1>2. CASE StoreDeviceKey(p)
  <2>1. Goto(p, "write") /\ "write" \in Places
    BY <1>2 DEF StoreDeviceKey, Places
  <2> QED BY <1>2, <2>1, Going DEF StoreDeviceKey, Effect, Stores
<1>3. CASE Write(p)
  <2>1. PICK o : o = [op[p] EXCEPT !.pc = AfterWrite(op[p].kind), !.then = "return"]
    OBVIOUS
  <2>2. /\ o \in Operation /\ o.pc = AfterWrite(op[p].kind) /\ o.then = "return"
        /\ o.kind = op[p].kind /\ o.cred = op[p].cred /\ o.new = op[p].new
        /\ o.base = op[p].base /\ o.frame = op[p].frame
    <3>1. AfterWrite(op[p].kind) \in Places
      BY DEF AfterWrite, Places
    <3> QED BY <1>1, <2>1, <3>1 DEF Operation
  <2>3. op' = [op EXCEPT ![p] = o]
    BY <1>3, <2>1 DEF Write
  <2>4. Others(p) /\ op'[p] = o
    BY <2>2, <2>3 DEF TypeInv, Others
  <2> QED BY <1>3, <2>2, <2>4 DEF Write, Current, Effect, Replaces, Kept
<1>4. CASE WriteFails(p)
  <2>1. Others(p) /\ (IF op[p].kind = "enable" THEN Goes(p, "cleanup") ELSE Ends(p))
    <3>1. "cleanup" \in Places
      BY DEF Places
    <3>2. CASE op[p].kind = "enable"
      BY <1>4, <3>1, <3>2, Going DEF WriteFails
    <3>3. CASE op[p].kind # "enable"
      BY <1>4, <3>3, Failing DEF WriteFails
    <3> QED BY <3>2, <3>3
  <2>2. \/ file' = file /\ raised' = raised
        \/ /\ file = op[p].base /\ file' = op[p].frame
           /\ raised' = IF op[p].kind = "enable" THEN raised \cup {op[p].new.slot} ELSE raised
    BY <1>4 DEF WriteFails, Current
  <2>3. At(p, "write") /\ UNCHANGED <<devices, anchors, enabled, withdrawn>>
    BY <1>4 DEF WriteFails
  <2>4. Breaks(p)
    BY <2>1, <2>2, <2>3 DEF Breaks
  <2> QED BY <1>4, <2>1, <2>4 DEF WriteFails, Effect
<1>14. CASE DeleteOrphan(p)
  BY <1>14, Failing DEF DeleteOrphan, Effect, Cleans
<1>15. CASE load_device_credential(p)
  <2>1. "key" \in Places /\ (Fail(p) \/ Goto(p, "key"))
    BY <1>15 DEF load_device_credential, Places
  <2> QED BY <1>15, <2>1, Going, Failing DEF load_device_credential, Effect, Loads
<1>16. CASE LoadDeviceKey(p)
  <2>1. "return" \in Places /\ (Fail(p) \/ (Goto(p, "return") /\ op[p].new.slot \in devices))
    BY <1>16 DEF LoadDeviceKey, Places
  <2> QED BY <1>16, <2>1, Going, Failing DEF LoadDeviceKey, Effect, Finds
<1>5. CASE DeleteDeviceKey(p)
  <2>1. "verify" \in Places /\ (Fail(p) \/ Goto(p, "verify"))
    BY <1>5 DEF DeleteDeviceKey, Places
  <2> QED BY <1>5, <2>1, Going, Failing DEF DeleteDeviceKey, Effect, Forgets
<1>6. CASE CreateAnchor(p)
  <2>1. Goto(p, "return") /\ "return" \in Places
    BY <1>6 DEF CreateAnchor, Places
  <2> QED BY <1>6, <2>1, Going DEF CreateAnchor, Effect, Anchors
<1>7. CASE DeleteAnchor(p)
  <2>1. "return" \in Places /\ (Fail(p) \/ Goto(p, "return"))
    BY <1>7 DEF DeleteAnchor, Places
  <2> QED BY <1>7, <2>1, Going, Failing DEF DeleteAnchor, Effect, Unanchors
<1>8. CASE VerifyRead(p)
  <2>1. CASE Fail(p)
    BY <1>8, <2>1, Failing DEF VerifyRead, Effect, Looks
  <2>2. CASE Goto(p, op[p].then)
    BY <1>1, <1>8, <2>2, Going DEF VerifyRead, Effect, Looks
  <2>3. CASE IsV3(file) /\ op' = [op EXCEPT ![p].pc = "compare", ![p].seen = file]
    <3>1. PICK o : o = [op[p] EXCEPT !.pc = "compare", !.seen = file]
      OBVIOUS
    <3>2. /\ o \in Operation /\ o.pc = "compare" /\ o.seen = file /\ o.then = op[p].then
          /\ o.kind = op[p].kind /\ o.cred = op[p].cred /\ o.new = op[p].new
          /\ o.base = op[p].base /\ o.frame = op[p].frame
      BY <1>1, <3>1 DEF Operation, Places, TypeInv
    <3>3. op' = [op EXCEPT ![p] = o]
      BY <2>3, <3>1
    <3>4. Others(p) /\ op'[p] = o
      BY <3>2, <3>3 DEF TypeInv, Others
    <3> QED BY <1>8, <2>3, <3>2, <3>4 DEF VerifyRead, Effect, Looks, Kept
  <2>4. Fail(p) \/ Goto(p, op[p].then) \/ (IsV3(file) /\ op' = [op EXCEPT ![p].pc = "compare", ![p].seen = file])
    BY <1>8 DEF VerifyRead
  <2> QED BY <2>1, <2>2, <2>3, <2>4
<1>9. CASE VerifyCompare(p)
  <2>1. "advance" \in Places /\ (Fail(p) \/ Goto(p, op[p].then) \/ Goto(p, "advance"))
    BY <1>9 DEF VerifyCompare, Places
  <2> QED BY <1>1, <1>9, <2>1, Going, Failing DEF VerifyCompare, Effect, Compares
<1>10. CASE AdvanceAnchor(p)
  BY <1>1, <1>10, Going DEF AdvanceAnchor, Effect, Anchors
<1>11. CASE KeyringRefuses(p)
  BY <1>11, Failing DEF KeyringRefuses, Effect, Stops, At
<1>12. CASE Return(p)
  BY <1>12, Failing DEF Return, Effect, Answers
<1>13. CASE Crash(p)
  <2>1. Fail(p)
    BY <1>13 DEF Crash, Fail
  <2> QED BY <1>13, <2>1, Failing DEF Crash, Effect, Stops
<1> QED
  BY <1>2, <1>3, <1>4, <1>5, <1>6, <1>7, <1>8, <1>9, <1>10, <1>11, <1>12, <1>13, <1>14, <1>15, <1>16
  DEF Continue

LEMMA TypeInit == Init => TypeInv
<1> SUFFICES ASSUME Init PROVE TypeInv
  OBVIOUS
<1>1. Payload(2, {}) \in Payloads /\ Password(1) \in Key /\ Nobody \in Credential
  BY DEF Payload, Payloads, Password, PasswordSlot, Key, Nobody, Credential
<1>2. file \in Container
  <2>1. Legacy(Password(1), 2, Payload(2, {})) \in Container
    BY <1>1 DEF Legacy, OldFormat, Container
  <2>2. ASSUME NEW g, g = create_v3_container(Password(1), Payload(2, {}), 2, 2, 1, 1, FALSE)
        PROVE  g \in Container
    <3>1. PICK payload, cred : payload = Payload(2, {}) /\ cred = Password(1)
      OBVIOUS
    <3>2. PICK h : h = base_header(2, 2, 1, 1, payload.version, FALSE)
      OBVIOUS
    <3>3. h \in V3Header
      BY <1>1, <3>1, <3>2 DEF base_header, V3Header, Payloads
    <3>4. g = assemble_frame(h, {wrap_dek(cred, h)}, encrypt(h, payload))
      BY <2>2, <3>1, <3>2 DEF create_v3_container
    <3> QED BY <1>1, <3>1, <3>3, <3>4, CreatedFrame
  <2> QED BY <2>1, <2>2 DEF Init, Created, Container
<1>3. Idle \in Operation
  BY <1>1 DEF Idle, Operation, Places, Kinds, Container
<1>4. NoSession \in VaultSession
  <2>1. Absent \in Container /\ container_revision(Absent) = <<>>
    BY DEF Container, Absent, container_revision
  <2>2. <<>> \in Revisions
    BY <2>1 DEF Revisions
  <2> QED BY <1>1, <2>2 DEF NoSession, VaultSession
<1> QED BY <1>2, <1>3, <1>4 DEF Init, TypeInv, Idle

LEMMA SessionStep ==
    ASSUME TypeInv, NEW p \in P, Continue(p)
    PROVE  session' \in [P -> VaultSession]
<1>1. ASSUME NEW f \in Container, Exists(f)
      PROVE  container_revision(f) \in Revisions /\ PayloadOf(f) \in Payloads
  <2>1. PayloadOf(f) \in Payloads
    BY <1>1 DEF Container, OldFormat, Framed, Sealed, PayloadOf, IsV3, Exists, Absent
  <2> QED BY <2>1 DEF Revisions
<1>2. /\ op[p] \in Operation /\ session[p] \in VaultSession
      /\ op[p].frame \in Container /\ op[p].base \in Container /\ op[p].cred \in Credential
  BY DEF TypeInv, Operation
<1>3. CASE session' = session
  BY <1>3 DEF TypeInv
<1>4. CASE session' = [session EXCEPT ![p] = NoSession]
  <2>1. NoSession \in VaultSession
    <3>1. Absent \in Container /\ container_revision(Absent) = <<>>
      BY DEF Container, Absent, container_revision
    <3>2. <<>> \in Revisions
      BY <3>1 DEF Revisions
    <3>3. Payload(2, {}) \in Payloads /\ Nobody \in Credential
      BY DEF Payload, Payloads, Nobody, Credential, PasswordSlot
    <3> QED BY <3>2, <3>3 DEF NoSession, VaultSession
  <2> QED BY <1>4, <2>1 DEF TypeInv
<1>5. ASSUME NEW s \in VaultSession, NEW f \in Container, Exists(f),
             NEW r, r = [s EXCEPT !.revision = container_revision(f), !.payload = PayloadOf(f)]
      PROVE  r \in VaultSession
  BY <1>1, <1>5 DEF VaultSession
<1>6. CASE Write(p) /\ op[p].kind = "upgrade"
  <2>1. PICK r : r = [session[p] EXCEPT !.revision = container_revision(op[p].frame),
                                        !.payload = PayloadOf(op[p].frame)]
    OBVIOUS
  <2>2. r \in VaultSession
    BY <1>2, <1>5, <1>6, <2>1 DEF TypeInv
  <2>3. session' = [session EXCEPT ![p] = [@ EXCEPT !.payload = PayloadOf(op[p].frame),
                                                    !.revision = container_revision(op[p].frame)]]
    BY <1>6 DEF Write
  <2>4. session' = [session EXCEPT ![p] = r]
    BY <1>2, <2>1, <2>3 DEF VaultSession
  <2> QED BY <2>2, <2>4 DEF TypeInv
<1>7. CASE Return(p)
  <2>1. CASE op[p].kind = "open"
    <3>1. Opened(p) \in VaultSession
      BY <1>1, <1>2, <2>1 DEF Opened, VaultSession, TypeInv
    <3> QED BY <1>7, <2>1, <3>1 DEF Return, TypeInv
  <2>2. CASE op[p].kind = "commit"
    <3>1. PICK r : r = Committed(p)
      OBVIOUS
    <3>2. r \in VaultSession
      BY <1>2, <1>5, <2>2, <3>1 DEF Committed, TypeInv
    <3>3. session' = [session EXCEPT ![p] = r]
      BY <1>7, <2>2, <3>1 DEF Return
    <3> QED BY <3>2, <3>3 DEF TypeInv
  <2>3. CASE op[p].kind \notin {"open", "commit"}
    <3>1. session' = [session EXCEPT ![p] = session[p]]
      BY <1>7, <2>3 DEF Return
    <3> QED BY <3>1 DEF TypeInv
  <2> QED BY <2>1, <2>2, <2>3
<1> QED
  BY <1>3, <1>4, <1>6, <1>7
  DEF Continue, load_device_credential, LoadDeviceKey, StoreDeviceKey, Write, WriteFails, DeleteOrphan, DeleteDeviceKey, CreateAnchor, DeleteAnchor,
      VerifyRead, VerifyCompare, AdvanceAnchor, KeyringRefuses, Crash

LEMMA TypeStep == TypeInv /\ [Next]_vars => TypeInv'
<1> SUFFICES ASSUME TypeInv, [Next]_vars PROVE TypeInv'
  OBVIOUS
<1>1. CASE UNCHANGED vars
  <2>1. UNCHANGED <<file, copy, devices, enabled, withdrawn, op, fresh, started, restores, anchors, session>>
    BY <1>1 DEF vars, stores, ghosts, budget
  <2>2. UNCHANGED <<op, anchors>>
    BY <2>1
  <2> QED BY <2>1 DEF TypeInv
<1>2. CASE Restore
  <2>1. /\ file' = copy /\ restores' = restores + 1
        /\ UNCHANGED <<copy, devices, enabled, withdrawn, op, fresh, started, anchors, session>>
    BY <1>2 DEF Restore, ghosts
  <2> QED BY <2>1 DEF TypeInv
<1>3. ASSUME NEW p \in P, Begin(p) PROVE TypeInv'
  <2>1. Began(p)
    BY <1>3, Begins
  <2>2. PICK o \in Operation :
          /\ op' = [op EXCEPT ![p] = o] /\ o.base = file
          /\ Asks(o) \/ Plans(o)
          /\ fresh' \in Nat /\ fresh <= fresh' /\ started' \in Nat
          /\ UNCHANGED <<file, devices, anchors, session, copy, restores, enabled, withdrawn>>
    BY <2>1 DEF Began, stores, ghosts
  <2>3. op' \in [P -> Operation] /\ op'[p] = o /\ \A q \in P : q # p => op'[q] = op[q]
    BY <2>2 DEF TypeInv
  <2>4. /\ o.pc \in {"load", "store", "write", "verify", "return"}
        /\ o.then = "write" => o.kind = "upgrade"
        /\ o.kind = "anchor" => o.frame \in Framed
        /\ o.kind = "open" => Exists(o.base)
        /\ o.kind \in {"commit", "upgrade"} => Exists(o.frame)
    BY <2>2 DEF Asks, Plans, Creds, Exists, IsV3
  <2> QED BY <2>2, <2>3, <2>4 DEF TypeInv
<1>4. ASSUME NEW p \in P, Continue(p) PROVE TypeInv'
  <2>1. Others(p) /\ Effect(p) /\ UNCHANGED <<fresh, started, copy, restores>> /\ op' \in [P -> Operation]
    BY <1>4, Continues DEF budget, Others
  <2>2. op[p] \in Operation /\ op[p].new.slot \in Nat /\ op[p].frame \in Container
        /\ op[p].cred \in Credential /\ op[p].new \in Credential
    BY DEF TypeInv, Operation, Credential
  <2>3. file' \in Container /\ devices' \subseteq Nat
    BY <2>1, <2>2 DEF Effect, Loads, Finds, Cleans, Stores, Replaces, Breaks, Forgets, Anchors, Unanchors, Looks, Compares, Stops,
                      Answers, TypeInv, stores
  <2>4. enabled' \subseteq Nat /\ withdrawn' \subseteq Credential
    BY <2>1, <2>2 DEF Effect, Loads, Finds, Cleans, Stores, Replaces, Breaks, Forgets, Anchors, Unanchors, Looks, Compares, Stops,
                      Answers, TypeInv, ghosts
  <2>5. \A a \in anchors' : a.file_sha256 \in Framed
    <3>1. CASE Anchors(p)
      <4>1. op[p].pc = "setAnchor" => op[p].frame \in Framed
        BY DEF TypeInv, At
      <4> QED BY <3>1, <4>1 DEF Anchors, SetAnchor, anchor_for, At, TypeInv
    <3>2. CASE anchors' \subseteq anchors
      BY <3>2 DEF TypeInv
    <3> QED BY <2>1, <3>1, <3>2 DEF Effect, Loads, Finds, Cleans, Stores, Replaces, Breaks, Forgets, Unanchors, Looks, Compares,
                                    Stops, Answers, stores
  <2>6. \A q \in P : op'[q].pc \in {"compare", "advance"} => op'[q].seen \in Framed
    <3>1. op'[p].pc \in {"compare", "advance"} => op'[p].seen \in Framed
      <4>1. AfterWrite(op[p].kind) \notin {"compare", "advance"} /\ op[p].then \in {"return", "write"}
        BY <2>2 DEF AfterWrite, Operation
      <4>2. IsV3(file) => file \in Framed
        BY DEF TypeInv, Container, IsV3, Absent, OldFormat
      <4> QED BY <2>1, <4>1, <4>2, IdleCall
              DEF Effect, Loads, Finds, Cleans, Stores, Replaces, Breaks, Forgets, Anchors, Unanchors, Looks, Compares,
                  Stops, Answers, Ends, Goes, At, TypeInv
    <3> QED BY <2>1, <3>1 DEF Others, TypeInv
  <2>7. /\ op'[p].pc = "setAnchor" => op'[p].kind = "anchor"
        /\ op'[p].pc = "dropAnchor" => op'[p].kind = "unanchor"
        /\ op'[p].pc = "forget" => op'[p].kind = "disable"
        /\ op'[p].then = "write" => op'[p].kind = "upgrade"
        /\ op'[p].kind = "anchor" => op'[p].frame \in Framed
        /\ op'[p].kind = "open" => Exists(op'[p].base)
        /\ op'[p].kind \in {"commit", "upgrade"} => Exists(op'[p].frame)
    <3>1. op'[p] = Idle \/ Kept(p)
      BY <2>1 DEF Effect, Loads, Finds, Cleans, Stores, Replaces, Breaks, Forgets, Anchors, Unanchors, Looks, Compares,
                  Stops, Answers, Ends, Goes
    <3>2. /\ op'[p].pc = "setAnchor" => op'[p].kind = "anchor"
          /\ op'[p].pc = "dropAnchor" => op'[p].kind = "unanchor"
          /\ op'[p].pc = "forget" => op'[p].kind = "disable"
      <4>1. /\ AfterWrite(op[p].kind) = "setAnchor" => op[p].kind = "anchor"
            /\ AfterWrite(op[p].kind) = "dropAnchor" => op[p].kind = "unanchor"
            /\ AfterWrite(op[p].kind) = "forget" => op[p].kind = "disable"
            /\ op[p].then \in {"return", "write"}
        BY <2>2 DEF AfterWrite, Operation
      <4> QED BY <2>1, <4>1, IdleCall
              DEF Effect, Loads, Finds, Cleans, Stores, Replaces, Breaks, Forgets, Anchors, Unanchors, Looks, Compares,
                  Stops, Answers, Ends, Goes, Kept
    <3>3. op'[p].then = "write" => op'[p].kind = "upgrade"
      BY <2>1, IdleCall
      DEF Effect, Loads, Finds, Cleans, Stores, Replaces, Breaks, Forgets, Anchors, Unanchors, Looks, Compares,
          Stops, Answers, Ends, Goes, Kept, TypeInv
    <3> QED BY <3>1, <3>2, <3>3, IdleCall DEF Kept, TypeInv
  <2>8. \A q \in P : /\ op'[q].pc = "setAnchor" => op'[q].kind = "anchor"
                     /\ op'[q].pc = "dropAnchor" => op'[q].kind = "unanchor"
                     /\ op'[q].pc = "forget" => op'[q].kind = "disable"
                     /\ op'[q].then = "write" => op'[q].kind = "upgrade"
                     /\ op'[q].kind = "anchor" => op'[q].frame \in Framed
                     /\ op'[q].kind = "open" => Exists(op'[q].base)
                     /\ op'[q].kind \in {"commit", "upgrade"} => Exists(op'[q].frame)
    BY <2>1, <2>7 DEF Others, TypeInv
  <2> QED BY <1>4, <2>1, <2>3, <2>4, <2>5, <2>6, <2>8, SessionStep DEF TypeInv
<1> QED BY <1>1, <1>2, <1>3, <1>4 DEF Next

-----------------------------------------------------------------------------
(* Why no anchor accuses a vault: until an older copy is put back, the     *)
(* file only moves on to successors, and every anchor, written or about to *)
(* be, is that of a version the file has been.                             *)
Pre(p) == op[p].pc \in {"store", "write"} \/ op[p].then = "write"
Past(g, f) ==
    /\ IsV3(g) /\ IsV3(f) /\ g.header.vault = f.header.vault
    /\ g.header.gen <= f.header.gen /\ g.header.kgen <= f.header.kgen
    /\ g.header.gen = f.header.gen /\ g.header.kgen = f.header.kgen => g = f
AnchorInv ==
    ~Restored =>
        /\ \A a \in anchors : a = anchor_for(a.file_sha256) /\ Past(a.file_sha256, file)
        /\ \A p \in P : op[p].pc \in {"compare", "advance"} => Past(op[p].seen, file)
        /\ \A p \in P : op[p].pc = "setAnchor" => Past(op[p].frame, file)
        /\ \A p \in P : Pre(p) => Succeeds(op[p].base, op[p].frame)

LEMMA FramedFields ==
    ASSUME NEW g \in Container, IsV3(g)
    PROVE  g \in Framed /\ g.header.gen \in Nat /\ g.header.kgen \in Nat
<1>1. g \in Framed
  BY DEF Container, IsV3, Absent, OldFormat
<1> QED BY <1>1 DEF Framed, V3Header

LEMMA PastKept ==
    ASSUME TypeInv, TypeInv', NEW g \in Container, Past(g, file), file' = file \/ Succeeds(file, file')
    PROVE  Past(g, file')
<1>1. CASE file' = file
  BY <1>1 DEF Past
<1>2. CASE Succeeds(file, file')
  <2>1. /\ IsV3(g) /\ IsV3(file) /\ g.header.vault = file.header.vault
        /\ g.header.gen <= file.header.gen /\ g.header.kgen <= file.header.kgen
    BY DEF Past
  <2>2. /\ IsV3(file') /\ file'.header.vault = file.header.vault
        /\ file.header.gen <= file'.header.gen /\ file.header.kgen <= file'.header.kgen
        /\ file.header.gen # file'.header.gen \/ file.header.kgen # file'.header.kgen
    BY <1>2, <2>1 DEF Succeeds
  <2>3. /\ g.header.gen \in Nat /\ g.header.kgen \in Nat /\ file.header.gen \in Nat /\ file.header.kgen \in Nat
        /\ file'.header.gen \in Nat /\ file'.header.kgen \in Nat
    BY <2>1, <2>2, FramedFields DEF TypeInv
  <2>4. /\ g.header.vault = file'.header.vault
        /\ g.header.gen <= file'.header.gen /\ g.header.kgen <= file'.header.kgen
        /\ ~(g.header.gen = file'.header.gen /\ g.header.kgen = file'.header.kgen)
    BY <2>1, <2>2, <2>3
  <2> QED BY <2>1, <2>2, <2>4 DEF Past
<1> QED BY <1>1, <1>2

LEMMA AnchorStep == TypeInv /\ TypeInv' /\ AnchorInv /\ [Next]_vars => AnchorInv'
<1> SUFFICES ASSUME TypeInv, TypeInv', AnchorInv, [Next]_vars PROVE AnchorInv'
  OBVIOUS
<1>1. CASE UNCHANGED vars
  <2>1. UNCHANGED <<file, anchors, op, restores>>
    BY <1>1 DEF vars, stores, ghosts, budget
  <2> QED BY <2>1 DEF AnchorInv, Past, Pre, Restored
<1>2. CASE Restore
  BY <1>2 DEF Restore, AnchorInv, Restored, TypeInv
<1>3. ASSUME NEW p \in P, Begin(p) PROVE AnchorInv'
  <2>1. Began(p)
    BY <1>3, Begins
  <2>2. PICK o \in Operation :
          /\ op' = [op EXCEPT ![p] = o] /\ o.base = file
          /\ Asks(o) \/ Plans(o)
          /\ UNCHANGED <<file, anchors, restores>>
    BY <2>1 DEF Began, stores
  <2>3. op'[p] = o /\ \A q \in P : q # p => op'[q] = op[q]
    BY <2>2 DEF TypeInv
  <2>4. o.pc \in {"load", "store", "write", "verify", "return"} /\ (Pre(p)' => Succeeds(file, o.frame))
    BY <2>2, <2>3 DEF Asks, Plans, Pre
  <2> QED BY <2>2, <2>3, <2>4 DEF AnchorInv, Past, Pre, Restored
<1>4. ASSUME NEW p \in P, Continue(p) PROVE AnchorInv'
  <2> SUFFICES ASSUME ~Restored PROVE AnchorInv'
    BY <1>4, Continues DEF AnchorInv, Restored, budget
  <2>1. Others(p) /\ Effect(p)
    BY <1>4, Continues
  <2>2. op[p] \in Operation /\ op[p].frame \in Container /\ op[p].seen \in Container
    BY DEF TypeInv, Operation
  <2>3. file' = file \/ Succeeds(file, file')
    <3>1. At(p, "write") => Pre(p)
      BY DEF At, Pre
    <3> QED BY <2>1, <3>1
            DEF Effect, Loads, Finds, Cleans, Stores, Replaces, Breaks, Forgets, Anchors, Unanchors, Looks, Compares,
                Stops, Answers, stores, AnchorInv
  <2>4. ASSUME NEW g \in Container, Past(g, file) PROVE Past(g, file')
    BY <2>3, <2>4, PastKept
  <2>5. \A a \in anchors' : a = anchor_for(a.file_sha256) /\ Past(a.file_sha256, file')
    <3>1. ASSUME NEW g \in Container, Past(g, file), SetAnchor(anchor_for(g)), NEW a \in anchors'
          PROVE  a = anchor_for(a.file_sha256) /\ Past(a.file_sha256, file')
      <4>1. anchor_for(g).file_sha256 = g
        BY DEF anchor_for
      <4>2. a \in anchors \/ a = anchor_for(g)
        BY <3>1 DEF SetAnchor
      <4>3. a \in anchors => a.file_sha256 \in Container
        BY DEF TypeInv, Container
      <4> QED BY <2>4, <3>1, <4>1, <4>2, <4>3 DEF AnchorInv
    <3>2. CASE Anchors(p)
      BY <2>2, <3>1, <3>2 DEF Anchors, At, AnchorInv
    <3>3. CASE anchors' \subseteq anchors
      BY <2>4, <3>3 DEF AnchorInv, TypeInv, Container
    <3> QED BY <2>1, <3>2, <3>3 DEF Effect, Loads, Finds, Cleans, Stores, Replaces, Breaks, Forgets, Unanchors, Looks, Compares,
                                    Stops, Answers, stores
  <2>6. \A q \in P : op'[q].pc \in {"compare", "advance"} => Past(op'[q].seen, file')
    <3>1. op'[p].pc \in {"compare", "advance"} => Past(op'[p].seen, file')
      <4>1. AfterWrite(op[p].kind) \notin {"compare", "advance"} /\ op[p].then \in {"return", "write"}
        BY <2>2 DEF AfterWrite, Operation
      <4>2. CASE Looks(p)
        <5>1. IsV3(file) => Past(file, file)
          BY FramedFields DEF TypeInv, Past
        <5> QED BY <4>1, <4>2, <5>1, IdleCall DEF Looks, Ends, Goes, stores
      <4>3. CASE Compares(p)
        BY <2>2, <2>4, <4>1, <4>3, IdleCall DEF Compares, Ends, Goes, At, AnchorInv
      <4> QED BY <2>1, <4>1, <4>2, <4>3, IdleCall
              DEF Effect, Loads, Finds, Cleans, Stores, Replaces, Breaks, Forgets, Anchors, Unanchors, Stops, Answers, Ends, Goes
    <3>2. ASSUME NEW q \in P, q # p, op[q].pc \in {"compare", "advance"}
          PROVE  Past(op[q].seen, file')
      BY <2>4, <3>2 DEF AnchorInv, TypeInv, Operation
    <3> QED BY <2>1, <3>1, <3>2 DEF Others
  <2>7. \A q \in P : op'[q].pc = "setAnchor" => Past(op'[q].frame, file')
    <3>1. op'[p].pc = "setAnchor" => Past(op'[p].frame, file')
      <4>1. op[p].then \in {"return", "write"}
        BY <2>2 DEF Operation
      <4>2. CASE Replaces(p)
        <5>1. op'[p].pc = "setAnchor" => op[p].kind = "anchor"
          BY <4>2 DEF Replaces, AfterWrite
        <5>2. op[p].kind = "anchor" => op[p].frame \in Framed
          BY DEF TypeInv
        <5>3. op[p].frame \in Framed => Past(op[p].frame, op[p].frame)
          BY <2>2, FramedFields DEF Past, Framed, IsV3
        <5> QED BY <4>2, <5>1, <5>2, <5>3 DEF Replaces, Kept
      <4> QED BY <2>1, <4>1, <4>2, IdleCall
              DEF Effect, Loads, Finds, Cleans, Stores, Breaks, Forgets, Anchors, Unanchors, Looks, Compares, Stops, Answers, Ends, Goes
    <3>2. ASSUME NEW q \in P, q # p, op[q].pc = "setAnchor"
          PROVE  Past(op[q].frame, file')
      BY <2>4, <3>2 DEF AnchorInv, TypeInv, Operation
    <3> QED BY <2>1, <3>1, <3>2 DEF Others
  <2>8. \A q \in P : Pre(q)' => Succeeds(op'[q].base, op'[q].frame)
    <3>1. Pre(p)' => Kept(p) /\ Pre(p)
      <4>1. AfterWrite(op[p].kind) \notin {"store", "write"} /\ op[p].then \in {"return", "write"}
        BY <2>2 DEF AfterWrite, Operation
      <4> QED BY <2>1, <4>1, IdleCall
              DEF Effect, Loads, Finds, Cleans, Stores, Replaces, Breaks, Forgets, Anchors, Unanchors, Looks, Compares, Stops,
                  Answers, Ends, Goes, At, Pre
    <3> QED BY <2>1, <3>1 DEF Others, AnchorInv, Pre, Kept
  <2> QED BY <2>5, <2>6, <2>7, <2>8 DEF AnchorInv
<1> QED BY <1>1, <1>2, <1>3, <1>4 DEF Next

LEMMA AnchorInit == Init => AnchorInv
  BY DEF Init, Idle, AnchorInv, Pre

LEMMA Anchored == TypeInv /\ AnchorInv => NoFalseAlarm
<1> SUFFICES ASSUME TypeInv, AnchorInv, IsV3(file), ~Restored, NEW a \in AnchorOf(file)
             PROVE  ~Rollback(anchor_for(file), a)
  BY DEF NoFalseAlarm
<1>1. a = anchor_for(a.file_sha256) /\ Past(a.file_sha256, file) /\ a.file_sha256 \in Container
  BY DEF AnchorOf, AnchorInv, TypeInv, Container
<1>2. PICK g \in Container : g = a.file_sha256
  BY <1>1
<1>3. /\ anchor_for(file).gen = file.header.gen /\ anchor_for(file).kgen = file.header.kgen
      /\ anchor_for(file).file_sha256 = file
      /\ a.gen = g.header.gen /\ a.kgen = g.header.kgen /\ a.file_sha256 = g
  BY <1>1, <1>2 DEF anchor_for
<1>4. /\ g.header.gen <= file.header.gen /\ g.header.kgen <= file.header.kgen
      /\ g.header.gen = file.header.gen /\ g.header.kgen = file.header.kgen => g = file
      /\ IsV3(g)
  BY <1>1, <1>2 DEF Past
<1>5. /\ g.header.gen \in Nat /\ g.header.kgen \in Nat /\ file.header.gen \in Nat /\ file.header.kgen \in Nat
  BY <1>4, FramedFields DEF TypeInv
<1> QED BY <1>3, <1>4, <1>5 DEF Rollback, Older, SameGenerations

(* Opening a vault never reports a rollback that nobody made, at whatever  *)
(* point calls were cut short, raced or refused (NoFalseAlarm).            *)
THEOREM NoFalseAccusation == Spec => []NoFalseAlarm
<1>1. Init => TypeInv /\ AnchorInv
  BY TypeInit, AnchorInit
<1>2. TypeInv /\ AnchorInv /\ [Next]_vars => (TypeInv /\ AnchorInv)'
  BY TypeStep, AnchorStep
<1> QED BY <1>1, <1>2, Anchored, PTL DEF Spec

-----------------------------------------------------------------------------
(* Why a credential that was withdrawn stays out, and a device that was    *)
(* enrolled stays in: each call draws its own secret, a file gains no      *)
(* credential but the one its writer drew, and nobody writes over a        *)
(* version that he did not read.  A call that is about to delete the key   *)
(* it stored has drawn a slot that the file never got (Orphan), but for    *)
(* the slots of a replacement that raised after it took effect.            *)
Post(p) == op[p].pc \in {"forget", "verify", "compare", "advance", "return"}
Bounded ==
    /\ \A c \in Creds(file) \cup withdrawn : c.secret < fresh
    /\ \A p \in P : op[p].cred.secret < fresh /\ op[p].new.secret < fresh
    /\ \A n \in enabled : n < fresh
    /\ \A c \in Creds(file) : c.slot # PasswordSlot => c = Device(c.slot)
Named(p) ==
    /\ op[p].kind \in {"enable", "disable", "find"} => op[p].new = Device(op[p].new.slot)
    /\ op[p].kind \in Drawing => op[p].new.secret # 0
Builds(p) ==
    LET o == op[p] IN
    /\ o.kind # "find"
    /\ Creds(o.frame) \subseteq Creds(o.base) \cup (IF o.kind \in Drawing THEN {o.new} ELSE {})
    /\ o.kind \in {"create", "rotate"} => o.new.slot = PasswordSlot
    /\ o.kind = "disable" => o.new \notin Creds(o.frame)
    /\ o.kind = "rotate" => o.cred \notin Creds(o.frame)
Searching(p) == op[p].pc \in {"load", "key"} => op[p].kind = "find"
Unused(p) ==
    LET n == op[p].new.secret IN
    /\ \A c \in Creds(file) \cup withdrawn : c.secret # n
    /\ n \notin enabled
    /\ \A q \in P \ {p} : op[q].cred.secret # n /\ op[q].new.secret # n
Lost(p) ==
    /\ op[p].kind = "rotate" => op[p].cred \notin Creds(file)
    /\ op[p].kind = "disable" => op[p].new \notin Creds(file)
    /\ op[p].kind \in {"enable", "find"} =>
          op[p].new.slot \in devices \cup raised \/ op[p].new \notin Creds(file)
Orphan(p) ==
    op[p].kind = "enable" /\ (op[p].new.slot \in raised \/ op[p].new \notin Creds(file))

CredInv ==
    ~Restored =>
        /\ Bounded
        /\ withdrawn \cap Creds(file) = {}
        /\ \A n \in enabled : n \in devices \cup raised \/ Device(n) \notin Creds(file)
        /\ \A p \in P : Named(p) /\ Searching(p)
        /\ \A p \in P : Pre(p) => Builds(p)
        /\ \A p \in P : Pre(p) /\ op[p].kind \in Drawing => Unused(p)
        /\ \A p \in P : op[p].pc = "write" /\ op[p].kind = "enable" => op[p].new.slot \in devices
        /\ \A p \in P : Post(p) => Lost(p)
        /\ \A p \in P : op[p].pc = "cleanup" => Orphan(p)

LEMMA DeviceFields == \A n : Device(n).slot = n /\ Device(n).secret = n
  BY DEF Device

(* A call that starts draws a secret nobody has.                           *)
LEMMA CredBegin ==
    ASSUME TypeInv, TypeInv', CredInv, ~Restored, NEW p \in P, Began(p)
    PROVE  CredInv'
<1>1. PICK o \in Operation :
        /\ At(p, "idle") /\ op' = [op EXCEPT ![p] = o] /\ o.base = file
        /\ Asks(o) \/ (Plans(o) /\ (o.kind \in Drawing => fresh < fresh'))
        /\ fresh' \in Nat /\ fresh <= fresh'
        /\ UNCHANGED <<file, devices, restores, enabled, withdrawn, raised>>
  BY DEF Began, stores, ghosts
<1>2. op'[p] = o /\ \A q \in P : q # p => op'[q] = op[q]
  BY <1>1 DEF TypeInv
<1>3. /\ \A c \in Creds(file) \cup withdrawn : c.secret < fresh /\ c.secret \in Nat
      /\ \A q \in P : /\ op[q].cred.secret < fresh /\ op[q].new.secret < fresh
                      /\ op[q].cred.secret \in Nat /\ op[q].new.secret \in Nat
      /\ \A n \in enabled : n < fresh /\ n \in Nat
      /\ fresh \in Nat
  BY CredsAreKeys DEF CredInv, Bounded, TypeInv, Operation, Credential, Key
<1>4. \/ o.new.secret = fresh /\ o.kind \in Drawing /\ fresh < fresh'
      \/ o.kind \notin Drawing /\ \E c \in Creds(file) : o.new = c
  <2>1. CASE Asks(o)
    BY <2>1 DEF Asks, Drawing
  <2>2. CASE Plans(o) /\ o.kind \in Drawing
    BY <1>1, <2>2 DEF Plans, Drawing, Asks
  <2>3. CASE Plans(o) /\ o.kind = "disable"
    <3>1. o.new = Device(o.new.slot) /\ o.new.slot \in DeviceSlots(file)
      BY <2>3 DEF Plans
    <3>2. PICK c \in Creds(file) : c.slot = o.new.slot /\ c.slot # PasswordSlot
      BY <3>1 DEF DeviceSlots, device_slots, password_slots, Creds
    <3>3. c = Device(c.slot)
      BY <3>2 DEF CredInv, Bounded
    <3> QED BY <2>3, <3>1, <3>2, <3>3 DEF Drawing
  <2>4. CASE Plans(o) /\ o.kind \notin Drawing \cup {"disable"}
    BY <2>4 DEF Plans, Drawing
  <2> QED BY <1>1, <2>1, <2>2, <2>3, <2>4
<1>5. (\E c \in Creds(file) : o.cred = c) \/ (o.cred = o.new /\ o.kind \in Drawing)
  BY <1>1 DEF Asks, Plans, Drawing
<1>6. Bounded'
  <2>1. o.cred.secret < fresh' /\ o.new.secret < fresh'
    BY <1>1, <1>3, <1>4, <1>5
  <2>2. \A q \in P : op'[q].cred.secret < fresh' /\ op'[q].new.secret < fresh'
    BY <1>1, <1>2, <1>3, <2>1
  <2>3. /\ \A c \in Creds(file) \cup withdrawn : c.secret < fresh'
        /\ \A n \in enabled : n < fresh'
    BY <1>1, <1>3
  <2> QED BY <1>1, <2>2, <2>3 DEF CredInv, Bounded
<1>7. \A q \in P : Named(q)'
  <2>1. o.kind \in {"enable", "disable"} => o.new = Device(o.new.slot)
    BY <1>1, DeviceFields DEF Asks, Plans
  <2>3. o.kind = "find" => o.new = Device(o.new.slot)
    BY <1>1 DEF Asks, Plans, CredInv, Bounded
  <2>2. o.kind \in Drawing => o.new.secret # 0
    BY <1>1, <1>4 DEF TypeInv
  <2> QED BY <1>2, <2>1, <2>2, <2>3 DEF CredInv, Named
<1>8. \A q \in P : Pre(q)' => Builds(q)'
  <2>1. Pre(p)' => Plans(o)
    BY <1>1, <1>2 DEF Asks, Pre
  <2>2. Plans(o) => Builds(p)'
    <3>1. ASSUME Plans(o), o.kind = "rotate" PROVE o.cred \notin Creds(o.frame)
      <4>1. \E c \in Creds(file) : o.cred = c
        BY <3>1 DEF Plans
      <4>2. o.cred.secret < fresh /\ o.new.secret = fresh /\ Creds(o.frame) = {o.new}
        BY <1>3, <3>1, <4>1 DEF Plans, Drawing
      <4> QED BY <1>3, <4>1, <4>2
    <3>2. ASSUME Plans(o), o.kind \in {"create", "rotate"} PROVE o.new.slot = PasswordSlot
      BY <3>2 DEF Plans, Password
    <3> QED BY <1>1, <1>2, <3>1, <3>2 DEF Plans, Builds
  <2>3. ASSUME NEW q \in P, q # p, Pre(q)' PROVE Builds(q)'
    BY <1>2, <2>3 DEF CredInv, Pre, Builds
  <2> QED BY <2>1, <2>2, <2>3
<1>9. \A q \in P : Pre(q)' /\ op'[q].kind \in Drawing => Unused(q)'
  <2>1. ASSUME o.kind \in Drawing PROVE Unused(p)'
    BY <1>1, <1>2, <1>3, <1>4, <2>1 DEF Unused
  <2>2. ASSUME NEW q \in P, q # p, Pre(q)', op'[q].kind \in Drawing PROVE Unused(q)'
    <3>1. Unused(q)
      BY <1>2, <2>2 DEF CredInv, Pre
    <3>2. o.cred.secret # op[q].new.secret /\ o.new.secret # op[q].new.secret
      BY <1>3, <1>4, <1>5, <3>1 DEF Unused
    <3> QED BY <1>1, <1>2, <2>2, <3>1, <3>2 DEF Unused
  <2> QED BY <1>2, <2>1, <2>2
<1>10. \A q \in P : op'[q].pc = "write" /\ op'[q].kind = "enable" => op'[q].new.slot \in devices'
  <2>1. ~(o.pc = "write" /\ o.kind = "enable")
    BY <1>1 DEF Asks, Plans
  <2> QED BY <1>1, <1>2, <2>1 DEF CredInv
<1>11. \A q \in P : Post(q)' => Lost(q)'
  <2>1. Post(p)' => o.kind \notin {"rotate", "disable", "enable", "find"}
    BY <1>1, <1>2 DEF Asks, Plans, Post
  <2> QED BY <1>1, <1>2, <2>1 DEF CredInv, Post, Lost
<1>12. \A q \in P : op'[q].pc = "cleanup" => Orphan(q)'
  <2>1. o.pc # "cleanup"
    BY <1>1 DEF Asks, Plans
  <2> QED BY <1>1, <1>2, <2>1 DEF CredInv, Orphan
<1>13. \A q \in P : Searching(q)'
  <2>1. o.pc \in {"load", "key"} => o.kind = "find"
    BY <1>1 DEF Asks, Plans
  <2> QED BY <1>2, <2>1 DEF CredInv, Searching
<1> QED BY <1>1, <1>6, <1>7, <1>8, <1>9, <1>10, <1>11, <1>12, <1>13 DEF CredInv

(* A call that goes on: the file gains at most what it drew, a key is      *)
(* forgotten only with its slot, and promises are made of facts.           *)
LEMMA CredContinue ==
    ASSUME TypeInv, TypeInv', CredInv, ~Restored, NEW p \in P, Others(p), Effect(p), UNCHANGED budget
    PROVE  CredInv'
<1>1. /\ UNCHANGED <<fresh, restores>> /\ op[p] \in Operation /\ op[p].then \in {"return", "write"}
      /\ op[p].new.secret \in Nat /\ op[p].cred.secret \in Nat /\ op[p].new.slot \in Nat
      /\ \A q \in P : q # p => op'[q] = op[q]
  BY DEF budget, TypeInv, Operation, Others, Credential
<1>2. op'[p] = Idle \/ Kept(p)
  BY DEF Effect, Loads, Finds, Cleans, Stores, Replaces, Breaks, Forgets, Anchors, Unanchors, Looks, Compares, Stops, Answers, Ends, Goes
<1>3. PICK drawn : drawn = IF At(p, "write") /\ op[p].kind \in Drawing THEN {op[p].new} ELSE {}
  OBVIOUS
<1>4. file' = file \/ (At(p, "write") /\ file = op[p].base /\ file' = op[p].frame)
  BY DEF Effect, Loads, Finds, Cleans, Stores, Replaces, Breaks, Forgets, Anchors, Unanchors, Looks, Compares, Stops, Answers, stores
<1>5. Creds(file') \subseteq Creds(file) \cup drawn
  <2>1. At(p, "write") => Builds(p)
    BY DEF CredInv, Pre, At
  <2> QED BY <1>3, <1>4, <2>1 DEF Builds
<1>6. \A c \in drawn :
        /\ c = op[p].new /\ op[p].kind \in Drawing /\ Unused(p) /\ Builds(p)
        /\ op[p].kind = "enable" => c = Device(c.slot)
        /\ op[p].kind # "enable" => c.slot = PasswordSlot
  BY <1>3 DEF CredInv, Pre, At, Builds, Named, Drawing
<1>7. \A n \in devices \ devices' :
        /\ n = op[p].new.slot /\ op[p].new = Device(n) /\ n = op[p].new.secret
        /\ n \in raised \/ op[p].new \notin Creds(file)
        /\ file' = file /\ raised' = raised
  <2>1. CASE Cleans(p)
    <3>1. Orphan(p) /\ Named(p)
      BY <2>1 DEF Cleans, CredInv, At
    <3> QED BY <2>1, <3>1, DeviceFields DEF Cleans, Orphan, Named, ghosts
  <2>2. CASE Forgets(p)
    <3>1. op[p].kind = "disable" /\ Lost(p)
      BY <2>2 DEF Forgets, TypeInv, At, CredInv, Post
    <3> QED BY <2>2, <3>1, DeviceFields DEF Forgets, CredInv, Named, Lost, ghosts
  <2>3. CASE devices \subseteq devices'
    BY <2>3
  <2> QED BY <2>1, <2>2, <2>3
          DEF Effect, Loads, Finds, Stores, Replaces, Breaks, Anchors, Unanchors, Looks, Compares, Stops, Answers, stores
<1>8. /\ \A n \in enabled' \ enabled :
           /\ op[p].kind \in {"enable", "find"} /\ At(p, "return") /\ n = op[p].new.slot
           /\ file' = file /\ devices' = devices
      /\ \A c \in withdrawn' \ withdrawn :
           /\ At(p, "return") /\ file' = file
           /\ \/ op[p].kind = "rotate" /\ c = op[p].cred
              \/ op[p].kind = "disable" /\ c = op[p].new
      /\ enabled \subseteq enabled' /\ withdrawn \subseteq withdrawn' /\ raised \subseteq raised'
  BY DEF Effect, Loads, Finds, Cleans, Stores, Replaces, Breaks, Forgets, Anchors, Unanchors, Looks, Compares, Stops, Answers, stores, ghosts
<1>9. Bounded'
  <2>1. \A c \in Creds(file') : c.secret < fresh' /\ (c.slot # PasswordSlot => c = Device(c.slot))
    BY <1>1, <1>5, <1>6 DEF CredInv, Bounded
  <2>2. \A c \in withdrawn' : c.secret < fresh'
    BY <1>1, <1>8 DEF CredInv, Bounded
  <2>3. \A n \in enabled' : n < fresh'
    BY <1>1, <1>8, DeviceFields DEF CredInv, Bounded, Named
  <2>4. \A q \in P : op'[q].cred.secret < fresh' /\ op'[q].new.secret < fresh'
    <3>1. Idle.cred.secret = 0 /\ Idle.new.secret = 0 /\ 0 < fresh
      BY DEF Idle, Nobody, TypeInv
    <3> QED BY <1>1, <1>2, <3>1 DEF CredInv, Bounded, Kept
  <2> QED BY <2>1, <2>2, <2>3, <2>4 DEF Bounded
<1>10. withdrawn' \cap Creds(file') = {}
  <2>1. \A c \in withdrawn : c \notin Creds(file')
    BY <1>5, <1>6 DEF CredInv, Unused
  <2>2. \A c \in withdrawn' \ withdrawn : c \notin Creds(file')
    <3>1. At(p, "return") => Lost(p)
      BY DEF CredInv, Post, At
    <3> QED BY <1>8, <3>1 DEF Lost
  <2> QED BY <2>1, <2>2
<1>11. \A n \in enabled' : n \in devices' \cup raised' \/ Device(n) \notin Creds(file')
  <2>1. ASSUME NEW n \in enabled PROVE n \in devices' \cup raised' \/ Device(n) \notin Creds(file')
    <3>1. n \in devices \cup raised \/ Device(n) \notin Creds(file)
      BY DEF CredInv
    <3>2. Device(n) \notin Creds(file) => Device(n) \notin Creds(file')
      BY <1>5, <1>6, DeviceFields DEF Unused
    <3>3. n \in devices \ devices' => n \in raised' \/ Device(n) \notin Creds(file')
      <4>1. n \in devices \ devices' =>
              /\ op[p].new = Device(n)
              /\ n \in raised \/ op[p].new \notin Creds(file)
              /\ file' = file /\ raised' = raised
        BY <1>7
      <4> QED BY <4>1
    <3> QED BY <1>8, <3>1, <3>2, <3>3
  <2>2. ASSUME NEW n \in enabled' \ enabled PROVE n \in devices' \cup raised' \/ Device(n) \notin Creds(file')
    <3>1. op[p].new = Device(n) /\ Lost(p)
      BY <1>8, <2>2, DeviceFields DEF CredInv, Named, Post, At
    <3> QED BY <1>8, <2>2, <3>1 DEF Lost
  <2> QED BY <2>1, <2>2
<1>12. \A q \in P : Named(q)'
  <2>1. Named(p)'
    BY <1>2, IdleCall DEF CredInv, Named, Kept, Drawing
  <2> QED BY <1>1, <2>1 DEF CredInv, Named
<1>13. Pre(p)' => Kept(p) /\ Pre(p) /\ file' = file
  <2>1. AfterWrite(op[p].kind) \notin {"store", "write"} /\ (op[p].then = "write" => op[p].kind = "upgrade")
    BY DEF AfterWrite, TypeInv
  <2> QED BY <1>1, <2>1, IdleCall
          DEF Effect, Loads, Finds, Cleans, Stores, Replaces, Breaks, Forgets, Anchors, Unanchors, Looks, Compares, Stops, Answers,
              Ends, Goes, Pre, At, stores
<1>14. \A q \in P : Pre(q)' => Builds(q)'
  <2>1. Pre(p)' => Builds(p)'
    BY <1>13 DEF CredInv, Kept, Builds
  <2>2. ASSUME NEW q \in P, q # p, Pre(q)' PROVE Builds(q)'
    BY <1>1, <2>2 DEF CredInv, Pre, Builds
  <2> QED BY <2>1, <2>2
<1>15. \A q \in P : Pre(q)' /\ op'[q].kind \in Drawing => Unused(q)'
  <2>1. ASSUME NEW q \in P, Pre(q)', op'[q].kind \in Drawing PROVE Unused(q)'
    <3>1. Unused(q) /\ op'[q].new = op[q].new /\ (q = p => file' = file)
      BY <1>1, <1>13, <2>1 DEF CredInv, Pre, Kept
    <3>2. PICK n : n = op[q].new.secret
      OBVIOUS
    <3>3. \A c \in Creds(file') : c.secret # n
      <4>1. CASE q = p
        BY <3>1, <3>2, <4>1 DEF Unused
      <4>2. CASE q # p
        BY <1>5, <1>6, <3>1, <3>2, <4>2 DEF Unused
      <4> QED BY <4>1, <4>2
    <3>4. \A c \in withdrawn' : c.secret # n
      <4>1. CASE q = p
        BY <1>8, <1>13, <2>1, <3>1, <3>2, <4>1 DEF Unused, Pre, At, TypeInv
      <4>2. CASE q # p
        BY <1>8, <3>1, <3>2, <4>2 DEF Unused
      <4> QED BY <4>1, <4>2
    <3>5. n \notin enabled'
      <4>1. CASE q = p
        BY <1>8, <1>13, <2>1, <3>1, <3>2, <4>1 DEF Unused, Pre, At, TypeInv
      <4>2. CASE q # p
        BY <1>8, <3>1, <3>2, <4>2, DeviceFields DEF Unused, CredInv, Named
      <4> QED BY <4>1, <4>2
    <3>6. \A r \in P \ {q} : op'[r].cred.secret # n /\ op'[r].new.secret # n
      <4>1. \A r \in P \ {q} : op[r].cred.secret # n /\ op[r].new.secret # n
        BY <3>1, <3>2 DEF Unused
      <4>2. Idle.cred.secret = 0 /\ Idle.new.secret = 0
        BY DEF Idle, Nobody
      <4>3. n # 0
        <5>1. op[q].kind \in Drawing
          BY <1>1, <1>13, <2>1 DEF Kept
        <5> QED BY <3>2, <5>1 DEF CredInv, Named
      <4> QED BY <1>1, <1>2, <4>1, <4>2, <4>3 DEF Kept
    <3> QED BY <3>1, <3>2, <3>3, <3>4, <3>5, <3>6 DEF Unused
  <2> QED BY <2>1
<1>16. \A q \in P : op'[q].pc = "write" /\ op'[q].kind = "enable" => op'[q].new.slot \in devices'
  <2>1. op'[p].pc = "write" /\ op'[p].kind = "enable" => op'[p].new.slot \in devices'
    <3>1. CASE Stores(p)
      BY <3>1 DEF Stores, Goes, Kept
    <3>2. CASE ~Stores(p)
      <4>1. AfterWrite(op[p].kind) # "write" /\ (op[p].then = "write" => op[p].kind = "upgrade")
        BY DEF AfterWrite, TypeInv
      <4>2. op'[p].pc = "write" => Kept(p) /\ op[p].then = "write"
        BY <1>1, <3>2, <4>1, IdleCall
        DEF Effect, Loads, Finds, Cleans, Replaces, Breaks, Forgets, Anchors, Unanchors, Looks, Compares, Stops, Answers, Ends, Goes
      <4> QED BY <4>1, <4>2 DEF Kept
    <3> QED BY <3>1, <3>2
  <2>2. ASSUME NEW q \in P, q # p, op[q].pc = "write", op[q].kind = "enable"
        PROVE  op[q].new.slot \in devices'
    <3>1. /\ op[q].new.slot \in devices /\ Unused(q)
          /\ op[q].new.slot = op[q].new.secret
      BY <2>2, DeviceFields DEF CredInv, Pre, Drawing, Named
    <3>2. op[p].new.secret # op[q].new.secret
      BY <2>2, <3>1 DEF Unused
    <3>3. op[q].new.slot \in devices \ devices' => op[q].new.slot = op[p].new.secret
      BY <1>7
    <3> QED BY <3>1, <3>2, <3>3
  <2> QED BY <1>1, <2>1, <2>2
<1>17. \A q \in P : Post(q)' => Lost(q)'
  <2>1. ASSUME Post(p)' PROVE Lost(p)'
    <3>1. CASE Replaces(p)
      <4>1. Builds(p) /\ (op[p].kind = "enable" => op[p].new.slot \in devices)
        BY <3>1 DEF Replaces, At, CredInv, Pre
      <4> QED BY <3>1, <4>1 DEF Replaces, Kept, Builds, Lost
    <3>2. CASE Anchors(p) \/ Unanchors(p)
      <4>1. UNCHANGED <<file, devices, raised>> /\ op'[p].kind = op[p].kind /\ (Post(p) \/ op[p].kind \in {"anchor", "unanchor"})
            /\ op'[p].cred = op[p].cred /\ op'[p].new = op[p].new
        BY <2>1, <3>2, IdleCall DEF Anchors, Unanchors, Goes, Ends, Kept, TypeInv, At, Post, ghosts
      <4> QED BY <4>1 DEF CredInv, Lost
    <3>3. CASE Forgets(p) \/ Looks(p) \/ Compares(p)
      <4>1. /\ file' = file /\ raised' = raised /\ Post(p) /\ Kept(p)
            /\ devices' = devices \/ op[p].kind = "disable"
        BY <2>1, <3>3, IdleCall DEF Forgets, Looks, Compares, Goes, Ends, TypeInv, At, Post, stores, ghosts
      <4> QED BY <4>1 DEF CredInv, Lost, Kept
    <3>4. CASE Loads(p) \/ Stores(p) \/ Breaks(p) \/ Cleans(p) \/ Stops(p) \/ Answers(p)
      BY <2>1, <3>4, IdleCall DEF Loads, Stores, Breaks, Cleans, Stops, Answers, Goes, Ends, Post
    <3>5. CASE Finds(p)
      <4>1. op[p].new.slot \in devices' /\ Kept(p)
        BY <2>1, <3>5, IdleCall DEF Finds, Goes, Ends, Post, stores
      <4>2. op[p].kind \notin {"rotate", "disable"}
        BY <3>5 DEF Finds, At, CredInv, Searching
      <4> QED BY <4>1, <4>2 DEF Kept, Lost
    <3> QED BY <3>1, <3>2, <3>3, <3>4, <3>5 DEF Effect
  <2>2. ASSUME NEW q \in P, q # p, Post(q) PROVE Lost(q)'
    <3>1. Lost(q) /\ Named(q) /\ op'[q] = op[q]
      BY <1>1, <2>2 DEF CredInv
    <3>2. \A c \in drawn : c # op[q].cred /\ c # op[q].new
      BY <1>6, <2>2 DEF Unused
    <3>3. /\ op[q].kind = "rotate" => op[q].cred \notin Creds(file')
          /\ op[q].kind = "disable" => op[q].new \notin Creds(file')
      BY <1>5, <3>1, <3>2 DEF Lost
    <3>4. ASSUME op[q].kind \in {"enable", "find"}, op[q].new.slot \notin devices' \cup raised'
          PROVE  op[q].new \notin Creds(file')
      <4>1. CASE op[q].new \notin Creds(file)
        BY <1>5, <3>2, <4>1
      <4>2. CASE op[q].new.slot \in devices
        <5>1. op[q].new.slot \in devices \ devices' /\ op[q].new = Device(op[q].new.slot)
          BY <3>1, <3>4, <4>2 DEF Named
        <5>2. /\ op[p].new = op[q].new /\ file' = file
              /\ op[q].new.slot \in raised' \/ op[p].new \notin Creds(file)
          BY <1>7, <5>1
        <5> QED BY <3>4, <5>2
      <4> QED BY <1>8, <3>1, <3>4, <4>1, <4>2 DEF Lost
    <3> QED BY <3>1, <3>3, <3>4 DEF Lost
  <2> QED BY <1>1, <2>1, <2>2 DEF Post
<1>18. \A q \in P : op'[q].pc = "cleanup" => Orphan(q)'
  <2>1. ASSUME op'[p].pc = "cleanup" PROVE Orphan(p)'
    <3>1. AfterWrite(op[p].kind) # "cleanup"
      BY DEF AfterWrite
    <3>2. Breaks(p) /\ op[p].kind = "enable" /\ Goes(p, "cleanup")
      BY <1>1, <2>1, <3>1, IdleCall
      DEF Effect, Loads, Finds, Cleans, Stores, Replaces, Breaks, Forgets, Anchors, Unanchors, Looks, Compares, Stops,
          Answers, Ends, Goes
    <3>3. op[p].new \notin Creds(file)
      BY <3>2 DEF Breaks, At, CredInv, Pre, Drawing, Unused
    <3> QED BY <3>2, <3>3 DEF Breaks, Goes, Kept, Orphan
  <2>2. ASSUME NEW q \in P, q # p, op[q].pc = "cleanup" PROVE Orphan(q)'
    <3>1. Orphan(q) /\ op'[q] = op[q]
      BY <1>1, <2>2 DEF CredInv
    <3>2. \A c \in drawn : c # op[q].new
      BY <1>6, <2>2 DEF Unused
    <3> QED BY <1>5, <1>8, <3>1, <3>2 DEF Orphan
  <2> QED BY <1>1, <2>1, <2>2
<1>19. \A q \in P : Searching(q)'
  <2>1. Searching(p)'
    BY IdleCall
    DEF Effect, Loads, Finds, Cleans, Stores, Replaces, Breaks, Forgets, Anchors, Unanchors, Looks, Compares, Stops,
        Answers, Ends, Goes, Kept, AfterWrite, At, CredInv, Searching, TypeInv, Operation
  <2> QED BY <1>1, <2>1 DEF CredInv, Searching
<1> QED BY <1>1, <1>9, <1>10, <1>11, <1>12, <1>14, <1>15, <1>16, <1>17, <1>18, <1>19 DEF CredInv

LEMMA CredInit == Init => CredInv
<1> SUFFICES ASSUME Init PROVE CredInv
  OBVIOUS
<1>1. Creds(file) \subseteq {Password(1)}
  <2>1. ASSUME NEW g, g = create_v3_container(Password(1), Payload(2, {}), 2, 2, 1, 1, FALSE)
        PROVE  Creds(g) = {Password(1)}
    <3>1. PICK h : g = assemble_frame(h, {wrap_dek(Password(1), h)}, encrypt(h, Payload(2, {})))
      BY <2>1 DEF create_v3_container
    <3> QED BY <3>1 DEF assemble_frame, Creds, IsV3, wrap_dek
  <2>2. Creds(Absent) = {} /\ Creds(Legacy(Password(1), 2, Payload(2, {}))) = {Password(1)}
    BY DEF Absent, Legacy, Creds, IsV3, Exists
  <2> QED BY <2>1, <2>2 DEF Init, Created
<1>2. Password(1).secret = 1 /\ Password(1).slot = PasswordSlot
  BY DEF Password
<1>3. Idle.cred.secret = 0 /\ Idle.new.secret = 0 /\ Idle.kind = "none" /\ Idle.pc = "idle" /\ Idle.then = "return"
  BY DEF Idle, Nobody
<1> QED BY <1>1, <1>2, <1>3 DEF Init, CredInv, Bounded, Named, Searching, Pre, Post, Drawing

LEMMA CredStep == TypeInv /\ TypeInv' /\ CredInv /\ [Next]_vars => CredInv'
<1> SUFFICES ASSUME TypeInv, TypeInv', CredInv, [Next]_vars PROVE CredInv'
  OBVIOUS
<1>1. CASE UNCHANGED vars
  <2>1. UNCHANGED <<file, devices, op, fresh, restores, enabled, withdrawn, raised>>
    BY <1>1 DEF vars, stores, ghosts, budget
  <2> QED BY <2>1 DEF CredInv, Bounded, Named, Searching, Pre, Post, Builds, Unused, Lost, Orphan, Restored
<1>2. CASE Restore
  BY <1>2 DEF Restore, CredInv, Restored, TypeInv
<1>3. ASSUME NEW p \in P, Begin(p) PROVE CredInv'
  <2>1. Began(p)
    BY <1>3, Begins
  <2>2. Restored' <=> Restored
    BY <2>1 DEF Began, Restored
  <2> QED BY <2>1, <2>2, CredBegin DEF CredInv
<1>4. ASSUME NEW p \in P, Continue(p) PROVE CredInv'
  <2>1. Others(p) /\ Effect(p) /\ UNCHANGED budget
    BY <1>4, Continues
  <2>2. Restored' <=> Restored
    BY <2>1 DEF budget, Restored
  <2> QED BY <2>1, <2>2, CredContinue DEF CredInv
<1> QED BY <1>1, <1>2, <1>3, <1>4 DEF Next

LEMMA Granted == TypeInv /\ CredInv => EnabledOpens /\ WithdrawnIsLockedOut
<1> SUFFICES ASSUME TypeInv, CredInv, ~Restored
             PROVE  /\ (enabled \cap DeviceSlots(file)) \ raised \subseteq devices
                    /\ \A cred \in withdrawn : ~decrypt_payload(cred, file)
  BY DEF EnabledOpens, WithdrawnIsLockedOut
<1>1. ASSUME NEW n \in enabled, n \in DeviceSlots(file), n \notin raised PROVE n \in devices
  <2>1. PICK c \in Creds(file) : c.slot = n /\ c.slot # PasswordSlot
    BY <1>1 DEF DeviceSlots, device_slots, password_slots, Creds
  <2>2. Device(n) \in Creds(file)
    BY <2>1 DEF CredInv, Bounded
  <2> QED BY <1>1, <2>2 DEF CredInv
<1>2. ASSUME NEW cred \in withdrawn, decrypt_payload(cred, file) PROVE FALSE
  BY <1>2, OpeningCred DEF CredInv, TypeInv
<1> QED BY <1>1, <1>2

LEMMA CredInvariant == Spec => [](TypeInv /\ CredInv)
<1>1. Init => TypeInv /\ CredInv
  BY TypeInit, CredInit
<1>2. TypeInv /\ CredInv /\ [Next]_vars => (TypeInv /\ CredInv)'
  BY TypeStep, CredStep
<1> QED BY <1>1, <1>2, PTL DEF Spec

(* A device whose owner was told that it unlocks the vault still does,     *)
(* whatever other calls failed, crashed or raced (EnabledOpens).           *)
THEOREM EnrolledDeviceOpens == Spec => []EnabledOpens
  BY CredInvariant, Granted, PTL

(* A replaced password or a removed device never opens the vault again,    *)
(* not even through the write of a process that held the older version     *)
(* (WithdrawnIsLockedOut).                                                 *)
THEOREM WithdrawnStaysOut == Spec => []WithdrawnIsLockedOut
  BY CredInvariant, Granted, PTL

-----------------------------------------------------------------------------
(* Why no edit is lost: a revision stands for one content among all the    *)
(* versions that the file is, was kept as, or may become, and a session    *)
(* holds the content of the revision it names.                             *)
Versions == {file, copy} \cup {op[p].base : p \in P} \cup {op[p].frame : p \in P}
Old(g) == Exists(g) /\ (IsV3(g) => g.header.nonce < fresh)
Agree(f, g) == container_revision(f) = container_revision(g) => PayloadOf(f) = PayloadOf(g)
Trusted(g) == g \in Container /\ Old(g) /\ \A f \in Versions : Exists(f) => Agree(f, g)
Holds(s, g) == s.revision = container_revision(g) /\ s.payload = PayloadOf(g)
EditInv ==
    /\ \A f \in Versions : Exists(f) => Trusted(f)
    /\ \A p \in P : session[p].open => \E g \in Container : Trusted(g) /\ Holds(session[p], g)
    /\ \A p \in P : Pre(p) /\ Exists(op[p].base) =>
          Exists(op[p].frame) /\ PayloadOf(op[p].base).edits \subseteq PayloadOf(op[p].frame).edits

LEMMA SameRevision ==
    ASSUME NEW f \in Container, NEW g \in Container, Exists(f), Exists(g),
           container_revision(f) = container_revision(g)
    PROVE  \/ IsV3(f) /\ IsV3(g) /\ f.header.nonce = g.header.nonce
           \/ ~IsV3(f) /\ f = g
<1>1. (f \in OldFormat \/ f \in Framed) /\ (g \in OldFormat \/ g \in Framed)
  BY DEF Container, Exists, Absent
<1>2. ASSUME NEW h \in OldFormat PROVE container_revision(h) = <<1, h>> /\ ~IsV3(h)
  BY <1>2 DEF OldFormat, container_revision, IsV3
<1>3. ASSUME NEW h \in Framed
      PROVE  container_revision(h) = <<3, h.header.vault, h.header.dek, h.header.gen, h.header.nonce>> /\ IsV3(h)
  BY <1>3 DEF Framed, container_revision, IsV3
<1>4. CASE f \in OldFormat /\ g \in OldFormat
  BY <1>2, <1>4
<1>5. CASE f \in Framed /\ g \in Framed
  BY <1>3, <1>5
<1>6. CASE f \in OldFormat /\ g \in Framed
  BY <1>2, <1>3, <1>6
<1>7. CASE f \in Framed /\ g \in OldFormat
  BY <1>2, <1>3, <1>7
<1> QED BY <1>1, <1>4, <1>5, <1>6, <1>7

LEMMA VersionTypes == TypeInv => Versions \subseteq Container
  BY DEF TypeInv, Versions, Operation

(* A step that adds no version, or one that carries the file's content.    *)
LEMMA TrustKept ==
    ASSUME TypeInv, EditInv, NEW p \in P, NEW f \in Container, Exists(f) => Carries(p, f),
           fresh' \in Nat, fresh <= fresh', Versions' \subseteq Versions \cup {f}
    PROVE  /\ \A g \in Container : Trusted(g) => Trusted(g)'
           /\ Exists(f) => Trusted(f)'
<1>1. ASSUME NEW g \in Container, Old(g) PROVE Old(g)'
  <2>1. IsV3(g) => g.header.nonce \in Nat
    BY DEF Container, Framed, V3Header, IsV3, Absent, OldFormat
  <2> QED BY <1>1, <2>1 DEF Old, TypeInv
<1>2. ASSUME Exists(f), NEW g \in Container, Trusted(g) PROVE Agree(f, g)
  <2>1. CASE SameContent(f)
    <3>1. file \in Versions /\ Exists(file)
      BY <2>1 DEF Versions, SameContent
    <3> QED BY <1>2, <2>1, <3>1 DEF Trusted, Agree, SameContent
  <2>2. CASE NewContent(f)
    <3>1. SUFFICES ASSUME container_revision(f) = container_revision(g) PROVE PayloadOf(f) = PayloadOf(g)
      BY DEF Agree
    <3>2. Exists(g) /\ (IsV3(g) => g.header.nonce < fresh)
      BY <1>2 DEF Trusted, Old
    <3>3. \/ IsV3(f) /\ IsV3(g) /\ f.header.nonce = g.header.nonce
          \/ ~IsV3(f) /\ f = g
      BY <1>2, <3>1, <3>2, SameRevision
    <3>4. IsV3(g) => g.header.nonce \in Nat
      BY DEF Container, Framed, V3Header, IsV3, Absent, OldFormat
    <3> QED BY <2>2, <3>2, <3>3, <3>4 DEF NewContent, TypeInv
  <2> QED BY <1>2, <2>1, <2>2 DEF Carries
<1>3. ASSUME NEW g \in Container, Trusted(g) PROVE Trusted(g)'
  <2>1. \A h \in Versions' : Exists(h) => Agree(h, g)
    BY <1>2, <1>3 DEF Trusted
  <2> QED BY <1>1, <1>3, <2>1 DEF Trusted
<1>4. ASSUME Exists(f) PROVE Trusted(f)'
  <2>1. Old(f)'
    <3>1. CASE SameContent(f)
      <4>1. Trusted(file) /\ Exists(file) /\ file \in Container
        BY <3>1 DEF SameContent, EditInv, Versions, TypeInv
      <4>2. IsV3(f) /\ IsV3(file) /\ f.header.nonce = file.header.nonce
        BY <1>4, <3>1, <4>1, SameRevision DEF SameContent
      <4> QED BY <1>1, <1>4, <4>1, <4>2 DEF Trusted, Old
    <3>2. CASE NewContent(f)
      BY <1>4, <3>2 DEF NewContent, Old
    <3> QED BY <1>4, <3>1, <3>2 DEF Carries
  <2>2. \A h \in Versions' : Exists(h) => Agree(h, f)
    <3>1. ASSUME NEW h \in Versions, Exists(h) PROVE Agree(h, f)
      <4>1. Trusted(h) /\ h \in Container
        BY <3>1 DEF EditInv, Trusted
      <4> QED BY <1>2, <1>4, <4>1 DEF Agree
    <3>2. Agree(f, f)
      BY DEF Agree
    <3> QED BY <3>1, <3>2
  <2> QED BY <2>1, <2>2 DEF Trusted
<1> QED BY <1>3, <1>4

(* What a session holds afterwards: what it held, nothing, or the content  *)
(* that its call read or wrote.                                            *)
LEMMA SessionMoves ==
    ASSUME TypeInv, NEW p \in P, Continue(p)
    PROVE  /\ \A q \in P : q # p => session'[q] = session[q]
           /\ \/ session'[p] = session[p] \/ ~session'[p].open
              \/ \E f \in {op[p].base, op[p].frame} : Exists(f) /\ Holds(session'[p], f)
<1>1. session \in [P -> VaultSession] /\ session[p] \in VaultSession
  BY DEF TypeInv
<1>2. CASE session' = session
  BY <1>2
<1>3. CASE session' = [session EXCEPT ![p] = NoSession]
  BY <1>1, <1>3 DEF NoSession
<1>4. CASE Write(p) /\ op[p].kind = "upgrade"
  <2>1. session' = [session EXCEPT ![p] = [@ EXCEPT !.payload = PayloadOf(op[p].frame),
                                                    !.revision = container_revision(op[p].frame)]]
    BY <1>4 DEF Write
  <2>2. session'[p].revision = container_revision(op[p].frame) /\ session'[p].payload = PayloadOf(op[p].frame)
    BY <1>1, <2>1 DEF VaultSession
  <2> QED BY <1>1, <1>4, <2>1, <2>2 DEF Holds, TypeInv
<1>5. CASE Return(p)
  <2>1. CASE op[p].kind = "open"
    <3>1. session' = [session EXCEPT ![p] = Opened(p)]
      BY <1>5, <2>1 DEF Return
    <3> QED BY <1>1, <2>1, <3>1 DEF Opened, Holds, TypeInv
  <2>2. CASE op[p].kind = "commit"
    <3>1. session' = [session EXCEPT ![p] = Committed(p)]
      BY <1>5, <2>2 DEF Return
    <3>2. session'[p].revision = container_revision(op[p].frame) /\ session'[p].payload = PayloadOf(op[p].frame)
      BY <1>1, <3>1 DEF Committed, VaultSession
    <3> QED BY <1>1, <2>2, <3>1, <3>2 DEF Holds, TypeInv
  <2>3. CASE op[p].kind \notin {"open", "commit"}
    <3>1. session' = [session EXCEPT ![p] = session[p]]
      BY <1>5, <2>3 DEF Return
    <3> QED BY <1>1, <3>1
  <2> QED BY <2>1, <2>2, <2>3
<1> QED
  BY <1>2, <1>3, <1>4, <1>5
  DEF Continue, load_device_credential, LoadDeviceKey, StoreDeviceKey, Write, WriteFails, DeleteOrphan, DeleteDeviceKey, CreateAnchor, DeleteAnchor,
      VerifyRead, VerifyCompare, AdvanceAnchor, KeyringRefuses, Crash

LEMMA EditInit == Init => EditInv
<1> SUFFICES ASSUME Init PROVE EditInv
  OBVIOUS
<1>1. Idle.base = Absent /\ Idle.frame = Absent /\ ~Exists(Absent) /\ NoSession.open = FALSE
  BY DEF Idle, Absent, Exists, NoSession
<1>2. \A f \in Versions : Exists(f) => f = file
  BY <1>1 DEF Init, Versions
<1>3. Exists(file) => Old(file)
  <2>1. CASE file = create_v3_container(Password(1), Payload(2, {}), 2, 2, 1, 1, FALSE)
    <3>1. file.header.nonce = 2
      BY <2>1 DEF create_v3_container, base_header, assemble_frame
    <3>2. fresh = 3
      BY DEF Init
    <3> QED BY <3>1, <3>2 DEF Old
  <2>2. CASE file = Legacy(Password(1), 2, Payload(2, {}))
    BY <2>2 DEF Legacy, IsV3, Old
  <2> QED BY <1>1, <2>1, <2>2 DEF Init, Created
<1>4. Exists(file) => Trusted(file)
  BY <1>2, <1>3, TypeInit DEF Trusted, Agree, TypeInv
<1>5. \A p \in P : ~session[p].open /\ ~Exists(op[p].base)
  BY <1>1 DEF Init
<1> QED BY <1>2, <1>4, <1>5 DEF EditInv

LEMMA EditStep == TypeInv /\ TypeInv' /\ EditInv /\ [Next]_vars => EditInv'
<1> SUFFICES ASSUME TypeInv, TypeInv', EditInv, [Next]_vars PROVE EditInv'
  OBVIOUS
<1>1. CASE UNCHANGED vars
  <2>1. UNCHANGED <<file, copy, op, session, fresh>>
    BY <1>1 DEF vars, stores, budget
  <2> QED BY <2>1 DEF EditInv, Trusted, Old, Versions, Pre
<1>2. CASE Restore
  <2>1. file' = copy /\ UNCHANGED <<copy, op, session, fresh>>
    BY <1>2 DEF Restore
  <2>2. Versions' \subseteq Versions
    BY <2>1 DEF Versions
  <2>3. \A g \in Container : Trusted(g) => Trusted(g)'
    BY <2>1, <2>2 DEF Trusted, Old
  <2>4. \A f \in Versions' : Exists(f) => Trusted(f)'
    BY <2>2, <2>3, VersionTypes DEF EditInv
  <2> QED BY <2>1, <2>3, <2>4 DEF EditInv, Pre
<1>3. ASSUME NEW p \in P, Begin(p) PROVE EditInv'
  <2>1. Began(p)
    BY <1>3, Begins
  <2>2. PICK o \in Operation :
          /\ op' = [op EXCEPT ![p] = o] /\ o.base = file
          /\ Asks(o) \/ Plans(o)
          /\ Carries(p, o.frame) /\ (Asks(o) => o.frame = Absent)
          /\ fresh' \in Nat /\ fresh <= fresh'
          /\ UNCHANGED <<file, session, copy>>
    BY <2>1 DEF Began, stores
  <2>3. op'[p] = o /\ (\A q \in P : q # p => op'[q] = op[q]) /\ o.frame \in Container
    BY <2>2 DEF TypeInv, Operation
  <2>4. PICK f \in Container : f = o.frame
    BY <2>3
  <2>5. Versions' \subseteq Versions \cup {f}
    BY <2>2, <2>3, <2>4 DEF Versions
  <2>6. /\ \A g \in Container : Trusted(g) => Trusted(g)'
        /\ Exists(f) => Trusted(f)'
    BY <2>2, <2>4, <2>5, TrustKept
  <2>7. \A g \in Versions' : Exists(g) => Trusted(g)'
    BY <2>5, <2>6, VersionTypes DEF EditInv
  <2>8. \A q \in P : session'[q].open => \E g \in Container : Trusted(g)' /\ Holds(session'[q], g)
    BY <2>2, <2>6 DEF EditInv
  <2>9. ASSUME Pre(p)', Exists(file)
        PROVE  Exists(f) /\ PayloadOf(file).edits \subseteq PayloadOf(f).edits
    <3>1. Exists(f)
      BY <2>2, <2>3, <2>4, <2>9 DEF Asks, Plans, Pre
    <3>2. CASE session[p].open /\ UpToDate(session[p]) /\ session[p].payload.edits \subseteq PayloadOf(f).edits
      <4>1. PICK g \in Container : Trusted(g) /\ Holds(session[p], g)
        BY <3>2 DEF EditInv
      <4>2. container_revision(file) = container_revision(g) /\ file \in Versions
        BY <3>2, <4>1 DEF UpToDate, Holds, Versions
      <4>3. PayloadOf(file) = PayloadOf(g)
        BY <2>9, <4>1, <4>2 DEF Trusted, Agree
      <4> QED BY <3>1, <3>2, <4>1, <4>3 DEF Holds
    <3>3. CASE PayloadOf(file).edits \subseteq PayloadOf(f).edits
      BY <3>1, <3>3
    <3> QED BY <2>2, <2>4, <2>9, <3>1, <3>2, <3>3 DEF Carries, KeepsEdits
  <2>10. \A q \in P : Pre(q)' /\ Exists(op'[q].base) =>
            Exists(op'[q].frame) /\ PayloadOf(op'[q].base).edits \subseteq PayloadOf(op'[q].frame).edits
    BY <2>2, <2>3, <2>4, <2>9 DEF EditInv, Pre
  <2> QED BY <2>7, <2>8, <2>10 DEF EditInv
<1>4. ASSUME NEW p \in P, Continue(p) PROVE EditInv'
  <2>1. Others(p) /\ Effect(p) /\ UNCHANGED <<fresh, copy>>
    BY <1>4, Continues DEF budget
  <2>2. op'[p] = Idle \/ Kept(p)
    BY <2>1 DEF Effect, Loads, Finds, Cleans, Stores, Replaces, Breaks, Forgets, Anchors, Unanchors, Looks, Compares, Stops, Answers, Ends, Goes
  <2>3. file' = file \/ file' = op[p].frame
    BY <2>1 DEF Effect, Loads, Finds, Cleans, Stores, Replaces, Breaks, Forgets, Anchors, Unanchors, Looks, Compares, Stops, Answers, stores
  <2>4. Idle.base = Absent /\ Idle.frame = Absent /\ ~Exists(Absent) /\ Absent \in Container
    BY DEF Idle, Absent, Exists, Container
  <2>5. Versions' \subseteq Versions \cup {Absent}
    BY <2>1, <2>2, <2>3, <2>4 DEF Versions, Others, Kept
  <2>6. \A g \in Container : Trusted(g) => Trusted(g)'
    BY <2>1, <2>4, <2>5 DEF Trusted, Old
  <2>7. \A g \in Versions' : Exists(g) => Trusted(g)'
    BY <2>4, <2>5, <2>6, VersionTypes DEF EditInv
  <2>8. ASSUME NEW q \in P, session'[q].open
        PROVE  \E g \in Container : Trusted(g)' /\ Holds(session'[q], g)
    <3>1. CASE session'[q] = session[q]
      BY <2>6, <2>8, <3>1 DEF EditInv
    <3>2. CASE q = p /\ \E f \in {op[p].base, op[p].frame} : Exists(f) /\ Holds(session'[p], f)
      <4>1. PICK f \in {op[p].base, op[p].frame} : Exists(f) /\ Holds(session'[p], f)
        BY <3>2
      <4>2. f \in Versions
        BY <4>1 DEF Versions
      <4>3. f \in Container /\ Trusted(f)
        BY <4>1, <4>2, VersionTypes DEF EditInv
      <4> QED BY <2>6, <3>2, <4>1, <4>3
    <3> QED BY <1>4, <2>8, <3>1, <3>2, SessionMoves
  <2>9. Pre(p)' => Kept(p) /\ Pre(p)
    <3>1. AfterWrite(op[p].kind) \notin {"store", "write"} /\ op[p].then \in {"return", "write"}
      BY DEF AfterWrite, TypeInv, Operation
    <3> QED BY <2>1, <3>1, IdleCall
            DEF Effect, Loads, Finds, Cleans, Stores, Replaces, Breaks, Forgets, Anchors, Unanchors, Looks, Compares, Stops,
                Answers, Ends, Goes, At, Pre
  <2>10. \A q \in P : Pre(q)' /\ Exists(op'[q].base) =>
            Exists(op'[q].frame) /\ PayloadOf(op'[q].base).edits \subseteq PayloadOf(op'[q].frame).edits
    BY <2>1, <2>9 DEF EditInv, Pre, Others, Kept
  <2> QED BY <2>7, <2>8, <2>10 DEF EditInv
<1> QED BY <1>1, <1>2, <1>3, <1>4 DEF Next

LEMMA EditsGrow ==
    ASSUME TypeInv, EditInv, [Next]_vars, Exists(file), restores' = restores
    PROVE  Exists(file') /\ PayloadOf(file).edits \subseteq PayloadOf(file').edits
<1>1. CASE file' = file
  BY <1>1
<1>2. CASE Restore
  BY <1>2 DEF Restore, TypeInv
<1>3. ASSUME NEW p \in P, Begin(p) PROVE file' = file
  BY <1>3, Begins DEF Began, stores
<1>4. ASSUME NEW p \in P, Continue(p), file' # file
      PROVE  Exists(file') /\ PayloadOf(file).edits \subseteq PayloadOf(file').edits
  <2>1. At(p, "write") /\ file = op[p].base /\ file' = op[p].frame
    BY <1>4, Continues
    DEF Effect, Loads, Finds, Cleans, Stores, Replaces, Breaks, Forgets, Anchors, Unanchors, Looks, Compares, Stops, Answers, stores
  <2> QED BY <2>1 DEF EditInv, Pre, At
<1> QED BY <1>1, <1>2, <1>3, <1>4 DEF Next, vars, stores

(* No call that changes the vault loses an edit another one saved: not an  *)
(* enrolment, a rotation or an upgrade, and not a save whose replacement   *)
(* raised late (EditsKept).                                                *)
THEOREM NoEditIsLost == Spec => EditsKept
<1>1. Init => TypeInv /\ EditInv
  BY TypeInit, EditInit
<1>2. TypeInv /\ EditInv /\ [Next]_vars => (TypeInv /\ EditInv)'
  BY TypeStep, EditStep
<1>3. TypeInv /\ EditInv /\ [Next]_vars =>
        [Exists(file) /\ restores' = restores =>
          Exists(file') /\ PayloadOf(file).edits \subseteq PayloadOf(file').edits]_vars
  BY EditsGrow
<1> QED BY <1>1, <1>2, <1>3, PTL DEF Spec, EditsKept
=============================================================================
