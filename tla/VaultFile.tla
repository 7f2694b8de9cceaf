---------------------------- MODULE VaultFile ----------------------------
(***************************************************************************)
(* The encrypted vault file with its key slots, the device keys and the    *)
(* rollback anchor in the credential store (v3_crypto.py, crypto.py,       *)
(* device_keyring.py), and the processes that open and change them.        *)
(*                                                                         *)
(* A file is what its bytes say.  Encryption is modelled by what it binds: *)
(* a wrapped data key opens with the credential that wrapped it and only   *)
(* under the header fields that went into its associated data, and so does *)
(* the ciphertext.  Two files are equal exactly when their digests are.    *)
(*                                                                         *)
(* An operation reads the file, builds its successor and replaces it by    *)
(* compare-and-swap (ManagedFile); what it does to the credential store    *)
(* comes before or after that, and other processes and crashes between.    *)
(***************************************************************************)
EXTENDS Naturals, FiniteSets

CONSTANTS
    P,              \* processes: the desktop API, the CLI
    MaxFresh,       \* bound: ids, nonces and keys drawn
    MaxOps,         \* bound: operations started
    MaxRestores,    \* bound: copies of older versions put back
    KeyringFails,   \* the credential store may refuse a call
    LateFailure     \* a replacement may raise after it took effect

ASSUME VaultFileAssumption ==
    /\ MaxFresh \in Nat /\ MaxOps \in Nat /\ MaxRestores \in Nat
    /\ KeyringFails \in BOOLEAN /\ LateFailure \in BOOLEAN

VARIABLES
    file,       \* the container at the vault path
    devices,    \* credential store: slots whose device key it holds
    anchors,    \* credential store: the rollback anchor of each vault id
    op,         \* per process: the operation it runs
    session,    \* per process: the vault it holds open
    fresh,      \* ids, nonces and keys drawn so far
    started,    \* operations started so far
    copy,       \* the version that somebody kept before
    restores,   \* how often it was put back
    enabled,    \* device slots whose owner was told that they work
    withdrawn,  \* credentials whose owner was told that they no longer do
    raised      \* device slots that the file got from a replacement that raised

stores == <<file, devices, anchors>>
ghosts == <<enabled, withdrawn, raised>>
budget == <<fresh, started, copy, restores>>
vars == <<stores, op, session, budget, ghosts>>

(***************************************************************************)
(* Credentials, keys and containers                                        *)
(***************************************************************************)
PasswordSlot == 0
Password(n) == [slot |-> PasswordSlot, secret |-> n]
Device(n) == [slot |-> n, secret |-> n]

Payload(version, edits) == [version |-> version, edits |-> edits]

Absent == [kind |-> "absent"]
Legacy(cred, salt, payload) == [kind |-> "legacy", cred |-> cred, salt |-> salt, payload |-> payload]
IsV3(f) == f.kind = "v3"
Exists(f) == f.kind # "absent"

(* What the parser accepts: a header in range, distinct slots, a password  *)
(* slot among them and at most one device slot.                            *)
V3Header == [vault : Nat, dek : Nat, nonce : Nat, gen : Nat \ {0}, kgen : Nat \ {0},
             schema : {2, 3}, anchored : BOOLEAN]
KeySlot == [cred : [slot : Nat, secret : Nat \ {0}], aad : Nat \X Nat \X Nat \X Nat, dek : Nat]
parse_slots(slots) ==
    /\ slots \subseteq KeySlot
    /\ \E s \in slots : s.cred.slot = PasswordSlot
    /\ \A s, t \in slots : s.cred.slot # PasswordSlot /\ t.cred.slot # PasswordSlot => s = t
parse_vault_container(f) == IsV3(f) => f.header \in V3Header /\ parse_slots(f.slots)

wrap_aad(h, slot) == <<h.vault, h.dek, h.kgen, slot>>
payload_aad(h) == [h EXCEPT !.kgen = 0]   \* every header field but the key generation

wrap_dek(cred, h) == [cred |-> cred, aad |-> wrap_aad(h, cred.slot), dek |-> h.dek]
encrypt(h, payload) == [dek |-> h.dek, aad |-> payload_aad(h), payload |-> payload]

assemble_frame(h, slots, ciphertext) ==
    [kind |-> "v3", header |-> h, slots |-> slots, ciphertext |-> ciphertext]

base_header(vault, n, gen, kgen, schema, anchored) ==
    [vault |-> vault, dek |-> n, nonce |-> n, gen |-> gen, kgen |-> kgen,
     schema |-> schema, anchored |-> anchored]

password_slots(f) == {s \in f.slots : s.cred.slot = PasswordSlot}
device_slots(f) == f.slots \ password_slots(f)
DeviceSlots(f) == IF IsV3(f) THEN {s.cred.slot : s \in device_slots(f)} ELSE {}

(* The data keys that a credential opens: one password slot must be there. *)
unlock_dek(cred, f) ==
    LET Fits(s) == /\ s.cred = cred
                   /\ s.aad = wrap_aad(f.header, cred.slot)
                   /\ cred.slot = PasswordSlot => password_slots(f) = {s}
    IN {s.dek : s \in {t \in f.slots : Fits(t)}}
decrypt_with_dek(f, dek) ==
    /\ f.ciphertext.dek = dek /\ f.ciphertext.aad = payload_aad(f.header)
    /\ f.ciphertext.payload.version = f.header.schema
decrypt_v3_payload(cred, f) ==
    (\E dek \in unlock_dek(cred, f) : decrypt_with_dek(f, dek)) /\ parse_vault_container(f)
decrypt_payload(cred, f) ==
    CASE f.kind = "absent" -> FALSE
      [] f.kind = "legacy" -> f.cred = cred
      [] OTHER -> decrypt_v3_payload(cred, f)
PayloadOf(f) == IF IsV3(f) THEN f.ciphertext.payload ELSE f.payload

(* Identity of the loaded content: enrolling a device does not change it.  *)
container_revision(f) ==
    CASE f.kind = "absent" -> <<>>
      [] f.kind = "legacy" -> <<1, f>>
      [] OTHER -> <<3, f.header.vault, f.header.dek, f.header.gen, f.header.nonce>>

(***************************************************************************)
(* The successors of a container, each built from fresh material n         *)
(***************************************************************************)
create_v3_container(cred, payload, vault, n, gen, kgen, anchored) ==
    LET h == base_header(vault, n, gen, kgen, payload.version, anchored)
    IN assemble_frame(h, {wrap_dek(cred, h)}, encrypt(h, payload))

update_v3_container(f, payload, n) ==
    LET h == [f.header EXCEPT !.gen = @ + 1, !.schema = payload.version, !.nonce = n]
    IN assemble_frame(h, f.slots, encrypt(h, payload))

update_v3_extensions_KeepsGeneration(f, anchored, n) ==   \* mutant: the marker is no new generation
    LET h == [f.header EXCEPT !.nonce = n, !.anchored = anchored]
    IN assemble_frame(h, f.slots, encrypt(h, PayloadOf(f)))
update_v3_extensions(f, anchored, n) ==
    LET h == [f.header EXCEPT !.gen = @ + 1, !.nonce = n, !.anchored = anchored]
    IN assemble_frame(h, f.slots, encrypt(h, PayloadOf(f)))

NextKeys(f) == [f.header EXCEPT !.kgen = @ + 1]
add_v3_device_slot(cred, device, f) ==
    LET h == NextKeys(f)
    IN assemble_frame(h, {wrap_dek(cred, h), wrap_dek(device, h)}, f.ciphertext)
remove_v3_device_slot(cred, f) ==
    LET h == NextKeys(f) IN assemble_frame(h, {wrap_dek(cred, h)}, f.ciphertext)
rotate_v3_password(new, f) ==
    LET h == NextKeys(f) IN assemble_frame(h, {wrap_dek(new, h)}, f.ciphertext)
rotate_v3_dek(cred, f, n) ==
    create_v3_container(cred, PayloadOf(f), f.header.vault, n,
                        f.header.gen + 1, f.header.kgen + 1, f.header.anchored)

anchor_for(f) ==
    [vault |-> f.header.vault, gen |-> f.header.gen, kgen |-> f.header.kgen, file_sha256 |-> f]
AnchorOf(f) == {a \in anchors : a.vault = f.header.vault}
SetAnchor(a) == anchors' = {b \in anchors : b.vault # a.vault} \cup {a}

(* What verify_and_advance_rollback_anchor says of a file and an anchor.   *)
Older(c, a) == c.gen < a.gen \/ c.kgen < a.kgen
SameGenerations(c, a) == c.gen = a.gen /\ c.kgen = a.kgen
Rollback(c, a) == Older(c, a) \/ (SameGenerations(c, a) /\ c.file_sha256 # a.file_sha256)

(***************************************************************************)
(* Operations                                                              *)
(***************************************************************************)
Nobody == [slot |-> PasswordSlot, secret |-> 0]   \* secrets are drawn from 1 on
Idle == [pc |-> "idle", kind |-> "none", cred |-> Nobody, new |-> Nobody, base |-> Absent,
         frame |-> Absent, seen |-> Absent, then |-> "return"]
NoSession == [open |-> FALSE, cred |-> Nobody, revision |-> <<>>, payload |-> Payload(2, {})]

(* No vault yet, or one that its owner made before, of either format.      *)
Created ==
    {Absent, Legacy(Password(1), 2, Payload(2, {})),
     create_v3_container(Password(1), Payload(2, {}), 2, 2, 1, 1, FALSE)}

Init ==
    /\ file \in Created /\ devices = {} /\ anchors = {}
    /\ op = [p \in P |-> Idle]
    /\ session = [p \in P |-> NoSession]
    /\ fresh = 3 /\ started = 0 /\ copy = file /\ restores = 0
    /\ enabled = {} /\ withdrawn = {} /\ raised = {}

At(p, pc) == op[p].pc = pc
Goto(p, pc) == op' = [op EXCEPT ![p].pc = pc]
Fail(p) == op' = [op EXCEPT ![p] = Idle]
Draw(k) == fresh + k =< MaxFresh + 1 /\ fresh' = fresh + k

(* The call reads `file` now, passes its checks and goes on at pc.         *)
Start(p, kind, cred, new, frame, pc, then) ==
    /\ At(p, "idle") /\ started < MaxOps
    /\ op' = [op EXCEPT ![p] = [pc |-> pc, kind |-> kind, cred |-> cred, new |-> new, base |-> file,
                                frame |-> frame, seen |-> Absent, then |-> then]]
    /\ started' = started + 1
    /\ UNCHANGED <<stores, session, copy, restores, ghosts>>

(* Credentials that somebody may present: those that open the file.        *)
Secrets == 1 .. (fresh - 1)
Opening(cred) == decrypt_payload(cred, file) /\ (cred.slot # PasswordSlot => cred.slot \in devices)
Credentials == {Password(n) : n \in Secrets} \cup {Device(n) : n \in devices}

(* create_v3_file, and LocalVault.create for a vault of the old format.    *)
create_v3_file(p) ==
    /\ file = Absent /\ Draw(2)
    /\ Start(p, "create", Password(fresh), Password(fresh),
             create_v3_container(Password(fresh), Payload(2, {}), fresh + 1, fresh + 1, 1, 1, FALSE),
             "write", "return")
create_legacy(p) ==
    /\ file = Absent /\ Draw(2)
    /\ Start(p, "create", Password(fresh), Password(fresh),
             Legacy(Password(fresh), fresh + 1, Payload(2, {})), "write", "return")

(* LocalVault.__init__: read_encrypted_snapshot keeps the first read and   *)
(* lets the anchor check read the file again.                              *)
read_encrypted_snapshot(p) ==
    \E cred \in Credentials :
        /\ Opening(cred)
        /\ Start(p, "open", cred, cred, Absent,
                 IF IsV3(file) /\ file.header.anchored THEN "verify" ELSE "return", "return")
        /\ UNCHANGED fresh

CanUpdate(s) == decrypt_payload(s.cred, file)
UpToDate(s) == container_revision(file) = s.revision

(* A session saves its payload with one more edit.                         *)
write_encrypted_file(p) ==
    LET s == session[p]
        payload == Payload(s.payload.version, s.payload.edits \cup {fresh})
    IN /\ s.open /\ CanUpdate(s) /\ UpToDate(s) /\ Draw(1)
       /\ IsV3(file) => payload.version >= file.header.schema
       /\ Start(p, "commit", s.cred, s.cred,
                IF IsV3(file) THEN update_v3_container(file, payload, fresh)
                              ELSE Legacy(s.cred, fresh, payload),
                "write", "return")

(* LocalVault.upgrade_payload opens the file anew and compares it with     *)
(* what the session holds before it builds the framed vault.               *)
upgrade_payload(p) ==
    LET s == session[p]
        payload == Payload(3, s.payload.edits)
    IN /\ s.open /\ CanUpdate(s) /\ s.payload.version = 2 /\ PayloadOf(file) = s.payload
       /\ IsV3(file) \/ s.cred.slot = PasswordSlot
       /\ Draw(1)
       /\ Start(p, "upgrade", s.cred, s.cred,
                IF IsV3(file) THEN update_v3_container(file, payload, fresh)
                ELSE create_v3_container(s.cred, payload, fresh, fresh, 1, 1, FALSE),
                IF IsV3(file) /\ file.header.anchored THEN "verify" ELSE "write", "write")

ByPassword(cred) == IsV3(file) /\ cred.slot = PasswordSlot /\ Opening(cred)

(* The device key is stored before the file that needs it.  A file that    *)
(* has a slot is left as it is: its key is loaded, whoever stored it, and  *)
(* the password is not looked at.                                          *)
enable_device_unlock(p) ==
    \/ \E cred \in Credentials :
          /\ ByPassword(cred) /\ device_slots(file) = {} /\ Draw(1)
          /\ Start(p, "enable", cred, Device(fresh),
                   add_v3_device_slot(cred, Device(fresh), file), "store", "return")
    \/ \E s \in IF IsV3(file) THEN device_slots(file) ELSE {} :
          /\ Start(p, "find", s.cred, s.cred, Absent, "load", "return")
          /\ UNCHANGED fresh
disable_device_unlock(p) ==
    \E cred \in Credentials, slot \in DeviceSlots(file) :
        /\ ByPassword(cred)
        /\ Start(p, "disable", cred, Device(slot), remove_v3_device_slot(cred, file), "write", "return")
        /\ UNCHANGED fresh
rotate_v3_password_file(p) ==
    \E cred \in Credentials :
        /\ ByPassword(cred) /\ device_slots(file) = {} /\ Draw(1)
        /\ Start(p, "rotate", cred, Password(fresh), rotate_v3_password(Password(fresh), file),
                 "write", "return")
rotate_v3_dek_file(p) ==
    \E cred \in Credentials :
        /\ ByPassword(cred) /\ device_slots(file) = {} /\ Draw(1)
        /\ Start(p, "rekey", cred, cred, rotate_v3_dek(cred, file, fresh), "write", "return")

enable_rollback_anchor(p) ==
    \E cred \in Credentials :
        /\ IsV3(file) /\ Opening(cred) /\ Draw(1)
        /\ Start(p, "anchor", cred, cred, update_v3_extensions(file, TRUE, fresh), "write", "return")
disable_rollback_anchor(p) ==
    \E cred \in Credentials :
        /\ IsV3(file) /\ Opening(cred) /\ Draw(1)
        /\ Start(p, "unanchor", cred, cred, update_v3_extensions(file, FALSE, fresh), "write", "return")
verify_rollback_anchor(p) ==
    \E cred \in Credentials :
        /\ IsV3(file) /\ Opening(cred)
        /\ Start(p, "check", cred, cred, Absent, "verify", "return")
        /\ UNCHANGED fresh

(***************************************************************************)
(* The steps of a running operation                                        *)
(***************************************************************************)
Step(p, pc) == At(p, pc) /\ UNCHANGED budget

StoreDeviceKey_Later(p) ==   \* mutant: the key is stored once the file has its slot
    /\ Step(p, "store")
    /\ Goto(p, "write")
    /\ UNCHANGED <<file, devices, anchors, session, ghosts>>
StoreDeviceKey(p) ==
    /\ Step(p, "store")
    /\ devices' = devices \cup {op[p].new.slot}
    /\ Goto(p, "write")
    /\ UNCHANGED <<file, anchors, session, ghosts>>

(* load_device_credential reads the file again, then the credential store. *)
(* The key must open the file that was read first, so a file that has      *)
(* another slot or none by now ends the call.                              *)
load_device_credential(p) ==
    /\ Step(p, "load")
    /\ IF op[p].new.slot \in DeviceSlots(file) THEN Goto(p, "key") ELSE Fail(p)
    /\ UNCHANGED <<stores, session, ghosts>>
LoadDeviceKey(p) ==
    /\ Step(p, "key")
    /\ LET slot == op[p].new.slot
       IN IF slot \in devices /\ decrypt_v3_payload(Device(slot), op[p].base)
          THEN Goto(p, "return") ELSE Fail(p)
    /\ UNCHANGED <<stores, session, ghosts>>

(* What atomic_write_bytes compares, and where each operation goes on.     *)
Current_OfContent(p) ==   \* mutant: the revision is compared, not the digest
    container_revision(file) = container_revision(op[p].base)
Current(p) == file = op[p].base
AfterWrite(kind) ==
    CASE kind = "create" -> "return"
      [] kind = "disable" -> "forget"
      [] kind = "anchor" -> "setAnchor"
      [] kind = "unanchor" -> "dropAnchor"
      [] OTHER -> "verify"

Write(p) ==
    /\ Step(p, "write") /\ Current(p)
    /\ file' = op[p].frame
    /\ op' = [op EXCEPT ![p].pc = AfterWrite(op[p].kind), ![p].then = "return"]
    /\ session' = IF op[p].kind = "upgrade"
                  THEN [session EXCEPT ![p].payload = PayloadOf(op[p].frame),
                                       ![p].revision = container_revision(op[p].frame)]
                  ELSE session
    /\ UNCHANGED <<devices, anchors, ghosts>>

(* The replacement raises, before or after it took effect.  Enabling a     *)
(* device then deletes the key it had stored, in a step of its own: until  *)
(* then the slot can be used and found by others.                          *)
WriteFails(p) ==
    /\ Step(p, "write")
    /\ \/ UNCHANGED <<file, raised>>
       \/ /\ LateFailure /\ Current(p)
          /\ file' = op[p].frame
          /\ raised' = IF op[p].kind = "enable" THEN raised \cup {op[p].new.slot} ELSE raised
    /\ IF op[p].kind = "enable" THEN Goto(p, "cleanup") ELSE Fail(p)
    /\ UNCHANGED <<devices, anchors, session, enabled, withdrawn>>
DeleteOrphan(p) ==
    /\ Step(p, "cleanup")
    /\ devices' = devices \ {op[p].new.slot}
    /\ Fail(p)
    /\ UNCHANGED <<file, anchors, session, ghosts>>

(* disable_device_unlock deletes the key once the slot is gone; a failure  *)
(* is reported and ends the operation.                                     *)
DeleteDeviceKey(p) ==
    /\ Step(p, "forget")
    /\ devices' = devices \ {op[p].new.slot}
    /\ IF op[p].new.slot \in devices THEN Goto(p, "verify") ELSE Fail(p)
    /\ UNCHANGED <<file, anchors, session, ghosts>>
CreateAnchor(p) ==
    /\ Step(p, "setAnchor")
    /\ SetAnchor(anchor_for(op[p].frame))
    /\ Goto(p, "return")
    /\ UNCHANGED <<file, devices, session, ghosts>>
DeleteAnchor(p) ==
    /\ Step(p, "dropAnchor")
    /\ anchors' = anchors \ AnchorOf(op[p].base)
    /\ IF AnchorOf(op[p].base) = {} THEN Fail(p) ELSE Goto(p, "return")
    /\ UNCHANGED <<file, devices, session, ghosts>>

(* verify_and_advance_rollback_anchor reads the file, then the anchor,     *)
(* then perhaps writes the anchor, and holds nothing in between.           *)
Checking(p) == IF op[p].kind \in {"enable", "rotate"} THEN op[p].new ELSE op[p].cred
VerifyRead(p) ==
    /\ Step(p, "verify")
    /\ CASE ~Exists(file) -> Fail(p)
         [] IsV3(file) /\ file.header.anchored ->
              IF decrypt_payload(Checking(p), file)
              THEN op' = [op EXCEPT ![p].pc = "compare", ![p].seen = file]
              ELSE Fail(p)
         [] OTHER -> Goto(p, op[p].then)
    /\ UNCHANGED <<stores, session, ghosts>>
VerifyCompare(p) ==
    LET current == anchor_for(op[p].seen) IN
    /\ Step(p, "compare")
    /\ \/ /\ KeyringFails \/ AnchorOf(op[p].seen) = {}
          /\ Goto(p, op[p].then)
       \/ \E stored \in AnchorOf(op[p].seen) :
             CASE Rollback(current, stored) -> Fail(p)
               [] SameGenerations(current, stored) -> Goto(p, op[p].then)
               [] OTHER -> Goto(p, "advance")
    /\ UNCHANGED <<stores, session, ghosts>>
AdvanceAnchor(p) ==
    /\ Step(p, "advance")
    /\ SetAnchor(anchor_for(op[p].seen))
    /\ Goto(p, op[p].then)
    /\ UNCHANGED <<file, devices, session, ghosts>>

(* The credential store refuses the call, and the operation raises.        *)
KeyringRefuses(p) ==
    /\ KeyringFails
    /\ \E pc \in {"store", "key", "cleanup", "forget", "setAnchor", "dropAnchor", "advance"} : Step(p, pc)
    /\ Fail(p)
    /\ UNCHANGED <<stores, session, ghosts>>

Opened(p) == [open |-> TRUE, cred |-> op[p].cred, revision |-> container_revision(op[p].base),
              payload |-> PayloadOf(op[p].base)]
Committed(p) == [session[p] EXCEPT !.revision = container_revision(op[p].frame),
                                   !.payload = PayloadOf(op[p].frame)]
(* The caller is told that it succeeded.                                   *)
Return(p) ==
    LET kind == op[p].kind IN
    /\ Step(p, "return")
    /\ session' = [session EXCEPT ![p] = CASE kind = "open" -> Opened(p)
                                           [] kind = "commit" -> Committed(p)
                                           [] OTHER -> @]
    /\ enabled' = IF kind \in {"enable", "find"} THEN enabled \cup {op[p].new.slot} ELSE enabled
    /\ withdrawn' = withdrawn \cup (CASE kind = "rotate" -> {op[p].cred}
                                      [] kind = "disable" -> {op[p].new}
                                      [] OTHER -> {})
    /\ Fail(p)
    /\ UNCHANGED <<stores, raised>>

(* The process dies.                                                       *)
Crash(p) ==
    /\ ~At(p, "idle")
    /\ op' = [op EXCEPT ![p] = Idle]
    /\ session' = [session EXCEPT ![p] = NoSession]
    /\ UNCHANGED <<stores, budget, ghosts>>

(* Somebody puts an older copy back as a whole (restore_backup).            *)
Restore ==
    /\ restores < MaxRestores /\ Exists(copy) /\ file # copy
    /\ file' = copy /\ restores' = restores + 1
    /\ UNCHANGED <<devices, anchors, op, session, fresh, started, copy, ghosts>>

init(p) == create_legacy(p) \/ create_v3_file(p)
v3_group(p) ==
    \/ rotate_v3_password_file(p) \/ rotate_v3_dek_file(p)
    \/ enable_device_unlock(p) \/ disable_device_unlock(p)
    \/ enable_rollback_anchor(p) \/ disable_rollback_anchor(p) \/ verify_rollback_anchor(p)
Begin(p) ==
    \/ init(p) \/ v3_group(p)
    \/ read_encrypted_snapshot(p) \/ write_encrypted_file(p) \/ upgrade_payload(p)
Continue(p) ==
    \/ load_device_credential(p) \/ LoadDeviceKey(p)
    \/ StoreDeviceKey(p) \/ Write(p) \/ WriteFails(p) \/ DeleteOrphan(p) \/ DeleteDeviceKey(p)
    \/ CreateAnchor(p) \/ DeleteAnchor(p)
    \/ VerifyRead(p) \/ VerifyCompare(p) \/ AdvanceAnchor(p)
    \/ KeyringRefuses(p) \/ Return(p) \/ Crash(p)
Next == Restore \/ \E p \in P : Begin(p) \/ Continue(p)

Spec == Init /\ [][Next]_vars

(***************************************************************************)
(* Properties                                                              *)
(***************************************************************************)
Restored == restores > 0

(* An edit that is in the vault file stays there, whoever saves, enrols,   *)
(* rotates or upgrades concurrently, unless an older copy is put back: no  *)
(* frame replaces a version it was not built from.                         *)
EditsKept ==
    [][Exists(file) /\ restores' = restores =>
          Exists(file') /\ PayloadOf(file).edits \subseteq PayloadOf(file').edits]_vars

(* No crash, race or refused call leaves an anchor that is ahead of the    *)
(* vault file or contradicts it: a single process that opens the vault is  *)
(* never told of a rollback that nobody made.                              *)
NoFalseAlarm ==
    IsV3(file) /\ ~Restored =>
        \A a \in AnchorOf(file) : ~Rollback(anchor_for(file), a)

(* A device slot whose owner was told that it works has its key in the     *)
(* credential store as long as the vault file has the slot, whether the    *)
(* call created the slot or found it (enable_device_unlock), and whoever   *)
(* enables, disables, rotates or dies meanwhile.  The exception is a slot  *)
(* whose own call was told that the replacement failed although it took    *)
(* effect: that call deletes the key of a slot that another one may have   *)
(* found and reported in between (device_keyring.py:250).                  *)
EnabledOpens == ~Restored => (enabled \cap DeviceSlots(file)) \ raised \subseteq devices

(* Once the owner was told that a password was replaced or a device        *)
(* removed, the vault file never opens with it again, whatever another     *)
(* process that still held it was about to write.                          *)
WithdrawnIsLockedOut == ~Restored => \A cred \in withdrawn : ~decrypt_payload(cred, file)
=============================================================================
