--------------------------- MODULE PasskeyRequests ---------------------------
(***************************************************************************)
(* Passkey registrations and sign-ins that a browser asks for and the      *)
(* owner approves on the desktop with the master password                  *)
(* (src/src/vault_unified/passkey_requests.py).                            *)
(*                                                                         *)
(* The browser begins, polls and cancels; the desktop approves or rejects; *)
(* the session manager clears the requests of a session it removes.  An    *)
(* approval verifies the password without any lock and commits under       *)
(* three: session, requests, vault.  Between its steps the request may be  *)
(* cancelled, rejected or expire, the session may be locked and the vault  *)
(* edited; a cancellation may overtake the request it cancels.             *)
(*                                                                         *)
(* A call of begin is a pair <<identity, number>>; so is the request it    *)
(* files, which is the object the code compares by identity.  Requests and *)
(* cancellations time out at any moment, cancellations not before the      *)
(* begin they overtook has run.  The states excluded, fallback and         *)
(* cancelled of a request are one, "ended".  Sessions are of different     *)
(* vaults, and a look-up that meets an idle session removes it: it is      *)
(* SweepIdle, and the look-up comes after it.                              *)
(***************************************************************************)
EXTENDS SessionManager

CONSTANTS
    None,
    Browsers,       \* browser tokens, each paired with one session
    Ids,            \* request identities that browsers choose
    Approvals,      \* threads that serve an approval
    MaxRequests,    \* requests at a time (4)
    MaxAttempts,    \* wrong passwords per request (3)
    MaxBegins,      \* bound: calls of begin per identity
    MaxEdits        \* bound: edits of the vault by its owner

ASSUME PasskeyAssumption ==
    /\ None \notin Tokens \cup Ids
    /\ MaxRequests \in Nat /\ MaxAttempts \in Nat \ {0} /\ MaxBegins \in Nat /\ MaxEdits \in Nat

VARIABLES
    paired,     \* per browser token: its session, or None
    used,       \* browser tokens handed out so far
    begun,      \* per identity: calls of begin
    call,       \* per identity: the call of begin under way
    requests,   \* per identity: the filed request, or None
    cancelled,  \* cancellations remembered: <<browser, identity>>
    poll,       \* per browser: the request whose status it waits for, or None
    approval,   \* per approval thread: its step and what it holds
    local,      \* per session, its vault: generation, the owner's edits, stored credentials
    edits,      \* history: edits the owner made
    approved,   \* history: approvals given, per call of begin
    withdrawn   \* history: calls of begin the browser cancelled

requestVars == <<paired, used, begun, call, requests, cancelled, poll, approval, local, edits, approved, withdrawn>>
vars == <<sessionVars, requestVars>>

Calls == Ids \X (1..MaxBegins)
Operations == {"create", "get"}
Call == [browser : Browsers, scope : Tokens, operation : Operations]
Request == [browser : Browsers, scope : Tokens, operation : Operations, number : 1..MaxBegins,
            state : {"pending", "verifying", "complete", "ended"}, attempts : Nat]
ASSUME RequestAssumption == None \notin Request
Local == [generation : Nat, edits : SUBSET (1..MaxEdits), credentials : SUBSET Calls]
Idle == [step |-> "idle", id |-> None, number |-> 0, scope |-> None, browser |-> None, snapshot |-> 0]

Held(a) == approval[a].step # "idle"
Holds(a, i) == approval[a].id = i /\ requests[i] # None /\ requests[i].number = approval[a].number

TypeOK ==
    /\ SessionType
    /\ paired \in [Browsers -> Tokens \cup {None}] /\ used \subseteq Browsers
    /\ begun \in [Ids -> 0..MaxBegins]
    /\ call \in [Ids -> Call \cup {None}] /\ requests \in [Ids -> Request \cup {None}]
    /\ cancelled \subseteq Browsers \X Ids
    /\ poll \in [Browsers -> Calls \cup {None}]
    /\ \A a \in Approvals : approval[a].step \in {"idle", "take", "snapshot", "verify", "browser", "commit", "release"}
    /\ local \in [Tokens -> Local]
    /\ edits \in 0..MaxEdits /\ approved \in [Calls -> Nat] /\ withdrawn \subseteq Calls
    /\ Cardinality({i \in Ids : requests[i] # None}) <= MaxRequests

Init ==
    /\ SessionInit
    /\ paired = [b \in Browsers |-> None] /\ used = {}
    /\ begun = [i \in Ids |-> 0] /\ call = [i \in Ids |-> None] /\ requests = [i \in Ids |-> None]
    /\ cancelled = {} /\ poll = [b \in Browsers |-> None]
    /\ approval = [a \in Approvals |-> Idle]
    /\ local = [t \in Tokens |-> [generation |-> 0, edits |-> {}, credentials |-> {}]]
    /\ edits = 0 /\ approved = [c \in Calls |-> 0] /\ withdrawn = {}

-----------------------------------------------------------------------------
(* Browser tokens (browser_pairing.py): useless once the session is gone.  *)
VaultFor(b) == paired[b] # None /\ session[paired[b]] = "live"
Unswept(t) == session[t] = "idle"

Pair(b, t) ==
    /\ b \notin used /\ session[t] = "live"
    /\ paired' = [paired EXCEPT ![b] = t]
    /\ used' = used \cup {b}
    /\ UNCHANGED <<sessionVars, begun, call, requests, cancelled, poll, approval, local, edits, approved, withdrawn>>

Disconnect(b) ==
    /\ paired[b] # None
    /\ paired' = [paired EXCEPT ![b] = None]
    /\ UNCHANGED <<sessionVars, used, begun, call, requests, cancelled, poll, approval, local, edits, approved, withdrawn>>

-----------------------------------------------------------------------------
(* begin: look up the session and what there is to choose; then file.      *)
Begin(i, b, op) ==
    /\ call[i] = None /\ begun[i] < MaxBegins /\ VaultFor(b)
    /\ op = "get" => local[paired[b]].credentials # {}
    /\ begun' = [begun EXCEPT ![i] = @ + 1]
    /\ call' = [call EXCEPT ![i] = [browser |-> b, scope |-> paired[b], operation |-> op]]
    /\ UNCHANGED <<sessionVars, paired, used, requests, cancelled, poll, approval, local, edits, approved, withdrawn>>

Waiting == {i \in Ids : requests[i] # None}

Admitted(i) ==
    /\ <<call[i].browser, i>> \notin cancelled
    /\ requests[i] = None                       \* a retry meets the request it repeats
    /\ Cardinality(Waiting) < MaxRequests

File(i) ==
    /\ call[i] # None
    /\ requests' = IF Admitted(i)
                   THEN [requests EXCEPT ![i] =
                            [browser |-> call[i].browser, scope |-> call[i].scope, operation |-> call[i].operation,
                             number |-> begun[i], state |-> "pending", attempts |-> 0]]
                   ELSE requests
    /\ call' = [call EXCEPT ![i] = None]
    /\ UNCHANGED <<sessionVars, paired, used, begun, cancelled, poll, approval, local, edits, approved, withdrawn>>

(* The browser's cancellation, and the desktop's when it lists a request   *)
(* whose browser is gone.                                                  *)
CancelFor(i, b) ==
    /\ cancelled' = cancelled \cup {<<b, i>>}
    /\ requests' = IF requests[i] # None /\ requests[i].browser = b THEN [requests EXCEPT ![i] = None] ELSE requests
    /\ withdrawn' = withdrawn
          \cup {c \in {<<i, begun[i]>>} : call[i] # None /\ call[i].browser = b}
          \cup {c \in Calls : requests[i] # None /\ requests[i].browser = b /\ c = <<i, requests[i].number>>}
    /\ UNCHANGED <<sessionVars, paired, used, begun, call, poll, approval, local, edits, approved>>

Cancel(i, b) == VaultFor(b) /\ CancelFor(i, b)
CancelLost(i) ==
    /\ requests[i] # None /\ requests[i].state \in {"pending", "verifying"}
    /\ session[requests[i].scope] = "live" /\ ~VaultFor(requests[i].browser)
    /\ CancelFor(i, requests[i].browser)

Expire(i) ==
    /\ requests[i] # None
    /\ requests' = [requests EXCEPT ![i] = None]
    /\ UNCHANGED <<sessionVars, paired, used, begun, call, cancelled, poll, approval, local, edits, approved, withdrawn>>

ForgetCancel(i) ==
    /\ call[i] = None /\ \E b \in Browsers : <<b, i>> \in cancelled
    /\ cancelled' = {c \in cancelled : c[2] # i}
    /\ UNCHANGED <<sessionVars, paired, used, begun, call, requests, poll, approval, local, edits, approved, withdrawn>>

-----------------------------------------------------------------------------
(* status: check the browser and its session; then read under the guard.   *)
StatusCheck(i, b) ==
    /\ poll[b] = None /\ requests[i] # None /\ requests[i].browser = b
    /\ VaultFor(b) /\ session[requests[i].scope] = "live"
    /\ poll' = [poll EXCEPT ![b] = <<i, requests[i].number>>]
    /\ UNCHANGED <<sessionVars, paired, used, begun, call, requests, cancelled, approval, local, edits, approved, withdrawn>>

Current(c) == requests[c[1]] # None /\ requests[c[1]].number = c[2]

(* The answer carries the credential when the request is still there and complete. *)
Delivered(b) == poll[b] # None /\ Current(poll[b]) /\ requests[poll[b][1]].state = "complete"

StatusReturn(b) ==
    /\ poll[b] # None
    /\ poll' = [poll EXCEPT ![b] = None]
    /\ UNCHANGED <<sessionVars, paired, used, begun, call, requests, cancelled, approval, local, edits, approved, withdrawn>>

-----------------------------------------------------------------------------
(* approve: check, take, snapshot, verify, check the browser, commit; the  *)
(* finally clause gives an undecided request back.                         *)
Goes(a, step) == approval' = [approval EXCEPT ![a].step = step]

Approve(a, t, i) ==
    /\ ~Held(a) /\ session[t] = "live"
    /\ requests[i] # None /\ requests[i].scope = t /\ VaultFor(requests[i].browser)
    /\ approval' = [approval EXCEPT ![a] =
          [step |-> "take", id |-> i, number |-> requests[i].number, scope |-> t,
           browser |-> requests[i].browser, snapshot |-> 0]]
    /\ UNCHANGED <<sessionVars, paired, used, begun, call, requests, cancelled, poll, local, edits, approved, withdrawn>>

(* Mutant: the state is not asked again under the guard.                   *)
Takes_AnyState(a) == Holds(a, approval[a].id)

Takes(a) == Holds(a, approval[a].id) /\ requests[approval[a].id].state = "pending"

Take(a) ==
    /\ approval[a].step = "take"
    /\ IF Takes(a)
       THEN requests' = [requests EXCEPT ![approval[a].id].state = "verifying"] /\ Goes(a, "snapshot")
       ELSE requests' = requests /\ approval' = [approval EXCEPT ![a] = Idle]
    /\ UNCHANGED <<sessionVars, paired, used, begun, call, cancelled, poll, local, edits, approved, withdrawn>>

Snapshot(a) ==
    /\ approval[a].step = "snapshot"
    /\ approval' = [approval EXCEPT ![a].step = "verify", ![a].snapshot = local[approval[a].scope]]
    /\ UNCHANGED <<sessionVars, paired, used, begun, call, requests, cancelled, poll, local, edits, approved, withdrawn>>

VerifyWrong(a) ==
    /\ approval[a].step = "verify"
    /\ LET i == approval[a].id IN
       requests' = IF Holds(a, i)
                   THEN [requests EXCEPT ![i].attempts = @ + 1,
                                         ![i].state = IF requests[i].attempts + 1 >= MaxAttempts THEN "ended" ELSE @]
                   ELSE requests
    /\ Goes(a, "release")
    /\ UNCHANGED <<sessionVars, paired, used, begun, call, cancelled, poll, local, edits, approved, withdrawn>>

(* The file on disk is the vault's last generation.                        *)
VerifyRight(a) ==
    /\ approval[a].step = "verify"
    /\ Goes(a, IF local[approval[a].scope].generation = approval[a].snapshot.generation THEN "browser" ELSE "release")
    /\ UNCHANGED <<sessionVars, paired, used, begun, call, requests, cancelled, poll, local, edits, approved, withdrawn>>

BrowserCheck(a) ==
    /\ approval[a].step = "browser" /\ ~Unswept(approval[a].scope)
    /\ Goes(a, IF VaultFor(approval[a].browser) THEN "commit" ELSE "release")
    /\ UNCHANGED <<sessionVars, paired, used, begun, call, requests, cancelled, poll, local, edits, approved, withdrawn>>

(* Mutant: the request is not looked up again before the commit.           *)
Committable_Captured(a) ==
    /\ session[approval[a].scope] = "live"
    /\ local[approval[a].scope].generation = approval[a].snapshot.generation

(* Mutant: nothing asks for the vault's generation again before the commit.*)
Committable_AnyGeneration(a) ==
    /\ session[approval[a].scope] = "live"
    /\ Holds(a, approval[a].id) /\ requests[approval[a].id].state = "verifying"

Committable(a) ==
    /\ session[approval[a].scope] = "live"
    /\ Holds(a, approval[a].id) /\ requests[approval[a].id].state = "verifying"
    /\ local[approval[a].scope].generation = approval[a].snapshot.generation

Decide(a, state) ==
    requests' = [i \in Ids |-> IF Holds(a, i) THEN [requests[i] EXCEPT !.state = state] ELSE requests[i]]
Counted(a) == approved' = [approved EXCEPT ![<<approval[a].id, approval[a].number>>] = @ + 1]

(* Under the guards of sessions, requests and vault.  A failed save, an    *)
(* unavailable choice and a failed check all leave through the finally.    *)
Refused(a) ==
    /\ approval[a].step = "commit" /\ ~Unswept(approval[a].scope)
    /\ Goes(a, "release")
    /\ UNCHANGED <<sessionVars, paired, used, begun, call, requests, cancelled, poll, local, edits, approved, withdrawn>>

Operation(a) == LET r == requests[approval[a].id] IN IF r = None THEN "create" ELSE r.operation

Exclude(a) ==
    /\ approval[a].step = "commit" /\ Committable(a) /\ Operation(a) = "create"
    /\ local[approval[a].scope].credentials # {}
    /\ Decide(a, "ended") /\ Goes(a, "release")
    /\ UNCHANGED <<sessionVars, paired, used, begun, call, cancelled, poll, local, edits, approved, withdrawn>>

(* The whole payload is written: the snapshot and the new credential.      *)
CommitCreate(a) ==
    /\ approval[a].step = "commit" /\ Committable(a) /\ Operation(a) = "create"
    /\ local' = [local EXCEPT ![approval[a].scope] =
          [generation |-> @.generation + 1, edits |-> approval[a].snapshot.edits,
           credentials |-> approval[a].snapshot.credentials \cup {<<approval[a].id, approval[a].number>>}]]
    /\ Decide(a, "complete") /\ Counted(a) /\ Goes(a, "release")
    /\ UNCHANGED <<sessionVars, paired, used, begun, call, cancelled, poll, edits, withdrawn>>

CommitGet(a) ==
    /\ approval[a].step = "commit" /\ Committable(a) /\ Operation(a) = "get"
    /\ local[approval[a].scope].credentials # {}
    /\ Decide(a, "complete") /\ Counted(a) /\ Goes(a, "release")
    /\ UNCHANGED <<sessionVars, paired, used, begun, call, cancelled, poll, local, edits, withdrawn>>

(* Mutant: the finally clause gives the request back whatever it is.       *)
Release_AnyState(a) ==
    /\ approval[a].step = "release"
    /\ Decide(a, "pending")
    /\ approval' = [approval EXCEPT ![a] = Idle]
    /\ UNCHANGED <<sessionVars, paired, used, begun, call, cancelled, poll, local, edits, approved, withdrawn>>

Release(a) ==
    /\ approval[a].step = "release"
    /\ LET i == approval[a].id IN
       requests' = IF Holds(a, i) /\ requests[i].state = "verifying"
                   THEN [requests EXCEPT ![i].state = "pending"] ELSE requests
    /\ approval' = [approval EXCEPT ![a] = Idle]
    /\ UNCHANGED <<sessionVars, paired, used, begun, call, cancelled, poll, local, edits, approved, withdrawn>>

Reject(t, i) ==
    /\ session[t] = "live" /\ requests[i] # None /\ requests[i].scope = t
    /\ requests[i].state # "complete"
    /\ requests' = [requests EXCEPT ![i].state = "ended"]
    /\ UNCHANGED <<sessionVars, paired, used, begun, call, cancelled, poll, approval, local, edits, approved, withdrawn>>

-----------------------------------------------------------------------------
(* The owner's edits of the vault (local_store.py): each is a generation.  *)
Edit(t) ==
    /\ session[t] = "live" /\ edits < MaxEdits
    /\ edits' = edits + 1
    /\ local' = [local EXCEPT ![t].generation = @ + 1, ![t].edits = @ \cup {edits'}]
    /\ UNCHANGED <<sessionVars, paired, used, begun, call, requests, cancelled, poll, approval, approved, withdrawn>>

(* Mutant: a completed request outlives its session.                       *)
Clear_KeepsComplete ==
    requests' = [i \in Ids |->
        IF requests[i] # None /\ requests[i].state # "complete" /\ session'[requests[i].scope] = "gone"
        THEN None ELSE requests[i]]

(* clear, called with the session manager's guard held.                    *)
Clear ==
    requests' = [i \in Ids |->
        IF requests[i] # None /\ session'[requests[i].scope] = "gone" THEN None ELSE requests[i]]

(* clear without a scope, from lock_all, forgets the cancellations too.    *)
ClearAll == requests' = [i \in Ids |-> None] /\ cancelled' = {}

SessionStep ==
    \/ Opening /\ UNCHANGED requestVars
    \/ /\ \E t \in Tokens : SweepIdle(t) \/ Lock(t)
       /\ Clear
       /\ UNCHANGED <<paired, used, begun, call, cancelled, poll, approval, local, edits, approved, withdrawn>>
    \/ /\ ResetRenderer \/ \E b \in BOOLEAN : SetSystemBlocked(b)
       /\ ClearAll
       /\ UNCHANGED <<paired, used, begun, call, poll, approval, local, edits, approved, withdrawn>>

Browser ==
    \/ \E b \in Browsers, t \in Tokens : Pair(b, t)
    \/ \E b \in Browsers : Disconnect(b) \/ StatusReturn(b)
    \/ \E i \in Ids, b \in Browsers : Cancel(i, b) \/ StatusCheck(i, b) \/ \E op \in Operations : Begin(i, b, op)
    \/ \E i \in Ids : File(i) \/ CancelLost(i) \/ Expire(i) \/ ForgetCancel(i)

Approving(a) ==
    \/ \E t \in Tokens, i \in Ids : Approve(a, t, i)
    \/ Take(a) \/ Snapshot(a) \/ VerifyWrong(a) \/ VerifyRight(a) \/ BrowserCheck(a)
    \/ Refused(a) \/ Exclude(a) \/ CommitCreate(a) \/ CommitGet(a) \/ Release(a)

Owner ==
    \/ \E a \in Approvals : Approving(a)
    \/ \E t \in Tokens : Edit(t) \/ \E i \in Ids : Reject(t, i)

Next == SessionStep \/ Browser \/ Owner
Spec == Init /\ [][Next]_vars

-----------------------------------------------------------------------------
(* Verifying the password takes time in which anything may happen to the   *)
(* request: an approval counts only for a call that nobody has cancelled   *)
(* and whose session is still in the table when it commits, and decides    *)
(* what is pending, never what was rejected or used up.  A cancellation    *)
(* counts when its call of begin is under way or filed                     *)
(* (docs/passkeys.md:61-68; passkey_requests.py approve).                  *)
NoApprovalAfterEnd ==
    [][\A c \in Calls : approved'[c] > approved[c] =>
          /\ c \notin withdrawn
          /\ Current(c) /\ requests[c[1]].state = "verifying"
          /\ Registered(requests[c[1]].scope)]_vars

(* Two approvals of a request, its retries and a second begin with the     *)
(* same identity sign or register once (docs/passkeys.md:61).              *)
ApprovedOnce == \A c \in Calls : approved[c] <= 1

(* The result of a request is delivered only while its vault is unlocked,  *)
(* also to a poll that was checked before the lock                         *)
(* (passkey_requests.py status; session.py lock, lock_all).                *)
ResultNeedsSession == \A b \in Browsers : Delivered(b) => Registered(requests[poll[b][1]].scope)

(* A registration writes back the whole payload it took before it verified *)
(* the password, and loses no edit made meanwhile (passkey_requests.py     *)
(* approve; local_store.py commit_sync_payload).                           *)
NoEditLost == UNION {local[t].edits : t \in Tokens} = 1..edits

(* The last wrong password ends the request, and no later step of any      *)
(* approval, of its own finally clause least of all, brings it back.       *)
LockoutHolds ==
    \A i \in Ids : requests[i] # None /\ requests[i].attempts >= MaxAttempts => requests[i].state = "ended"

(* A request in "verifying", which the owner cannot approve again, has an  *)
(* approval that will decide it or give it back.                           *)
VerifyingIsHeld ==
    \A i \in Ids : requests[i] # None /\ requests[i].state = "verifying" =>
        \E a \in Approvals : Holds(a, i) /\ approval[a].step \notin {"idle", "take"}
=============================================================================
