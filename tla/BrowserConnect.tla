---------------------------- MODULE BrowserConnect ----------------------------
(***************************************************************************)
(* How a browser extension obtains a persistent authorization              *)
(* (src/src/vault_unified/browser_connect.py, browser_trust.py): it files  *)
(* a request, the owner of an unlocked vault picks the code the browser    *)
(* shows, and the browser's next poll claims the approval, which enrols a  *)
(* device in the Windows credential store.                                 *)
(*                                                                         *)
(* The store's lock is never held while the session manager or the         *)
(* credential store is called, so a request and a claim are several        *)
(* actions, and locking, other polls, the owner and the clock come between *)
(* them.  A claim's poll runs to its end even when the browser no longer   *)
(* waits for it, and any answer may be lost.                               *)
(*                                                                         *)
(* Deadlines pass at any time.  The 5-per-minute throttle and the minute   *)
(* of refusal may refuse a request at any time.  A request is at the same  *)
(* time its record, which the claim keeps, and its place in the table.  A  *)
(* device is named by the request that enrolled it.                        *)
(***************************************************************************)
EXTENDS SessionManager

CONSTANTS
    Requests,       \* connection requests
    Keys,           \* public keys of the browsers that send them
    NoVault,        \* the vault of a request that has not read it yet
    MaxPending,     \* MAX_PENDING
    MaxDevices      \* MAX_DEVICES

ASSUME ConnectAssumption ==
    /\ NoVault \notin Vaults /\ MaxPending \in Nat /\ MaxDevices \in Nat

VARIABLES
    key,        \* per request: its public key
    binding,    \* per request: the vault it was filed for
    state,      \* per request: the state of its record
    table,      \* requests in the store
    claim,      \* per request: the step of the poll that claims it
    devices,    \* enrolled devices
    told,       \* per request: the final answer the browser has seen
    pick,       \* history: the owner's first choice of a code
    revoked,    \* history: devices the owner revoked
    torn        \* history: devices whose record was deleted by a revocation
                \* that then failed on the index, so that its claim went on

connectVars == <<key, binding, state, table, claim, devices, told, pick, revoked, torn>>

Live == {"pending", "approved", "claiming"}
Terminal == {"denied", "expired", "locked", "device_limit", "failed"}
Pending == {r \in table : state[r] = "pending"}

ConnectTypeOK ==
    /\ SessionType
    /\ key \in [Requests -> Keys] /\ binding \in [Requests -> Vaults \cup {NoVault}]
    /\ state \in [Requests -> {"none", "asking", "counted", "refused", "enrolled"} \cup Live \cup Terminal]
    /\ table \subseteq Requests /\ devices \subseteq Requests /\ revoked \subseteq Requests
    /\ torn \subseteq Requests
    /\ claim \in [Requests -> {"none", "check", "enroll", "recheck", "revoke", "publish", "done"}]
    /\ told \in [Requests -> {"none", "approved", "unknown"} \cup Terminal]
    /\ pick \in [Requests -> {"none", "right", "wrong"}]
    /\ \A r \in table : binding[r] # NoVault

ConnectInit ==
    /\ SessionInit
    /\ key \in [Requests -> Keys] /\ binding = [r \in Requests |-> NoVault]
    /\ state = [r \in Requests |-> "none"] /\ claim = [r \in Requests |-> "none"]
    /\ table = {} /\ devices = {} /\ revoked = {} /\ torn = {}
    /\ told = [r \in Requests |-> "none"] /\ pick = [r \in Requests |-> "none"]

(* What the browser sees of a poll: it stops at a final answer, and an     *)
(* answer may not arrive.                                                  *)
Answer(r, a) ==
    \/ told' = told
    \/ told[r] = "none" /\ told' = [told EXCEPT ![r] = a]

-----------------------------------------------------------------------------
(* Filing a request: read the unlocked vaults; count the devices; file.    *)

Ask(r) ==
    /\ state[r] = "none"
    /\ \E v \in Vaults :
          /\ LiveVaults = {v}
          /\ binding' = [binding EXCEPT ![r] = v]
    /\ state' = [state EXCEPT ![r] = "asking"]
    /\ UNCHANGED <<sessionVars, key, table, claim, devices, told, pick, revoked, torn>>

Room == Cardinality(Pending) < MaxPending

Count(r) ==      \* the limits are looked at here to refuse early, and again by File
    /\ state[r] = "asking"
    /\ state' = [state EXCEPT ![r] = IF Room /\ Cardinality(devices) < MaxDevices THEN "counted" ELSE "refused"]
    /\ UNCHANGED <<sessionVars, key, binding, table, claim, devices, told, pick, revoked, torn>>

Accepted(r) == Room /\ \A q \in Pending : key[q] # key[r]

FileConnection(r) ==
    /\ state[r] = "counted" /\ Accepted(r)
    /\ state' = [state EXCEPT ![r] = "pending"]
    /\ table' = table \cup {r}
    /\ UNCHANGED <<sessionVars, key, binding, claim, devices, told, pick, revoked, torn>>

Refuse(r) ==
    /\ state[r] \in {"asking", "counted"}
    /\ state' = [state EXCEPT ![r] = "refused"]
    /\ UNCHANGED <<sessionVars, key, binding, table, claim, devices, told, pick, revoked, torn>>

-----------------------------------------------------------------------------
(* The owner.  A session of another vault neither sees nor decides it.     *)

Owns(t, r) == session[t] = "live" /\ vault[t] = binding[r] /\ r \in Pending

(* Mutant: a wrong code leaves the request open for another attempt.       *)
ApproveConnection_Retry(t, r, code) ==
    /\ Owns(t, r)
    /\ state' = [state EXCEPT ![r] = IF code = "right" THEN "approved" ELSE "pending"]
    /\ pick' = [pick EXCEPT ![r] = IF @ = "none" THEN code ELSE @]
    /\ UNCHANGED <<sessionVars, key, binding, table, claim, devices, told, revoked, torn>>

ApproveConnection(t, r, code) ==
    /\ Owns(t, r)
    /\ state' = [state EXCEPT ![r] = IF code = "right" THEN "approved" ELSE "denied"]
    /\ pick' = [pick EXCEPT ![r] = IF @ = "none" THEN code ELSE @]
    /\ UNCHANGED <<sessionVars, key, binding, table, claim, devices, told, revoked, torn>>

Deny(t, rs) ==
    /\ rs # {} /\ \A r \in rs : Owns(t, r)
    /\ state' = [r \in Requests |-> IF r \in rs THEN "denied" ELSE state[r]]
    /\ UNCHANGED <<sessionVars, key, binding, table, claim, devices, told, pick, revoked, torn>>

RevokeDevice(t, r) ==
    /\ session[t] = "live" /\ r \in devices /\ vault[t] = binding[r]
    /\ devices' = devices \ {r}
    /\ revoked' = revoked \cup {r}
    /\ UNCHANGED <<sessionVars, key, binding, state, table, claim, told, pick, torn>>

-----------------------------------------------------------------------------
(* A poll.  The first one after the approval becomes the claim; a final    *)
(* answer other than a device is given once.                               *)
Poll(r) ==
    /\ told[r] = "none" /\ r \in table
    /\ \/ /\ state[r] = "approved"
          /\ state' = [state EXCEPT ![r] = "claiming"]
          /\ claim' = [claim EXCEPT ![r] = "check"]
          /\ UNCHANGED <<table, told>>
       \/ /\ state[r] = "enrolled"
          /\ Answer(r, "approved")
          /\ UNCHANGED <<state, table, claim>>
       \/ /\ state[r] \in Terminal
          /\ table' = table \ {r}
          /\ Answer(r, state[r])
          /\ UNCHANGED <<state, claim>>
    /\ UNCHANGED <<sessionVars, key, binding, devices, pick, revoked, torn>>

PollUnknown(r) ==
    /\ told[r] = "none" /\ r \notin table /\ state[r] \in Live \cup Terminal \cup {"enrolled"}
    /\ told' = [told EXCEPT ![r] = "unknown"]
    /\ UNCHANGED <<sessionVars, key, binding, state, table, claim, devices, pick, revoked, torn>>

ClaimEnds(r, a) ==
    /\ state' = [state EXCEPT ![r] = a]
    /\ claim' = [claim EXCEPT ![r] = "done"]
    /\ Answer(r, a)

(* The claim: is the vault unlocked, enrol, look again, publish.           *)
ClaimCheck(r) ==
    /\ claim[r] = "check"
    /\ \/ /\ binding[r] \in LiveVaults
          /\ claim' = [claim EXCEPT ![r] = "enroll"]
          /\ UNCHANGED <<state, told>>
       \/ binding[r] \notin LiveVaults /\ ClaimEnds(r, "locked")
    /\ UNCHANGED <<sessionVars, key, binding, table, devices, pick, revoked, torn>>

RoomForDevice == Cardinality(devices) < MaxDevices

Enroll(r) ==
    /\ claim[r] = "enroll"
    /\ \/ /\ RoomForDevice
          /\ devices' = devices \cup {r}
          /\ claim' = [claim EXCEPT ![r] = "recheck"]
          /\ UNCHANGED <<state, told>>
       \/ ~RoomForDevice /\ ClaimEnds(r, "device_limit") /\ UNCHANGED devices
       \/ ClaimEnds(r, "failed") /\ UNCHANGED devices    \* the credential store is unavailable
    /\ UNCHANGED <<sessionVars, key, binding, table, pick, revoked, torn>>

Recheck(r) ==
    /\ claim[r] = "recheck"
    /\ claim' = [claim EXCEPT ![r] = IF state[r] = "claiming" THEN "publish" ELSE "revoke"]
    /\ UNCHANGED <<sessionVars, key, binding, state, table, devices, told, pick, revoked, torn>>

(* Mutant: a failed revocation is reported as approved, a done one too.    *)
Undo_HandsOver(r) ==
    /\ claim[r] = "revoke"
    /\ devices' = devices \ {r}
    /\ claim' = [claim EXCEPT ![r] = "publish"]
    /\ UNCHANGED <<sessionVars, key, binding, state, table, told, pick, revoked, torn>>

(* A lock ended the request while the device was enrolled.  A revocation   *)
(* deletes the record and then writes the index: one that fails hands the  *)
(* device over, whether it failed on the record or on the index.           *)
Undo(r) ==
    /\ claim[r] = "revoke"
    /\ \/ /\ devices' = devices \ {r}
          /\ claim' = [claim EXCEPT ![r] = "done"]
          /\ Answer(r, "locked")
          /\ UNCHANGED torn
       \/ /\ \/ UNCHANGED <<devices, torn>>
             \/ /\ devices' = devices \ {r}
                /\ torn' = torn \cup (devices \cap {r})
          /\ claim' = [claim EXCEPT ![r] = "publish"]
          /\ UNCHANGED told
    /\ UNCHANGED <<sessionVars, key, binding, state, table, pick, revoked>>

Publish(r) ==
    /\ claim[r] = "publish"
    /\ state' = [state EXCEPT ![r] = "enrolled"]
    /\ claim' = [claim EXCEPT ![r] = "done"]
    /\ Answer(r, "approved")
    /\ UNCHANGED <<sessionVars, key, binding, table, devices, pick, revoked, torn>>

-----------------------------------------------------------------------------
(* The clock.                                                              *)

(* Mutant: the deadline ends a claim as well.                              *)
ExpireConnection_Live(r) ==
    /\ r \in table /\ state[r] \in Live
    /\ state' = [state EXCEPT ![r] = "expired"]
    /\ UNCHANGED <<sessionVars, key, binding, table, claim, devices, told, pick, revoked, torn>>

ExpireConnection(r) ==
    /\ r \in table /\ state[r] \in {"pending", "approved"}
    /\ state' = [state EXCEPT ![r] = "expired"]
    /\ UNCHANGED <<sessionVars, key, binding, table, claim, devices, told, pick, revoked, torn>>

Forget(r) ==
    /\ r \in table /\ state[r] \in Terminal \cup {"enrolled"}
    /\ table' = table \ {r}
    /\ UNCHANGED <<sessionVars, key, binding, state, claim, devices, told, pick, revoked, torn>>

(* The session manager's hook: requests of a vault that is no longer       *)
(* unlocked end as locked, the one being claimed included.                 *)
Ended(r) == r \in table /\ state[r] \in Live /\ binding[r] \notin LiveVaults'

Retain ==
    /\ state' = [r \in Requests |-> IF Ended(r) THEN "locked" ELSE state[r]]
    /\ UNCHANGED <<key, binding, table, claim, devices, told, pick, revoked, torn>>

ConnectBrowser(r) == Ask(r) \/ Count(r) \/ FileConnection(r) \/ Refuse(r) \/ Poll(r) \/ PollUnknown(r)
Claiming(r) == ClaimCheck(r) \/ Enroll(r) \/ Recheck(r) \/ Undo(r) \/ Publish(r)
ConnectOwner(t) ==
    \/ \E r \in Requests : ApproveConnection(t, r, "right") \/ ApproveConnection(t, r, "wrong")
    \/ \E r \in Requests : Deny(t, {r})
    \/ Deny(t, {r \in Requests : Owns(t, r)})
    \/ \E r \in Requests : RevokeDevice(t, r)

ConnectNext ==
    \/ Opening /\ UNCHANGED connectVars
    \/ Locking /\ Retain
    \/ \E r \in Requests : ConnectBrowser(r) \/ Claiming(r) \/ ExpireConnection(r) \/ Forget(r)
    \/ \E t \in Tokens : ConnectOwner(t)

ConnectSpec == ConnectInit /\ [][ConnectNext]_<<sessionVars, connectVars>>

-----------------------------------------------------------------------------
(* A device comes from the one choice of the code its browser showed: a    *)
(* wrong pick ends the request for good (browser_connect.py approve,       *)
(* docs/browser-connection-approval.md section 5).                         *)
OnlyChosenDevices == \A r \in devices : pick[r] = "right"

(* A browser that is told it is approved holds a device that exists, unless*)
(* the owner has revoked it since: a lock, a poll or another claim during  *)
(* the enrolment hands over the identity of nothing.  The one exception is *)
(* `torn`, against the comment at browser_connect.py:255: a claim that     *)
(* takes its device back and whose revocation fails on the index           *)
(* (browser_trust.py:185) has deleted the record (browser_connect.py _claim). *)
ApprovedIsEnrolled == \A r \in Requests : told[r] = "approved" => r \in devices \cup revoked \cup torn

(* A browser that is told its request was denied, expired or met a limit   *)
(* leaves no device behind when its polls are over (_claim, _end).         *)
RefusedIsNotEnrolled ==
    \A r \in Requests :
        (told[r] \in Terminal \ {"locked"} /\ claim[r] \in {"none", "done"}) => r \notin devices

(* Requests and claims that passed their checks at the same time do not    *)
(* exceed the limits together (request, enroll).                           *)
WithinLimits ==
    /\ Cardinality(devices) <= MaxDevices
    /\ Cardinality(Pending) <= MaxPending

(* A request in `claiming`, which no deadline ends, always has the poll    *)
(* that claims it still under way (status, _claim, _clean).                *)
ClaimingIsServed ==
    \A r \in Requests : state[r] = "claiming" => claim[r] \in {"check", "enroll", "recheck", "publish"}
=============================================================================
