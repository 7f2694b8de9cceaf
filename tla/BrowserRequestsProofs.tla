------------------------ MODULE BrowserRequestsProofs ------------------------
(***************************************************************************)
(* What a browser asks for and the owner of a vault approves, for any      *)
(* number of vaults, browsers, requests, approvals and lock events.        *)
(*                                                                         *)
(* First PasskeyRequests, which the module extends: the wrong passwords,   *)
(* the single approval, the cancellations, the delivery of results and the *)
(* edits of the vault.  Then BrowserConnect: the session table, the choice *)
(* of the code, what stands behind an enrolled device, what a refusal      *)
(* leaves behind, and the limits.  The two have only SessionManager in     *)
(* common: each theorem is about one of their specifications.              *)
(***************************************************************************)
EXTENDS PasskeyRequests, BrowserConnect, FiniteSetTheorems, TLAPS

Sessions == [Tokens -> {"none", "opening", "live", "idle", "gone"}]
Steps == {"idle", "take", "snapshot", "verify", "browser", "commit", "release"}
Later == {"verify", "browser", "commit"}
Grant == [step : Steps, id : Ids \cup {None}, number : 0..MaxBegins, scope : Tokens \cup {None},
          browser : Browsers \cup {None}, snapshot : {0} \cup Local]

TypeInv ==
    /\ session \in Sessions /\ paired \in [Browsers -> Tokens \cup {None}]
    /\ begun \in [Ids -> 0..MaxBegins]
    /\ call \in [Ids -> Call \cup {None}] /\ requests \in [Ids -> Request \cup {None}]
    /\ \A i \in Ids : call[i] # None => call[i] \in Call /\ begun[i] \in 1..MaxBegins
    /\ \A i \in Ids : requests[i] # None => requests[i] \in Request
    /\ poll \in [Browsers -> Calls \cup {None}]
    /\ approval \in [Approvals -> Grant]
    /\ \A a \in Approvals : Held(a) => approval[a].id \in Ids /\ approval[a].scope \in Tokens
    /\ \A a \in Approvals : approval[a].step \in Later => approval[a].snapshot \in Local
    /\ local \in [Tokens -> Local] /\ edits \in 0..MaxEdits
    /\ approved \in [Calls -> Nat] /\ withdrawn \subseteq Calls

(* What the session manager's steps do to the table: a session that is     *)
(* gone stays gone, and opening leaves the registered ones alone.          *)
LEMMA Opened ==
  ASSUME session \in Sessions, Opening
  PROVE  /\ session' \in Sessions
         /\ \A t \in Tokens : /\ session[t] = "gone" => session'[t] = "gone"
                              /\ Registered(t) => Registered(t)'
<1> USE DEF Sessions, Registered
<1>1. ASSUME NEW t \in Tokens, BeginUnlock(t) PROVE session' = [session EXCEPT ![t] = "opening"] /\ session[t] = "none"
  BY <1>1 DEF BeginUnlock
<1>2. ASSUME NEW t \in Tokens, UnlockFails(t) PROVE session' = [session EXCEPT ![t] = "gone"] /\ session[t] = "opening"
  BY <1>2 DEF UnlockFails
<1>3. ASSUME NEW t \in Tokens, Register(t)
      PROVE  session[t] = "opening" /\ \E end \in {"gone", "live"} : session' = [session EXCEPT ![t] = end]
  BY <1>3 DEF Register
<1>4. ASSUME NEW t \in Tokens, BecomeIdle(t) PROVE session' = [session EXCEPT ![t] = "idle"] /\ session[t] = "live"
  BY <1>4 DEF BecomeIdle
<1> QED BY <1>1, <1>2, <1>3, <1>4 DEF Opening

LEMMA Locked ==
  ASSUME session \in Sessions, Locking
  PROVE  /\ session' \in Sessions
         /\ \A t \in Tokens : session'[t] = session[t] \/ session'[t] = "gone"
<1> USE DEF Sessions, Registered
<1>1. ASSUME NEW t \in Tokens, SweepIdle(t) \/ Lock(t) PROVE session' = [session EXCEPT ![t] = "gone"]
  BY <1>1 DEF SweepIdle, Lock
<1>2. ASSUME ResetRenderer \/ \E b \in BOOLEAN : SetSystemBlocked(b)
      PROVE  session' = [t \in Tokens |-> IF Registered(t) THEN "gone" ELSE session[t]]
  BY <1>2 DEF ResetRenderer, SetSystemBlocked, LockAll
<1> QED BY <1>1, <1>2 DEF Locking

(* Locking everything leaves no session registered.                        *)
LEMMA AllLocked ==
  ASSUME session \in Sessions, ResetRenderer \/ \E b \in BOOLEAN : SetSystemBlocked(b)
  PROVE  \A t \in Tokens : session'[t] = IF Registered(t) THEN "gone" ELSE session[t]
BY DEF ResetRenderer, SetSystemBlocked, LockAll

-----------------------------------------------------------------------------
(* Every step keeps the types.                                             *)
LEMMA TypeStep == TypeInv /\ [Next]_vars => TypeInv'
<1> SUFFICES ASSUME TypeInv, [Next]_vars PROVE TypeInv'
  OBVIOUS
<1> USE PasskeyAssumption DEF TypeInv, Calls, sessionVars, Held, Goes
<1>1. CASE SessionStep
  <2>1. session' \in Sessions
    BY <1>1, Opened, Locked DEF SessionStep, Locking
  <2>2. /\ \A i \in Ids : requests'[i] \in {requests[i], None}
        /\ requests' \in [Ids -> Request \cup {None}]
        /\ UNCHANGED <<paired, begun, call, poll, approval, local, edits, approved, withdrawn>>
    BY <1>1 DEF SessionStep, requestVars, Clear, ClearAll
  <2> QED BY <2>1, <2>2
<1>2. ASSUME NEW b \in Browsers, NEW t \in Tokens, Pair(b, t) PROVE TypeInv'
  BY <1>2 DEF Pair
<1>3. ASSUME NEW b \in Browsers, Disconnect(b) \/ StatusReturn(b) PROVE TypeInv'
  BY <1>3 DEF Disconnect, StatusReturn
<1>4. ASSUME NEW i \in Ids, NEW b \in Browsers, NEW op \in Operations, Begin(i, b, op) PROVE TypeInv'
  <2>1. [browser |-> b, scope |-> paired[b], operation |-> op] \in Call
    BY <1>4 DEF Begin, VaultFor, Call
  <2>2. begun[i] + 1 \in 1..MaxBegins
    BY <1>4 DEF Begin
  <2> QED BY <1>4, <2>1, <2>2 DEF Begin
<1>5. ASSUME NEW i \in Ids, NEW b \in Browsers, StatusCheck(i, b) PROVE TypeInv'
  <2>1. <<i, requests[i].number>> \in Calls
    BY <1>5 DEF StatusCheck, Request
  <2> QED BY <1>5, <2>1 DEF StatusCheck
<1>6. ASSUME NEW i \in Ids, NEW b \in Browsers, CancelFor(i, b) PROVE TypeInv'
  BY <1>6 DEF CancelFor
<1>7. ASSUME NEW i \in Ids, File(i) PROVE TypeInv'
  <2>1. [browser |-> call[i].browser, scope |-> call[i].scope, operation |-> call[i].operation,
         number |-> begun[i], state |-> "pending", attempts |-> 0] \in Request
    BY <1>7 DEF File, Call, Request
  <2> QED BY <1>7, <2>1 DEF File
<1>8. ASSUME NEW i \in Ids, Expire(i) PROVE TypeInv'
  BY <1>8 DEF Expire
<1>9. ASSUME NEW i \in Ids, ForgetCancel(i) PROVE TypeInv'
  BY <1>9 DEF ForgetCancel
<1>10. ASSUME NEW a \in Approvals, NEW t \in Tokens, NEW i \in Ids, Approve(a, t, i) PROVE TypeInv'
  <2>1. [step |-> "take", id |-> i, number |-> requests[i].number, scope |-> t,
         browser |-> requests[i].browser, snapshot |-> 0] \in Grant
    BY <1>10 DEF Approve, Grant, Steps, Request
  <2> QED BY <1>10, <2>1 DEF Approve, Later
<1>11. ASSUME NEW a \in Approvals, Approving(a), \A t \in Tokens, i \in Ids : ~Approve(a, t, i) PROVE TypeInv'
  <2> DEFINE j == approval[a].id
  <2>a. approval[a] \in Grant /\ Idle \in Grant /\ Idle.step = "idle"
    BY DEF Grant, Steps, Idle
  <2>b. ASSUME NEW step \in Steps, Held(a), Goes(a, step)
        PROVE  /\ approval' \in [Approvals -> Grant]
               /\ \A b \in Approvals : approval'[b].step # "idle" =>
                     approval'[b].id \in Ids /\ approval'[b].scope \in Tokens
               /\ (step \in Later => approval[a].step \in Later) =>
                     \A b \in Approvals : approval'[b].step \in Later => approval'[b].snapshot \in Local
    BY <2>a, <2>b DEF Grant
  <2>i. ASSUME approval' = [approval EXCEPT ![a] = Idle]
        PROVE  /\ approval' \in [Approvals -> Grant]
               /\ \A b \in Approvals : approval'[b].step # "idle" =>
                     approval'[b].id \in Ids /\ approval'[b].scope \in Tokens
               /\ \A b \in Approvals : approval'[b].step \in Later => approval'[b].snapshot \in Local
    BY <2>a, <2>i DEF Later
  <2>c. ASSUME NEW r \in Request, NEW end \in {"pending", "verifying", "complete", "ended"}, NEW n \in Nat
        PROVE  /\ [r EXCEPT !.state = end] \in Request
               /\ [r EXCEPT !.attempts = n, !.state = end] \in Request
    BY DEF Request
  <2>r. ASSUME NEW r \in Request, Held(a), requests' = [requests EXCEPT ![j] = r]
        PROVE  /\ requests' \in [Ids -> Request \cup {None}]
               /\ \A i \in Ids : requests'[i] # None => requests'[i] \in Request
    BY <2>r
  <2>1. CASE Take(a)
    <3>1. CASE Takes(a)
      <4>1. j \in Ids /\ requests[j] \in Request
        BY <2>1, <3>1 DEF Take, Takes, Holds
      <4>2. requests' = [requests EXCEPT ![j] = [requests[j] EXCEPT !.state = "verifying"]]
        BY <2>1, <3>1 DEF Take
      <4> QED BY <2>1, <3>1, <2>b, <2>c, <2>r, <4>1, <4>2 DEF Take, Steps, Later
    <3>2. CASE ~Takes(a)
      BY <2>1, <2>i, <3>2 DEF Take
    <3> QED BY <3>1, <3>2
  <2>2. CASE Snapshot(a)
    BY <2>2, <2>a DEF Snapshot, Grant, Steps, Later
  <2>3. CASE VerifyWrong(a)
    <3>1. Held(a) /\ Goes(a, "release") /\ "release" \in Steps
      BY <2>3 DEF VerifyWrong, Steps
    <3>2. CASE Holds(a, j)
      <4>1. j \in Ids /\ requests[j] \in Request /\ requests[j].attempts + 1 \in Nat
        BY <3>1, <3>2 DEF Holds, Request
      <4>2. PICK end \in {"pending", "verifying", "complete", "ended"} :
              requests' = [requests EXCEPT ![j] = [requests[j] EXCEPT !.attempts = requests[j].attempts + 1, !.state = end]]
        BY <2>3, <3>2, <4>1 DEF VerifyWrong, Request
      <4> QED BY <2>3, <2>b, <2>c, <2>r, <3>1, <4>1, <4>2 DEF VerifyWrong, Later
    <3>3. CASE ~Holds(a, j)
      BY <2>3, <2>b, <3>1, <3>3 DEF VerifyWrong, Later
    <3> QED BY <3>2, <3>3
  <2>4. CASE VerifyRight(a) \/ BrowserCheck(a) \/ Refused(a)
    <3>1. PICK step \in {"browser", "commit", "release"} : Goes(a, step)
      BY <2>4 DEF VerifyRight, BrowserCheck, Refused
    <3> QED BY <2>4, <2>b, <3>1 DEF VerifyRight, BrowserCheck, Refused, Steps, Later
  <2>d. ASSUME NEW end \in {"complete", "ended"}, Decide(a, end)
        PROVE  requests' \in [Ids -> Request \cup {None}] /\ \A i \in Ids : requests'[i] # None => requests'[i] \in Request
    <3>1. ASSUME NEW i \in Ids, requests[i] # None PROVE [requests[i] EXCEPT !.state = end] \in Request
      <4>1. requests[i] \in Request /\ 0 \in Nat
        BY <3>1
      <4> QED BY <2>c, <4>1
    <3> QED BY <3>1, <2>d DEF Decide, Holds
  <2>e. ASSUME Committable(a), Held(a) PROVE <<j, approval[a].number>> \in Calls /\ approval[a].scope \in Tokens
    BY <2>e DEF Committable, Holds, Request
  <2>f. ASSUME Counted(a) PROVE approved' \in [Calls -> Nat]
    <3> HIDE DEF Calls
    <3>1. \A c \in Calls : approved[c] + 1 \in Nat
      OBVIOUS
    <3> QED BY <2>f, <3>1 DEF Counted
  <2>5. CASE Exclude(a)
    BY <2>5, <2>b, <2>d DEF Exclude, Steps, Later
  <2>6. CASE CommitCreate(a)
    <3>1. Held(a) /\ Committable(a) /\ Decide(a, "complete") /\ Counted(a) /\ Goes(a, "release") /\ "release" \in Steps
      BY <2>6 DEF CommitCreate, Steps
    <3>2. local' \in [Tokens -> Local]
      <4>1. approval[a].snapshot \in Local
        BY <2>6 DEF CommitCreate, Later
      <4>2. [generation |-> local[approval[a].scope].generation + 1, edits |-> approval[a].snapshot.edits,
             credentials |-> approval[a].snapshot.credentials \cup {<<j, approval[a].number>>}] \in Local
        BY <2>e, <3>1, <4>1 DEF Local
      <4> QED BY <2>6, <4>2 DEF CommitCreate
    <3> QED BY <2>6, <3>1, <3>2, <2>b, <2>d, <2>f DEF CommitCreate, Later
  <2>7. CASE CommitGet(a)
    BY <2>7, <2>b, <2>d, <2>f DEF CommitGet, Steps, Later
  <2>8. CASE Release(a)
    <3>1. CASE Holds(a, j) /\ requests[j].state = "verifying"
      <4>1. Held(a) /\ j \in Ids /\ requests[j] \in Request
        BY <2>8, <3>1 DEF Release, Holds
      <4>2. requests' = [requests EXCEPT ![j] = [requests[j] EXCEPT !.state = "pending"]]
        BY <2>8, <3>1 DEF Release
      <4> QED BY <2>8, <2>i, <2>c, <2>r, <4>1, <4>2 DEF Release
    <3>2. CASE ~(Holds(a, j) /\ requests[j].state = "verifying")
      BY <2>8, <2>i, <3>2 DEF Release
    <3> QED BY <3>1, <3>2
  <2> QED BY <1>11, <2>1, <2>2, <2>3, <2>4, <2>5, <2>6, <2>7, <2>8 DEF Approving
<1>12. ASSUME NEW t \in Tokens, Edit(t) PROVE TypeInv'
  <2>1. edits + 1 \in 1..MaxEdits
    BY <1>12 DEF Edit
  <2>2. [local[t] EXCEPT !.generation = local[t].generation + 1, !.edits = local[t].edits \cup {edits + 1}] \in Local
    <3>1. local[t] \in Local /\ local[t].generation + 1 \in Nat /\ local[t].edits \cup {edits + 1} \in SUBSET (1..MaxEdits)
      BY <2>1 DEF Local
    <3> HIDE DEF TypeInv
    <3> QED BY <3>1 DEF Local
  <2>3. local' = [local EXCEPT ![t] = [local[t] EXCEPT !.generation = local[t].generation + 1, !.edits = local[t].edits \cup {edits + 1}]]
    BY <1>12 DEF Edit
  <2> QED BY <1>12, <2>1, <2>2, <2>3 DEF Edit
<1>13. ASSUME NEW t \in Tokens, NEW i \in Ids, Reject(t, i) PROVE TypeInv'
  BY <1>13 DEF Reject, Request
<1>14. CASE UNCHANGED vars
  BY <1>14 DEF vars, requestVars
<1> QED BY <1>1, <1>2, <1>3, <1>4, <1>5, <1>6, <1>7, <1>8, <1>9, <1>10, <1>11, <1>12, <1>13, <1>14
        DEF Next, Browser, Owner, Cancel, CancelLost, Request

-----------------------------------------------------------------------------
(* An approval that has taken a request, and not given it back yet.        *)
Deciding == {"snapshot", "verify", "browser", "commit"}
Holding(a, i) == approval[a].step \in Deciding \cup {"release"} /\ Holds(a, i)

(* A filed request comes from a call of begin that is over.                *)
Numbered(i) ==
    /\ requests[i] # None => requests[i].number <= begun[i]
    /\ requests[i] # None /\ call[i] # None => requests[i].number < begun[i]
    /\ call[i] # None => session[call[i].scope] \in {"live", "idle", "gone"}

(* What was approved is decided for good.                                  *)
Once(i) ==
    \A n \in 1..MaxBegins : approved[<<i, n>>] # 0 =>
        /\ approved[<<i, n>>] = 1
        /\ n <= begun[i] /\ (call[i] # None => n < begun[i])
        /\ requests[i] # None /\ requests[i].number = n => requests[i].state \in {"complete", "ended"}

Attempted(i) ==
    requests[i] # None => \/ requests[i].attempts < MaxAttempts
                          \/ requests[i].attempts = MaxAttempts /\ requests[i].state = "ended"

(* A cancellation reaches the call it was for, also before it has filed;   *)
(* it is only forgotten then when the session is gone.                     *)
Reached(i) ==
    \A n \in 1..MaxBegins : <<i, n>> \in withdrawn =>
        /\ n <= begun[i]
        /\ requests[i] # None /\ requests[i].number = n => session[requests[i].scope] = "gone"
        /\ call[i] # None /\ n = begun[i] =>
              <<call[i].browser, i>> \in cancelled \/ session[call[i].scope] = "gone"

Completed(i) == requests[i] # None /\ requests[i].state = "complete" => Registered(requests[i].scope)

(* One approval at a time has a request, and only it can wear it out.      *)
Taken(a) ==
    /\ Held(a) => approval[a].number <= begun[approval[a].id]
    /\ Held(a) /\ call[approval[a].id] # None => approval[a].number < begun[approval[a].id]
    /\ \A i \in Ids : Held(a) /\ Holds(a, i) => approval[a].scope = requests[i].scope
    /\ \A i \in Ids : Holding(a, i) =>
          /\ requests[i].state \in {"verifying", "ended", "complete"}
          /\ approval[a].step \in Deciding => requests[i].state # "complete" /\ requests[i].attempts < MaxAttempts
          /\ \A b \in Approvals : Holding(b, i) => b = a

RequestInv ==
    /\ TypeInv
    /\ \A i \in Ids : Numbered(i) /\ Once(i) /\ Attempted(i) /\ Reached(i) /\ Completed(i)
    /\ \A a \in Approvals : Taken(a)

(* Every step keeps it.                                                    *)
LEMMA RequestStep == RequestInv /\ [Next]_vars => RequestInv'
<1> SUFFICES ASSUME RequestInv, [Next]_vars PROVE RequestInv'
  OBVIOUS
<1> USE PasskeyAssumption DEF Held
<1>a. TypeInv /\ TypeInv'
  BY TypeStep DEF RequestInv
<1>b. \A i \in Ids : requests[i] # None =>
        /\ requests[i].number \in 1..MaxBegins /\ requests[i].attempts \in Nat /\ requests[i].scope \in Tokens
        /\ requests[i].state \in {"pending", "verifying", "complete", "ended"}
  BY <1>a DEF TypeInv, Request
<1>c. /\ \A i \in Ids : call[i] # None => call[i].scope \in Tokens
      /\ \A i \in Ids : begun[i] \in Nat
      /\ \A a \in Approvals : approval[a].step # "idle" =>
            approval[a].id \in Ids /\ approval[a].scope \in Tokens /\ approval[a].number \in Nat
  BY <1>a DEF TypeInv, Call, Grant
<1>1. CASE Opening /\ UNCHANGED requestVars
  <2>1. UNCHANGED requestVars
    BY <1>1
  <2>2. \A t \in Tokens : (session[t] = "gone" => session'[t] = "gone") /\ (Registered(t) => Registered(t)')
    BY <1>1, <1>a, Opened DEF TypeInv
  <2>3. ASSUME NEW i \in Ids PROVE (Numbered(i) /\ Once(i) /\ Attempted(i) /\ Reached(i) /\ Completed(i))'
    BY <1>b, <1>c, <2>1, <2>2 DEF RequestInv, requestVars, Registered, Numbered, Once, Attempted, Reached, Completed
  <2>4. ASSUME NEW a \in Approvals PROVE Taken(a)'
    BY <2>1 DEF RequestInv, requestVars, Taken, Holding, Holds
  <2> QED BY <1>a, <2>3, <2>4 DEF RequestInv
<1>2. CASE /\ \E t \in Tokens : SweepIdle(t) \/ Lock(t)
           /\ Clear
           /\ UNCHANGED <<paired, used, begun, call, cancelled, poll, approval, local, edits, approved, withdrawn>>
  <2>1. \A t \in Tokens : session'[t] = session[t] \/ session'[t] = "gone"
    BY <1>2, <1>a, Locked DEF TypeInv, Locking
  <2>2. \A i \in Ids : \/ requests'[i] = None
                       \/ requests'[i] = requests[i] /\ (requests[i] # None => session'[requests[i].scope] # "gone")
    BY <1>2 DEF Clear
  <2>3. ASSUME NEW i \in Ids PROVE (Numbered(i) /\ Once(i) /\ Attempted(i) /\ Reached(i) /\ Completed(i))'
    BY <1>2, <1>b, <1>c, <2>1, <2>2 DEF RequestInv, Registered, Numbered, Once, Attempted, Reached, Completed
  <2>4. ASSUME NEW a \in Approvals PROVE Taken(a)'
    BY <1>2, <2>2 DEF RequestInv, Taken, Holding, Holds
  <2> QED BY <1>a, <2>3, <2>4 DEF RequestInv
<1>3. CASE /\ ResetRenderer \/ \E b \in BOOLEAN : SetSystemBlocked(b)
           /\ ClearAll
           /\ UNCHANGED <<paired, used, begun, call, poll, approval, local, edits, approved, withdrawn>>
  <2>1. \A t \in Tokens : session'[t] = IF Registered(t) THEN "gone" ELSE session[t]
    BY <1>3, <1>a, AllLocked DEF TypeInv
  <2>2. \A i \in Ids : requests'[i] = None
    BY <1>3 DEF ClearAll
  <2>3. ASSUME NEW i \in Ids PROVE (Numbered(i) /\ Once(i) /\ Attempted(i) /\ Reached(i) /\ Completed(i))'
    BY <1>3, <1>c, <2>1, <2>2 DEF RequestInv, Registered, Numbered, Once, Attempted, Reached, Completed
  <2>4. ASSUME NEW a \in Approvals PROVE Taken(a)'
    BY <1>3, <2>2 DEF RequestInv, Taken, Holding, Holds
  <2> QED BY <1>a, <2>3, <2>4 DEF RequestInv
(* Neither the requests nor what is known of them.                         *)
<1>4. ASSUME UNCHANGED <<session, begun, call, requests, approval, approved, withdrawn>>, cancelled' = cancelled
      PROVE  RequestInv'
  <2>1. \A i \in Ids : (Numbered(i) /\ Once(i) /\ Attempted(i) /\ Reached(i) /\ Completed(i))'
    BY <1>4 DEF RequestInv, Registered, Numbered, Once, Attempted, Reached, Completed
  <2>2. \A a \in Approvals : Taken(a)'
    BY <1>4 DEF RequestInv, Taken, Holding, Holds
  <2> QED BY <1>a, <2>1, <2>2 DEF RequestInv
<1>5. ASSUME NEW i \in Ids, NEW b \in Browsers, NEW op \in Operations, Begin(i, b, op) PROVE RequestInv'
  <2>1. /\ UNCHANGED <<session, requests, cancelled, approval, approved, withdrawn>>
        /\ call[i] = None /\ begun'[i] = begun[i] + 1
        /\ call'[i].scope = paired[b] /\ session[paired[b]] = "live"
        /\ \A j \in Ids \ {i} : begun'[j] = begun[j] /\ call'[j] = call[j]
    BY <1>5, <1>a DEF Begin, VaultFor, TypeInv, sessionVars
  <2>2. ASSUME NEW j \in Ids PROVE (Numbered(j) /\ Once(j) /\ Attempted(j) /\ Reached(j) /\ Completed(j))'
    <3>1. Numbered(j)' /\ Attempted(j)' /\ Completed(j)'
      BY <2>1, <1>b, <1>c DEF RequestInv, Registered, Numbered, Attempted, Completed
    <3>2. Once(j)'
      BY <2>1, <1>c DEF RequestInv, Once
    <3>3. ASSUME NEW n \in 1..MaxBegins, <<j, n>> \in withdrawn
          PROVE  /\ n <= begun'[j]
                 /\ requests[j] # None /\ requests[j].number = n => session[requests[j].scope] = "gone"
                 /\ call'[j] # None /\ n = begun'[j] =>
                       <<call'[j].browser, j>> \in cancelled \/ session[call'[j].scope] = "gone"
      <4>1. /\ n <= begun[j]
            /\ requests[j] # None /\ requests[j].number = n => session[requests[j].scope] = "gone"
            /\ call[j] # None /\ n = begun[j] =>
                  <<call[j].browser, j>> \in cancelled \/ session[call[j].scope] = "gone"
        BY <3>3 DEF RequestInv, Reached
      <4>2. CASE j = i
        BY <2>1, <1>c, <4>1, <4>2
      <4>3. CASE j # i
        BY <2>1, <4>1, <4>3
      <4> QED BY <4>2, <4>3
    <3>4. Reached(j)'
      BY <2>1, <3>3 DEF Reached
    <3> QED BY <3>1, <3>2, <3>4
  <2>3. ASSUME NEW a \in Approvals PROVE Taken(a)'
    BY <2>1, <1>c DEF RequestInv, Taken, Holding, Holds
  <2> QED BY <1>a, <2>2, <2>3 DEF RequestInv
<1>6. ASSUME NEW i \in Ids, NEW b \in Browsers, CancelFor(i, b) PROVE RequestInv'
  <2>1. /\ UNCHANGED <<session, begun, call, approval, approved>>
        /\ cancelled' = cancelled \cup {<<b, i>>}
        /\ \A j \in Ids : requests'[j] = IF j = i /\ requests[i] # None /\ requests[i].browser = b
                                         THEN None ELSE requests[j]
        /\ \A j \in Ids, n \in 1..MaxBegins : <<j, n>> \in withdrawn' =>
              \/ <<j, n>> \in withdrawn
              \/ j = i /\ n = begun[i] /\ call[i] # None /\ call[i].browser = b
              \/ j = i /\ requests[i] # None /\ requests[i].browser = b /\ n = requests[i].number
    BY <1>6, <1>a DEF CancelFor, TypeInv, sessionVars, Calls
  <2>2. ASSUME NEW j \in Ids PROVE (Numbered(j) /\ Once(j) /\ Attempted(j) /\ Completed(j))'
    BY <2>1 DEF RequestInv, Registered, Numbered, Once, Attempted, Completed
  <2>3. ASSUME NEW j \in Ids PROVE Reached(j)'
    BY <2>1, <1>b, <1>c DEF RequestInv, Reached, Numbered
  <2>4. ASSUME NEW a \in Approvals PROVE Taken(a)'
    BY <2>1 DEF RequestInv, Taken, Holding, Holds
  <2> QED BY <1>a, <2>2, <2>3, <2>4 DEF RequestInv
<1>7. ASSUME NEW i \in Ids, File(i) PROVE RequestInv'
  <2>1. /\ UNCHANGED <<session, begun, approval, approved, withdrawn, cancelled>>
        /\ call[i] # None /\ call'[i] = None /\ \A j \in Ids \ {i} : call'[j] = call[j] /\ requests'[j] = requests[j]
    BY <1>7, <1>a DEF File, TypeInv, sessionVars
  <2>2. \/ requests'[i] = requests[i]
        \/ /\ requests[i] = None /\ requests'[i].number = begun[i] /\ requests'[i].state = "pending"
           /\ requests'[i].attempts = 0 /\ requests'[i].scope = call[i].scope
           /\ <<call[i].browser, i>> \notin cancelled
    BY <1>7, <1>a DEF File, TypeInv, Admitted
  <2>3. ASSUME NEW j \in Ids PROVE (Numbered(j) /\ Attempted(j) /\ Completed(j))'
    <3>1. CASE j # i
      BY <2>1, <3>1 DEF RequestInv, Registered, Numbered, Attempted, Completed
    <3>2. Numbered(i)'
      BY <2>1, <2>2, <1>c DEF RequestInv, Numbered
    <3>3. Attempted(i)'
      <4>1. 0 < MaxAttempts
        OBVIOUS
      <4> QED BY <2>2, <4>1 DEF RequestInv, Attempted
    <3>4. Completed(i)'
      BY <2>1, <2>2 DEF RequestInv, Registered, Completed
    <3> QED BY <3>1, <3>2, <3>3, <3>4
  <2>4. ASSUME NEW j \in Ids PROVE Once(j)'
    BY <2>1, <2>2, <1>b, <1>c DEF RequestInv, Once
  <2>5. ASSUME NEW j \in Ids PROVE Reached(j)'
    BY <2>1, <2>2, <1>b, <1>c DEF RequestInv, Reached
  <2>6. ASSUME NEW a \in Approvals PROVE Taken(a)'
    <3>1. Held(a) /\ approval[a].id = i => approval[a].number < begun[i]
      BY <2>1 DEF RequestInv, Taken
    <3>2. ASSUME NEW j \in Ids, NEW b \in Approvals, Held(b)
          PROVE  requests'[j] = requests[j] \/ ~Holds(b, j)'
      <4>1. approval[b].id = i => approval[b].number < begun[i]
        BY <2>1, <3>2 DEF RequestInv, Taken
      <4> QED BY <2>1, <2>2, <1>c, <3>2, <4>1 DEF Holds
    <3>3. ASSUME NEW j \in Ids, NEW b \in Approvals, Held(b), Holds(b, j)'
          PROVE  requests'[j] = requests[j] /\ Holds(b, j)
      BY <2>1, <3>2, <3>3 DEF Holds
    <3>4. ASSUME NEW j \in Ids, Holding(a, j)' PROVE Holding(a, j) /\ requests'[j] = requests[j]
      BY <2>1, <3>3, <3>4 DEF Holding, Deciding
    <3>5. \A j \in Ids : Holding(a, j)' =>
             /\ requests'[j].state \in {"verifying", "ended", "complete"}
             /\ approval[a].step \in Deciding => requests'[j].state # "complete" /\ requests'[j].attempts < MaxAttempts
      BY <3>4 DEF RequestInv, Taken
    <3>6. ASSUME NEW j \in Ids, NEW b \in Approvals, Holding(a, j)', Holding(b, j)' PROVE b = a
      <4>1. Holding(a, j) /\ Holding(b, j)
        BY <2>1, <3>3, <3>6 DEF Holding, Deciding
      <4> QED BY <4>1 DEF RequestInv, Taken
    <3>7. \A j \in Ids : Held(a) /\ Holds(a, j)' => approval[a].scope = requests'[j].scope
      BY <3>3 DEF RequestInv, Taken
    <3>8. Held(a) => approval[a].number <= begun[approval[a].id]
      BY DEF RequestInv, Taken
    <3>9. Held(a) /\ call'[approval[a].id] # None => approval[a].number < begun[approval[a].id]
      BY <2>1, <1>c DEF RequestInv, Taken
    <3> QED BY <2>1, <3>5, <3>6, <3>7, <3>8, <3>9 DEF Taken
  <2> QED BY <1>a, <2>3, <2>4, <2>5, <2>6 DEF RequestInv
<1>8. ASSUME NEW i \in Ids, Expire(i) PROVE RequestInv'
  <2>1. /\ UNCHANGED <<session, begun, call, approval, approved, withdrawn, cancelled>>
        /\ \A j \in Ids : requests'[j] \in {requests[j], None}
    BY <1>8, <1>a DEF Expire, TypeInv, sessionVars
  <2>2. ASSUME NEW j \in Ids PROVE (Numbered(j) /\ Once(j) /\ Attempted(j) /\ Reached(j) /\ Completed(j))'
    BY <2>1 DEF RequestInv, Registered, Numbered, Once, Attempted, Reached, Completed
  <2>3. ASSUME NEW a \in Approvals PROVE Taken(a)'
    BY <2>1 DEF RequestInv, Taken, Holding, Holds
  <2> QED BY <1>a, <2>2, <2>3 DEF RequestInv
<1>9. ASSUME NEW i \in Ids, ForgetCancel(i) PROVE RequestInv'
  <2>1. /\ UNCHANGED <<session, begun, call, requests, approval, approved, withdrawn>>
        /\ call[i] = None /\ cancelled' = {c \in cancelled : c[2] # i}
    BY <1>9 DEF ForgetCancel, sessionVars
  <2>2. ASSUME NEW j \in Ids PROVE (Numbered(j) /\ Once(j) /\ Attempted(j) /\ Reached(j) /\ Completed(j))'
    BY <2>1 DEF RequestInv, Registered, Numbered, Once, Attempted, Reached, Completed
  <2>3. ASSUME NEW a \in Approvals PROVE Taken(a)'
    BY <2>1 DEF RequestInv, Taken, Holding, Holds
  <2> QED BY <1>a, <2>2, <2>3 DEF RequestInv
(* What is left for a step that decides requests and moves approvals.      *)
<1>d. ASSUME UNCHANGED <<session, begun, call, withdrawn>>, cancelled' = cancelled,
             \A i \in Ids : /\ requests'[i] = None <=> requests[i] = None
                            /\ requests[i] # None => /\ requests'[i].number = requests[i].number
                                                     /\ requests'[i].scope = requests[i].scope,
             \A b \in Approvals : \/ approval'[b].step = "idle"
                                  \/ /\ Held(b) /\ approval'[b].id = approval[b].id
                                     /\ approval'[b].number = approval[b].number
                                     /\ approval'[b].scope = approval[b].scope,
             \A i \in Ids : (Once(i) /\ Attempted(i) /\ Completed(i))',
             \A b \in Approvals, i \in Ids : Holding(b, i)' =>
                /\ requests'[i].state \in {"verifying", "ended", "complete"}
                /\ approval'[b].step \in Deciding => requests'[i].state # "complete" /\ requests'[i].attempts < MaxAttempts
                /\ \A c \in Approvals : Holding(c, i)' => c = b
      PROVE  RequestInv'
  <2>1. ASSUME NEW i \in Ids PROVE Numbered(i)' /\ Reached(i)'
    BY <1>d, <1>c DEF RequestInv, Numbered, Reached
  <2>2. ASSUME NEW b \in Approvals PROVE Taken(b)'
    <3>1. CASE approval'[b].step = "idle"
      BY <1>d, <3>1 DEF Taken, Holding, Deciding
    <3>2. CASE approval'[b].step # "idle"
      <4>1. Held(b) /\ approval'[b].id = approval[b].id /\ approval'[b].number = approval[b].number
            /\ approval'[b].scope = approval[b].scope
        BY <1>d, <3>2
      <4>2. approval[b].number <= begun[approval[b].id]
            /\ (call[approval[b].id] # None => approval[b].number < begun[approval[b].id])
        BY <4>1 DEF RequestInv, Taken
      <4>3. ASSUME NEW i \in Ids, Holds(b, i)' PROVE approval'[b].scope = requests'[i].scope
        <5>1. Holds(b, i)
          BY <1>d, <4>1, <4>3 DEF Holds
        <5>2. approval[b].scope = requests[i].scope
          BY <4>1, <5>1 DEF RequestInv, Taken
        <5> QED BY <1>d, <4>1, <5>1, <5>2 DEF Holds
      <4> QED BY <1>d, <4>1, <4>2, <4>3 DEF Taken
    <3> QED BY <3>1, <3>2
  <2> QED BY <1>a, <1>d, <2>1, <2>2 DEF RequestInv
(* The request an approval holds is the one it took.                       *)
<1>e. \A b \in Approvals, i \in Ids : Holding(b, i) =>
        /\ Held(b) /\ i = approval[b].id /\ requests[i] # None /\ requests[i].number = approval[b].number
        /\ requests[i].state \in {"verifying", "ended", "complete"}
        /\ approval[b].step \in Deciding => requests[i].state # "complete" /\ requests[i].attempts < MaxAttempts
        /\ \A c \in Approvals : Holding(c, i) => c = b
  BY DEF RequestInv, Taken, Holding, Deciding, Holds
<1>10. ASSUME NEW a \in Approvals, NEW t \in Tokens, NEW i \in Ids, Approve(a, t, i) PROVE RequestInv'
  <2>1. /\ UNCHANGED <<session, begun, call, requests, cancelled, approved, withdrawn>>
        /\ ~Held(a) /\ requests[i] # None /\ requests[i].scope = t
        /\ approval'[a].step = "take" /\ approval'[a].id = i /\ approval'[a].number = requests[i].number /\ approval'[a].scope = t
        /\ \A b \in Approvals \ {a} : approval'[b] = approval[b]
    BY <1>10, <1>a DEF Approve, TypeInv, sessionVars
  <2>2. \A j \in Ids : (Numbered(j) /\ Once(j) /\ Attempted(j) /\ Reached(j) /\ Completed(j))'
    BY <2>1 DEF RequestInv, Registered, Numbered, Once, Attempted, Reached, Completed
  <2>3. \A j \in Ids : ~Holding(a, j)' /\ \A b \in Approvals \ {a} : Holding(b, j)' => Holding(b, j)
    BY <2>1 DEF Holding, Holds, Deciding
  <2>4. Taken(a)'
    BY <2>1, <2>3, <1>b, <1>c DEF RequestInv, Taken, Numbered, Holds
  <2>5. ASSUME NEW b \in Approvals \ {a} PROVE Taken(b)'
    <3>1. /\ Held(b) => approval[b].number <= begun[approval[b].id]
          /\ Held(b) /\ call[approval[b].id] # None => approval[b].number < begun[approval[b].id]
          /\ \A j \in Ids : Held(b) /\ Holds(b, j) => approval[b].scope = requests[j].scope
      BY DEF RequestInv, Taken
    <3>2. \A j \in Ids : Holds(b, j)' <=> Holds(b, j)
      BY <2>1 DEF Holds
    <3>3. \A j \in Ids : Holding(b, j)' =>
             /\ requests[j].state \in {"verifying", "ended", "complete"}
             /\ approval[b].step \in Deciding => requests[j].state # "complete" /\ requests[j].attempts < MaxAttempts
             /\ \A c \in Approvals : Holding(c, j)' => c = b
      BY <1>e, <2>3
    <3> QED BY <2>1, <3>1, <3>2, <3>3 DEF Taken
  <2> QED BY <1>a, <2>2, <2>4, <2>5 DEF RequestInv
<1>11. ASSUME NEW a \in Approvals, Take(a) PROVE RequestInv'
  <2> DEFINE j == approval[a].id
  <2>1. /\ UNCHANGED <<session, begun, call, cancelled, approved, withdrawn>>
        /\ Held(a) /\ approval[a].step = "take" /\ j \in Ids
        /\ \A b \in Approvals \ {a} : approval'[b] = approval[b]
    BY <1>11, <1>a, <1>c DEF Take, TypeInv, sessionVars, Goes
  <2>2. CASE Takes(a)
    <3>1. /\ requests[j] # None /\ requests[j].state = "pending" /\ requests'[j].state = "verifying"
          /\ requests'[j] # None /\ requests'[j].number = requests[j].number /\ requests'[j].scope = requests[j].scope
          /\ requests'[j].attempts = requests[j].attempts
          /\ \A i \in Ids \ {j} : requests'[i] = requests[i]
          /\ approval'[a].step = "snapshot" /\ approval'[a].id = j /\ approval'[a].number = approval[a].number
          /\ approval'[a].scope = approval[a].scope
      <4>1. /\ requests[j] \in Request /\ requests[j].state = "pending" /\ requests[j] # None
            /\ requests' = [requests EXCEPT ![j] = [requests[j] EXCEPT !.state = "verifying"]]
            /\ approval' = [approval EXCEPT ![a] = [approval[a] EXCEPT !.step = "snapshot"]]
        BY <1>11, <1>a, <2>1, <2>2 DEF Take, Takes, Holds, Goes, TypeInv
      <4>2. approval[a] \in Grant
        BY <1>a DEF TypeInv
      <4>3. [requests[j] EXCEPT !.state = "verifying"] \in Request
        BY <4>1 DEF Request
      <4>4. requests'[j] = [requests[j] EXCEPT !.state = "verifying"] /\ requests'[j] # None
        BY <1>a, <2>1, <4>1, <4>3, RequestAssumption DEF TypeInv
      <4>5. /\ requests'[j].state = "verifying" /\ requests'[j].number = requests[j].number
            /\ requests'[j].scope = requests[j].scope /\ requests'[j].attempts = requests[j].attempts
        BY <4>1, <4>4 DEF Request
      <4>6. /\ approval'[a].step = "snapshot" /\ approval'[a].id = j /\ approval'[a].number = approval[a].number
            /\ approval'[a].scope = approval[a].scope
        BY <1>a, <4>1, <4>2 DEF TypeInv, Grant
      <4> QED BY <1>a, <4>1, <4>4, <4>5, <4>6 DEF TypeInv
    <3>2. \A i \in Ids : (Once(i) /\ Attempted(i) /\ Completed(i))'
      BY <2>1, <3>1 DEF RequestInv, Registered, Once, Attempted, Completed
    <3>3. requests[j].attempts < MaxAttempts
      BY <2>1, <3>1 DEF RequestInv, Attempted
    <3>4. \A b \in Approvals, i \in Ids : Holding(b, i)' => (b = a /\ i = j) \/ (b # a /\ i # j /\ Holding(b, i))
      <4>1. \A b \in Approvals : ~Holding(b, j)
        BY <1>e, <2>1, <3>1
      <4>2. ASSUME NEW b \in Approvals \ {a}, NEW i \in Ids, Holding(b, i)' PROVE Holding(b, i)
        BY <2>1, <3>1, <4>2 DEF Holding, Holds
      <4> QED BY <2>1, <3>1, <4>1, <4>2 DEF Holding, Holds
    <3>5. \A b \in Approvals, i \in Ids : Holding(b, i)' =>
                /\ requests'[i].state \in {"verifying", "ended", "complete"}
                /\ approval'[b].step \in Deciding => requests'[i].state # "complete" /\ requests'[i].attempts < MaxAttempts
                /\ \A c \in Approvals : Holding(c, i)' => c = b
      BY <1>e, <2>1, <3>1, <3>3, <3>4
    <3>6. \A i \in Ids : /\ requests'[i] = None <=> requests[i] = None
                         /\ requests[i] # None => requests'[i].number = requests[i].number /\ requests'[i].scope = requests[i].scope
      BY <3>1
    <3> QED BY <1>d, <2>1, <3>1, <3>2, <3>5, <3>6
  <2>3. CASE ~Takes(a)
    <3>1. requests' = requests /\ approval'[a].step = "idle"
      BY <1>11, <1>a, <2>3 DEF Take, TypeInv, Idle
    <3>2. \A i \in Ids : (Once(i) /\ Attempted(i) /\ Completed(i))'
      BY <2>1, <3>1 DEF RequestInv, Registered, Once, Attempted, Completed
    <3>3. \A b \in Approvals, i \in Ids : Holding(b, i)' => b # a /\ Holding(b, i)
      BY <2>1, <3>1 DEF Holding, Holds, Deciding
    <3> QED BY <1>d, <1>e, <2>1, <3>1, <3>2, <3>3
  <2> QED BY <2>2, <2>3
(* An approval goes on with what it took.                                  *)
<1>12. ASSUME NEW a \in Approvals, Snapshot(a) \/ VerifyRight(a) \/ BrowserCheck(a) \/ Refused(a) PROVE RequestInv'
  <2>1. /\ UNCHANGED <<session, begun, call, requests, cancelled, approved, withdrawn>>
        /\ approval[a].step \in Deciding /\ approval'[a].step \in Deciding \cup {"release"}
        /\ approval'[a].id = approval[a].id /\ approval'[a].number = approval[a].number
        /\ approval'[a].scope = approval[a].scope
        /\ \A b \in Approvals \ {a} : approval'[b] = approval[b]
    <3>1. approval[a] \in Grant
      BY <1>a DEF TypeInv
    <3> QED BY <1>12, <1>a, <3>1 DEF Snapshot, VerifyRight, BrowserCheck, Refused, Goes, TypeInv, Grant, sessionVars, Deciding
  <2>2. \A i \in Ids : (Once(i) /\ Attempted(i) /\ Completed(i))'
    BY <2>1 DEF RequestInv, Registered, Once, Attempted, Completed
  <2>3. \A b \in Approvals, i \in Ids : Holding(b, i)' => Holding(b, i)
    BY <2>1 DEF Holding, Holds
  <2>4. \A b \in Approvals : approval'[b].step \in Deciding => approval[b].step \in Deciding
    BY <2>1
  <2>5. \A b \in Approvals : \/ approval'[b].step = "idle"
                             \/ /\ Held(b) /\ approval'[b].id = approval[b].id
                                /\ approval'[b].number = approval[b].number /\ approval'[b].scope = approval[b].scope
    BY <2>1 DEF Deciding
  <2> QED BY <1>d, <1>e, <2>1, <2>2, <2>3, <2>4, <2>5
<1>13. ASSUME NEW a \in Approvals, VerifyWrong(a) PROVE RequestInv'
  <2> DEFINE j == approval[a].id
  <2>1. /\ UNCHANGED <<session, begun, call, cancelled, approved, withdrawn>>
        /\ Held(a) /\ approval[a].step \in Deciding /\ j \in Ids
        /\ approval'[a].step = "release" /\ approval'[a].id = j /\ approval'[a].number = approval[a].number
        /\ approval'[a].scope = approval[a].scope
        /\ \A b \in Approvals \ {a} : approval'[b] = approval[b]
    BY <1>13, <1>a, <1>c DEF VerifyWrong, TypeInv, Grant, sessionVars, Goes, Deciding
  <2>2. CASE Holds(a, j)
    <3>1. /\ requests'[j] # None /\ requests'[j].number = requests[j].number /\ requests'[j].scope = requests[j].scope
          /\ requests'[j].attempts = requests[j].attempts + 1
          /\ requests'[j].state = IF requests[j].attempts + 1 >= MaxAttempts THEN "ended" ELSE requests[j].state
          /\ \A i \in Ids \ {j} : requests'[i] = requests[i]
      <4>1. requests[j] \in Request /\ requests' \in [Ids -> Request \cup {None}]
        BY <1>a, <2>1, <2>2 DEF TypeInv, Holds
      <4>2. requests' = [requests EXCEPT ![j] = [requests[j] EXCEPT !.attempts = requests[j].attempts + 1,
                            !.state = IF requests[j].attempts + 1 >= MaxAttempts THEN "ended" ELSE requests[j].state]]
        BY <1>13, <2>1, <2>2, <4>1 DEF VerifyWrong, Request
      <4>3. /\ requests'[j] = [requests[j] EXCEPT !.attempts = requests[j].attempts + 1,
                            !.state = IF requests[j].attempts + 1 >= MaxAttempts THEN "ended" ELSE requests[j].state]
            /\ \A i \in Ids \ {j} : requests'[i] = requests[i]
        BY <1>a, <2>1, <4>2 DEF TypeInv
      <4>4. requests[j].attempts + 1 \in Nat /\ requests[j].state \in {"pending", "verifying", "complete", "ended"}
        BY <4>1 DEF Request
      <4>5. [requests[j] EXCEPT !.attempts = requests[j].attempts + 1,
               !.state = IF requests[j].attempts + 1 >= MaxAttempts THEN "ended" ELSE requests[j].state] \in Request
        BY <4>1, <4>4 DEF Request
      <4>6. requests'[j] # None
        BY <4>3, <4>5, RequestAssumption
      <4> QED BY <4>1, <4>3, <4>6 DEF Request
    <3>2. /\ Holding(a, j) /\ requests[j] # None /\ requests[j].attempts \in Nat /\ requests[j].attempts < MaxAttempts
          /\ requests[j].state \in {"verifying", "ended"}
      BY <1>b, <1>e, <2>1, <2>2 DEF Holding, Holds
    <3>3. ASSUME NEW i \in Ids PROVE (Once(i) /\ Completed(i))'
      BY <2>1, <3>1, <3>2 DEF RequestInv, Registered, Once, Completed
    <3>4. ASSUME NEW i \in Ids PROVE Attempted(i)'
      BY <2>1, <3>1, <3>2 DEF RequestInv, Attempted
    <3>5. \A b \in Approvals, i \in Ids : Holding(b, i)' => Holding(b, i)
      BY <2>1, <2>2, <3>1, <3>2 DEF Holding, Holds
    <3>6. \A b \in Approvals, i \in Ids : Holding(b, i)' =>
                /\ requests'[i].state \in {"verifying", "ended", "complete"}
                /\ approval'[b].step \in Deciding => requests'[i].state # "complete" /\ requests'[i].attempts < MaxAttempts
                /\ \A c \in Approvals : Holding(c, i)' => c = b
      <4>1. \A b \in Approvals : Holding(b, j)' => approval'[b].step = "release"
        BY <1>e, <2>1, <3>2, <3>5
      <4>2. requests'[j].state \in {"verifying", "ended"}
        BY <3>1, <3>2
      <4>3. \A b \in Approvals, i \in Ids \ {j} : Holding(b, i)' => b # a
        BY <1>e, <2>1, <3>5
      <4> QED BY <1>e, <2>1, <3>1, <3>5, <4>1, <4>2, <4>3 DEF Deciding
    <3>7. \A i \in Ids : /\ requests'[i] = None <=> requests[i] = None
                         /\ requests[i] # None => requests'[i].number = requests[i].number /\ requests'[i].scope = requests[i].scope
      BY <3>1, <3>2
    <3> QED BY <1>d, <2>1, <3>3, <3>4, <3>6, <3>7
  <2>3. CASE ~Holds(a, j)
    <3>1. requests' = requests
      BY <1>13, <2>3 DEF VerifyWrong
    <3>2. \A i \in Ids : (Once(i) /\ Attempted(i) /\ Completed(i))'
      BY <2>1, <3>1 DEF RequestInv, Registered, Once, Attempted, Completed
    <3>3. \A b \in Approvals, i \in Ids : Holding(b, i)' => Holding(b, i) /\ b # a
      BY <2>1, <2>3, <3>1 DEF Holding, Holds
    <3> QED BY <1>d, <1>e, <2>1, <3>1, <3>2, <3>3
  <2> QED BY <2>2, <2>3
(* The three ways to decide a request, under all three guards.             *)
<1>14. ASSUME NEW a \in Approvals, Exclude(a) \/ CommitCreate(a) \/ CommitGet(a) PROVE RequestInv'
  <2> DEFINE j == approval[a].id
             n == approval[a].number
  <2>1. PICK end \in {"ended", "complete"} :
           /\ UNCHANGED <<session, begun, call, cancelled, withdrawn>>
           /\ approval[a].step = "commit" /\ Committable(a) /\ Decide(a, end)
           /\ approved' = approved \/ (end = "complete" /\ Counted(a))
           /\ Goes(a, "release")
    BY <1>14 DEF Exclude, CommitCreate, CommitGet, sessionVars
  <2>2. /\ Held(a) /\ j \in Ids /\ approval'[a].step = "release" /\ approval'[a].id = j
        /\ approval'[a].number = n /\ approval'[a].scope = approval[a].scope
        /\ \A b \in Approvals \ {a} : approval'[b] = approval[b]
    <3>1. approval[a] \in Grant
      BY <1>a DEF TypeInv
    <3> QED BY <1>a, <1>c, <2>1, <3>1 DEF TypeInv, Grant, Goes
  <2>3. /\ Holds(a, j) /\ requests[j] # None /\ requests[j].number = n /\ requests[j].state = "verifying"
        /\ session[approval[a].scope] = "live" /\ requests[j].scope = approval[a].scope
    BY <2>1, <2>2 DEF Committable, Holds, RequestInv, Taken
  <2>4. /\ requests'[j] # None /\ requests'[j].number = n /\ requests'[j].scope = requests[j].scope
        /\ requests'[j].attempts = requests[j].attempts /\ requests'[j].state = end
        /\ \A i \in Ids \ {j} : requests'[i] = requests[i]
    <3>1. requests[j] \in Request
      BY <1>a, <2>2, <2>3 DEF TypeInv
    <3>2. [requests[j] EXCEPT !.state = end] \in Request
      BY <3>1 DEF Request
    <3>3. requests'[j] = [requests[j] EXCEPT !.state = end] /\ \A i \in Ids \ {j} : requests'[i] = requests[i]
      BY <2>1, <2>2, <2>3 DEF Decide, Holds
    <3> QED BY <2>3, <3>1, <3>2, <3>3, RequestAssumption DEF Request
  <2>5. n \in 1..MaxBegins /\ n <= begun[j] /\ (call[j] # None => n < begun[j])
    BY <1>b, <2>2, <2>3 DEF RequestInv, Numbered
  <2>6. approved[<<j, n>>] = 0
    BY <2>2, <2>3, <2>5 DEF RequestInv, Once
  <2>7. /\ \A i \in Ids, m \in 1..MaxBegins : i # j \/ m # n => approved'[<<i, m>>] = approved[<<i, m>>]
        /\ approved'[<<j, n>>] = 0 \/ (approved'[<<j, n>>] = 1 /\ end = "complete")
    BY <1>a, <2>1, <2>2, <2>5, <2>6 DEF Counted, TypeInv, Calls
  <2>8. ASSUME NEW i \in Ids PROVE Once(i)'
    <3>1. ASSUME NEW m \in 1..MaxBegins, approved'[<<i, m>>] # 0
          PROVE  /\ approved'[<<i, m>>] = 1
                 /\ m <= begun[i] /\ (call[i] # None => m < begun[i])
                 /\ requests'[i] # None /\ requests'[i].number = m => requests'[i].state \in {"complete", "ended"}
      <4>1. CASE i = j /\ m = n
        BY <2>4, <2>5, <2>7, <3>1, <4>1
      <4>2. CASE ~(i = j /\ m = n)
        <5>1. approved'[<<i, m>>] = approved[<<i, m>>]
          BY <2>7, <4>2
        <5>2. /\ approved[<<i, m>>] = 1
              /\ m <= begun[i] /\ (call[i] # None => m < begun[i])
              /\ requests[i] # None /\ requests[i].number = m => requests[i].state \in {"complete", "ended"}
          BY <3>1, <5>1 DEF RequestInv, Once
        <5> QED BY <2>4, <4>2, <5>1, <5>2
      <4> QED BY <4>1, <4>2
    <3> QED BY <2>1, <3>1 DEF Once
  <2>9. ASSUME NEW i \in Ids PROVE Attempted(i)' /\ Completed(i)'
    BY <2>1, <2>3, <2>4 DEF RequestInv, Registered, Attempted, Completed
  <2>10. \A b \in Approvals, i \in Ids : Holding(b, i)' => Holding(b, i) /\ (b = a <=> i = j)
    <3>1. Holding(a, j)
      BY <2>1, <2>3 DEF Holding, Deciding
    <3>2. \A b \in Approvals, i \in Ids : Holding(b, i)' => Holding(b, i)
      BY <2>2, <2>3, <2>4, <3>1 DEF Holding, Holds
    <3> QED BY <1>e, <3>1, <3>2
  <2>11. \A b \in Approvals, i \in Ids : Holding(b, i)' =>
                /\ requests'[i].state \in {"verifying", "ended", "complete"}
                /\ approval'[b].step \in Deciding => requests'[i].state # "complete" /\ requests'[i].attempts < MaxAttempts
                /\ \A c \in Approvals : Holding(c, i)' => c = b
    <3>1. approval'[a].step \notin Deciding
      BY <2>2 DEF Deciding
    <3> QED BY <1>e, <2>2, <2>4, <2>10, <3>1
  <2>12. \A i \in Ids : /\ requests'[i] = None <=> requests[i] = None
                        /\ requests[i] # None => requests'[i].number = requests[i].number /\ requests'[i].scope = requests[i].scope
    BY <2>3, <2>4
  <2> QED BY <1>d, <2>1, <2>2, <2>8, <2>9, <2>11, <2>12
<1>15. ASSUME NEW a \in Approvals, Release(a) PROVE RequestInv'
  <2> DEFINE j == approval[a].id
  <2>1. /\ UNCHANGED <<session, begun, call, cancelled, approved, withdrawn>>
        /\ Held(a) /\ approval[a].step = "release" /\ j \in Ids /\ approval'[a].step = "idle"
        /\ \A b \in Approvals \ {a} : approval'[b] = approval[b]
    BY <1>15, <1>a, <1>c DEF Release, TypeInv, sessionVars, Idle
  <2>2. CASE Holds(a, j) /\ requests[j].state = "verifying"
    <3>1. /\ requests[j] # None
          /\ requests'[j] # None /\ requests'[j].number = requests[j].number /\ requests'[j].scope = requests[j].scope
          /\ requests'[j].attempts = requests[j].attempts /\ requests'[j].state = "pending"
          /\ \A i \in Ids \ {j} : requests'[i] = requests[i]
      <4>1. requests[j] \in Request /\ requests[j] # None
        BY <1>a, <2>1, <2>2 DEF TypeInv, Holds
      <4>2. requests' = [requests EXCEPT ![j] = [requests[j] EXCEPT !.state = "pending"]]
        BY <1>15, <2>2 DEF Release
      <4>3. requests'[j] = [requests[j] EXCEPT !.state = "pending"] /\ \A i \in Ids \ {j} : requests'[i] = requests[i]
        BY <1>a, <2>1, <4>2 DEF TypeInv
      <4>4. [requests[j] EXCEPT !.state = "pending"] \in Request
        BY <4>1 DEF Request
      <4> QED BY <4>1, <4>3, <4>4, RequestAssumption DEF Request
    <3>2. \A i \in Ids : (Once(i) /\ Attempted(i) /\ Completed(i))'
      BY <2>1, <2>2, <3>1 DEF RequestInv, Registered, Once, Attempted, Completed
    <3>3. Holding(a, j)
      BY <2>1, <2>2 DEF Holding
    <3>4. \A b \in Approvals, i \in Ids : Holding(b, i)' => Holding(b, i) /\ b # a /\ i # j
      <4>1. \A b \in Approvals, i \in Ids : Holding(b, i)' => Holding(b, i) /\ b # a
        BY <2>1, <3>1 DEF Holding, Holds, Deciding
      <4> QED BY <1>e, <3>3, <4>1
    <3>5. \A b \in Approvals, i \in Ids : Holding(b, i)' =>
                /\ requests'[i].state \in {"verifying", "ended", "complete"}
                /\ approval'[b].step \in Deciding => requests'[i].state # "complete" /\ requests'[i].attempts < MaxAttempts
                /\ \A c \in Approvals : Holding(c, i)' => c = b
      BY <1>e, <2>1, <3>1, <3>4
    <3>6. \A i \in Ids : /\ requests'[i] = None <=> requests[i] = None
                         /\ requests[i] # None => requests'[i].number = requests[i].number /\ requests'[i].scope = requests[i].scope
      BY <3>1
    <3> QED BY <1>d, <2>1, <3>2, <3>5, <3>6
  <2>3. CASE ~(Holds(a, j) /\ requests[j].state = "verifying")
    <3>1. requests' = requests
      BY <1>15, <2>3 DEF Release
    <3>2. \A i \in Ids : (Once(i) /\ Attempted(i) /\ Completed(i))'
      BY <2>1, <3>1 DEF RequestInv, Registered, Once, Attempted, Completed
    <3>3. \A b \in Approvals, i \in Ids : Holding(b, i)' => Holding(b, i) /\ b # a
      BY <2>1, <3>1 DEF Holding, Holds, Deciding
    <3> QED BY <1>d, <1>e, <2>1, <3>1, <3>2, <3>3
  <2> QED BY <2>2, <2>3
<1>16. ASSUME NEW t \in Tokens, NEW j \in Ids, Reject(t, j) PROVE RequestInv'
  <2>1. /\ UNCHANGED <<session, begun, call, cancelled, approval, approved, withdrawn>>
        /\ requests[j] # None /\ requests[j].state # "complete"
        /\ requests' = [requests EXCEPT ![j] = [requests[j] EXCEPT !.state = "ended"]]
    BY <1>16 DEF Reject, sessionVars
  <2>2. /\ requests'[j] # None /\ requests'[j].number = requests[j].number /\ requests'[j].scope = requests[j].scope
        /\ requests'[j].attempts = requests[j].attempts /\ requests'[j].state = "ended"
        /\ \A i \in Ids \ {j} : requests'[i] = requests[i]
    <3>1. requests[j] \in Request
      BY <1>a, <2>1 DEF TypeInv
    <3>2. requests'[j] = [requests[j] EXCEPT !.state = "ended"] /\ \A i \in Ids \ {j} : requests'[i] = requests[i]
      BY <1>a, <2>1 DEF TypeInv
    <3>3. [requests[j] EXCEPT !.state = "ended"] \in Request
      BY <3>1 DEF Request
    <3> QED BY <3>1, <3>2, <3>3, RequestAssumption DEF Request
  <2>3. \A i \in Ids : (Once(i) /\ Attempted(i) /\ Completed(i))'
    BY <2>1, <2>2 DEF RequestInv, Registered, Once, Attempted, Completed
  <2>4. \A b \in Approvals, i \in Ids : Holding(b, i)' => Holding(b, i)
    BY <2>1, <2>2 DEF Holding, Holds
  <2>5. \A b \in Approvals, i \in Ids : Holding(b, i)' =>
                /\ requests'[i].state \in {"verifying", "ended", "complete"}
                /\ approval'[b].step \in Deciding => requests'[i].state # "complete" /\ requests'[i].attempts < MaxAttempts
                /\ \A c \in Approvals : Holding(c, i)' => c = b
    BY <1>e, <2>1, <2>2, <2>4
  <2>6. \A i \in Ids : /\ requests'[i] = None <=> requests[i] = None
                       /\ requests[i] # None => requests'[i].number = requests[i].number /\ requests'[i].scope = requests[i].scope
    BY <2>1, <2>2
  <2>7. \A b \in Approvals : \/ approval'[b].step = "idle"
                             \/ /\ Held(b) /\ approval'[b].id = approval[b].id
                                /\ approval'[b].number = approval[b].number /\ approval'[b].scope = approval[b].scope
    BY <2>1
  <2> QED BY <1>d, <2>1, <2>3, <2>5, <2>6, <2>7
<1>17. ASSUME NEW b \in Browsers,
              Disconnect(b) \/ StatusReturn(b) \/ (\E t \in Tokens : Pair(b, t)) \/ (\E i \in Ids : StatusCheck(i, b))
       PROVE  RequestInv'
  BY <1>4, <1>17 DEF Disconnect, StatusReturn, Pair, StatusCheck, sessionVars
<1>18. ASSUME NEW t \in Tokens, Edit(t) PROVE RequestInv'
  BY <1>4, <1>18 DEF Edit, sessionVars
<1>19. CASE UNCHANGED vars
  BY <1>4, <1>19 DEF vars, sessionVars, requestVars
<1>20. ASSUME NEW i \in Ids, CancelLost(i) PROVE RequestInv'
  <2>1. requests[i].browser \in Browsers
    BY <1>a, <1>20 DEF CancelLost, TypeInv, Request
  <2> QED BY <1>6, <1>20, <2>1 DEF CancelLost
<1>21. CASE SessionStep
  BY <1>1, <1>2, <1>3, <1>21 DEF SessionStep
<1>22. CASE Browser
  BY <1>5, <1>6, <1>7, <1>8, <1>9, <1>17, <1>20, <1>22 DEF Browser, Cancel
<1>23. CASE Owner
  BY <1>10, <1>11, <1>12, <1>13, <1>14, <1>15, <1>16, <1>18, <1>23 DEF Owner, Approving
<1> QED BY <1>19, <1>21, <1>22, <1>23 DEF Next

-----------------------------------------------------------------------------
(* The whole invariant holds of every reachable state.                     *)
LEMMA RequestInvariant == Spec => []RequestInv
<1>1. Init => RequestInv
  <2> SUFFICES ASSUME Init PROVE RequestInv
    OBVIOUS
  <2> USE PasskeyAssumption DEF Init, SessionInit
  <2>1. Idle \in Grant /\ Idle.step = "idle"
    BY DEF Grant, Steps, Idle
  <2>2. [generation |-> 0, edits |-> {}, credentials |-> {}] \in Local
    BY DEF Local
  <2>3. TypeInv
    BY <2>1, <2>2 DEF TypeInv, Sessions, Held, Later
  <2>4. ASSUME NEW i \in Ids PROVE Numbered(i) /\ Once(i) /\ Attempted(i) /\ Reached(i) /\ Completed(i)
    BY DEF Numbered, Once, Attempted, Reached, Completed, Calls
  <2>5. ASSUME NEW a \in Approvals PROVE Taken(a)
    BY <2>1 DEF Taken, Held, Holding, Holds
  <2> QED BY <2>3, <2>4, <2>5 DEF RequestInv
<1> QED BY <1>1, RequestStep, PTL DEF Spec

(* No call of begin is approved twice, whatever the number of approvals    *)
(* that work on it and however often its identity is used again.           *)
THEOREM OneApproval == Spec => []ApprovedOnce
<1>1. RequestInv => ApprovedOnce
  <2> SUFFICES ASSUME RequestInv, NEW c \in Calls PROVE approved[c] <= 1
    BY DEF ApprovedOnce
  <2>1. PICK i \in Ids, n \in 1..MaxBegins : c = <<i, n>>
    BY DEF Calls
  <2>2. approved[<<i, n>>] = 0 \/ approved[<<i, n>>] = 1
    BY DEF RequestInv, Once
  <2> QED BY <2>1, <2>2
<1> QED BY <1>1, RequestInvariant, PTL

(* The last wrong password ends the request for good.                      *)
THEOREM LockoutIsFinal == Spec => []LockoutHolds
<1>1. RequestInv => LockoutHolds
  <2> SUFFICES ASSUME RequestInv, NEW i \in Ids, requests[i] # None, requests[i].attempts >= MaxAttempts
               PROVE  requests[i].state = "ended"
    BY DEF LockoutHolds
  <2>1. requests[i].attempts \in Nat /\ MaxAttempts \in Nat
    BY PasskeyAssumption DEF RequestInv, TypeInv, Request
  <2> QED BY <2>1 DEF RequestInv, Attempted
<1> QED BY <1>1, RequestInvariant, PTL

(* A result waits only while its session is in the table.                  *)
THEOREM ResultsEndWithSession == Spec => []ResultNeedsSession
<1>1. RequestInv => ResultNeedsSession
  <2> SUFFICES ASSUME RequestInv, NEW b \in Browsers, Delivered(b)
               PROVE  Registered(requests[poll[b][1]].scope)
    BY DEF ResultNeedsSession
  <2>1. poll[b][1] \in Ids
    BY DEF RequestInv, TypeInv, Delivered, Calls
  <2> QED BY <2>1 DEF RequestInv, Completed, Delivered, Current
<1> QED BY <1>1, RequestInvariant, PTL

(* Only a request that stands is approved: not withdrawn, still the one    *)
(* that was taken, of a session still in the table.                        *)
THEOREM OnlyStandingApproved == Spec => NoApprovalAfterEnd
<1>1. RequestInv /\ [Next]_vars =>
        \A c \in Calls : approved'[c] > approved[c] =>
          /\ c \notin withdrawn
          /\ Current(c) /\ requests[c[1]].state = "verifying"
          /\ Registered(requests[c[1]].scope)
  <2> SUFFICES ASSUME RequestInv, [Next]_vars, NEW c \in Calls, approved'[c] > approved[c]
               PROVE  /\ c \notin withdrawn
                      /\ Current(c) /\ requests[c[1]].state = "verifying"
                      /\ Registered(requests[c[1]].scope)
    OBVIOUS
  <2>1. approved \in [Calls -> Nat]
    BY DEF RequestInv, TypeInv
  <2>2. approved' # approved
    <3> HIDE DEF Calls
    <3>1. approved[c] \in Nat
      BY <2>1
    <3> QED BY <3>1
  <2>3. PICK a \in Approvals : approval[a].step = "commit" /\ Committable(a) /\ Counted(a)
    BY <2>2 DEF Next, SessionStep, requestVars, Browser, Owner, Approving, Pair, Disconnect, StatusReturn, Cancel,
                CancelLost, CancelFor, StatusCheck, Begin, File, Expire, ForgetCancel, Approve, Take, Snapshot,
                VerifyWrong, VerifyRight, BrowserCheck, Refused, Exclude, CommitCreate, CommitGet, Release, Edit,
                Reject, vars
  <2> DEFINE i == approval[a].id
             n == approval[a].number
  <2>4. c = <<i, n>>
    <3>1. approved[c] \in Nat
      BY <2>1
    <3> HIDE DEF Calls
    <3> QED BY <2>1, <2>3, <3>1 DEF Counted
  <2>5. /\ i \in Ids /\ requests[i] # None /\ requests[i].number = n /\ requests[i].state = "verifying"
        /\ requests[i].scope = approval[a].scope /\ n \in 1..MaxBegins
    BY <2>3, <2>4 DEF RequestInv, TypeInv, Taken, Held, Committable, Holds, Calls
  <2>6. session[requests[i].scope] = "live"
    BY <2>3, <2>5 DEF Committable
  <2>7. <<i, n>> \notin withdrawn
    BY <2>5, <2>6 DEF RequestInv, Reached
  <2> QED BY <2>4, <2>5, <2>6, <2>7 DEF Current, Registered
<1> QED BY <1>1, RequestInvariant, PTL DEF NoApprovalAfterEnd, Spec

-----------------------------------------------------------------------------
(* What an approval captured before it verified the password is the vault  *)
(* of its generation; no vault goes back a generation.                     *)
Captured(a) ==
    approval[a].step \in Later =>
        /\ approval[a].snapshot.generation <= local[approval[a].scope].generation
        /\ approval[a].snapshot.generation = local[approval[a].scope].generation =>
              approval[a].snapshot.edits = local[approval[a].scope].edits

Kept(x) == x \in 1..edits <=> \E t \in Tokens : x \in local[t].edits

EditInv == (\A a \in Approvals : Captured(a)) /\ \A x \in 1..MaxEdits : Kept(x)

(* Every step keeps it: a commit of an old generation is refused.          *)
LEMMA EditStep == TypeInv /\ EditInv /\ [Next]_vars => EditInv'
<1> SUFFICES ASSUME TypeInv, EditInv, [Next]_vars PROVE EditInv'
  OBVIOUS
<1> USE PasskeyAssumption
<1>a. /\ \A t \in Tokens : local[t].generation \in Nat /\ local[t].edits \subseteq 1..MaxEdits
      /\ \A a \in Approvals : approval[a].step \in Later =>
            /\ approval[a].scope \in Tokens /\ approval[a].snapshot.generation \in Nat
            /\ approval[a].snapshot.edits \subseteq 1..MaxEdits
      /\ edits \in Nat
  BY DEF TypeInv, Local, Held, Later
<1>1. ASSUME UNCHANGED <<local, edits>>,
             \A a \in Approvals : approval'[a].step \in Later =>
                \/ /\ approval[a].step \in Later /\ approval'[a].scope = approval[a].scope
                   /\ approval'[a].snapshot = approval[a].snapshot
                \/ approval'[a].snapshot = local[approval'[a].scope] /\ approval'[a].scope \in Tokens
      PROVE  EditInv'
  <2>1. ASSUME NEW a \in Approvals PROVE Captured(a)'
    BY <1>a, <1>1 DEF EditInv, Captured
  <2>2. \A x \in 1..MaxEdits : Kept(x)'
    BY <1>1 DEF EditInv, Kept
  <2> QED BY <2>1, <2>2 DEF EditInv
<1>2. ASSUME UNCHANGED <<local, edits, approval>> PROVE EditInv'
  BY <1>2 DEF EditInv, Captured, Kept
<1>3. ASSUME NEW a \in Approvals, NEW t \in Tokens, NEW i \in Ids, Approve(a, t, i) PROVE EditInv'
  <2>1. approval'[a].step \notin Later /\ \A b \in Approvals \ {a} : approval'[b] = approval[b]
    BY <1>3 DEF Approve, TypeInv, Later
  <2> QED BY <1>1, <1>3, <2>1 DEF Approve
<1>4. ASSUME NEW a \in Approvals, Snapshot(a) PROVE EditInv'
  <2>1. approval[a] \in Grant /\ approval[a].scope \in Tokens
    BY <1>4 DEF TypeInv, Snapshot, Held
  <2>2. approval'[a].snapshot = local[approval'[a].scope] /\ approval'[a].scope \in Tokens
    BY <1>4, <2>1 DEF Snapshot, TypeInv, Grant
  <2>3. \A b \in Approvals \ {a} : approval'[b] = approval[b]
    BY <1>4 DEF Snapshot, TypeInv
  <2> QED BY <1>1, <1>4, <2>2, <2>3 DEF Snapshot
<1>5. ASSUME NEW a \in Approvals,
             Take(a) \/ VerifyWrong(a) \/ VerifyRight(a) \/ BrowserCheck(a) \/ Refused(a) \/ Exclude(a) \/ CommitGet(a) \/ Release(a)
      PROVE  EditInv'
  <2>1. UNCHANGED <<local, edits>> /\ \A b \in Approvals \ {a} : approval'[b] = approval[b]
    BY <1>5 DEF TypeInv, Goes, Take, VerifyWrong, VerifyRight, BrowserCheck, Refused, Exclude, CommitGet, Release
  <2>2. approval[a] \in Grant /\ Idle.step \notin Later
    BY DEF TypeInv, Idle, Later
  <2>3. approval'[a].step \in Later =>
           /\ approval[a].step \in Later /\ approval'[a].scope = approval[a].scope
           /\ approval'[a].snapshot = approval[a].snapshot
    BY <1>5, <2>2 DEF TypeInv, Goes, Take, VerifyWrong, VerifyRight, BrowserCheck, Refused, Exclude, CommitGet, Release,
                      Grant, Later
  <2> QED BY <1>1, <2>1, <2>3
<1>6. ASSUME NEW a \in Approvals, CommitCreate(a) PROVE EditInv'
  <2> DEFINE s == approval[a].scope
  <2>1. /\ s \in Tokens /\ edits' = edits
        /\ approval[a].snapshot.generation = local[s].generation /\ approval[a].snapshot.edits = local[s].edits
        /\ local'[s].generation = local[s].generation + 1 /\ local'[s].edits = local[s].edits
        /\ \A t \in Tokens \ {s} : local'[t] = local[t]
    <3>1. approval[a].step \in Later /\ s \in Tokens /\ Committable(a)
      BY <1>6, <1>a DEF CommitCreate, Later
    <3>2. approval[a].snapshot.generation = local[s].generation /\ approval[a].snapshot.edits = local[s].edits
      BY <3>1 DEF Committable, EditInv, Captured
    <3> QED BY <1>6, <3>1, <3>2 DEF CommitCreate, TypeInv
  <2>2. approval'[a].step \notin Later /\ \A b \in Approvals \ {a} : approval'[b] = approval[b]
    BY <1>6 DEF CommitCreate, Goes, TypeInv, Grant, Later
  <2>3. ASSUME NEW b \in Approvals PROVE Captured(b)'
    <3>1. CASE approval'[b].step \in Later
      <4>1. approval'[b] = approval[b] /\ approval[b].scope \in Tokens /\ approval[b].snapshot.generation \in Nat
        BY <1>a, <2>2, <3>1
      <4>2. /\ approval[b].snapshot.generation <= local[approval[b].scope].generation
            /\ approval[b].snapshot.generation = local[approval[b].scope].generation =>
                  approval[b].snapshot.edits = local[approval[b].scope].edits
        BY <3>1, <4>1 DEF EditInv, Captured
      <4>3. CASE approval[b].scope = s
        BY <1>a, <2>1, <4>1, <4>2, <4>3 DEF Captured
      <4>4. CASE approval[b].scope # s
        BY <2>1, <4>1, <4>2, <4>4 DEF Captured
      <4> QED BY <4>3, <4>4
    <3> QED BY <3>1 DEF Captured
  <2>4. \A t \in Tokens : local'[t].edits = local[t].edits
    BY <2>1
  <2>5. \A x \in 1..MaxEdits : Kept(x)'
    BY <2>1, <2>4 DEF EditInv, Kept
  <2> QED BY <2>3, <2>5 DEF EditInv
<1>7. ASSUME NEW s \in Tokens, Edit(s) PROVE EditInv'
  <2>1. /\ edits' = edits + 1 /\ edits < MaxEdits /\ approval' = approval
        /\ local'[s].generation = local[s].generation + 1 /\ local'[s].edits = local[s].edits \cup {edits + 1}
        /\ \A t \in Tokens \ {s} : local'[t] = local[t]
    BY <1>7 DEF Edit, TypeInv, Local
  <2>2. ASSUME NEW b \in Approvals PROVE Captured(b)'
    <3>1. CASE approval[b].step \in Later
      <4>1. approval[b].scope \in Tokens /\ approval[b].snapshot.generation \in Nat
        BY <1>a, <3>1
      <4>2. /\ approval[b].snapshot.generation <= local[approval[b].scope].generation
            /\ approval[b].snapshot.generation = local[approval[b].scope].generation =>
                  approval[b].snapshot.edits = local[approval[b].scope].edits
        BY <3>1 DEF EditInv, Captured
      <4>3. CASE approval[b].scope = s
        BY <1>a, <2>1, <4>1, <4>2, <4>3 DEF Captured
      <4>4. CASE approval[b].scope # s
        BY <2>1, <4>1, <4>2, <4>4 DEF Captured
      <4> QED BY <4>3, <4>4
    <3> QED BY <2>1, <3>1 DEF Captured
  <2>3. ASSUME NEW x \in 1..MaxEdits PROVE Kept(x)'
    <3>1. x \in 1..edits <=> \E t \in Tokens : x \in local[t].edits
      BY DEF EditInv, Kept
    <3>2. \A t \in Tokens : x \in local'[t].edits <=> x \in local[t].edits \/ (t = s /\ x = edits + 1)
      BY <2>1
    <3>3. x \in 1..(edits + 1) <=> x \in 1..edits \/ x = edits + 1
      BY <1>a
    <3> QED BY <2>1, <3>1, <3>2, <3>3 DEF Kept
  <2> QED BY <2>2, <2>3 DEF EditInv
<1>8. CASE SessionStep
  BY <1>2, <1>8 DEF SessionStep, requestVars
<1>9. CASE Browser
  BY <1>2, <1>9 DEF Browser, Pair, Disconnect, StatusReturn, Cancel, CancelLost, CancelFor, StatusCheck, Begin, File,
                    Expire, ForgetCancel
<1>10. ASSUME NEW t \in Tokens, NEW i \in Ids, Reject(t, i) PROVE EditInv'
  BY <1>2, <1>10 DEF Reject
<1>11. CASE Owner
  BY <1>3, <1>4, <1>5, <1>6, <1>7, <1>10, <1>11 DEF Owner, Approving
<1>12. CASE UNCHANGED vars
  BY <1>2, <1>12 DEF vars, requestVars
<1> QED BY <1>8, <1>9, <1>11, <1>12 DEF Next

(* An approval that took its copy of the vault before it verified the      *)
(* password never writes over an edit the owner made meanwhile.            *)
THEOREM EditsKept == Spec => []NoEditLost
<1>1. Init => EditInv
  BY PasskeyAssumption DEF Init, EditInv, Captured, Kept, Idle, Later
<1>2. TypeInv /\ EditInv => NoEditLost
  <2> SUFFICES ASSUME TypeInv, EditInv PROVE UNION {local[t].edits : t \in Tokens} = 1..edits
    BY DEF NoEditLost
  <2>1. \A t \in Tokens : local[t].edits \subseteq 1..MaxEdits
    BY DEF TypeInv, Local
  <2>2. 1..edits \subseteq 1..MaxEdits
    BY PasskeyAssumption DEF TypeInv
  <2>3. \A x \in 1..MaxEdits : x \in 1..edits <=> \E t \in Tokens : x \in local[t].edits
    BY DEF EditInv, Kept
  <2> QED BY <2>1, <2>2, <2>3
<1>3. RequestInv => TypeInv
  BY DEF RequestInv
<1> QED BY <1>1, <1>2, <1>3, RequestInvariant, EditStep, PTL DEF Spec

-----------------------------------------------------------------------------
(***************************************************************************)
(* BrowserConnect.  The lemmas on its session table are about the steps of *)
(* SessionManager alone, whatever a module that extends it conjoins.       *)
(***************************************************************************)

(* An interrupted unlock has not registered, and when it is still under    *)
(* way its epoch is an old one: that is what registration compares.        *)
Outdated ==
    \A t \in Tokens :
        /\ expected[t] <= epoch
        /\ t \in interrupted => session[t] # "none"
        /\ t \in interrupted /\ session[t] = "opening" => expected[t] < epoch

SessionInv == SessionType /\ BlockedMeansLocked /\ NoUnlockAcrossLock /\ Outdated

(* The empty table satisfies the invariant.                                *)
LEMMA SessionStart == SessionInit => SessionInv
<1> SUFFICES ASSUME SessionInit PROVE SessionInv
  OBVIOUS
<1>1. SessionType
  <2>1. 0 \in 0..MaxEpoch
    BY SessionAssumption
  <2>2. session \in [Tokens -> {"none", "opening", "live", "idle", "gone"}]
    BY DEF SessionInit
  <2>3. expected \in [Tokens -> 0..MaxEpoch]
    BY <2>1 DEF SessionInit
  <2> QED BY <2>1, <2>2, <2>3 DEF SessionInit, SessionType
<1>2. BlockedMeansLocked /\ NoUnlockAcrossLock
  BY DEF SessionInit, BlockedMeansLocked, NoUnlockAcrossLock
<1>3. Outdated
  BY DEF SessionInit, Outdated
<1> QED BY <1>1, <1>2, <1>3 DEF SessionInv

(* Every method of the manager preserves it: an unlock that registers is   *)
(* of the present epoch, so it was not interrupted.                        *)
LEMMA SessionsStep ==
  SessionInv /\ (Opening \/ Locking \/ UNCHANGED sessionVars) => SessionInv'
<1> SUFFICES ASSUME SessionInv, Opening \/ Locking \/ UNCHANGED sessionVars
             PROVE  SessionInv'
  OBVIOUS
<1> USE SessionAssumption
    DEF SessionInv, SessionType, BlockedMeansLocked, NoUnlockAcrossLock,
        Outdated, Registered
<1>1. ASSUME NEW t \in Tokens, BeginUnlock(t) PROVE SessionInv'
  BY <1>1 DEF BeginUnlock
<1>2. ASSUME NEW t \in Tokens, UnlockFails(t) PROVE SessionInv'
  BY <1>2 DEF UnlockFails
<1>3. ASSUME NEW t \in Tokens, Register(t) PROVE SessionInv'
  <2>1. CASE Cancelled(t)
    BY <1>3, <2>1 DEF Register
  <2>2. CASE ~Cancelled(t)
    <3>1. ~blocked /\ t \notin interrupted
      BY <1>3, <2>2 DEF Register, Cancelled
    <3> QED BY <1>3, <2>2, <3>1 DEF Register
  <2> QED BY <2>1, <2>2
<1>4. ASSUME NEW t \in Tokens, BecomeIdle(t) PROVE SessionInv'
  BY <1>4 DEF BecomeIdle
<1>5. ASSUME NEW t \in Tokens, SweepIdle(t) PROVE SessionInv'
  BY <1>5 DEF SweepIdle
<1>6. ASSUME NEW t \in Tokens, Lock(t) PROVE SessionInv'
  BY <1>6 DEF Lock, Interrupt
<1>7. ASSUME NEW b \in BOOLEAN, SetSystemBlocked(b) PROVE SessionInv'
  BY <1>7 DEF SetSystemBlocked, LockAll, Interrupt
<1>8. CASE ResetRenderer
  BY <1>8 DEF ResetRenderer, LockAll, Interrupt
<1>9. CASE UNCHANGED sessionVars
  BY <1>9 DEF sessionVars
<1> QED BY <1>1, <1>2, <1>3, <1>4, <1>5, <1>6, <1>7, <1>8, <1>9 DEF Opening, Locking

-----------------------------------------------------------------------------
(* Every step is one of the session manager's or leaves its table alone.   *)
LEMMA OnSessions ==
  [ConnectNext]_<<sessionVars, connectVars>> =>
    Opening \/ Locking \/ UNCHANGED sessionVars
<1> SUFFICES ASSUME [ConnectNext]_<<sessionVars, connectVars>>
             PROVE Opening \/ Locking \/ UNCHANGED sessionVars
  OBVIOUS
<1>1. ASSUME NEW r \in Requests, ConnectBrowser(r) PROVE UNCHANGED sessionVars
  BY <1>1 DEF ConnectBrowser, Ask, Count, FileConnection, Refuse,
              Poll, PollUnknown
<1>2. ASSUME NEW r \in Requests, Claiming(r) PROVE UNCHANGED sessionVars
  BY <1>2 DEF Claiming, ClaimCheck, Enroll, Recheck, Undo,
              Publish
<1>3. ASSUME NEW r \in Requests, ExpireConnection(r) \/ Forget(r)
      PROVE UNCHANGED sessionVars
  BY <1>3 DEF ExpireConnection, Forget
<1>4. ASSUME NEW t \in Tokens, ConnectOwner(t) PROVE UNCHANGED sessionVars
  BY <1>4 DEF ConnectOwner, ApproveConnection, Deny, RevokeDevice
<1>5. CASE UNCHANGED <<sessionVars, connectVars>>
  BY <1>5
<1> QED BY <1>1, <1>2, <1>3, <1>4, <1>5 DEF ConnectNext

(* No vault is open while Windows is locked, and no unlock that was under  *)
(* way during a lock opens one, for any number of unlocks and lock events. *)
THEOREM SessionsSafe == ConnectSpec => [](BlockedMeansLocked /\ NoUnlockAcrossLock)
<1>1. ConnectInit => SessionInv
  BY SessionStart DEF ConnectInit
<1>2. SessionInv /\ [ConnectNext]_<<sessionVars, connectVars>> => SessionInv'
  BY SessionsStep, OnSessions
<1>3. SessionInv => BlockedMeansLocked /\ NoUnlockAcrossLock
  BY DEF SessionInv
<1> QED BY <1>1, <1>2, <1>3, PTL DEF ConnectSpec

-----------------------------------------------------------------------------
(* The parts of the type invariant that belong to the requests.            *)
States == {"none", "asking", "counted", "refused", "enrolled"} \cup Live \cup Terminal
ClaimSteps == {"none", "check", "enroll", "recheck", "revoke", "publish", "done"}
RequestType ==
    /\ binding \in [Requests -> Vaults \cup {NoVault}]
    /\ state \in [Requests -> States]
    /\ table \subseteq Requests /\ devices \subseteq Requests /\ revoked \subseteq Requests
    /\ claim \in [Requests -> ClaimSteps]
    /\ told \in [Requests -> {"none", "approved", "unknown"} \cup Terminal]
    /\ pick \in [Requests -> {"none", "right", "wrong"}]

(* A request that nobody has decided carries no choice, and until its first*)
(* poll after the approval nothing claims it.                              *)
Undecided == {"none", "asking", "counted", "refused", "pending"}
Fresh(r) ==
    /\ state[r] \in Undecided => pick[r] = "none"
    /\ state[r] \in Undecided \cup {"approved"} => claim[r] = "none"

(* What is approved, being claimed or enrolled was chosen.                 *)
Decided(r) ==
    /\ state[r] \in {"approved", "claiming"} => pick[r] = "right"
    /\ claim[r] \in {"check", "enroll", "recheck"} => pick[r] = "right"
    /\ r \in devices => pick[r] = "right"

Served(r) == state[r] = "claiming" => claim[r] \in {"check", "enroll", "recheck", "publish"}

ChoiceInv == RequestType /\ \A r \in Requests : Fresh(r) /\ Decided(r) /\ Served(r)

(* Every step of a browser, of the owner, of the clock and of the session  *)
(* manager's hook preserves it.                                            *)
LEMMA ChoiceStep == ChoiceInv /\ [ConnectNext]_<<sessionVars, connectVars>> => ChoiceInv'
<1> SUFFICES ASSUME ChoiceInv, [ConnectNext]_<<sessionVars, connectVars>> PROVE ChoiceInv'
  OBVIOUS
<1> USE DEF ChoiceInv, RequestType, States, ClaimSteps, Live, Terminal, Fresh,
            Undecided, Decided, Served
<1>1. ASSUME NEW r \in Requests, Ask(r) PROVE ChoiceInv'
  BY <1>1 DEF Ask
<1>2. ASSUME NEW r \in Requests, Count(r) PROVE ChoiceInv'
  BY <1>2 DEF Count
<1>3. ASSUME NEW r \in Requests, FileConnection(r) PROVE ChoiceInv'
  BY <1>3 DEF FileConnection
<1>4. ASSUME NEW r \in Requests, Refuse(r) PROVE ChoiceInv'
  BY <1>4 DEF Refuse
<1>5. ASSUME NEW r \in Requests, Poll(r) PROVE ChoiceInv'
  BY <1>5 DEF Poll, Answer
<1>6. ASSUME NEW r \in Requests, PollUnknown(r) PROVE ChoiceInv'
  BY <1>6 DEF PollUnknown
<1>7. ASSUME NEW r \in Requests, ClaimCheck(r) PROVE ChoiceInv'
  BY <1>7 DEF ClaimCheck, ClaimEnds, Answer
<1>8. ASSUME NEW r \in Requests, Enroll(r) PROVE ChoiceInv'
  BY <1>8 DEF Enroll, ClaimEnds, Answer
<1>9. ASSUME NEW r \in Requests, Recheck(r) PROVE ChoiceInv'
  BY <1>9 DEF Recheck
<1>10. ASSUME NEW r \in Requests, Undo(r) PROVE ChoiceInv'
  BY <1>10 DEF Undo, Answer
<1>11. ASSUME NEW r \in Requests, Publish(r) PROVE ChoiceInv'
  BY <1>11 DEF Publish, Answer
<1>12. ASSUME NEW r \in Requests, ExpireConnection(r) PROVE ChoiceInv'
  BY <1>12 DEF ExpireConnection
<1>13. ASSUME NEW r \in Requests, Forget(r) PROVE ChoiceInv'
  BY <1>13 DEF Forget
<1>14. ASSUME NEW t \in Tokens, NEW r \in Requests, ApproveConnection(t, r, "right") \/ ApproveConnection(t, r, "wrong")
      PROVE ChoiceInv'
  BY <1>14 DEF ApproveConnection, Owns, Pending
<1>15. ASSUME NEW t \in Tokens, NEW rs, Deny(t, rs) PROVE ChoiceInv'
  BY <1>15 DEF Deny, Owns, Pending
<1>16. ASSUME NEW t \in Tokens, NEW r \in Requests, RevokeDevice(t, r) PROVE ChoiceInv'
  BY <1>16 DEF RevokeDevice
<1>17. CASE Retain
  BY <1>17 DEF Retain, Ended
<1>18. CASE UNCHANGED connectVars
  BY <1>18 DEF connectVars
<1> QED BY <1>1, <1>2, <1>3, <1>4, <1>5, <1>6, <1>7, <1>8, <1>9,
            <1>10, <1>11, <1>12, <1>13, <1>14, <1>15, <1>16, <1>17, <1>18
         DEF ConnectNext, ConnectBrowser, Claiming, ConnectOwner

(* At first nothing is filed, chosen, claimed or enrolled.                 *)
LEMMA ChoiceStart == ConnectInit => ChoiceInv
  BY DEF ConnectInit, ChoiceInv, RequestType, States, ClaimSteps, Live, Terminal,
         Fresh, Undecided, Decided, Served

(* Every enrolled device was chosen with the right code at the first try,  *)
(* for any number of requests that are open at a time.                     *)
THEOREM DevicesAreChosen == ConnectSpec => []OnlyChosenDevices
<1>1. ChoiceInv => OnlyChosenDevices
  BY DEF ChoiceInv, RequestType, Decided, OnlyChosenDevices
<1> QED BY <1>1, ChoiceStart, ChoiceStep, PTL DEF ConnectSpec

(* No request stays in `claiming`, which no deadline ends, without a claim *)
(* under way.                                                              *)
THEOREM ClaimsAreServed == ConnectSpec => []ClaimingIsServed
<1>1. ChoiceInv => ClaimingIsServed
  BY DEF ChoiceInv, Served, ClaimingIsServed
<1> QED BY <1>1, ChoiceStart, ChoiceStep, PTL DEF ConnectSpec

(* What a claim has enrolled is still there when it is handed over, unless *)
(* the owner has revoked it or its own claim tore it; a claim that has not *)
(* ended told nobody so.                                                   *)
Enrolled(r) == r \in devices \cup revoked \cup torn
HandedOver(r) ==
    /\ state[r] = "enrolled" \/ told[r] = "approved" => claim[r] = "done" /\ Enrolled(r)
    /\ claim[r] \in {"recheck", "revoke", "publish"} => Enrolled(r)

HandoverInv == ChoiceInv /\ \A r \in Requests : HandedOver(r)

LEMMA HandoverStep ==
  HandoverInv /\ [ConnectNext]_<<sessionVars, connectVars>> => HandoverInv'
<1> SUFFICES ASSUME HandoverInv, [ConnectNext]_<<sessionVars, connectVars>>
             PROVE (\A r \in Requests : HandedOver(r))'
  BY ChoiceStep DEF HandoverInv
<1> DEFINE Inv == \A r \in Requests : HandedOver(r)
<1> USE DEF HandoverInv, ChoiceInv, RequestType, States, ClaimSteps, Live,
            Terminal, Fresh, Undecided, HandedOver, Enrolled
<1>1. ASSUME NEW r \in Requests, Ask(r) PROVE Inv'
  BY <1>1 DEF Ask
<1>2. ASSUME NEW r \in Requests, Count(r) PROVE Inv'
  BY <1>2 DEF Count
<1>3. ASSUME NEW r \in Requests, FileConnection(r) PROVE Inv'
  BY <1>3 DEF FileConnection
<1>4. ASSUME NEW r \in Requests, Refuse(r) PROVE Inv'
  BY <1>4 DEF Refuse
<1>5. ASSUME NEW r \in Requests, Poll(r) PROVE Inv'
  BY <1>5 DEF Poll, Answer
<1>6. ASSUME NEW r \in Requests, PollUnknown(r) PROVE Inv'
  BY <1>6 DEF PollUnknown
<1>7. ASSUME NEW r \in Requests, ClaimCheck(r) PROVE Inv'
  BY <1>7 DEF ClaimCheck, ClaimEnds, Answer
<1>8. ASSUME NEW r \in Requests, Enroll(r) PROVE Inv'
  BY <1>8 DEF Enroll, ClaimEnds, Answer
<1>9. ASSUME NEW r \in Requests, Recheck(r) PROVE Inv'
  BY <1>9 DEF Recheck
<1>10. ASSUME NEW r \in Requests, Undo(r) PROVE Inv'
  BY <1>10 DEF Undo, Answer
<1>11. ASSUME NEW r \in Requests, Publish(r) PROVE Inv'
  BY <1>11 DEF Publish, Answer
<1>12. ASSUME NEW r \in Requests, ExpireConnection(r) PROVE Inv'
  BY <1>12 DEF ExpireConnection
<1>13. ASSUME NEW r \in Requests, Forget(r) PROVE Inv'
  BY <1>13 DEF Forget
<1>14. ASSUME NEW t \in Tokens, NEW r \in Requests, ApproveConnection(t, r, "right") \/ ApproveConnection(t, r, "wrong")
      PROVE Inv'
  BY <1>14 DEF ApproveConnection, Owns, Pending
<1>15. ASSUME NEW t \in Tokens, NEW rs, Deny(t, rs) PROVE Inv'
  BY <1>15 DEF Deny, Owns, Pending
<1>16. ASSUME NEW t \in Tokens, NEW r \in Requests, RevokeDevice(t, r) PROVE Inv'
  BY <1>16 DEF RevokeDevice
<1>17. CASE Retain
  BY <1>17 DEF Retain, Ended
<1>18. CASE UNCHANGED connectVars
  BY <1>18 DEF connectVars
<1> QED BY <1>1, <1>2, <1>3, <1>4, <1>5, <1>6, <1>7, <1>8, <1>9,
            <1>10, <1>11, <1>12, <1>13, <1>14, <1>15, <1>16, <1>17, <1>18
         DEF ConnectNext, ConnectBrowser, Claiming, ConnectOwner

(* Whoever is told that it is connected holds a device that exists or that *)
(* the owner revoked, for any interleaving of locks with enrolments, unless*)
(* the revocation that its own claim asked for failed on the index.        *)
THEOREM HandedOverIsEnrolled == ConnectSpec => []ApprovedIsEnrolled
<1>1. ConnectInit => HandoverInv
  BY ChoiceStart DEF ConnectInit, HandoverInv, HandedOver
<1>2. HandoverInv /\ [ConnectNext]_<<sessionVars, connectVars>> => HandoverInv'
  BY HandoverStep
<1>3. HandoverInv => ApprovedIsEnrolled
  BY DEF HandoverInv, HandedOver, Enrolled, ApprovedIsEnrolled
<1> QED BY <1>1, <1>2, <1>3, PTL DEF ConnectSpec

-----------------------------------------------------------------------------
(* A request that ended with a refusal has no claim under way and no       *)
(* device; a browser that was told so was told the state of its record,    *)
(* and that never changes again.                                           *)
Refusals == Terminal \ {"locked"}
Settled(r) ==
    /\ state[r] \in Refusals => claim[r] \in {"none", "done"} /\ r \notin devices
    /\ told[r] \in Refusals => state[r] = told[r]
    /\ r \in devices => claim[r] \in {"recheck", "revoke", "publish"} \/ state[r] = "enrolled"
    /\ state[r] = "enrolled" => claim[r] = "done"
    /\ claim[r] \in {"check", "enroll", "recheck", "revoke", "publish"} => state[r] \in {"claiming", "locked"}

SettledInv == ChoiceInv /\ \A r \in Requests : Settled(r)

(* No step of a claim, of the owner or of the clock revives a refusal,     *)
(* also when the credential store fails in the middle of a revocation.     *)
LEMMA SettledStep == SettledInv /\ [ConnectNext]_<<sessionVars, connectVars>> => SettledInv'
<1> SUFFICES ASSUME SettledInv, [ConnectNext]_<<sessionVars, connectVars>>
             PROVE (\A r \in Requests : Settled(r))'
  BY ChoiceStep DEF SettledInv
<1> DEFINE Inv == \A r \in Requests : Settled(r)
<1> USE DEF SettledInv, ChoiceInv, RequestType, States, ClaimSteps, Live, Terminal,
            Refusals, Fresh, Undecided, Settled
<1>1. ASSUME NEW r \in Requests, Ask(r) PROVE Inv'
  BY <1>1 DEF Ask
<1>2. ASSUME NEW r \in Requests, Count(r) PROVE Inv'
  BY <1>2 DEF Count
<1>3. ASSUME NEW r \in Requests, FileConnection(r) PROVE Inv'
  BY <1>3 DEF FileConnection
<1>4. ASSUME NEW r \in Requests, Refuse(r) PROVE Inv'
  BY <1>4 DEF Refuse
<1>5. ASSUME NEW r \in Requests, Poll(r) PROVE Inv'
  BY <1>5 DEF Poll, Answer
<1>6. ASSUME NEW r \in Requests, PollUnknown(r) PROVE Inv'
  BY <1>6 DEF PollUnknown
<1>7. ASSUME NEW r \in Requests, ClaimCheck(r) PROVE Inv'
  BY <1>7 DEF ClaimCheck, ClaimEnds, Answer
<1>8. ASSUME NEW r \in Requests, Enroll(r) PROVE Inv'
  BY <1>8 DEF Enroll, ClaimEnds, Answer
<1>9. ASSUME NEW r \in Requests, Recheck(r) PROVE Inv'
  BY <1>9 DEF Recheck
<1>10. ASSUME NEW r \in Requests, Undo(r) PROVE Inv'
  BY <1>10 DEF Undo, Answer
<1>11. ASSUME NEW r \in Requests, Publish(r) PROVE Inv'
  BY <1>11 DEF Publish, Answer
<1>12. ASSUME NEW r \in Requests, ExpireConnection(r) PROVE Inv'
  BY <1>12 DEF ExpireConnection
<1>13. ASSUME NEW r \in Requests, Forget(r) PROVE Inv'
  BY <1>13 DEF Forget
<1>14. ASSUME NEW t \in Tokens, NEW r \in Requests, ApproveConnection(t, r, "right") \/ ApproveConnection(t, r, "wrong")
      PROVE Inv'
  BY <1>14 DEF ApproveConnection, Owns, Pending
<1>15. ASSUME NEW t \in Tokens, NEW rs, Deny(t, rs) PROVE Inv'
  BY <1>15 DEF Deny, Owns, Pending
<1>16. ASSUME NEW t \in Tokens, NEW r \in Requests, RevokeDevice(t, r) PROVE Inv'
  BY <1>16 DEF RevokeDevice
<1>17. CASE Retain
  BY <1>17 DEF Retain, Ended
<1>18. CASE UNCHANGED connectVars
  BY <1>18 DEF connectVars
<1> QED BY <1>1, <1>2, <1>3, <1>4, <1>5, <1>6, <1>7, <1>8, <1>9,
            <1>10, <1>11, <1>12, <1>13, <1>14, <1>15, <1>16, <1>17, <1>18
         DEF ConnectNext, ConnectBrowser, Claiming, ConnectOwner

(* A browser that was told that its request was denied, has expired, met a *)
(* limit or failed holds no device once its polls are over.                *)
THEOREM RefusedHoldsNothing == ConnectSpec => []RefusedIsNotEnrolled
<1>1. ConnectInit => SettledInv
  BY ChoiceStart DEF ConnectInit, SettledInv, Settled, Refusals, Terminal
<1>2. SettledInv => RefusedIsNotEnrolled
  BY DEF SettledInv, Settled, Refusals, RefusedIsNotEnrolled
<1> QED BY <1>1, <1>2, SettledStep, PTL DEF ConnectSpec

-----------------------------------------------------------------------------
(* A set that loses elements, or gains one while there is room, stays      *)
(* within its limit.                                                       *)
LEMMA Bounded ==
    ASSUME NEW S, NEW T, NEW n \in Nat, IsFiniteSet(S), Cardinality(S) <= n,
           T \subseteq S \/ \E r : Cardinality(S) < n /\ T \subseteq S \cup {r}
    PROVE  IsFiniteSet(T) /\ Cardinality(T) <= n
<1>1. Cardinality(S) \in Nat
  BY FS_CardinalityType
<1>2. CASE T \subseteq S
  <2>1. IsFiniteSet(T) /\ Cardinality(T) \in Nat /\ Cardinality(T) <= Cardinality(S)
    BY <1>2, FS_Subset, FS_CardinalityType
  <2> QED BY <1>1, <2>1
<1>3. ASSUME NEW r, Cardinality(S) < n, T \subseteq S \cup {r}
      PROVE  IsFiniteSet(T) /\ Cardinality(T) <= n
  <2>1. IsFiniteSet(S \cup {r}) /\ Cardinality(S \cup {r}) \in Nat /\ Cardinality(S \cup {r}) <= n
    BY <1>1, <1>3, FS_AddElement, FS_CardinalityType
  <2>2. IsFiniteSet(T) /\ Cardinality(T) \in Nat /\ Cardinality(T) <= Cardinality(S \cup {r})
    BY <1>3, <2>1, FS_Subset, FS_CardinalityType
  <2> QED BY <2>1, <2>2
<1> QED BY <1>2, <1>3

(* Only an enrolment adds a device, and only filing adds a request; both   *)
(* look at the limit in the same step.                                     *)
Grows(S, T, room) == T \subseteq S \/ \E r : room /\ T \subseteq S \cup {r}

LEMMA Growth ==
    ChoiceInv /\ [ConnectNext]_<<sessionVars, connectVars>> =>
        /\ Grows(devices, devices', RoomForDevice)
        /\ Grows(Pending, Pending', Room)
<1> SUFFICES ASSUME ChoiceInv, [ConnectNext]_<<sessionVars, connectVars>>
             PROVE  /\ Grows(devices, devices', RoomForDevice)
                    /\ Grows(Pending, Pending', Room)
  OBVIOUS
<1> USE DEF ChoiceInv, RequestType, Grows, Pending
<1>1. ASSUME NEW r \in Requests, FileConnection(r)
      PROVE  UNCHANGED devices /\ Room /\ Pending' \subseteq Pending \cup {r}
  BY <1>1 DEF FileConnection, Accepted
<1>2. ASSUME NEW r \in Requests, Enroll(r)
      PROVE  /\ devices' \subseteq devices \/ (RoomForDevice /\ devices' \subseteq devices \cup {r})
             /\ Pending' \subseteq Pending
  BY <1>2 DEF Enroll, ClaimEnds
<1>3. ASSUME NEW r \in Requests,
             Ask(r) \/ Count(r) \/ Refuse(r) \/ Poll(r)
             \/ PollUnknown(r) \/ ExpireConnection(r) \/ Forget(r)
      PROVE  UNCHANGED devices /\ Pending' \subseteq Pending
  BY <1>3 DEF Ask, Count, Refuse, Poll, PollUnknown,
              ExpireConnection, Forget
<1>4. ASSUME NEW r \in Requests,
             ClaimCheck(r) \/ Recheck(r) \/ Undo(r) \/ Publish(r)
      PROVE  devices' \subseteq devices /\ Pending' \subseteq Pending
  BY <1>4 DEF ClaimCheck, Recheck, Undo, Publish, ClaimEnds
<1>5. ASSUME NEW t \in Tokens, ConnectOwner(t)
      PROVE  devices' \subseteq devices /\ Pending' \subseteq Pending
  BY <1>5 DEF ConnectOwner, ApproveConnection, Deny, RevokeDevice, Owns
<1>6. CASE Retain \/ UNCHANGED connectVars
  BY <1>6 DEF Retain, connectVars
<1> QED BY <1>1, <1>2, <1>3, <1>4, <1>5, <1>6 DEF ConnectNext, ConnectBrowser,
                                                  Claiming

LimitsInv ==
    /\ ChoiceInv
    /\ IsFiniteSet(devices) /\ IsFiniteSet(Pending)
    /\ WithinLimits

(* However many requests and claims pass their first checks at the same    *)
(* time, the devices and the open requests stay within their limits.       *)
THEOREM LimitsHold == ConnectSpec => []WithinLimits
<1>1. ConnectInit => LimitsInv
  <2> SUFFICES ASSUME ConnectInit PROVE LimitsInv
    OBVIOUS
  <2>1. devices = {} /\ Pending = {}
    BY DEF ConnectInit, Pending
  <2> QED BY <2>1, ChoiceStart, FS_EmptySet, ConnectAssumption DEF LimitsInv, WithinLimits
<1>2. LimitsInv /\ [ConnectNext]_<<sessionVars, connectVars>> => LimitsInv'
  <2> SUFFICES ASSUME LimitsInv, [ConnectNext]_<<sessionVars, connectVars>> PROVE LimitsInv'
    OBVIOUS
  <2>1. ChoiceInv'
    BY ChoiceStep DEF LimitsInv
  <2>2. /\ IsFiniteSet(devices') /\ Cardinality(devices') <= MaxDevices
        /\ IsFiniteSet(Pending') /\ Cardinality(Pending') <= MaxPending
    BY Growth, Bounded, ConnectAssumption DEF LimitsInv, WithinLimits, Grows, RoomForDevice,
                                     Room
  <2> QED BY <2>1, <2>2, ConnectAssumption DEF LimitsInv, WithinLimits
<1> QED BY <1>1, <1>2, PTL DEF ConnectSpec, LimitsInv
=============================================================================
