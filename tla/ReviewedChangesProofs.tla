------------------------ MODULE ReviewedChangesProofs ------------------------
(***************************************************************************)
(* Reviewed changes for any number of unlocks, worker threads, accounts,   *)
(* backups, refused saves and overwritten files: no unseen edit is lost,   *)
(* only what was shown is applied or deleted, and what was refused stays   *)
(* out.                                                                    *)
(*                                                                         *)
(* All of it rests on what an id names: every image of the vault, on disk, *)
(* in a backup or in an approval, is known by it, so that a session whose  *)
(* revision is the file's has seen the file, and an approval whose digest  *)
(* is found has shown what is found.                                       *)
(***************************************************************************)
EXTENDS ReviewedChanges, TLAPS

(* The versions of the vault that somebody may still put in place.         *)
Showing == {"restore", "recover", "startup"}
Images == {file} \cup {b.f : b \in backups} \cup {a.shown : a \in approvals}
          \cup {request[r].a.shown : r \in {s \in Requests : request[s].at \in Showing}}

(* A content without a change that was refused.                            *)
Clean(c) ==
    /\ c = [e \in Entries |-> c[e]]
    /\ \A e \in Entries : c[e] \in Nat /\ c[e] <= fresh /\ c[e] \notin refused.changes

(* An image is known by its id: encryption makes every one new.            *)
Pictured ==
    /\ \A f \in Images :
        /\ f = File(f.id, f.v, f.content) /\ f.id \in Nat /\ f.id <= fresh
        /\ Clean(f.content) /\ (f.id = 0 => f = NoFile)
    /\ \A f \in Images, g \in Images : f.id = g.id => f = g

(* A session holds what the file with its revision holds, but for the      *)
(* deletion marks that a refused save left.                                *)
Matches(c, d) == \A e \in Entries : c[e] = d[e] \/ c[e] \in refused.marks
Opened(t) == session[t].st # "none"
Fit(s) ==
    /\ s = [st |-> s.st, gen |-> s.gen, rev |-> s.rev, v |-> s.v, content |-> s.content, saved |-> s.saved]
    /\ Clean(s.content) /\ s.rev \in Nat /\ s.rev <= fresh
    /\ s.st # "none" => s.rev # 0 /\ \A f \in Images : f.id = s.rev => Matches(s.content, f.content)

(* What an upgrade was approved for is the file with the id it names.      *)
Exact(a) ==
    /\ a.active \in Nat /\ a.active <= fresh /\ (a.active = 0 => a.content = NoEntries)
    /\ \A f \in Images : f.id = a.active => f.content = a.content

(* A version that an entry had or has.                                     *)
Kept(n) == n \in Nat /\ n <= fresh /\ n \notin refused.changes
Removing == {"resolved", "recorded", "marked"}

Task(q) ==
    \/ q = Idle
    \/ /\ q = [at |-> q.at, t |-> q.t, a |-> q.a, es |-> q.es, path |-> q.path, seen |-> q.seen, then |-> q.then]
       /\ q.at # "idle" /\ q.then \in {"idle", "batch", "upgrade"}
       /\ q.at \in {"pin", "upgrade"} => q.then = "upgrade"
       /\ q.at \in {"save", "batch", "receipt", "undo"} \cup Removing \/ q.then # "idle" => q.t \in Tokens /\ Opened(q.t)
       /\ q.at \in {"batch", "receipt"} \/ q.then = "batch" => Clean(q.a.content) /\ q.es \subseteq q.a.es
       /\ q.at = "undo" => Clean(q.a.before)
       /\ q.at = "save" => q.es \subseteq Entries
       /\ q.at = "delete" => q.es \subseteq q.a.es
       /\ q.at \in Removing => q.then = "idle" /\ q.es \subseteq Entries /\ Kept(q.a.seen)
       /\ q.then = "upgrade" => Clean(q.a.content) /\ Exact(q.a)

(* An upgrade that is on its way keeps its session from changing.          *)
Upgrading(q) == q.at \notin {"idle", "lock_all"} /\ q.then = "upgrade"

Inv ==
    /\ fresh \in Nat /\ \A n \in refused.changes : n \in Nat /\ n # 0 /\ n <= fresh
    /\ Pictured
    /\ session = [t \in Tokens |-> session[t]] /\ \A t \in Tokens : Fit(session[t])
    /\ \A a \in approvals : Clean(a.content)
    /\ \A c \in receipts : Clean(c.before)
    /\ request = [r \in Requests |-> request[r]] /\ \A r \in Requests : Task(request[r])
    /\ \A r \in Requests : Upgrading(request[r]) => Matches(session[request[r].t].content, request[r].a.content)

-----------------------------------------------------------------------------
(* What is drawn and refused from one state to the next.                   *)
Grows ==
    \/ fresh' = fresh /\ refused' = refused
    \/ /\ fresh' = fresh + 1 /\ refused.marks \subseteq refused'.marks
       /\ \A n \in refused'.changes : n \in refused.changes \/ n = fresh + 1

(* At most one new image appears, or an unreadable file.                   *)
NewImage(g) ==
    \/ g = NoFile
    \/ fresh' = fresh + 1 /\ g = File(g.id, g.v, g.content) /\ g.id = fresh + 1 /\ Clean(g.content)'

LEMMA CleanStays ==
  ASSUME Inv, Grows, NEW c, Clean(c) PROVE Clean(c)'
<1>1. ASSUME NEW e \in Entries PROVE c[e] \in Nat /\ c[e] <= fresh' /\ c[e] \notin refused'.changes
  BY DEF Clean, Grows, Inv
<1> QED BY <1>1 DEF Clean

LEMMA PicturesStay ==
  ASSUME Inv, Grows, NEW g, NewImage(g), Images' \subseteq Images \cup {g} PROVE Pictured'
<1>a. /\ fresh \in Nat /\ Pictured
      /\ \A n \in refused.changes : n \in Nat /\ n # 0
  BY DEF Inv
<1>1. ASSUME NEW f, f = NoFile
      PROVE  f = File(f.id, f.v, f.content) /\ f.id = 0 /\ Clean(f.content)'
  <2>1. f = [id |-> 0, v |-> 0, content |-> NoEntries]
    BY <1>1 DEF NoFile, File
  <2>2. PICK c : c = NoEntries
    OBVIOUS
  <2>3. Clean(c)
    BY <1>a, <2>2 DEF NoEntries, Clean
  <2>4. Clean(c)'
    BY <2>3, CleanStays
  <2> QED BY <2>1, <2>2, <2>4 DEF File
<1>2. ASSUME NEW f \in Images
      PROVE  /\ f = File(f.id, f.v, f.content) /\ f.id \in Nat /\ f.id <= fresh /\ f.id <= fresh'
             /\ Clean(f.content)' /\ (f.id = 0 => f = NoFile)
  <2>1. /\ f = File(f.id, f.v, f.content) /\ f.id \in Nat /\ f.id <= fresh
        /\ Clean(f.content) /\ (f.id = 0 => f = NoFile)
    BY <1>a DEF Pictured
  <2>2. Clean(f.content)'
    <3>1. PICK c : c = f.content
      OBVIOUS
    <3>2. Clean(c)'
      BY <2>1, <3>1, CleanStays
    <3> QED BY <3>1, <3>2
  <2> QED BY <1>a, <2>1, <2>2 DEF Grows
<1>3. ASSUME NEW f \in Images'
      PROVE  /\ f = File(f.id, f.v, f.content) /\ f.id \in Nat /\ f.id <= fresh'
             /\ Clean(f.content)' /\ (f.id = 0 => f = NoFile)
  <2>1. CASE f \in Images
    BY <1>2, <2>1
  <2>2. CASE f = NoFile
    BY <1>1, <1>a, <2>2 DEF Grows
  <2>3. CASE f = g /\ g # NoFile
    BY <1>a, <2>3 DEF NewImage
  <2> QED BY <2>1, <2>2, <2>3
<1>4. ASSUME NEW f \in Images', NEW h \in Images', f.id = h.id PROVE f = h
  <2>1. CASE f \in Images /\ h \in Images
    BY <1>a, <1>4, <2>1 DEF Pictured
  <2>2. CASE f \notin Images \/ h \notin Images
    <3>1. f = g \/ h = g
      BY <2>2
    <3>2. CASE g = NoFile
      BY <1>1, <1>3, <1>4, <3>1, <3>2
    <3>3. CASE g # NoFile
      <4>1. g.id = fresh + 1 /\ \A x \in Images : x.id # g.id
        BY <1>2, <1>a, <3>3 DEF NewImage
      <4> QED BY <1>4, <3>1, <4>1
    <3> QED BY <3>2, <3>3
  <2> QED BY <2>1, <2>2
<1> QED BY <1>3, <1>4 DEF Pictured

LEMMA FitStays ==
  ASSUME Inv, Grows, NEW g, NewImage(g), Images' \subseteq Images \cup {g}, NEW s, Fit(s) PROVE Fit(s)'
<1>1. Clean(s.content)'
  <2>1. PICK c : c = s.content
    OBVIOUS
  <2> QED BY <2>1, CleanStays DEF Fit
<1>2. ASSUME NEW f \in Images', s.st # "none", f.id = s.rev PROVE Matches(s.content, f.content)'
  <2>1. f \in Images
    BY <1>2 DEF Fit, NewImage, NoFile, File, Inv
  <2>2. Matches(s.content, f.content)
    BY <1>2, <2>1 DEF Fit
  <2> QED BY <2>2 DEF Matches, Grows
<1> QED BY <1>1, <1>2 DEF Fit, Grows, Inv

LEMMA TaskStays ==
  ASSUME Inv, Grows, NEW g, NewImage(g), Images' \subseteq Images \cup {g},
         \A t \in Tokens : Opened(t) => Opened(t)', NEW q, Task(q) PROVE Task(q)'
<1>1. \A c : Clean(c) => Clean(c)'
  BY CleanStays
<1>2. ASSUME NEW a, Exact(a) PROVE Exact(a)'
  <2>1. a.active \in Nat /\ a.active <= fresh /\ (a.active = 0 => a.content = NoEntries)
    BY <1>2 DEF Exact
  <2>2. ASSUME NEW f \in Images', f.id = a.active PROVE f.content = a.content
    <3>1. CASE f \in Images
      BY <1>2, <2>2, <3>1 DEF Exact
    <3>2. CASE f = g /\ g = NoFile
      BY <2>1, <2>2, <3>2 DEF NoFile, File
    <3>3. CASE f = g /\ g # NoFile
      BY <2>1, <2>2, <3>3 DEF NewImage, Inv
    <3> QED BY <3>1, <3>2, <3>3
  <2> QED BY <2>1, <2>2 DEF Exact, Grows, Inv
<1>3. CASE q = Idle
  BY <1>3 DEF Task
<1>4. CASE q # Idle
  <2>1. Kept(q.a.seen) => Kept(q.a.seen)'
    BY DEF Kept, Grows, Inv
  <2> QED BY <1>1, <1>2, <1>4, <2>1 DEF Task
<1> QED BY <1>3, <1>4

(* A step keeps the invariant if all that is new in it is in order.        *)
LEMMA Holds ==
  ASSUME Inv, Grows, NEW g, NewImage(g), file' \in Images \cup {g},
         \A b \in backups' : b.f \in Images \cup {g},
         \A a \in approvals' : a \in approvals \/ (Clean(a.content) /\ a.shown \in Images \cup {g}),
         \A c \in receipts' : c \in receipts \/ Clean(c.before),
         session' = [t \in Tokens |-> session'[t]],
         \A t \in Tokens : \A s : s = session'[t] => s = session[t] \/ Fit(s) \/ Fit(s)',
         \A t \in Tokens : Opened(t) => Opened(t)',
         request' = [r \in Requests |-> request'[r]],
         \A r \in Requests : \A q : q = request'[r] =>
            q = request[r] \/ ((Task(q) \/ Task(q)') /\ (q.at \in Showing => q.a.shown \in Images)),
         \A r \in Requests : Upgrading(request'[r]) =>
            \/ Matches(session'[request'[r].t].content, request'[r].a.content)
            \/ Matches(session[request[r].t].content, request[r].a.content)'
  PROVE  Inv'
<1>1. Images' \subseteq Images \cup {g}
  <2>1. \A b \in backups : b.f \in Images
    BY DEF Images
  <2>2. \A a \in approvals : a.shown \in Images
    BY DEF Images
  <2>3. \A r \in Requests : request[r].at \in Showing => request[r].a.shown \in Images
    BY DEF Images
  <2>4. \A r \in Requests : request'[r].at \in Showing => request'[r].a.shown \in Images
    BY <2>3
  <2>5. \A a \in approvals' : a.shown \in Images \cup {g}
    BY <2>2
  <2> QED BY <2>4, <2>5 DEF Images
<1>2. Pictured'
  BY <1>1, PicturesStay
<1>3. ASSUME NEW t \in Tokens PROVE Fit(session[t])'
  <2>1. PICK s : s = session'[t] /\ (Fit(s) \/ Fit(s)')
    BY DEF Inv
  <2>2. Fit(s)'
    BY <1>1, <2>1, FitStays
  <2> QED BY <2>1, <2>2
<1>4. ASSUME NEW r \in Requests PROVE Task(request[r])'
  <2>1. PICK q : q = request'[r] /\ (Task(q) \/ Task(q)')
    BY DEF Inv
  <2>2. Task(q)'
    BY <1>1, <2>1, TaskStays
  <2> QED BY <2>1, <2>2
<1>5. \A c : Clean(c) => Clean(c)'
  BY CleanStays
<1>6. (\A a \in approvals : Clean(a.content))' /\ (\A c \in receipts : Clean(c.before))'
  BY <1>5 DEF Inv
<1>7. fresh' \in Nat /\ \A n \in refused'.changes : n \in Nat /\ n # 0 /\ n <= fresh'
  BY DEF Inv, Grows
<1>8. ASSUME NEW r \in Requests, Upgrading(request'[r])
      PROVE  Matches(session[request[r].t].content, request[r].a.content)'
  <2>1. PICK c, d : c = session'[request'[r].t].content /\ d = request'[r].a.content /\ (Matches(c, d) \/ Matches(c, d)')
    BY <1>8
  <2>2. refused.marks \subseteq refused'.marks
    BY DEF Grows
  <2>3. Matches(c, d)'
    BY <2>1, <2>2 DEF Matches
  <2> QED BY <2>1, <2>3
<1> QED BY <1>2, <1>3, <1>4, <1>6, <1>7, <1>8 DEF Inv, Upgrading

-----------------------------------------------------------------------------
(* The end of sessions leaves what they hold.                              *)
LEMMA Closing ==
  ASSUME Inv, session' = session \/ \E ts : CloseAll(ts)
  PROVE  /\ session' = [t \in Tokens |-> session'[t]]
         /\ \A t \in Tokens : /\ \A s : s = session'[t] => s = session[t] \/ Fit(s)
                              /\ Opened(t) => Opened(t)'
                              /\ session'[t].content = session[t].content
<1>1. CASE session' = session
  BY <1>1 DEF Inv, Opened
<1>2. CASE \E ts : CloseAll(ts)
  <2>1. PICK ts : CloseAll(ts)
    BY <1>2
  <2>2. session' = [t \in Tokens |-> IF t \in ts /\ Open(t) THEN [session[t] EXCEPT !.st = "closed"] ELSE session[t]]
    BY <2>1 DEF CloseAll
  <2>3. ASSUME NEW t \in Tokens, NEW s, s = session'[t]
        PROVE  /\ s = session[t] \/ Fit(s)
               /\ s.content = session[t].content /\ (session[t].st # "none" => s.st # "none")
    <3>1. PICK o : o = session[t] /\ Fit(o)
      BY DEF Inv
    <3>2. CASE ~(t \in ts /\ Open(t))
      BY <2>2, <2>3, <3>2
    <3>3. CASE o.st = "open" /\ s = [o EXCEPT !.st = "closed"]
      <4>1. s = [st |-> "closed", gen |-> o.gen, rev |-> o.rev, v |-> o.v, content |-> o.content, saved |-> o.saved]
        BY <3>1, <3>3 DEF Fit
      <4> QED BY <3>1, <3>3, <4>1 DEF Fit
    <3> QED BY <2>2, <2>3, <3>1, <3>2, <3>3 DEF Open
  <2> QED BY <2>2, <2>3 DEF Opened
<1> QED BY <1>1, <1>2

(* A step that only issues, takes or drops approvals.                      *)
LEMMA Issues ==
  ASSUME Inv, UNCHANGED <<disk, session, receipts, request, fresh, refused>>,
         \A a \in approvals' : a \in approvals \/ (Clean(a.content) /\ a.shown \in Images \cup {NoFile})
  PROVE  Inv'
<1>1. \A b \in backups' : b.f \in Images
  BY DEF disk, Images
<1>2. file' \in Images /\ NewImage(NoFile) /\ Grows
  BY DEF disk, Images, NewImage, Grows
<1>3. /\ session' = session /\ session = [t \in Tokens |-> session[t]]
      /\ request' = request /\ request = [r \in Requests |-> request[r]]
      /\ \A r \in Requests : Upgrading(request[r]) => Matches(session[request[r].t].content, request[r].a.content)
  BY DEF Inv
<1> QED BY <1>1, <1>2, <1>3, Holds DEF Opened

(* A step of a worker thread that writes no session: it may put an image   *)
(* in place, copy one, delete copies and end sessions.                     *)
LEMMA Moves ==
  ASSUME Inv, Grows, NEW g, NewImage(g), file' \in Images \cup {g}, \A b \in backups' : b.f \in Images,
         approvals' \subseteq approvals, \A c \in receipts' : c \in receipts \/ Clean(c.before),
         session' = session \/ \E ts : CloseAll(ts),
         NEW r \in Requests, NEW q, request' = [request EXCEPT ![r] = q],
         Task(q), q.at \in Showing => q.a.shown \in Images,
         Upgrading(q) => Matches(session[q.t].content, q.a.content)
  PROVE  Inv'
<1>2. /\ request' = [p \in Requests |-> request'[p]]
      /\ \A p \in Requests : request'[p] = IF p = r THEN q ELSE request[p]
  BY DEF Inv
<1>3. ASSUME NEW p \in Requests, Upgrading(request'[p])
      PROVE  Matches(session'[request'[p].t].content, request'[p].a.content)
  <2>1. PICK x : x = request'[p] /\ (x = q \/ x = request[p])
    BY <1>2
  <2>2. Task(x) /\ Matches(session[x.t].content, x.a.content)
    BY <1>3, <2>1 DEF Inv
  <2>3. x.t \in Tokens
    BY <1>3, <2>1, <2>2 DEF Task, Upgrading, Idle
  <2>4. session'[x.t].content = session[x.t].content
    BY <2>3, Closing
  <2> QED BY <2>1, <2>2, <2>4
<1>4. /\ session' = [t \in Tokens |-> session'[t]]
      /\ \A t \in Tokens : \A s : s = session'[t] => s = session[t] \/ Fit(s) \/ Fit(s)'
      /\ \A t \in Tokens : Opened(t) => Opened(t)'
  BY Closing
<1>5. \A p \in Requests : \A x : x = request'[p] =>
        x = request[p] \/ (Task(x) /\ (x.at \in Showing => x.a.shown \in Images))
  BY <1>2
<1> QED BY <1>2, <1>3, <1>4, <1>5, Holds

(* A command that works on the memory of an unlocked vault: what it may do *)
(* to the requests and approvals, saved or not.                            *)
Command(t) ==
    /\ approvals' = approvals /\ receipts' \subseteq receipts
    /\ request' = [r \in Requests |-> request'[r]]
    /\ \A r \in Requests : \A q : q = request'[r] =>
          q = request[r] \/ (Task(q) /\ q.at \notin Showing /\ ~Upgrading(q))
    /\ \A r \in Requests : Upgrading(request[r]) => request[r].t # t

(* What the replaced vault file leaves: its new image, and its old one.    *)
LEMMA Replaced ==
  ASSUME Inv, NEW f, atomic_write(f)
  PROVE  /\ file' = f /\ fresh' = fresh + 1
         /\ \A b \in backups' : b.f \in Images /\ (b \in backups \/ b.f = file)
BY DEF atomic_write, Drawn, new, Images, Copy

LEMMA Commanded ==
  ASSUME Inv, NEW t \in Tokens, Command(t), NEW g, NewImage(g), Grows,
         file' \in Images \cup {g}, \A b \in backups' : b.f \in Images,
         NEW s, session' = [session EXCEPT ![t] = s], Fit(s)', Opened(t) => s.st # "none"
  PROVE  Inv'
<1>1. /\ session' = [u \in Tokens |-> session'[u]]
      /\ \A u \in Tokens : session'[u] = IF u = t THEN s ELSE session[u]
  BY DEF Inv
<1>2. ASSUME NEW r \in Requests, Upgrading(request'[r])
      PROVE  Matches(session'[request'[r].t].content, request'[r].a.content)
  <2>1. PICK q : q = request'[r]
    OBVIOUS
  <2>2. q = request[r]
    BY <1>2, <2>1 DEF Command
  <2>3. Task(q) /\ Matches(session[q.t].content, q.a.content) /\ q.t # t
    BY <1>2, <2>1, <2>2 DEF Inv, Command
  <2>4. q.t \in Tokens
    BY <1>2, <2>1, <2>3 DEF Task, Upgrading, Idle
  <2> QED BY <1>1, <2>1, <2>3, <2>4
<1>3. \A u \in Tokens : \A x : x = session'[u] => x = session[u] \/ Fit(x) \/ Fit(x)'
  BY <1>1
<1>4. \A u \in Tokens : Opened(u) => Opened(u)'
  BY <1>1 DEF Opened
<1>5. \A r \in Requests : \A q : q = request'[r] =>
        q = request[r] \/ (Task(q) /\ (q.at \in Showing => q.a.shown \in Images))
  BY DEF Command
<1>6. /\ request' = [r \in Requests |-> request'[r]] /\ approvals' = approvals
      /\ receipts' \subseteq receipts
  BY DEF Command
<1> QED BY <1>1, <1>2, <1>3, <1>4, <1>5, <1>6, Holds

LEMMA Wrote ==
  ASSUME Inv, NEW t \in Tokens, Opened(t), Command(t), NEW c, NEW txs, write_payload(t, c, txs), Clean(c)'
  PROVE  Inv'
<1>1. PICK o : o = session[t] /\ Fit(o)
  BY DEF Inv
<1>2. PICK g : g = File(new, o.v, c)
  OBVIOUS
<1>3. atomic_write(g) /\ refused' = refused
  BY <1>1, <1>2 DEF write_payload
<1>4. PICK s : s = [st |-> o.st, gen |-> o.gen + 1, rev |-> new, v |-> o.v, content |-> c, saved |-> o.saved \cup txs]
  OBVIOUS
<1>6. session' = [session EXCEPT ![t] = s]
  BY <1>1, <1>4 DEF write_payload
<1>7. /\ fresh' = fresh + 1 /\ file' = g /\ \A b \in backups' : b.f \in Images
  BY <1>3, Replaced
<1>8. Grows /\ NewImage(g)
  BY <1>2, <1>3, <1>7 DEF Grows, NewImage, File, new
<1>9. Fit(s)'
  <2>1. ASSUME NEW f \in Images', f.id = new PROVE f = g
    <3>1. PICK x : x = f /\ x \in Images'
      OBVIOUS
    <3>2. approvals' = approvals /\ \A r \in Requests : \A q : q = request'[r] => q = request[r] \/ q.at \notin Showing
      BY DEF Command
    <3>3. x = g \/ x \in Images
      <4>1. \A r \in Requests : request'[r].at \in Showing => request'[r].a.shown \in Images
        BY <3>2 DEF Images
      <4>2. \A a \in approvals : a.shown \in Images
        BY DEF Images
      <4> QED BY <1>7, <3>1, <3>2, <4>1, <4>2 DEF Images
    <3>4. x \in Images => x.id \in Nat /\ x.id <= fresh
      BY DEF Inv, Pictured
    <3> QED BY <2>1, <3>1, <3>3, <3>4 DEF Inv, new
  <2>2. g.content = c
    BY <1>2 DEF File
  <2>3. fresh \in Nat /\ new \in Nat /\ new # 0
    BY DEF Inv, new
  <2>4. \A f \in Images' : f.id = new => Matches(c, f.content)'
    BY <2>1, <2>2 DEF Matches
  <2> QED BY <1>4, <1>7, <2>3, <2>4 DEF Fit, new
<1>10. Opened(t) => s.st # "none"
  BY <1>1, <1>4 DEF Opened
<1> QED BY <1>6, <1>7, <1>8, <1>9, <1>10, Commanded

(* A refused save leaves the session as it was.                            *)
LEMMA Rejected ==
  ASSUME Inv, NEW t \in Tokens, Command(t), NEW m, NEW changes, Refused(t, m, changes),
         Clean(m)', \A n \in changes : n = new, m = session[t].content
  PROVE  Inv'
<1>1. PICK o : o = session[t] /\ Fit(o)
  BY DEF Inv
<1>2. PICK s : s = [o EXCEPT !.content = m]
  OBVIOUS
<1>3. s = [st |-> o.st, gen |-> o.gen, rev |-> o.rev, v |-> o.v, content |-> m, saved |-> o.saved]
  BY <1>1, <1>2 DEF Fit
<1>4. session' = [session EXCEPT ![t] = s]
  BY <1>1, <1>2 DEF Refused
<1>5. /\ fresh' = fresh + 1 /\ file' = file /\ backups' = backups
      /\ refused'.marks = refused.marks /\ refused'.changes = refused.changes \cup changes
  BY DEF Refused, Remember, Drawn, new, disk
<1>6. Grows /\ NewImage(NoFile)
  BY <1>5 DEF Grows, NewImage, new
<1>7. file' \in Images /\ \A b \in backups' : b.f \in Images
  BY <1>5 DEF Images
<1>8. ASSUME NEW f \in Images' PROVE f \in Images
  <2>1. approvals' = approvals /\ \A r \in Requests : \A q : q = request'[r] => q = request[r] \/ q.at \notin Showing
    BY DEF Command
  <2>2. \A r \in Requests : request'[r].at \in Showing => request'[r].a.shown \in Images
    BY <2>1 DEF Images
  <2>3. \A a \in approvals : a.shown \in Images
    BY DEF Images
  <2> QED BY <1>7, <2>1, <2>2, <2>3 DEF Images
<1>9. ASSUME NEW f \in Images', s.st # "none", f.id = s.rev PROVE Matches(m, f.content)'
  <2>1. Matches(o.content, f.content)
    BY <1>1, <1>3, <1>8, <1>9 DEF Fit
  <2> QED BY <1>1, <1>5, <2>1 DEF Matches
<1>10. Fit(s)'
  BY <1>1, <1>3, <1>5, <1>9 DEF Fit, Inv
<1>11. Opened(t) => s.st # "none"
  BY <1>1, <1>3 DEF Opened
<1> QED BY <1>4, <1>6, <1>7, <1>10, <1>11, Commanded

(* A change of some entries to a new or no version is clean.               *)
LEMMA SetIsClean ==
  ASSUME Inv, Grows, fresh' = fresh + 1, NEW c, Clean(c), NEW es, NEW n \in {0, new},
         n = new => new \notin refused'.changes
  PROVE  Clean(Set(c, es, n))'
<1>1. PICK d : d = [e \in Entries |-> IF e \in es THEN n ELSE c[e]]
  OBVIOUS
<1>2. ASSUME NEW e \in Entries PROVE d[e] \in Nat /\ d[e] <= fresh' /\ d[e] \notin refused'.changes
  <2>1. Clean(c)'
    BY CleanStays
  <2>2. fresh \in Nat /\ \A x \in refused'.changes : x # 0
    BY DEF Inv, Grows
  <2> QED BY <1>1, <2>1, <2>2 DEF Clean, new
<1>3. Clean(d)'
  BY <1>1, <1>2 DEF Clean
<1> QED BY <1>1, <1>3 DEF Set

LEMMA Edits ==
  ASSUME Inv, NEW t \in Tokens, ~Busy(t), UNCHANGED <<stores, request>>
  PROVE  Command(t)
BY DEF Inv, Command, Busy, Upgrading, At, stores

LEMMA MutateStep ==
  ASSUME Inv, NEW t \in Tokens, Mutate(t) PROVE Inv'
<1>1. PICK e \in Entries, n \in {0, new} :
        LET c == Set(session[t].content, {e}, n) IN
        write_payload(t, c, {}) \/ Refused(t, local_mutation(t, c), {n} \ {0})
  BY DEF Mutate
<1>2. PICK d : d = session[t].content /\ Clean(d)
  BY DEF Inv, Fit
<1>3. PICK c : c = Set(d, {e}, n)
  OBVIOUS
<1>4. Command(t) /\ Opened(t)
  BY Edits DEF Mutate, Answered, Open, Opened, stores
<1>5. CASE write_payload(t, c, {})
  <2>1. Grows /\ fresh' = fresh + 1 /\ refused' = refused
    BY <1>5 DEF write_payload, atomic_write, Drawn, Grows, new
  <2>2. Clean(c)'
    BY <1>2, <1>3, <2>1, SetIsClean DEF Inv, new
  <2> QED BY <1>4, <1>5, <2>2, Wrote
<1>6. CASE Refused(t, d, {n} \ {0})
  <2>1. Grows
    BY <1>6 DEF Refused, Remember, Drawn, Grows, new
  <2>2. Clean(d)'
    BY <1>2, <2>1, CleanStays
  <2> QED BY <1>2, <1>4, <1>6, <2>2, Rejected
<1> QED BY <1>1, <1>2, <1>3, <1>5, <1>6 DEF local_mutation

(* The next step of a request has what it needs from the one before.       *)
LEMMA Goes ==
  ASSUME Inv, NEW r \in Requests, NEW at, Go(r, at), ~At(r, "idle"),
         at \notin {"save", "undo", "delete", "resolved", "marked"} \cup Showing,
         at \in {"pin", "upgrade"} => request[r].then = "upgrade",
         at = "recorded" => At(r, "resolved"),
         at \in {"batch", "receipt"} => request[r].then = "batch" \/ At(r, "batch")
  PROVE  \E q : /\ request' = [request EXCEPT ![r] = q]
                /\ Task(q) /\ q.at \notin Showing
                /\ q = Idle \/ (at # "idle" /\ q = [request[r] EXCEPT !.at = at])
<1>1. CASE at = "idle"
  <2>1. request' = [request EXCEPT ![r] = Idle]
    BY <1>1 DEF Go
  <2>2. Task(Idle) /\ Idle.at = "idle"
    BY DEF Task, Idle
  <2> QED BY <2>1, <2>2 DEF Showing
<1>2. CASE at # "idle"
  <2>1. PICK o : o = request[r] /\ Task(o) /\ o # Idle
    BY DEF Inv, At, Idle
  <2>2. PICK q : q = [o EXCEPT !.at = at]
    OBVIOUS
  <2>3. o = [at |-> o.at, t |-> o.t, a |-> o.a, es |-> o.es, path |-> o.path, seen |-> o.seen, then |-> o.then]
    BY <2>1 DEF Task
  <2>4. q = [at |-> at, t |-> o.t, a |-> o.a, es |-> o.es, path |-> o.path, seen |-> o.seen, then |-> o.then]
    BY <2>2, <2>3
  <2>5. q.at = at /\ q.t = o.t /\ q.a = o.a /\ q.es = o.es /\ q.then = o.then
    BY <2>4
  <2>6. Task(q)
    <3>1. at \in {"batch", "receipt"} => o.then = "batch" \/ o.at = "batch"
      BY <2>1 DEF At
    <3>2. at \in {"pin", "upgrade"} => o.then = "upgrade"
      BY <2>1
    <3>a. at = "recorded" => /\ o.t \in Tokens /\ Opened(o.t) /\ o.then = "idle"
                             /\ o.es \subseteq Entries /\ Kept(o.a.seen)
      BY <2>1 DEF Task, Removing, At
    <3>3. /\ o.then \in {"idle", "batch", "upgrade"}
          /\ o.at = "batch" \/ o.then # "idle" => o.t \in Tokens /\ Opened(o.t)
          /\ o.at = "batch" \/ o.then = "batch" => Clean(o.a.content) /\ o.es \subseteq o.a.es
          /\ o.then = "upgrade" => Clean(o.a.content) /\ Exact(o.a)
      BY <2>1 DEF Task
    <3>4. q = [at |-> q.at, t |-> q.t, a |-> q.a, es |-> q.es, path |-> q.path, seen |-> q.seen, then |-> q.then]
      BY <2>4
    <3> HIDE <2>4
    <3> QED BY <1>2, <2>5, <3>1, <3>2, <3>a, <3>3, <3>4 DEF Task, Removing
  <2>7. request' = [request EXCEPT ![r] = q]
    BY <1>2, <2>1, <2>2 DEF Go
  <2> QED BY <1>2, <2>1, <2>2, <2>5, <2>6, <2>7
<1> QED BY <1>1, <1>2

LEMMA Works ==
  ASSUME Inv, NEW r \in Requests, ~Busy(request[r].t), NEW at \in {"idle", "receipt", "recorded"}, Go(r, at), ~At(r, "idle"),
         at = "receipt" => At(r, "batch"), at = "recorded" => At(r, "resolved"), approvals' = approvals, receipts' \subseteq receipts
  PROVE  Command(request[r].t)
<1>1. PICK q : /\ request' = [request EXCEPT ![r] = q] /\ Task(q) /\ q.at \notin Showing
               /\ q = Idle \/ q = [request[r] EXCEPT !.at = at]
  BY Goes DEF Showing
<1>2. PICK o : o = request[r] /\ Task(o) /\ o # Idle
  BY DEF Inv, At, Idle
<1>3. \A p \in Requests : Upgrading(request[p]) => request[p].t # request[r].t
  BY DEF Upgrading, Busy, At
<1>4. o.then # "upgrade"
  BY <1>2 DEF Busy
<1>5. ~Upgrading(q)
  <2>1. CASE q = Idle
    BY <2>1 DEF Upgrading, Idle
  <2>2. CASE q = [o EXCEPT !.at = at]
    <3>1. q.then = o.then
      BY <1>2, <2>2 DEF Task
    <3> QED BY <1>4, <3>1 DEF Upgrading
  <2> QED BY <1>1, <1>2, <2>1, <2>2
<1>6. /\ request' = [p \in Requests |-> request'[p]]
      /\ \A p \in Requests : request'[p] = IF p = r THEN q ELSE request[p]
  BY <1>1 DEF Inv
<1> QED BY <1>1, <1>3, <1>5, <1>6 DEF Command

LEMMA CommitEntryStep ==
  ASSUME Inv, NEW r \in Requests, commit_entry(r) PROVE Inv'
<1>1. PICK q : q = request[r] /\ Task(q) /\ q.at = "save"
  BY DEF Inv, commit_entry, At
<1>2. q.t \in Tokens /\ Opened(q.t)
  BY <1>1 DEF Task, Idle
<1>3. PICK c : c = session[q.t].content /\ Clean(c)
  BY <1>2 DEF Inv, Fit
<1>4. Command(q.t)
  BY <1>1, Works DEF commit_entry, Finish, At, stores
<1>5. CASE write_payload(q.t, Set(c, q.es, new), {q.a.tx})
  <2>1. Grows /\ fresh' = fresh + 1 /\ refused' = refused
    BY <1>5 DEF write_payload, atomic_write, Drawn, Grows, new
  <2>2. PICK d : d = Set(c, q.es, new)
    OBVIOUS
  <2>3. Clean(d)'
    BY <1>3, <2>1, <2>2, SetIsClean DEF Inv, new
  <2> QED BY <1>2, <1>4, <1>5, <2>2, <2>3, Wrote
<1>6. CASE Refused(q.t, c, {new})
  <2>1. Grows
    BY <1>6 DEF Refused, Remember, Drawn, Grows, new
  <2>2. Clean(c)'
    BY <1>3, <2>1, CleanStays
  <2> QED BY <1>2, <1>3, <1>4, <1>6, <2>2, Rejected
<1> QED BY <1>1, <1>3, <1>5, <1>6 DEF commit_entry

LEMMA ReplaceStep ==
  ASSUME Inv, NEW r \in Requests, replace_entry(r) PROVE Inv'
<1>1. PICK q : q = request[r] /\ Task(q) /\ q.at \in {"resolved", "marked"}
  BY DEF Inv, replace_entry
<1>2. q.t \in Tokens /\ Opened(q.t) /\ q.es \subseteq Entries /\ Kept(q.a.seen)
  BY <1>1 DEF Task, Idle, Removing
<1>3. PICK c : c = session[q.t].content /\ Clean(c)
  BY <1>2 DEF Inv, Fit
<1>4. PICK d : d = Set(c, q.es, q.a.seen)
  OBVIOUS
<1>5. Clean(d)
  BY <1>2, <1>3, <1>4 DEF Set, Clean, Kept
<1>6. Command(q.t)
  <2>1. PICK at \in {"idle", "recorded"} : Go(r, at) /\ (at = "recorded" => At(r, "resolved"))
    BY <1>1 DEF replace_entry, Finish, At
  <2>2. ~At(r, "idle") /\ ~Busy(q.t) /\ UNCHANGED stores
    BY <1>1 DEF replace_entry, At
  <2> QED BY <1>1, <2>1, <2>2, Works DEF stores
<1>7. CASE write_payload(q.t, d, {})
  <2>1. Grows
    BY <1>7 DEF write_payload, atomic_write, Drawn, Grows, new
  <2>2. Clean(d)'
    BY <1>5, <2>1, CleanStays
  <2> QED BY <1>2, <1>6, <1>7, <2>2, Wrote
<1>8. CASE Refused(q.t, c, {})
  <2>1. Grows
    BY <1>8 DEF Refused, Remember, Drawn, Grows, new
  <2>2. Clean(c)'
    BY <1>3, <2>1, CleanStays
  <2> QED BY <1>2, <1>3, <1>6, <1>8, <2>2, Rejected
<1> QED BY <1>1, <1>3, <1>4, <1>7, <1>8 DEF replace_entry, local_mutation

LEMMA CommitBatchStep ==
  ASSUME Inv, NEW r \in Requests, commit_import_batch(r) PROVE Inv'
<1>1. PICK q : q = request[r] /\ Task(q) /\ q.at = "batch"
  BY DEF Inv, commit_import_batch, At
<1>2. q.t \in Tokens /\ Opened(q.t)
  BY <1>1 DEF Task, Idle
<1>3. PICK c : c = session[q.t].content /\ Clean(c)
  BY <1>2 DEF Inv, Fit
<1>4. Command(q.t)
  BY <1>1, Works DEF commit_import_batch, Finish, At, stores
<1>5. CASE write_payload(q.t, Set(c, q.es, new), {})
  <2>1. Grows /\ fresh' = fresh + 1 /\ refused' = refused
    BY <1>5 DEF write_payload, atomic_write, Drawn, Grows, new
  <2>2. PICK d : d = Set(c, q.es, new)
    OBVIOUS
  <2>3. Clean(d)'
    BY <1>3, <2>1, <2>2, SetIsClean DEF Inv, new
  <2> QED BY <1>2, <1>4, <1>5, <2>2, <2>3, Wrote
<1>6. CASE Refused(q.t, c, {new})
  <2>1. Grows
    BY <1>6 DEF Refused, Remember, Drawn, Grows, new
  <2>2. Clean(c)'
    BY <1>3, <2>1, CleanStays
  <2> QED BY <1>2, <1>3, <1>4, <1>6, <2>2, Rejected
<1> QED BY <1>1, <1>3, <1>5, <1>6 DEF commit_import_batch

LEMMA UndoStep ==
  ASSUME Inv, NEW r \in Requests, restore_import_payload(r) PROVE Inv'
<1>1. PICK q : q = request[r] /\ Task(q) /\ q.at = "undo"
  BY DEF Inv, restore_import_payload, At
<1>2. q.t \in Tokens /\ Opened(q.t)
  BY <1>1 DEF Task, Idle
<1>3. PICK c : c = session[q.t].content /\ Clean(c)
  BY <1>2 DEF Inv, Fit
<1>4. PICK d : d = q.a.before /\ Clean(d)
  BY <1>1 DEF Task, Idle
<1>5. Command(q.t)
  BY <1>1, Works DEF restore_import_payload, Finish, At, stores
<1>6. CASE write_payload(q.t, d, {})
  <2>1. Grows
    BY <1>6 DEF write_payload, atomic_write, Drawn, Grows, new
  <2>2. Clean(d)'
    BY <1>4, <2>1, CleanStays
  <2> QED BY <1>2, <1>5, <1>6, <2>2, Wrote
<1>7. CASE Refused(q.t, c, {})
  <2>1. Grows
    BY <1>7 DEF Refused, Remember, Drawn, Grows, new
  <2>2. Clean(c)'
    BY <1>3, <2>1, CleanStays
  <2> QED BY <1>2, <1>3, <1>5, <1>7, <2>2, Rejected
<1> QED BY <1>1, <1>3, <1>4, <1>6, <1>7 DEF restore_import_payload

-----------------------------------------------------------------------------
(* What a new request is given.                                            *)
LEMMA Working ==
  ASSUME NEW at, NEW t, NEW a, NEW es, NEW q, q = Work(at, t, a, es),
         at \in {"save", "copy", "pinned", "unpinned", "delete", "restore", "recover", "startup", "batch", "undo"},
         at \in {"save", "batch", "undo"} => t \in Tokens /\ Opened(t),
         at = "batch" => Clean(a.content) /\ es \subseteq a.es,
         at = "undo" => Clean(a.before),
         at = "save" => es \subseteq Entries,
         at = "delete" => es \subseteq a.es
  PROVE  Task(q) /\ q.at = at /\ q.a = a /\ ~Upgrading(q)
<1>1. q = [at |-> at, t |-> t, a |-> a, es |-> es, path |-> 0, seen |-> catalog, then |-> "idle"]
  BY DEF Work
<1>2. q.at = at /\ q.t = t /\ q.a = a /\ q.es = es /\ q.then = "idle"
  BY <1>1
<1>3. q = [at |-> q.at, t |-> q.t, a |-> q.a, es |-> q.es, path |-> q.path, seen |-> q.seen, then |-> q.then]
  BY <1>1
<1> HIDE <1>1
<1> QED BY <1>2, <1>3 DEF Task, Removing, Upgrading

LEMMA Starts ==
  ASSUME Inv, NEW r \in Requests, UNCHANGED <<disk, session, receipts, fresh, refused>>,
         approvals' \subseteq approvals, NEW q,
         request' = [request EXCEPT ![r] = q] \/ request' = [request EXCEPT ![r] = Idle],
         Task(q), q.at \in Showing => q.a.shown \in Images,
         Upgrading(q) => Matches(session[q.t].content, q.a.content)
  PROVE  Inv'
<1>1. /\ Grows /\ file' \in Images /\ \A b \in backups' : b.f \in Images
      /\ session' = session /\ receipts' = receipts /\ NewImage(NoFile)
  BY DEF disk, Grows, Images, NewImage
<1>2. Task(Idle) /\ ~Upgrading(Idle) /\ Idle.at \notin Showing
  BY DEF Task, Idle, Upgrading, Showing
<1> QED BY <1>1, <1>2, Moves

LEMMA StartStep ==
  ASSUME Inv, NEW r \in Requests, Start(r) PROVE Inv'
<1>1. ASSUME NEW at, NEW t, NEW a \in approvals, NEW es, NEW q, q = Work(at, t, a, es),
             at \in {"delete", "restore", "recover", "startup", "batch"},
             at = "batch" => t \in Tokens /\ Open(t),
             at \in {"batch", "delete"} => es \subseteq a.es,
             approvals' \subseteq approvals, UNCHANGED <<disk, session, receipts, fresh, refused>>,
             request' = [request EXCEPT ![r] = q] \/ request' = [request EXCEPT ![r] = Idle]
      PROVE  Inv'
  <2>1. Clean(a.content) /\ a.shown \in Images
    BY DEF Inv, Images
  <2>2. Task(q) /\ q.at = at /\ q.a = a /\ ~Upgrading(q)
    BY <1>1, <2>1, Working DEF Open, Opened
  <2> QED BY <1>1, <2>1, <2>2, Starts
<1>2. CASE ApplyInstance(r)
  <2>1. PICK a, q :
          /\ a \in approvals
          /\ q = Work("recover", Instance, a, {}) \/ q = Work("startup", Instance, a, {})
          /\ request' = [request EXCEPT ![r] = q] \/ request' = [request EXCEPT ![r] = Idle]
    BY <1>2 DEF ApplyInstance, consume
  <2>2. approvals' \subseteq approvals /\ UNCHANGED <<disk, session, receipts, fresh, refused>>
    BY <1>2 DEF ApplyInstance, consume, count
  <2> QED BY <1>1, <2>1, <2>2
<1>3. ASSUME NEW t \in Tokens, commit_entry_transaction(r, t) PROVE Inv'
  <2>1. PICK e, x, q : /\ e \in Entries /\ request' = [request EXCEPT ![r] = q]
                       /\ q = Work("save", t, [tx |-> x, updated_at |-> session[t].content[e]], {e})
    BY <1>3 DEF commit_entry_transaction, Begin, Enter
  <2>2. Task(q) /\ q.at = "save" /\ ~Upgrading(q)
    BY <1>3, <2>1, Working DEF commit_entry_transaction, Open, Opened
  <2> QED BY <1>3, <2>1, <2>2, Starts DEF commit_entry_transaction, stores, Showing
<1>a. ASSUME NEW t \in Tokens, delete_entry(r, t) PROVE Inv'
  <2>1. PICK e, at, n, q :
          /\ e \in Entries /\ at \in {"resolved", "recorded"} /\ n = session[t].content[e] /\ request' = [request EXCEPT ![r] = q]
          /\ q = Work(at, t, [seen |-> n], {e})
    BY <1>a DEF delete_entry, Begin, Enter
  <2>2. Kept(n)
    BY <2>1 DEF Inv, Fit, Clean, Kept
  <2>3. q = [at |-> at, t |-> t, a |-> [seen |-> n], es |-> {e}, path |-> 0, seen |-> catalog, then |-> "idle"]
    BY <2>1 DEF Work
  <2>4. /\ q.at = at /\ q.t = t /\ q.es = {e} /\ q.then = "idle" /\ q.a.seen = n
        /\ q = [at |-> q.at, t |-> q.t, a |-> q.a, es |-> q.es, path |-> q.path, seen |-> q.seen, then |-> q.then]
    BY <2>3
  <2>5. Opened(t)
    BY <1>a DEF delete_entry, Open, Opened
  <2>6. Task(q) /\ ~Upgrading(q) /\ q.at \notin Showing
    <3>1. q.at \in Removing /\ q.t \in Tokens /\ Opened(q.t) /\ q.es \subseteq Entries /\ Kept(q.a.seen)
      BY <2>1, <2>2, <2>4, <2>5 DEF Removing
    <3> HIDE <2>3
    <3> QED BY <2>1, <2>4, <3>1 DEF Task, Removing, Upgrading, Showing
  <2> QED BY <1>a, <2>1, <2>6, Starts DEF delete_entry, stores
<1>4. ASSUME NEW t \in Tokens, CreateBackup(r, t) PROVE Inv'
  <2>1. PICK q : q = Work("copy", t, [kind |-> "none"], {}) /\ request' = [request EXCEPT ![r] = q]
    BY <1>4 DEF CreateBackup, Begin, Enter
  <2>2. Task(q) /\ q.at = "copy" /\ ~Upgrading(q)
    BY <2>1, Working
  <2> QED BY <1>4, <2>1, <2>2, Starts DEF CreateBackup, stores, Showing
<1>5. ASSUME NEW t \in Tokens, set_backup_pinned(r, t) PROVE Inv'
  <2>1. PICK b \in list_backups, at \in {"pinned", "unpinned"} :
          request' = [request EXCEPT ![r] = [Work(at, t, [kind |-> "none"], {}) EXCEPT !.path = b.path]]
    BY <1>5 DEF set_backup_pinned, Begin, Enter
  <2>2. PICK w, q : w = Work(at, t, [kind |-> "none"], {}) /\ q = [w EXCEPT !.path = b.path]
    OBVIOUS
  <2>3. Task(w) /\ w.at = at /\ w.then = "idle"
    BY <2>2, Working DEF Work
  <2>4. q = [at |-> w.at, t |-> w.t, a |-> w.a, es |-> w.es, path |-> b.path, seen |-> w.seen, then |-> w.then]
    BY <2>2, <2>3 DEF Work
  <2>5. Task(q) /\ q.at = at /\ ~Upgrading(q)
    BY <2>3, <2>4 DEF Task, Idle, Upgrading
  <2> QED BY <1>5, <2>1, <2>2, <2>5, Starts DEF set_backup_pinned, stores, Showing
<1>6. ASSUME NEW t \in Tokens, apply_retention_plan(r, t) PROVE Inv'
  <2>1. PICK a, es, q :
          /\ a \in approvals /\ es = approved_plan(a) \cap Eligible(list_backups)
          /\ q = Work("delete", t, a, es) /\ request' = [request EXCEPT ![r] = q]
    BY <1>6 DEF apply_retention_plan, consume
  <2>2. approvals' \subseteq approvals /\ UNCHANGED <<disk, session, receipts, fresh, refused>>
    BY <1>6 DEF apply_retention_plan, consume, count
  <2>3. es \subseteq a.es
    BY <2>1 DEF approved_plan
  <2>4. Task(q) /\ q.at = "delete" /\ ~Upgrading(q)
    BY <2>1, <2>3, Working
  <2> QED BY <2>1, <2>2, <2>4, Starts DEF Showing
<1>7. ASSUME NEW t \in Tokens, apply_restore(r, t) PROVE Inv'
  <2>1. PICK a, q :
          /\ a \in approvals
          /\ q = Work("restore", t, a, {})
          /\ request' = [request EXCEPT ![r] = q] \/ request' = [request EXCEPT ![r] = Idle]
    BY <1>7 DEF apply_restore, consume
  <2>2. approvals' \subseteq approvals /\ UNCHANGED <<disk, session, receipts, fresh, refused>>
    BY <1>7 DEF apply_restore, consume, count
  <2> QED BY <1>1, <2>1, <2>2
<1>8. ASSUME NEW t \in Tokens, ApplyBatch(r, t) PROVE Inv'
  <2>1. PICK a, q :
          /\ a \in approvals
          /\ q = Work("batch", t, a, a.es)
          /\ request' = [request EXCEPT ![r] = q] \/ request' = [request EXCEPT ![r] = Idle]
    BY <1>8 DEF ApplyBatch, consume
  <2>2. approvals' \subseteq approvals /\ UNCHANGED <<disk, session, receipts, fresh, refused>>
    BY <1>8 DEF ApplyBatch, consume, count
  <2> QED BY <1>1, <1>8, <2>1, <2>2 DEF ApplyBatch
<1>9. ASSUME NEW t \in Tokens, purge_expired(r, t) PROVE Inv'
  <2>1. PICK e, a, q : /\ a = Approval("maintenance", t, 0, NoFile, {e}) /\ q = Work("batch", t, a, {e})
                       /\ request' = [request EXCEPT ![r] = q]
    BY <1>9 DEF purge_expired, Begin, Enter
  <2>2. a.content = (IF t = Instance THEN NoEntries ELSE session[t].content) /\ a.es = {e}
    BY <2>1 DEF Approval
  <2>3. Clean(a.content)
    BY <2>2, ReviewedAssumption DEF Inv, Fit
  <2>4. Opened(t)
    BY <1>9 DEF purge_expired, Open, Opened
  <2>5. Task(q) /\ q.at = "batch" /\ ~Upgrading(q)
    BY <1>9, <2>1, <2>2, <2>3, <2>4, Working
  <2> QED BY <1>9, <2>1, <2>5, Starts DEF purge_expired, stores, Showing
<1>10. ASSUME NEW t \in Tokens, undo_import(r, t) PROVE Inv'
  <2>1. PICK c, q : c \in receipts /\ q = Work("undo", t, c, {}) /\ request' = [request EXCEPT ![r] = q]
    BY <1>10 DEF undo_import, Enter
  <2>2. Clean(c.before)
    BY <2>1 DEF Inv
  <2>3. Task(q) /\ q.at = "undo" /\ ~Upgrading(q)
    BY <1>10, <2>1, <2>2, Working DEF undo_import, Open, Opened
  <2> QED BY <1>10, <2>1, <2>3, Starts DEF undo_import, stores, count, Showing
<1>11. ASSUME NEW t \in Tokens, apply_import(r, t) PROVE Inv'
  <2>1. PICK a, es :
          /\ a \in approvals /\ es \subseteq a.es
          /\ \/ request' = [request EXCEPT ![r] = [Work("copy", t, a, es) EXCEPT !.then = "batch"]]
             \/ request' = [request EXCEPT ![r] = Idle]
    BY <1>11 DEF apply_import, consume, prepare_apply
  <2>2. PICK w, q : w = Work("copy", t, a, es) /\ q = [w EXCEPT !.then = "batch"]
    OBVIOUS
  <2>3. q = [at |-> "copy", t |-> t, a |-> a, es |-> es, path |-> w.path, seen |-> w.seen, then |-> "batch"]
    BY <2>2 DEF Work
  <2>4. Clean(a.content) /\ Opened(t)
    BY <1>11, <2>1 DEF Inv, apply_import, Open, Opened
  <2>5. Task(q) /\ q.at = "copy" /\ ~Upgrading(q)
    BY <2>1, <2>3, <2>4 DEF Task, Removing, Upgrading
  <2>6. approvals' \subseteq approvals /\ UNCHANGED <<disk, session, receipts, fresh, refused>>
    BY <1>11 DEF apply_import, consume, count
  <2> QED BY <2>1, <2>2, <2>5, <2>6, Starts DEF Showing
<1>12. ASSUME NEW t \in Tokens, apply_payload_upgrade(r, t) PROVE Inv'
  <2>1. PICK a \in approvals :
          \/ /\ Unchanged(a, t) /\ file.id = a.active /\ file.content = session[t].content
             /\ request' = [request EXCEPT ![r] = [Work("copy", t, a, {}) EXCEPT !.then = "upgrade"]]
          \/ request' = [request EXCEPT ![r] = Idle]
    BY <1>12 DEF apply_payload_upgrade, consume
  <2>2. approvals' \subseteq approvals /\ UNCHANGED <<disk, session, receipts, fresh, refused>>
    BY <1>12 DEF apply_payload_upgrade, consume, count
  <2>3. CASE request' = [request EXCEPT ![r] = Idle]
    <3>1. Task(Idle) /\ ~Upgrading(Idle) /\ Idle.at \notin Showing
      BY DEF Task, Idle, Upgrading, Showing
    <3> QED BY <2>2, <2>3, <3>1, Starts
  <2>4. CASE /\ Unchanged(a, t) /\ file.id = a.active /\ file.content = session[t].content
             /\ request' = [request EXCEPT ![r] = [Work("copy", t, a, {}) EXCEPT !.then = "upgrade"]]
    <3>1. PICK w, q : w = Work("copy", t, a, {}) /\ q = [w EXCEPT !.then = "upgrade"]
      OBVIOUS
    <3>2. q = [at |-> "copy", t |-> t, a |-> a, es |-> {}, path |-> w.path, seen |-> w.seen, then |-> "upgrade"]
      BY <3>1 DEF Work
    <3>3. Clean(a.content) /\ Opened(t) /\ session[t].content = a.content /\ Matches(session[t].content, a.content)
      BY <1>12, <2>4 DEF Inv, apply_payload_upgrade, Open, Opened, Unchanged, Matches
    <3>4. Exact(a)
      <4>1. file \in Images /\ file.id \in Nat /\ file.id <= fresh /\ (file.id = 0 => file = NoFile)
        BY DEF Inv, Pictured, Images
      <4>2. \A f \in Images : f.id = file.id => f = file
        BY <4>1 DEF Inv, Pictured
      <4>3. NoFile.content = NoEntries
        BY DEF NoFile, File
      <4> QED BY <2>4, <3>3, <4>1, <4>2, <4>3 DEF Exact
    <3>5. Task(q) /\ q.at = "copy" /\ q.t = t /\ q.a = a
      BY <3>2, <3>3, <3>4 DEF Task, Removing
    <3> QED BY <2>2, <2>4, <3>1, <3>3, <3>5, Starts DEF Showing
  <2> QED BY <2>1, <2>3, <2>4
<1> QED BY <1>2, <1>3, <1>a, <1>4, <1>5, <1>6, <1>7, <1>8, <1>9, <1>10, <1>11, <1>12 DEF Start

-----------------------------------------------------------------------------
(* A request that goes on, whatever it did to the files and the sessions.  *)
LEMMA Proceeds ==
  ASSUME Inv, Grows, NEW g, NewImage(g), file' \in Images \cup {g}, \A b \in backups' : b.f \in Images,
         approvals' \subseteq approvals, \A c \in receipts' : c \in receipts \/ Clean(c.before),
         session' = session \/ \E ts : CloseAll(ts),
         NEW r \in Requests, NEW at, Go(r, at), ~At(r, "idle"), at # "idle" => ~At(r, "lock_all"),
         at \notin {"save", "undo", "delete", "resolved", "marked"} \cup Showing,
         at \in {"pin", "upgrade"} => request[r].then = "upgrade",
         at = "recorded" => At(r, "resolved"),
         at \in {"batch", "receipt"} => request[r].then = "batch" \/ At(r, "batch")
  PROVE  Inv'
<1>1. PICK q : /\ request' = [request EXCEPT ![r] = q]
               /\ Task(q) /\ q.at \notin Showing
               /\ q = Idle \/ (at # "idle" /\ q = [request[r] EXCEPT !.at = at])
  BY Goes
<1>2. ASSUME Upgrading(q) PROVE Matches(session[q.t].content, q.a.content)
  <2>1. PICK o : o = request[r] /\ Task(o) /\ o # Idle
    BY DEF Inv, At, Idle
  <2>2. q = [o EXCEPT !.at = at] /\ at # "idle"
    BY <1>1, <1>2, <2>1 DEF Upgrading, Idle
  <2>3. q.t = o.t /\ q.a = o.a /\ q.then = o.then
    BY <2>1, <2>2 DEF Task
  <2>4. Upgrading(o)
    BY <1>2, <2>1, <2>2, <2>3 DEF Upgrading, At
  <2> QED BY <2>1, <2>3, <2>4 DEF Inv
<1> QED BY <1>1, <1>2, Moves

(* What a request puts in place was readable in its preview.               *)
LEMMA Shown ==
  ASSUME Inv, NEW r \in Requests, At(r, "restore") \/ At(r, "recover") \/ At(r, "startup")
  PROVE  request[r].a.shown \in Images
BY DEF At, Images, Showing

(* An upgrade writes what its session holds, and holds what it wrote.      *)
LEMMA UpgradeStep ==
  ASSUME Inv, NEW r \in Requests, upgrade_payload(r) PROVE Inv'
<1>1. PICK q : q = request[r] /\ Task(q) /\ q # Idle /\ q.at = "upgrade"
  BY DEF Inv, upgrade_payload, At, Idle
<1>2. q.t \in Tokens /\ Opened(q.t) /\ q.then = "upgrade"
  BY <1>1 DEF Task
<1>3. PICK c : c = q.a.content /\ Clean(c) /\ Matches(session[q.t].content, c)
  BY <1>1, <1>2 DEF Task, Inv, Upgrading
<1>4. approvals' = approvals /\ receipts' = receipts /\ refused' = refused
  BY DEF upgrade_payload, stores
<1>5. ~At(r, "idle") /\ ~At(r, "lock_all")
  BY DEF upgrade_payload, At
<1>6. CASE Finish(r) /\ UNCHANGED <<disk, session, fresh>>
  <2>1. /\ file' \in Images /\ (\A b \in backups' : b.f \in Images) /\ NewImage(NoFile)
        /\ session' = session /\ Grows /\ Go(r, "idle")
    BY <1>4, <1>6 DEF disk, Grows, Finish, Images, NewImage
  <2> QED BY <1>4, <1>5, <2>1, Proceeds DEF Showing
<1>7. CASE /\ atomic_write(File(new, 3, q.a.content)) /\ Go(r, "lock_all")
           /\ session' = [session EXCEPT ![q.t] = [st |-> @.st, gen |-> @.gen + 1, rev |-> new, v |-> 3,
                                                   content |-> @.content, saved |-> @.saved]]
  <2>1. PICK g : g = File(new, 3, c) /\ atomic_write(g)
    BY <1>3, <1>7
  <2>2. file' = g /\ fresh' = fresh + 1 /\ Grows /\ \A b \in backups' : b.f \in Images
    BY <1>4, <2>1, Replaced DEF Grows
  <2>3. Clean(c)'
    BY <1>3, <2>2, CleanStays
  <2>4. g.content = c /\ g.id = new /\ NewImage(g)
    <3>1. g = [id |-> new, v |-> 3, content |-> c]
      BY <2>1 DEF File
    <3>2. g.content = c /\ g.id = new /\ g = File(g.id, g.v, g.content)
      BY <3>1 DEF File
    <3> QED BY <2>2, <2>3, <3>2 DEF NewImage, new
  <2>5. PICK p : request' = [request EXCEPT ![r] = p] /\ Task(p) /\ p.at \notin Showing
                 /\ (p = Idle \/ p = [request[r] EXCEPT !.at = "lock_all"])
    BY <1>5, <1>7, Goes DEF Showing
  <2>6. ~Upgrading(p)
    <3>1. CASE p = Idle
      BY <3>1 DEF Upgrading, Idle
    <3>2. CASE p = [q EXCEPT !.at = "lock_all"]
      <4>1. p.at = "lock_all"
        BY <1>1, <3>2 DEF Task
      <4> QED BY <4>1 DEF Upgrading
    <3> QED BY <1>1, <2>5, <3>1, <3>2
  <2>7. /\ request' = [x \in Requests |-> request'[x]]
        /\ \A x \in Requests : request'[x] = IF x = r THEN p ELSE request[x]
    BY <2>5 DEF Inv
  <2>8. PICK o : o = session[q.t] /\ Fit(o) /\ Matches(o.content, c) /\ o.st # "none"
    BY <1>2, <1>3 DEF Inv, Opened
  <2>9. PICK s : s = [st |-> o.st, gen |-> o.gen + 1, rev |-> new, v |-> 3, content |-> o.content, saved |-> o.saved]
    OBVIOUS
  <2>10. PICK m : m = o.content /\ Clean(m) /\ Clean(m)' /\ Matches(m, c)
    <3>1. PICK m : m = o.content /\ Clean(m) /\ Matches(m, c)
      BY <2>8 DEF Fit
    <3> QED BY <2>2, <3>1, CleanStays
  <2>11. /\ session' = [t \in Tokens |-> session'[t]]
         /\ \A t \in Tokens : session'[t] = IF t = q.t THEN s ELSE session[t]
    <3>1. session' = [session EXCEPT ![q.t] = s]
      BY <1>7, <2>8, <2>9
    <3>2. session = [t \in Tokens |-> session[t]]
      BY DEF Inv
    <3> QED BY <3>1, <3>2
  <2>12. Fit(s)'
    <3>1. ASSUME NEW f \in Images', f.id = new PROVE f.content = c
      <4>1. f = g \/ f \in Images
        <5>1. \A x \in Requests : request'[x].at \in Showing => request'[x].a.shown \in Images
          BY <2>5, <2>7 DEF Images
        <5>2. \A a \in approvals : a.shown \in Images
          BY DEF Images
        <5> QED BY <1>4, <2>2, <5>1, <5>2 DEF Images
      <4>2. f \in Images => f.id \in Nat /\ f.id <= fresh
        BY DEF Inv, Pictured
      <4> QED BY <2>4, <3>1, <4>1, <4>2 DEF Inv, new
    <3>2. \A f \in Images' : f.id = new => Matches(m, f.content)'
      BY <1>4, <2>10, <3>1 DEF Matches
    <3>3. fresh \in Nat
      BY DEF Inv
    <3> QED BY <2>2, <2>9, <2>10, <3>2, <3>3 DEF Fit, new
  <2>13. /\ \A t \in Tokens : \A x : x = session'[t] => x = session[t] \/ Fit(x) \/ Fit(x)'
         /\ \A t \in Tokens : Opened(t) => Opened(t)'
         /\ \A t \in Tokens : session'[t].content = session[t].content
    BY <2>8, <2>9, <2>11, <2>12 DEF Opened
  <2>14. ASSUME NEW x \in Requests, Upgrading(request'[x])
         PROVE  Matches(session'[request'[x].t].content, request'[x].a.content)
    <3>1. PICK y : y = request[x] /\ y = request'[x]
      BY <2>6, <2>7, <2>14
    <3>2. Task(y) /\ Matches(session[y.t].content, y.a.content)
      BY <2>14, <3>1 DEF Inv
    <3>3. y.t \in Tokens
      BY <2>14, <3>1, <3>2 DEF Task, Upgrading, Idle
    <3> QED BY <2>13, <3>1, <3>2, <3>3
  <2>15. \A x \in Requests : \A y : y = request'[x] =>
           y = request[x] \/ (Task(y) /\ (y.at \in Showing => y.a.shown \in Images))
    BY <2>5, <2>7
  <2>16. file' \in Images \cup {g} /\ \A b \in backups' : b.f \in Images \cup {g}
    BY <2>2
  <2> QED BY <1>4, <2>2, <2>4, <2>7, <2>11, <2>13, <2>14, <2>15, <2>16, Holds
<1> QED BY <1>1, <1>6, <1>7 DEF upgrade_payload

(* A deletion mark may appear in the memory that an upgrade works on.      *)
LEMMA MarkStep ==
  ASSUME Inv, NEW r \in Requests, MarkDeleted(r) PROVE Inv'
<1>1. PICK q : q = request[r] /\ Task(q) /\ q # Idle /\ q.at = "recorded"
  BY DEF Inv, MarkDeleted, At, Idle
<1>2. q.t \in Tokens /\ Opened(q.t) /\ q.es \subseteq Entries /\ q.then = "idle"
  BY <1>1 DEF Task, Removing
<1>3. /\ file' = file /\ backups' = backups /\ approvals' = approvals /\ receipts' = receipts
      /\ NewImage(NoFile) /\ file' \in Images /\ \A b \in backups' : b.f \in Images
  BY DEF MarkDeleted, disk, stores, NewImage, Images
<1>4. CASE Finish(r) /\ UNCHANGED <<session, fresh, refused>>
  <2>1. Go(r, "idle") /\ ~At(r, "idle") /\ Grows
    BY <1>1, <1>4 DEF Finish, At, Grows
  <2> QED BY <1>3, <1>4, <2>1, Proceeds DEF Showing
<1>5. CASE /\ session' = [session EXCEPT ![q.t].content = Set(@, q.es, new)]
           /\ Remember({}, {new})
           /\ request' = [request EXCEPT ![r] = [@ EXCEPT !.at = "marked", !.a = [seen |-> new]]]
           /\ Drawn
  <2>1. PICK o : o = session[q.t] /\ Fit(o) /\ o.st # "none"
    BY <1>2 DEF Inv, Opened
  <2>2. PICK c, m : c = o.content /\ m = Set(c, q.es, new) /\ Clean(c)
    BY <2>1 DEF Fit
  <2>3. /\ fresh' = fresh + 1 /\ new = fresh' /\ fresh \in Nat
        /\ refused'.changes = refused.changes /\ refused'.marks = refused.marks \cup {new}
    BY <1>5 DEF Drawn, Remember, new, Inv
  <2>4. Grows
    BY <2>3 DEF Grows
  <2>5. new \notin refused.changes
    BY <2>3 DEF Inv
  <2>6. Clean(m)'
    BY <2>2, <2>3, <2>4, <2>5, SetIsClean
  <2>7. PICK s : s = [o EXCEPT !.content = m]
    OBVIOUS
  <2>8. s = [st |-> o.st, gen |-> o.gen, rev |-> o.rev, v |-> o.v, content |-> m, saved |-> o.saved]
    BY <2>1, <2>7 DEF Fit
  <2>9. /\ session' = [t \in Tokens |-> session'[t]]
        /\ \A t \in Tokens : session'[t] = IF t = q.t THEN s ELSE session[t]
    BY <1>1, <1>5, <2>1, <2>2, <2>7 DEF Inv
  <2>10. PICK p : p = [q EXCEPT !.at = "marked", !.a = [seen |-> new]] /\ request' = [request EXCEPT ![r] = p]
    BY <1>1, <1>5
  <2>11. p = [at |-> "marked", t |-> q.t, a |-> [seen |-> new], es |-> q.es, path |-> q.path, seen |-> q.seen, then |-> "idle"]
    BY <1>1, <1>2, <2>10 DEF Task
  <2>12. s.st # "none" /\ \A t \in Tokens : Opened(t) => Opened(t)'
    BY <2>1, <2>8, <2>9 DEF Opened
  <2>13. Task(p)' /\ p.at \notin Showing /\ ~Upgrading(p)
    <3>1. Kept(p.a.seen)'
      BY <2>3, <2>5, <2>11 DEF Kept
    <3>2. Opened(q.t)'
      BY <1>2, <2>12
    <3>3. /\ p.at = "marked" /\ p.t = q.t /\ p.es = q.es /\ p.then = "idle"
          /\ p = [at |-> p.at, t |-> p.t, a |-> p.a, es |-> p.es, path |-> p.path, seen |-> p.seen, then |-> p.then]
      BY <2>11
    <3> QED BY <1>2, <3>1, <3>2, <3>3 DEF Task, Removing, Upgrading, Showing
  <2>14. /\ request' = [x \in Requests |-> request'[x]]
         /\ \A x \in Requests : request'[x] = IF x = r THEN p ELSE request[x]
    BY <2>10 DEF Inv
  <2>15. \A d : Matches(c, d) => Matches(m, d)'
    BY <2>2, <2>3 DEF Matches, Set
  <2>16. ASSUME NEW f \in Images' PROVE f \in Images
    <3>1. \A x \in Requests : request'[x].at \in Showing => request'[x].a.shown \in Images
      BY <2>13, <2>14 DEF Images
    <3>2. \A a \in approvals : a.shown \in Images
      BY DEF Images
    <3> QED BY <1>3, <2>16, <3>1, <3>2 DEF Images
  <2>17. Fit(s)'
    <3>1. ASSUME NEW f \in Images', f.id = s.rev PROVE Matches(s.content, f.content)'
      <4>1. Matches(c, f.content)
        BY <2>1, <2>2, <2>8, <2>16, <3>1 DEF Fit
      <4> QED BY <2>8, <2>15, <4>1
    <3>2. o.rev \in Nat /\ o.rev <= fresh' /\ o.rev # 0
      BY <2>1, <2>3 DEF Fit
    <3> QED BY <2>6, <2>8, <3>1, <3>2 DEF Fit
  <2>18. ASSUME NEW x \in Requests, Upgrading(request'[x])
         PROVE  \/ Matches(session'[request'[x].t].content, request'[x].a.content)
                \/ Matches(session[request[x].t].content, request[x].a.content)'
    <3>1. PICK y : y = request'[x] /\ y = request[x]
      BY <2>13, <2>14, <2>18
    <3>2. Task(y) /\ Matches(session[y.t].content, y.a.content)
      BY <2>18, <3>1 DEF Inv
    <3>3. y.t \in Tokens
      BY <2>18, <3>1, <3>2 DEF Task, Upgrading, Idle
    <3>4. CASE y.t = q.t
      <4>1. Matches(m, y.a.content)' /\ session'[y.t].content = m
        BY <2>1, <2>2, <2>8, <2>9, <2>15, <3>2, <3>3, <3>4
      <4>2. PICK d : d = y.a.content /\ Matches(m, d)'
        BY <4>1
      <4> QED BY <3>1, <4>1, <4>2
    <3>5. CASE y.t # q.t
      BY <2>9, <3>1, <3>2, <3>3, <3>5
    <3> QED BY <3>4, <3>5
  <2>19. /\ \A t \in Tokens : \A x : x = session'[t] => x = session[t] \/ Fit(x) \/ Fit(x)'
         /\ \A x \in Requests : \A y : y = request'[x] =>
              y = request[x] \/ ((Task(y) \/ Task(y)') /\ (y.at \in Showing => y.a.shown \in Images))
    BY <2>9, <2>13, <2>14, <2>17
  <2> QED BY <1>3, <2>4, <2>9, <2>12, <2>14, <2>18, <2>19, Holds
<1> QED BY <1>1, <1>4, <1>5 DEF MarkDeleted

LEMMA ContinueStep ==
  ASSUME Inv, NEW r \in Requests, Continue(r) PROVE Inv'
<1>0. NewImage(NoFile) /\ file \in Images /\ \A b \in backups : b.f \in Images
  BY DEF NewImage, Images
<1>1. CASE create_manual_backup(r)
  <2>1. PICK o : o = request[r] /\ Task(o) /\ o.at = "copy" /\ o # Idle
    BY <1>1 DEF Inv, create_manual_backup, At, Idle
  <2>2. PICK q : q = [o EXCEPT !.at = "register", !.path = new, !.seen = catalog]
    OBVIOUS
  <2>3. q = [at |-> "register", t |-> o.t, a |-> o.a, es |-> o.es, path |-> new, seen |-> catalog, then |-> o.then]
    BY <2>1, <2>2 DEF Task
  <2>4. Task(q) /\ q.at = "register"
    BY <2>1, <2>3 DEF Task, Removing
  <2>5. Upgrading(q) => Matches(session[q.t].content, q.a.content)
    BY <2>1, <2>3 DEF Upgrading, Inv
  <2>6. /\ request' = [request EXCEPT ![r] = q] /\ file' = file /\ session' = session
        /\ approvals' = approvals /\ receipts' = receipts /\ refused' = refused /\ fresh' = fresh + 1
        /\ \A b \in backups' : b.f \in Images
    BY <1>0, <1>1, <2>1, <2>2 DEF create_manual_backup, Drawn, new, stores, Copy
  <2>7. Grows
    BY <2>6 DEF Grows
  <2> QED BY <1>0, <2>4, <2>5, <2>6, <2>7, Moves DEF Showing
<1>2. CASE save_backup_catalog(r)
  <2>1. PICK q : q = request[r] /\ Task(q) /\ q # Idle /\ q.at \in {"register", "pinned", "unpinned"}
    BY <1>2 DEF Inv, save_backup_catalog, At, Idle
  <2>2. PICK at : /\ Go(r, at)
                  /\ at = q.then \/ (at = "pin" /\ q.then = "upgrade")
    BY <1>2, <2>1 DEF save_backup_catalog
  <2>3. q.then \in {"idle", "batch", "upgrade"}
    BY <2>1 DEF Task
  <2>4. /\ file' = file /\ backups' = backups /\ session' = session
        /\ approvals' = approvals /\ receipts' = receipts /\ Grows
    BY <1>2 DEF save_backup_catalog, stores, Grows
  <2> QED BY <1>0, <2>1, <2>2, <2>3, <2>4, Proceeds DEF At, Showing
<1>3. CASE PinUpgradeBackup(r)
  <2>1. PICK o : o = request[r] /\ Task(o) /\ o.at = "pin" /\ o # Idle
    BY <1>3 DEF Inv, PinUpgradeBackup, At, Idle
  <2>2. PICK q : q = [o EXCEPT !.at = "pinned", !.seen = catalog]
    OBVIOUS
  <2>3. q = [at |-> "pinned", t |-> o.t, a |-> o.a, es |-> o.es, path |-> o.path, seen |-> catalog, then |-> o.then]
    BY <2>1, <2>2 DEF Task
  <2>4. Task(q) /\ q.at = "pinned"
    BY <2>1, <2>3 DEF Task, Removing
  <2>5. Upgrading(q) => Matches(session[q.t].content, q.a.content)
    BY <2>1, <2>3 DEF Upgrading, Inv
  <2>6. /\ request' = [request EXCEPT ![r] = q]
        /\ UNCHANGED <<disk, session, receipts, fresh, refused>> /\ approvals' = approvals
    BY <1>3, <2>1, <2>2 DEF PinUpgradeBackup, count, stores
  <2> QED BY <2>4, <2>5, <2>6, Starts DEF Showing
<1>4. CASE Fail(r)
  <2>1. /\ file' = file /\ backups' = backups /\ session' = session
        /\ approvals' = approvals /\ receipts' = receipts /\ Grows
    BY <1>4 DEF Fail, disk, stores, Grows
  <2>2. Go(r, "idle") /\ ~At(r, "idle")
    BY <1>4 DEF Fail, Finish, At
  <2> QED BY <1>0, <2>1, <2>2, Proceeds DEF Showing
<1>5. CASE DeleteOne(r)
  <2>1. /\ file' = file /\ backups' \subseteq backups /\ session' = session
        /\ approvals' = approvals /\ receipts' = receipts /\ Grows
    BY <1>5 DEF DeleteOne, stores, Grows
  <2>2. CASE Go(r, "idle") /\ ~At(r, "idle")
    BY <1>0, <2>1, <2>2, Proceeds DEF Showing
  <2>3. CASE \E b \in request[r].es : request' = [request EXCEPT ![r].es = @ \ {b}]
    <3>1. PICK o : o = request[r] /\ Task(o) /\ o.at = "delete" /\ o # Idle
      BY <1>5 DEF Inv, DeleteOne, At, Idle
    <3>2. PICK b, q : q = [o EXCEPT !.es = @ \ {b}] /\ request' = [request EXCEPT ![r] = q]
      BY <2>3, <3>1
    <3>3. q = [at |-> "delete", t |-> o.t, a |-> o.a, es |-> o.es \ {b}, path |-> o.path, seen |-> o.seen, then |-> o.then]
      BY <3>1, <3>2 DEF Task
    <3>4. Task(q) /\ q.at = "delete"
      <4>1. o.then = "batch" => Clean(o.a.content)
        BY <3>1 DEF Task
      <4>2. o.es \ {b} \subseteq o.a.es
        BY <3>1 DEF Task
      <4> QED BY <3>1, <3>3, <4>1, <4>2 DEF Task
    <3>5. Upgrading(q) => Matches(session[q.t].content, q.a.content)
      BY <3>1, <3>3 DEF Upgrading, Inv
    <3> QED BY <1>0, <2>1, <3>2, <3>4, <3>5, Moves DEF Showing
  <2> QED BY <1>5, <2>2, <2>3 DEF DeleteOne, Finish, At
<1>6. CASE restore_backup(r)
  <2>1. /\ session' = session /\ approvals' = approvals /\ receipts' = receipts /\ refused' = refused
    BY <1>6 DEF restore_backup, stores
  <2>2. CASE \E b \in Source(request[r].a) : atomic_write(b.f) /\ Go(r, "lock")
    <3>1. PICK b \in backups : atomic_write(b.f)
      BY <2>2 DEF Source, list_backups
    <3>2. file' \in Images /\ Grows /\ \A c \in backups' : c.f \in Images
      BY <1>0, <2>1, <3>1, Replaced DEF Grows
    <3>3. ~At(r, "idle") /\ ~At(r, "lock_all")
      BY <1>6 DEF restore_backup, At
    <3> QED BY <1>0, <2>1, <2>2, <3>2, <3>3, Proceeds DEF Showing
  <2>3. CASE Finish(r) /\ UNCHANGED <<disk, fresh>>
    <3>1. file' = file /\ backups' = backups /\ Grows /\ Go(r, "idle") /\ ~At(r, "idle")
      BY <1>6, <2>1, <2>3 DEF disk, Grows, Finish, At, restore_backup
    <3> QED BY <1>0, <2>1, <3>1, Proceeds DEF Showing
  <2> QED BY <1>6, <2>2, <2>3 DEF restore_backup
<1>7. CASE LockRestored(r) \/ lock_all(r)
  <2>1. /\ file' = file /\ backups' = backups /\ (session' = session \/ \E ts : CloseAll(ts))
        /\ approvals' \subseteq approvals /\ receipts' = receipts /\ Grows
    BY <1>7 DEF LockRestored, lock_all, disk, clear_scope, Grows
  <2>2. Go(r, "idle") /\ ~At(r, "idle")
    BY <1>7 DEF LockRestored, lock_all, Finish, At
  <2> QED BY <1>0, <2>1, <2>2, Proceeds DEF Showing
<1>8. CASE restore_from_recovery_kit(r)
  <2>1. /\ session' = session /\ approvals' = approvals /\ receipts' = receipts /\ refused' = refused
    BY <1>8 DEF restore_from_recovery_kit, stores
  <2>2. CASE Go(r, "lock_all") /\ atomic_write(File(new, request[r].a.shown.v, request[r].a.shown.content))
    <3>1. PICK a, g : a = request[r].a.shown /\ g = File(new, a.v, a.content) /\ a \in Images
      BY <1>8, Shown DEF restore_from_recovery_kit
    <3>2. atomic_write(g)
      BY <2>2, <3>1
    <3>3. file' = g /\ fresh' = fresh + 1 /\ Grows /\ \A c \in backups' : c.f \in Images
      BY <2>1, <3>2, Replaced DEF Grows
    <3>4. NewImage(g)
      <4>1. PICK c : c = a.content /\ Clean(c)
        BY <3>1 DEF Inv, Pictured
      <4>2. Clean(c)'
        BY <3>3, <4>1, CleanStays
      <4>3. g = [id |-> new, v |-> a.v, content |-> c]
        BY <3>1, <4>1 DEF File
      <4>4. g.content = c /\ g = File(g.id, g.v, g.content) /\ g.id = fresh + 1
        BY <4>3 DEF File, new
      <4> QED BY <3>3, <4>2, <4>4 DEF NewImage
    <3>5. ~At(r, "idle") /\ ~At(r, "lock_all")
      BY <1>8 DEF restore_from_recovery_kit, At
    <3> QED BY <2>1, <2>2, <3>3, <3>4, <3>5, Proceeds DEF Showing
  <2>3. CASE Finish(r) /\ UNCHANGED <<disk, fresh>>
    <3>1. file' = file /\ backups' = backups /\ Grows /\ Go(r, "idle") /\ ~At(r, "idle")
      BY <1>8, <2>1, <2>3 DEF disk, Grows, Finish, At, restore_from_recovery_kit
    <3> QED BY <1>0, <2>1, <3>1, Proceeds DEF Showing
  <2> QED BY <1>8, <2>2, <2>3 DEF restore_from_recovery_kit
<1>9. CASE restore(r)
  <2>1. /\ session' = session /\ approvals' \subseteq approvals /\ receipts' = receipts /\ refused' = refused
        /\ Go(r, "idle") /\ ~At(r, "idle")
    BY <1>9 DEF restore, clear_scope, Finish, At
  <2>2. CASE \E b \in backups : atomic_write(b.f)
    <3>1. PICK b \in backups : atomic_write(b.f)
      BY <2>2
    <3>2. file' \in Images /\ Grows /\ \A c \in backups' : c.f \in Images
      BY <1>0, <2>1, <3>1, Replaced DEF Grows
    <3> QED BY <1>0, <2>1, <3>2, Proceeds DEF Showing
  <2>3. CASE UNCHANGED <<disk, fresh>>
    <3>1. file' = file /\ backups' = backups /\ Grows
      BY <2>1, <2>3 DEF disk, Grows
    <3> QED BY <1>0, <2>1, <3>1, Proceeds DEF Showing
  <2> QED BY <1>9, <2>2, <2>3 DEF restore
<1>10. CASE new_receipt(r)
  <2>1. Clean(request[r].a.content)
    BY <1>10 DEF new_receipt, Inv, Task, At, Idle
  <2>2. PICK c : c.before = request[r].a.content /\ receipts' = receipts \cup {c}
    BY <1>10 DEF new_receipt
  <2>3. /\ file' = file /\ backups' = backups /\ session' = session
        /\ approvals' = approvals /\ Grows /\ Go(r, "idle") /\ ~At(r, "idle")
    BY <1>10 DEF new_receipt, disk, Grows, Finish, At
  <2> QED BY <1>0, <2>1, <2>2, <2>3, Proceeds DEF Showing
<1>11. CASE upgrade_payload(r)
  BY <1>11, UpgradeStep
<1> QED
  BY <1>1, <1>2, <1>3, <1>4, <1>5, <1>6, <1>7, <1>8, <1>9, <1>10, <1>11,
     CommitEntryStep, ReplaceStep, MarkStep, CommitBatchStep, UndoStep DEF Continue

-----------------------------------------------------------------------------
LEMMA NothingIsClean ==
  ASSUME Inv PROVE Clean(NoEntries)
<1>1. PICK c : c = NoEntries
  OBVIOUS
<1>2. Clean(c)
  BY <1>1 DEF NoEntries, Clean, Inv
<1> QED BY <1>1, <1>2

LEMMA Issued ==
  ASSUME Inv, NEW kind, NEW scope \in Tokens \cup {Instance}, NEW path, NEW shown \in Images \cup {NoFile}, NEW es,
         issue(Approval(kind, scope, path, shown, es))
  PROVE  Inv'
<1>1. PICK a : a = Approval(kind, scope, path, shown, es)
  OBVIOUS
<1>2. a.shown = shown /\ a.content = (IF scope = Instance THEN NoEntries ELSE session[scope].content)
  BY <1>1 DEF Approval
<1>3. Clean(a.content)
  BY <1>2, NothingIsClean DEF Inv, Fit
<1>4. approvals' = approvals \cup {a} /\ UNCHANGED <<disk, session, receipts, request, fresh, refused>>
  BY <1>1 DEF issue, Answered
<1> QED BY <1>2, <1>3, <1>4, Issues

LEMMA PreviewStep ==
  ASSUME Inv, Previews PROVE Inv'
<1>1. \A b \in backups : b.f \in Images \cup {NoFile}
  BY DEF Images
<1>2. CASE PreviewInstance
  BY <1>1, <1>2, Issued DEF PreviewInstance
<1>3. ASSUME NEW t \in Tokens, PreviewCleanup(t) PROVE Inv'
  BY <1>3, Issued DEF PreviewCleanup
<1>4. ASSUME NEW t \in Tokens, PreviewRestore(t) PROVE Inv'
  BY <1>1, <1>4, Issued DEF PreviewRestore, list_backups
<1>5. ASSUME NEW t \in Tokens, preview_import(t) \/ PreviewBatch(t) \/ PreviewUpgrade(t) PROVE Inv'
  BY <1>5, Issued DEF preview_import, PreviewBatch, PreviewUpgrade
<1> QED BY <1>2, <1>3, <1>4, <1>5 DEF Previews

LEMMA UnlockStep ==
  ASSUME Inv, NEW t \in Tokens, Unlock(t) PROVE Inv'
<1>1. PICK f : f = file /\ f \in Images /\ f # NoFile
  BY DEF Images, Unlock
<1>2. /\ f.id \in Nat /\ f.id <= fresh /\ f.id # 0 /\ Clean(f.content)
      /\ \A h \in Images : f.id = h.id => h = f
  BY <1>1 DEF Inv, Pictured
<1>3. PICK c : c = f.content
  OBVIOUS
<1>4. PICK s : s = [st |-> "open", gen |-> 0, rev |-> f.id, v |-> f.v, content |-> c, saved |-> {}]
  OBVIOUS
<1>5. Fit(s)
  <2>1. \A h \in Images : h.id = s.rev => Matches(s.content, h.content)
    BY <1>2, <1>3, <1>4 DEF Matches
  <2> QED BY <1>2, <1>3, <1>4, <2>1 DEF Fit
<1>6. /\ session' = [session EXCEPT ![t] = s] /\ session[t].st = "none"
      /\ UNCHANGED <<disk, stores, request, count, refused>>
  BY <1>1, <1>3, <1>4 DEF Unlock
<1>7. /\ session' = [u \in Tokens |-> session'[u]]
      /\ \A u \in Tokens : session'[u] = IF u = t THEN s ELSE session[u]
  BY <1>6 DEF Inv
<1>8. /\ \A u \in Tokens : \A x : x = session'[u] => x = session[u] \/ Fit(x)
      /\ \A u \in Tokens : Opened(u) => Opened(u)'
  BY <1>4, <1>5, <1>7 DEF Opened
<1>9. ASSUME NEW r \in Requests, Upgrading(request'[r])
      PROVE  Matches(session'[request'[r].t].content, request'[r].a.content)
  <2>1. PICK q : q = request[r] /\ q = request'[r]
    BY <1>6
  <2>2. Task(q) /\ Matches(session[q.t].content, q.a.content) /\ q.t \in Tokens /\ Opened(q.t)
    BY <1>9, <2>1 DEF Inv, Task, Upgrading, Idle
  <2>3. q.t # t
    BY <1>6, <2>2 DEF Opened
  <2> QED BY <1>7, <2>1, <2>2, <2>3
<1>10. /\ Grows /\ NewImage(NoFile) /\ file' \in Images /\ \A b \in backups' : b.f \in Images
       /\ approvals' = approvals /\ receipts' = receipts /\ request' = request
       /\ request = [r \in Requests |-> request[r]]
  BY <1>6 DEF Grows, NewImage, Images, disk, stores, count, Inv
<1> QED BY <1>7, <1>8, <1>9, <1>10, Holds

LEMMA ClearStep ==
  ASSUME Inv, NEW ts, Clear(ts) PROVE Inv'
<1>1. CloseAll(ts) /\ UNCHANGED <<disk, request, count, refused>>
      /\ approvals' \subseteq approvals /\ receipts' \subseteq receipts
  BY DEF Clear, clear_scope, clear_session
<1>2. /\ Grows /\ NewImage(NoFile) /\ file' \in Images /\ \A b \in backups' : b.f \in Images
      /\ request' = request /\ request = [r \in Requests |-> request[r]]
  BY <1>1 DEF Grows, NewImage, Images, disk, count, Inv
<1>3. /\ session' = [t \in Tokens |-> session'[t]]
      /\ \A t \in Tokens : /\ \A s : s = session'[t] => s = session[t] \/ Fit(s)
                           /\ Opened(t) => Opened(t)'
                           /\ session'[t].content = session[t].content
  BY <1>1, Closing
<1>4. ASSUME NEW r \in Requests, Upgrading(request'[r])
      PROVE  Matches(session'[request'[r].t].content, request'[r].a.content)
  <2>1. PICK q : q = request[r] /\ q = request'[r]
    BY <1>1
  <2>2. Task(q) /\ Matches(session[q.t].content, q.a.content) /\ q.t \in Tokens
    BY <1>4, <2>1 DEF Inv, Task, Upgrading, Idle
  <2> QED BY <1>3, <2>1, <2>2
<1> QED BY <1>1, <1>2, <1>3, <1>4, Holds

(* A new image somewhere among the backups.                                *)
LEMMA Filed ==
  ASSUME Inv, Grows, NEW g, NewImage(g), file' = file, \A b \in backups' : b.f \in Images \cup {g},
         UNCHANGED <<stores, session, request>>
  PROVE  Inv'
<1>1. /\ file' \in Images /\ approvals' = approvals /\ receipts' = receipts
      /\ session' = session /\ session = [t \in Tokens |-> session[t]]
      /\ request' = request /\ request = [r \in Requests |-> request[r]]
      /\ \A r \in Requests : Upgrading(request[r]) => Matches(session[request[r].t].content, request[r].a.content)
  BY DEF Images, stores, Inv
<1> QED BY <1>1, Holds DEF Opened

LEMMA KitStep ==
  ASSUME Inv, NEW t \in Tokens, create_recovery_kit(t) PROVE Inv'
<1>1. PICK c, v : c = session[t].content /\ v = session[t].v /\ Clean(c)
  BY DEF Inv, Fit
<1>2. PICK g : g = File(new, v, c)
  OBVIOUS
<1>3. /\ fresh' = fresh + 1 /\ refused' = refused /\ file' = file /\ UNCHANGED <<stores, session, request>>
      /\ backups' = backups \cup {Copy(new, "kit", g)}
  BY <1>1, <1>2 DEF create_recovery_kit, Drawn, Answered, new
<1>4. Grows
  BY <1>3 DEF Grows
<1>5. NewImage(g)
  <2>1. g = [id |-> new, v |-> v, content |-> c]
    BY <1>2 DEF File
  <2>2. g.content = c /\ g = File(g.id, g.v, g.content) /\ g.id = fresh + 1
    BY <2>1 DEF File, new
  <2>3. Clean(c)'
    BY <1>1, <1>4, CleanStays
  <2> QED BY <1>3, <2>2, <2>3 DEF NewImage
<1>6. \A b \in backups' : b.f \in Images \cup {g}
  BY <1>3 DEF Images, Copy
<1> QED BY <1>3, <1>4, <1>5, <1>6, Filed

LEMMA OverwriteStep ==
  ASSUME Inv, Overwrite PROVE Inv'
<1>1. PICK b \in backups, g \in {NoFile, File(new, 2, NoEntries)} :
        backups' = (backups \ {b}) \cup {Copy(b.path, b.kind, g)}
  BY DEF Overwrite
<1>2. /\ fresh' = fresh + 1 /\ refused' = refused /\ file' = file /\ UNCHANGED <<stores, session, request>>
  BY DEF Overwrite, Drawn, Answered, new
<1>3. Grows
  BY <1>2 DEF Grows
<1>4. NewImage(g)
  <2>1. CASE g = NoFile
    BY <2>1 DEF NewImage
  <2>2. CASE g = File(new, 2, NoEntries)
    <3>1. PICK c : c = NoEntries /\ Clean(c)
      BY NothingIsClean
    <3>2. g = [id |-> new, v |-> 2, content |-> c]
      BY <2>2, <3>1 DEF File
    <3>3. g.content = c /\ g = File(g.id, g.v, g.content) /\ g.id = fresh + 1
      BY <3>2 DEF File, new
    <3>4. Clean(c)'
      BY <1>3, <3>1, CleanStays
    <3> QED BY <1>2, <3>3, <3>4 DEF NewImage
  <2> QED BY <2>1, <2>2
<1>5. \A x \in backups' : x.f \in Images \cup {g}
  BY <1>1 DEF Images, Copy
<1> QED BY <1>2, <1>3, <1>4, <1>5, Filed

LEMMA NextKeepsInv ==
  Inv /\ [Next]_vars => Inv'
<1> SUFFICES ASSUME Inv, [Next]_vars PROVE Inv'
  OBVIOUS
<1>1. CASE Sessions
  <2>1. ASSUME NEW t \in Tokens, lock(t) PROVE Inv'
    BY <2>1, ClearStep DEF lock
  <2>2. CASE system_session_state
    BY <2>2, ClearStep DEF system_session_state
  <2> QED BY <1>1, <2>1, <2>2, UnlockStep, MutateStep, KitStep DEF Sessions
<1>2. CASE Expire
  BY <1>2, Issues DEF Expire, count
<1>3. CASE UNCHANGED vars
  BY <1>3, Issues DEF vars, stores, count
<1> QED BY <1>1, <1>2, <1>3, PreviewStep, OverwriteStep, StartStep, ContinueStep DEF Next

LEMMA InitIsInv ==
  Init => Inv
<1> SUFFICES ASSUME Init PROVE Inv
  OBVIOUS
<1>1. /\ fresh = 2 /\ refused.changes = {}
      /\ session = [t \in Tokens |-> Closed] /\ approvals = {} /\ receipts = {}
      /\ request = [r \in Requests |-> Idle]
  BY DEF Init
<1>2. PICK f, g :
        /\ f.id \in {0, 2} /\ f = File(f.id, f.v, f.content) /\ Clean(f.content) /\ (f.id = 0 => f = NoFile)
        /\ g.id \in {1, 2} /\ g = File(g.id, g.v, g.content) /\ Clean(g.content) /\ (g.id = 2 => f = NoFile)
        /\ file = f /\ \A b \in backups : b.f = g
  <2>1. PICK v \in {2, 3} :
          \/ /\ file = File(2, v, [e \in Entries |-> IF e \in Stored THEN 2 ELSE 0])
             /\ backups = {Copy(1, "local_atomic", File(1, v, [e \in Entries |-> IF e \in Stored THEN 1 ELSE 0]))}
          \/ /\ file = NoFile
             /\ backups = {Copy(1, "manual", File(2, v, [e \in Entries |-> IF e \in Stored THEN 2 ELSE 0]))}
    BY DEF Init
  <2>2. PICK c : c = [e \in Entries |-> IF e \in Stored THEN 2 ELSE 0]
    OBVIOUS
  <2>3. PICK d : d = [e \in Entries |-> IF e \in Stored THEN 1 ELSE 0]
    OBVIOUS
  <2>4. PICK z : z = NoEntries
    OBVIOUS
  <2>5. Clean(c) /\ Clean(d) /\ Clean(z)
    BY <1>1, <2>2, <2>3, <2>4 DEF Clean, NoEntries
  <2>6. PICK h : h = File(2, v, c)
    OBVIOUS
  <2>7. h.id = 2 /\ h.content = c /\ h = File(h.id, h.v, h.content)
    BY <2>6 DEF File
  <2>8. CASE file = h /\ backups = {Copy(1, "local_atomic", File(1, v, d))}
    <3>1. PICK k : k = File(1, v, d)
      OBVIOUS
    <3>2. k.id = 1 /\ k.content = d /\ k = File(k.id, k.v, k.content)
      BY <3>1 DEF File
    <3>3. \A b \in backups : b.f = k
      BY <2>8, <3>1 DEF Copy
    <3> QED BY <2>5, <2>7, <2>8, <3>2, <3>3
  <2>9. CASE file = NoFile /\ backups = {Copy(1, "manual", h)}
    <3>1. PICK k : k = NoFile
      OBVIOUS
    <3>2. k.id = 0 /\ k.content = z /\ k = File(k.id, k.v, k.content)
      BY <2>4, <3>1 DEF NoFile, File
    <3>3. \A b \in backups : b.f = h
      BY <2>9 DEF Copy
    <3> QED BY <2>5, <2>7, <2>9, <3>1, <3>2, <3>3
  <2> QED BY <2>1, <2>2, <2>3, <2>6, <2>8, <2>9
<1>3. \A x \in Images : x = f \/ x = g
  <2>1. \A r \in Requests : request[r].at \notin Showing
    BY <1>1 DEF Idle, Showing
  <2> QED BY <1>1, <1>2, <2>1 DEF Images
<1>4. Pictured
  <2>1. ASSUME NEW x \in Images, NEW y \in Images, x.id = y.id PROVE x = y
    <3>1. f.id = g.id => f = g
      <4>1. f.id = 2 => f # NoFile
        BY DEF NoFile, File
      <4> QED BY <1>2, <4>1
    <3> QED BY <1>3, <2>1, <3>1
  <2> QED BY <1>1, <1>2, <1>3, <2>1 DEF Pictured
<1>5. ASSUME NEW t \in Tokens PROVE Fit(session[t])
  <2>1. PICK s : s = Closed
    OBVIOUS
  <2>2. s = [st |-> "none", gen |-> 0, rev |-> 0, v |-> 0, content |-> NoEntries, saved |-> {}]
    BY <2>1 DEF Closed
  <2>3. Clean(NoEntries)
    <3>1. PICK z : z = NoEntries
      OBVIOUS
    <3>2. Clean(z)
      BY <1>1, <3>1 DEF Clean, NoEntries
    <3> QED BY <3>1, <3>2
  <2>4. Fit(s)
    BY <1>1, <2>2, <2>3 DEF Fit
  <2> QED BY <1>1, <2>1, <2>4
<1>6. \A r \in Requests : Task(request[r]) /\ ~Upgrading(request[r])
  BY <1>1 DEF Task, Upgrading, Idle
<1> QED BY <1>1, <1>4, <1>5, <1>6 DEF Inv

LEMMA Invariant ==
  Spec => []Inv
BY InitIsInv, NextKeepsInv, PTL DEF Spec

-----------------------------------------------------------------------------
(* A change whose save was refused is in no vault file, no backup and no   *)
(* kit, ever.                                                              *)
THEOREM RefusalsStayOut ==
  Spec => []RefusedStaysOut
<1>1. Inv => RefusedStaysOut
  <2> SUFFICES ASSUME Inv, NEW f \in {file} \cup {b.f : b \in backups}, NEW e \in Entries
               PROVE  f.content[e] \notin refused.changes
    BY DEF RefusedStaysOut
  <2>1. f \in Images
    BY DEF Images
  <2> QED BY <2>1 DEF Inv, Pictured, Clean
<1> QED BY <1>1, Invariant, PTL

(* A request that starts touches no file.                                  *)
LEMMA StartsOnly ==
  ASSUME NEW r, Start(r) PROVE UNCHANGED disk
<1>1. ApplyInstance(r) => UNCHANGED disk
  BY DEF ApplyInstance, consume
<1>2. ASSUME NEW t
      PROVE  /\ commit_entry_transaction(r, t) \/ delete_entry(r, t) => UNCHANGED disk
             /\ CreateBackup(r, t) \/ set_backup_pinned(r, t) => UNCHANGED disk
  BY DEF commit_entry_transaction, delete_entry, CreateBackup, set_backup_pinned
<1>3. ASSUME NEW t PROVE apply_retention_plan(r, t) \/ apply_restore(r, t) => UNCHANGED disk
  BY DEF apply_retention_plan, apply_restore, consume
<1>4. ASSUME NEW t PROVE apply_import(r, t) => UNCHANGED disk
  BY DEF apply_import, consume
<1>5. ASSUME NEW t PROVE ApplyBatch(r, t) \/ apply_payload_upgrade(r, t) => UNCHANGED disk
  BY DEF ApplyBatch, apply_payload_upgrade, consume
<1>6. ASSUME NEW t PROVE purge_expired(r, t) \/ undo_import(r, t) => UNCHANGED disk
  BY DEF purge_expired, undo_import
<1> QED BY <1>1, <1>2, <1>3, <1>4, <1>5, <1>6 DEF Start

(* Who writes the vault file, and who removes a backup.                    *)
LEMMA Writers ==
  ASSUME Next, file' # file
  PROVE  \/ \E t \in Tokens : Mutate(t)
         \/ \E r \in Requests : \/ commit_entry(r) \/ replace_entry(r) \/ commit_import_batch(r) \/ restore_import_payload(r)
                                \/ restore_backup(r) \/ restore_from_recovery_kit(r) \/ restore(r)
                                \/ upgrade_payload(r)
<1>1. ~Previews /\ ~Expire /\ ~Overwrite
  BY DEF Previews, PreviewInstance, PreviewCleanup, PreviewRestore, preview_import, PreviewBatch,
     PreviewUpgrade, issue, Expire, Overwrite, disk
<1>2. ~system_session_state /\ \A t \in Tokens : ~Unlock(t) /\ ~lock(t) /\ ~create_recovery_kit(t)
  BY DEF system_session_state, Unlock, lock, Clear, create_recovery_kit, disk
<1>3. \A r \in Requests : ~Start(r)
  BY StartsOnly DEF disk
<1>4. ASSUME NEW r \in Requests
      PROVE  /\ ~create_manual_backup(r) /\ ~save_backup_catalog(r) /\ ~PinUpgradeBackup(r) /\ ~Fail(r)
             /\ ~DeleteOne(r) /\ ~LockRestored(r) /\ ~lock_all(r) /\ ~new_receipt(r) /\ ~MarkDeleted(r)
  BY DEF MarkDeleted, create_manual_backup, save_backup_catalog, PinUpgradeBackup, Fail, DeleteOne, LockRestored, lock_all,
     new_receipt, disk
<1> QED BY <1>1, <1>2, <1>3, <1>4 DEF Next, Sessions, Continue

LEMMA Removers ==
  ASSUME Next, ~(backups \subseteq backups') PROVE Overwrite \/ \E r \in Requests : DeleteOne(r)
<1>1. ~Previews /\ ~Expire
  BY DEF Previews, PreviewInstance, PreviewCleanup, PreviewRestore, preview_import, PreviewBatch,
     PreviewUpgrade, issue, Expire, disk
<1>2. ~system_session_state /\ \A t \in Tokens : /\ ~Unlock(t) /\ ~lock(t) /\ ~create_recovery_kit(t)
                                                 /\ ~Mutate(t)
  BY DEF system_session_state, Unlock, lock, Clear, create_recovery_kit, Mutate, write_payload,
     Refused, atomic_write, disk
<1>3. \A r \in Requests : ~Start(r)
  BY StartsOnly DEF disk
<1>4. ASSUME NEW r \in Requests
      PROVE  /\ ~create_manual_backup(r) /\ ~save_backup_catalog(r) /\ ~PinUpgradeBackup(r) /\ ~Fail(r)
             /\ ~LockRestored(r) /\ ~lock_all(r) /\ ~new_receipt(r) /\ ~MarkDeleted(r)
  BY DEF MarkDeleted, create_manual_backup, save_backup_catalog, PinUpgradeBackup, Fail, LockRestored, lock_all,
     new_receipt, disk
<1>5. ASSUME NEW r \in Requests
      PROVE  /\ ~replace_entry(r) /\ ~commit_entry(r) /\ ~commit_import_batch(r) /\ ~restore_import_payload(r) /\ ~restore_backup(r)
             /\ ~restore_from_recovery_kit(r) /\ ~restore(r) /\ ~upgrade_payload(r)
  BY DEF replace_entry, commit_entry, commit_import_batch, restore_import_payload, restore_backup, restore_from_recovery_kit,
     restore, upgrade_payload, write_payload, Refused, atomic_write, disk
<1> QED BY <1>1, <1>2, <1>3, <1>4, <1>5 DEF Next, Sessions, Continue

(* A cleanup deletes only the bytes that its preview listed.               *)
THEOREM CleanupDeletesTheShown ==
  Spec => CleanupAsShown
<1>1. Inv /\ [Next]_vars =>
        [\A b \in backups :
            b.path \notin {c.path : c \in backups'} =>
                \E r \in Requests : Steps(r) /\ At(r, "delete") /\ b \in request[r].a.es]_vars
  <2> SUFFICES ASSUME Inv, Next, NEW b \in backups, b.path \notin {c.path : c \in backups'}
               PROVE  \E r \in Requests : Steps(r) /\ At(r, "delete") /\ b \in request[r].a.es
    OBVIOUS
  <2>1. b \notin backups'
    OBVIOUS
  <2>2. ~Overwrite
    <3> SUFFICES ASSUME Overwrite PROVE FALSE
      OBVIOUS
    <3>1. PICK c, f : c \in backups /\ backups' = (backups \ {c}) \cup {Copy(c.path, c.kind, f)}
      BY DEF Overwrite
    <3>2. Copy(c.path, c.kind, f).path = c.path
      BY DEF Copy
    <3> QED BY <2>1, <3>1, <3>2
  <2>3. PICK r \in Requests : DeleteOne(r)
    BY <2>1, <2>2, Removers
  <2>4. PICK q : q = request[r] /\ Task(q) /\ q.at = "delete" /\ q # Idle
    BY <2>3 DEF Inv, DeleteOne, At, Idle
  <2>5. PICK c \in q.es : backups' = backups \ {c} /\ request' = [request EXCEPT ![r].es = @ \ {c}]
    BY <2>1, <2>3, <2>4 DEF DeleteOne
  <2>6. b = c /\ q.es \subseteq q.a.es
    BY <2>1, <2>4, <2>5 DEF Task
  <2>7. request'[r] # request[r]
    <3>1. PICK p : p = [q EXCEPT !.es = @ \ {c}] /\ p = request'[r]
      BY <2>4, <2>5 DEF Inv
    <3>2. p.es = q.es \ {c}
      BY <2>4, <3>1 DEF Task
    <3> QED BY <2>4, <2>5, <3>1, <3>2
  <2> QED BY <2>4, <2>5, <2>6, <2>7 DEF Steps, At
<1> QED BY <1>1, Invariant, PTL DEF Spec, CleanupAsShown

(* A session whose revision is the file's knows what the file holds.       *)
LEMMA SessionKnows ==
  ASSUME Inv, NEW t \in Tokens, Opened(t), session[t].rev = file.id PROVE Knows(session[t].content)
BY DEF Inv, Fit, Opened, Matches, Knows, Images

LEMMA PayloadWritten ==
  ASSUME Inv, NEW t \in Tokens, NEW c, NEW txs, write_payload(t, c, txs)
  PROVE  /\ session[t].rev = file.id /\ file'.content = c
         /\ session'[t].rev = file'.id
<1>1. PICK g : g = File(new, session[t].v, c) /\ file' = g
  BY DEF write_payload, atomic_write
<1>2. g.id = new /\ g.content = c
  BY <1>1 DEF File
<1>3. session'[t].rev = new
  BY DEF write_payload, Inv
<1> QED BY <1>1, <1>2, <1>3 DEF write_payload

(* Only the request that is at work takes a step.                          *)
LEMMA Stepping ==
  ASSUME Inv, NEW r \in Requests, NEW at, Go(r, at), ~At(r, at), ~At(r, "idle")
  PROVE  Steps(r) /\ \A p \in Requests : Steps(p) => p = r
<1>1. PICK q : q = request[r] /\ Task(q) /\ q # Idle /\ q.at # at /\ q.at # "idle"
  BY DEF Inv, At, Idle
<1>2. PICK n : request' = [request EXCEPT ![r] = n] /\ n = (IF at = "idle" THEN Idle ELSE [q EXCEPT !.at = at])
  BY <1>1 DEF Go
<1>3. n.at = at
  BY <1>1, <1>2 DEF Task, Idle
<1> QED BY <1>1, <1>2, <1>3 DEF Steps, Inv

(* Whoever wrote the vault file did so by one of these.                    *)
Placed(q) ==
    \/ q.at \in {"save", "batch"} /\ session[q.t].rev = file.id /\ file'.content = Set(session[q.t].content, q.es, new)
       /\ (q.at = "save" => \A e \in q.es : session[q.t].content[e] = q.a.updated_at)
       /\ (q.at = "batch" => Unchanged(q.a, q.t))
    \/ q.at \in {"resolved", "marked"} /\ session[q.t].rev = file.id
       /\ file'.content = Set(session[q.t].content, q.es, q.a.seen)
    \/ q.at = "undo" /\ session[q.t].rev = file.id /\ Unchanged(q.a, q.t) /\ file'.content = q.a.before
    \/ q.at = "restore" /\ file.id = q.a.active /\ file'.id = q.a.shown.id /\ file' \in Images
    \/ q.at = "startup" /\ file = NoFile /\ file'.id = q.a.shown.id /\ file' \in Images
    \/ q.at = "recover" /\ file.id = q.a.active /\ file'.content = q.a.shown.content
    \/ q.at = "upgrade" /\ file.id = q.a.active /\ file'.content = q.a.content

LEMMA WrittenBy ==
  ASSUME Inv, Next, file' # file
  PROVE  \/ \E t \in Tokens : request' = request /\ Opened(t) /\ session[t].rev = file.id /\ session'[t].rev = file'.id
         \/ \E r \in Requests : /\ Steps(r) /\ \A p \in Requests : Steps(p) => p = r
                                /\ Placed(request[r])
<1>1. ASSUME NEW t \in Tokens, Mutate(t)
      PROVE  request' = request /\ Opened(t) /\ session[t].rev = file.id /\ session'[t].rev = file'.id
  BY <1>1, PayloadWritten DEF Mutate, Refused, Answered, disk, Open, Opened
<1>3. ASSUME NEW r \in Requests
      PROVE  request[r].at \in {"save", "batch", "undo", "resolved", "marked"} => request[r].t \in Tokens
  <2>1. Task(request[r])
    BY DEF Inv
  <2> QED BY <2>1 DEF Task, Idle, Removing
<1>2. ASSUME NEW r \in Requests, replace_entry(r)
      PROVE  Steps(r) /\ (\A p \in Requests : Steps(p) => p = r) /\ Placed(request[r])
  <2>1. PICK q, c : /\ q = request[r] /\ q.at \in {"resolved", "marked"} /\ q.t \in Tokens
                    /\ c = Set(session[q.t].content, q.es, q.a.seen)
    BY <1>2, <1>3 DEF replace_entry
  <2>2. write_payload(q.t, c, {})
    BY <1>2, <2>1 DEF replace_entry, Refused, disk
  <2>3. session[q.t].rev = file.id /\ file'.content = c
    BY <2>1, <2>2, PayloadWritten
  <2>4. PICK at \in {"idle", "recorded"} : Go(r, at)
    BY <1>2 DEF replace_entry, Finish
  <2> QED BY <2>1, <2>3, <2>4, Stepping DEF Placed, At
<1>4. ASSUME NEW r \in Requests, commit_entry(r)
      PROVE  Steps(r) /\ (\A p \in Requests : Steps(p) => p = r) /\ Placed(request[r])
  <2>1. PICK q, c : q = request[r] /\ c = session[q.t].content /\ q.at = "save" /\ q.t \in Tokens
    BY <1>3, <1>4 DEF commit_entry, At
  <2>2. write_payload(q.t, Set(c, q.es, new), {q.a.tx}) /\ \A e \in q.es : c[e] = q.a.updated_at
    BY <1>4, <2>1 DEF commit_entry, Refused, disk
  <2>3. session[q.t].rev = file.id /\ file'.content = Set(c, q.es, new)
    BY <2>1, <2>2, PayloadWritten
  <2>4. Go(r, "idle") /\ ~At(r, "idle")
    BY <1>4 DEF commit_entry, Finish, At
  <2> QED BY <2>1, <2>2, <2>3, <2>4, Stepping DEF Placed
<1>5. ASSUME NEW r \in Requests, commit_import_batch(r)
      PROVE  Steps(r) /\ (\A p \in Requests : Steps(p) => p = r) /\ Placed(request[r])
  <2>1. PICK q, c : q = request[r] /\ c = session[q.t].content /\ q.at = "batch" /\ q.t \in Tokens
    BY <1>3, <1>5 DEF commit_import_batch, At
  <2>2. write_payload(q.t, Set(c, q.es, new), {}) /\ Unchanged(q.a, q.t)
    BY <1>5, <2>1 DEF commit_import_batch, Refused, disk
  <2>3. session[q.t].rev = file.id /\ file'.content = Set(c, q.es, new)
    BY <2>1, <2>2, PayloadWritten
  <2>4. PICK at \in {"idle", "receipt"} : Go(r, at)
    BY <1>5 DEF commit_import_batch, Finish
  <2> QED BY <2>1, <2>2, <2>3, <2>4, Stepping DEF Placed, At
<1>6. ASSUME NEW r \in Requests, restore_import_payload(r)
      PROVE  Steps(r) /\ (\A p \in Requests : Steps(p) => p = r) /\ Placed(request[r])
  <2>1. PICK q, c : q = request[r] /\ c = q.a.before /\ q.at = "undo" /\ q.t \in Tokens
    BY <1>3, <1>6 DEF restore_import_payload, At
  <2>2. write_payload(q.t, c, {}) /\ Unchanged(q.a, q.t)
    BY <1>6, <2>1 DEF restore_import_payload, Refused, disk
  <2>3. session[q.t].rev = file.id /\ file'.content = c
    BY <2>1, <2>2, PayloadWritten
  <2>4. Go(r, "idle") /\ ~At(r, "idle")
    BY <1>6 DEF restore_import_payload, Finish, At
  <2> QED BY <2>1, <2>2, <2>3, <2>4, Stepping DEF Placed
<1>7. ASSUME NEW r \in Requests, restore_backup(r)
      PROVE  Steps(r) /\ (\A p \in Requests : Steps(p) => p = r) /\ Placed(request[r])
  <2>1. PICK q, b : /\ q = request[r] /\ q.at = "restore" /\ file.id = q.a.active
                    /\ b \in Source(q.a) /\ atomic_write(b.f) /\ Go(r, "lock")
    BY <1>7 DEF restore_backup, At, Finish, disk
  <2>2. b \in backups /\ b.f.id = q.a.shown.id
    BY <2>1 DEF Source, list_backups
  <2>3. file' = b.f /\ b.f \in Images
    BY <2>1, <2>2 DEF atomic_write, Images
  <2> QED BY <2>1, <2>2, <2>3, Stepping DEF Placed, At
<1>8. ASSUME NEW r \in Requests, restore(r)
      PROVE  Steps(r) /\ (\A p \in Requests : Steps(p) => p = r) /\ Placed(request[r])
  <2>1. PICK q, b : /\ q = request[r] /\ q.at = "startup" /\ file = NoFile
                    /\ b \in backups /\ b.f.id = q.a.shown.id /\ atomic_write(b.f) /\ Go(r, "idle")
    BY <1>8 DEF restore, At, Finish, disk
  <2>2. file' = b.f /\ b.f \in Images
    BY <2>1 DEF atomic_write, Images
  <2> QED BY <2>1, <2>2, Stepping DEF Placed, At
<1>9. ASSUME NEW r \in Requests, restore_from_recovery_kit(r)
      PROVE  Steps(r) /\ (\A p \in Requests : Steps(p) => p = r) /\ Placed(request[r])
  <2>1. PICK q, g : /\ q = request[r] /\ q.at = "recover" /\ file.id = q.a.active
                    /\ g = File(new, q.a.shown.v, q.a.shown.content) /\ atomic_write(g) /\ Go(r, "lock_all")
    BY <1>9 DEF restore_from_recovery_kit, At, Finish, disk
  <2>2. file' = g /\ g.content = q.a.shown.content
    BY <2>1 DEF atomic_write, File
  <2> QED BY <2>1, <2>2, Stepping DEF Placed, At
<1>10. ASSUME NEW r \in Requests, upgrade_payload(r)
       PROVE  Steps(r) /\ (\A p \in Requests : Steps(p) => p = r) /\ Placed(request[r])
  <2>1. PICK q, g : /\ q = request[r] /\ q.at = "upgrade" /\ file.id = q.a.active
                    /\ g = File(new, 3, q.a.content) /\ atomic_write(g) /\ Go(r, "lock_all")
    BY <1>10 DEF upgrade_payload, At, Finish, disk
  <2>2. file' = g /\ g.content = q.a.content
    BY <2>1 DEF atomic_write, File
  <2> QED BY <2>1, <2>2, Stepping DEF Placed, At
<1> QED BY <1>1, <1>2, <1>4, <1>5, <1>6, <1>7, <1>8, <1>9, <1>10, Writers

(* The approval that an upgrade carries is about the file with its id.     *)
LEMMA UpgradeOfFile ==
  ASSUME Inv, NEW r \in Requests, NEW q, q = request[r], q.at = "upgrade", file.id = q.a.active
  PROVE  file.content = q.a.content
<1>1. Task(q)
  BY DEF Inv
<1>2. Exact(q.a)
  BY <1>1 DEF Task, Idle
<1> QED BY <1>2 DEF Exact, Images

(* Whoever changes an entry on disk has seen the version that is lost: in  *)
(* the editor's draft, in the preview, or in the memory that is saved -    *)
(* but for the entry that a deletion puts back as it was resolved, whose   *)
(* edit since is at least one of the same session.                         *)
THEOREM NoUnseenEditIsLost ==
  Spec => EditsKept
<1>1. Inv /\ [Next]_vars =>
        [file' # file => \/ \E r \in Requests : Steps(r) /\ (Drafted(r) \/ Reviewed(r) \/ Deleting(r))
                         \/ \E t \in Tokens : request' = request /\ session'[t].rev = file'.id
                                              /\ Knows(session[t].content)]_vars
  <2> SUFFICES ASSUME Inv, Next, file' # file
               PROVE  \/ \E r \in Requests : Steps(r) /\ (Drafted(r) \/ Reviewed(r) \/ Deleting(r))
                      \/ \E t \in Tokens : request' = request /\ session'[t].rev = file'.id
                                           /\ Knows(session[t].content)
    OBVIOUS
  <2>1. ASSUME NEW t \in Tokens, request' = request, Opened(t), session[t].rev = file.id, session'[t].rev = file'.id
        PROVE  \E u \in Tokens : request' = request /\ session'[u].rev = file'.id /\ Knows(session[u].content)
    BY <2>1, SessionKnows
  <2>2. ASSUME NEW r \in Requests, NEW q, q = request[r], Placed(q) PROVE Drafted(r) \/ Reviewed(r) \/ Deleting(r)
    <3>1. Task(q)
      BY <2>2 DEF Inv
    <3>2. CASE q.at \in {"save", "batch", "undo"}
      <4>1. q.t \in Tokens /\ Opened(q.t) /\ session[q.t].rev = file.id
        BY <2>2, <3>1, <3>2 DEF Task, Idle, Placed
      <4>2. Knows(session[q.t].content)
        BY <4>1, SessionKnows
      <4>3. CASE q.at = "save"
        <5>1. q.es \subseteq Entries /\ \A e \in q.es : session[q.t].content[e] = q.a.updated_at
          BY <2>2, <3>1, <4>3 DEF Task, Idle, Placed
        <5>2. \A e \in q.es : q.a.updated_at \in {file.content[e]} \cup refused.marks
          BY <4>2, <5>1 DEF Knows
        <5> QED BY <2>2, <4>3, <5>2 DEF Drafted, At
      <4>4. CASE q.at \in {"batch", "undo"}
        <5>1. session[q.t].content = q.a.content
          BY <2>2, <4>4 DEF Placed, Unchanged
        <5> QED BY <2>2, <4>2, <4>4, <5>1 DEF Reviewed
      <4> QED BY <3>2, <4>3, <4>4
    <3>3. CASE q.at \in {"restore", "recover", "startup"}
      BY <2>2, <3>3 DEF Placed, Reviewed
    <3>4. CASE q.at = "upgrade"
      <4>1. file.content = q.a.content
        BY <2>2, <3>4, UpgradeOfFile DEF Placed
      <4>2. Knows(q.a.content)
        BY <4>1 DEF Knows
      <4> QED BY <2>2, <3>4, <4>2 DEF Reviewed
    <3>5. CASE q.at \in {"resolved", "marked"}
      <4>1. q.t \in Tokens /\ Opened(q.t) /\ session[q.t].rev = file.id
        BY <2>2, <3>1, <3>5 DEF Task, Idle, Removing, Placed
      <4>2. Knows(session[q.t].content)
        BY <4>1, SessionKnows
      <4>3. \A e \in Entries \ q.es : file'.content[e] = session[q.t].content[e]
        BY <2>2, <3>5 DEF Placed, Set
      <4> QED BY <2>2, <3>5, <4>2, <4>3 DEF Deleting
    <3> QED BY <2>2, <3>2, <3>3, <3>4, <3>5 DEF Placed
  <2> QED BY <2>1, <2>2, WrittenBy
<1> QED BY <1>1, Invariant, PTL DEF Spec, EditsKept

(* What an approval puts in place is what its preview showed.              *)
THEOREM OnlyTheShownIsApplied ==
  Spec => AppliedAsShown
<1>1. Inv /\ [Next]_vars =>
        [\A r \in Requests :
            LET q == request[r] IN
            file' # file /\ Steps(r) =>
                CASE q.at \in {"restore", "startup"} -> file' = q.a.shown
                  [] q.at = "recover" -> file'.content = q.a.shown.content
                  [] q.at = "undo" -> file'.content = q.a.before
                  [] q.at = "upgrade" -> file'.content = file.content
                  [] OTHER -> \A e \in Entries \ (IF q.at \in {"save", "resolved", "marked"} THEN q.es ELSE q.a.es) :
                                  file'.content[e] \in {file.content[e]} \cup refused.marks]_vars
  <2> SUFFICES ASSUME Inv, Next, NEW r \in Requests, NEW q, q = request[r], file' # file, Steps(r)
               PROVE  CASE q.at \in {"restore", "startup"} -> file' = q.a.shown
                        [] q.at = "recover" -> file'.content = q.a.shown.content
                        [] q.at = "undo" -> file'.content = q.a.before
                        [] q.at = "upgrade" -> file'.content = file.content
                        [] OTHER -> \A e \in Entries \ (IF q.at \in {"save", "resolved", "marked"} THEN q.es ELSE q.a.es) :
                                        file'.content[e] \in {file.content[e]} \cup refused.marks
    OBVIOUS
  <2>1. Placed(q) /\ Task(q)
    BY WrittenBy DEF Steps, Inv
  <2>2. CASE q.at \in {"restore", "startup"}
    <3>1. q.a.shown \in Images /\ file' \in Images /\ file'.id = q.a.shown.id
      BY <2>1, <2>2, Shown DEF Placed, At
    <3>2. file' = q.a.shown
      BY <3>1 DEF Inv, Pictured
    <3> QED BY <2>2, <3>2
  <2>3. CASE q.at = "recover"
    BY <2>1, <2>3 DEF Placed
  <2>4. CASE q.at = "undo"
    BY <2>1, <2>4 DEF Placed
  <2>5. CASE q.at = "upgrade"
    <3>1. file'.content = q.a.content /\ file.content = q.a.content
      BY <2>1, <2>5, UpgradeOfFile DEF Placed
    <3> QED BY <2>5, <3>1
  <2>6. CASE q.at \in {"save", "batch"}
    <3>1. q.t \in Tokens /\ Opened(q.t) /\ session[q.t].rev = file.id
      BY <2>1, <2>6 DEF Task, Idle, Placed
    <3>2. Knows(session[q.t].content) /\ file'.content = Set(session[q.t].content, q.es, new)
      BY <2>1, <2>6, <3>1, SessionKnows DEF Placed
    <3>3. ASSUME NEW e \in Entries, e \notin q.es
          PROVE  file'.content[e] \in {file.content[e]} \cup refused.marks
      BY <3>2, <3>3 DEF Set, Knows
    <3>4. q.at = "batch" => q.es \subseteq q.a.es
      BY <2>1 DEF Task, Idle
    <3>5. \A e \in Entries \ (IF q.at \in {"save", "resolved", "marked"} THEN q.es ELSE q.a.es) :
            file'.content[e] \in {file.content[e]} \cup refused.marks
      BY <2>6, <3>3, <3>4
    <3> QED BY <2>6, <3>5
  <2>7. CASE q.at \in {"resolved", "marked"}
    <3>1. q.t \in Tokens /\ Opened(q.t) /\ session[q.t].rev = file.id
      BY <2>1, <2>7 DEF Task, Idle, Removing, Placed
    <3>2. Knows(session[q.t].content) /\ file'.content = Set(session[q.t].content, q.es, q.a.seen)
      BY <2>1, <2>7, <3>1, SessionKnows DEF Placed
    <3>3. ASSUME NEW e \in Entries, e \notin q.es
          PROVE  file'.content[e] \in {file.content[e]} \cup refused.marks
      BY <3>2, <3>3 DEF Set, Knows
    <3> QED BY <2>7, <3>3
  <2> QED BY <2>1, <2>2, <2>3, <2>4, <2>5, <2>6, <2>7 DEF Placed
<1> QED BY <1>1, Invariant, PTL DEF Spec, AppliedAsShown
=============================================================================
