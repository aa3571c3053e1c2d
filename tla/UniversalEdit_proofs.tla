------------------------ MODULE UniversalEdit_proofs ------------------------
(***************************************************************************)
(* Proofs about UniversalEdit, for every set of servers, sessions and      *)
(* backup times: the variables keep their sets and a lock names a session  *)
(* its server still has, however requests interleave and wherever servers  *)
(* die; as long as no request overlaps another or is cut short, every text *)
(* the file has had is in it or among its backups, and a session that has  *)
(* had the lock since it opened publishes its own edits.                   *)
(***************************************************************************)
EXTENDS UniversalEdit, TLAPS, FiniteSetTheorems

(* Servers with an edit in a worker thread, and the requests on an event    *)
(* loop: an open, a write and a close, each from its first step on.         *)
Working == {q \in Server : work[q] # Idle}

Opening(p) ==
  main[p].at \in {"clean", "draft", "initial", "lock"} \/ (AtMain(p, "save") /\ main[p].then = "lock")
Writing(p) ==
  \/ main[p].at \in {"preview", "backup", "read", "replace", "unlock", "pick", "back"}
  \/ AtMain(p, "save") /\ main[p].then \in {"read", "back"}
Closing(p) == main[p].at \in {"look", "release"}

\* The request of a server that is up, and the session it is about.
LoopRequests ==
  \A p \in Server : main[p] # Idle =>
    /\ up[p] = "up" /\ main[p].sid \in opened
    /\ Opening(p) \/ Writing(p) \/ Closing(p)
    /\ Writing(p) \/ Closing(p) => main[p].sid \in live[p]
    /\ Opening(p) => \A q \in Server : main[p].sid \notin live[q]
    /\ AtMain(p, "release") /\ ~main[p].mine => lock.sid # main[p].sid

(* No session is being opened by two servers.                               *)
OpenedOnce ==
  \A p, q \in Server : p # q /\ Opening(p) /\ Opening(q) => main[p].sid # main[q].sid

ThreadRequests ==
  \A p \in Server : work[p] # Idle =>
    /\ up[p] = "up" /\ work[p].sid \in opened
    /\ work[p].at \in {"save", "apply", "truncate", "fill"}
    /\ work[p].at = "save" => work[p].then = "apply"

(* Every edit under way finds a fresh text; a lock names a server that was  *)
(* started and, while a session has had it since its opening, that session; *)
(* a session was opened on a file that is there.                            *)
TextsLeft == IsFiniteSet(Working) /\ last + Cardinality(Working) <= MaxText

LockKnown ==
  /\ lock \in [pid : Server \cup {NoServer}, sid : Sid \cup {NoSid}]
  /\ lock # NoLock => up[lock.pid] # "down"
  /\ \A s \in held : lock.sid = s

FileMade == (opened # {} => file.there) /\ (~file.there => file.text = 0)

IInv ==
  /\ TypeOK /\ LoopRequests /\ OpenedOnce /\ ThreadRequests /\ TextsLeft
  /\ LockKnown /\ FileMade /\ LockNamesLive

(* As long as nothing disturbs the requests, one request runs at a time,    *)
(* and of the sessions that have not been written one has the lock.         *)
Alone ==
  /\ \A p, q \in Server : main[p] # Idle => work[q] = Idle /\ (q # p => main[q] = Idle)
  /\ \A p, q \in Server : work[p] # Idle /\ q # p => work[q] = Idle

OneWriter == \A p \in Server : \A s \in live[p] : s \notin wrote => lock = [pid |-> p, sid |-> s]

BackedUp == {b.text : b \in index}

(* What the request on p's event loop has made true so far.                 *)
LoopDone(p) ==
  /\ Opening(p) =>
       /\ \A q \in Server : live[q] \subseteq wrote
       /\ ~AtMain(p, "clean") => lock = NoLock
       /\ main[p].at \notin {"clean", "draft"} => draft.there /\ draft.text = mine[main[p].sid]
  /\ Writing(p) => main[p].sid \notin wrote
  /\ AtMain(p, "release") => (main[p].mine <=> lock.sid \in {NoSid, main[p].sid})
  /\ AtMain(p, "save") => main[p].seen = index /\ main[p].copy.text = file.text
  /\ main[p].at \in {"read", "replace", "back"} => file.text \in BackedUp
  /\ AtMain(p, "replace") /\ main[p].sid \in held => main[p].text = mine[main[p].sid]

(* The same for the edit in p's thread.                                     *)
ThreadDone(p) ==
  /\ work[p] # Idle => lock = [pid |-> p, sid |-> work[p].sid]
  /\ work[p].at = "save" => work[p].seen = index
  /\ work[p].at \in {"truncate", "fill"} /\ work[p].sid \in held => work[p].text = mine[work[p].sid]

(* The draft has the text of the session with the lock, unless an edit of   *)
(* it is halfway.                                                           *)
OwnDraft ==
  \A s \in held :
    draft.there /\ (\A p \in Server : work[p].at \notin {"truncate", "fill"}) => draft.text = mine[s]

Kept == past \subseteq {file.text} \cup BackedUp

Quiet ==
  /\ Alone /\ OneWriter /\ OwnDraft /\ Kept
  /\ \A p \in Server : LoopDone(p) /\ ThreadDone(p)

Undisturbed == ~disturbed => Quiet
-----------------------------------------------------------------------------
(* Requests.                                                               *)
AllSteps == LoopSteps \cup {"apply", "truncate", "fill"}

LEMMA RequestShape ==
  ASSUME NEW r \in Requests
  PROVE  /\ r # Idle
         /\ r.at \in AllSteps /\ r.then \in LoopSteps \cup {"apply"}
         /\ r.sid \in Sid \cup {NoSid} /\ r.seen \subseteq Backups
         /\ r.copy \in Backups /\ r.from \in Backups /\ r.text \in Text /\ r.mine \in BOOLEAN
BY DEF Requests, Idle, AllSteps, LoopSteps

LEMMA StepSet ==
  ASSUME NEW r \in Requests, NEW t \in AllSteps
  PROVE  LET n == [r EXCEPT !.at = t]
         IN /\ n \in Requests /\ n.at = t /\ n.then = r.then /\ n.sid = r.sid
            /\ n.seen = r.seen /\ n.copy = r.copy /\ n.from = r.from
            /\ n.text = r.text /\ n.mine = r.mine
BY DEF Requests, AllSteps

LEMMA MineSet ==
  ASSUME NEW r \in Requests, NEW b \in BOOLEAN
  PROVE  LET n == [r EXCEPT !.at = "release", !.mine = b]
         IN /\ n \in Requests /\ n.at = "release" /\ n.sid = r.sid /\ (n.mine <=> b)
BY DEF Requests, LoopSteps

LEMMA MadeRequest ==
  ASSUME NEW t \in AllSteps, NEW s \in Sid, EditAssumption
  PROVE  /\ Request(t, s) \in Requests
         /\ Request(t, s).at = t /\ Request(t, s).sid = s
BY DEF Request, Requests, NoBackup, Backups, Text, Stamp, AllSteps, LoopSteps, EditAssumption

LEMMA CopiedShape ==
  ASSUME TypeOK, NEW r \in Requests, NEW t \in LoopSteps
  PROVE  LET n == Copied(r, t)
         IN /\ n \in Requests /\ n.at = "save" /\ n.then = t /\ n.sid = r.sid
            /\ n.seen = index /\ n.copy.text = file.text
<1>1. [text |-> file.text, stamp |-> file.stamp] \in Backups /\ index \in SUBSET Backups
  BY DEF TypeOK, Backups
<1>2. QED BY <1>1 DEF Copied, Requests, LoopSteps

LEMMA SavedShape ==
  ASSUME NEW r \in Requests, EditAssumption
  PROVE  LET n == Saved(r)
         IN n \in Requests /\ n.at = r.then /\ n.sid = r.sid /\ n.from = r.from
<1>1. NoBackup \in Backups /\ r.then \in LoopSteps \cup {"apply"}
  BY DEF NoBackup, Backups, Text, Stamp, EditAssumption, Requests
<1>2. QED BY <1>1 DEF Saved, Requests, LoopSteps
-----------------------------------------------------------------------------
(* Steps of the event loop of p.                                           *)
LEMMA Went ==
  ASSUME TypeOK, NEW p \in Server, NEW r \in {Idle} \cup Requests, Go(p, r)
  PROVE  /\ main' \in [Server -> {Idle} \cup Requests] /\ work' = work
         /\ main'[p] = r /\ \A q \in Server : q # p => main'[q] = main[q]
BY DEF TypeOK, Go

LEMMA WentTo ==
  ASSUME TypeOK, NEW p \in Server, main[p] # Idle, NEW t \in AllSteps, GoTo(p, t)
  PROVE  /\ main' \in [Server -> {Idle} \cup Requests] /\ work' = work
         /\ main'[p] \in Requests /\ main'[p].at = t /\ main'[p].sid = main[p].sid
         /\ main'[p].text = main[p].text /\ main'[p].mine = main[p].mine
         /\ \A q \in Server : q # p => main'[q] = main[q]
<1> DEFINE n == [main[p] EXCEPT !.at = t]
<1>1. main[p] \in Requests
  BY DEF TypeOK
<1>2. /\ n \in Requests /\ n.at = t /\ n.sid = main[p].sid
      /\ n.text = main[p].text /\ n.mine = main[p].mine
  BY <1>1, StepSet
<1>3. Go(p, n)
  BY DEF GoTo
<1> HIDE DEF n
<1>4. QED BY <1>2, <1>3, Went

LEMMA WentIdle ==
  ASSUME TypeOK, NEW p \in Server, Done(p)
  PROVE  /\ main' \in [Server -> {Idle} \cup Requests] /\ work' = work
         /\ main'[p] = Idle /\ \A q \in Server : q # p => main'[q] = main[q]
BY Went DEF Done

LEMMA Worked ==
  ASSUME TypeOK, NEW p \in Server, NEW r \in {Idle} \cup Requests, Work(p, r)
  PROVE  /\ work' \in [Server -> {Idle} \cup Requests] /\ main' = main
         /\ work'[p] = r /\ \A q \in Server : q # p => work'[q] = work[q]
BY DEF TypeOK, Work
-----------------------------------------------------------------------------
(* The invariant.  The parts about one thread carry over a step of the      *)
(* other.                                                                   *)
LEMMA ThreadFrame ==
  ASSUME IInv, UNCHANGED <<up, work, last>>, opened \subseteq opened'
  PROVE  ThreadRequests' /\ TextsLeft'
<1>1. Working' = Working
  BY DEF Working
<1>2. QED BY <1>1 DEF IInv, ThreadRequests, TextsLeft

LEMMA LoopFrame ==
  ASSUME IInv, UNCHANGED <<up, main, live, lock>>, opened \subseteq opened'
  PROVE  LoopRequests' /\ OpenedOnce' /\ LockNamesLive'
BY DEF IInv, LoopRequests, OpenedOnce, LockNamesLive, Opening, Writing, Closing, AtMain

LEMMA InitInv == Init => IInv
<1> SUFFICES ASSUME Init PROVE IInv
  OBVIOUS
<1>1. 0 \in Text /\ 0 \in Stamp
  BY EditAssumption DEF Text, Stamp
<1>2. TypeOK
  <2>1. /\ file \in [there : BOOLEAN, text : Text, stamp : Stamp]
        /\ draft \in [there : BOOLEAN, text : Text]
        /\ mine \in [Sid -> Text] /\ past \subseteq Text
    <3>1. \A b \in BOOLEAN : [there |-> b, text |-> 0, stamp |-> 0]
                               \in [there : BOOLEAN, text : Text, stamp : Stamp]
      BY <1>1
    <3>2. Absent \in [there : BOOLEAN, text : Text]
      BY <1>1 DEF Absent
    <3>3. QED BY <1>1, <3>1, <3>2 DEF Init
  <2>2. up \in [Server -> {"down", "up", "dead"}]
    BY DEF Init
  <2>3. /\ live \in [Server -> SUBSET opened] /\ \A p \in Server : live[p] = {}
        /\ main \in [Server -> {Idle} \cup Requests]
        /\ work \in [Server -> {Idle} \cup Requests]
    BY DEF Init
  <2>4. QED BY <1>1, <2>1, <2>2, <2>3 DEF Init, TypeOK
<1>3. Working = {}
  BY DEF Init, Working
<1>4. IsFiniteSet(Working) /\ Cardinality(Working) = 0
  BY <1>3, FS_EmptySet
<1>5. TextsLeft
  BY <1>4, EditAssumption DEF TextsLeft, Init
<1>6. LoopRequests /\ OpenedOnce /\ ThreadRequests
  BY DEF Init, LoopRequests, OpenedOnce, ThreadRequests, Opening, Idle, AtMain
<1>7. LockKnown /\ FileMade /\ LockNamesLive
  BY DEF Init, LockKnown, FileMade, LockNamesLive, NoLock
<1>8. QED BY <1>2, <1>5, <1>6, <1>7 DEF IInv

\* What a step of p's event loop has to show of the request it leaves.
LEMMA LoopStep ==
  ASSUME IInv, NEW p \in Server, main[p] # Idle,
         \A q \in Server : q # p => main'[q] = main[q],
         main'[p] = Idle \/
           /\ main'[p] # Idle /\ main'[p].sid = main[p].sid
           /\ Opening(p)' \/ Writing(p)' \/ Closing(p)'
           /\ Opening(p)' => Opening(p)
           /\ Writing(p)' \/ Closing(p)' => main[p].sid \in live[p] /\ live' = live
           /\ AtMain(p, "release")' /\ ~main'[p].mine => lock'.sid # main[p].sid,
         \/ live' = [live EXCEPT ![p] = @ \cup {main[p].sid}] /\ Opening(p) /\ main'[p] = Idle
         \/ live' = [live EXCEPT ![p] = @ \ {main[p].sid}] /\ main'[p] = Idle
         \/ live' = live,
         up' = up, opened \subseteq opened',
         lock' \in {lock, NoLock, [pid |-> p, sid |-> main[p].sid]}
  PROVE  LoopRequests' /\ OpenedOnce'
<1>1. main[p].sid \in Sid /\ main[p].sid # NoSid /\ up[p] = "up"
  BY EditAssumption DEF IInv, LoopRequests, TypeOK
<1>2. \A q \in Server : q # p =>
        /\ Opening(q)' = Opening(q) /\ Writing(q)' = Writing(q) /\ Closing(q)' = Closing(q)
        /\ AtMain(q, "release")' = AtMain(q, "release")
  BY DEF Opening, Writing, Closing, AtMain
<1>3. main'[p] = Idle => ~Opening(p)' /\ ~Writing(p)' /\ ~Closing(p)' /\ ~AtMain(p, "release")'
  BY DEF Opening, Writing, Closing, AtMain, Idle
<1>4. OpenedOnce'
  BY <1>2, <1>3 DEF IInv, OpenedOnce
<1>5. live' \in [Server -> SUBSET (opened \cup {main[p].sid})]
      /\ \A q \in Server : q # p => live'[q] = live[q]
  BY DEF IInv, TypeOK
<1>6. ASSUME NEW q \in Server, q # p, main[q] # Idle
      PROVE  /\ up'[q] = "up" /\ main[q].sid \in opened'
             /\ Opening(q) \/ Writing(q) \/ Closing(q)
             /\ Writing(q) \/ Closing(q) => main[q].sid \in live'[q]
             /\ Opening(q) => \A r \in Server : main[q].sid \notin live'[r]
             /\ AtMain(q, "release") /\ ~main[q].mine => lock'.sid # main[q].sid
  <2>1. /\ up'[q] = "up" /\ main[q].sid \in opened'
        /\ Opening(q) \/ Writing(q) \/ Closing(q)
        /\ Writing(q) \/ Closing(q) => main[q].sid \in live'[q]
    BY <1>5, <1>6 DEF IInv, LoopRequests
  <2>2. ASSUME Opening(q), NEW r \in Server PROVE main[q].sid \notin live'[r]
    BY <1>5, <1>6, <2>2 DEF IInv, LoopRequests, OpenedOnce, TypeOK
  <2>3. ASSUME AtMain(q, "release"), ~main[q].mine PROVE lock'.sid # main[q].sid
    <3>1. main[q].sid \in live[q] /\ lock.sid # main[q].sid /\ main[q].sid # NoSid
      BY <1>6, <2>3, EditAssumption DEF IInv, LoopRequests, TypeOK, Closing, AtMain
    <3>2. main[p].sid # main[q].sid
      BY <1>6, <3>1 DEF IInv, LoopRequests, TypeOK
    <3>3. QED BY <3>1, <3>2 DEF NoLock
  <2>4. QED BY <2>1, <2>2, <2>3
<1>7. ASSUME main'[p] # Idle
      PROVE  /\ up'[p] = "up" /\ main'[p].sid \in opened'
             /\ Writing(p)' \/ Closing(p)' => main'[p].sid \in live'[p]
             /\ Opening(p)' => \A r \in Server : main'[p].sid \notin live'[r]
             /\ AtMain(p, "release")' /\ ~main'[p].mine => lock'.sid # main'[p].sid
  <2>1. live' = live \/ (live' = [live EXCEPT ![p] = @ \ {main[p].sid}])
    BY <1>7
  <2>2. QED BY <1>1, <1>7, <2>1 DEF IInv, LoopRequests
<1>8. LoopRequests'
  BY <1>2, <1>6, <1>7 DEF LoopRequests
<1>9. QED BY <1>4, <1>8

LEMMA OpenCheckInv ==
  ASSUME IInv, NEW p \in Server, OpenCheck(p)
  PROVE  IInv'
<1> PICK s \in Sid \ opened :
      /\ Arrives(p, FALSE)
      /\ Go(p, Request("clean", s))
      /\ file' = IF file.there THEN file ELSE [there |-> TRUE, text |-> 0, stamp |-> clock]
      /\ past' = past \cup {file'.text}
      /\ opened' = opened \cup {s}
      /\ KeepLock
      /\ UNCHANGED <<kind, up, clock, live, last, draft, index, mine>>
  BY DEF OpenCheck
<1>1. /\ main' \in [Server -> {Idle} \cup Requests] /\ work' = work
      /\ main'[p] # Idle /\ main'[p].at = "clean" /\ main'[p].sid = s
      /\ \A q \in Server : q # p => main'[q] = main[q]
  BY MadeRequest, EditAssumption, RequestShape, Went DEF IInv, AllSteps, LoopSteps
<1>2. up[p] = "up" /\ main[p] = Idle /\ disturbed' \in BOOLEAN
  BY DEF Arrives, IInv, TypeOK
<1>3. 0 \in Text
  BY EditAssumption DEF Text
<1>4. /\ file' \in [there : BOOLEAN, text : Text, stamp : Stamp] /\ file'.text \in Text
      /\ file'.there
  BY <1>3 DEF IInv, TypeOK
<1>5. TypeOK'
  BY <1>1, <1>2, <1>4 DEF IInv, TypeOK, KeepLock
<1>6. \A q \in Server : q # p => /\ Opening(q)' = Opening(q) /\ Writing(q)' = Writing(q)
                                 /\ Closing(q)' = Closing(q)
                                 /\ AtMain(q, "release")' = AtMain(q, "release")
  BY <1>1 DEF Opening, Writing, Closing, AtMain
<1>7. Opening(p)' /\ ~Writing(p)' /\ ~Closing(p)' /\ ~AtMain(p, "release")'
  BY <1>1 DEF Opening, Writing, Closing, AtMain
<1>8. LoopRequests'
  BY <1>1, <1>2, <1>6, <1>7 DEF IInv, TypeOK, LoopRequests, KeepLock
<1>9. OpenedOnce'
  BY <1>1, <1>6, <1>7 DEF IInv, OpenedOnce, LoopRequests, Opening, Idle, AtMain
<1>10. ThreadRequests' /\ TextsLeft'
  BY <1>1, ThreadFrame
<1>11. LockKnown' /\ FileMade' /\ LockNamesLive'
  BY <1>4 DEF IInv, LockKnown, FileMade, LockNamesLive, KeepLock
<1>12. QED BY <1>5, <1>8, <1>9, <1>10, <1>11 DEF IInv

LEMMA NoLockTyped == NoLock \in [pid : Server \cup {NoServer}, sid : Sid \cup {NoSid}]
BY DEF NoLock

LEMMA OpenCleanInv ==
  ASSUME IInv, NEW p \in Server, OpenClean(p)
  PROVE  IInv'
<1>1. /\ AtMain(p, "clean") /\ main[p] # Idle /\ Opening(p)
      /\ lock' = NoLock /\ held' = {} /\ wrote' = wrote /\ draft' = Absent
  BY EditAssumption DEF IInv, TypeOK, OpenClean, SetLock, NoLock, AtMain, Idle, Opening
<1>2. /\ main' \in [Server -> {Idle} \cup Requests] /\ work' = work
      /\ main'[p] \in Requests /\ main'[p].at = "draft" /\ main'[p].sid = main[p].sid
      /\ \A q \in Server : q # p => main'[q] = main[q]
  BY <1>1, WentTo DEF IInv, OpenClean, AllSteps, LoopSteps
<1>3. Absent \in [there : BOOLEAN, text : Text]
  BY EditAssumption DEF Absent, Text
<1>4. TypeOK'
  BY <1>1, <1>2, <1>3 DEF IInv, TypeOK, OpenClean, Same, world
<1>5. LoopRequests' /\ OpenedOnce'
  BY <1>1, <1>2, RequestShape, LoopStep
    DEF OpenClean, Same, world, Opening, Writing, Closing, AtMain
<1>6. ThreadRequests' /\ TextsLeft'
  BY <1>2, ThreadFrame DEF OpenClean, Same, world
<1>7. LockKnown' /\ FileMade' /\ LockNamesLive'
  BY <1>1, NoLockTyped DEF IInv, LockKnown, FileMade, LockNamesLive, OpenClean, Same, world
<1>8. QED BY <1>4, <1>5, <1>6, <1>7 DEF IInv

LEMMA OpenDraftInv ==
  ASSUME IInv, NEW p \in Server, OpenDraft(p)
  PROVE  IInv'
<1>1. main[p] # Idle /\ Opening(p)
  BY DEF OpenDraft, AtMain, Idle, Opening
<1>2. /\ main' \in [Server -> {Idle} \cup Requests] /\ work' = work
      /\ \A q \in Server : q # p => main'[q] = main[q]
      /\ main'[p] = Idle
           \/ (main'[p] \in Requests /\ main'[p].at = "initial" /\ main'[p].sid = main[p].sid)
  BY <1>1, WentTo, WentIdle DEF IInv, OpenDraft, AllSteps, LoopSteps
<1>3. draft' \in [there : BOOLEAN, text : Text] /\ mine' \in [Sid -> Text]
  <2>1. file.text \in Text
    BY DEF IInv, TypeOK
  <2>2. [there |-> TRUE, text |-> file.text] \in [there : BOOLEAN, text : Text]
    BY <2>1
  <2>3. draft' = draft \/ draft' = [there |-> TRUE, text |-> file.text]
    BY DEF OpenDraft
  <2>4. mine' = mine \/ mine' = [mine EXCEPT ![main[p].sid] = file.text]
    BY DEF OpenDraft
  <2>5. QED BY <2>1, <2>2, <2>3, <2>4 DEF IInv, TypeOK
<1>4. TypeOK'
  BY <1>2, <1>3 DEF IInv, TypeOK, OpenDraft, KeepLock, world
<1>5. LoopRequests' /\ OpenedOnce'
  BY <1>1, <1>2, RequestShape, LoopStep
    DEF OpenDraft, KeepLock, world, Opening, Writing, Closing, AtMain
<1>6. ThreadRequests' /\ TextsLeft'
  BY <1>2, ThreadFrame DEF OpenDraft, world
<1>7. LockKnown' /\ FileMade' /\ LockNamesLive'
  BY DEF IInv, LockKnown, FileMade, LockNamesLive, OpenDraft, KeepLock, world
<1>8. QED BY <1>4, <1>5, <1>6, <1>7 DEF IInv

LEMMA OpenBackupInv ==
  ASSUME IInv, NEW p \in Server, OpenBackup(p)
  PROVE  IInv'
<1>1. main[p] # Idle /\ main[p] \in Requests /\ Opening(p)
  BY DEF IInv, TypeOK, OpenBackup, AtMain, Idle, Opening
<1>2. /\ main' \in [Server -> {Idle} \cup Requests] /\ work' = work
      /\ \A q \in Server : q # p => main'[q] = main[q]
      /\ main'[p] \in Requests /\ main'[p].sid = main[p].sid
      /\ main'[p].at = "lock" \/ (main'[p].at = "save" /\ main'[p].then = "lock")
  <2>1. CASE index = {}
    <3> DEFINE n == Copied(main[p], "lock")
    <3>1. n \in Requests /\ n.at = "save" /\ n.then = "lock" /\ n.sid = main[p].sid
      BY <1>1, CopiedShape DEF IInv, LoopSteps
    <3>2. Go(p, n)
      BY <2>1 DEF OpenBackup
    <3> HIDE DEF n
    <3>3. QED BY <3>1, <3>2, Went DEF IInv
  <2>2. CASE index # {}
    BY <1>1, <2>2, WentTo DEF IInv, OpenBackup, AllSteps, LoopSteps
  <2>3. QED BY <2>1, <2>2
<1>3. TypeOK'
  BY <1>2 DEF IInv, TypeOK, OpenBackup, KeepLock, Same, world
<1>4. LoopRequests' /\ OpenedOnce'
  BY <1>1, <1>2, RequestShape, LoopStep
    DEF OpenBackup, KeepLock, Same, world, Opening, Writing, Closing, AtMain
<1>5. ThreadRequests' /\ TextsLeft'
  BY <1>2, ThreadFrame DEF OpenBackup, Same, world
<1>6. LockKnown' /\ FileMade' /\ LockNamesLive'
  BY DEF IInv, LockKnown, FileMade, LockNamesLive, OpenBackup, KeepLock, Same, world
<1>7. QED BY <1>3, <1>4, <1>5, <1>6 DEF IInv

LEMMA OpenLockInv ==
  ASSUME IInv, NEW p \in Server, OpenLock(p)
  PROVE  IInv'
<1>1. /\ main[p] # Idle /\ Opening(p) /\ up[p] = "up" /\ main[p].sid \in opened
      /\ \A q \in Server : main[p].sid \notin live[q]
  BY DEF IInv, LoopRequests, OpenLock, AtMain, Idle, Opening
<1>2. /\ main' \in [Server -> {Idle} \cup Requests] /\ work' = work /\ main'[p] = Idle
      /\ \A q \in Server : q # p => main'[q] = main[q]
  BY WentIdle DEF IInv, OpenLock
<1>3. /\ live' = [live EXCEPT ![p] = @ \cup {main[p].sid}]
      /\ live' \in [Server -> SUBSET opened] /\ main[p].sid \in live'[p]
      /\ \A q \in Server : q # p => live'[q] = live[q]
  BY <1>1 DEF IInv, TypeOK, OpenLock
<1>4. /\ lock' = [pid |-> p, sid |-> main[p].sid]
      /\ lock' \in [pid : Server \cup {NoServer}, sid : Sid \cup {NoSid}]
      /\ lock'.pid = p /\ lock'.sid = main[p].sid
  BY <1>1 DEF IInv, TypeOK, OpenLock
<1>5. TypeOK'
  <2>1. \A q, r \in Server : q # r => live'[q] \cap live'[r] = {}
    BY <1>1, <1>3 DEF IInv, TypeOK, OpenLock
  <2>2. QED BY <1>1, <1>2, <1>3, <1>4, <2>1 DEF IInv, TypeOK, OpenLock
<1>6. LoopRequests' /\ OpenedOnce'
  BY <1>1, <1>2, <1>3, <1>4, LoopStep DEF OpenLock
<1>7. ThreadRequests' /\ TextsLeft'
  BY <1>2, ThreadFrame DEF OpenLock
<1>8. LockKnown' /\ FileMade' /\ LockNamesLive'
  BY <1>1, <1>3, <1>4 DEF IInv, LockKnown, FileMade, LockNamesLive, OpenLock
<1>9. QED BY <1>5, <1>6, <1>7, <1>8 DEF IInv
-----------------------------------------------------------------------------
(* Edits: a text is left for every thread that works.                      *)
LEMMA WorkerAdded ==
  ASSUME IInv, NEW p \in Server, work[p] = Idle, work'[p] # Idle,
         \A q \in Server : q # p => work'[q] = work[q],
         last + Cardinality(Working) < MaxText, last' = last
  PROVE  TextsLeft'
<1>1. Working' = Working \cup {p} /\ p \notin Working
  BY DEF Working
<1>2. /\ IsFiniteSet(Working') /\ Cardinality(Working') = Cardinality(Working) + 1
      /\ Cardinality(Working) \in Nat
  BY <1>1, FS_AddElement, FS_CardinalityType DEF IInv, TextsLeft
<1>3. QED BY <1>2, EditAssumption DEF TextsLeft, IInv, TypeOK, Text

LEMMA WorkerDone ==
  ASSUME IInv, NEW p \in Server, work[p] # Idle, work'[p] = Idle,
         \A q \in Server : q # p => work'[q] = work[q],
         last' \in {last, last + 1}
  PROVE  TextsLeft' /\ last' \in Text
<1>1. Working' = Working \ {p} /\ p \in Working
  BY DEF Working
<1>2. /\ IsFiniteSet(Working') /\ Cardinality(Working') = Cardinality(Working) - 1
      /\ Cardinality(Working) \in Nat /\ Cardinality(Working') \in Nat
  BY <1>1, FS_RemoveElement, FS_CardinalityType DEF IInv, TextsLeft
<1>3. QED BY <1>2, EditAssumption DEF TextsLeft, IInv, TypeOK, Text

LEMMA WorkerGoesOn ==
  ASSUME IInv, NEW p \in Server, work[p] # Idle, work'[p] # Idle,
         \A q \in Server : q # p => work'[q] = work[q], last' = last
  PROVE  TextsLeft'
<1>1. Working' = Working
  BY DEF Working
<1>2. QED BY <1>1 DEF IInv, TextsLeft

LEMMA EditInv ==
  ASSUME IInv, NEW p \in Server, Edit(p)
  PROVE  IInv'
<1> PICK s \in live[p] :
      /\ Arrives(p, s \in wrote)
      /\ work[p] = Idle
      /\ last + Cardinality({q \in Server : work[q] # Idle}) < MaxText
      /\ Work(p, [Request(IF draft.there THEN "save" ELSE "apply", s)
                    EXCEPT !.then = "apply", !.seen = index])
      /\ KeepLock
      /\ UNCHANGED <<world, file, draft, index, mine, past>>
  BY DEF Edit
<1> DEFINE step == IF draft.there THEN "save" ELSE "apply"
           r == [Request(step, s) EXCEPT !.then = "apply", !.seen = index]
<1>1. s \in Sid /\ s \in opened /\ step \in {"save", "apply"} /\ index \in SUBSET Backups
      /\ up[p] = "up" /\ disturbed' \in BOOLEAN
  BY DEF IInv, TypeOK, Arrives
<1>2. Request(step, s) \in Requests /\ Request(step, s).at = step /\ Request(step, s).sid = s
  BY <1>1, MadeRequest, EditAssumption DEF AllSteps, LoopSteps
<1>3. r \in Requests /\ r.at = step /\ r.then = "apply" /\ r.sid = s
  <2> HIDE DEF step
  <2>1. QED BY <1>1, <1>2 DEF Requests
<1>4. /\ work' \in [Server -> {Idle} \cup Requests] /\ main' = main
      /\ work'[p] = r /\ \A q \in Server : q # p => work'[q] = work[q]
  <2> HIDE DEF r
  <2>1. Work(p, r)
    BY DEF r
  <2>2. QED BY <1>3, <2>1, Worked DEF IInv
<1> HIDE DEF r, step
<1>5. work'[p] # Idle
  BY <1>3, <1>4, RequestShape
<1>6. TypeOK'
  BY <1>1, <1>4 DEF IInv, TypeOK, KeepLock, world
<1>7. ThreadRequests'
  BY <1>1, <1>3, <1>4 DEF IInv, ThreadRequests, world
<1>8. TextsLeft'
  BY <1>4, <1>5, WorkerAdded DEF Working, world
<1>9. LoopRequests' /\ OpenedOnce' /\ LockNamesLive'
  BY <1>4, LoopFrame DEF world, KeepLock
<1>10. LockKnown' /\ FileMade'
  BY DEF IInv, LockKnown, FileMade, world, KeepLock
<1>11. QED BY <1>6, <1>7, <1>8, <1>9, <1>10 DEF IInv

LEMMA EditSaveInv ==
  ASSUME IInv, NEW p \in Server, EditSave(p)
  PROVE  IInv'
<1> DEFINE r == Saved(work[p])
<1>1. work[p].at = "save" /\ work[p] # Idle /\ work[p] \in Requests /\ work[p].then = "apply"
      /\ work[p].seen \subseteq Backups
  BY RequestShape DEF IInv, TypeOK, ThreadRequests, EditSave, Idle
<1>2. r \in Requests /\ r.at = "apply" /\ r.sid = work[p].sid
  BY <1>1, SavedShape, EditAssumption
<1>3. Work(p, r)
  BY DEF EditSave
<1> HIDE DEF r
<1>4. /\ work' \in [Server -> {Idle} \cup Requests] /\ main' = main
      /\ work'[p] = r /\ work'[p] # Idle /\ \A q \in Server : q # p => work'[q] = work[q]
  BY <1>2, <1>3, Worked, RequestShape DEF IInv
<1>5. TypeOK'
  BY <1>1, <1>4 DEF IInv, TypeOK, EditSave, KeepLock, Same, world
<1>6. ThreadRequests' /\ TextsLeft'
  BY <1>1, <1>2, <1>4, WorkerGoesOn DEF IInv, ThreadRequests, EditSave, Same, world
<1>7. LoopRequests' /\ OpenedOnce' /\ LockNamesLive'
  BY <1>4, LoopFrame DEF EditSave, KeepLock, Same, world
<1>8. LockKnown' /\ FileMade'
  BY DEF IInv, LockKnown, FileMade, EditSave, KeepLock, Same, world
<1>9. QED BY <1>5, <1>6, <1>7, <1>8 DEF IInv

LEMMA EditReadInv ==
  ASSUME IInv, NEW p \in Server, EditRead(p)
  PROVE  IInv'
<1> DEFINE x == draft.text
           n == [work[p] EXCEPT !.at = "truncate", !.text = x]
<1>1. work[p] # Idle /\ work[p] \in Requests
  BY DEF IInv, TypeOK, EditRead, Idle
<1>2. x \in Text
  BY DEF IInv, TypeOK
<1>3. n \in Requests /\ n.at = "truncate" /\ n.sid = work[p].sid
  <2>1. "truncate" \in AllSteps
    BY DEF AllSteps
  <2> HIDE DEF x
  <2>2. QED BY <1>1, <1>2, <2>1 DEF Requests, AllSteps
<1>4. Work(p, n) \/ Work(p, Idle)
  BY DEF EditRead
<1> HIDE DEF n
<1>5. /\ work' \in [Server -> {Idle} \cup Requests] /\ main' = main
      /\ work'[p] \in {n, Idle} /\ \A q \in Server : q # p => work'[q] = work[q]
  BY <1>3, <1>4, Worked DEF IInv
<1>6. TypeOK'
  BY <1>1, <1>5 DEF IInv, TypeOK, EditRead, KeepLock, Same, world
<1>7. ThreadRequests'
  BY <1>1, <1>3, <1>5 DEF IInv, ThreadRequests, EditRead, Same, world
<1>8. TextsLeft'
  BY <1>1, <1>5, WorkerGoesOn, WorkerDone DEF EditRead, Same, world
<1>9. LoopRequests' /\ OpenedOnce' /\ LockNamesLive'
  BY <1>5, LoopFrame DEF EditRead, KeepLock, Same, world
<1>10. LockKnown' /\ FileMade'
  BY DEF IInv, LockKnown, FileMade, EditRead, KeepLock, Same, world
<1>11. QED BY <1>6, <1>7, <1>8, <1>9, <1>10 DEF IInv

LEMMA EditTruncateInv ==
  ASSUME IInv, NEW p \in Server, EditTruncate(p)
  PROVE  IInv'
<1> DEFINE n == [work[p] EXCEPT !.at = "fill"]
<1>1. work[p] # Idle /\ work[p] \in Requests
  BY DEF IInv, TypeOK, EditTruncate, Idle
<1>2. n \in Requests /\ n.at = "fill" /\ n.sid = work[p].sid
  BY <1>1, StepSet DEF AllSteps
<1>3. Work(p, n)
  BY DEF EditTruncate
<1> HIDE DEF n
<1>4. /\ work' \in [Server -> {Idle} \cup Requests] /\ main' = main
      /\ work'[p] = n /\ work'[p] # Idle /\ \A q \in Server : q # p => work'[q] = work[q]
  BY <1>2, <1>3, Worked, RequestShape DEF IInv
<1>5. draft' \in [there : BOOLEAN, text : Text]
  BY EditAssumption DEF EditTruncate, Text
<1>6. TypeOK'
  BY <1>4, <1>5 DEF IInv, TypeOK, EditTruncate, KeepLock, Same, world
<1>7. ThreadRequests' /\ TextsLeft'
  BY <1>1, <1>2, <1>4, WorkerGoesOn DEF IInv, ThreadRequests, EditTruncate, Same, world
<1>8. LoopRequests' /\ OpenedOnce' /\ LockNamesLive'
  BY <1>4, LoopFrame DEF EditTruncate, KeepLock, Same, world
<1>9. LockKnown' /\ FileMade'
  BY DEF IInv, LockKnown, FileMade, EditTruncate, KeepLock, Same, world
<1>10. QED BY <1>6, <1>7, <1>8, <1>9 DEF IInv

LEMMA EditFillInv ==
  ASSUME IInv, NEW p \in Server, EditFill(p)
  PROVE  IInv'
<1>1. work[p] # Idle /\ work[p].sid \in opened
  BY DEF IInv, ThreadRequests, EditFill, Idle
<1>2. /\ work' \in [Server -> {Idle} \cup Requests] /\ main' = main
      /\ work'[p] = Idle /\ \A q \in Server : q # p => work'[q] = work[q]
  BY Worked DEF IInv, EditFill
<1>3. TextsLeft' /\ last' \in Text /\ last' = last + 1
  BY <1>1, <1>2, WorkerDone DEF EditFill
<1>4. draft' \in [there : BOOLEAN, text : Text]
  BY <1>3 DEF IInv, TypeOK, EditFill
<1>5. mine' \in [Sid -> Text]
  BY <1>3 DEF IInv, TypeOK, EditFill
<1>6. TypeOK'
  BY <1>2, <1>3, <1>4, <1>5 DEF IInv, TypeOK, EditFill, KeepLock
<1>7. ThreadRequests'
  BY <1>2 DEF IInv, ThreadRequests, EditFill
<1>8. LoopRequests' /\ OpenedOnce' /\ LockNamesLive'
  BY <1>2, LoopFrame DEF EditFill, KeepLock
<1>9. LockKnown' /\ FileMade'
  BY DEF IInv, LockKnown, FileMade, EditFill, KeepLock
<1>10. QED BY <1>3, <1>6, <1>7, <1>8, <1>9 DEF IInv
-----------------------------------------------------------------------------
(* Writes.                                                                 *)
\* What a request that begins on p's event loop has to show.
LEMMA LoopBegins ==
  ASSUME IInv, NEW p \in Server, NEW s \in live[p], up[p] = "up",
         main'[p] # Idle, main'[p].sid = s,
         main'[p].at \in {"backup", "preview", "look"},
         \A q \in Server : q # p => main'[q] = main[q],
         UNCHANGED <<up, live, opened, lock>>
  PROVE  LoopRequests' /\ OpenedOnce' /\ LockNamesLive'
<1>1. s \in opened
  BY DEF IInv, TypeOK
<1>2. \A q \in Server : q # p =>
        /\ Opening(q)' = Opening(q) /\ Writing(q)' = Writing(q) /\ Closing(q)' = Closing(q)
        /\ AtMain(q, "release")' = AtMain(q, "release")
  BY DEF Opening, Writing, Closing, AtMain
<1>3. ~Opening(p)' /\ (Writing(p)' \/ Closing(p)') /\ ~AtMain(p, "release")'
  BY DEF Opening, Writing, Closing, AtMain
<1>4. LoopRequests'
  BY <1>1, <1>2, <1>3 DEF IInv, LoopRequests
<1>5. OpenedOnce' /\ LockNamesLive'
  BY <1>2, <1>3 DEF IInv, OpenedOnce, LockNamesLive
<1>6. QED BY <1>4, <1>5

LEMMA WriteInv ==
  ASSUME IInv, NEW p \in Server, Write(p)
  PROVE  IInv'
<1> PICK s \in live[p] :
      /\ Arrives(p, s \in wrote)
      /\ Go(p, Request(IF lock = [pid |-> p, sid |-> s] THEN "backup" ELSE "preview", s))
      /\ KeepLock
      /\ UNCHANGED <<world, file, draft, index, mine, past>>
  BY DEF Write
<1> DEFINE step == IF lock = [pid |-> p, sid |-> s] THEN "backup" ELSE "preview"
           r == Request(step, s)
<1>1. s \in Sid /\ up[p] = "up" /\ disturbed' \in BOOLEAN /\ step \in {"backup", "preview"}
  BY DEF IInv, TypeOK, Arrives
<1> HIDE DEF step
<1>2. r \in Requests /\ r.at = step /\ r.sid = s /\ r # Idle
  BY <1>1, MadeRequest, RequestShape, EditAssumption DEF AllSteps, LoopSteps
<1>3. Go(p, r)
  BY DEF step
<1> HIDE DEF r
<1>4. /\ main' \in [Server -> {Idle} \cup Requests] /\ work' = work
      /\ main'[p] = r /\ \A q \in Server : q # p => main'[q] = main[q]
  BY <1>2, <1>3, Went DEF IInv
<1>5. TypeOK'
  BY <1>1, <1>4 DEF IInv, TypeOK, KeepLock, world
<1>6. LoopRequests' /\ OpenedOnce' /\ LockNamesLive'
  BY <1>1, <1>2, <1>4, LoopBegins DEF world, KeepLock
<1>7. ThreadRequests' /\ TextsLeft'
  BY <1>4, ThreadFrame DEF world
<1>8. LockKnown' /\ FileMade'
  BY DEF IInv, LockKnown, FileMade, KeepLock, world
<1>9. QED BY <1>5, <1>6, <1>7, <1>8 DEF IInv

LEMMA PreviewInv ==
  ASSUME IInv, NEW p \in Server, Preview(p)
  PROVE  IInv'
<1> DEFINE l == [pid |-> p, sid |-> main[p].sid]
<1>1. /\ main[p] # Idle /\ Writing(p) /\ up[p] = "up"
      /\ main[p].sid \in opened /\ main[p].sid \in live[p]
  BY DEF IInv, LoopRequests, Preview, AtMain, Idle, Writing
<1>2. /\ main' \in [Server -> {Idle} \cup Requests] /\ work' = work /\ main'[p] = Idle
      /\ \A q \in Server : q # p => main'[q] = main[q]
  BY WentIdle DEF IInv, Preview
<1>3. /\ lock' \in {lock, l} /\ (lock' = lock => held' \in {held, held \cap {lock'.sid}})
      /\ (lock' # lock => held' = held \cap {lock'.sid}) /\ wrote' = wrote
  BY DEF Preview, SetLock, KeepLock
<1>4. /\ l \in [pid : Server \cup {NoServer}, sid : Sid \cup {NoSid}]
      /\ l.pid = p /\ l.sid = main[p].sid
  BY <1>1 DEF IInv, TypeOK
<1>5. TypeOK'
  BY <1>1, <1>2, <1>3, <1>4 DEF IInv, TypeOK, Preview, Same, world
<1>6. LoopRequests' /\ OpenedOnce'
  BY <1>1, <1>2, <1>3, LoopStep DEF Preview, Same, world
<1>7. ThreadRequests' /\ TextsLeft'
  BY <1>2, ThreadFrame DEF Preview, Same, world
<1>8. LockKnown' /\ FileMade' /\ LockNamesLive'
  <2> HIDE DEF l
  <2>1. QED BY <1>1, <1>3, <1>4 DEF IInv, LockKnown, FileMade, LockNamesLive, Preview, Same, world
<1>9. QED BY <1>5, <1>6, <1>7, <1>8 DEF IInv

LEMMA WriteBackupInv ==
  ASSUME IInv, NEW p \in Server, WriteBackup(p)
  PROVE  IInv'
<1>1. main[p] # Idle /\ main[p] \in Requests /\ Writing(p) /\ main[p].sid \in live[p]
  BY DEF IInv, TypeOK, LoopRequests, WriteBackup, AtMain, Idle, Writing
<1>2. /\ main' \in [Server -> {Idle} \cup Requests] /\ work' = work
      /\ \A q \in Server : q # p => main'[q] = main[q]
      /\ main'[p] \in Requests /\ main'[p].sid = main[p].sid
      /\ main'[p].at = "read" \/ (main'[p].at = "save" /\ main'[p].then = "read")
  <2> DEFINE n == Copied(main[p], "read")
  <2>1. n \in Requests /\ n.at = "save" /\ n.then = "read" /\ n.sid = main[p].sid
    BY <1>1, CopiedShape DEF IInv, LoopSteps
  <2>2. Go(p, n) \/ GoTo(p, "read")
    BY DEF WriteBackup
  <2> HIDE DEF n
  <2>3. QED BY <1>1, <2>1, <2>2, Went, WentTo DEF IInv, AllSteps, LoopSteps
<1>3. TypeOK'
  BY <1>2 DEF IInv, TypeOK, WriteBackup, KeepLock, world
<1>4. LoopRequests' /\ OpenedOnce'
  BY <1>1, <1>2, RequestShape, LoopStep
    DEF WriteBackup, KeepLock, world, Opening, Writing, Closing, AtMain
<1>5. ThreadRequests' /\ TextsLeft'
  BY <1>2, ThreadFrame DEF WriteBackup, world
<1>6. LockKnown' /\ FileMade' /\ LockNamesLive'
  BY DEF IInv, LockKnown, FileMade, LockNamesLive, WriteBackup, KeepLock, world
<1>7. QED BY <1>3, <1>4, <1>5, <1>6 DEF IInv

LEMMA SaveInv ==
  ASSUME IInv, NEW p \in Server, Save(p)
  PROVE  IInv'
<1> DEFINE n == Saved(main[p])
<1>1. /\ main[p] # Idle /\ main[p] \in Requests /\ AtMain(p, "save")
      /\ (Opening(p) /\ main[p].then = "lock")
           \/ (Writing(p) /\ main[p].sid \in live[p] /\ main[p].then \in {"read", "back"})
  <2>1. main[p] # Idle /\ AtMain(p, "save")
    BY DEF Save, AtMain, Idle
  <2>2. Opening(p) \/ Writing(p) \/ Closing(p)
    BY <2>1 DEF IInv, LoopRequests
  <2>3. QED BY <2>1, <2>2 DEF IInv, TypeOK, LoopRequests, AtMain, Opening, Writing, Closing
<1>2. n \in Requests /\ n.at = main[p].then /\ n.sid = main[p].sid
  BY <1>1, SavedShape, EditAssumption
<1>3. Go(p, n)
  BY DEF Save
<1> HIDE DEF n
<1>4. /\ main' \in [Server -> {Idle} \cup Requests] /\ work' = work
      /\ main'[p] = n /\ \A q \in Server : q # p => main'[q] = main[q]
  BY <1>2, <1>3, Went DEF IInv
<1>5. main[p].seen \subseteq Backups /\ main[p].copy \in Backups
  BY <1>1, RequestShape
<1>6. TypeOK'
  BY <1>4, <1>5 DEF IInv, TypeOK, Save, KeepLock, Same, world
<1>7. LoopRequests' /\ OpenedOnce'
  BY <1>1, <1>2, <1>4, RequestShape, LoopStep
    DEF Save, KeepLock, Same, world, Opening, Writing, Closing, AtMain
<1>8. ThreadRequests' /\ TextsLeft'
  BY <1>4, ThreadFrame DEF Save, Same, world
<1>9. LockKnown' /\ FileMade' /\ LockNamesLive'
  BY DEF IInv, LockKnown, FileMade, LockNamesLive, Save, KeepLock, Same, world
<1>10. QED BY <1>6, <1>7, <1>8, <1>9 DEF IInv

LEMMA WriteReadInv ==
  ASSUME IInv, NEW p \in Server, WriteRead(p)
  PROVE  IInv'
<1> DEFINE x == draft.text
           n == [main[p] EXCEPT !.at = "replace", !.text = x]
           m == [main[p] EXCEPT !.at = "pick"]
<1>1. main[p] # Idle /\ main[p] \in Requests /\ Writing(p) /\ main[p].sid \in live[p]
  BY DEF IInv, TypeOK, LoopRequests, WriteRead, AtMain, Idle, Writing
<1>2. x \in Text
  BY DEF IInv, TypeOK
<1>3. "replace" \in AllSteps /\ "pick" \in AllSteps
  BY DEF AllSteps, LoopSteps
<1>4. n \in Requests /\ n.at = "replace" /\ n.sid = main[p].sid
  <2> HIDE DEF x
  <2>1. QED BY <1>1, <1>2, <1>3 DEF Requests, AllSteps
<1>5. m \in Requests /\ m.at = "pick" /\ m.sid = main[p].sid
  BY <1>1, <1>3, StepSet
<1>6. Go(p, n) \/ Go(p, m)
  BY DEF WriteRead
<1> HIDE DEF n, m
<1>7. /\ main' \in [Server -> {Idle} \cup Requests] /\ work' = work
      /\ \A q \in Server : q # p => main'[q] = main[q]
      /\ main'[p] \in Requests /\ main'[p].sid = main[p].sid
      /\ main'[p].at \in {"replace", "pick"}
  BY <1>4, <1>5, <1>6, Went DEF IInv
<1>8. TypeOK'
  BY <1>7 DEF IInv, TypeOK, WriteRead, KeepLock, Same, world
<1>9. LoopRequests' /\ OpenedOnce'
  BY <1>1, <1>7, RequestShape, LoopStep
    DEF WriteRead, KeepLock, Same, world, Opening, Writing, Closing, AtMain
<1>10. ThreadRequests' /\ TextsLeft'
  BY <1>7, ThreadFrame DEF WriteRead, Same, world
<1>11. LockKnown' /\ FileMade' /\ LockNamesLive'
  BY DEF IInv, LockKnown, FileMade, LockNamesLive, WriteRead, KeepLock, Same, world
<1>12. QED BY <1>8, <1>9, <1>10, <1>11 DEF IInv

LEMMA ReplaceInv ==
  ASSUME IInv, NEW p \in Server, Replace(p)
  PROVE  IInv'
<1>1. main[p] # Idle /\ main[p] \in Requests /\ Writing(p) /\ main[p].sid \in live[p]
  BY DEF IInv, TypeOK, LoopRequests, Replace, AtMain, Idle, Writing
<1>2. /\ main' \in [Server -> {Idle} \cup Requests] /\ work' = work
      /\ \A q \in Server : q # p => main'[q] = main[q]
      /\ main'[p] \in Requests /\ main'[p].sid = main[p].sid
      /\ main'[p].at \in {"unlock", "pick"}
  <2>1. GoTo(p, "unlock") \/ GoTo(p, "pick")
    BY DEF Replace
  <2>2. QED BY <1>1, <2>1, WentTo DEF IInv, AllSteps, LoopSteps
<1>3. /\ file' \in [there : BOOLEAN, text : Text, stamp : Stamp] /\ clock' \in Stamp
      /\ past' \subseteq Text /\ (file' = file \/ file'.there)
  <2>1. main[p].text \in Text
    BY <1>1, RequestShape
  <2>2. ASSUME clock' \in Stamp
        PROVE  [there |-> TRUE, text |-> main[p].text, stamp |-> clock']
                 \in [there : BOOLEAN, text : Text, stamp : Stamp]
    BY <2>1, <2>2
  <2>3. QED BY <2>1, <2>2 DEF IInv, TypeOK, Replace
<1>4. TypeOK'
  BY <1>2, <1>3 DEF IInv, TypeOK, Replace, KeepLock
<1>5. LoopRequests' /\ OpenedOnce'
  BY <1>1, <1>2, RequestShape, LoopStep
    DEF Replace, KeepLock, Opening, Writing, Closing, AtMain
<1>6. ThreadRequests' /\ TextsLeft'
  BY <1>2, ThreadFrame DEF Replace
<1>7. LockKnown' /\ FileMade' /\ LockNamesLive'
  BY <1>3 DEF IInv, LockKnown, FileMade, LockNamesLive, Replace, KeepLock
<1>8. QED BY <1>4, <1>5, <1>6, <1>7 DEF IInv

LEMMA WriteUnlockInv ==
  ASSUME IInv, NEW p \in Server, WriteUnlock(p)
  PROVE  IInv'
<1>1. main[p] # Idle /\ Writing(p) /\ main[p].sid \in opened /\ main[p].sid \in live[p]
  BY DEF IInv, LoopRequests, WriteUnlock, AtMain, Idle, Writing
<1>2. /\ main' \in [Server -> {Idle} \cup Requests] /\ work' = work /\ main'[p] = Idle
      /\ \A q \in Server : q # p => main'[q] = main[q]
  BY WentIdle DEF IInv, WriteUnlock
<1>3. TypeOK'
  BY <1>1, <1>2 DEF IInv, TypeOK, WriteUnlock, Same, world
<1>4. LoopRequests' /\ OpenedOnce'
  BY <1>1, <1>2, LoopStep DEF WriteUnlock, Same, world
<1>5. ThreadRequests' /\ TextsLeft'
  BY <1>2, ThreadFrame DEF WriteUnlock, Same, world
<1>6. LockKnown' /\ FileMade' /\ LockNamesLive'
  BY NoLockTyped DEF IInv, LockKnown, FileMade, LockNamesLive, WriteUnlock, Same, world
<1>7. QED BY <1>3, <1>4, <1>5, <1>6 DEF IInv

LEMMA PickInv ==
  ASSUME IInv, NEW p \in Server, Pick(p)
  PROVE  IInv'
<1>1. main[p] # Idle /\ main[p] \in Requests /\ Writing(p) /\ main[p].sid \in live[p]
  BY DEF IInv, TypeOK, LoopRequests, Pick, AtMain, Idle, Writing
<1>2. /\ main' \in [Server -> {Idle} \cup Requests] /\ work' = work
      /\ \A q \in Server : q # p => main'[q] = main[q]
      /\ main'[p] = Idle
           \/ /\ main'[p] \in Requests /\ main'[p].sid = main[p].sid
              /\ main'[p].at = "save" /\ main'[p].then = "back"
  <2>1. CASE index = {}
    BY <2>1, WentIdle DEF IInv, Pick
  <2>2. CASE index # {}
    <3>1. PICK b \in Newest : Go(p, [Copied(main[p], "back") EXCEPT !.from = b])
      BY <2>2 DEF Pick
    <3> DEFINE n == [Copied(main[p], "back") EXCEPT !.from = b]
    <3>2. b \in Backups
      BY DEF IInv, TypeOK, Newest
    <3>3. /\ Copied(main[p], "back") \in Requests /\ Copied(main[p], "back").at = "save"
          /\ Copied(main[p], "back").then = "back" /\ Copied(main[p], "back").sid = main[p].sid
      BY <1>1, CopiedShape DEF IInv, LoopSteps
    <3>4. n \in Requests /\ n.at = "save" /\ n.then = "back" /\ n.sid = main[p].sid
      BY <3>2, <3>3 DEF Requests
    <3>5. Go(p, n)
      BY <3>1
    <3> HIDE DEF n
    <3>6. QED BY <3>4, <3>5, Went DEF IInv
  <2>3. QED BY <2>1, <2>2
<1>3. TypeOK'
  BY <1>2 DEF IInv, TypeOK, Pick, KeepLock, Same, world
<1>4. LoopRequests' /\ OpenedOnce'
  BY <1>1, <1>2, RequestShape, LoopStep
    DEF Pick, KeepLock, Same, world, Opening, Writing, Closing, AtMain
<1>5. ThreadRequests' /\ TextsLeft'
  BY <1>2, ThreadFrame DEF Pick, Same, world
<1>6. LockKnown' /\ FileMade' /\ LockNamesLive'
  BY DEF IInv, LockKnown, FileMade, LockNamesLive, Pick, KeepLock, Same, world
<1>7. QED BY <1>3, <1>4, <1>5, <1>6 DEF IInv

LEMMA BackInv ==
  ASSUME IInv, NEW p \in Server, Back(p)
  PROVE  IInv'
<1>1. main[p] # Idle /\ main[p] \in Requests /\ main[p].from \in Backups
  BY RequestShape DEF IInv, TypeOK, Back, AtMain, Idle
<1>2. /\ main' \in [Server -> {Idle} \cup Requests] /\ work' = work /\ main'[p] = Idle
      /\ \A q \in Server : q # p => main'[q] = main[q]
  BY WentIdle DEF IInv, Back
<1>3. /\ file' \in [there : BOOLEAN, text : Text, stamp : Stamp] /\ past' \subseteq Text
      /\ file'.there
  BY <1>1 DEF IInv, TypeOK, Back, Backups
<1>4. TypeOK'
  BY <1>2, <1>3 DEF IInv, TypeOK, Back, KeepLock, world
<1>5. LoopRequests' /\ OpenedOnce'
  BY <1>1, <1>2, LoopStep DEF Back, KeepLock, world
<1>6. ThreadRequests' /\ TextsLeft'
  BY <1>2, ThreadFrame DEF Back, world
<1>7. LockKnown' /\ FileMade' /\ LockNamesLive'
  BY <1>3 DEF IInv, LockKnown, FileMade, LockNamesLive, Back, KeepLock, world
<1>8. QED BY <1>4, <1>5, <1>6, <1>7 DEF IInv
-----------------------------------------------------------------------------
(* Closing, crashes and starts.                                            *)
LEMMA CloseInv ==
  ASSUME IInv, NEW p \in Server, Close(p)
  PROVE  IInv'
<1> PICK s \in live[p] :
      /\ Arrives(p, FALSE)
      /\ draft' = Absent
      /\ Go(p, Request("look", s))
      /\ KeepLock
      /\ UNCHANGED <<world, file, index, mine, past>>
  BY DEF Close
<1> DEFINE r == Request("look", s)
<1>1. s \in Sid /\ up[p] = "up" /\ disturbed' \in BOOLEAN
  BY DEF IInv, TypeOK, Arrives
<1>2. r \in Requests /\ r.at = "look" /\ r.sid = s /\ r # Idle
  BY <1>1, MadeRequest, RequestShape, EditAssumption DEF AllSteps, LoopSteps
<1> HIDE DEF r
<1>3. /\ main' \in [Server -> {Idle} \cup Requests] /\ work' = work
      /\ main'[p] = r /\ \A q \in Server : q # p => main'[q] = main[q]
  BY <1>2, Went DEF IInv, r
<1>4. Absent \in [there : BOOLEAN, text : Text]
  BY EditAssumption DEF Absent, Text
<1>5. TypeOK'
  BY <1>1, <1>3, <1>4 DEF IInv, TypeOK, KeepLock, world
<1>6. LoopRequests' /\ OpenedOnce' /\ LockNamesLive'
  BY <1>1, <1>2, <1>3, LoopBegins DEF world, KeepLock
<1>7. ThreadRequests' /\ TextsLeft'
  BY <1>3, ThreadFrame DEF world
<1>8. LockKnown' /\ FileMade'
  BY DEF IInv, LockKnown, FileMade, KeepLock, world
<1>9. QED BY <1>5, <1>6, <1>7, <1>8 DEF IInv

LEMMA CloseLookInv ==
  ASSUME IInv, NEW p \in Server, CloseLook(p)
  PROVE  IInv'
<1> DEFINE b == lock.sid \in {NoSid, main[p].sid}
           n == [main[p] EXCEPT !.at = "release", !.mine = b]
<1>1. main[p] # Idle /\ main[p] \in Requests /\ Closing(p) /\ main[p].sid \in live[p]
  BY DEF IInv, TypeOK, LoopRequests, CloseLook, AtMain, Idle, Closing
<1>2. n \in Requests /\ n.at = "release" /\ n.sid = main[p].sid /\ (n.mine <=> b)
  <2>1. b \in BOOLEAN
    OBVIOUS
  <2> HIDE DEF b
  <2>2. QED BY <1>1, <2>1, MineSet
<1>3. Go(p, n)
  BY DEF CloseLook
<1> HIDE DEF n
<1>4. /\ main' \in [Server -> {Idle} \cup Requests] /\ work' = work
      /\ main'[p] = n /\ \A q \in Server : q # p => main'[q] = main[q]
  BY <1>2, <1>3, Went DEF IInv
<1>5. TypeOK'
  BY <1>4 DEF IInv, TypeOK, CloseLook, KeepLock, Same, world
<1>6. ~main'[p].mine => lock.sid # main[p].sid
  BY <1>2, <1>4
<1>7. LoopRequests' /\ OpenedOnce'
  BY <1>1, <1>2, <1>4, <1>6, RequestShape, LoopStep
    DEF CloseLook, KeepLock, Same, world, Opening, Writing, Closing, AtMain
<1>8. ThreadRequests' /\ TextsLeft'
  BY <1>4, ThreadFrame DEF CloseLook, Same, world
<1>9. LockKnown' /\ FileMade' /\ LockNamesLive'
  BY DEF IInv, LockKnown, FileMade, LockNamesLive, CloseLook, KeepLock, Same, world
<1>10. QED BY <1>5, <1>7, <1>8, <1>9 DEF IInv

LEMMA CloseReleaseInv ==
  ASSUME IInv, NEW p \in Server, CloseRelease(p)
  PROVE  IInv'
<1>1. /\ main[p] # Idle /\ AtMain(p, "release") /\ main[p].sid \in live[p]
      /\ ~main[p].mine => lock.sid # main[p].sid
  BY DEF IInv, LoopRequests, CloseRelease, AtMain, Idle, Closing
<1>2. /\ main' \in [Server -> {Idle} \cup Requests] /\ work' = work /\ main'[p] = Idle
      /\ \A q \in Server : q # p => main'[q] = main[q]
  BY WentIdle DEF IInv, CloseRelease
<1>3. /\ live' = [live EXCEPT ![p] = @ \ {main[p].sid}]
      /\ live' \in [Server -> SUBSET opened] /\ live'[p] = live[p] \ {main[p].sid}
      /\ \A q \in Server : q # p => live'[q] = live[q]
  BY DEF IInv, TypeOK, CloseRelease
<1>4. (lock' = lock /\ held' = held /\ ~main[p].mine) \/ (lock' = NoLock /\ held' \subseteq held)
  BY DEF CloseRelease, SetLock, KeepLock
<1>5. wrote' = wrote /\ \A s \in held' : lock'.sid = s
  BY DEF IInv, LockKnown, CloseRelease, SetLock, KeepLock
<1>6. TypeOK'
  <2>1. \A q, r \in Server : q # r => live'[q] \cap live'[r] = {}
    BY <1>3 DEF IInv, TypeOK
  <2>2. \A q \in Server : up[q] # "up" => live'[q] = {}
    BY <1>3 DEF IInv, TypeOK
  <2>3. QED BY <1>2, <1>3, <1>4, <1>5, <2>1, <2>2 DEF IInv, TypeOK, CloseRelease
<1>7. LoopRequests' /\ OpenedOnce'
  BY <1>1, <1>2, <1>3, <1>4, LoopStep DEF CloseRelease
<1>8. ThreadRequests' /\ TextsLeft'
  BY <1>2, ThreadFrame DEF CloseRelease
<1>9. LockKnown' /\ FileMade' /\ LockNamesLive'
  BY <1>1, <1>3, <1>4, <1>5, NoLockTyped
    DEF IInv, LockKnown, FileMade, LockNamesLive, CloseRelease
<1>10. QED BY <1>6, <1>7, <1>8, <1>9 DEF IInv

LEMMA CrashInv ==
  ASSUME IInv, NEW p \in Server, Crash(p)
  PROVE  IInv'
<1>1. /\ main' \in [Server -> {Idle} \cup Requests] /\ main'[p] = Idle
      /\ work' \in [Server -> {Idle} \cup Requests] /\ work'[p] = Idle
      /\ \A q \in Server : q # p => main'[q] = main[q] /\ work'[q] = work[q]
  BY DEF IInv, TypeOK, Crash
<1>2. /\ live' \in [Server -> SUBSET opened] /\ live'[p] = {}
      /\ up' \in [Server -> {"down", "up", "dead"}] /\ up'[p] = "dead"
      /\ \A q \in Server : q # p => live'[q] = live[q] /\ up'[q] = up[q]
  BY DEF IInv, TypeOK, Crash
<1>3. TypeOK'
  <2>1. \A q, r \in Server : q # r => live'[q] \cap live'[r] = {}
    BY <1>2 DEF IInv, TypeOK
  <2>2. \A q \in Server : up'[q] # "up" => live'[q] = {}
    BY <1>2 DEF IInv, TypeOK
  <2>3. index' \subseteq Backups /\ disturbed' \in BOOLEAN
    BY DEF IInv, TypeOK, Crash
  <2>4. QED BY <1>1, <1>2, <2>1, <2>2, <2>3 DEF IInv, TypeOK, Crash, KeepLock
<1>4. \A q \in Server : q # p =>
        /\ Opening(q)' = Opening(q) /\ Writing(q)' = Writing(q) /\ Closing(q)' = Closing(q)
        /\ AtMain(q, "release")' = AtMain(q, "release")
  BY <1>1 DEF Opening, Writing, Closing, AtMain
<1>5. ~Opening(p)'
  BY <1>1 DEF Opening, AtMain, Idle
<1>6. LoopRequests' /\ OpenedOnce'
  BY <1>1, <1>2, <1>4, <1>5 DEF IInv, LoopRequests, OpenedOnce, Crash, KeepLock
<1>7. ThreadRequests'
  BY <1>1, <1>2 DEF IInv, ThreadRequests, Crash
<1>8. TextsLeft'
  <2>1. CASE work[p] # Idle
    BY <1>1, <2>1, WorkerDone DEF Crash
  <2>2. CASE work[p] = Idle
    <3>1. Working' = Working
      BY <1>1, <2>2 DEF Working
    <3>2. QED BY <3>1 DEF IInv, TextsLeft, Crash
  <2>3. QED BY <2>1, <2>2
<1>9. LockKnown' /\ FileMade' /\ LockNamesLive'
  BY <1>2 DEF IInv, TypeOK, LockKnown, FileMade, LockNamesLive, Crash, KeepLock
<1>10. QED BY <1>3, <1>6, <1>7, <1>8, <1>9 DEF IInv

LEMMA StartInv ==
  ASSUME IInv, NEW p \in Server, Start(p)
  PROVE  IInv'
<1>1. /\ up[p] = "down" /\ main' = main /\ work' = work
      /\ up' \in [Server -> {"down", "up", "dead"}] /\ up'[p] = "up"
      /\ \A q \in Server : q # p => up'[q] = up[q]
  BY DEF IInv, TypeOK, Start, requests
<1>2. TypeOK'
  BY <1>1 DEF IInv, TypeOK, Start, KeepLock
<1>3. LoopRequests' /\ OpenedOnce'
  BY <1>1 DEF IInv, LoopRequests, OpenedOnce, Opening, Writing, Closing, AtMain, Start, KeepLock
<1>4. ThreadRequests'
  BY <1>1 DEF IInv, ThreadRequests, Start
<1>5. TextsLeft'
  <2>1. Working' = Working
    BY <1>1 DEF Working
  <2>2. QED BY <2>1 DEF IInv, TextsLeft, Start
<1>6. LockKnown' /\ FileMade' /\ LockNamesLive'
  BY <1>1 DEF IInv, TypeOK, LockKnown, FileMade, LockNamesLive, Start, KeepLock
<1>7. QED BY <1>2, <1>3, <1>4, <1>5, <1>6 DEF IInv

LEMMA NextInv ==
  ASSUME IInv, [Next]_vars
  PROVE  IInv'
<1>1. CASE UNCHANGED vars
  <2>1. UNCHANGED <<up, work, last, opened, main, live, lock>>
    BY <1>1 DEF vars, world, requests
  <2>2. TypeOK' /\ LockKnown' /\ FileMade'
    BY <1>1 DEF IInv, TypeOK, LockKnown, FileMade, vars, world, requests
  <2>3. QED BY <2>1, <2>2, ThreadFrame, LoopFrame DEF IInv
<1>2. CASE Next
  <2>1. PICK p \in Server :
          OpenStep(p) \/ EditStep(p) \/ WriteStep(p) \/ CloseStep(p) \/ Crash(p) \/ Start(p)
    BY <1>2 DEF Next
  <2>2. CASE OpenStep(p)
    BY <2>2, OpenCheckInv, OpenCleanInv, OpenDraftInv, OpenBackupInv, OpenLockInv DEF OpenStep
  <2>3. CASE EditStep(p)
    BY <2>3, EditInv, EditSaveInv, EditReadInv, EditTruncateInv, EditFillInv DEF EditStep
  <2>4. CASE WriteStep(p)
    BY <2>4, WriteInv, PreviewInv, WriteBackupInv, SaveInv, WriteReadInv, ReplaceInv,
       WriteUnlockInv, PickInv, BackInv DEF WriteStep
  <2>5. CASE CloseStep(p)
    BY <2>5, CloseInv, CloseLookInv, CloseReleaseInv DEF CloseStep
  <2>6. QED BY <2>1, <2>2, <2>3, <2>4, <2>5, CrashInv, StartInv
<1>3. QED BY <1>1, <1>2
-----------------------------------------------------------------------------
(* Requests that nothing disturbs, one at a time.                          *)
LEMMA IdleDone ==
  ASSUME NEW p \in Server
  PROVE  /\ main[p] = Idle => LoopDone(p)
         /\ work[p] = Idle => ThreadDone(p)
         /\ (main[p] = Idle => LoopDone(p))'
         /\ (work[p] = Idle => ThreadDone(p))'
BY DEF LoopDone, ThreadDone, Opening, Writing, AtMain, Idle

\* What a step of p has to show when no other server runs a request.
LEMMA QuietStep ==
  ASSUME NEW p \in Server,
         \A q \in Server : q # p => main'[q] = Idle /\ work'[q] = Idle,
         main'[p] = Idle \/ work'[p] = Idle,
         LoopDone(p)', ThreadDone(p)', OneWriter', OwnDraft', Kept'
  PROVE  Quiet'
<1>1. Alone'
  BY DEF Alone
<1>2. \A q \in Server : LoopDone(q)' /\ ThreadDone(q)'
  BY IdleDone
<1>3. QED BY <1>1, <1>2 DEF Quiet

\* A request that runs, runs alone; one that arrives finds nothing running.
LEMMA RunsAlone ==
  ASSUME Alone, NEW p \in Server
  PROVE  /\ main[p] # Idle =>
              /\ \A q \in Server : q # p => main[q] = Idle
              /\ \A q \in Server : work[q] = Idle
         /\ work[p] # Idle =>
              /\ \A q \in Server : main[q] = Idle
              /\ \A q \in Server : q # p => work[q] = Idle
BY DEF Alone

LEMMA ArrivesAlone ==
  ASSUME NEW p \in Server, NEW late \in BOOLEAN, Arrives(p, late), ~disturbed'
  PROVE  ~disturbed /\ ~late /\ \A q \in Server : main[q] = Idle /\ work[q] = Idle
BY DEF Arrives, Busy

LEMMA NobodyHolds ==
  ASSUME IInv, lock = NoLock
  PROVE  held = {}
BY EditAssumption DEF IInv, TypeOK, LockKnown, NoLock

LEMMA IdleThreads ==
  ASSUME \A q \in Server : work[q] = Idle
  PROVE  \A q \in Server : work[q].at \notin {"truncate", "fill"}
BY DEF Idle

LEMMA OpenCheckQuiet ==
  ASSUME IInv, Undisturbed, ~disturbed', NEW p \in Server, OpenCheck(p)
  PROVE  Quiet'
<1> PICK s \in Sid \ opened :
      /\ Arrives(p, FALSE)
      /\ file.there => ~Locked
      /\ Go(p, Request("clean", s))
      /\ file' = IF file.there THEN file ELSE [there |-> TRUE, text |-> 0, stamp |-> clock]
      /\ past' = past \cup {file'.text}
      /\ opened' = opened \cup {s}
      /\ KeepLock
      /\ UNCHANGED <<kind, up, clock, live, last, draft, index, mine>>
  BY DEF OpenCheck
<1>1. Quiet /\ \A q \in Server : main[q] = Idle /\ work[q] = Idle
  BY ArrivesAlone DEF Undisturbed
<1>2. /\ main'[p].at = "clean" /\ work' = work
      /\ \A q \in Server : q # p => main'[q] = main[q]
  BY MadeRequest, EditAssumption, Went DEF IInv, AllSteps, LoopSteps
<1>3. \A q \in Server : live[q] \subseteq wrote
  <2> SUFFICES ASSUME NEW q \in Server, NEW t \in live[q], t \notin wrote PROVE FALSE
    OBVIOUS
  <2>1. lock = [pid |-> q, sid |-> t] /\ t \in opened /\ up[q] = "up"
    BY <1>1 DEF IInv, TypeOK, Quiet, OneWriter
  <2>2. lock # NoLock
    BY <2>1, EditAssumption DEF NoLock
  <2>3. Locked /\ file.there
    BY <2>1, <2>2 DEF Locked, IInv, FileMade
  <2>4. QED BY <2>3
<1>4. LoopDone(p)'
  BY <1>2, <1>3 DEF LoopDone, Opening, Writing, AtMain, KeepLock
<1>5. ThreadDone(p)' /\ OneWriter' /\ OwnDraft'
  BY <1>1, <1>2, IdleDone DEF Quiet, OneWriter, OwnDraft, KeepLock
<1>6. file'.text = file.text
  BY DEF IInv, FileMade
<1>7. Kept'
  BY <1>1, <1>6 DEF Quiet, Kept, BackedUp
<1>8. QED BY <1>1, <1>2, <1>4, <1>5, <1>7, QuietStep

LEMMA OpenCleanQuiet ==
  ASSUME IInv, Quiet, NEW p \in Server, OpenClean(p)
  PROVE  Quiet'
<1>1. /\ main[p] # Idle /\ Opening(p) /\ lock' = NoLock /\ held' = {} /\ wrote' = wrote
  BY EditAssumption DEF IInv, TypeOK, OpenClean, SetLock, NoLock, AtMain, Idle, Opening
<1>2. /\ \A q \in Server : q # p => main[q] = Idle
      /\ \A q \in Server : work[q] = Idle
  BY <1>1, RunsAlone DEF Quiet
<1>3. /\ work' = work /\ main'[p].at = "draft"
      /\ \A q \in Server : q # p => main'[q] = main[q]
  BY <1>1, WentTo DEF IInv, OpenClean, AllSteps, LoopSteps
<1>4. \A q \in Server : live'[q] \subseteq wrote'
  BY <1>1 DEF Quiet, LoopDone, OpenClean, Same, world
<1>5. LoopDone(p)'
  BY <1>1, <1>3, <1>4 DEF LoopDone, Opening, Writing, AtMain
<1>6. ThreadDone(p)' /\ OneWriter' /\ OwnDraft' /\ Kept'
  BY <1>1, <1>2, <1>3, <1>4, IdleDone
    DEF Quiet, OneWriter, OwnDraft, Kept, BackedUp, OpenClean, Same
<1>7. QED BY <1>2, <1>3, <1>5, <1>6, QuietStep

LEMMA OpenDraftQuiet ==
  ASSUME IInv, Quiet, NEW p \in Server, OpenDraft(p)
  PROVE  Quiet'
<1>1. main[p] # Idle /\ Opening(p) /\ AtMain(p, "draft") /\ main[p].sid \in Sid
  BY DEF IInv, TypeOK, LoopRequests, OpenDraft, AtMain, Idle, Opening
<1>2. /\ \A q \in Server : q # p => main[q] = Idle
      /\ \A q \in Server : work[q] = Idle
  BY <1>1, RunsAlone DEF Quiet
<1>3. /\ work' = work /\ \A q \in Server : q # p => main'[q] = main[q]
      /\ main'[p] = Idle
           \/ /\ main'[p].at = "initial" /\ main'[p].sid = main[p].sid
              /\ draft' = [there |-> TRUE, text |-> file.text]
              /\ mine' = [mine EXCEPT ![main[p].sid] = file.text]
  BY <1>1, WentTo, WentIdle DEF IInv, OpenDraft, AllSteps, LoopSteps
<1>4. /\ lock = NoLock /\ \A q \in Server : live[q] \subseteq wrote
      /\ UNCHANGED <<lock, held, wrote, live, file, index, past>>
  BY <1>1 DEF Quiet, LoopDone, AtMain, OpenDraft, KeepLock, world
<1>5. held' = {}
  BY <1>4, NobodyHolds
<1>6. LoopDone(p)'
  <2>1. ASSUME main'[p] # Idle
        PROVE  draft'.there /\ draft'.text = mine'[main'[p].sid]
    BY <1>1, <1>3, <2>1 DEF IInv, TypeOK
  <2>2. ASSUME main'[p] # Idle
        PROVE  LoopDone(p)'
    BY <1>3, <1>4, <2>1, <2>2 DEF LoopDone, Opening, Writing, AtMain
  <2>3. QED BY <2>2, IdleDone
<1>7. ThreadDone(p)' /\ OneWriter' /\ OwnDraft' /\ Kept'
  BY <1>2, <1>3, <1>4, <1>5, IdleDone DEF Quiet, OneWriter, OwnDraft, Kept, BackedUp
<1>8. QED BY <1>2, <1>3, <1>6, <1>7, QuietStep

LEMMA OpenBackupQuiet ==
  ASSUME IInv, Quiet, NEW p \in Server, OpenBackup(p)
  PROVE  Quiet'
<1>1. main[p] # Idle /\ main[p] \in Requests /\ Opening(p) /\ AtMain(p, "initial")
  BY DEF IInv, TypeOK, OpenBackup, AtMain, Idle, Opening
<1>2. /\ \A q \in Server : q # p => main[q] = Idle
      /\ \A q \in Server : work[q] = Idle
  BY <1>1, RunsAlone DEF Quiet
<1>3. UNCHANGED <<lock, held, wrote, live, file, draft, index, mine, past>>
  BY DEF OpenBackup, KeepLock, Same, world
<1>4. /\ work' = work /\ \A q \in Server : q # p => main'[q] = main[q]
      /\ main'[p].sid = main[p].sid
      /\ main'[p].at = "lock"
           \/ /\ main'[p].at = "save" /\ main'[p].then = "lock"
              /\ main'[p].seen = index /\ main'[p].copy.text = file.text
  <2> DEFINE n == Copied(main[p], "lock")
  <2>1. /\ n \in Requests /\ n.at = "save" /\ n.then = "lock" /\ n.sid = main[p].sid
        /\ n.seen = index /\ n.copy.text = file.text
    BY <1>1, CopiedShape DEF IInv, LoopSteps
  <2>2. Go(p, n) \/ GoTo(p, "lock")
    BY DEF OpenBackup
  <2> HIDE DEF n
  <2>3. QED BY <1>1, <2>1, <2>2, Went, WentTo DEF IInv, AllSteps, LoopSteps
<1>5. LoopDone(p)'
  BY <1>1, <1>3, <1>4 DEF Quiet, LoopDone, Opening, Writing, AtMain
<1>6. ThreadDone(p)' /\ OneWriter' /\ OwnDraft' /\ Kept'
  BY <1>2, <1>3, <1>4, IdleDone DEF Quiet, OneWriter, OwnDraft, Kept, BackedUp
<1>7. QED BY <1>2, <1>4, <1>5, <1>6, QuietStep

LEMMA OpenLockQuiet ==
  ASSUME IInv, Quiet, NEW p \in Server, OpenLock(p)
  PROVE  Quiet'
<1>1. main[p] # Idle /\ Opening(p) /\ AtMain(p, "lock") /\ main[p].sid \in Sid
  BY DEF IInv, TypeOK, LoopRequests, OpenLock, AtMain, Idle, Opening
<1>2. /\ \A q \in Server : q # p => main[q] = Idle
      /\ \A q \in Server : work[q] = Idle
  BY <1>1, RunsAlone DEF Quiet
<1>3. /\ main'[p] = Idle /\ work' = work
      /\ \A q \in Server : q # p => main'[q] = main[q]
  BY WentIdle DEF IInv, OpenLock
<1>4. /\ \A q \in Server : live[q] \subseteq wrote
      /\ draft.text = mine[main[p].sid]
  BY <1>1 DEF Quiet, LoopDone, AtMain
<1>5. OneWriter'
  <2>1. live'[p] = live[p] \cup {main[p].sid} /\ \A q \in Server : q # p => live'[q] = live[q]
    BY DEF IInv, TypeOK, OpenLock
  <2>2. QED BY <1>4, <2>1 DEF OneWriter, OpenLock
<1>6. LoopDone(p)' /\ ThreadDone(p)' /\ OwnDraft' /\ Kept'
  BY <1>2, <1>3, <1>4, IdleDone DEF Quiet, OwnDraft, Kept, BackedUp, OpenLock
<1>7. QED BY <1>2, <1>3, <1>5, <1>6, QuietStep

LEMMA EditQuiet ==
  ASSUME IInv, Undisturbed, ~disturbed', NEW p \in Server, Edit(p)
  PROVE  Quiet'
<1> PICK s \in live[p] :
      /\ Arrives(p, s \in wrote)
      /\ work[p] = Idle
      /\ last + Cardinality({q \in Server : work[q] # Idle}) < MaxText
      /\ Work(p, [Request(IF draft.there THEN "save" ELSE "apply", s)
                    EXCEPT !.then = "apply", !.seen = index])
      /\ KeepLock
      /\ UNCHANGED <<world, file, draft, index, mine, past>>
  BY DEF Edit
<1> DEFINE step == IF draft.there THEN "save" ELSE "apply"
           r == [Request(step, s) EXCEPT !.then = "apply", !.seen = index]
           late == s \in wrote
<1>1. /\ Quiet /\ s \notin wrote
      /\ \A q \in Server : main[q] = Idle /\ work[q] = Idle
  <2>1. late \in BOOLEAN /\ Arrives(p, late)
    OBVIOUS
  <2>2. ~late => s \notin wrote
    OBVIOUS
  <2> HIDE DEF late
  <2>3. QED BY <2>1, <2>2, ArrivesAlone DEF Undisturbed
<1>2. lock = [pid |-> p, sid |-> s]
  BY <1>1 DEF Quiet, OneWriter
<1>3. s \in Sid /\ step \in {"save", "apply"} /\ index \in SUBSET Backups
  BY DEF IInv, TypeOK
<1> HIDE DEF step
<1>4. Request(step, s) \in Requests /\ Request(step, s).at = step /\ Request(step, s).sid = s
  BY <1>3, MadeRequest, EditAssumption DEF AllSteps, LoopSteps
<1>5. r \in Requests /\ r.at = step /\ r.sid = s /\ r.seen = index
  BY <1>3, <1>4 DEF Requests
<1>6. Work(p, r)
  BY DEF step
<1> HIDE DEF r
<1>7. /\ main' = main /\ work'[p] = r /\ \A q \in Server : q # p => work'[q] = work[q]
  BY <1>5, <1>6, Worked DEF IInv
<1>8. ThreadDone(p)'
  BY <1>2, <1>3, <1>5, <1>7 DEF ThreadDone, KeepLock
<1>9. OwnDraft'
  BY <1>1, IdleThreads DEF Quiet, OwnDraft, KeepLock
<1>10. LoopDone(p)' /\ OneWriter' /\ Kept'
  BY <1>1, <1>7, IdleDone DEF Quiet, OneWriter, Kept, BackedUp, KeepLock, world
<1>11. QED BY <1>1, <1>7, <1>8, <1>9, <1>10, QuietStep

LEMMA EditSaveQuiet ==
  ASSUME IInv, Quiet, NEW p \in Server, EditSave(p)
  PROVE  Quiet'
<1> DEFINE r == Saved(work[p])
<1>1. work[p].at = "save" /\ work[p] # Idle /\ work[p] \in Requests /\ work[p].then = "apply"
  BY DEF IInv, TypeOK, ThreadRequests, EditSave, Idle
<1>2. /\ \A q \in Server : main[q] = Idle
      /\ \A q \in Server : q # p => work[q] = Idle
  BY <1>1, RunsAlone DEF Quiet
<1>3. r \in Requests /\ r.at = "apply" /\ r.sid = work[p].sid
  BY <1>1, SavedShape, EditAssumption
<1>4. Work(p, r)
  BY DEF EditSave
<1> HIDE DEF r
<1>5. /\ main' = main /\ work'[p] = r /\ \A q \in Server : q # p => work'[q] = work[q]
  BY <1>3, <1>4, Worked DEF IInv
<1>6. UNCHANGED <<index, lock, held, wrote, live, file, draft, mine, past>>
  BY <1>1 DEF Quiet, ThreadDone, EditSave, KeepLock, Same, world
<1>7. ThreadDone(p)'
  BY <1>1, <1>3, <1>5, <1>6 DEF Quiet, ThreadDone
<1>8. OwnDraft'
  BY <1>1, <1>2, <1>6 DEF Quiet, OwnDraft, Idle
<1>9. LoopDone(p)' /\ OneWriter' /\ Kept'
  BY <1>2, <1>5, <1>6, IdleDone DEF Quiet, OneWriter, Kept, BackedUp
<1>10. QED BY <1>2, <1>5, <1>7, <1>8, <1>9, QuietStep

LEMMA EditReadQuiet ==
  ASSUME IInv, Quiet, NEW p \in Server, EditRead(p)
  PROVE  Quiet'
<1> DEFINE x == draft.text
           n == [work[p] EXCEPT !.at = "truncate", !.text = x]
<1>1. work[p].at = "apply" /\ work[p] # Idle /\ work[p] \in Requests
  BY DEF IInv, TypeOK, EditRead, Idle
<1>2. /\ \A q \in Server : main[q] = Idle
      /\ \A q \in Server : q # p => work[q] = Idle
  BY <1>1, RunsAlone DEF Quiet
<1>3. x \in Text
  BY DEF IInv, TypeOK
<1>4. n \in Requests /\ n.at = "truncate" /\ n.sid = work[p].sid /\ n.text = x
  <2> HIDE DEF x
  <2>1. QED BY <1>1, <1>3 DEF Requests
<1>5. (Work(p, n) /\ draft.there) \/ Work(p, Idle)
  BY DEF EditRead
<1> HIDE DEF n
<1>6. /\ main' = main /\ \A q \in Server : q # p => work'[q] = work[q]
      /\ (work'[p] = n /\ draft.there) \/ work'[p] = Idle
  BY <1>4, <1>5, Worked DEF IInv
<1>7. UNCHANGED <<index, lock, held, wrote, live, file, draft, mine, past>>
  BY DEF EditRead, KeepLock, Same, world
<1>8. \A s \in held : draft.there => draft.text = mine[s]
  BY <1>1, <1>2 DEF Quiet, OwnDraft, Idle
<1>9. ThreadDone(p)'
  <2>1. CASE work'[p] = n /\ draft.there
    BY <1>1, <1>4, <1>7, <1>8, <2>1 DEF Quiet, ThreadDone
  <2>2. CASE work'[p] = Idle
    BY <2>2, IdleDone
  <2>3. QED BY <1>6, <2>1, <2>2
<1>10. LoopDone(p)' /\ OneWriter' /\ OwnDraft' /\ Kept'
  BY <1>2, <1>6, <1>7, <1>8, IdleDone DEF Quiet, OneWriter, OwnDraft, Kept, BackedUp
<1>11. QED BY <1>2, <1>6, <1>9, <1>10, QuietStep

LEMMA EditTruncateQuiet ==
  ASSUME IInv, Quiet, NEW p \in Server, EditTruncate(p)
  PROVE  Quiet'
<1> DEFINE n == [work[p] EXCEPT !.at = "fill"]
<1>1. work[p].at = "truncate" /\ work[p] # Idle /\ work[p] \in Requests
  BY DEF IInv, TypeOK, EditTruncate, Idle
<1>2. /\ \A q \in Server : main[q] = Idle
      /\ \A q \in Server : q # p => work[q] = Idle
  BY <1>1, RunsAlone DEF Quiet
<1>3. n \in Requests /\ n.at = "fill" /\ n.sid = work[p].sid /\ n.text = work[p].text
  BY <1>1, StepSet DEF AllSteps
<1>4. Work(p, n)
  BY DEF EditTruncate
<1> HIDE DEF n
<1>5. /\ main' = main /\ work'[p] = n /\ \A q \in Server : q # p => work'[q] = work[q]
  BY <1>3, <1>4, Worked DEF IInv
<1>6. UNCHANGED <<index, lock, held, wrote, live, file, mine, past>>
  BY DEF EditTruncate, KeepLock, Same, world
<1>7. ThreadDone(p)'
  BY <1>1, <1>3, <1>5, <1>6 DEF Quiet, ThreadDone
<1>8. LoopDone(p)' /\ OneWriter' /\ OwnDraft' /\ Kept'
  BY <1>2, <1>3, <1>5, <1>6, IdleDone DEF Quiet, OneWriter, OwnDraft, Kept, BackedUp
<1>9. QED BY <1>2, <1>5, <1>7, <1>8, QuietStep

LEMMA EditFillQuiet ==
  ASSUME IInv, Quiet, NEW p \in Server, EditFill(p)
  PROVE  Quiet'
<1>1. work[p].at = "fill" /\ work[p] # Idle /\ work[p].sid \in Sid
  BY DEF IInv, TypeOK, ThreadRequests, EditFill, Idle
<1>2. /\ \A q \in Server : main[q] = Idle
      /\ \A q \in Server : q # p => work[q] = Idle
  BY <1>1, RunsAlone DEF Quiet
<1>3. /\ main' = main /\ work'[p] = Idle /\ \A q \in Server : q # p => work'[q] = work[q]
  BY Worked DEF IInv, EditFill
<1>4. UNCHANGED <<index, lock, held, wrote, live, file, past>>
  BY DEF EditFill, KeepLock
<1>5. \A s \in held : s = work[p].sid /\ work[p].text = mine[s]
  BY <1>1 DEF IInv, LockKnown, Quiet, ThreadDone
<1>6. OwnDraft'
  <2>1. draft'.text = last + 1
    BY DEF IInv, TypeOK, EditFill
  <2>2. \A s \in held : mine'[s] = last + 1
    BY <1>1, <1>5 DEF IInv, TypeOK, EditFill
  <2>3. QED BY <1>4, <2>1, <2>2 DEF OwnDraft
<1>7. LoopDone(p)' /\ ThreadDone(p)' /\ OneWriter' /\ Kept'
  BY <1>2, <1>3, <1>4, IdleDone DEF Quiet, OneWriter, Kept, BackedUp
<1>8. QED BY <1>2, <1>3, <1>6, <1>7, QuietStep

LEMMA WriteQuiet ==
  ASSUME IInv, Undisturbed, ~disturbed', NEW p \in Server, Write(p)
  PROVE  Quiet'
<1> PICK s \in live[p] :
      /\ Arrives(p, s \in wrote)
      /\ Go(p, Request(IF lock = [pid |-> p, sid |-> s] THEN "backup" ELSE "preview", s))
      /\ KeepLock
      /\ UNCHANGED <<world, file, draft, index, mine, past>>
  BY DEF Write
<1> DEFINE step == IF lock = [pid |-> p, sid |-> s] THEN "backup" ELSE "preview"
           r == Request(step, s)
           late == s \in wrote
<1>1. /\ Quiet /\ s \notin wrote
      /\ \A q \in Server : main[q] = Idle /\ work[q] = Idle
  <2>1. late \in BOOLEAN /\ Arrives(p, late)
    OBVIOUS
  <2>2. ~late => s \notin wrote
    OBVIOUS
  <2> HIDE DEF late
  <2>3. QED BY <2>1, <2>2, ArrivesAlone DEF Undisturbed
<1>2. s \in Sid /\ step \in {"backup", "preview"}
  BY DEF IInv, TypeOK
<1> HIDE DEF step
<1>3. r \in Requests /\ r.at = step /\ r.sid = s
  BY <1>2, MadeRequest, EditAssumption DEF AllSteps, LoopSteps
<1>4. Go(p, r)
  BY DEF step
<1> HIDE DEF r
<1>5. /\ main'[p] = r /\ work' = work /\ \A q \in Server : q # p => main'[q] = main[q]
  BY <1>3, <1>4, Went DEF IInv
<1>6. LoopDone(p)'
  BY <1>1, <1>2, <1>3, <1>5 DEF LoopDone, Opening, Writing, AtMain, KeepLock
<1>7. ThreadDone(p)' /\ OneWriter' /\ OwnDraft' /\ Kept'
  BY <1>1, <1>5, IdleDone DEF Quiet, OneWriter, OwnDraft, Kept, BackedUp, KeepLock, world
<1>8. QED BY <1>1, <1>5, <1>6, <1>7, QuietStep

LEMMA PreviewQuiet ==
  ASSUME IInv, Quiet, NEW p \in Server, Preview(p)
  PROVE  Quiet'
<1>1. main[p] # Idle /\ Writing(p) /\ main[p].sid \in live[p]
  BY DEF IInv, LoopRequests, Preview, AtMain, Idle, Writing
<1>2. /\ \A q \in Server : q # p => main[q] = Idle
      /\ \A q \in Server : work[q] = Idle
  BY <1>1, RunsAlone DEF Quiet
<1>3. /\ main'[p] = Idle /\ work' = work /\ \A q \in Server : q # p => main'[q] = main[q]
  BY WentIdle DEF IInv, Preview
<1>4. lock = [pid |-> p, sid |-> main[p].sid]
  BY <1>1 DEF Quiet, LoopDone, OneWriter
<1>5. /\ held' \subseteq held
      /\ UNCHANGED <<index, lock, wrote, live, file, draft, mine, past>>
  BY <1>4 DEF Preview, SetLock, KeepLock, Same, world
<1>6. LoopDone(p)' /\ ThreadDone(p)' /\ OneWriter' /\ OwnDraft' /\ Kept'
  BY <1>2, <1>3, <1>5, IdleDone DEF Quiet, OneWriter, OwnDraft, Kept, BackedUp
<1>7. QED BY <1>2, <1>3, <1>6, QuietStep

LEMMA WriteBackupQuiet ==
  ASSUME IInv, Quiet, ~disturbed', NEW p \in Server, WriteBackup(p)
  PROVE  Quiet'
<1> DEFINE n == Copied(main[p], "read")
<1>1. main[p] # Idle /\ main[p] \in Requests /\ Writing(p)
  BY DEF IInv, TypeOK, LoopRequests, WriteBackup, AtMain, Idle, Writing
<1>2. /\ \A q \in Server : q # p => main[q] = Idle
      /\ \A q \in Server : work[q] = Idle
  BY <1>1, RunsAlone DEF Quiet
<1>3. /\ n \in Requests /\ n.at = "save" /\ n.then = "read" /\ n.sid = main[p].sid
      /\ n.seen = index /\ n.copy.text = file.text
  BY <1>1, CopiedShape DEF IInv, LoopSteps
<1>4. Go(p, n)
  BY DEF WriteBackup
<1> HIDE DEF n
<1>5. /\ main'[p] = n /\ work' = work /\ \A q \in Server : q # p => main'[q] = main[q]
  BY <1>3, <1>4, Went DEF IInv
<1>6. UNCHANGED <<index, lock, held, wrote, live, file, draft, mine, past>>
  BY DEF WriteBackup, KeepLock, world
<1>7. LoopDone(p)'
  BY <1>1, <1>3, <1>5, <1>6 DEF Quiet, LoopDone, Opening, Writing, AtMain
<1>8. ThreadDone(p)' /\ OneWriter' /\ OwnDraft' /\ Kept'
  BY <1>2, <1>5, <1>6, IdleDone DEF Quiet, OneWriter, OwnDraft, Kept, BackedUp
<1>9. QED BY <1>2, <1>5, <1>7, <1>8, QuietStep

LEMMA SaveQuiet ==
  ASSUME IInv, Quiet, NEW p \in Server, Save(p)
  PROVE  Quiet'
<1> DEFINE n == Saved(main[p])
<1>1. main[p] # Idle /\ main[p] \in Requests /\ AtMain(p, "save")
  BY DEF IInv, TypeOK, Save, AtMain, Idle
<1>2. /\ \A q \in Server : q # p => main[q] = Idle
      /\ \A q \in Server : work[q] = Idle
  BY <1>1, RunsAlone DEF Quiet
<1>3. (Opening(p) /\ main[p].then = "lock") \/ (Writing(p) /\ main[p].then \in {"read", "back"})
  BY <1>1 DEF IInv, LoopRequests, AtMain, Opening, Writing, Closing
<1>4. n \in Requests /\ n.at = main[p].then /\ n.sid = main[p].sid
  BY <1>1, SavedShape, EditAssumption
<1>5. Go(p, n)
  BY DEF Save
<1> HIDE DEF n
<1>6. /\ main'[p] = n /\ work' = work /\ \A q \in Server : q # p => main'[q] = main[q]
  BY <1>4, <1>5, Went DEF IInv
<1>7. UNCHANGED <<lock, held, wrote, live, file, draft, mine, past>>
  BY DEF Save, KeepLock, Same, world
<1>8. /\ index' = index \cup {main[p].copy} /\ main[p].copy.text = file.text
  BY <1>1 DEF Quiet, LoopDone, Save
<1>9. BackedUp \subseteq BackedUp' /\ file.text \in BackedUp'
  BY <1>8 DEF BackedUp
<1>10. LoopDone(p)'
  BY <1>1, <1>3, <1>4, <1>6, <1>7, <1>9 DEF Quiet, LoopDone, Opening, Writing, AtMain
<1>11. ThreadDone(p)' /\ OneWriter' /\ OwnDraft' /\ Kept'
  BY <1>2, <1>6, <1>7, <1>9, IdleDone DEF Quiet, OneWriter, OwnDraft, Kept
<1>12. QED BY <1>2, <1>6, <1>10, <1>11, QuietStep

LEMMA WriteReadQuiet ==
  ASSUME IInv, Quiet, NEW p \in Server, WriteRead(p)
  PROVE  Quiet'
<1> DEFINE x == draft.text
           n == [main[p] EXCEPT !.at = "replace", !.text = x]
           m == [main[p] EXCEPT !.at = "pick"]
<1>1. main[p] # Idle /\ main[p] \in Requests /\ Writing(p) /\ AtMain(p, "read")
  BY DEF IInv, TypeOK, WriteRead, AtMain, Idle, Writing
<1>2. /\ \A q \in Server : q # p => main[q] = Idle
      /\ \A q \in Server : work[q] = Idle
  BY <1>1, RunsAlone DEF Quiet
<1>3. x \in Text /\ "replace" \in AllSteps /\ "pick" \in AllSteps
  BY DEF IInv, TypeOK, AllSteps, LoopSteps
<1>4. n \in Requests /\ n.at = "replace" /\ n.sid = main[p].sid /\ n.text = x
  <2> HIDE DEF x
  <2>1. QED BY <1>1, <1>3 DEF Requests, AllSteps
<1>5. m \in Requests /\ m.at = "pick" /\ m.sid = main[p].sid
  BY <1>1, <1>3, StepSet
<1>6. (Go(p, n) /\ draft.there) \/ Go(p, m)
  BY DEF WriteRead
<1> HIDE DEF n, m
<1>7. /\ work' = work /\ \A q \in Server : q # p => main'[q] = main[q]
      /\ main'[p].sid = main[p].sid
      /\ \/ main'[p].at = "replace" /\ main'[p].text = draft.text /\ draft.there
         \/ main'[p].at = "pick"
  BY <1>4, <1>5, <1>6, Went DEF IInv
<1>8. UNCHANGED <<index, lock, held, wrote, live, file, draft, mine, past>>
  BY DEF WriteRead, KeepLock, Same, world
<1>9. \A s \in held : draft.there => draft.text = mine[s]
  BY <1>2, IdleThreads DEF Quiet, OwnDraft
<1>10. LoopDone(p)'
  BY <1>1, <1>7, <1>8, <1>9 DEF Quiet, LoopDone, Opening, Writing, AtMain, BackedUp
<1>11. ThreadDone(p)' /\ OneWriter' /\ OwnDraft' /\ Kept'
  BY <1>2, <1>7, <1>8, IdleDone DEF Quiet, OneWriter, OwnDraft, Kept, BackedUp
<1>12. QED BY <1>2, <1>7, <1>10, <1>11, QuietStep

LEMMA ReplaceQuiet ==
  ASSUME IInv, Quiet, NEW p \in Server, Replace(p)
  PROVE  Quiet'
<1>1. main[p] # Idle /\ Writing(p) /\ AtMain(p, "replace")
  BY DEF Replace, AtMain, Idle, Writing
<1>2. /\ \A q \in Server : q # p => main[q] = Idle
      /\ \A q \in Server : work[q] = Idle
  BY <1>1, RunsAlone DEF Quiet
<1>3. /\ work' = work /\ \A q \in Server : q # p => main'[q] = main[q]
      /\ main'[p].sid = main[p].sid /\ main'[p].at \in {"unlock", "pick"}
  <2>1. GoTo(p, "unlock") \/ GoTo(p, "pick")
    BY DEF Replace
  <2>2. QED BY <1>1, <2>1, WentTo DEF IInv, AllSteps, LoopSteps
<1>4. UNCHANGED <<index, lock, held, wrote, live, draft, mine>>
  BY DEF Replace, KeepLock
<1>5. file.text \in BackedUp
  BY <1>1 DEF Quiet, LoopDone, AtMain
<1>6. Kept'
  BY <1>4, <1>5 DEF Quiet, Kept, BackedUp, Replace
<1>7. LoopDone(p)'
  BY <1>1, <1>3, <1>4 DEF Quiet, LoopDone, Opening, Writing, AtMain
<1>8. ThreadDone(p)' /\ OneWriter' /\ OwnDraft'
  BY <1>2, <1>3, <1>4, IdleDone DEF Quiet, OneWriter, OwnDraft
<1>9. QED BY <1>2, <1>3, <1>6, <1>7, <1>8, QuietStep

LEMMA WriteUnlockQuiet ==
  ASSUME IInv, Quiet, NEW p \in Server, WriteUnlock(p)
  PROVE  Quiet'
<1>1. main[p] # Idle /\ Writing(p) /\ main[p].sid \in live[p] /\ main[p].sid \notin wrote
  BY DEF IInv, LoopRequests, Quiet, LoopDone, WriteUnlock, AtMain, Idle, Writing
<1>2. /\ \A q \in Server : q # p => main[q] = Idle
      /\ \A q \in Server : work[q] = Idle
  BY <1>1, RunsAlone DEF Quiet
<1>3. /\ main'[p] = Idle /\ work' = work /\ \A q \in Server : q # p => main'[q] = main[q]
  BY WentIdle DEF IInv, WriteUnlock
<1>4. lock = [pid |-> p, sid |-> main[p].sid]
  BY <1>1 DEF Quiet, OneWriter
<1>5. OneWriter'
  BY <1>4 DEF Quiet, OneWriter, WriteUnlock, Same, world
<1>6. LoopDone(p)' /\ ThreadDone(p)' /\ OwnDraft' /\ Kept'
  BY <1>2, <1>3, IdleDone DEF Quiet, OwnDraft, Kept, BackedUp, WriteUnlock, Same
<1>7. QED BY <1>2, <1>3, <1>5, <1>6, QuietStep

LEMMA PickQuiet ==
  ASSUME IInv, Quiet, NEW p \in Server, Pick(p)
  PROVE  Quiet'
<1>1. main[p] # Idle /\ main[p] \in Requests /\ Writing(p)
  BY DEF IInv, TypeOK, Pick, AtMain, Idle, Writing
<1>2. /\ \A q \in Server : q # p => main[q] = Idle
      /\ \A q \in Server : work[q] = Idle
  BY <1>1, RunsAlone DEF Quiet
<1>3. /\ work' = work /\ \A q \in Server : q # p => main'[q] = main[q]
      /\ main'[p] = Idle
           \/ /\ main'[p].at = "save" /\ main'[p].then = "back" /\ main'[p].sid = main[p].sid
              /\ main'[p].seen = index /\ main'[p].copy.text = file.text
  <2>1. CASE index = {}
    BY <2>1, WentIdle DEF IInv, Pick
  <2>2. CASE index # {}
    <3>1. PICK b \in Newest : Go(p, [Copied(main[p], "back") EXCEPT !.from = b])
      BY <2>2 DEF Pick
    <3> DEFINE c == Copied(main[p], "back")
               n == [c EXCEPT !.from = b]
    <3>2. b \in Backups
      BY DEF IInv, TypeOK, Newest
    <3>3. /\ c \in Requests /\ c.at = "save" /\ c.then = "back" /\ c.sid = main[p].sid
          /\ c.seen = index /\ c.copy.text = file.text
      BY <1>1, CopiedShape DEF IInv, LoopSteps
    <3>4. Go(p, n)
      BY <3>1
    <3> HIDE DEF c
    <3>5. /\ n \in Requests /\ n.at = "save" /\ n.then = "back" /\ n.sid = main[p].sid
          /\ n.seen = index /\ n.copy.text = file.text
      BY <3>2, <3>3 DEF Requests
    <3> HIDE DEF n
    <3>6. QED BY <3>4, <3>5, Went DEF IInv
  <2>3. QED BY <2>1, <2>2
<1>4. UNCHANGED <<index, lock, held, wrote, live, file, draft, mine, past>>
  BY DEF Pick, KeepLock, Same, world
<1>5. LoopDone(p)'
  BY <1>1, <1>3, <1>4, IdleDone DEF Quiet, LoopDone, Opening, Writing, AtMain
<1>6. ThreadDone(p)' /\ OneWriter' /\ OwnDraft' /\ Kept'
  BY <1>2, <1>3, <1>4, IdleDone DEF Quiet, OneWriter, OwnDraft, Kept, BackedUp
<1>7. QED BY <1>2, <1>3, <1>5, <1>6, QuietStep

LEMMA BackQuiet ==
  ASSUME IInv, Quiet, NEW p \in Server, Back(p)
  PROVE  Quiet'
<1>1. main[p] # Idle /\ AtMain(p, "back")
  BY DEF Back, AtMain, Idle
<1>2. /\ \A q \in Server : q # p => main[q] = Idle
      /\ \A q \in Server : work[q] = Idle
  BY <1>1, RunsAlone DEF Quiet
<1>3. /\ main'[p] = Idle /\ work' = work /\ \A q \in Server : q # p => main'[q] = main[q]
  BY WentIdle DEF IInv, Back
<1>4. file.text \in BackedUp
  BY <1>1 DEF Quiet, LoopDone, AtMain
<1>5. Kept'
  BY <1>4 DEF Quiet, Kept, BackedUp, Back
<1>6. LoopDone(p)' /\ ThreadDone(p)' /\ OneWriter' /\ OwnDraft'
  BY <1>2, <1>3, IdleDone DEF Quiet, OneWriter, OwnDraft, Back, KeepLock, world
<1>7. QED BY <1>2, <1>3, <1>5, <1>6, QuietStep

LEMMA CloseQuiet ==
  ASSUME IInv, Undisturbed, ~disturbed', NEW p \in Server, Close(p)
  PROVE  Quiet'
<1> PICK s \in live[p] :
      /\ Arrives(p, FALSE)
      /\ draft' = Absent
      /\ Go(p, Request("look", s))
      /\ KeepLock
      /\ UNCHANGED <<world, file, index, mine, past>>
  BY DEF Close
<1>1. Quiet /\ \A q \in Server : main[q] = Idle /\ work[q] = Idle
  BY ArrivesAlone DEF Undisturbed
<1>2. s \in Sid
  BY DEF IInv, TypeOK
<1>3. /\ main'[p].at = "look" /\ work' = work
      /\ \A q \in Server : q # p => main'[q] = main[q]
  BY <1>2, MadeRequest, EditAssumption, Went DEF IInv, AllSteps, LoopSteps
<1>4. LoopDone(p)'
  BY <1>3 DEF LoopDone, Opening, Writing, AtMain
<1>5. ThreadDone(p)' /\ OneWriter' /\ OwnDraft' /\ Kept'
  BY <1>1, <1>3, IdleDone
    DEF Quiet, OneWriter, OwnDraft, Kept, BackedUp, KeepLock, world, Absent
<1>6. QED BY <1>1, <1>3, <1>4, <1>5, QuietStep

LEMMA CloseLookQuiet ==
  ASSUME IInv, Quiet, NEW p \in Server, CloseLook(p)
  PROVE  Quiet'
<1> DEFINE b == lock.sid \in {NoSid, main[p].sid}
           n == [main[p] EXCEPT !.at = "release", !.mine = b]
<1>1. main[p] # Idle /\ main[p] \in Requests
  BY DEF IInv, TypeOK, CloseLook, AtMain, Idle
<1>2. /\ \A q \in Server : q # p => main[q] = Idle
      /\ \A q \in Server : work[q] = Idle
  BY <1>1, RunsAlone DEF Quiet
<1>3. n \in Requests /\ n.at = "release" /\ n.sid = main[p].sid /\ (n.mine <=> b)
  <2>1. b \in BOOLEAN
    OBVIOUS
  <2> HIDE DEF b
  <2>2. QED BY <1>1, <2>1, MineSet
<1>4. Go(p, n)
  BY DEF CloseLook
<1> HIDE DEF n
<1>5. /\ main'[p] = n /\ work' = work /\ \A q \in Server : q # p => main'[q] = main[q]
  BY <1>3, <1>4, Went DEF IInv
<1>6. UNCHANGED <<index, lock, held, wrote, live, file, draft, mine, past>>
  BY DEF CloseLook, KeepLock, Same, world
<1>7. LoopDone(p)'
  BY <1>3, <1>5, <1>6 DEF LoopDone, Opening, Writing, AtMain
<1>8. ThreadDone(p)' /\ OneWriter' /\ OwnDraft' /\ Kept'
  BY <1>2, <1>5, <1>6, IdleDone DEF Quiet, OneWriter, OwnDraft, Kept, BackedUp
<1>9. QED BY <1>2, <1>5, <1>7, <1>8, QuietStep

LEMMA CloseReleaseQuiet ==
  ASSUME IInv, Quiet, NEW p \in Server, CloseRelease(p)
  PROVE  Quiet'
<1>1. /\ main[p] # Idle /\ main[p].sid \in live[p]
      /\ main[p].mine <=> lock.sid \in {NoSid, main[p].sid}
  BY DEF IInv, LoopRequests, Quiet, LoopDone, CloseRelease, AtMain, Idle, Closing
<1>2. /\ \A q \in Server : q # p => main[q] = Idle
      /\ \A q \in Server : work[q] = Idle
  BY <1>1, RunsAlone DEF Quiet
<1>3. /\ main'[p] = Idle /\ work' = work /\ \A q \in Server : q # p => main'[q] = main[q]
  BY WentIdle DEF IInv, CloseRelease
<1>4. /\ live'[p] = live[p] \ {main[p].sid} /\ \A q \in Server : q # p => live'[q] = live[q]
  BY DEF IInv, TypeOK, CloseRelease
<1>5. /\ ~main[p].mine => lock' = lock
      /\ wrote' = wrote /\ held' \subseteq held
  BY DEF CloseRelease, SetLock, KeepLock
<1>6. OneWriter'
  <2> SUFFICES ASSUME NEW q \in Server, NEW s \in live'[q], s \notin wrote'
               PROVE  lock' = [pid |-> q, sid |-> s]
    BY DEF OneWriter
  <2>1. s \in live[q] /\ lock = [pid |-> q, sid |-> s]
    BY <1>4, <1>5 DEF Quiet, OneWriter
  <2>2. s # NoSid /\ s # main[p].sid
    BY <1>1, <1>4, <2>1, EditAssumption DEF IInv, TypeOK
  <2>3. QED BY <1>1, <1>5, <2>1, <2>2
<1>7. LoopDone(p)' /\ ThreadDone(p)' /\ OwnDraft' /\ Kept'
  BY <1>2, <1>3, <1>5, IdleDone DEF Quiet, OwnDraft, Kept, BackedUp, CloseRelease
<1>8. QED BY <1>2, <1>3, <1>6, <1>7, QuietStep

LEMMA CrashQuiet ==
  ASSUME IInv, Undisturbed, ~disturbed', NEW p \in Server, Crash(p)
  PROVE  Quiet'
<1>1. Quiet /\ main[p] = Idle /\ work[p] = Idle
  BY DEF Crash, Undisturbed
<1>2. main' = main /\ work' = work
  BY <1>1 DEF IInv, TypeOK, Crash
<1>3. index' = index
  BY <1>1 DEF Crash, Idle
<1>4. \A q \in Server : live'[q] \subseteq live[q]
  BY DEF IInv, TypeOK, Crash
<1>5. UNCHANGED <<index, lock, held, wrote, file, draft, mine, past>>
  BY <1>3 DEF Crash, KeepLock
<1>6. \A q \in Server : LoopDone(q)' /\ ThreadDone(q)'
  BY <1>1, <1>2, <1>4, <1>5 DEF Quiet, LoopDone, ThreadDone, Opening, Writing, AtMain, BackedUp
<1>7. Alone' /\ OneWriter' /\ OwnDraft' /\ Kept'
  BY <1>1, <1>2, <1>4, <1>5 DEF Quiet, Alone, OneWriter, OwnDraft, Kept, BackedUp
<1>8. QED BY <1>6, <1>7 DEF Quiet

\* Nothing Quiet is about changes.
LEMMA QuietFrame ==
  ASSUME Quiet, UNCHANGED <<main, work, live, lock, held, wrote, file, draft, index, mine, past>>
  PROVE  Quiet'
BY DEF Quiet, Alone, OneWriter, OwnDraft, Kept, BackedUp, LoopDone, ThreadDone, Opening,
       Writing, AtMain

LEMMA NextQuiet ==
  ASSUME IInv, Undisturbed, [Next]_vars
  PROVE  Undisturbed'
<1> SUFFICES ASSUME ~disturbed' PROVE Quiet'
  BY DEF Undisturbed
<1>1. CASE UNCHANGED vars
  <2>1. UNCHANGED <<main, work, live, lock, held, wrote, file, draft, index, mine, past, disturbed>>
    BY <1>1 DEF vars, world, requests
  <2>2. QED BY <2>1, QuietFrame DEF Undisturbed
<1>2. ASSUME NEW p \in Server, OpenStep(p)
      PROVE  Quiet'
  <2>1. CASE OpenCheck(p)
    BY <2>1, OpenCheckQuiet
  <2>2. ~OpenCheck(p) => disturbed' = disturbed
    BY <1>2 DEF OpenStep, OpenClean, OpenDraft, OpenBackup, OpenLock, Same
  <2>3. QED
    BY <1>2, <2>1, <2>2, OpenCleanQuiet, OpenDraftQuiet, OpenBackupQuiet, OpenLockQuiet
      DEF OpenStep, Undisturbed
<1>3. ASSUME NEW p \in Server, EditStep(p)
      PROVE  Quiet'
  <2>1. CASE Edit(p)
    BY <2>1, EditQuiet
  <2>2. ~Edit(p) => disturbed' = disturbed
    BY <1>3 DEF EditStep, EditSave, EditRead, EditTruncate, EditFill, Same
  <2>3. QED
    BY <1>3, <2>1, <2>2, EditSaveQuiet, EditReadQuiet, EditTruncateQuiet, EditFillQuiet
      DEF EditStep, Undisturbed
<1>4. ASSUME NEW p \in Server, WriteStep(p)
      PROVE  Quiet'
  <2>1. CASE Write(p)
    BY <2>1, WriteQuiet
  <2>2. ~Write(p) => ~disturbed
    BY <1>4 DEF WriteStep, Preview, WriteBackup, Save, WriteRead, Replace, WriteUnlock, Pick,
                Back, Same
  <2>3. QED
    BY <1>4, <2>1, <2>2, PreviewQuiet, WriteBackupQuiet, SaveQuiet, WriteReadQuiet,
       ReplaceQuiet, WriteUnlockQuiet, PickQuiet, BackQuiet
      DEF WriteStep, Undisturbed
<1>5. ASSUME NEW p \in Server, CloseStep(p)
      PROVE  Quiet'
  <2>1. CASE Close(p)
    BY <2>1, CloseQuiet
  <2>2. ~Close(p) => disturbed' = disturbed
    BY <1>5 DEF CloseStep, CloseLook, CloseRelease, Same
  <2>3. QED BY <1>5, <2>1, <2>2, CloseLookQuiet, CloseReleaseQuiet DEF CloseStep, Undisturbed
<1>6. ASSUME NEW p \in Server, Start(p)
      PROVE  Quiet'
  BY <1>6, QuietFrame DEF Start, KeepLock, requests, Undisturbed
<1>7. QED BY <1>1, <1>2, <1>3, <1>4, <1>5, <1>6, CrashQuiet DEF Next

LEMMA InitQuiet == Init => Undisturbed
<1> SUFFICES ASSUME Init PROVE Quiet
  BY DEF Undisturbed
<1>1. \A p \in Server : LoopDone(p) /\ ThreadDone(p)
  BY IdleDone DEF Init
<1>2. past \subseteq {file.text}
  BY DEF Init
<1>3. QED BY <1>1, <1>2 DEF Init, Quiet, Alone, OneWriter, OwnDraft, Kept

LEMMA Invariance == Spec => [](IInv /\ Undisturbed)
<1>1. Init => IInv /\ Undisturbed
  BY InitInv, InitQuiet
<1>2. IInv /\ Undisturbed /\ [Next]_vars => (IInv /\ Undisturbed)'
  BY NextInv, NextQuiet
<1>3. QED BY <1>1, <1>2, PTL DEF Spec
-----------------------------------------------------------------------------
(* The variables stay in their sets, and no session is in two servers'      *)
(* registries (open_command's create_session and close_command).            *)
THEOREM EditTypeCorrect == Spec => []TypeOK
<1>1. IInv => TypeOK
  BY DEF IInv
<1>2. QED BY <1>1, Invariance, PTL

(* A lock that a running server holds names a session that server still     *)
(* has, however open, write and close of several servers interleave and     *)
(* wherever they crash (open_command, write_command, close_command).        *)
THEOREM LocksNameLive == Spec => []LockNamesLive
<1>1. IInv => LockNamesLive
  BY DEF IInv
<1>2. QED BY <1>1, Invariance, PTL

(* While requests do not overlap and none is cut short, every text the file *)
(* has had is in the file or listed among its backups (create_backup before *)
(* each replacement of the file and each restoration).                      *)
THEOREM PastIsBackedUp == Spec => []PastBackedUp
<1>1. Undisturbed => PastBackedUp
  BY DEF Undisturbed, Quiet, Kept, BackedUp, PastBackedUp
<1>2. QED BY <1>1, Invariance, PTL

LEMMA ReplacesOnly ==
  ASSUME IInv, Next, NEW p \in Server, AtMain(p, "replace"), main'[p].at = "unlock"
  PROVE  Replace(p) /\ file'.text = main[p].text
<1>1. main[p] # Idle
  BY DEF AtMain, Idle
<1>2. PICK q \in Server :
        OpenStep(q) \/ EditStep(q) \/ WriteStep(q) \/ CloseStep(q) \/ Crash(q) \/ Start(q)
  BY DEF Next
<1>3. main' # main
  BY DEF AtMain
<1>4. ~EditStep(q) /\ ~Start(q)
  BY <1>3 DEF EditStep, Edit, EditSave, EditRead, EditTruncate, EditFill, Work, Start, requests
<1>5. q = p
  <2>1. CASE Crash(q)
    BY <2>1 DEF IInv, TypeOK, Crash, AtMain
  <2>2. CASE OpenStep(q) \/ WriteStep(q) \/ CloseStep(q)
    <3>1. \E r : Go(q, r)
      BY <2>2 DEF OpenStep, OpenCheck, OpenClean, OpenDraft, OpenBackup, OpenLock, WriteStep,
         Write, Preview, WriteBackup, Save, WriteRead, Replace, WriteUnlock, Pick, Back,
         CloseStep, Close, CloseLook, CloseRelease, GoTo, Done
    <3>2. QED BY <3>1 DEF IInv, TypeOK, Go, AtMain
  <2>3. QED BY <1>2, <1>4, <2>1, <2>2
<1>6. ~Crash(p)
  BY DEF IInv, TypeOK, Crash, Idle
<1>7. ~OpenStep(p) /\ ~CloseStep(p)
  BY <1>1 DEF OpenStep, OpenCheck, OpenClean, OpenDraft, OpenBackup, OpenLock, CloseStep, Close,
     CloseLook, CloseRelease, Arrives, AtMain
<1>8. WriteStep(p) => Replace(p)
  BY <1>1 DEF WriteStep, Write, Preview, WriteBackup, Save, WriteRead, WriteUnlock, Pick, Back,
     Arrives, AtMain
<1>9. ASSUME Replace(p), GoTo(p, "pick")
      PROVE  FALSE
  BY <1>1, <1>9, WentTo DEF IInv, AllSteps, LoopSteps
<1>10. QED BY <1>2, <1>4, <1>5, <1>6, <1>7, <1>8, <1>9 DEF Replace

(* A session that has had the lock since it opened replaces the file with   *)
(* its own edits, applied in turn to the text it opened, as long as no      *)
(* request overlaps another or is cut short (check_lock of open_command,    *)
(* and write_command's two calls).                                          *)
THEOREM PublishesOwnEdits == Spec => OwnEditsPublished
<1>1. ASSUME IInv, Undisturbed, [Next]_vars, NEW p \in Server,
             AtMain(p, "replace"), main'[p].at = "unlock", main[p].sid \in held, ~disturbed
      PROVE  file'.text = mine[main[p].sid]
  <2>1. Next
    BY <1>1 DEF vars, requests, AtMain
  <2>2. QED BY <1>1, <2>1, ReplacesOnly DEF Undisturbed, Quiet, LoopDone
<1>2. IInv /\ Undisturbed /\ [Next]_vars =>
        [\A p \in Server :
           (AtMain(p, "replace") /\ main'[p].at = "unlock" /\ main[p].sid \in held /\ ~disturbed)
             => file'.text = mine[main[p].sid]]_vars
  BY <1>1
<1>3. QED BY <1>2, Invariance, PTL DEF Spec, OwnEditsPublished
=============================================================================
