------------------------- MODULE BufferSync_proofs -------------------------
(***************************************************************************)
(* Proofs about BufferSync, for every set of buffers, paths and edits.     *)
(*                                                                         *)
(* Every command gives a buffer its new settings in one of a few ways:     *)
(* NextEntry lists them once, and what is true of the entry of a single    *)
(* buffer follows from that list.  What relates the entries to each other, *)
(* to the locks and to the stored files is LockDiscipline, which is        *)
(* inductive for a client that keeps its locks.                            *)
(***************************************************************************)
EXTENDS BufferSync, TLAPS

\* The entry of a buffer that enters the session.
Entered(b, e) ==
  /\ b \notin Open
  /\ \/ \E p \in DOMAIN stored, readonly \in BOOLEAN : e = Opened(p, readonly)
     \/ \E t \in Text : e = Created(b, t)

\* The entry an upload of b to p leaves.
Uploaded(b, e) ==
  \E p \in Path, q \in Path, lock \in BOOLEAN :
    \/ /\ Remote(b)
       /\ e \in {[Sent(buffers[b], p) EXCEPT !.lock = lock],
                 [Sent(buffers[b], p) EXCEPT !.saved = buffers[b].saved]}
    \/ e \in {[Sent(Bound(b, q), p) EXCEPT !.lock = lock], Sent(Bound(b, q), p)}

\* The entry of an open buffer after a command.
Changed(b, e) ==
  /\ b \in Open
  /\ \/ e = buffers[b]
     \/ \E t \in Text : e = Edited(b, t) \/ e = Cut(b, t)
     \/ /\ "undo" \in Api
        /\ \E t \in buffers[b].past : e = Undone(b, t)
     \/ /\ buffers[b].path \in DOMAIN stored
        /\ \/ e = Reloaded(b, stored[buffers[b].path])
           \/ e = Fetched(b, stored[buffers[b].path])
     \/ e = Seen(b)
     \/ \E p \in Path : ~Remote(b) /\ e = Bound(b, p)
     \/ Uploaded(b, e)

-----------------------------------------------------------------------------
(* What a step does to one entry.                                          *)

\* A command that puts an entry under b touches the entry of no other buffer.
LEMMA PutEntry ==
  ASSUME NEW b, NEW e, NEW x, buffers' = Put(buffers, b, e), x \in Open'
  PROVE  \/ x = b /\ buffers'[x] = e
         \/ x \in Open /\ buffers'[x] = buffers[x]
BY DEF Put, Open

LEMMA UpdateEntry ==
  ASSUME NEW b \in Open, NEW e, NEW x, Update(b, e), x \in Open'
  PROVE  /\ x \in Open
         /\ IF x = b THEN buffers'[x] = e ELSE buffers'[x] = buffers[x]
BY DEF Update, Open

\* An upload goes to a path.
LEMMA TargetType ==
  ASSUME TypeOK, NEW b \in Open, Remote(b)
  PROVE  Target(b) \in Path
BY DEF TypeOK, Target, Remote, Entry, Open

LEMMA UploadsEntry ==
  ASSUME TypeOK, Uploads, NEW x \in Open'
  PROVE  Changed(x, buffers'[x])
<1>1. PICK b \in Buffer, choice \in BOOLEAN :
        \/ SaveBuffer(b, choice)
        \/ WriteAllBuffer(b, choice)
        \/ \E p \in Path : \/ BindAndSave(b, p, choice)
                           \/ SaveAs(b, p, choice)
                           \/ CrashInUpload(b, p, choice)
  BY DEF Uploads
<1>2. b \in Open
  BY <1>1 DEF SaveBuffer, WriteAllBuffer, BindAndSave, SaveAs, CrashInUpload
<1>3. buffers[b] \in Entry
  BY <1>2 DEF TypeOK
<1>4. ASSUME NEW e, Update(b, e), Uploaded(b, e) \/ e = Seen(b)
      PROVE  Changed(x, buffers'[x])
  <2>1. x \in Open /\ IF x = b THEN buffers'[x] = e ELSE buffers'[x] = buffers[x]
    BY <1>2, <1>4, UpdateEntry
  <2>2. QED BY <1>4, <2>1 DEF Changed
<1>5. CASE SaveBuffer(b, choice)
  <2>1. Target(b) \in Path
    BY <1>2, <1>5, TargetType DEF SaveBuffer
  <2>2. Update(b, [Sent(buffers[b], Target(b)) EXCEPT !.lock = @ /\ ~choice])
    BY <1>5 DEF SaveBuffer, SaveTo
  <2>3. (Sent(buffers[b], Target(b)).lock /\ ~choice) \in BOOLEAN
    OBVIOUS
  <2>4. Uploaded(b, [Sent(buffers[b], Target(b)) EXCEPT !.lock = @ /\ ~choice])
    BY <1>5, <2>1, <2>3 DEF Uploaded, SaveBuffer
  <2>5. QED BY <1>4, <2>2, <2>4
<1>6. CASE WriteAllBuffer(b, choice)
  <2>1. Target(b) \in Path
    BY <1>2, <1>6, TargetType DEF WriteAllBuffer
  <2>2. Update(b, [Sent(buffers[b], Target(b)) EXCEPT !.saved = buffers[b].saved])
    BY <1>6 DEF WriteAllBuffer
  <2>3. Uploaded(b, [Sent(buffers[b], Target(b)) EXCEPT !.saved = buffers[b].saved])
    BY <1>6, <2>1 DEF Uploaded, WriteAllBuffer
  <2>4. QED BY <1>4, <2>2, <2>3
<1>7. ASSUME NEW p \in Path, BindAndSave(b, p, choice) PROVE Changed(x, buffers'[x])
  <2>1. Update(b, [Sent(Bound(b, p), p) EXCEPT !.lock = @ /\ ~choice])
    BY <1>7 DEF BindAndSave, SaveTo
  <2>2. (Sent(Bound(b, p), p).lock /\ ~choice) \in BOOLEAN
    OBVIOUS
  <2>3. Uploaded(b, [Sent(Bound(b, p), p) EXCEPT !.lock = @ /\ ~choice])
    BY <2>2 DEF Uploaded
  <2>4. QED BY <1>4, <2>1, <2>3
<1>8. ASSUME NEW p \in Path, SaveAs(b, p, choice) PROVE Changed(x, buffers'[x])
  <2>1. SaveAsTarget(b, p) \in Path
    BY <1>3 DEF SaveAsTarget, Entry
  <2>2. Update(b, Sent(Bound(b, p), SaveAsTarget(b, p)))
    BY <1>8 DEF SaveAs, SavedAs
  <2>3. Uploaded(b, Sent(Bound(b, p), SaveAsTarget(b, p)))
    BY <2>1 DEF Uploaded
  <2>4. QED BY <1>4, <2>2, <2>3
<1>9. ASSUME NEW p \in Path, CrashInUpload(b, p, choice) PROVE Changed(x, buffers'[x])
  BY <1>4, <1>9 DEF CrashInUpload
<1>10. QED BY <1>1, <1>5, <1>6, <1>7, <1>8, <1>9

\* Every entry after a step is the entry of a buffer that entered the session,
\* or what one command makes of the entry the buffer had.
LEMMA NextEntry ==
  ASSUME TypeOK, [Next]_vars, NEW x \in Open'
  PROVE  Entered(x, buffers'[x]) \/ Changed(x, buffers'[x])
<1>1. CASE UNCHANGED buffers
  BY <1>1 DEF Changed, Open
<1>2. CASE Enter
  <2>1. ASSUME NEW b \in Buffer, NEW p \in Path, NEW readonly \in BOOLEAN,
               b \notin Open, p \in DOMAIN stored,
               buffers' = Put(buffers, b, Opened(p, readonly))
        PROVE  Entered(x, buffers'[x]) \/ Changed(x, buffers'[x])
    BY <2>1, PutEntry DEF Entered, Changed
  <2>2. ASSUME NEW b \in Buffer, NewBuffer(b)
        PROVE  Entered(x, buffers'[x]) \/ Changed(x, buffers'[x])
    BY <2>2, PutEntry DEF NewBuffer, Entered, Changed
  <2>3. ASSUME NEW p \in Path, OpenUnparsable(p) PROVE UNCHANGED buffers
    BY <2>3 DEF OpenUnparsable
  <2>4. QED BY <1>1, <1>2, <2>1, <2>2, <2>3 DEF Enter, OpenBuffer, OpenConflict
<1>3. CASE Leave
  <2>1. ASSUME NEW b \in Buffer, NEW force \in BOOLEAN, CloseBuffer(b, force)
        PROVE  Changed(x, buffers'[x])
    BY <2>1 DEF CloseBuffer, Without, Changed, Open
  <2>2. ASSUME NEW force \in BOOLEAN, CloseSession(force) PROVE FALSE
    BY <2>2 DEF CloseSession, Open
  <2>3. QED BY <1>1, <1>3, <2>1, <2>2 DEF Leave, StartupSweep
<1>4. CASE Edits
  <2>1. ASSUME NEW b \in Open, NEW e, Update(b, e), Changed(b, e)
        PROVE  Changed(x, buffers'[x])
    BY <2>1, UpdateEntry DEF Changed
  <2>2. ASSUME NEW b \in Buffer, Mutate(b) PROVE Changed(x, buffers'[x])
    BY <2>1, <2>2 DEF Mutate, Changed
  <2>3. ASSUME NEW b \in Buffer, UndoRedo(b) PROVE Changed(x, buffers'[x])
    BY <2>1, <2>3 DEF UndoRedo, Changed
  <2>4. ASSUME NEW b \in Buffer, Reload(b) PROVE Changed(x, buffers'[x])
    BY <2>1, <2>4 DEF Reload, Changed
  <2>5. ASSUME NEW b \in Buffer, CrashInMutate(b) PROVE Changed(x, buffers'[x])
    BY <2>1, <2>5 DEF CrashInMutate, Changed
  <2>6. ASSUME NEW b \in Buffer, CrashInReload(b) PROVE Changed(x, buffers'[x])
    BY <2>1, <2>6 DEF CrashInReload, Changed
  <2>7. QED BY <1>4, <2>2, <2>3, <2>4, <2>5, <2>6 DEF Edits
<1>5. CASE Binds
  BY <1>5, UpdateEntry DEF Binds, BindOnly, Changed
<1>6. CASE Others
  BY <1>1, <1>6 DEF Others, OtherLock, OtherWrite, OtherUnlock
<1>7. CASE Uploads
  BY <1>7, UploadsEntry
<1>8. QED BY <1>1, <1>2, <1>3, <1>4, <1>5, <1>6, <1>7 DEF Next, vars

-----------------------------------------------------------------------------
(* Type correctness.                                                       *)

LEMMA EnteredType ==
  ASSUME TypeOK, NEW b \in Buffer, NEW e, Entered(b, e)
  PROVE  e \in Entry
<1>1. ASSUME NEW p \in DOMAIN stored, NEW readonly \in BOOLEAN, e = Opened(p, readonly)
      PROVE  e \in Entry
  <2>1. p \in Path /\ stored[p] \in Text
    BY <1>1 DEF TypeOK
  <2>2. QED BY <1>1, <2>1 DEF Opened, Entry
<1>2. ASSUME NEW t \in Text, e = Created(b, t) PROVE e \in Entry
  BY <1>2 DEF Created, Local, Entry
<1>3. QED BY <1>1, <1>2 DEF Entered

\* An upload keeps an entry well typed: it changes file_id and path to paths,
\* two flags, and the last exchanged text to the buffer's own.
LEMMA UploadedType ==
  ASSUME TypeOK, NEW b \in Open, NEW e, Uploaded(b, e)
  PROVE  e \in Entry
<1>1. buffers[b] \in Entry
  BY DEF TypeOK
<1>2. PICK p \in Path, q \in Path, lock \in BOOLEAN :
        e \in {[Sent(buffers[b], p) EXCEPT !.lock = lock],
               [Sent(Bound(b, q), p) EXCEPT !.lock = lock],
               Sent(Bound(b, q), p),
               [Sent(buffers[b], p) EXCEPT !.saved = buffers[b].saved]}
  BY DEF Uploaded
<1>3. Bound(b, q) \in Entry
  BY <1>1 DEF Bound, Entry
<1>4. ASSUME NEW d \in Entry PROVE Sent(d, p) \in Entry
  BY <1>4 DEF Sent, Entry
<1>5. ASSUME NEW d \in Entry, NEW l \in BOOLEAN
      PROVE  [d EXCEPT !.lock = l] \in Entry /\ [d EXCEPT !.saved = l] \in Entry
  BY <1>5 DEF Entry
<1>6. buffers[b].saved \in BOOLEAN
  BY <1>1 DEF Entry
<1>7. Sent(buffers[b], p) \in Entry /\ Sent(Bound(b, q), p) \in Entry
  BY <1>1, <1>3, <1>4
<1>8. QED BY <1>2, <1>5, <1>6, <1>7

LEMMA ChangedType ==
  ASSUME TypeOK, NEW b, NEW e, Changed(b, e)
  PROVE  e \in Entry
<1>1. b \in Open /\ buffers[b] \in Entry
  BY DEF Changed, TypeOK
<1>2. buffers[b].text \in Text
  BY <1>1 DEF Entry
<1>3. ASSUME NEW t \in Text, e = Edited(b, t) \/ e = Cut(b, t) PROVE e \in Entry
  <2>1. t \in Text
    BY <1>3
  <2>2. Edited(b, t) \in Entry
    BY <1>1, <1>2, <2>1 DEF Edited, Entry
  <2>3. Cut(b, t) \in Entry
    BY <1>1, <1>2, <2>1 DEF Cut, Entry
  <2>4. QED BY <1>3, <2>2, <2>3
<1>4. ASSUME NEW t \in buffers[b].past, e = Undone(b, t) PROVE e \in Entry
  BY <1>1, <1>4 DEF Undone, Entry
<1>5. ASSUME buffers[b].path \in DOMAIN stored,
             \/ e = Reloaded(b, stored[buffers[b].path])
             \/ e = Fetched(b, stored[buffers[b].path])
      PROVE  e \in Entry
  <2>1. stored[buffers[b].path] \in Text
    BY <1>5 DEF TypeOK
  <2>2. \A t \in Text : Reloaded(b, t) \in Entry
    BY <1>1, <1>2 DEF Reloaded, Entry
  <2>3. \A t \in Text : Fetched(b, t) \in Entry
    BY <1>1, <1>2 DEF Fetched, Entry
  <2>4. QED BY <1>5, <2>1, <2>2, <2>3
<1>6. ASSUME NEW p \in Path, e = Bound(b, p) PROVE e \in Entry
  BY <1>1, <1>6 DEF Bound, Entry
<1>7. e = Seen(b) => e \in Entry
  BY <1>1, <1>2 DEF Seen, Entry
<1>8. QED BY <1>1, <1>3, <1>4, <1>5, <1>6, <1>7, UploadedType DEF Changed

\* A step leaves the buffers alone, puts one in, replaces the entry of one,
\* takes one out or takes out all.
LEMMA NextShape ==
  ASSUME [Next]_vars
  PROVE  \/ UNCHANGED buffers
         \/ \E b \in Buffer : \E e : buffers' = Put(buffers, b, e)
         \/ \E b \in Buffer : \E e : Update(b, e)
         \/ \E b \in Buffer : buffers' = Without(buffers, b)
         \/ buffers' = <<>>
<1>1. CASE Others \/ UNCHANGED vars
  BY <1>1 DEF Others, OtherLock, OtherWrite, OtherUnlock, vars
<1>2. CASE Enter
  BY <1>2 DEF Enter, OpenUnparsable, NewBuffer, OpenConflict, OpenBuffer
<1>3. CASE Leave
  BY <1>3 DEF Leave, StartupSweep, CloseSession, CloseBuffer
<1>4. CASE Edits
  BY <1>4 DEF Edits, UndoRedo, Reload, Mutate, CrashInMutate, CrashInReload
<1>5. CASE Uploads
  <2>1. PICK b \in Buffer, choice \in BOOLEAN :
          \/ SaveBuffer(b, choice)
          \/ WriteAllBuffer(b, choice)
          \/ \E p \in Path : \/ BindAndSave(b, p, choice)
                             \/ SaveAs(b, p, choice)
                             \/ CrashInUpload(b, p, choice)
    BY <1>5 DEF Uploads
  <2>2. \E e : Update(b, e)
    BY <2>1 DEF SaveBuffer, WriteAllBuffer, BindAndSave, SaveAs, SaveTo, CrashInUpload
  <2>3. QED BY <2>2
<1>6. CASE Binds
  BY <1>6 DEF Binds, BindOnly
<1>7. QED BY <1>1, <1>2, <1>3, <1>4, <1>5, <1>6 DEF Next

\* Only buffers are ever open, and each has an entry.
LEMMA NextOpen ==
  ASSUME TypeOK, [Next]_vars
  PROVE  Open' \subseteq Buffer /\ buffers' \in [Open' -> Entry]
<1>1. Open' \subseteq Buffer /\ buffers' = [x \in Open' |-> buffers'[x]]
  <2>1. Open \subseteq Buffer /\ buffers = [x \in Open |-> buffers[x]]
    BY DEF TypeOK
  <2>2. CASE \E b \in Buffer : \E e : buffers' = Put(buffers, b, e)
    BY <2>1, <2>2 DEF Put, Open
  <2>3. CASE \E b \in Buffer : \E e : Update(b, e)
    BY <2>1, <2>3 DEF Update, Open
  <2>4. CASE \E b \in Buffer : buffers' = Without(buffers, b)
    BY <2>1, <2>4 DEF Without, Open
  <2>5. CASE buffers' = <<>>
    BY <2>5 DEF Open
  <2>6. CASE UNCHANGED buffers
    BY <2>1, <2>6 DEF Open
  <2>7. QED BY <2>2, <2>3, <2>4, <2>5, <2>6, NextShape
<1>2. ASSUME NEW x \in Open' PROVE buffers'[x] \in Entry
  BY <1>1, <1>2, NextEntry, EnteredType, ChangedType
<1>3. QED BY <1>1, <1>2

\* What the server does keeps its files and locks well typed.
LEMMA PutStored ==
  ASSUME TypeOK, NEW p \in Path, NEW t \in Text
  PROVE  /\ DOMAIN Put(stored, p, t) \subseteq Path
         /\ Put(stored, p, t) \in [DOMAIN Put(stored, p, t) -> Text]
BY DEF TypeOK, Put

LEMMA UnlockedType ==
  ASSUME TypeOK, NEW ps
  PROVE  Unlocked(ps) \in [Path -> {"none", "editor", "other"}]
BY DEF TypeOK, Unlocked

LEMMA UploadStored ==
  ASSUME TypeOK, NEW b \in Open, NEW p \in Path, Upload(b, p)
  PROVE  DOMAIN stored' \subseteq Path /\ stored' \in [DOMAIN stored' -> Text]
<1>1. buffers[b].text \in Text
  BY DEF TypeOK, Entry
<1>2. QED BY <1>1, PutStored DEF Upload

LEMMA UploadsStored ==
  ASSUME TypeOK, Uploads
  PROVE  /\ DOMAIN stored' \subseteq Path /\ stored' \in [DOMAIN stored' -> Text]
         /\ lockOf' \in [Path -> {"none", "editor", "other"}]
         /\ sessionReadonly' \in BOOLEAN
<1>1. PICK b \in Buffer, choice \in BOOLEAN :
        \/ SaveBuffer(b, choice)
        \/ WriteAllBuffer(b, choice)
        \/ \E p \in Path : \/ BindAndSave(b, p, choice)
                           \/ SaveAs(b, p, choice)
                           \/ CrashInUpload(b, p, choice)
  BY DEF Uploads
<1>2. b \in Open /\ buffers[b] \in Entry
  BY <1>1 DEF SaveBuffer, WriteAllBuffer, BindAndSave, SaveAs, CrashInUpload, TypeOK
<1>3. ASSUME Remote(b) PROVE Target(b) \in Path
  BY <1>2, <1>3, TargetType
<1>4. PICK q \in Path : Upload(b, q)
  BY <1>1, <1>2, <1>3
     DEF SaveBuffer, WriteAllBuffer, BindAndSave, SaveAs, SaveAsTarget, SaveTo,
         CrashInUpload, Entry
<1>5. /\ \/ \E q2 \in Path : lockOf' = Unlocked({q2})
         \/ UNCHANGED lockOf
      /\ UNCHANGED sessionReadonly
  BY <1>1, <1>3
     DEF SaveBuffer, WriteAllBuffer, BindAndSave, SaveAs, SaveTo, CrashInUpload,
         LockAfterSave
<1>6. QED BY <1>2, <1>4, <1>5, UploadStored, UnlockedType DEF TypeOK

LEMMA NextType ==
  ASSUME TypeOK, [Next]_vars
  PROVE  TypeOK'
<1>1. Open' \subseteq Buffer /\ buffers' \in [Open' -> Entry]
  BY NextOpen
<1>2. /\ DOMAIN stored' \subseteq Path /\ stored' \in [DOMAIN stored' -> Text]
      /\ lockOf' \in [Path -> {"none", "editor", "other"}]
      /\ sessionReadonly' \in BOOLEAN
  <2>1. CASE Others
    <3>1. PICK p \in Path : OtherLock(p) \/ OtherWrite(p) \/ OtherUnlock(p)
      BY <2>1 DEF Others
    <3>2. CASE OtherWrite(p)
      BY <3>2, PutStored DEF OtherWrite, TypeOK
    <3>3. CASE OtherLock(p) \/ OtherUnlock(p)
      BY <3>3 DEF OtherLock, OtherUnlock, TypeOK
    <3>4. QED BY <3>1, <3>2, <3>3
  <2>2. CASE Enter
    BY <2>2 DEF Enter, OpenUnparsable, NewBuffer, OpenConflict, OpenBuffer,
                LockTaken, TypeOK
  <2>3. CASE Leave
    BY <2>3, UnlockedType DEF Leave, StartupSweep, CloseSession, CloseBuffer, TypeOK
  <2>4. CASE Edits \/ Binds \/ UNCHANGED vars
    BY <2>4 DEF Edits, UndoRedo, Reload, Mutate, CrashInMutate, CrashInReload,
                Binds, BindOnly, TypeOK, vars
  <2>5. CASE Uploads
    BY <2>5, UploadsStored
  <2>6. QED BY <2>1, <2>2, <2>3, <2>4, <2>5 DEF Next
<1>3. QED BY <1>1, <1>2 DEF TypeOK, Open

\* Every command and every fault keeps the settings, the files and the locks
\* in the shapes the code reads back.
THEOREM SyncTypeCorrect == Spec => []TypeOK
<1>1. Init => TypeOK
  BY DEF Init, TypeOK, Open
<1>2. TypeOK /\ [Next]_vars => TypeOK'
  BY NextType
<1>3. QED BY <1>1, <1>2, PTL DEF Spec

-----------------------------------------------------------------------------
(* What holds of the entry of each buffer alone.                           *)

\* What an upload leaves in an entry.
LEMMA UploadedEntry ==
  ASSUME TypeOK, NEW b \in Open, NEW e, Uploaded(b, e)
  PROVE  /\ e.path # NoPath /\ ~e.modified
         /\ e.text \in e.base
<1>1. buffers[b] \in Entry
  BY DEF TypeOK
<1>2. PICK p \in Path, q \in Path, lock \in BOOLEAN :
        \/ /\ Remote(b)
           /\ e \in {[Sent(buffers[b], p) EXCEPT !.lock = lock],
                     [Sent(buffers[b], p) EXCEPT !.saved = buffers[b].saved]}
        \/ e \in {[Sent(Bound(b, q), p) EXCEPT !.lock = lock], Sent(Bound(b, q), p)}
  BY DEF Uploaded
<1>3. Bound(b, q) \in Entry /\ Bound(b, q).path # NoPath
  BY <1>1, NoPathAssumption DEF Bound, Entry
<1>4. ASSUME NEW d \in Entry, d.path # NoPath
      PROVE  /\ Sent(d, p) \in Entry /\ Sent(d, p).path # NoPath
             /\ ~Sent(d, p).modified /\ Sent(d, p).text \in Sent(d, p).base
  BY <1>4 DEF Sent, Entry
<1>5. ASSUME NEW d \in Entry, NEW l,
             e = [d EXCEPT !.lock = l] \/ e = [d EXCEPT !.saved = l]
      PROVE  /\ e.path = d.path /\ e.modified = d.modified
             /\ e.text = d.text /\ e.base = d.base
  BY <1>5 DEF Entry
<1>6. \E d \in Entry :
        /\ d.path # NoPath /\ ~d.modified /\ d.text \in d.base
        /\ \/ e = d
           \/ \E l : e = [d EXCEPT !.lock = l] \/ e = [d EXCEPT !.saved = l]
  <2>1. CASE Remote(b) /\ e = [Sent(buffers[b], p) EXCEPT !.lock = lock]
    BY <1>1, <1>4, <2>1 DEF Remote
  <2>2. CASE Remote(b) /\ e = [Sent(buffers[b], p) EXCEPT !.saved = buffers[b].saved]
    BY <1>1, <1>4, <2>2 DEF Remote
  <2>3. CASE e = [Sent(Bound(b, q), p) EXCEPT !.lock = lock] \/ e = Sent(Bound(b, q), p)
    BY <1>3, <1>4, <2>3
  <2>4. QED BY <1>2, <2>1, <2>2, <2>3
<1>7. QED BY <1>5, <1>6

\* No command leaves a local or a modified buffer recorded as saved.
LEMMA SavedKept ==
  ASSUME TypeOK, SavedMeansSent, NEW b, NEW e, Entered(b, e) \/ Changed(b, e)
  PROVE  e.saved => e.path # NoPath /\ ~e.modified
<1>1. CASE Entered(b, e)
  <2>1. DOMAIN stored \subseteq Path
    BY DEF TypeOK
  <2>2. QED BY <1>1, <2>1, NoPathAssumption DEF Entered, Opened, Created, Local
<1>2. CASE Changed(b, e)
  <2>1. b \in Open /\ buffers[b] \in Entry
    BY <1>2 DEF Changed, TypeOK
  <2>2. buffers[b].saved => buffers[b].path # NoPath /\ ~buffers[b].modified
    BY <2>1 DEF SavedMeansSent, Remote
  <2>3. ASSUME NEW t \in Text, e = Edited(b, t) PROVE ~e.saved
    BY <2>1, <2>2, <2>3 DEF Edited, Entry, Remote
  <2>4. ASSUME NEW t, e = Undone(b, t) \/ e = Cut(b, t) \/ e = Seen(b)
        PROVE  e.saved => e.path # NoPath /\ ~e.modified
    BY <2>1, <2>2, <2>4 DEF Undone, Cut, Seen, Entry
  <2>5. ASSUME NEW t, e = Reloaded(b, t) \/ e = Fetched(b, t)
        PROVE  e.saved => e.path # NoPath /\ ~e.modified
    BY <2>1, <2>2, <2>5 DEF Reloaded, Fetched, Entry
  <2>6. ASSUME NEW p \in Path, ~Remote(b), e = Bound(b, p) PROVE ~e.saved
    BY <2>1, <2>2, <2>6 DEF Bound, Entry, Remote
  <2>7. ASSUME Uploaded(b, e) PROVE e.path # NoPath /\ ~e.modified
    BY <2>1, <2>7, UploadedEntry
  <2>8. QED BY <1>2, <2>2, <2>3, <2>4, <2>5, <2>6, <2>7 DEF Changed
<1>3. QED BY <1>1, <1>2

LEMMA SavedInvariant == Spec => [](TypeOK /\ SavedMeansSent)
<1>1. Init => TypeOK /\ SavedMeansSent
  BY DEF Init, TypeOK, SavedMeansSent, Open
<1>2. TypeOK /\ SavedMeansSent /\ [Next]_vars => (TypeOK /\ SavedMeansSent)'
  <2>1. ASSUME TypeOK, SavedMeansSent, [Next]_vars, NEW x \in Open'
        PROVE  (buffers[x].saved => Remote(x) /\ ~buffers[x].modified)'
    BY <2>1, NextEntry, SavedKept DEF Remote
  <2>2. QED BY <2>1, NextType DEF SavedMeansSent
<1>3. QED BY <1>1, <1>2, PTL DEF Spec

\* Whatever commands run and whichever faults occur, the two flags file_close
\* reads agree about unsent edits.
THEOREM SavedIsSent == Spec => []SavedMeansSent
BY SavedInvariant, PTL

\* Without undo no command forgets that the text has edits to send.
LEMMA ModifiedKept ==
  ASSUME TypeOK, ModifiedCoversEdits, "undo" \notin Api, NEW b, NEW e,
         Entered(b, e) \/ Changed(b, e)
  PROVE  e.text \notin e.base => e.modified \/ e.cut
<1>1. CASE Entered(b, e)
  BY <1>1 DEF Entered, Opened, Created, Local
<1>2. CASE Changed(b, e)
  <2>1. b \in Open /\ buffers[b] \in Entry
    BY <1>2 DEF Changed, TypeOK
  <2>2. buffers[b].text \notin buffers[b].base => buffers[b].modified \/ buffers[b].cut
    BY <2>1 DEF ModifiedCoversEdits
  <2>3. ASSUME NEW t \in Text, e = Edited(b, t) \/ e = Cut(b, t)
        PROVE  e.modified \/ e.cut
    BY <2>1, <2>3 DEF Edited, Cut, Entry
  <2>4. ASSUME NEW t, e = Reloaded(b, t) \/ e = Fetched(b, t) \/ e = Seen(b)
        PROVE  e.text \in e.base
    BY <2>1, <2>4 DEF Reloaded, Fetched, Seen, Entry
  <2>5. ASSUME NEW p \in Path, e = Bound(b, p)
        PROVE  e.text \notin e.base => e.modified \/ e.cut
    BY <2>1, <2>2, <2>5 DEF Bound, Entry
  <2>6. ASSUME Uploaded(b, e) PROVE e.text \in e.base
    BY <2>1, <2>6, UploadedEntry
  <2>7. QED BY <1>2, <2>2, <2>3, <2>4, <2>5, <2>6 DEF Changed
<1>3. QED BY <1>1, <1>2

LEMMA ModifiedInvariant ==
  ASSUME "undo" \notin Api
  PROVE  Spec => [](TypeOK /\ ModifiedCoversEdits)
<1>1. Init => TypeOK /\ ModifiedCoversEdits
  BY DEF Init, TypeOK, ModifiedCoversEdits, Open
<1>2. TypeOK /\ ModifiedCoversEdits /\ [Next]_vars => (TypeOK /\ ModifiedCoversEdits)'
  <2>1. ASSUME TypeOK, ModifiedCoversEdits, [Next]_vars, NEW x \in Open'
        PROVE  (buffers[x].text \notin buffers[x].base =>
                  buffers[x].modified \/ buffers[x].cut)'
    BY <2>1, NextEntry, ModifiedKept
  <2>2. QED BY <2>1, NextType DEF ModifiedCoversEdits
<1>3. QED BY <1>1, <1>2, PTL DEF Spec

\* Without undo, the modified flag covers every edit the server has not seen, but
\* for a text whose flags a crash kept from being written.
THEOREM EditsCovered ==
  ASSUME "undo" \notin Api
  PROVE  Spec => []ModifiedCoversEdits
BY ModifiedInvariant, PTL

\* Without undo, a close that is not forced drops no edit of a buffer it guards,
\* but for a text whose flags a crash kept from being written.
THEOREM CloseKeepsEdits ==
  ASSUME "undo" \notin Api
  PROVE  Spec => UnforcedCloseKeepsEdits
<1>1. ASSUME TypeOK, ModifiedCoversEdits, SavedMeansSent
      PROVE  /\ \A b \in Buffer :
                  CloseBuffer(b, FALSE) /\ Remote(b) /\ ~buffers[b].readonly =>
                    Droppable(b)
             /\ CloseSession(FALSE) =>
                  \A b \in Open : ~buffers[b].readonly => Droppable(b)
  BY <1>1 DEF Droppable, ModifiedCoversEdits, SavedMeansSent, CloseBuffer, CloseRefused,
              CloseSession, SessionCloseRefused
<1>2. QED BY <1>1, SavedInvariant, ModifiedInvariant, PTL
          DEF UnforcedCloseKeepsEdits, Spec

-----------------------------------------------------------------------------
(* Locks, for a client that keeps each lock until it closes the buffer and *)
(* saves a buffer only under the path it was opened with, when no open     *)
(* fails half way and the editor does not restart.                         *)

KeepsLocks == Api \subseteq {"undo", "reload", "write_all"}

\* A command that leaves the file and the lock recorded for x alone.
Steady(x) ==
  /\ buffers'[x].path = buffers[x].path /\ buffers'[x].fid = buffers[x].fid
  /\ buffers'[x].lock = buffers[x].lock /\ buffers'[x].readonly = buffers[x].readonly

\* The discipline survives a step that opens nothing and moves no record, when
\* the recorded locks stay fresh.
LEMMA SteadyDiscipline ==
  ASSUME LockDiscipline, Open' \subseteq Open,
         \A x \in Open' : Steady(x) /\ (buffers[x].lock => FreshLock(x)')
  PROVE  LockDiscipline'
BY DEF LockDiscipline, Steady, Remote

\* A recorded lock is one of a project path.
LEMMA LockedPath ==
  ASSUME TypeOK, LockDiscipline, NEW x \in Open, buffers[x].lock
  PROVE  buffers[x].path \in Path /\ Remote(x) /\ FreshLock(x)
<1>1. FreshLock(x)
  BY DEF LockDiscipline
<1>2. buffers[x].path \in Path
  BY <1>1 DEF FreshLock, TypeOK
<1>3. QED BY <1>1, <1>2, NoPathAssumption DEF Remote

\* What other sessions do leaves the files the editor has locked alone.
LEMMA OthersDiscipline ==
  ASSUME TypeOK, LockDiscipline, Others
  PROVE  LockDiscipline'
<1>1. UNCHANGED buffers
  BY DEF Others, OtherLock, OtherWrite, OtherUnlock
<1>2. ASSUME NEW p \in DOMAIN stored, lockOf[p] = "editor"
      PROVE  p \in DOMAIN stored' /\ lockOf'[p] = "editor" /\ stored'[p] = stored[p]
  BY <1>2 DEF Others, OtherLock, OtherWrite, OtherUnlock, Put, TypeOK
<1>3. ASSUME NEW x \in Open, buffers[x].lock PROVE FreshLock(x)'
  BY <1>1, <1>2, <1>3, LockedPath DEF FreshLock
<1>4. QED BY <1>1, <1>3, SteadyDiscipline DEF Open, Steady

LEMMA OpenDiscipline ==
  ASSUME TypeOK, LockDiscipline, NEW b \in Buffer, NEW p \in Path,
         NEW readonly \in BOOLEAN, OpenBuffer(b, p, readonly)
  PROVE  LockDiscipline'
<1>1. /\ Open' = Open \cup {b} /\ b \notin Open
      /\ buffers'[b] = Opened(p, readonly)
      /\ \A x \in Open : buffers'[x] = buffers[x]
  BY DEF OpenBuffer, Put, Open
<1>2. \A x \in Open : buffers[x].path # p
  BY DEF OpenBuffer, AlreadyOpen
<1>3. /\ Opened(p, readonly).path = p /\ Opened(p, readonly).fid = p
      /\ Opened(p, readonly).lock = ~readonly
      /\ Opened(p, readonly).readonly = readonly
      /\ Opened(p, readonly).base = {stored[p]}
  BY DEF Opened
<1>4. ASSUME NEW x \in Open, buffers[x].lock PROVE FreshLock(x)'
  <2>1. FreshLock(x) /\ buffers[x].path \in Path
    BY <1>4, LockedPath
  <2>2. QED BY <1>1, <1>2, <2>1 DEF OpenBuffer, LockTaken, FreshLock, TypeOK
<1>5. ASSUME ~readonly PROVE FreshLock(b)'
  BY <1>1, <1>3, <1>5 DEF OpenBuffer, LockTaken, FreshLock, TypeOK
<1>6. ASSUME NEW x \in Open', buffers'[x].lock PROVE FreshLock(x)'
  <2>1. CASE x = b
    BY <1>1, <1>3, <1>5, <1>6, <2>1 DEF FreshLock
  <2>2. CASE x \in Open
    BY <1>1, <1>4, <1>6, <2>2
  <2>3. QED BY <1>1, <2>1, <2>2
<1>7. ASSUME NEW x \in Open'
      PROVE  /\ buffers'[x].fid = buffers'[x].path
             /\ buffers'[x].path # NoPath /\ ~buffers'[x].readonly => buffers'[x].lock
  <2>1. CASE x = b
    BY <1>1, <1>3, <2>1
  <2>2. CASE x \in Open
    BY <1>1, <2>2 DEF LockDiscipline, Remote
  <2>3. QED BY <1>1, <2>1, <2>2
<1>8. ASSUME NEW x \in Open', NEW y \in Open', buffers'[x].path # NoPath,
             buffers'[x].path = buffers'[y].path
      PROVE  x = y
  <2>1. CASE x \in Open /\ y \in Open
    BY <1>1, <1>8, <2>1 DEF LockDiscipline, Remote
  <2>2. CASE x = b \/ y = b
    BY <1>1, <1>2, <1>3, <1>8, <2>2
  <2>3. QED BY <1>1, <2>1, <2>2
<1>9. QED BY <1>6, <1>7, <1>8 DEF LockDiscipline, Remote

LEMMA NewDiscipline ==
  ASSUME TypeOK, LockDiscipline, NEW b \in Buffer, NewBuffer(b)
  PROVE  LockDiscipline'
<1>1. PICK t \in Text : /\ b \notin Open
                        /\ buffers' = Put(buffers, b, Created(b, t))
  BY DEF NewBuffer
<1>2. /\ Open' = Open \cup {b}
      /\ buffers'[b] = Created(b, t)
      /\ \A x \in Open : buffers'[x] = buffers[x]
  BY <1>1 DEF Put, Open
<1>3. /\ Created(b, t).path = NoPath /\ Created(b, t).fid = NoPath
      /\ ~Created(b, t).lock
  BY DEF Created, Local
<1>4. \A x \in Open : buffers[x].lock => FreshLock(x)'
  BY <1>2 DEF NewBuffer, LockDiscipline, FreshLock
<1>5. QED BY <1>1, <1>2, <1>3, <1>4 DEF LockDiscipline, Remote

LEMMA LeaveDiscipline ==
  ASSUME TypeOK, LockDiscipline, KeepsLocks, Leave
  PROVE  LockDiscipline'
<1>1. ASSUME NEW b \in Buffer, NEW force \in BOOLEAN, CloseBuffer(b, force)
      PROVE  LockDiscipline'
  <2>1. /\ Open' = Open \ {b} /\ b \in Open /\ UNCHANGED stored
        /\ \A x \in Open' : buffers'[x] = buffers[x]
    BY <1>1 DEF CloseBuffer, Without, Open
  <2>2. ASSUME NEW x \in Open', buffers[x].lock PROVE FreshLock(x)'
    <3>1. FreshLock(x) /\ buffers[x].path \in Path
      BY <2>1, <2>2, LockedPath
    <3>2. buffers[x].path # buffers[b].fid
      BY <2>1, <2>2, LockedPath DEF LockDiscipline
    <3>3. QED BY <1>1, <2>1, <3>1, <3>2 DEF CloseBuffer, Unlocked, FreshLock
  <2>3. QED BY <2>1, <2>2, SteadyDiscipline DEF Steady
<1>2. ASSUME NEW force \in BOOLEAN, CloseSession(force) PROVE LockDiscipline'
  BY <1>2 DEF CloseSession, LockDiscipline, Open
<1>3. ~StartupSweep
  BY DEF KeepsLocks, StartupSweep
<1>4. QED BY <1>1, <1>2, <1>3 DEF Leave

\* Mutate, undo, redo and reload move no lock; reload takes the stored version
\* as the one last exchanged.
LEMMA EditsDiscipline ==
  ASSUME TypeOK, LockDiscipline, KeepsLocks, Edits
  PROVE  LockDiscipline'
<1>1. PICK b, e :
        /\ b \in Open
        /\ Update(b, e) /\ UNCHANGED <<stored, lockOf>>
        /\ \/ \E t \in Text : e = Edited(b, t)
           \/ \E t : e = Undone(b, t)
           \/ /\ buffers[b].path \in DOMAIN stored
              /\ e = Reloaded(b, stored[buffers[b].path])
  BY DEF Edits, UndoRedo, Reload, Mutate, CrashInMutate, CrashInReload, KeepsLocks
<1>2. buffers[b] \in Entry
  BY <1>1 DEF TypeOK
<1>3. /\ e.path = buffers[b].path /\ e.fid = buffers[b].fid
      /\ e.lock = buffers[b].lock /\ e.readonly = buffers[b].readonly
      /\ e.base = buffers[b].base \/ e.base = {stored[buffers[b].path]}
  BY <1>1, <1>2 DEF Edited, Undone, Reloaded, Entry
<1>4. /\ Open' = Open
      /\ \A x \in Open : buffers'[x] = IF x = b THEN e ELSE buffers[x]
  BY <1>1 DEF Update, Open
<1>5. ASSUME NEW x \in Open, buffers[x].lock PROVE FreshLock(x)'
  <2>1. FreshLock(x)
    BY <1>5, LockedPath
  <2>2. QED BY <1>1, <1>3, <1>4, <2>1 DEF FreshLock
<1>6. QED BY <1>3, <1>4, <1>5, SteadyDiscipline DEF Steady

\* The uploads of such a client: to the locked file the buffer was opened with,
\* recording the uploaded text as the version last exchanged.
LEMMA KeptUpload ==
  ASSUME TypeOK, LockDiscipline, KeepsLocks, Uploads
  PROVE  \E b, e :
           /\ b \in Open
           /\ Update(b, e) /\ Upload(b, buffers[b].path)
           /\ lockOf' = lockOf /\ buffers[b].lock
           /\ e.path = buffers[b].path /\ e.fid = buffers[b].fid
           /\ e.lock = buffers[b].lock /\ e.readonly = buffers[b].readonly
           /\ e.text = buffers[b].text /\ e.base = {buffers[b].text}
<1>1. PICK b \in Buffer, choice \in BOOLEAN :
        SaveBuffer(b, choice) \/ WriteAllBuffer(b, choice)
  BY DEF Uploads, BindAndSave, SaveAs, CrashInUpload, KeepsLocks
<1>2. /\ b \in Open /\ buffers[b] \in Entry /\ Remote(b) /\ ~buffers[b].readonly
      /\ buffers[b].lock
  BY <1>1 DEF SaveBuffer, SaveTo, WriteAllBuffer, TypeOK, LockDiscipline
<1>3. Target(b) = buffers[b].path /\ buffers[b].fid = buffers[b].path
  BY <1>2 DEF LockDiscipline, Target, Remote
<1> DEFINE s == Sent(buffers[b], Target(b))
<1>4. /\ s.path = buffers[b].path /\ s.fid = buffers[b].fid
      /\ s.lock = buffers[b].lock /\ s.readonly = buffers[b].readonly
      /\ s.text = buffers[b].text /\ s.base = {buffers[b].text}
      /\ [s EXCEPT !.lock = s.lock] = s
      /\ s = [s EXCEPT !.saved = s.saved]
  BY <1>2, <1>3 DEF Sent, Entry
<1>5. CASE SaveBuffer(b, choice)
  <2>1. ~choice
    BY <1>5 DEF SaveBuffer, SaveTo, KeepsLocks
  <2>2. /\ Update(b, [s EXCEPT !.lock = s.lock /\ ~choice])
        /\ Upload(b, Target(b)) /\ lockOf' = lockOf
    BY <1>5, <2>1 DEF SaveBuffer, SaveTo, LockAfterSave
  <2>3. [s EXCEPT !.lock = s.lock /\ ~choice] = s
    BY <1>2, <1>4, <2>1 DEF Entry
  <2> HIDE DEF s
  <2>4. Update(b, s) /\ Upload(b, buffers[b].path) /\ lockOf' = lockOf
    BY <1>3, <2>2, <2>3
  <2>5. QED BY <1>2, <1>4, <2>4
<1>6. CASE WriteAllBuffer(b, choice)
  <2> DEFINE e == [s EXCEPT !.saved = buffers[b].saved]
  <2>1. Update(b, e) /\ Upload(b, Target(b)) /\ lockOf' = lockOf
    BY <1>6 DEF WriteAllBuffer
  <2>2. /\ e.path = s.path /\ e.fid = s.fid /\ e.lock = s.lock
        /\ e.readonly = s.readonly /\ e.text = s.text /\ e.base = s.base
    BY <1>2 DEF Sent, Entry
  <2> HIDE DEF e, s
  <2>3. /\ Upload(b, buffers[b].path)
        /\ e.path = buffers[b].path /\ e.fid = buffers[b].fid
        /\ e.lock = buffers[b].lock /\ e.readonly = buffers[b].readonly
        /\ e.text = buffers[b].text /\ e.base = {buffers[b].text}
    BY <1>3, <1>4, <2>1, <2>2
  <2>4. QED BY <1>2, <2>1, <2>3
<1>7. QED BY <1>1, <1>5, <1>6

LEMMA UploadsDiscipline ==
  ASSUME TypeOK, LockDiscipline, KeepsLocks, Uploads
  PROVE  LockDiscipline'
<1>1. PICK b, e :
        /\ b \in Open
        /\ Update(b, e) /\ Upload(b, buffers[b].path)
        /\ lockOf' = lockOf /\ buffers[b].lock
        /\ e.path = buffers[b].path /\ e.fid = buffers[b].fid
        /\ e.lock = buffers[b].lock /\ e.readonly = buffers[b].readonly
        /\ e.text = buffers[b].text /\ e.base = {buffers[b].text}
  BY KeptUpload
<1>2. /\ Open' = Open
      /\ \A x \in Open : buffers'[x] = IF x = b THEN e ELSE buffers[x]
  BY <1>1 DEF Update, Open
<1>3. ASSUME NEW x \in Open, buffers[x].lock PROVE FreshLock(x)'
  <2>1. FreshLock(x) /\ FreshLock(b) /\ Remote(x)
    BY <1>1, <1>3, LockedPath
  <2>2. x # b => buffers[x].path # buffers[b].path
    BY <1>1, <1>3, <2>1 DEF LockDiscipline
  <2>3. QED BY <1>1, <1>2, <2>1, <2>2 DEF Upload, Put, FreshLock
<1>4. QED BY <1>1, <1>2, <1>3, SteadyDiscipline DEF Steady

LEMMA NextDiscipline ==
  ASSUME TypeOK, LockDiscipline, KeepsLocks, [Next]_vars
  PROVE  LockDiscipline'
<1>1. CASE Enter
  BY <1>1, OpenDiscipline, NewDiscipline
     DEF Enter, OpenConflict, OpenUnparsable, KeepsLocks
<1>2. CASE UNCHANGED vars
  BY <1>2 DEF vars, LockDiscipline, Open, Remote, FreshLock
<1>3. ~Binds
  BY DEF Binds, BindOnly, KeepsLocks
<1>4. QED BY <1>1, <1>2, <1>3, OthersDiscipline, LeaveDiscipline, EditsDiscipline,
             UploadsDiscipline DEF Next

LEMMA LockInvariant ==
  ASSUME KeepsLocks
  PROVE  Spec => [](TypeOK /\ LockDiscipline)
<1>1. Init => TypeOK /\ LockDiscipline
  BY DEF Init, TypeOK, LockDiscipline, Open
<1>2. TypeOK /\ LockDiscipline /\ [Next]_vars => (TypeOK /\ LockDiscipline)'
  BY NextType, NextDiscipline
<1>3. QED BY <1>1, <1>2, PTL DEF Spec

\* A client that keeps its locks has every writable buffer locked and up to
\* date with the server, and no file open twice.
THEOREM LocksDisciplined ==
  ASSUME KeepsLocks
  PROVE  Spec => []LockDiscipline
BY LockInvariant, PTL

\* What such a client's settings record as locked is locked for it.
THEOREM LocksHeld ==
  ASSUME KeepsLocks
  PROVE  Spec => []RecordedLockHeld
<1>1. LockDiscipline => RecordedLockHeld
  BY DEF LockDiscipline, FreshLock, RecordedLockHeld
<1>2. QED BY <1>1, LockInvariant, PTL

\* Such a client never overwrites a version of a file it has not seen.
THEOREM NoUpdateLost ==
  ASSUME KeepsLocks
  PROVE  Spec => NoLostUpdate
<1>1. ASSUME TypeOK, LockDiscipline, [Next]_vars, NEW p \in DOMAIN stored,
             lockOf[p] # "other", stored'[p] # stored[p]
      PROVE  \E b \in Open : Target(b) = p /\ stored[p] \in buffers[b].base
  <2>1. ~Others
    BY <1>1 DEF Others, OtherLock, OtherWrite, OtherUnlock, Put
  <2>2. ~Enter /\ ~Leave /\ ~Edits /\ ~Binds /\ ~UNCHANGED vars
    BY <1>1 DEF Enter, OpenUnparsable, NewBuffer, OpenConflict, OpenBuffer, Leave,
                StartupSweep, CloseSession, CloseBuffer, Edits, UndoRedo, Reload,
                Mutate, CrashInMutate, CrashInReload, Binds, BindOnly, vars
  <2>3. PICK b \in Open : Upload(b, buffers[b].path) /\ buffers[b].lock
    BY <1>1, <2>1, <2>2, KeptUpload DEF Next
  <2>4. p = buffers[b].path
    BY <1>1, <2>3 DEF Upload, Put
  <2>5. Target(b) = p /\ stored[p] \in buffers[b].base
    BY <1>1, <2>3, <2>4, LockedPath DEF LockDiscipline, Target, FreshLock
  <2>6. QED BY <2>5
<1>2. TypeOK /\ LockDiscipline /\ [Next]_vars =>
        [\A p \in DOMAIN stored : lockOf[p] # "other" /\ stored'[p] # stored[p] =>
           \E b \in Open : Target(b) = p /\ stored[p] \in buffers[b].base]_vars
  BY <1>1
<1>3. QED BY <1>2, LockInvariant, PTL DEF NoLostUpdate, Spec

\* When such a client's command clears the modified flag, the file at the
\* buffer's path holds the buffer's text.
THEOREM CleanIsStored ==
  ASSUME KeepsLocks
  PROVE  Spec => CleanMeansStored
<1>1. ASSUME TypeOK, LockDiscipline, [Next]_vars, NEW x \in Open \cap Open',
             buffers[x].modified, ~buffers'[x].modified
      PROVE  /\ buffers'[x].path \in DOMAIN stored'
             /\ stored'[buffers'[x].path] = buffers'[x].text
  <2>1. buffers[x] \in Entry /\ buffers'[x] # buffers[x]
    BY <1>1 DEF TypeOK
  <2>2. ~Others /\ ~Enter /\ ~Leave /\ ~Binds /\ ~UNCHANGED vars
    <3>1. ~Enter
      <4>1. ASSUME Enter
            PROVE  \/ UNCHANGED buffers
                   \/ \E b \in Buffer : \E e : b \notin Open /\ buffers' = Put(buffers, b, e)
        BY <4>1 DEF Enter, OpenUnparsable, NewBuffer, OpenConflict, OpenBuffer
      <4>2. QED BY <1>1, <2>1, <4>1, PutEntry
    <3>2. ~Leave
      <4>1. ASSUME Leave
            PROVE  \/ UNCHANGED buffers \/ buffers' = <<>>
                   \/ \E b \in Buffer : buffers' = Without(buffers, b)
        BY <4>1 DEF Leave, StartupSweep, CloseSession, CloseBuffer
      <4>2. ASSUME NEW b, buffers' = Without(buffers, b) PROVE buffers'[x] = buffers[x]
        BY <1>1, <4>2 DEF Without, Open
      <4>3. buffers' # <<>>
        BY <1>1 DEF Open
      <4>4. QED BY <2>1, <4>1, <4>2, <4>3
    <3>3. QED BY <1>1, <2>1, <3>1, <3>2
              DEF Others, OtherLock, OtherWrite, OtherUnlock, Binds, BindOnly,
                  KeepsLocks, vars
  <2>3. CASE Edits
    <3>1. PICK b, e :
            /\ b \in Open
            /\ Update(b, e) /\ UNCHANGED stored
            /\ \/ \E t \in Text : e = Edited(b, t)
               \/ \E t : e = Undone(b, t)
               \/ /\ buffers[b].path \in DOMAIN stored
                  /\ e = Reloaded(b, stored[buffers[b].path])
      BY <2>3 DEF Edits, UndoRedo, Reload, Mutate, CrashInMutate, CrashInReload,
                  KeepsLocks
    <3>2. b = x /\ buffers'[x] = e
      BY <1>1, <2>1, <3>1, UpdateEntry
    <3>3. ASSUME NEW t, e = Undone(b, t) \/ e = Edited(b, t) PROVE FALSE
      BY <1>1, <2>1, <3>2, <3>3 DEF Undone, Edited, Entry
    <3>4. /\ buffers[x].path \in DOMAIN stored
          /\ e = Reloaded(x, stored[buffers[x].path])
      BY <3>1, <3>2, <3>3
    <3>5. e.path = buffers[x].path /\ e.text = stored[buffers[x].path]
      BY <2>1, <3>4 DEF Reloaded, Entry
    <3>6. QED BY <3>1, <3>2, <3>4, <3>5
  <2>4. CASE Uploads
    <3>1. PICK b, e :
            /\ b \in Open
            /\ Update(b, e) /\ Upload(b, buffers[b].path)
            /\ e.path = buffers[b].path /\ e.text = buffers[b].text
      BY <1>1, <2>4, KeptUpload
    <3>2. b = x /\ buffers'[x] = e
      BY <1>1, <2>1, <3>1, UpdateEntry
    <3>3. QED BY <3>1, <3>2 DEF Upload, Put
  <2>5. QED BY <1>1, <2>2, <2>3, <2>4 DEF Next
<1>2. TypeOK /\ LockDiscipline /\ [Next]_vars =>
        [\A b \in Open \cap Open' :
           buffers[b].modified /\ ~buffers'[b].modified =>
             /\ buffers'[b].path \in DOMAIN stored'
             /\ stored'[buffers'[b].path] = buffers'[b].text]_vars
  BY <1>1
<1>3. QED BY <1>2, LockInvariant, PTL DEF CleanMeansStored, Spec
=============================================================================
