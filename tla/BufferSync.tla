----------------------------- MODULE BufferSync -----------------------------
(***************************************************************************)
(* The buffers of one editor session against the code analysis (CA)        *)
(* server: the flags kept for each buffer in ses_settings.json, the files  *)
(* the server stores and the advisory locks it grants, shared with other   *)
(* CA sessions that lock a file before they write it.                      *)
(*                                                                         *)
(* An editor command runs to its end before the next one; the steps of     *)
(* other CA sessions come between any two of them.  The history of a       *)
(* buffer (BufferHistory) appears here as the texts undo or redo can bring *)
(* back.  A failed upload or download changes nothing and is no step.  A   *)
(* crash may come between the two writes of a command that writes a text   *)
(* and then its flags.                                                     *)
(***************************************************************************)
EXTENDS Naturals

CONSTANTS Buffer,   \* buffer ids
          Path,     \* project paths; a path stands for the file_id it resolves to
          NoPath,   \* relative_path or file_id is None
          Edit,     \* the edits a text may contain
          Api       \* the commands and faults of OptionalApi that happen

OptionalApi == {"undo", "reload", "write_all", "release_lock", "bind",
                "save_as", "sweep", "crash", "conflict", "unparsable"}

ASSUME ApiAssumption == Api \subseteq OptionalApi
ASSUME NoPathAssumption == NoPath \notin Path

VARIABLES
  stored,          \* the dict of project files on the server: path -> text
  lockOf,          \* path -> who holds its lock
  buffers,         \* open_buffers: buffer id -> its settings and its text
  sessionReadonly  \* the readonly flag of the session

vars == <<stored, lockOf, buffers, sessionReadonly>>

Text == SUBSET Edit

Entry == [path : Path \cup {NoPath},   \* relative_path; None: a local buffer
          fid : Path \cup {NoPath},    \* file_id
          lock : BOOLEAN,              \* lock_session_id is recorded
          modified : BOOLEAN,
          saved : BOOLEAN,
          readonly : BOOLEAN,
          text : Text,                 \* the live buffer file
          past : SUBSET Text,          \* what undo or redo can bring back
          base : SUBSET Text,          \* history: {text last exchanged with CA}
          cut : BOOLEAN]               \* history: a crash kept the text's flags

Open == DOMAIN buffers
Remote(b) == buffers[b].path # NoPath

\* The dict f with v stored under k.
Put(f, k, v) == [x \in DOMAIN f \cup {k} |-> IF x = k THEN v ELSE f[x]]
Without(f, k) == [x \in DOMAIN f \ {k} |-> f[x]]

-----------------------------------------------------------------------------
(* The CA server.                                                          *)

\* A file locked by another session is unavailable.
Available(p) == lockOf[p] # "other"

\* unlock_file for the files ps; one the editor does not hold is left alone.
Unlocked(ps) ==
  [p \in Path |-> IF p \in ps /\ lockOf[p] = "editor" THEN "none" ELSE lockOf[p]]

Init ==
  /\ stored \in UNION {[D -> Text] : D \in SUBSET Path}
  /\ lockOf = [p \in Path |-> "none"]
  /\ buffers = <<>>
  /\ sessionReadonly \in BOOLEAN

OtherLock(p) ==
  /\ p \in DOMAIN stored
  /\ lockOf[p] = "none"
  /\ lockOf' = [lockOf EXCEPT ![p] = "other"]
  /\ UNCHANGED <<stored, buffers, sessionReadonly>>

OtherWrite(p) ==
  /\ lockOf[p] = "other"
  /\ \E t \in Text : stored' = Put(stored, p, t)
  /\ UNCHANGED <<lockOf, buffers, sessionReadonly>>

OtherUnlock(p) ==
  /\ lockOf[p] = "other"
  /\ lockOf' = [lockOf EXCEPT ![p] = "none"]
  /\ UNCHANGED <<stored, buffers, sessionReadonly>>

-----------------------------------------------------------------------------
(* Buffers enter and leave the session.                                    *)

\* An open that does not look for a buffer of the same file.
NeverOpen(p) == FALSE

\* BUFFER_ALREADY_OPEN: find_open_buffer_for_path compares recorded paths.
AlreadyOpen(p) == \E b \in Open : buffers[b].path = p

Opened(p, readonly) ==
  [path |-> p, fid |-> p, lock |-> ~readonly, modified |-> FALSE,
   saved |-> TRUE, readonly |-> readonly, text |-> stored[p],
   past |-> {stored[p]}, base |-> {stored[p]}, cut |-> FALSE]

\* A download that takes no lock.
LockNotTaken(p, readonly) == lockOf

\* download_content takes the lock unless the open is readonly.
LockTaken(p, readonly) ==
  IF readonly THEN lockOf ELSE [lockOf EXCEPT ![p] = "editor"]

OpenBuffer(b, p, readonly) ==
  /\ b \notin Open /\ p \in DOMAIN stored /\ ~AlreadyOpen(p)
  /\ readonly \/ Available(p)
  /\ lockOf' = LockTaken(p, readonly)
  /\ buffers' = Put(buffers, b, Opened(p, readonly))
  /\ UNCHANGED <<stored, sessionReadonly>>

(* The lock is not among the session's locks after the download: the open  *)
(* answers SESSION_LOCK_CONFLICT, but the buffer has been recorded.        *)
OpenConflict(b, p) ==
  /\ "conflict" \in Api
  /\ b \notin Open /\ p \in DOMAIN stored /\ ~AlreadyOpen(p)
  /\ lockOf[p] # "editor"
  /\ buffers' = Put(buffers, b, Opened(p, FALSE))
  /\ UNCHANGED <<stored, lockOf, sessionReadonly>>

(* The content cannot be decoded or parsed: open_tree raises after the     *)
(* download took the lock and before anything is recorded.                 *)
OpenUnparsable(p) ==
  /\ "unparsable" \in Api
  /\ p \in DOMAIN stored /\ ~AlreadyOpen(p)
  /\ Available(p)
  /\ lockOf' = LockTaken(p, FALSE)
  /\ UNCHANGED <<stored, buffers, sessionReadonly>>

Local(t, fid) ==
  [path |-> NoPath, fid |-> fid, lock |-> FALSE, modified |-> TRUE,
   saved |-> FALSE, readonly |-> FALSE, text |-> t, past |-> {t}, base |-> {},
   cut |-> FALSE]

\* A new buffer whose id is recorded as its file_id.
CreatedWithId(b, t) == Local(t, b)

Created(b, t) == Local(t, NoPath)

\* Initial content is required; the buffer is local until a save binds it.
NewBuffer(b) ==
  /\ b \notin Open
  /\ \E t \in Text \ {{}} : buffers' = Put(buffers, b, Created(b, t))
  /\ UNCHANGED <<stored, lockOf, sessionReadonly>>

\* A close that asks nothing.
CloseUnguarded(b, force) == FALSE

\* FILE_HAS_UNSENT_CHANGES.
CloseRefused(b, force) ==
  /\ Remote(b) /\ ~buffers[b].saved /\ buffers[b].modified
  /\ ~force /\ ~buffers[b].readonly

\* Only a buffer that is not saved gives its lock back.
CloseBuffer(b, force) ==
  /\ b \in Open /\ ~CloseRefused(b, force)
  /\ lockOf' = IF buffers[b].lock /\ ~buffers[b].saved
               THEN Unlocked({buffers[b].fid}) ELSE lockOf
  /\ buffers' = Without(buffers, b)
  /\ UNCHANGED <<stored, sessionReadonly>>

\* SESSION_HAS_UNSAVED_BUFFERS or SESSION_HAS_UNSENT_FILES.
SessionCloseRefused(force) ==
  /\ ~force
  /\ \E b \in Open :
       /\ ~buffers[b].readonly
       /\ buffers[b].modified \/ (Remote(b) /\ ~buffers[b].saved)

(* The session directory is removed; the client may connect again.         *)
CloseSession(force) ==
  /\ ~SessionCloseRefused(force)
  /\ lockOf' = Unlocked({buffers[b].fid : b \in {x \in Open : buffers[x].lock}})
  /\ buffers' = <<>>
  /\ sessionReadonly' \in BOOLEAN
  /\ UNCHANGED stored

(* The editor restarts: startup_sweep unlocks the files of buffers that    *)
(* are not saved.  The buffers stay open and their settings as they were.  *)
StartupSweep ==
  /\ "sweep" \in Api
  /\ lockOf' = Unlocked({buffers[b].fid : b \in {x \in Open :
                 buffers[x].lock /\ ~buffers[x].saved /\ ~buffers[x].readonly}})
  /\ UNCHANGED <<stored, buffers, sessionReadonly>>

-----------------------------------------------------------------------------
(* Edits of an open buffer.                                                *)

Update(b, entry) == buffers' = [buffers EXCEPT ![b] = entry]

Edited(b, t) ==
  [buffers[b] EXCEPT !.text = t, !.modified = TRUE,
                     !.saved = IF Remote(b) THEN FALSE ELSE @,
                     !.past = @ \cup {buffers[b].text}, !.cut = FALSE]

(* execute_mutation refuses a readonly session, not a readonly buffer.  The *)
(* text it writes is rendered from the cached tree, which may be another   *)
(* one than the buffer file's (BufferHistory): any text is possible.       *)
Mutate(b) ==
  /\ b \in Open /\ ~sessionReadonly
  /\ \E t \in Text : Update(b, Edited(b, t))
  /\ UNCHANGED <<stored, lockOf, sessionReadonly>>

\* The text is in the live file, the flags are those of the text before it.
Cut(b, t) ==
  [buffers[b] EXCEPT !.text = t, !.past = @ \cup {buffers[b].text}, !.cut = TRUE]

(* The editor dies in execute_mutation after write_buf.  Like every crash  *)
(* here it is followed by the sweep of the next start, a step of its own;  *)
(* a sweep whose unlocks all fail changes nothing.                         *)
CrashInMutate(b) ==
  /\ "crash" \in Api
  /\ b \in Open /\ ~sessionReadonly
  /\ \E t \in Text : Update(b, Cut(b, t))
  /\ UNCHANGED <<stored, lockOf, sessionReadonly>>

\* undo and redo rewrite the buffer file and touch no flag.
Undone(b, t) ==
  [buffers[b] EXCEPT !.text = t, !.past = @ \cup {buffers[b].text}]

UndoRedo(b) ==
  /\ "undo" \in Api
  /\ b \in Open
  /\ \E t \in buffers[b].past : Update(b, Undone(b, t))
  /\ UNCHANGED <<stored, lockOf, sessionReadonly>>

(* The file is found again by relative_path; saved stays as it was.        *)
Reloaded(b, t) ==
  [buffers[b] EXCEPT !.text = t, !.modified = FALSE, !.base = {t},
                     !.past = @ \cup {buffers[b].text}, !.cut = FALSE]

Reload(b) ==
  /\ "reload" \in Api
  /\ b \in Open /\ buffers[b].path \in DOMAIN stored
  /\ Update(b, Reloaded(b, stored[buffers[b].path]))
  /\ UNCHANGED <<stored, lockOf, sessionReadonly>>

\* The text the server has is in the live file, the flags are older.
Fetched(b, t) ==
  [buffers[b] EXCEPT !.text = t, !.base = {t}, !.past = @ \cup {buffers[b].text}]

CrashInReload(b) ==
  /\ {"crash", "reload"} \subseteq Api
  /\ b \in Open /\ buffers[b].path \in DOMAIN stored
  /\ Update(b, Fetched(b, stored[buffers[b].path]))
  /\ UNCHANGED <<stored, lockOf, sessionReadonly>>

-----------------------------------------------------------------------------
(* Uploads.                                                                *)

\* The file an upload of b writes: file_id, else what the path resolves to.
Target(b) == IF buffers[b].fid # NoPath THEN buffers[b].fid ELSE buffers[b].path

\* A binding that takes the upload for done.
BoundClean(b, p) == [buffers[b] EXCEPT !.path = p, !.modified = FALSE]

Bound(b, p) == [buffers[b] EXCEPT !.path = p]

\* The entry once its text is on the server under file_id p.
Sent(entry, p) ==
  [entry EXCEPT !.fid = p, !.modified = FALSE, !.saved = TRUE,
                !.base = {entry.text}, !.cut = FALSE]

\* An upload that sends the stored version back.
UploadStale(b, p) ==
  /\ Available(p)
  /\ stored' = Put(stored, p, IF p \in DOMAIN stored THEN stored[p] ELSE buffers[b].text)

Upload(b, p) ==
  /\ Available(p)
  /\ stored' = Put(stored, p, buffers[b].text)

\* With release_lock the server unlocks the file after it has written it.
LockAfterSave(p, release) ==
  lockOf' = IF release THEN Unlocked({p}) ELSE lockOf

SaveTo(b, entry, p, release) ==
  /\ b \in Open /\ ~sessionReadonly /\ ~buffers[b].readonly
  /\ release => "release_lock" \in Api
  /\ Upload(b, p)
  /\ LockAfterSave(p, release)
  /\ Update(b, [Sent(entry, p) EXCEPT !.lock = @ /\ ~release])
  /\ UNCHANGED sessionReadonly

SaveBuffer(b, release) ==
  b \in Open /\ Remote(b) /\ SaveTo(b, buffers[b], Target(b), release)

(* file_send of a local buffer with project_id and file_path: the binding  *)
(* is stored first and stays when the upload fails.                        *)
BindAndSave(b, p, release) ==
  /\ "bind" \in Api
  /\ b \in Open /\ ~Remote(b)
  /\ SaveTo(b, Bound(b, p), p, release)

BindOnly(b, p) ==
  /\ "bind" \in Api
  /\ b \in Open /\ ~Remote(b)
  /\ ~sessionReadonly /\ ~buffers[b].readonly
  /\ Update(b, Bound(b, p))
  /\ UNCHANGED <<stored, lockOf, sessionReadonly>>

\* run_save_as_pipeline looks the new path up only for a buffer without file_id.
SaveAsTarget(b, p) == IF buffers[b].fid # NoPath THEN buffers[b].fid ELSE p

SavedAs(b, p) == Sent(Bound(b, p), SaveAsTarget(b, p))

(* buf_save_as to p: the buffer is recorded under the new path.  No        *)
(* readonly check.                                                         *)
SaveAs(b, p, overwrite) ==
  /\ "save_as" \in Api
  /\ b \in Open
  /\ p \in DOMAIN stored => overwrite
  /\ Upload(b, SaveAsTarget(b, p))
  /\ Update(b, SavedAs(b, p))
  /\ UNCHANGED <<lockOf, sessionReadonly>>

(* The part of write_all that writes b.  A write_all is a run of these,    *)
(* one for each buffer whose upload succeeds; saved stays as it was.       *)
WriteAllBuffer(b, force) ==
  /\ "write_all" \in Api
  /\ b \in Open /\ Remote(b) /\ ~buffers[b].readonly
  /\ buffers[b].modified \/ force
  /\ Upload(b, Target(b))
  /\ Update(b, [Sent(buffers[b], Target(b)) EXCEPT !.saved = buffers[b].saved])
  /\ UNCHANGED <<lockOf, sessionReadonly>>

\* Which files the upload of a file_send, a write_all or a save_as writes.
UploadsTo(b, p, release) ==
  \/ /\ Remote(b) /\ p = Target(b) /\ ~buffers[b].readonly
     /\ ~sessionReadonly \/ ("write_all" \in Api /\ ~release)
  \/ /\ "save_as" \in Api /\ ~release
     /\ \E q \in Path : p = SaveAsTarget(b, q)

\* The server has the text, the flags say otherwise.
Seen(b) == [buffers[b] EXCEPT !.base = {buffers[b].text}]

\* The editor dies after an upload and before the flags.
CrashInUpload(b, p, release) ==
  /\ "crash" \in Api
  /\ b \in Open /\ UploadsTo(b, p, release)
  /\ release => "release_lock" \in Api
  /\ Upload(b, p)
  /\ LockAfterSave(p, release)
  /\ Update(b, Seen(b))
  /\ UNCHANGED sessionReadonly

-----------------------------------------------------------------------------
Others == \E p \in Path : OtherLock(p) \/ OtherWrite(p) \/ OtherUnlock(p)

Enter ==
  \/ \E p \in Path : OpenUnparsable(p)
  \/ \E b \in Buffer :
       \/ NewBuffer(b)
       \/ \E p \in Path : \/ OpenConflict(b, p)
                          \/ \E readonly \in BOOLEAN : OpenBuffer(b, p, readonly)

Leave ==
  \/ StartupSweep
  \/ \E force \in BOOLEAN :
       CloseSession(force) \/ \E b \in Buffer : CloseBuffer(b, force)

Edits ==
  \E b \in Buffer :
    Mutate(b) \/ CrashInMutate(b) \/ UndoRedo(b) \/ Reload(b) \/ CrashInReload(b)

Uploads ==
  \E b \in Buffer, choice \in BOOLEAN :
    \/ SaveBuffer(b, choice)
    \/ WriteAllBuffer(b, choice)
    \/ \E p \in Path : \/ BindAndSave(b, p, choice)
                       \/ SaveAs(b, p, choice)
                       \/ CrashInUpload(b, p, choice)

Binds == \E b \in Buffer, p \in Path : BindOnly(b, p)

Next == Others \/ Enter \/ Leave \/ Edits \/ Uploads \/ Binds

Spec == Init /\ [][Next]_vars

-----------------------------------------------------------------------------
(* Properties.                                                             *)

\* The variables hold values of the shapes the code and the server keep.
TypeOK ==
  /\ DOMAIN stored \subseteq Path /\ stored \in [DOMAIN stored -> Text]
  /\ lockOf \in [Path -> {"none", "editor", "other"}]
  /\ Open \subseteq Buffer /\ buffers \in [Open -> Entry]
  /\ sessionReadonly \in BOOLEAN

\* A buffer is recorded as saved only while it is a remote one with nothing
\* modified, whatever commands led to it: the two flags that file_close and
\* session_close read never disagree about unsent edits.
SavedMeansSent ==
  \A b \in Open : buffers[b].saved => Remote(b) /\ ~buffers[b].modified

\* Without undo, a buffer whose text differs from what it last exchanged with
\* the server is flagged modified: no command forgets an edit, and no crash but
\* one that cuts a mutation off from the flags of the very text it wrote.
ModifiedCoversEdits ==
  \A b \in Open : buffers[b].text \notin buffers[b].base =>
                     buffers[b].modified \/ buffers[b].cut

\* b may leave without a question: the server has seen its text, or a crash kept
\* the flags that would have asked.
Droppable(b) == buffers[b].text \in buffers[b].base \/ buffers[b].cut

\* No close that is not forced drops edits the server has never seen, except
\* those of readonly buffers, for file_close those of local buffers, and a text
\* whose flags a crash cut off.
UnforcedCloseKeepsEdits ==
  [][/\ \A b \in Buffer :
          CloseBuffer(b, FALSE) /\ Remote(b) /\ ~buffers[b].readonly => Droppable(b)
     /\ CloseSession(FALSE) =>
          \A b \in Open : ~buffers[b].readonly => Droppable(b)]_vars

\* When a command clears the modified flag, the file at the path recorded for
\* the buffer holds the buffer's text.
CleanMeansStored ==
  [][\A b \in Open \cap Open' :
       buffers[b].modified /\ ~buffers'[b].modified =>
         /\ buffers'[b].path \in DOMAIN stored'
         /\ stored'[buffers'[b].path] = buffers'[b].text]_vars

\* The file of b is locked for the editor and is the version b last exchanged.
FreshLock(b) ==
  LET p == buffers[b].path IN
  p \in DOMAIN stored /\ lockOf[p] = "editor" /\ stored[p] \in buffers[b].base

\* For a client that keeps every lock until it closes the buffer and saves only
\* under the path it opened: file_id and relative_path name one file, no two
\* buffers share it, every writable remote buffer records its lock, and a
\* recorded lock is held while the stored file is the version last exchanged.
LockDiscipline ==
  /\ \A b \in Open : buffers[b].fid = buffers[b].path
  /\ \A b, c \in Open : Remote(b) /\ buffers[b].path = buffers[c].path => b = c
  /\ \A b \in Open : Remote(b) /\ ~buffers[b].readonly => buffers[b].lock
  /\ \A b \in Open : buffers[b].lock => FreshLock(b)

\* The editor never overwrites a version of a file that the buffer it uploads
\* has not seen: what another session wrote in between survives.
NoLostUpdate ==
  [][\A p \in DOMAIN stored :
       lockOf[p] # "other" /\ stored'[p] # stored[p] =>
         \E b \in Open : Target(b) = p /\ stored[p] \in buffers[b].base]_vars

\* A lock recorded for a buffer is held by the session.
RecordedLockHeld == \A b \in Open : buffers[b].lock => lockOf[buffers[b].fid] = "editor"
=============================================================================
