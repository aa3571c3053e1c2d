--------------------------- MODULE UniversalEdit ---------------------------
(* The ported edit commands (ported/universal_file_edit): universal_file_   *)
(* open, _edit, _write and _close on one file of a project, its draft, its  *)
(* lock file and its backups.  Servers share those files; a server runs     *)
(* open, write and close on its event loop, one at a time, and edits in a   *)
(* thread beside them.  Each step below is one file operation.              *)
EXTENDS Naturals, FiniteSets

CONSTANTS Server,   \* server processes, each named for its pid
          NoServer,
          Sid,      \* session ids uuid4 gives out
          NoSid,
          MaxText,  \* texts the edits produce (bound)
          MaxTime,  \* writes of the file (bound)
          Coarse    \* can two writes of the file fall in one second

ASSUME EditAssumption ==
  /\ NoServer \notin Server /\ NoSid \notin Sid
  /\ MaxText \in Nat \ {0} /\ MaxTime \in Nat \ {0} /\ Coarse \in BOOLEAN

VARIABLES kind,       \* "text", or "python", whose opening needs the CST stack
          up,         \* up[p]: "down", "up" or "dead"
          file,       \* the file: is it there, its text, its mtime
          draft,      \* <file>.draft: is it there, its text
          lock,       \* <file>.write: pid and session id, or NoLock
          index,      \* old_code/index.txt: the backups of the file it lists
          clock,      \* mtime of the latest write
          live,       \* live[p]: _sessions of p
          main,       \* main[p]: the request on p's event loop
          work,       \* work[p]: the edit in p's thread
          last,       \* texts made so far: 0..last; 0 is the empty text
          opened,     \* history: session ids given out
          held,       \* history: sessions with the lock ever since they opened
          mine,       \* history: the text a session's own edits make
          wrote,      \* history: sessions whose write replaced the file
          past,       \* history: texts the file has had
          disturbed   \* history: requests overlapped, one was cut short by a
                      \* crash, a backup failed, or a session was used further
                      \* after a write, which gives up its lock

world == <<kind, up, clock, live, last, opened>>
requests == <<main, work>>
vars == <<world, file, draft, lock, index, requests, held, mine, wrote, past, disturbed>>

Text == 0..MaxText
Stamp == 0..MaxTime
Absent == [there |-> FALSE, text |-> 0]
NoLock == [pid |-> NoServer, sid |-> NoSid]
Idle == [at |-> "idle"]
NoBackup == [text |-> 0, stamp |-> 0]

Backups == [text : Text, stamp : Stamp]
LoopSteps == {"clean", "draft", "initial", "lock", "preview", "backup", "read",
              "replace", "unlock", "pick", "back", "look", "release", "save"}
Requests ==
  [at : LoopSteps \cup {"apply", "truncate", "fill"},
   then : LoopSteps \cup {"apply"},       \* step after an index is saved
   sid : Sid \cup {NoSid},
   seen : SUBSET Backups,                 \* index as load_index returned it
   copy : Backups,                        \* the backup to add
   from : Backups,                        \* the backup to restore
   text : Text,                           \* the draft as it was read
   mine : BOOLEAN]                        \* close: delete the lock or not

(* The variables stay in their sets; a session belongs to one server that   *)
(* is up; the lock names a session that was given out.                      *)
TypeOK ==
  /\ kind \in {"text", "python"}
  /\ up \in [Server -> {"down", "up", "dead"}]
  /\ file \in [there : BOOLEAN, text : Text, stamp : Stamp]
  /\ draft \in [there : BOOLEAN, text : Text]
  /\ lock = NoLock \/ (lock.pid \in Server /\ lock.sid \in opened)
  /\ index \subseteq Backups
  /\ clock \in Stamp /\ last \in Text
  /\ live \in [Server -> SUBSET opened]
  /\ \A p \in Server : up[p] # "up" => live[p] = {}
  /\ \A p, q \in Server : p # q => live[p] \cap live[q] = {}
  /\ main \in [Server -> {Idle} \cup Requests]
  /\ work \in [Server -> {Idle} \cup Requests]
  /\ held \subseteq opened /\ wrote \subseteq opened /\ opened \subseteq Sid
  /\ mine \in [Sid -> Text] /\ past \subseteq Text
  /\ disturbed \in BOOLEAN

(* The file is there, or a client will have universal_file_open create it.  *)
Init ==
  /\ kind \in {"text", "python"}
  /\ up \in {u \in [Server -> {"down", "up"}] : \E p \in Server : u[p] = "up"}
  /\ file \in {[there |-> FALSE, text |-> 0, stamp |-> 0],
               [there |-> TRUE, text |-> 0, stamp |-> 0]}
  /\ clock = 0 /\ last = 0
  /\ past = IF file.there THEN {0} ELSE {}
  /\ draft = Absent /\ lock = NoLock /\ index = {}
  /\ live = [p \in Server |-> {}]
  /\ main = [p \in Server |-> Idle] /\ work = [p \in Server |-> Idle]
  /\ opened = {} /\ held = {} /\ wrote = {}
  /\ mine = [s \in Sid |-> 0]
  /\ disturbed = FALSE

-----------------------------------------------------------------------------
AtMain(p, step) == main[p].at = step
Go(p, request) == main' = [main EXCEPT ![p] = request] /\ UNCHANGED work
GoTo(p, step) == Go(p, [main[p] EXCEPT !.at = step])
Done(p) == Go(p, Idle)
Work(p, request) == work' = [work EXCEPT ![p] = request] /\ UNCHANGED main
Busy == \E p \in Server : main[p] # Idle \/ work[p] # Idle
Request(step, s) ==
  [at |-> step, then |-> "release", sid |-> s, seen |-> {}, copy |-> NoBackup,
   from |-> NoBackup, text |-> 0, mine |-> FALSE]

Arrives(p, late) ==
  /\ up[p] = "up" /\ main[p] = Idle
  /\ disturbed' = (disturbed \/ Busy \/ late)
Same(state) == UNCHANGED <<world, state, mine, past, disturbed>>

(* write_lockfile_pid and delete_lockfile; the rename makes either atomic.  *)
SetLock(l) == lock' = l /\ held' = held \cap {l.sid} /\ UNCHANGED wrote
KeepLock == UNCHANGED <<lock, held, wrote>>

(* check_lock: free without a lock or when its process is gone.             *)
Locked == lock # NoLock /\ up[lock.pid] = "up"

(* list_versions: newest mtime first; files of one second in any order.     *)
Newest == {b \in index : \A c \in index : c.stamp <= b.stamp}

(* create_backup: the copy and the index as loaded, then the index saved.   *)
(* A failure is logged and the caller goes on.                              *)
Copied(request, then) ==
  [request EXCEPT !.at = "save", !.then = then, !.seen = index,
                  !.copy = [text |-> file.text, stamp |-> file.stamp]]
Saved(request) ==
  [request EXCEPT !.at = request.then, !.then = "release", !.seen = {}, !.copy = NoBackup]

-----------------------------------------------------------------------------
(* universal_file_open: the lock is looked at before anything is touched; a *)
(* missing file is made empty when the client asks for it.                  *)
(* A slip in OpenCheck: the lock is not looked at.                          *)
OpenCheckNothing(p) ==
  \E s \in Sid \ opened :
    /\ Arrives(p, FALSE)
    /\ Go(p, Request("clean", s))
    /\ file' = IF file.there THEN file ELSE [there |-> TRUE, text |-> 0, stamp |-> clock]
    /\ past' = past \cup {file'.text}
    /\ opened' = opened \cup {s}
    /\ KeepLock
    /\ UNCHANGED <<kind, up, clock, live, last, draft, index, mine>>

OpenCheck(p) ==
  \E s \in Sid \ opened :
    /\ Arrives(p, FALSE)
    /\ file.there => ~Locked
    /\ Go(p, Request("clean", s))
    /\ file' = IF file.there THEN file ELSE [there |-> TRUE, text |-> 0, stamp |-> clock]
    /\ past' = past \cup {file'.text}
    /\ opened' = opened \cup {s}
    /\ KeepLock
    /\ UNCHANGED <<kind, up, clock, live, last, draft, index, mine>>

(* A slip in OpenClean: the session id is free again.                       *)
OpenCleanForgets(p) ==
  /\ AtMain(p, "clean")
  /\ SetLock(NoLock)
  /\ draft' = Absent
  /\ GoTo(p, "draft")
  /\ opened' = opened \ {main[p].sid}
  /\ UNCHANGED <<kind, up, clock, live, last, file, index, mine, past, disturbed>>

(* _cleanup_stale: whatever lock and draft are there now.                   *)
OpenClean(p) ==
  /\ AtMain(p, "clean")
  /\ SetLock(NoLock)
  /\ draft' = Absent
  /\ GoTo(p, "draft")
  /\ Same(<<file, index>>)

(* _write_draft: a text is copied.  The CST code of a Python file and the   *)
(* tree code of a JSON or YAML file are not there to call: both raise.      *)
DraftFails == kind = "python"

(* _resolve_and_create_draft: a failed JSON or YAML draft is copied as that *)
(* of a text is, so those files are of kind "text"; Python and unknown      *)
(* suffixes fail.                                                           *)
OpenDraft(p) ==
  /\ AtMain(p, "draft")
  /\ IF DraftFails
     THEN Done(p) /\ UNCHANGED <<draft, mine>>
     ELSE /\ draft' = [there |-> TRUE, text |-> file.text]
          /\ mine' = [mine EXCEPT ![main[p].sid] = file.text]
          /\ GoTo(p, "initial")
  /\ KeepLock
  /\ UNCHANGED <<world, file, index, past, disturbed>>

(* _create_initial_backup: only for a file without a version.               *)
OpenBackup(p) ==
  /\ AtMain(p, "initial")
  /\ IF index = {} THEN Go(p, Copied(main[p], "lock")) ELSE GoTo(p, "lock")
  /\ KeepLock
  /\ Same(<<file, draft, index>>)

(* create_session, then the lock.                                           *)
OpenLock(p) ==
  /\ AtMain(p, "lock")
  /\ live' = [live EXCEPT ![p] = @ \cup {main[p].sid}]
  /\ lock' = [pid |-> p, sid |-> main[p].sid]
  /\ held' = {main[p].sid}
  /\ UNCHANGED wrote
  /\ Done(p)
  /\ UNCHANGED <<kind, up, clock, last, opened, file, draft, index, mine, past, disturbed>>

-----------------------------------------------------------------------------
(* universal_file_edit finds the session, and the thread does the rest: a   *)
(* backup of the draft, whose entry matters here only for the index it is   *)
(* written with; the draft read; the draft truncated and filled.            *)
Edit(p) ==
  \E s \in live[p] :
    /\ Arrives(p, s \in wrote)
    /\ work[p] = Idle
    /\ last + Cardinality({q \in Server : work[q] # Idle}) < MaxText
    /\ Work(p, [Request(IF draft.there THEN "save" ELSE "apply", s)
                  EXCEPT !.then = "apply", !.seen = index])
    /\ KeepLock
    /\ UNCHANGED <<world, file, draft, index, mine, past>>

EditSave(p) ==
  /\ work[p].at = "save"
  /\ index' = work[p].seen
  /\ Work(p, Saved(work[p]))
  /\ KeepLock
  /\ Same(<<file, draft>>)

EditRead(p) ==
  /\ work[p].at = "apply"
  /\ Work(p, IF draft.there THEN [work[p] EXCEPT !.at = "truncate", !.text = draft.text]
             ELSE Idle)
  /\ KeepLock
  /\ Same(<<file, draft, index>>)

EditTruncate(p) ==
  /\ work[p].at = "truncate"
  /\ draft' = [there |-> TRUE, text |-> 0]
  /\ Work(p, [work[p] EXCEPT !.at = "fill"])
  /\ KeepLock
  /\ Same(<<file, index>>)

EditFill(p) ==
  /\ work[p].at = "fill"
  /\ last' = last + 1
  /\ draft' = [draft EXCEPT !.text = last + 1]
  /\ mine' = [mine EXCEPT ![work[p].sid] = IF @ = work[p].text THEN last + 1 ELSE @]
  /\ Work(p, Idle)
  /\ KeepLock
  /\ UNCHANGED <<kind, up, clock, live, opened, file, index, past, disturbed>>
-----------------------------------------------------------------------------
(* universal_file_write.  The lock tells the second call from the first:    *)
(* it has this process and this session.                                    *)
Write(p) ==
  \E s \in live[p] :
    /\ Arrives(p, s \in wrote)
    /\ Go(p, Request(IF lock = [pid |-> p, sid |-> s] THEN "backup" ELSE "preview", s))
    /\ KeepLock
    /\ UNCHANGED <<world, file, draft, index, mine, past>>

(* _first_call: without a draft to read it raises, with one it takes the    *)
(* lock, whoever has it.                                                    *)
Preview(p) ==
  /\ AtMain(p, "preview")
  /\ IF draft.there
     THEN SetLock([pid |-> p, sid |-> main[p].sid])
     ELSE KeepLock
  /\ Done(p)
  /\ Same(<<file, draft, index>>)

(* _second_call: a backup of what is there, which may fail unnoticed ...    *)
WriteBackup(p) ==
  /\ AtMain(p, "backup")
  /\ \/ Go(p, Copied(main[p], "read")) /\ UNCHANGED disturbed
     \/ GoTo(p, "read") /\ disturbed' = TRUE
  /\ KeepLock
  /\ UNCHANGED <<world, file, draft, index, mine, past>>

(* A slip in Save: the entry alone is written, without the others.          *)
SaveOnly(p) ==
  /\ AtMain(p, "save")
  /\ index' = {main[p].copy}
  /\ Go(p, Saved(main[p]))
  /\ KeepLock
  /\ Same(<<file, draft>>)

Save(p) ==
  /\ AtMain(p, "save")
  /\ index' = main[p].seen \cup {main[p].copy}
  /\ Go(p, Saved(main[p]))
  /\ KeepLock
  /\ Same(<<file, draft>>)

(* ... the draft ...                                                        *)
WriteRead(p) ==
  /\ AtMain(p, "read")
  /\ Go(p, IF draft.there THEN [main[p] EXCEPT !.at = "replace", !.text = draft.text]
           ELSE [main[p] EXCEPT !.at = "pick"])
  /\ KeepLock
  /\ Same(<<file, draft, index>>)

(* ... os.replace of a temporary file, or an OSError ...                    *)
Replace(p) ==
  /\ AtMain(p, "replace")
  /\ \/ /\ clock' \in IF Coarse THEN {clock, clock + 1} ELSE {clock + 1}
        /\ clock' \in Stamp
        /\ file' = [there |-> TRUE, text |-> main[p].text, stamp |-> clock']
        /\ past' = past \cup {main[p].text}
        /\ GoTo(p, "unlock")
     \/ /\ GoTo(p, "pick")
        /\ UNCHANGED <<clock, file, past>>
  /\ KeepLock
  /\ UNCHANGED <<kind, up, live, last, opened, draft, index, mine, disturbed>>

(* ... and the lock removed.  The session stays.                            *)
WriteUnlock(p) ==
  /\ AtMain(p, "unlock")
  /\ lock' = NoLock /\ held' = {} /\ wrote' = wrote \cup {main[p].sid}
  /\ Done(p)
  /\ Same(<<file, draft, index>>)

(* restore_file after a failure: the newest version is chosen, what is      *)
(* there is backed up, and the version is copied back with its mtime.       *)
Pick(p) ==
  /\ AtMain(p, "pick")
  /\ IF index = {}
     THEN Done(p)
     ELSE \E b \in Newest : Go(p, [Copied(main[p], "back") EXCEPT !.from = b])
  /\ KeepLock
  /\ Same(<<file, draft, index>>)

Back(p) ==
  /\ AtMain(p, "back")
  /\ file' = [there |-> TRUE, text |-> main[p].from.text, stamp |-> main[p].from.stamp]
  /\ past' = past \cup {file'.text}
  /\ Done(p)
  /\ KeepLock
  /\ UNCHANGED <<world, draft, index, mine, disturbed>>

-----------------------------------------------------------------------------
(* universal_file_close of a text session: the draft goes, then the lock if *)
(* there was none or it was this session's, then the session.               *)
Close(p) ==
  \E s \in live[p] :
    /\ Arrives(p, FALSE)
    /\ draft' = Absent
    /\ Go(p, Request("look", s))
    /\ KeepLock
    /\ UNCHANGED <<world, file, index, mine, past>>

CloseLook(p) ==
  /\ AtMain(p, "look")
  /\ Go(p, [main[p] EXCEPT !.at = "release",
                           !.mine = lock.sid \in {NoSid, main[p].sid}])
  /\ KeepLock
  /\ Same(<<file, draft, index>>)

(* A slip in CloseRelease: the lock is left for the next opening to clean.  *)
CloseReleaseOnly(p) ==
  /\ AtMain(p, "release")
  /\ KeepLock
  /\ live' = [live EXCEPT ![p] = @ \ {main[p].sid}]
  /\ Done(p)
  /\ UNCHANGED <<kind, up, clock, last, opened, file, draft, index, mine, past, disturbed>>

CloseRelease(p) ==
  /\ AtMain(p, "release")
  /\ IF main[p].mine THEN SetLock(NoLock) ELSE KeepLock
  /\ live' = [live EXCEPT ![p] = @ \ {main[p].sid}]
  /\ Done(p)
  /\ UNCHANGED <<kind, up, clock, last, opened, file, draft, index, mine, past, disturbed>>

-----------------------------------------------------------------------------
(* A server dies: its registry goes, its files stay.  An index it was       *)
(* saving may be left truncated.                                            *)
Crash(p) ==
  /\ up[p] = "up"
  /\ up' = [up EXCEPT ![p] = "dead"]
  /\ live' = [live EXCEPT ![p] = {}]
  /\ main' = [main EXCEPT ![p] = Idle] /\ work' = [work EXCEPT ![p] = Idle]
  /\ index' \in IF "save" \in {main[p].at, work[p].at} THEN {index, {}} ELSE {index}
  /\ disturbed' = (disturbed \/ main[p] # Idle \/ work[p] # Idle)
  /\ KeepLock
  /\ UNCHANGED <<kind, clock, last, opened, file, draft, mine, past>>

(* The editor is started, again or once more beside another.                *)
Start(p) ==
  /\ up[p] = "down"
  /\ up' = [up EXCEPT ![p] = "up"]
  /\ KeepLock
  /\ UNCHANGED <<kind, clock, live, last, opened, file, draft, index, requests, mine, past, disturbed>>

OpenStep(p) == OpenCheck(p) \/ OpenClean(p) \/ OpenDraft(p) \/ OpenBackup(p) \/ OpenLock(p)
EditStep(p) == Edit(p) \/ EditSave(p) \/ EditRead(p) \/ EditTruncate(p) \/ EditFill(p)
WriteStep(p) ==
  \/ Write(p) \/ Preview(p) \/ WriteBackup(p) \/ Save(p) \/ WriteRead(p) \/ Replace(p)
  \/ WriteUnlock(p) \/ Pick(p) \/ Back(p)
CloseStep(p) == Close(p) \/ CloseLook(p) \/ CloseRelease(p)

Next == \E p \in Server :
  OpenStep(p) \/ EditStep(p) \/ WriteStep(p) \/ CloseStep(p) \/ Crash(p) \/ Start(p)

Spec == Init /\ [][Next]_vars

-----------------------------------------------------------------------------
(* A lock that a running server holds belongs to a session that server      *)
(* still has: closing removes it or gives it up, so nothing but a crash     *)
(* leaves a file locked for nobody, whatever runs beside (close_command,    *)
(* open_command and write_command write and delete the lock file).          *)
LockNamesLive ==
  (lock # NoLock /\ up[lock.pid] = "up") => lock.sid \in live[lock.pid]

(* A session that has had the lock since it opened publishes its own edits, *)
(* applied in turn to the text it opened, and nobody else's: the lock of    *)
(* open keeps the draft to it (check_lock, and the draft named for the      *)
(* file, not the session).                                                  *)
OwnEditsPublished ==
  [][\A p \in Server :
       (AtMain(p, "replace") /\ main'[p].at = "unlock" /\ main[p].sid \in held /\ ~disturbed)
         => file'.text = mine[main[p].sid]]_vars

(* Every text the file has had is in the file or in a backup the index      *)
(* lists (create_backup before each replacement and before each restore).   *)
PastBackedUp ==
  ~disturbed => past \subseteq {file.text} \cup {b.text : b \in index}
=============================================================================
