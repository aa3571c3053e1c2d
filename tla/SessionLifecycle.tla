-------------------------- MODULE SessionLifecycle --------------------------
(* An editor session from session_connect to its removal.  What makes up a  *)
(* session lies in three places: the CA server (the session itself, the     *)
(* editor's subordinate link, the file locks), the session directory and    *)
(* the client that wants it.  The handlers of session_api.py,               *)
(* invalid_session.py and buffer_open.py change one place at a time; the    *)
(* editor may die between two changes, the CA session may expire and the CA *)
(* server may be out of reach.  The commands of one server do not overlap;  *)
(* the disconnect of the command line is a process of its own, and runs     *)
(* beside them.                                                             *)
EXTENDS Naturals

CONSTANTS Session,    \* CA session ids; the session_key is the same id
          Other,      \* a CA session of another client
          File,       \* project files
          Faults,     \* which of the faults below happen
          MaxCrashes  \* bound: deaths of the server and of the command line

(* crash: the editor dies; outage: a call to the CA server gets no answer;  *)
(* remove: rmtree(ignore_errors=True) leaves the directory or a part of it; *)
(* git: the session's repository cannot be opened                           *)
ASSUME SessionAssumption ==
  /\ Other \notin Session
  /\ Faults \subseteq {"crash", "outage", "remove", "git"}
  /\ MaxCrashes \in Nat

VARIABLES
  alive,   \* CA sessions that are registered
  link,    \* CA sessions with the editor's subordinate link
  lockOf,  \* the lock of a file: empty or the one session that holds it
  dir,     \* the session directories
  up,      \* the editor process runs and has done its startup_sweep
  op,      \* the command each process has in progress, and its next step
  crashes, \* number of crashes so far
  torn,    \* history: CA resources given back, directory still there
  swept,   \* history: locks taken away by startup_sweep or by release_ca, and
           \* locks given back by a command that has still to record it
  stuck,   \* history: sessions of which a removal has failed
  crossed  \* history: sessions that the server and a disconnect which had
           \* read their settings had in hand at the same time

ca == <<alive, link, lockOf>>
past == <<torn, swept, stuck, crossed>>
vars == <<ca, dir, up, op, crashes, past>>

\* file states: as stored on CA, edited, uploaded by write_all alone
FileState == {"sent", "edited", "unsent"}
Buffers == UNION {[F -> [state : FileState, lock : BOOLEAN]] : F \in SUBSET File}

\* linked: ca_session_id and subordinate_server_uuid are recorded
Dir == [linked : BOOLEAN, bufs : Buffers]
NoDir == [is |-> "absent"]
Bare == [is |-> "without settings"]
Fresh == [linked |-> FALSE, bufs |-> <<>>]

Settings(s) == dir[s] \notin {NoDir, Bare}
Open(s) == IF Settings(s) THEN DOMAIN dir[s].bufs ELSE {}
Usable(s) == Settings(s) /\ dir[s].linked

Process == {"server", "cli"}
Idle == [kind |-> "none"]
Ready == up /\ op["server"] = Idle

On(p, s) == op[p] # Idle /\ op[p].s = s
At(p, kind, s, step) == On(p, s) /\ op[p].kind = kind /\ op[p].at = step
GoTo(p, step) == op' = [op EXCEPT ![p].at = step]
End(p) == op' = [op EXCEPT ![p] = Idle]
Start(command) == op' = [op EXCEPT !["server"] = command]

\* A disconnect of s has read its settings; a server command that begins now
\* may miss, or undo, what it does.
Leaving(s) == On("cli", s) /\ op["cli"].at # "guard"
Meet(s) == crossed' = IF Leaving(s) THEN crossed \cup {s} ELSE crossed

\* A session made from nothing, or removed, has no past, unless server and
\* disconnect are on it: what one removes the other may write again.
Forget(s) ==
  IF On("server", s) /\ Leaving(s) THEN UNCHANGED past
  ELSE /\ torn' = torn \ {s} /\ stuck' = stuck \ {s} /\ crossed' = crossed \ {s}
       /\ swept' = swept \ ({s} \X File)

\* A call to the CA server may get no answer.
MayFail == "outage" \in Faults

\* the step validate_params of EditorSessionCommand lets a command through
Served(s) == Ready /\ Usable(s) /\ s \in alive

(* seen, locks and linked: the settings as the command has read them        *)
Recorded == {"open", "edit", "write", "send", "drop"}

Op ==
  [kind : {"connect"}, s : Session, at : {"mkdir", "settings", "link", "write"},
   fresh : BOOLEAN, seen : Dir]
    \cup [kind : Recorded, s : Session, at : {"record"}, f : File, flag : BOOLEAN, seen : Dir]
    \cup [kind : {"close"}, s : Session, at : {"unlock", "guard", "locks", "link", "remove"},
          force : BOOLEAN, mode : {"session_close", "release_ca", "local_only"},
          locks : SUBSET File, linked : BOOLEAN]

(* Every variable keeps its shape; a file is locked by at most one session. *)
TypeOK ==
  /\ alive \subseteq Session /\ link \subseteq Session
  /\ up \in BOOLEAN
  /\ lockOf \in [File -> {{}} \cup {{s} : s \in Session \cup {Other}}]
  /\ dir \in [Session -> Dir \cup {NoDir, Bare}]
  /\ op \in [Process -> Op \cup {Idle}]
  /\ crashes \in 0..MaxCrashes
  /\ torn \subseteq Session
  /\ swept \subseteq Session \X File
  /\ stuck \subseteq Session
  /\ crossed \subseteq Session

Init ==
  /\ alive = Session /\ link = {}
  /\ lockOf = [f \in File |-> {}]
  /\ dir = [s \in Session |-> NoDir]
  /\ up = TRUE /\ op = [p \in Process |-> Idle]
  /\ crashes = 0
  /\ torn = {} /\ swept = {} /\ stuck = {} /\ crossed = {}
-----------------------------------------------------------------------------
\* The session expires or is deleted; its locks go when the server likes.
Expire(s) ==
  /\ s \in alive
  /\ alive' = alive \ {s}
  /\ link' = link \ {s}
  /\ UNCHANGED <<lockOf, dir, up, op, crashes, past>>

DropLock(s, f) ==
  /\ s \notin alive /\ lockOf[f] = {s}
  /\ lockOf' = [lockOf EXCEPT ![f] = {}]
  /\ UNCHANGED <<alive, link, dir, up, op, crashes, past>>

\* another client, which may be another editor, locks and unlocks files too
OtherLock(f) ==
  /\ lockOf[f] \in {{}, {Other}}
  /\ lockOf' = [lockOf EXCEPT ![f] = {Other} \ @]
  /\ UNCHANGED <<alive, link, dir, up, op, crashes, past>>
-----------------------------------------------------------------------------
(* session_connect: a directory with settings is opened again, any other    *)
(* is made from nothing, and removed again if the link cannot be made.      *)
Connect(s) ==
  [kind |-> "connect", s |-> s, at |-> IF Settings(s) THEN "link" ELSE "mkdir",
   fresh |-> ~Settings(s), seen |-> IF Settings(s) THEN dir[s] ELSE Fresh]

\* a connect that opens only a session whose settings are complete
BeginConnectWhole(s) ==
  /\ Ready /\ s \in alive
  /\ Settings(s) => dir[s].linked
  /\ Start(Connect(s)) /\ Meet(s)
  /\ UNCHANGED <<ca, dir, up, crashes, torn, swept, stuck>>

BeginConnect(s) ==
  /\ Ready /\ s \in alive
  /\ Start(Connect(s)) /\ Meet(s)
  /\ UNCHANGED <<ca, dir, up, crashes, torn, swept, stuck>>

MakeDir(s) ==
  /\ At("server", "connect", s, "mkdir")
  /\ dir' = [dir EXCEPT ![s] = Bare]
  /\ GoTo("server", "settings")
  /\ UNCHANGED <<ca, up, crashes, past>>

FirstSettings(s) ==
  /\ At("server", "connect", s, "settings")
  /\ dir' = [dir EXCEPT ![s] = Fresh]
  /\ Forget(s)
  /\ GoTo("server", "link")
  /\ UNCHANGED <<ca, up, crashes>>

\* ensure_session_git raises, outside the try that cleans up
GitFails(s) ==
  /\ At("server", "connect", s, "link")
  /\ "git" \in Faults
  /\ End("server")
  /\ UNCHANGED <<ca, dir, up, crashes, past>>

\* a link recorded whether or not CA has made it
RegisterUnchecked(s) ==
  /\ At("server", "connect", s, "link")
  /\ \/ MayFail /\ UNCHANGED link
     \/ link' = link \cup ({s} \cap alive)
  /\ GoTo("server", "write")
  /\ UNCHANGED <<alive, lockOf, dir, up, crashes, past>>

\* subordinate_session_create and subordinate_session_delete on CA
LinkMade(s) == link \cup ({s} \cap alive)
LinkGone(s) == link \ {s}

(* A link that is recorded is not made again; register_editor_subordinate   *)
(* probes the CA session once more.  A new session reads its settings back. *)
Register(s) ==
  LET o == op["server"]
  IN /\ At("server", "connect", s, "link")
     /\ o.fresh => Settings(s)
     /\ o.seen.linked \/ s \in alive
     /\ link' = IF o.seen.linked THEN link ELSE LinkMade(s)
     /\ GoTo("server", "write")
     /\ UNCHANGED <<alive, lockOf, dir, up, crashes, past>>

RemoveFresh(s) ==
  IF op["server"].fresh THEN dir' = [dir EXCEPT ![s] = NoDir] ELSE UNCHANGED dir

\* a call without an answer may still have made the link
RegisterFails(s) ==
  LET o == op["server"]
  IN /\ At("server", "connect", s, "link")
     /\ \/ o.fresh /\ ~Settings(s) /\ UNCHANGED link
        \/ ~o.seen.linked /\ s \notin alive /\ UNCHANGED link
        \/ ~o.seen.linked /\ MayFail /\ link' \in {link, LinkMade(s)}
     /\ RemoveFresh(s)
     /\ End("server")
     /\ UNCHANGED <<alive, lockOf, up, crashes, past>>

\* What was read before is written, in a directory that is gone as well.
WriteSettings(s) ==
  /\ At("server", "connect", s, "write")
  /\ dir' = [dir EXCEPT ![s] = [op["server"].seen EXCEPT !.linked = TRUE]]
  /\ End("server")
  /\ UNCHANGED <<ca, up, crashes, past>>
-----------------------------------------------------------------------------
(* Work in the session: a command does its work and records it then.        *)
Command(kind, s, f, flag) ==
  [kind |-> kind, s |-> s, at |-> "record", f |-> f, flag |-> flag, seen |-> dir[s]]

\* unsent edits: those the settings record, and the one being recorded
Edited(s) ==
  {f \in Open(s) : \/ dir[s].bufs[f].state = "edited"
                   \/ At("server", "edit", s, "record") /\ op["server"].f = f}

\* a file_open that does not learn of the lock of another session
BeginOpenShared(s, f) ==
  /\ Served(s) /\ f \notin Open(s)
  /\ lockOf' = [lockOf EXCEPT ![f] = @ \cup {s}]
  /\ Start(Command("open", s, f, FALSE)) /\ Meet(s)
  /\ UNCHANGED <<alive, link, dir, up, crashes, torn, swept, stuck>>

\* file_open takes the lock on CA with the download
BeginOpen(s, f) ==
  /\ Served(s) /\ f \notin Open(s)
  /\ lockOf[f] \subseteq {s}
  /\ lockOf' = [lockOf EXCEPT ![f] = {s}]
  /\ Start(Command("open", s, f, FALSE)) /\ Meet(s)
  /\ UNCHANGED <<alive, link, dir, up, crashes, torn, swept, stuck>>

\* execute_mutation writes the file of the buffer
BeginEdit(s, f) ==
  /\ Served(s) /\ f \in Open(s)
  /\ Start(Command("edit", s, f, FALSE)) /\ Meet(s)
  /\ UNCHANGED <<ca, dir, up, crashes, torn, swept, stuck>>

\* write_all uploads what is edited and keeps the lock
BeginWrite(s, f) ==
  /\ Served(s) /\ f \in Edited(s) /\ lockOf[f] \subseteq {s}
  /\ Start(Command("write", s, f, FALSE)) /\ Meet(s)
  /\ UNCHANGED <<ca, dir, up, crashes, torn, swept, stuck>>

\* file_send uploads and may give the lock back
BeginSend(s, f, release) ==
  /\ Served(s) /\ f \in Open(s) /\ lockOf[f] \subseteq {s}
  /\ lockOf' = IF release THEN [lockOf EXCEPT ![f] = {}] ELSE lockOf
  /\ swept' = IF release THEN swept \cup {<<s, f>>} ELSE swept
  /\ Start(Command("send", s, f, release)) /\ Meet(s)
  /\ UNCHANGED <<alive, link, dir, up, crashes, torn, stuck>>

\* file_close gives back only the lock of a buffer that is not saved
BeginDrop(s, f, force) ==
  /\ Served(s) /\ f \in Open(s)
  /\ dir[s].bufs[f].state = "edited" => force
  /\ \/ /\ dir[s].bufs[f].state # "sent" /\ dir[s].bufs[f].lock
        /\ lockOf' = [lockOf EXCEPT ![f] = @ \ {s}]
        /\ swept' = swept \cup {<<s, f>>}
     \/ /\ dir[s].bufs[f].state = "sent" \/ ~dir[s].bufs[f].lock \/ MayFail
        /\ UNCHANGED <<lockOf, swept>>
  /\ Start(Command("drop", s, f, force)) /\ Meet(s)
  /\ UNCHANGED <<alive, link, dir, up, crashes, torn, stuck>>

(* The settings are read anew and written back; when the directory goes in  *)
(* between, the write makes it again.                                       *)
Current(s) == IF Settings(s) THEN dir[s] ELSE op["server"].seen

Store(kind, s, bufs) ==
  /\ At("server", kind, s, "record")
  /\ dir' = [dir EXCEPT ![s] = [Current(s) EXCEPT !.bufs = bufs]]
  /\ End("server")
  /\ UNCHANGED <<ca, up, crashes, torn, stuck, crossed>>

StoreEntry(kind, s, entry) ==
  LET f == op["server"].f  bufs == Current(s).bufs
  IN Store(kind, s, [g \in DOMAIN bufs \cup {f} |-> IF g = f THEN entry ELSE bufs[g]])

Buffer(s) == Current(s).bufs[op["server"].f]

RecordOpen(s) ==
  /\ StoreEntry("open", s, [state |-> "sent", lock |-> TRUE])
  /\ swept' = swept \ {<<s, op["server"].f>>}

RecordEdit(s) ==
  StoreEntry("edit", s, [Buffer(s) EXCEPT !.state = "edited"]) /\ UNCHANGED swept

RecordWrite(s) ==
  StoreEntry("write", s, [Buffer(s) EXCEPT !.state = "unsent"]) /\ UNCHANGED swept

\* file_send records whether it has given the lock back
RecordSend(s) ==
  /\ StoreEntry("send", s,
       [state |-> "sent", lock |-> Buffer(s).lock /\ ~op["server"].flag])
  /\ swept' = IF op["server"].flag THEN swept \ {<<s, op["server"].f>>} ELSE swept

RecordDrop(s) ==
  LET bufs == Current(s).bufs
  IN /\ Store("drop", s, [g \in DOMAIN bufs \ {op["server"].f} |-> bufs[g]])
     /\ swept' = swept \ {<<s, op["server"].f>>}

\* read_session_settings raises when the directory is gone
SettingsGone(p, s) ==
  /\ On(p, s) /\ op[p].at \in {"record", "guard"}
  /\ ~Settings(s)
  /\ End(p)
  /\ UNCHANGED <<ca, dir, up, crashes, past>>
-----------------------------------------------------------------------------
(* session_close, and session_close_invalid for a session whose CA session  *)
(* is dead.  Both refuse while a buffer has unsent work, unless forced.     *)
ClosingOp(s, step, force, mode, locks) ==
  [kind |-> "close", s |-> s, at |-> step, force |-> force, mode |-> mode,
   locks |-> locks, linked |-> FALSE]

\* the recorded locks
Locks(s) == {f \in Open(s) : dir[s].bufs[f].lock}

\* a session_close that unlocks before it asks
BeginCloseUnlocking(s, force) ==
  /\ Served(s)
  /\ Start(ClosingOp(s, "unlock", force, "session_close", Locks(s))) /\ Meet(s)
  /\ UNCHANGED <<ca, dir, up, crashes, torn, swept, stuck>>

BeginClose(s, force) ==
  /\ Served(s)
  /\ Start(ClosingOp(s, "guard", force, "session_close", {})) /\ Meet(s)
  /\ UNCHANGED <<ca, dir, up, crashes, torn, swept, stuck>>

(* is_ca_session_dead: no id recorded, unknown to CA, or no answer at all   *)
Dead(s) == ~dir[s].linked \/ s \notin alive \/ MayFail

\* release_ca unlocks before close_session asks whether it may close
BeginCloseInvalid(s, mode, force) ==
  /\ Ready /\ Settings(s)
  /\ Dead(s)
  /\ Start(IF mode = "release_ca" THEN ClosingOp(s, "unlock", force, mode, Locks(s))
           ELSE ClosingOp(s, "guard", force, mode, {}))
  /\ Meet(s)
  /\ UNCHANGED <<ca, dir, up, crashes, torn, swept, stuck>>

\* a close that asks for nothing
RefusedNever(p, s) == FALSE

\* SESSION_HAS_UNSAVED_BUFFERS or SESSION_HAS_UNSENT_FILES
Refused(p, s) == ~op[p].force /\ \E f \in Open(s) : dir[s].bufs[f].state # "sent"

(* The settings are read once, for the question and for all that follows.   *)
Guard(p, s) ==
  /\ At(p, "close", s, "guard") /\ Settings(s)
  /\ IF Refused(p, s) THEN End(p) /\ UNCHANGED crossed
     ELSE /\ op' = [op EXCEPT ![p].locks = Locks(s), ![p].linked = dir[s].linked,
                              ![p].at = IF op[p].mode = "local_only" THEN "remove" ELSE "locks"]
          /\ crossed' = IF p = "cli" /\ On("server", s) THEN crossed \cup {s} ELSE crossed
  /\ UNCHANGED <<ca, dir, up, crashes, torn, swept, stuck>>

\* unlock_file for every recorded lock; a failure is only logged
ReleaseLocks(p, s) ==
  /\ At(p, "close", s, "unlock") \/ At(p, "close", s, "locks")
  /\ \E failed \in SUBSET op[p].locks :
       /\ failed # {} => MayFail
       /\ lockOf' = [f \in File |-> lockOf[f] \ IF f \in op[p].locks \ failed
                                                THEN {s} ELSE {}]
  /\ torn' = IF op[p].at = "locks" THEN torn \cup {s} ELSE torn
  /\ swept' = IF op[p].mode = "release_ca" THEN swept \cup ({s} \X op[p].locks) ELSE swept
  /\ GoTo(p, IF op[p].at = "unlock" THEN "guard" ELSE "link")
  /\ UNCHANGED <<alive, link, dir, up, crashes, stuck, crossed>>

\* a close that ends with the exception of a failed call
ReleaseLinkRaises(p, s) ==
  /\ At(p, "close", s, "link")
  /\ \/ MayFail /\ End(p) /\ UNCHANGED link
     \/ link' = LinkGone(s) /\ GoTo(p, "remove")
  /\ UNCHANGED <<alive, lockOf, dir, up, crashes, past>>

ReleaseLink(p, s) ==
  /\ At(p, "close", s, "link")
  /\ \/ MayFail /\ UNCHANGED link
     \/ link' = IF op[p].linked THEN LinkGone(s) ELSE link
  /\ GoTo(p, "remove")
  /\ UNCHANGED <<alive, lockOf, dir, up, crashes, past>>

\* what is left of a directory when its removal stops half-way
Rest(s) == [dir EXCEPT ![s] = IF @ = NoDir THEN NoDir ELSE Bare]

RemoveDir(p, s) ==
  /\ At(p, "close", s, "remove")
  /\ End(p)
  /\ \/ dir' = [dir EXCEPT ![s] = NoDir] /\ Forget(s)
     \/ /\ "remove" \in Faults
        /\ dir' \in {dir, Rest(s)}
        /\ stuck' = stuck \cup {s}
        /\ UNCHANGED <<torn, swept, crossed>>
  /\ UNCHANGED <<ca, up, crashes>>
-----------------------------------------------------------------------------
(* The editor or the command line dies, in the middle of a removal too; the *)
(* editor is started again, and init_api runs startup_sweep.                *)
Crash(p) ==
  /\ "crash" \in Faults /\ crashes < MaxCrashes
  /\ IF p = "server" THEN up /\ up' = FALSE ELSE op[p] # Idle /\ UNCHANGED up
  /\ End(p)
  /\ crashes' = crashes + 1
  /\ \/ UNCHANGED dir
     \/ op[p] # Idle /\ op[p].at = "remove" /\ dir' = Rest(op[p].s)
  /\ UNCHANGED <<ca, past>>

SweepDirs == dir' = [s \in Session |-> IF dir[s] = Bare THEN NoDir ELSE dir[s]]

\* startup_sweep: locks recorded by buffers that are not saved
Stale == {r \in Session \X File :
            LET s == r[1]  f == r[2]
            IN /\ f \in Open(s)
               /\ dir[s].bufs[f].lock /\ dir[s].bufs[f].state # "sent"}

Sweep ==
  /\ SweepDirs
  /\ \/ MayFail /\ UNCHANGED <<lockOf, swept>>
     \/ /\ lockOf' = [f \in File |-> {s \in lockOf[f] : <<s, f>> \notin Stale}]
        /\ swept' = swept \cup Stale
  /\ torn' = {s \in torn : dir[s] # Bare}
  /\ UNCHANGED <<alive, link, crashes, stuck, crossed>>

Restart == ~up /\ up' = TRUE /\ Sweep /\ UNCHANGED op

(* The ai-editor command line and a second server that does not get the     *)
(* port sweep the same directories, in the middle of a command too.         *)
OtherProcessSweeps == Sweep /\ UNCHANGED <<up, op>>

(* The command line registers no formatter and has no server uuid: when it  *)
(* has swept, every command that needs one or the other fails before it     *)
(* changes anything.  disconnect closes, does not ask first whether the CA  *)
(* session lives, and waits for no command of the server.                   *)
Disconnect(s, force) ==
  /\ op["cli"] = Idle
  /\ Sweep /\ UNCHANGED up
  /\ op' = [op EXCEPT !["cli"] = ClosingOp(s, "guard", force, "session_close", {})]
-----------------------------------------------------------------------------
ConnectStep(s) ==
  \/ MakeDir(s) \/ FirstSettings(s) \/ GitFails(s)
  \/ Register(s) \/ RegisterFails(s) \/ WriteSettings(s)

RecordStep(s) ==
  \/ RecordOpen(s) \/ RecordEdit(s) \/ RecordWrite(s) \/ RecordSend(s) \/ RecordDrop(s)

CloseStep(p, s) ==
  Guard(p, s) \/ ReleaseLocks(p, s) \/ ReleaseLink(p, s) \/ RemoveDir(p, s)

\* the rest of the command a process has in progress
Step(p) ==
  \E s \in Session :
    \/ p = "server" /\ (ConnectStep(s) \/ RecordStep(s))
    \/ CloseStep(p, s) \/ SettingsGone(p, s)

Work(s) ==
  \E f \in File : \/ BeginOpen(s, f) \/ BeginEdit(s, f) \/ BeginWrite(s, f)
                  \/ \E flag \in BOOLEAN : BeginSend(s, f, flag) \/ BeginDrop(s, f, flag)

Closing(s) ==
  \E force \in BOOLEAN :
    \/ BeginClose(s, force) \/ Disconnect(s, force)
    \/ \E mode \in {"release_ca", "local_only"} : BeginCloseInvalid(s, mode, force)

Next ==
  \/ \E s \in Session : Expire(s) \/ BeginConnect(s) \/ Work(s) \/ Closing(s)
  \/ \E p \in Process : Step(p) \/ Crash(p)
  \/ \E f \in File : OtherLock(f) \/ \E s \in Session : DropLock(s, f)
  \/ Restart \/ OtherProcessSweeps

(* A server command in progress runs on, the editor is started again after  *)
(* it died, and neither the CA server nor git fails every registration.     *)
Fairness ==
  /\ WF_vars(Step("server")) /\ WF_vars(Restart)
  /\ \A s \in Session : SF_vars(Register(s))

Spec == Init /\ [][Next]_vars /\ Fairness
-----------------------------------------------------------------------------
(* Unsent edits leave the disk only on a forced file_close, session_close,  *)
(* session_close_invalid or disconnect: no failed connect, refused or       *)
(* interrupted close, crash or start-up sweep takes them along.  A session  *)
(* that a disconnect crosses is left out: the disconnect asks for edits and *)
(* removes them later.  An edit counts from the write of its text, and a    *)
(* death of the editor before the settings are written forgets it.          *)
ForcedClose(s) == \E p \in Process : On(p, s) /\ op[p].kind = "close" /\ op[p].force
ForcedDrop(s, f) ==
  At("server", "drop", s, "record") /\ op["server"].f = f /\ op["server"].flag

EditsLostOnlyByForce ==
  [][\A s \in Session \ crossed : \A f \in Edited(s) :
       f \in Open(s)' \/ ForcedClose(s) \/ ForcedDrop(s, f)]_vars

(* A live session that records its subordinate link has it on CA, unless a  *)
(* close has begun to take the session apart or a disconnect crossed a      *)
(* command of the server.                                                   *)
LinkStands == \A s \in alive \ (torn \cup crossed) : Usable(s) => s \in link

(* The lock a buffer of a live session records is held by that session,     *)
(* unless a close has begun, a disconnect crossed a command, the start-up   *)
(* sweep or a release_ca took it, or its return has still to be recorded.   *)
LocksStand ==
  \A s \in alive \ (torn \cup crossed) : \A f \in Open(s) :
    dir[s].bufs[f].lock /\ <<s, f>> \notin swept => lockOf[f] = {s}

(* A close that has begun to give back what the session has on CA goes on   *)
(* to remove it, whatever CA answers: nothing but a crash, a failed removal *)
(* or a disconnect that crosses a command leaves a session half closed.     *)
CloseAllOrNothing ==
  Ready /\ op["cli"] = Idle /\ crashes = 0 => torn \subseteq stuck \cup crossed

(* A client that keeps calling session_connect for a live CA session has in *)
(* the end a session it can work in, whatever crash, failed removal or      *)
(* unanswered call came before, as long as nobody closes the session.       *)
ConnectRecovers ==
  \A s \in Session :
    /\ <>[](s \in alive /\ \A p \in Process : ~(On(p, s) /\ op[p].kind = "close"))
    /\ SF_vars(BeginConnect(s))
    => <>[]Usable(s)
=============================================================================
