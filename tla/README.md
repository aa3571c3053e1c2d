# Verification of the ai_editor

`ai_editor` is an editor service for agents. A client connects with a session
of the code analysis (CA) server, opens project files into buffers, edits
them as documents, undoes and redoes, and sends them back. This directory holds
TLA+ models of the parts where edits, ids and locks can be lost, the TLC runs
that check them, and TLAPS proofs. Paths below are relative to the repository
root.

Run a check with `tlc -config HistoryShared.cfg MCBufferHistory`, a proof with
`tlapm BufferSync_proofs.tla`. `PROJECT.json` lists the components, the runs,
the lines each definition translates, the hazards and the findings.

## 1. The system

| Part | State it keeps | Operations |
|---|---|---|
| Command layer (`ai_editor/commands`) | none | one coroutine per command, a synchronous body around one `SessionManager` call |
| `SessionManager` (`session_manager.py`) | `_buffer_cache` (formatter and tree per buffer), `repo_map` (git handles) | forwards every command; fills and sometimes drops the cache |
| Buffer operations (`sessions/buffer_*.py`, `write_all.py`) | one entry per buffer in `ses_settings.json`: `relative_path`, `file_id`, `lock_session_id`, `modified`, `saved`, `readonly`, `redo_stack`; the live buffer file | open, new, mutate, undo, redo, reload, save, save as, write all, close |
| Session git (`sessions/session_git.py`, `undo_redo.py`) | one repository per session: a branch per buffer, one HEAD, one index, one worktree | create branch, commit, restore, delete branch |
| Session lifecycle (`session_api.py`, `invalid_session.py`, `recovery.py`, `ca_session.py`) | the session directories | connect, reconnect, close, close invalid, startup sweep |
| Settings and files (`session_dir.py`, `writer.py`) | files, written with `os.replace` | read, merge one entry, write |
| Formatters (`formatters/`) | a tree of nodes with stable ids, an index of ids | parse, render, insert, delete, move, replace, batch; for JSON and YAML also edits by address and a clipboard |
| Sidecars (`formatters/sidecar.py`, `formatters/cst/sidecar.py`) | node ids of a source text on disk | save, load when the text still matches |
| Clipboard and conversion (`clipboard.py`, `formatters/conversion`) | `clipboard.json` | copy, cut, paste, convert |
| Search (`search/`) | none | find, find one, list units |
| CA server (external, `editor_core/ca_client.py`) | project files, advisory locks, registered sessions, subordinate links | download with a lock, upload, unlock, list |
| Service manager (`interfaces/`) | a pid file | start, stop, restart, status |
| Configuration (`config/`) | the configuration file and the generator's draft | generate, merge, validate, load |
| Ported edit sessions (`ported/universal_file_edit`) | a draft, a lock file and a backup directory per file; sessions in memory | open, edit, write (preview, then commit), close |
| Ported file handlers (`ported/file_handlers`) | the files, their backups, a metadata row | save, read, replace, delete for text, YAML and JSON |
| Contracts, metadata, registries | static after start-up | look up |

How they interact. A command names a session and a buffer. `SessionManager`
answers from its cache or loads the live buffer file through a formatter; a
mutation changes that tree, writes its rendering to the live file, stores the
flags, and commits a copy of the file on the buffer's branch. Undo and redo
restore the live file from commits and move the branch. Saves parse the live
file again and upload what the formatter renders. Locks live on the CA server;
the editor only records that it took one. The ported packages are a second
editor over files on disk, which only tests import; they share nothing with
the buffers but the repository.

What is hard here:

* **Three copies of one text.** The cached tree, the live file and the branch
  tip are written by different commands in different orders, and a fourth copy
  is on the server. Flags say which of them agree.
* **Partial failure.** `commit_buffer` swallows every exception. A batch edits
  in place. Several handlers store part of their result before a step that can
  fail.
* **Crash and restart.** Each file write is atomic, a handler is not. A restart
  runs the sweep, which touches locks and directories without settings.
* **Other sessions and processes.** Other CA sessions lock, write and unlock
  project files between any two commands. A second server or a use of the
  command line sweeps the same directories, and its disconnect removes one at any
  point of a server's command; two `aiedmgr` commands share one
  pid file and one draft; two edit sessions share one draft and one lock file.
* **Long legal sequences.** Whether a close is refused, or gives a lock back,
  depends on flags that eight commands set differently.

Within one server two buffer commands do not interleave: every handler is a
coroutine without an `await` around synchronous code, run on one event loop. So
in `BufferHistory` and `BufferSync` an action is a whole handler, or one that a
crash has cut short (`CrashIn..`), in `DocumentTree` a whole operation of a batch.
Where failures, other processes or threads come between the steps of one, a
module of its own takes the handler apart.

What each part has to guarantee:

* history: no command loses a text that undo could reach; buffers sharing a
  repository stay apart; a commit is on its branch or has not happened;
* synchronisation: no close drops an unsent edit unasked; no upload overwrites
  a version the buffer has not seen; a clean flag means the server has the
  text; every lock held belongs to a buffer that records it;
* lifecycle: what a session records agrees with the server's links and locks;
  a close is whole; a crash leaves something the next connect repairs;
* formatter trees: the document stays a tree, the text has all of it, what was
  deleted stays so, an id never comes to name another content;
* edits by address: what the address names is changed and nothing else;
* edit sessions and file handlers: who holds the lock publishes its own edits;
  no text is replaced before it has been copied;
* service manager: one instance, which the pid file names; commands end; a
  generated configuration is one the server starts from.

## 2. The modules

| Module | What it is |
|---|---|
| `BufferHistory.tla` | live file, commits, branches, redo stacks, tree cache |
| `UndoLog.tla` | what undo promises a client: one log of versions per buffer; BufferHistory implements it |
| `BranchStore.tla` | the abstract branches that BufferHistory is written against |
| `GitCommit.tla` | one session's repository step by step; implements `BranchStore` |
| `BufferSync.tla` | flags, paths and locks of the open buffers, the server's files, other sessions |
| `SessionLifecycle.tla` | connect, close, close invalid and sweep step by step, against links, locks and directories |
| `ServiceManager.tla` | `aiedmgr`, its pid file, the processes and the configuration |
| `DocumentTree.tla` | documents as trees with ids and an index, under the operations of a batch |
| `FormatterTree.tla` | the text of those trees in each format |
| `ReopenedTree.tla` | what a restart reads back of that text, and which ids it takes |
| `UniversalEdit.tla` | edit sessions of several servers over one file |
| `Values.tla` | pure functions: values, addresses, line ranges, reported changes |
| `AddressedEdits.tla` | documents and files edited with those functions: the requests and calls, with backups and the metadata row |
| `AddressedContents.tla` | what those edits do to the documents: the properties that look into a value |
| `MC*.tla` | constants for TLC |
| `X_proofs.tla` | theorems about `BufferHistory`, `BufferSync`, `GitCommit`, `SessionLifecycle`, `ServiceManager`, `DocumentTree`, `UniversalEdit` and `AddressedEdits` |

Beside some definitions stands a second one, "a slip in X": the definition with
a mistake that is easy to make there, such as a dropped guard or a forgotten
assignment. No specification uses them. Substituted for X they show that the
property about X can fail; `PROJECT.json` ("mutants") says which property each
one breaks.

### BufferHistory

| Variable | In the code |
|---|---|
| `phase` | is the buffer listed in `open_buffers` |
| `live` | the file at `buf_file_path` |
| `commits` | objects of `session_dir/git`; 0 is the root commit `session: init` |
| `tip` | `repo.heads["buf/<buffer_id>"].commit` |
| `redoStack` | `redo_stack` in the settings entry |
| `tree` | `SessionManager._buffer_cache` |
| `lost` | shas for which `_resolve_commit` returns None |

A text is a set of edits and a bit `raw`: was it written by something else than
the formatter. That is what the properties tell apart: which edits a version
contains, and that an opened file is not yet in the formatter's layout.

Actions and handlers: `OpenBuffer`, `NewBuffer`, `ReloadBuffer`, `CloseBuffer`,
`MutateBatch`, `MutateRefused`, `WriteAllSnapshot` are the handlers of those
names; `LoadTree` is any read that fills the cache; `Undo` and `UndoAtBeginning`
are the two outcomes of undo; `Redo`, `RedoPastEnd` and `RedoLost` the three of
redo; `Restart` forgets the cache. Every commit goes through `CommitBuffer`,
whose second outcome is the swallowed failure. `CrashInMutate`, `CrashInReload`,
`CrashInUndo` and `CrashInRedo` stop a handler between two of its writes,
`PruneCommits` is git's. `Faults` says which of these happen in an instance. An
open and a close have their crashes in `GitCommit`: what they leave is a branch
without an entry or an entry without a branch.

BufferHistory implements `UndoLog`, in which no buffer shares anything with
another: each has a log of its versions, undo cuts versions off its end and keeps
the log it leaves, redo goes back to a log that was left, an edit adds a version
and forgets what could be redone. A commit stands for the texts on the way to it
(`LogOf`), so the mapping takes the branch tip to the log and the redo stack to
the logs that undo left. A fault has steps of its own there (`RedoLost`,
`WriteCut`, `UndoCut`, `RedoCut`, a `Record` that records nothing), which say how much it may
take. How many steps an undo was asked for is no state, so UndoLog leaves it
open; that n steps are n versions, and that no undo is refused while there are
versions to go back (`UndoReachesFirst`), is `StepsCounted`.

`buf_checkout`, `buf_history` and `buf_diff` have no caller and are left out.
The HEAD, index and worktree inside one commit are not steps of this model: a
commit either lands on the buffer's branch or fails, at any time. That is the
behaviour `BranchStore` states and `GitCommit` is shown to have.

### GitCommit and BranchStore

| Variable | In the code |
|---|---|
| `live`, `recorded` | the buffer files, the entries of `open_buffers` |
| `tip`, `past` | the tree `repo.heads["buf/<id>"]` points to, and those it has pointed to |
| `head`, `index`, `work` | the one HEAD, index and worktree of the repository |
| `op` | the handler that runs and its next step |
| `failed` | history: a step has failed or the process has died |

Each git command of `create_buffer_branch`, `commit_buffer`,
`delete_buffer_branch` and `_normalize_default_branch` is an action
(`Prepare`, `MakeBranch`, `CommitNormalize` .. `UnlinkTrack`, `LeaveBranch`,
`DropBranch`); `Record`, `Cleanup` and `Forget` are the writes of the handlers
around them. Undo, and each step of a redo, writes the file (`BeginMove`) and
sets the reference to the commit the text was read from (`SetCommit`); between
the two it may fail or die. `Switch` is a checkout and
`Switchable` what makes git refuse one: a path that differs between the
branches and is dirty. `StepFails` stops any step; inside `commit_buffer` the
handler goes on as if nothing had happened, elsewhere it ends with the
exception. `CommitIndex` commits on whatever branch HEAD is on, as
`repo.index.commit` does: that this is the buffer's own is a consequence and
is proved (section 4). The refinement mapping forgets HEAD, index and worktree: the text of
a buffer on its branch is `tip[b][b]`. What holds after a failure is that the
branch is never half moved; that a tree holds only its own buffer's file
(`OwnFileOnly`) ceases to hold, because a file left in the shared index goes
into the next commit of any branch.

### BufferSync

| Variable | In the code |
|---|---|
| `stored` | files of the project on the CA server |
| `lockOf` | the server's advisory lock of each file: free, the editor's CA session, another |
| `buffers` | `open_buffers`, with the live text of each buffer |
| `sessionReadonly` | `readonly` of the session settings |

A path stands for its `file_id` too, since `resolve_file_id` maps one to the
other; an entry keeps both, because `save_as` lets them differ. `base` is a
history variable: the text last exchanged with the server. `past` is what undo
or redo could restore, BufferHistory seen from here. `Mutate` may write any
text, because the cached tree it renders may differ from the file.

`Api` chooses the commands and faults beyond open, new, mutate, close and
`file_send`, so that a run or a theorem can say for which clients a property
holds: `undo` (with redo), `reload`, `write_all`, `release_lock` (of
`file_send`), `bind` (a local buffer sent to a path, and its failed upload),
`save_as`, `sweep` (a restart of the editor), `conflict` and `unparsable` (two
ways an open fails after the download).

`crash` lets the editor die inside a command, after its first write and before
its flags: `CrashInMutate` leaves the new text under the old flags,
`CrashInReload` the server's text, `CrashInUpload` an upload nobody recorded. The
sweep of the next start is a step of its own. `cut` is a history variable: the
text of the buffer was written by a mutation whose flags a crash cut off.

A text is a set of edits, so that the layout in which a save exports what it has
parsed is not told apart. XML is more than layout: a save leaves out what the
renderer skips (FormatterTree).

Failed downloads and uploads change no state and need no step, with the one
exception that is modelled, `BindOnly`. `project_id` is one project. The
`close=True` path of `save_buffer` is passed by no command. Another session
writes only files it has locked, which is what the locks are for; a client that
ignores locks can overwrite anything and no property could hold.

### SessionLifecycle

| Variable | In the code |
|---|---|
| `alive`, `link`, `lockOf` | on the CA server: sessions, the editor's subordinate links, advisory locks |
| `dir` | a session directory: absent, without `ses_settings.json`, or its recorded link and the buffers with their flags and recorded locks |
| `up`, `op` | the server process; the command that the server and that the command line has in progress, its next step and what it has read |
| `torn`, `swept`, `stuck`, `crossed`, `crashes` | history, for the properties |

Every command is taken apart at its writes, on disk and on the CA server. A
connect makes the directory, writes settings without a link, registers the link
and writes the settings again (`MakeDir`, `FirstSettings`, `Register`,
`WriteSettings`); `RegisterFails` removes what a fresh connect made, `GitFails` is
an exception outside the `try` that would. A buffer command does its work and
records it in the settings afterwards: `BeginOpen` takes the lock, `BeginEdit`
writes the file, `BeginWrite` and `BeginSend` upload, `BeginDrop` unlocks, and
`RecordOpen` .. `RecordDrop` read the settings anew and write them
(`SettingsGone` when there are none to read). They keep of the buffers what the
closes look at: edited, sent, or written out but not sent. A close asks
(`Guard`), gives back any part of the locks and the link (`ReleaseLocks`,
`ReleaseLink`, whose failures are only logged) and removes the directory
(`RemoveDir`). `BeginCloseInvalid` has the modes `release_ca`, which unlocks
before it asks, and `local_only`; its probe takes any failure for a dead session.

The commands of the server follow one another. `Disconnect`, the only command of
the command line that gets further than its sweep, is a close in another process
(`cli.py:98`): it begins at any step of a server command, takes its own steps
between the server's, and may die by itself. `crossed` marks a session that a
disconnect had read the settings of while the server had a command on it.
`Restart` is `init_api` with its sweep; `OtherProcessSweeps` is a second server or
the command line on the same directories, in the middle of a command too.
`Faults` are crashes, calls without an answer, removals that fail and a
repository that does not open.

### ServiceManager

| Variable | In the code |
|---|---|
| `proc`, `bound` | editor processes and the port each read from the configuration |
| `pidFile` | the pid file |
| `config`, `draft` | the configuration and `<out>.tmp`, as far as the validator and the loader tell configurations apart |
| `cli` | the command in each terminal: its step and what it has seen |
| `crossed`, `accidents` | history: commands overlapped or were cut short |

A command looks at the pid file (`Look`), then at the health page (`ProbeFor..`)
and acts on what it saw. `Spawn`, `WritePid`, `CheckChild` and `Wait` are the
start; `Resolve`, `Gone` and `Kill` the stop with its two ways to end;
`UnlinkStale` the status that tidies up; a restart is a stop whose end looks
again. `WriteDraft` .. `Discard` are the generator, in which a disk error can
come at any step. `Bind` is `main`: it dies when it cannot build a setting or
another process has the port. `WriteByHand` and `Interrupt` are the operator.
`SIGTERM` makes no server exit by itself; it may (`Die`), or is killed.

### DocumentTree, FormatterTree and ReopenedTree

| Variable | In the code |
|---|---|
| `kids`, `index` | `TreeNode.children`, `_id_index` |
| `kind`, `word`, `key` | what of a node its renderer looks at |
| `mute` | XML: the node's own source is no document (see below) |
| `source` | YAML and HTML: the parsed snapshot that is rendered instead of the tree |
| `used`, `ops` | the ids given out; the operations so far |
| `careless` | history: a dead address was used, or a node put where its kind has no place |

`DocumentTree` has the state and its steps. `Insert`, `Delete`, `Move` and
`Replace` are the operations of a batch (`formatters/base.py` and each format's
own node builders); a refused operation changes nothing. What `_walk` reaches
from a node is `Below`, the least set that has the node and, with any node, its
children. `Without` takes a node out of one place of its parent's list, as
`children.remove` does; that there is no second place is `AttachedIsTree`. The
four nodes of `Shape` are the document each format starts from.

`FormatterTree` is each format's `render`. A node renders to what is its own
(`Own`) followed by the children the format goes down to (`Shown`): JSON shows
one member per key and the root's first child, text shows only paragraphs at the
root, XML skips every child whose own source does not parse as a document
(`mute`: comments, processing instructions and entities, of which parse made nodes
whose tag makes no element, and elements with text after them;
`xml/formatter.py:81`), with all below it, a Markdown block has no children,
YAML and HTML show the snapshot they kept (`Kept`). `Rendered` puts these
together from the root down, and `Listed` is the document as the tree has it,
every content once: `TextIsTree` compares the two.

`ReopenedTree` extends it with the way back. `Reread` is what parsing the text
gives (for a text `ReadText`: lines and blank lines make paragraphs), `Sidecar` what a batch leaves beside it, `Current` the checksum that ties
it to a text, and `Taken` decides, as `open_tree_with_sidecar` does, whether the
nodes take its ids again: `IdsSurviveRestart` pairs the text before a step with
the sidecar after it and the other way round, as a crash between the two writes
or an undo does. It speaks about documents whose root is still the one that
parse made (section 3).

### UniversalEdit

| Variable | In the code |
|---|---|
| `file`, `draft`, `lock` | the file, `<file>.draft`, `<file>.write` |
| `index` | `old_code/index.txt`, the backups listed for the file |
| `up`, `live` | servers and the `_sessions` of each |
| `main`, `work` | the request on a server's event loop; the edit in its thread |
| `opened`, `held`, `mine`, `wrote`, `past`, `disturbed` | history |

Every action is one file operation. An open checks the lock file, cleans up
after a dead server, makes draft and first backup, writes the lock and registers
the session (`OpenCheck` .. `OpenLock`). An edit reads the draft, truncates it
and fills it (`EditRead`, `EditTruncate`, `EditFill`) in a thread beside the
loop. A write without the lock is a preview that takes it (`Preview`); with the
lock it backs up, reads the draft, replaces the file and deletes the lock, or
restores the newest backup when the replacement fails (`Pick`, `Back`). A close
deletes the draft, looks at the lock and gives up what it may (`CloseLook`,
`CloseRelease`). An index that is being saved may be left truncated by a crash.

### Values and AddressedEdits

A value is a mapping, a list or a leaf. `JsonSegments`, `YamlSegments` and
`Tokens` are what the three interfaces make of an address: `json/address.py`
follows both the key and the bracket of a chunk, `yaml/address.py` only the
bracket, `yaml_handler.py` takes pointers. `Child`, `Put` and `Drop` follow,
set and remove one segment. In a YAML file an anchor and its aliases are one
object and `copy.deepcopy` keeps it one: such a container is an `Object` with a
name, and a change at one of its places is made at all of them (`Spread`); what
goes through a fragment is a copy (`Copied`). A key of a mapping may be a number,
which is another key than the string a client can write (`Numbers`). `JsonSet` .. `JsonPasted`, `YamlSet` .. `YamlMove`
and `PointerGet` .. `PointerDelete` are the calls, each with its own refusals
(`Missing`). `ParsedRange`, `Clamped`, `Shown` and `Replaced` are line ranges
as they are parsed, read and replaced. A text is its lines, of which one may be
blank, and whether a break ends the last (`Text`); what is joined and split again
loses that break, or a blank last line (`Joined`). `ChangedSpans`, `MergedSpans` and
`Reported` what a client is told of a change, for any alignment `difflib` may
find.

| Variable of AddressedEdits | In the code |
|---|---|
| `form` | text, YAML file, JSON file (through the handlers), JSON or YAML document (in memory) |
| `body` | the document, or that the file is gone |
| `clip` | JSON: `_CLIPBOARD`, which all documents share; YAML: the fragment a client holds |
| `call` | the request of each caller and its next step |
| `copies`, `row` | the backups; the metadata row of a YAML file |
| `exposed`, `fresh` | history |

A request on a file works out its text (`TextSave` .. `JsonFileDelete`), copies
what is there (`Backup`), replaces it (`Write`) and records it (`Stat`,
`Record`), with the other caller's steps in between. The JSON handler hands its
tree to the host, whose `json_tree` saves it (`SaveTree`); the host's modules
are not in the repository, so these steps are external. `Backup` is one step
here; its race on the index is in `UniversalEdit`. `AddressedEdits` has all of
the state and the steps; `AddressedContents` adds the operators that walk a
document down (`Leaves`, `Paths`, `Overlaid`) and the properties stated with
them, so that the steps can be reasoned about without recursion. `Fits` decides
which documents a run looks at, by their number of nodes.

What the code does with data, as modelled: a replacement or deletion of lines
loses the break after the last line; an index of a JSON mapping adds a member of
that name, which is a string as soon as the document is a tree again
(`json/formatter.py:72`), so that no deletion by index finds it; a move resolves its target when the source is gone;
the YAML bracket ignores its key; a filter may not be the last YAML chunk; a
null fragment is an empty clipboard; a refused cut of the root has filled the
clipboard all the same; a write of a file that is gone makes it again; a text
request never makes a backup.

## 3. The runs

### Runs that pass

| Run | Instance | Properties | What it shows |
|---|---|---|---|
| `HistoryShared` | 2 buffers, 3 commits, all faults, crashes inside mutate, reload, undo and redo | `HistoryOK` | the type invariant, and no commit, branch or redo entry crosses buffers |
| `HistoryGitFaults` | 1 buffer, 4 commits, failing commits, pruning | `RedoMeansCurrent`, `HistoryKept` | a redo never overwrites uncommitted text; no command loses a reachable text (one known exception) |
| `HistoryLog` | 2 buffers, 3 commits, failing commits, pruning | `HistoryIsLog`, `StepsCounted` | each buffer has a linear history of its own, whatever the others commit; n steps are n versions; undo reaches the first |
| `GitBranches` | 2 buffers, 2 texts, failures and crashes at every step | `TypeOK`, `OwnFileOnly`, `CommitsAreAtomic` | commits happen wholly or not at all, a reference moves only to the commit whose text was written; GitCommit implements BranchStore |
| `SyncNoUndo` | 1 buffer, 2 files, all commands and faults but undo | `TypeOK`, `ModifiedCoversEdits`, `UnforcedCloseKeepsEdits` | the modified flag covers every unsent edit and no unforced close drops one, but for a text whose flags a crash cut off |
| `SyncLocked` | 2 buffers, 2 files, `undo`, `reload`, `write_all` | `LockDiscipline`, `NoLostUpdate`, `CleanMeansStored` | a client that keeps its locks loses nothing and overwrites nothing |
| `Sessions` | 1 session, 1 file, other clients, a disconnect in another process, all faults, 1 crash | `TypeOK`, `LinkStands`, `LocksStand`, `CloseAllOrNothing`, `EditsLostOnlyByForce`, `ConnectRecovers` | disk and CA server agree on links and locks, closes are whole and edits go only by force where no disconnect crosses a command; a connect always recovers |
| `Services` | 2 terminals, 2 processes, 1 accident | `TypeOK`, `PidFileTrue`, `ConfigValidated`, `StrayServersStopped`, `CommandsEnd` | the pid file names the server; a generated configuration starts; strays can be stopped; commands end |
| `Trees` | 6 formats, 4 nodes and 3 more, 3 operations | `TypeOK`, `AttachedIsTree`, `TextIsTree`, `DeletedStaysDeleted`, `IdsSurviveRestart` | the document stays a tree, its text has all of it, ids keep their contents |
| `EditFiles` | 2 servers, 2 sessions, 1 edit, any number of writes | `TypeOK`, `LockNamesLive`, `PastBackedUp`, `OwnEditsPublished` | a lock belongs to a live session, which publishes its own edits; a replaced text has a backup |
| `Addressed` | 2 callers, 5 forms, 2 changes, documents of up to 7 nodes, aliases and numbers as keys in YAML | `ContentsOK`, `EditsStayAtAddress`, `MovesKeepValues`, `RangesReplaced`, `ReplacedAreCopied`, `RowDescribesFile` | an edit changes what it names; moves lose nothing; what is replaced is copied; the row describes the file |

### The run that ends in a violation

`UndoNotShown` checks `UndoVisible`: `buf_undo_metadata.py:73` tells a client to
verify an undo with `buf_get_state`, but undo restores the file while the cached
tree keeps the undone edit, and the next batch writes it back
(`session_manager.py:433`).

### Where the code and its documentation disagree otherwise

The models contain these behaviours; the properties above are stated so that
they hold beside them.

History and documents:

* **A failed batch stays half applied.** Its first operations are in the cached
  tree, are not reported, and reach the file with the next batch
  (`session_manager.py:395`).
* **A redo past the end moves the buffer and then reports an error**: it pops
  its way through the stack before it finds it empty (`undo_redo.py:147`).
  The stack is not shortened, so what there is to redo no longer lies ahead of
  the branch. If git then prunes a commit of the stack, a redo of several steps
  stops at it, on an older text, and clears the stack (`undo_redo.py:155`): the
  newer text is lost. `HistoryKept` excepts this step (`OutOfOrder`); without
  the exception it fails.
* **Undo after an upload leaves `modified` False** (`undo_redo.py:113`): with
  `undo` in `Api`, `ModifiedCoversEdits` and `UnforcedCloseKeepsEdits` fail.
* A crash in undo between `undo_redo.py:110` and `:113` makes the undone commit
  unreachable: add `crash` to the faults of `HistoryGitFaults` and `HistoryKept`
  fails.
* A closed buffer is still answered from the cache (`MutateRefused`,
  `session_manager.py:69`).
* YAML and HTML render the text they parsed, so structural edits never show and
  the sidecar's ids go to other contents. JSON drops the member name of a
  replaced node and hides the document behind a node inserted first at the
  root. Text shows no children of the root but paragraphs, and no empty ones.
  XML drops an element that text follows, and every comment, processing
  instruction and entity (`xml/formatter.py:81`); its empty root no longer parses.
  `TextIsTree` speaks of XML documents that have none of these.
* New ids for all nodes after a restart, though nothing was deleted: in XML when
  any of these was dropped, in a text when a blank line was put into a paragraph
  (`text/formatter.py:112`), which is two paragraphs to the next parse.
* A client may replace the root itself (`base.py:268`). Parse then puts a new
  root above what it brought, and the next use gives the replaced root's id to
  the new one, with other content, whenever the two trees have the same shape
  (`sidecar.py`): `IdsSurviveRestart` needs the root to be the parsed one.
* Deleting or replacing a node leaves its descendants' ids in the index
  (`base.py:246`); operations on them succeed on a detached tree. A move of a
  node onto itself detaches it.

Locks and uploads:

* **Closing a saved buffer keeps its lock** (`buffer_close.py:81`).
* **`save_as` writes the old file and records the new path**
  (`save_pipeline.py:188`): with `save_as` in `Api` `CleanMeansStored` fails. It
  has no readonly check either (`buffer_save.py:120`), and falls back to a
  fixed project id (`:146`).
* **A crash inside a mutation leaves an edit no flag covers.** The file is
  written at `buffer_mutation.py:68`, `modified` and `saved` at `:76`; a crash in
  between leaves the new text with the flags of the old one, and an unforced
  `file_close` or `session_close` drops it unasked (`buffer_close.py:64`, `:102`).
  `ModifiedCoversEdits` and `UnforcedCloseKeepsEdits` except such a text (`cut`);
  without the exception they fail.
* **After write all, `session_close` still refuses**: `write_all` clears
  `modified` and does not set `saved`.
* `file_close` drops a modified local buffer unasked (`CloseRefused`,
  `buffer_close.py:65`), which `session_close` would not.
* An open whose content does not parse (`buffer_open.py:98`) keeps the lock of
  the download (`OpenUnparsable`). One refused with `SESSION_LOCK_CONFLICT` has
  recorded a writable buffer (`OpenConflict`, `:122`), which then believes it
  holds a lock: that a recorded lock is held (`RecordedLockHeld`) is proved for
  clients without `conflict` in `Api` and false with it.
* After a restart or a `release_lock` the file is unlocked while its buffer may
  still be edited and sent (`StartupSweep`, `recovery.py:64`; `SaveTo`,
  `buffer_save.py:103`): add `sweep` or `release_lock` and `NoLostUpdate` fails.

Sessions and services:

* `close_invalid` takes a probe without an answer for a dead session
  (`invalid_session.py:57`) and unlocks before it is refused (`:159`).
  `LocksStand` leaves out the locks a `release_ca` or a sweep took.
* A crash after the link is deleted leaves settings that record it, and connect
  believes them (`session_api.py:54`); `LinkStands` leaves out sessions a close
  has begun to take apart.
* **A disconnect may cross a command of the server** (`cli.py:98`), which no lock
  prevents. One that falls between a server's registration and its settings write
  removes link and directory, and the write makes the directory again, since it
  creates what is missing (`session_dir.py:63`), with a link the CA server no
  longer has. One that asks for unsent edits before a mutation records its edit,
  and removes the directory after it, drops the edit unforced. The properties
  leave out the sessions to which this happened (`crossed`); without that they
  fail. `LocksStand` and `CloseAllOrNothing` likewise.
* An edit written and not yet recorded when the editor dies is on disk, but
  nothing recorded tells a close to ask for it; it counts as an edit of the
  session only up to the crash.
* A repository that does not open ends a first connect with the directory and
  its settings in place and no link (`session_api.py:102` is outside the `try`);
  the next connect finds them and registers.
* The sweep of any use of the command line releases the locks of a running
  server's sessions (`api_init.py:42`). The command line registers no formatter
  and no server id, so only `disconnect` does anything.
* A null configuration section passes every validation and stops the server at
  its start (`config_validator.py:99`, `main.py:42`). A restart stops the server
  before it validates. `generate-config mtls` cannot succeed: the merged section
  names no certificates. After a change of the port a start spawns a second
  editor and its pid file forgets the first.

Edit sessions and handlers:

* **A first write commits at once.** `write_command.py:144` says "First call (no
  matching lockfile): generate diff, write lockfile, return diff.", but the open
  has already written the lock file (`open_command.py:217`).
* A commit deletes the lock while its session lives on (`write_command.py:352`);
  the preview of any session then takes it over, whoever has it.
  `OwnEditsPublished` therefore speaks about sessions that have held the lock
  since they opened.
* A write may read a draft that an edit thread has just truncated
  (`text_draft_apply.py:113`), and publish an empty text. The property calls
  such overlaps `disturbed` and speaks about requests that do not meet; so does
  `PastBackedUp`, since an index that two backups save at once loses an entry
  (`backup_manager.py:193`) and a failed backup is not noticed
  (`write_command.py:323`).
* The universal open of a Python file fails, but has then removed a stale lock
  and draft, and made the file if asked to.
* Of two YAML requests that both read a file before either wrote it, the first
  edit is lost (`yaml_handler.py:452`); the text it wrote may be in no backup.
  `ReplacedAreCopied` excepts that text (`exposed`).
* **A path that a read lists may be refused.** `_collect_paths` promises "All JSON
  Pointer paths to nodes" (`yaml_handler.py:276`) and lists `str(k)` for every key,
  but `delete_at_path` (`:243`) looks the string up: below a key that is a number
  or a boolean the path is refused, or is that of a member whose key is the
  string. `EditsStayAtAddress` asks of every other listed path that it leads to
  its node.
* A set or delete below a YAML anchor or alias changes every place that has it
  (`yaml_handler.py:550`). `EditsStayAtAddress` says which places those are.
* **A change without ranges.** `save_preview` compares the texts
  (`text_handler.py:161`), the ranges come from their lines (`diff_support.py:79`):
  line 1 of `a\nb\n` written back as it was is `changed`, with no range and no line
  taken away, because the last break is lost. `ChangesReported` allows exactly
  this besides lines taken away.
* A read past the end of a text shows its last line; a replacement there is
  refused (`text_ranges.py:199`).

### Bounds and why they are enough

* `MaxCommits` bounds the repository of a run. With 4 a run can open, edit,
  undo and edit again (a branch that forks). Two buffers with
  3 commits can interleave commits in every order.
* `MaxRedo` 3 and `MaxSteps` 2 give redo stacks of several entries, steps that
  cross several commits, and steps beyond the end of both. `HistoryGitFaults`
  has `MaxSteps` 4, for a redo past the end of three entries. `HistoryShared` has
  `MaxRedo` 1, one redo entry per buffer: what it asks is whether an entry of
  one buffer can reach the other. `HistoryLog` has 2 and 2: two entries tell
  which one a redo takes, two steps which version an undo goes to. Its
  instance leaves out crashes, to which the theorem extends it.
* One edit already gives two texts; toggling it returns to an earlier text, as
  an edit that reverts another does. Two edits are used where a run must tell
  what an earlier batch left from what the next one adds.
* In BufferSync nothing grows: its runs are complete for their sets. One buffer
  reaches every flag combination; two buffers and two files are what it takes
  for a buffer to be opened twice, for two to meet on one file, or for a path
  and a `file_id` to differ.
* Buffer ids are interchangeable, and so are texts that are only compared,
  session ids, server pids and callers. `HistoryShared`, `HistoryLog`,
  `GitBranches`, `EditFiles` and `Addressed`, which have no liveness property, use symmetry.
* `GitBranches` has no bound: two buffers are what it takes to share an index,
  two texts to tell a commit from the one before. `past` is a set, so histories
  of any length are covered.
* `Sessions` looks at one key, since sessions share no state but the locks,
  which `Other` holds too. One key has several lives, with the same directory.
  One crash, of the server or of the command line, is enough for a half-made or a
  half-closed session; after it no second one is needed to meet the repair. One
  file gives every state of a buffer and of its lock; a close that gives back one
  lock of several is covered by the theorems, which hold for any files, and so do
  the properties of the run but `ConnectRecovers`, which is about no file.
* `Services` has two terminals and two processes: every race in `interfaces/`
  is between two commands, over a pid file that one process can take from
  another. `MaxAccidents` 1 allows an interrupted command or a configuration
  written by hand; by hand come another port, null sections, or one wrong value.
* `Trees` starts from four nodes, so that a node can have a sibling, a parent
  and a child, has room for three more (a block below a block counts for two)
  and three operations: any two that prepare and one that meets what they left,
  such as the use of a dead id. XML starts with every choice of `mute` below its
  top element.
* `EditFiles` has two servers, which may be one and its restart, and two
  sessions; every race needs two. `MaxText` 1 gives an edit; the file may be
  replaced any number of times, but only in two different seconds (`MaxTime` 1),
  the versions of one second being interchangeable for the restore that picks
  the newest (`Coarse`).
* `Addressed` has documents of up to seven nodes with the members `a` and `b`,
  addresses of one or two chunks with keys, indices inside and outside and a
  filter, and texts of up to three lines with every one or two ranges up to one
  past the end, with a final break and with a blank last line. A YAML file has a
  list in two places or a number as a key. Rewriting a value looks five
  containers deep (`Depth`): moves nest some values deeper, but what rewriting
  looks for, the objects with several places, stays right under the root of
  every document of this run. Two changes of a file by two callers give every
  order of two requests.

### Fairness and liveness

`BufferHistory`, `BufferSync`, `GitCommit`, `DocumentTree`, `UniversalEdit` and
`AddressedEdits` assume no fairness: every step is a command of a client, a step
of another session or a fault, none of which the code obliges to happen, or a
step of a handler that a crash may stop. Some of their runs set
`CHECK_DEADLOCK FALSE` because an instance comes to its bound or, in
`GitBranches`, to a state where git refuses every further command.

`SessionLifecycle` assumes that a command in progress runs on (`WF(Step)`), which
synchronous code on one loop does unless the process dies, that an editor that
died is started again (`WF(Restart)`), and that neither the CA server nor git
fails every registration (`SF(Register(s))`: weak fairness would not do, since a
failed call ends the command and the next one starts over). Nothing is assumed
about the command line.
`ConnectRecovers` adds its own premise, a client that keeps calling
`session_connect` while no close of the session, by the server or the command
line, is going on. `ServiceManager` assumes that a command runs on
(`WF(Proceed(c))`), its loops having time limits of fifteen and thirty seconds,
and that a started editor binds its port or dies (`WF(Bind(p))`). Nothing is
assumed about a server that was sent `SIGTERM`, nor about operators.

## 4. The proofs

Every safety property of the eight components that have a proof module is
proved, but for those that look into the contents of an addressed document.
The assumptions, each a named
`ASSUME` of the component: bounds are naturals; `Faults` and `Api` name known
members; a constant that stands for "none" is none of the things it stands
beside (`NoPath`, `NoPid`, `NoServer`, `NoSid`, `Other`, and `Absent`, since an
operator who writes a configuration leaves one); `UniversalEdit` has at least
one text to make and one second to make it in. Everything else is arbitrary,
the sets of buffers, paths, sessions, servers, terminals and processes
included.

Most invariants come in two parts. The first holds whatever happens and says
what each step of a handler has established by then; the second holds while the
history variable that marks a known defect (`disturbed`, `crossed`, `stuck`) is
false, and is what the property follows from.

BufferHistory:

* `TypeCorrect` and `BuffersIsolated` (`HistoryOK`), for any faults.
  `BranchIsolation` is inductive with the type invariant: a parent is older than
  its child and of the same buffer, so walking ancestors (`UndoAllowed`) never
  leaves the buffer, and a redo restores an entry that is the buffer's own.
* `TipIsLive` (`LiveMatchesTip`: with no failing commit and no crash, the file is
  always what the branch tip holds; no run has it) and `RedoIsSafe` (no crash). Both
  follow from lemmas on the effect of a step: a command either commits the live
  text, restores a commit's text together with the branch, or leaves both alone
  and, when it cannot commit, clears the redo stack.
* `HistoryIsKept` (no crash, but failing commits and pruning) proves
  `HistoryKept`, a property of steps, from two more invariants. `Resolvable`: a
  commit that git still has, has its whole history there, and so has the tip of
  every open buffer. `TrailsInOrder`: on the redo stack with the tip at its end,
  an earlier entry has in its past every text of a later one. A redo past the
  end breaks the plain form of that, since it leaves the stack under a branch
  that is back at its first entry. `InOrder` says what remains: the first entry
  has those texts, and the redo meets a commit that has the first entry in its
  history, so that, if the redo gets through, the first entry is not lost
  either. Each command is one of a few turns (`Stays`, `Extends`, `Undone`,
  `Redone`, `Stopped`; `NextTurns`), and each turn keeps the texts.
  `History` and `Ancestor` are recursive functions. That they exist, and that
  they stay inside a branch and do not change as commits are added, is proved
  without an induction theorem: a set of commits for which it fails has a least
  one (`LeastNumber`, from the well-foundedness of strict subsets), whose parent
  is older.
* `HistoryRefinesLog` (`HistoryIsLog`) and `UndoCountsSteps` (`StepsCounted`, with
  `NothingRefusedEarly` for its refusals), for any faults, crashes included.
  The log of a commit is a recursive function too; it exists and stays as it is
  when commits are added, by the same argument. From there two lemmas carry
  the refinement. `AncestorLog`: the n-th ancestor of a commit has the commit's log
  without its last n entries, and there is one exactly if the log is longer
  than n; so what `UndoAllowed` asks of a commit is what UndoLog asks of a log.
  `CommitRecords`: a commit on the tip appends its text to that buffer's log and
  changes no other. Each command is then one step of UndoLog (`StepsAsLog`),
  which needs of the model's invariants that branches do not cross
  (`BranchIsolation`) and that only a pruning git loses commits (`LostByPrune`):
  without pruning no redo may stop on the way.

BufferSync:

* `SyncTypeCorrect` and `SavedIsSent` (a saved buffer is a remote one with
  nothing modified), for every `Api`. The lemma `NextEntry`
  lists once the few ways a command makes an entry (entered, edited, undone,
  reloaded, bound, uploaded); the invariants of a single entry need only that
  list.
* `EditsCovered` and `CloseKeepsEdits`, when `undo` is not in `Api`, crashes
  inside a command included; with `undo`, or without the exception of a text
  whose flags a crash cut off (`cut`), they are false (section 3).
* `LocksDisciplined`, `LocksHeld`, `NoUpdateLost` and `CleanIsStored`, for a
  client with `Api` within `undo`, `reload`, `write_all`. `NoLostUpdate` is not
  inductive and does not follow from the type invariant: the lock has to be held
  from the open to the upload, by one buffer only, for the file the upload goes
  to, while the stored text is the one last exchanged. That is `LockDiscipline`.
  `LocksHeld`, that a recorded lock is held, is one of its consequences.
  `release_lock`, `sweep` and `conflict` break it as described in section 3,
  and `save_as` and `bind` upload to files no lock was taken for.

GitCommit, for any buffers and texts, with steps that fail and crashes. The
assumptions: `Master` is not a buffer, `NoFile` not a text, `NoBranch` neither a
text nor a tree.

* `GitTypeCorrect` and `GitRefinesStore`. That GitCommit implements
  `BranchStore` (`CommitsAreAtomic`) is a step simulation: of the steps of a
  handler only `MakeBranch`, `CommitIndex`, `SetCommit` and `DropBranch` touch
  a branch and each is one step of BranchStore; the others leave the branches
  alone. `CommitIndex` commits the shared index to HEAD, so the simulation needs
  an invariant on where the handler has come to (`Progress`): at the copy, the
  add and the commit HEAD is on the buffer's branch; at the commit its entry in
  the index is the live text, which is what BranchStore's commit writes; when
  the branch is dropped HEAD is elsewhere. It holds after failures and crashes
  too, because a step that fails goes to none of these places.
* `OnlyOwnFiles`, while no step has failed. `OwnFileOnly` is not inductive: the
  invariant adds that HEAD is away from `master` only between a commit's
  checkout and its return (`AwayFromMaster`) and that the index then holds
  nothing but the file of the branch checked out (`CleanIndex`), which is what
  every checkout back to `master` restores.

SessionLifecycle, for any sessions and files, any number of crashes, and a
disconnect that takes its steps anywhere between those of the server:

* `SessionTypeCorrect`, `LinkStandsAlways` (`LinkStands`), `LocksStandAlways`
  (`LocksStand`), `ClosesWhole` (`CloseAllOrNothing`) and `EditsAreKept`
  (`EditsLostOnlyByForce`, an action property) follow from one invariant. None is
  inductive by itself, because a command relies at its next step on what it read
  or did at an earlier one. `CommandsOK` says for the command of each process
  what that is (`Sound`): between its registration and its settings write a
  connect has its link on CA (`ConnectOK`); what an open has locked is still
  locked by it and still unknown to the settings, and a command that read an
  entry still finds it (`RecordOK`); a close past its guard has been forced or
  has found everything sent, and nothing has been edited since (`CloseOK`).
  `LinkOf`, `LocksOf` and `HalfOf` are the three invariant properties, session by
  session.
* The other process breaks each of these facts, so they are claimed of sessions
  that are not `crossed`. That this leaves nothing out is `Apart`: wherever server
  and disconnect are on one session and the disconnect has read its settings, the
  session is marked, whichever of the two came first. What remains true of a
  marked session is that its directory is as the server's command read it or is
  gone (`AsRead`), which the type invariant needs of a command that records.

ServiceManager, for any terminals, processes and configurations written by hand:

* `ServiceTypeCorrect`, however commands cross. `PidFileStaysTrue`
  (`PidFileTrue`) and `ConfigStaysValidated` (`ConfigValidated`), while they do
  not. A command acts on what it saw one or two steps earlier, so the invariant
  (`Course`) follows each from step to step: what it saw of the pid file and the
  health page is still so; past the stop no editor lives; from the spawn to the
  pid file the one that lives is the child; a poll waits for all that live.
  `ConfigSound` and `DraftOf` are the same for the generator, whose draft nobody
  else touches, and whose last check is the one the editor makes at its start.

UniversalEdit, for any servers, sessions and seconds:

* `EditTypeCorrect` and `LocksNameLive` (`LockNamesLive`), with deaths and
  overlaps. The lock is written by one process and read by others; the invariant
  says which session a request is about at each step, and where that session
  lives (`LoopRequests`, `ThreadRequests`): no server has registered one that is
  still being opened (`OpenedOnce`), and the close that found a lock not its own
  does not find it its own later.
* `PastIsBackedUp` (`PastBackedUp`) and `PublishesOwnEdits` (`OwnEditsPublished`,
  an action property), while no request has met another or been cut short.
  `Undisturbed` says what each step then knows of draft, file and backups: of
  the sessions that have not written only the one with the lock is left
  (`OneWriter`), the draft is its last edit (`OwnDraft`), and a
  request that is past its backup has the text of the file in the index.

DocumentTree, for any number of nodes and operations, every format and whatever
addresses a client gives:

* `TreeTypeCorrect`, `DocumentStaysTree` (`AttachedIsTree`) and
  `DeletedStayDeleted` (`DeletedStaysDeleted`, an action property).
  `AttachedIsTree` compares the number of children with the number of nodes
  that are somebody's child. The invariant says it node by node (`OneParent`): no two
  attached parents share a child, the root is under none, and no list has a child
  twice. Ids that were not given out have no children (`BlankFresh`), so a new
  node brings nothing along. Each operation is then a question of what is below
  the root afterwards. `Below` is a least set, so `AttachedLeast` answers it
  without induction: what is closed under children after the step contains what
  is attached after it. The hard case is a move into another parent: the moved
  node's own subtree hangs together only if the target is not in it, which
  `Move` checks, except for the node itself: the node is then detached with all
  it has, which is still a tree. The premise that `Node` is an initial
  interval with 4 in it is what ids are: they are given out in order, after the
  four of the document at the start.
* `RenderedInFull` (`TextIsTree`), about `FormatterTree`. Nothing is lost from
  the text if at every node of the document the children a format goes down to
  are its children, all of them and in order (`AllShown`, for which `WholeTree`
  needs no induction: the two texts are then one function). That is not
  inductive, because a renderer looks at kinds: a text root shows paragraphs
  only, a scalar and a line show nothing below them, a mapping merges members
  without a key, the roots of JSON and XML show their first child. The invariant
  `Regular` is the grammar that follows from using live addresses and fitting
  places: in a text, lines hang below paragraphs and paragraphs below the root;
  in JSON the members of a mapping have keys and a scalar has no children; a
  JSON or XML root has one child; nothing but the root is of kind `root`. It
  rests on `NothingKept`: what these three formats parse they do not keep.

AddressedEdits, for any callers, files, documents, edits and any choice of the
documents to look at:

* `EditsTypeCorrect`: no request is on a document in memory, a request carries
  what its step needs (`TypeOK`).
* `ReplacedIsCopied` (`ReplacedAreCopied`, an action property). A backup copies
  the text that is there and its request replaces the text that is there later;
  the invariant (`CopyStands`) says that in between the file still has a text that
  is in the backups, unless the last change came when some request was about to
  write (`exposed`).
* `RowsDescribeFile` (`RowDescribesFile`). A row is written in two steps after
  the file. As long as no other request is between its own write and its row
  (`lone`), a request still knows the text of the file (`KnowsFile`) and the time
  it took is that text's; `fresh` is set only by such a request.

Only model-checked:

* `ConnectRecovers`, `StrayServersStopped` and `CommandsEnd`, which are liveness
  under fairness.
* `IdsSurviveRestart`: parsing descends the tree by `RECURSIVE` operators, which
  the provers cannot reason about, and what it returns would need an induction
  over the text.
* What is stated about the contents of a document (`ContentsOK`,
  `EditsStayAtAddress`, `MovesKeepValues`, `RangesReplaced`), which recursive
  operators walk.

## 5. Not modelled, and why

* The CST formatter and its query language. `MetadataWrapper` copies the module,
  so the index has a single node, and `open_tree` overwrites the tree that
  render reads: every batch on Python source fails and there is no state to
  model until that is repaired.
* The parsers of the formats and the matching of selectors: libraries and pure
  functions. A search fills the tree cache, which `LoadTree` does, and then ends
  in a `TypeError`, since it passes `scope=` to an `iter_units` that takes no
  argument (`search.py:64`, `base.py:171`).
* The clipboard of a session and format conversion: `SessionManager` calls
  `clipboard.py` with other arguments than it declares (`session_manager.py:458`,
  `clipboard.py:49`), so the code as written ends in a `TypeError` before any
  state changes. `paste_fragment` of the formatters is reached no other way.
* Paths are abstract. How `project_paths.py` and `session_dir.py` normalise them is
  left out, and with it that an input is compared with a path stored as it was
  given (`session_dir.py:158`).
* `resolve_buffer_file_path` falls back to the copy in the git worktree when the
  live file is gone (`session_dir.py:55`). In `GitCommit` a buffer whose live file
  an interrupted close removed can be neither edited nor closed; in the code it
  can be loaded from that copy if a failed commit left one there.
* Project ids: BufferSync has one project.
* YAML values that contain themselves, and objects that have several places deep
  inside what a fragment copies. Line breaks inside a line a client gives.
* Of the service manager, a pid that another program has taken
  (`service_manager.py:199` would stop it), logs and their printing.
* Of `ported/`: restoring, deleting and clearing backups by hand, which nothing
  calls; the SHA policy; tree drafts and sidecars, which raise
  `NotImplementedError`; the Python handler, a stub. The host's `json_tree` and
  `file_edit_lock` are not in the repository: `json_handler.py` cannot be
  imported without them, and a YAML request that comes with a database fails
  after its text was written. `AddressedEdits` takes them for what their callers
  expect.
* Command metadata, schemas, contracts and registries hold no state; the scripts
  are generators of planning documents.

## 6. Plan

Done: `BufferHistory` and its refinement of `UndoLog`, `BufferSync`, `GitCommit`
and its refinement of `BranchStore`, `SessionLifecycle`, `ServiceManager` with
the configuration, `DocumentTree` with `FormatterTree` and `UniversalEdit`, all
with proofs; `ReopenedTree` with the sidecars; `Values`, `AddressedEdits` (with
proofs) and `AddressedContents`.

Next, in this order:

1. A composition of `BufferHistory` and `BufferSync` in which `past` is
   BufferHistory's.
2. The normalisation of paths as operators checked against a reference.
3. CST documents and the session clipboard, once their callers can reach them.
