--------------------------- MODULE AddressedEdits ---------------------------
(* A document edited through addresses.  Three forms of it are files that   *)
(* callers change beside each other through the handlers of                 *)
(* ported/file_handlers: a text by line ranges, a YAML file by pointers, a  *)
(* JSON file by operations of the host's json_tree.  Two are documents a    *)
(* formatter holds in memory, edited through its document_mutate_* (JSON)   *)
(* or yaml_mutate_* calls and a clipboard.                                  *)
EXTENDS Values

CONSTANTS Caller,     \* callers of the file handlers
          Form,       \* the forms to look at
          Start,      \* Start[f]: what a document of form f is at first
          Payload,    \* values clients put in
          Address,    \* addresses clients use
          Pointer,    \* yaml_path arguments
          Ranges,     \* line ranges with their new lines, as one request
          Fits(_),    \* the documents the formatters look at (bound)
          MaxWrites   \* changes of the document (bound)

Forms == {"text", "file", "jfile", "json", "yaml"}  \* "file" is a YAML file
ASSUME EditsAssumption ==
  /\ Form \subseteq Forms
  /\ MaxWrites \in Nat

VARIABLES form,
          body,       \* the document; Missing when the file is not there
          clip,       \* JSON: the module's _CLIPBOARD, Null when it is None;
                      \* YAML: the fragment the client got, or Missing
          call,       \* call[c]: the request of c
          copies,     \* files: texts the backup directory has
          row,        \* YAML files: the text whose lines the row of the
                      \* database counts, and the one whose mtime it has
          writes,     \* changes so far
          exposed,    \* history: the text was put there while another
                      \* request had its backup behind it
          fresh       \* history: the last change was recorded in the row,
                      \* and nothing else changed the file meanwhile

record == <<row, fresh>>
files == <<call, copies, exposed, record>>
vars == <<form, body, clip, writes, files>>

Idle == [at |-> "idle"]
IsFile == form \in {"text", "file", "jfile"}
Recording == {"stat", "row"}

(* A request is one on a file and has what its step needs; only YAML and    *)
(* JSON files are backed up, and only a YAML file has a row.                *)
Fields == {"at", "op", "new", "copied", "lone", "time"}
TypeOK ==
  /\ form \in Form
  /\ call = [c \in Caller |-> call[c]]
  /\ \A c \in Caller :
       call[c] = Idle \/ /\ IsFile
                         /\ DOMAIN call[c] = Fields
                         /\ call[c].at \in {"backup", "write", "tree"} \cup Recording
                         /\ call[c].op \in {"save", "edit", "unlink"}
                         /\ call[c].copied \in BOOLEAN /\ call[c].lone \in BOOLEAN
                         /\ call[c].at = "tree" => form = "jfile"
  /\ writes \in 0..MaxWrites /\ exposed \in BOOLEAN /\ fresh \in BOOLEAN
  /\ form \notin {"file", "jfile"} => copies = {}
  /\ form # "file" => row = Missing

Init ==
  /\ form \in Form
  /\ body \in Start[form]
  /\ clip = IF form = "yaml" THEN Missing ELSE Null
  /\ call = [c \in Caller |-> Idle]
  /\ copies = {} /\ writes = 0 /\ exposed = FALSE
  /\ row = Missing /\ fresh = FALSE

-----------------------------------------------------------------------------
(* A request reads the file and works out its text before anything else; a  *)
(* refusal or a dry run ends it there.  The text handler makes no backup    *)
(* whatever the request says, and the others may be asked for none.         *)
Request(c, step, op, new, copied) ==
  /\ call' = [call EXCEPT ![c] = [at |-> step, op |-> op, new |-> new, copied |-> copied,
                                  lone |-> TRUE, time |-> Missing]]
  /\ UNCHANGED <<form, body, clip, copies, writes, exposed, record>>
Asked(c, op, new) ==
  /\ new = Missing => op = "unlink" /\ body # Missing
  /\ \E step \in IF form = "text" THEN {"write"} ELSE {"backup", "write"} :
       Request(c, step, op, new, step = "backup")

TextSave(c) ==
  form = "text" /\ \E new \in Start["text"] \ {Missing} : Asked(c, "save", new)
(* One range or several; a range that does not fit refuses the request.     *)
TextReplace(c) ==
  /\ form = "text" /\ body # Missing
  /\ \E ranges \in Ranges : Asked(c, "edit", Joined(Replaced(body.lines, ranges)))
(* A range of lines, or the file.                                           *)
TextDelete(c) ==
  /\ form = "text" /\ body # Missing
  /\ \/ \E r \in {ranges[1] : ranges \in Ranges} :
          Asked(c, "edit", Joined(LinesDeleted(body.lines, r)))
     \/ Asked(c, "unlink", Missing)

YamlSave(c) ==
  form = "file" /\ \E new \in Start["file"] \ {Missing} : Asked(c, "save", new)
(* Neither edits a document that is null.                                   *)
YamlReplaceAt(c) ==
  /\ form = "file" /\ body \notin {Missing, Null}
  /\ \E p \in Pointer, w \in Payload : Asked(c, "edit", PointerSet(body, p, w))
YamlDeleteAt(c) ==
  /\ form = "file" /\ body \notin {Missing, Null}
  /\ \E p \in Pointer : Asked(c, "edit", PointerDelete(body, p))
YamlDeleteFile(c) ==
  form = "file" /\ Asked(c, "unlink", Missing)

(* The JSON handler needs the database, builds the tree the host's json_tree *)
(* then saves, and asks for the backup there.                               *)
JsonFileTree(c, op, new) ==
  form = "jfile" /\ \E backup \in BOOLEAN : Request(c, "tree", op, new, backup)
JsonFileSave(c) == \E new \in Start["jfile"] \ {Missing} : JsonFileTree(c, "save", new)
(* modify_tree is the host's: any document may come of it.                  *)
JsonFileReplace(c) ==
  body # Missing /\ \E new \in Start["jfile"] \ {Missing} : JsonFileTree(c, "edit", new)
(* The whole file; operations that delete are a replace.                    *)
JsonFileDelete(c) ==
  form = "jfile" /\ Asked(c, "unlink", Missing)

Begin(c) ==
  /\ call[c] = Idle /\ writes < MaxWrites
  /\ \/ TextSave(c) \/ TextReplace(c) \/ TextDelete(c)
     \/ JsonFileSave(c) \/ JsonFileReplace(c) \/ JsonFileDelete(c)
     \/ YamlSave(c) \/ YamlReplaceAt(c) \/ YamlDeleteAt(c) \/ YamlDeleteFile(c)

To(c, step) == call' = [call EXCEPT ![c].at = step]
Over(c) == call' = [call EXCEPT ![c] = Idle]

(* A slip in Backup: a failed backup does not stop the request.             *)
BackupIgnored(c) ==
  /\ call[c].at = "backup"
  /\ IF body = Missing
     THEN (IF call[c].op = "save" THEN To(c, "write") ELSE Over(c)) /\ UNCHANGED copies
     ELSE \/ To(c, "write") /\ copies' = copies \cup {body}
          \/ To(c, "write") /\ UNCHANGED copies
  /\ UNCHANGED <<form, body, clip, writes, exposed, record>>

(* create_backup copies what is there by now; when it fails the request is  *)
(* refused.  A save of a file that is not there needs none, an edit and a   *)
(* deletion end.                                                            *)
Backup(c) ==
  /\ call[c].at = "backup"
  /\ IF body = Missing
     THEN (IF call[c].op = "save" THEN To(c, "write") ELSE Over(c)) /\ UNCHANGED copies
     ELSE \/ To(c, "write") /\ copies' = copies \cup {body}
          \/ Over(c) /\ UNCHANGED copies
  /\ UNCHANGED <<form, body, clip, writes, exposed, record>>

\* History: no other request is between its write and its row.
Lone(c) == \A d \in Caller \ {c} : call[d].at \notin Recording

(* The request of c goes on to step, or ends, after its change of the file. *)
(* History: those that have yet to record theirs are not the last any more. *)
GoesOn(c, step) ==
  IF step = "idle" THEN Idle ELSE [call[c] EXCEPT !.at = step, !.lone = Lone(c)]
Overtaken(d) ==
  IF call[d].at \in Recording THEN [call[d] EXCEPT !.lone = FALSE] ELSE call[d]

(* The file becomes new for the request of c.                               *)
Change(c, new, step) ==
  /\ writes < MaxWrites /\ writes' = writes + 1
  /\ body' = new
  /\ exposed' = (\E d \in Caller \ {c} : call[d].at = "write")
  /\ fresh' = FALSE
  /\ call' = [d \in Caller |-> IF d = c THEN GoesOn(c, step) ELSE Overtaken(d)]
  /\ UNCHANGED <<form, clip, row>>

(* write_text, which makes the file again if it is gone, or unlink.  A YAML *)
(* request that came with a database records the text it wrote.             *)
Write(c) ==
  /\ call[c].at = "write"
  /\ \E step \in {"idle"} \cup (IF form = "file" /\ call[c].op # "unlink" THEN {"stat"} ELSE {}) :
       Change(c, call[c].new, step)
  /\ UNCHANGED copies

(* save_json_tree_to_file, the host's: a backup and an atomic write, or     *)
(* neither.                                                                 *)
SaveTree(c) ==
  /\ call[c].at = "tree"
  /\ \/ /\ Change(c, call[c].new, "idle")
        /\ copies' = IF call[c].copied THEN copies \cup ({body} \ {Missing}) ELSE copies
     \/ Over(c) /\ UNCHANGED <<form, body, clip, copies, writes, exposed, record>>

(* persist_plain_text_file_metadata: the line count is that of the text the *)
(* request wrote, the mtime that of the file as it is by now; a file that   *)
(* is gone ends the request.                                                *)
Stat(c) ==
  /\ call[c].at = "stat"
  /\ call' = [call EXCEPT ![c] = IF body = Missing THEN Idle ELSE [@ EXCEPT !.at = "row", !.time = body]]
  /\ UNCHANGED <<form, body, clip, copies, writes, exposed, record>>

(* A slip in PutRow: the update leaves the mtime out.                       *)
PutRowLinesOnly(c) ==
  row' = IF row = Missing THEN [lines |-> call[c].new, time |-> call[c].time]
         ELSE [row EXCEPT !.lines = call[c].new]

(* One transaction updates the row or makes it.                             *)
PutRow(c) == row' = [lines |-> call[c].new, time |-> call[c].time]

(* Under the file's edit lock, which another process may hold too long; the *)
(* request has succeeded all the same.                                      *)
Record(c) ==
  /\ call[c].at = "row"
  /\ \/ PutRow(c) /\ fresh' = call[c].lone
     \/ UNCHANGED record
  /\ Over(c)
  /\ UNCHANGED <<form, body, clip, copies, writes, exposed>>

-----------------------------------------------------------------------------
(* The formatters: a call that is refused, or raises, leaves the document.  *)
Become(doc) ==
  /\ writes < MaxWrites /\ writes' = writes + 1
  /\ doc # Missing /\ Fits(doc)
  /\ body' = doc
  /\ UNCHANGED <<form, files>>

JsonEdit ==
  /\ form = "json"
  /\ UNCHANGED clip
  /\ \E a \in Address :
       \/ \E w \in Payload : Become(JsonSet(body, a, w))
       \/ \E w \in Payload : Become(JsonReplaceBlock(body, a, w))
       \/ \E w \in Payload, dedupe \in BOOLEAN : Become(JsonAppend(body, a, w, dedupe))
       \/ Become(JsonDelete(body, a))
       \/ \E target \in Address, position \in {"first", "last"} :
            Become(JsonMove(body, a, target, position))

(* A slip in JsonCopy: the address is not looked at.                        *)
JsonCopyUnchecked ==
  /\ form = "json"
  /\ \E a \in Address : clip' = Walk(body, JsonSegments(a))
  /\ UNCHANGED <<form, body, writes, files>>

JsonCopy ==
  /\ form = "json"
  /\ \E a \in Address : clip' = Walk(body, JsonSegments(a)) /\ clip' # Missing
  /\ UNCHANGED <<form, body, writes, files>>

(* The clipboard has the fragment even when the deletion is refused, as it  *)
(* is for the root.                                                         *)
JsonCut ==
  /\ form = "json"
  /\ \E a \in Address :
       /\ clip' = Walk(body, JsonSegments(a)) /\ clip' # Missing
       /\ \/ Become(JsonDelete(body, a))
          \/ JsonDelete(body, a) = Missing /\ UNCHANGED <<form, body, writes, files>>

JsonPaste ==
  /\ form = "json"
  /\ \E a \in Address, position \in {"first", "last"} : Become(JsonPasted(body, a, clip, position))
  /\ UNCHANGED clip

(* _CLIPBOARD is the module's: a formatter of another document fills it.    *)
OtherCopies ==
  /\ form = "json"
  /\ clip' \in Payload
  /\ UNCHANGED <<form, body, writes, files>>

YamlEdit ==
  /\ form = "yaml"
  /\ UNCHANGED clip
  /\ \E a \in Address :
       \/ \E w \in Payload : Become(YamlSet(body, a, w))
       \/ \E w \in Payload, dedupe \in BOOLEAN : Become(YamlAppend(body, a, w, dedupe))
       \/ Become(YamlDelete(body, a))
       \/ \E target \in Address : Become(YamlMove(body, a, target))

YamlCopy ==
  /\ form = "yaml"
  /\ \E a \in Address : clip' = YamlValue(body, a) /\ clip' # Missing
  /\ UNCHANGED <<form, body, writes, files>>

YamlCut ==
  /\ form = "yaml"
  /\ \E a \in Address : clip' = YamlValue(body, a) /\ clip' # Missing /\ Become(YamlDelete(body, a))

YamlPaste ==
  /\ form = "yaml"
  /\ clip # Missing
  /\ \E a \in Address : Become(YamlSet(body, a, clip)) \/ Become(YamlAppend(body, a, clip, FALSE))
  /\ UNCHANGED clip

Next ==
  \/ \E c \in Caller : Begin(c) \/ Backup(c) \/ Write(c) \/ SaveTree(c) \/ Stat(c) \/ Record(c)
  \/ JsonEdit \/ JsonCopy \/ JsonCut \/ JsonPaste \/ OtherCopies
  \/ YamlEdit \/ YamlCopy \/ YamlCut \/ YamlPaste

Spec == Init /\ [][Next]_vars

-----------------------------------------------------------------------------
(* A YAML or JSON text that is replaced or deleted is in the backups,       *)
(* however requests meet, unless it came between another's backup and its   *)
(* write, or the request that replaces it wanted no backup (YamlFileHandler *)
(* and JsonFileHandler refuse to write when the backup fails).              *)
ReplacedAreCopied ==
  [][body # Missing /\ form \in {"file", "jfile"} /\ body' # body =>
       \/ body \in copies' \/ exposed
       \/ \E c \in Caller : call'[c] # call[c] /\ call[c].at \in {"write", "tree"} /\ ~call[c].copied]_vars

(* A request that met no other between its write and its row leaves a row   *)
(* that describes the file, line count and mtime, until the next change     *)
(* (persist_plain_text_file_metadata takes the count from the request and   *)
(* the mtime from the disk, after the write).                               *)
RowDescribesFile == fresh => row = [lines |-> body, time |-> body]
=============================================================================
