------------------------ MODULE AddressedEdits_proofs ------------------------
(***************************************************************************)
(* Proofs about AddressedEdits, for every set of callers, documents,       *)
(* payloads, addresses and ranges, and for any bound on the documents: the *)
(* requests keep their shape; what a request replaces is in the backups;   *)
(* and a row that was written undisturbed describes the file.              *)
(***************************************************************************)
EXTENDS AddressedEdits, TLAPS

(* What the step of a request says about the file it is on.                 *)
StepsFit ==
  \A c \in Caller : call[c] # Idle =>
    /\ call[c].at = "backup" => form \in {"file", "jfile"} /\ call[c].copied
    /\ call[c].at = "write" /\ call[c].copied => form \in {"file", "jfile"}
    /\ call[c].at \in Recording => form = "file"

(* A copy that was made stands for the text a request is about to replace.  *)
CopyStands ==
  ~exposed =>
    \A c \in Caller : call[c] # Idle /\ call[c].at = "write" /\ call[c].copied =>
      body \in copies \cup {Missing}

(* A request that nothing has met since its write knows what is in the file.*)
KnowsFile ==
  \A c \in Caller : call[c] # Idle /\ call[c].lone =>
    /\ call[c].at \in Recording => body = call[c].new
    /\ call[c].at = "row" => body = call[c].time

RowOfFile == fresh => form = "file"

IInv == TypeOK /\ StepsFit /\ CopyStands /\ KnowsFile /\ RowOfFile /\ RowDescribesFile
-----------------------------------------------------------------------------
(* What a caller asks for, whatever handler it goes to.                     *)
Asks(c, step, op, new, copied) ==
  /\ IsFile
  /\ step \in {"backup", "write", "tree"} /\ op \in {"save", "edit", "unlink"}
  /\ copied \in BOOLEAN
  /\ step = "tree" => form = "jfile"
  /\ step = "backup" => form \in {"file", "jfile"} /\ copied
  /\ step = "write" => ~copied
  /\ Request(c, step, op, new, copied)

LEMMA AskedShape ==
  ASSUME NEW c \in Caller, NEW op \in {"save", "edit", "unlink"}, NEW new, IsFile, Asked(c, op, new)
  PROVE  \E step, copied : Asks(c, step, op, new, copied)
<1>1. PICK step \in IF form = "text" THEN {"write"} ELSE {"backup", "write"} :
        Request(c, step, op, new, step = "backup")
  BY DEF Asked
<1>2. Asks(c, step, op, new, step = "backup")
  BY <1>1 DEF Asks, IsFile
<1>3. QED BY <1>2

LEMMA BeginAsks ==
  ASSUME NEW c \in Caller, Begin(c)
  PROVE  \E step, op, new, copied : Asks(c, step, op, new, copied)
<1>1. ASSUME NEW op \in {"save", "edit", "unlink"}, NEW new, IsFile, Asked(c, op, new)
      PROVE  \E step, copied : Asks(c, step, op, new, copied)
  BY <1>1, AskedShape
<1>2. ASSUME NEW op \in {"save", "edit"}, NEW new, JsonFileTree(c, op, new)
      PROVE  \E step, copied : Asks(c, step, op, new, copied)
  <2>1. PICK copied \in BOOLEAN : Request(c, "tree", op, new, copied)
    BY <1>2 DEF JsonFileTree
  <2>2. Asks(c, "tree", op, new, copied)
    BY <1>2, <2>1 DEF Asks, JsonFileTree, IsFile
  <2>3. QED BY <2>2
<1>3. CASE TextSave(c) BY <1>1, <1>3 DEF TextSave, IsFile
<1>4. CASE TextReplace(c) BY <1>1, <1>4 DEF TextReplace, IsFile
<1>5. CASE TextDelete(c) BY <1>1, <1>5 DEF TextDelete, IsFile
<1>6. CASE JsonFileSave(c) BY <1>2, <1>6 DEF JsonFileSave
<1>7. CASE JsonFileReplace(c) BY <1>2, <1>7 DEF JsonFileReplace
<1>8. CASE JsonFileDelete(c) BY <1>1, <1>8 DEF JsonFileDelete, IsFile
<1>9. CASE YamlSave(c) BY <1>1, <1>9 DEF YamlSave, IsFile
<1>10. CASE YamlReplaceAt(c) BY <1>1, <1>10 DEF YamlReplaceAt, IsFile
<1>11. CASE YamlDeleteAt(c) BY <1>1, <1>11 DEF YamlDeleteAt, IsFile
<1>12. CASE YamlDeleteFile(c) BY <1>1, <1>12 DEF YamlDeleteFile, IsFile
<1>13. QED
  BY <1>3, <1>4, <1>5, <1>6, <1>7, <1>8, <1>9, <1>10, <1>11, <1>12 DEF Begin
-----------------------------------------------------------------------------
(* Requests.                                                                *)
LEMMA NotIdle ==
  ASSUME NEW r, DOMAIN r = Fields
  PROVE  r # Idle
BY DEF Idle, Fields

LEMMA AtSet ==
  ASSUME NEW r, DOMAIN r = Fields, NEW step
  PROVE  LET n == [r EXCEPT !.at = step]
         IN /\ DOMAIN n = Fields /\ n # Idle /\ n.at = step
            /\ n.op = r.op /\ n.new = r.new /\ n.copied = r.copied /\ n.lone = r.lone
BY NotIdle DEF Fields

LEMMA LoneUnset ==
  ASSUME NEW r, DOMAIN r = Fields
  PROVE  LET n == [r EXCEPT !.lone = FALSE]
         IN /\ DOMAIN n = Fields /\ n # Idle /\ ~n.lone /\ n.lone \in BOOLEAN
            /\ n.at = r.at /\ n.op = r.op /\ n.new = r.new /\ n.copied = r.copied
BY NotIdle DEF Fields

\* The request of one caller changes, the others wait.
LEMMA CallSet ==
  ASSUME TypeOK, NEW c \in Caller, NEW r, call' = [call EXCEPT ![c] = r]
  PROVE  /\ call'[c] = r
         /\ \A d \in Caller \ {c} : call'[d] = call[d]
         /\ call' = [d \in Caller |-> call'[d]]
BY DEF TypeOK

LEMMA AskStep ==
  ASSUME IInv, NEW c \in Caller, call[c] = Idle, NEW step, NEW op, NEW new, NEW copied,
         Asks(c, step, op, new, copied)
  PROVE  IInv'
<1> DEFINE r == [at |-> step, op |-> op, new |-> new, copied |-> copied, lone |-> TRUE, time |-> Missing]
<1>1. call' = [call EXCEPT ![c] = r] /\ UNCHANGED <<form, body, clip, copies, writes, exposed, row, fresh>>
  BY DEF Asks, Request, record
<1>2. /\ DOMAIN r = Fields /\ r.at = step /\ r.op = op /\ r.copied = copied /\ r.lone = TRUE
      /\ r.new = new
  BY DEF Fields
<1> HIDE DEF r
<1>3. /\ call'[c] = r
      /\ \A d \in Caller \ {c} : call'[d] = call[d]
      /\ call' = [d \in Caller |-> call'[d]]
  BY <1>1, CallSet DEF IInv
<1>4. TypeOK'
  BY <1>1, <1>2, <1>3 DEF IInv, TypeOK, Asks, IsFile
<1>5. StepsFit' /\ CopyStands' /\ KnowsFile'
  BY <1>1, <1>2, <1>3 DEF IInv, StepsFit, CopyStands, KnowsFile, Asks, Recording
<1>6. RowOfFile' /\ RowDescribesFile'
  BY <1>1 DEF IInv, RowOfFile, RowDescribesFile
<1>7. QED BY <1>4, <1>5, <1>6 DEF IInv

LEMMA BackupStep ==
  ASSUME IInv, NEW c \in Caller, Backup(c)
  PROVE  IInv'
<1>1. call[c] # Idle /\ DOMAIN call[c] = Fields /\ call[c].at = "backup" /\ call[c].copied
      /\ form \in {"file", "jfile"}
  BY DEF IInv, TypeOK, StepsFit, Backup, Idle
<1>2. PICK r : /\ call' = [call EXCEPT ![c] = r]
               /\ r = Idle \/ (r = [call[c] EXCEPT !.at = "write"] /\ body \in copies' \cup {Missing})
  BY DEF Backup, To, Over
<1>3. copies' \in {copies, copies \cup {body}}
      /\ UNCHANGED <<form, body, clip, writes, exposed, row, fresh>>
  BY DEF Backup, record
<1>4. r # Idle => /\ DOMAIN r = Fields /\ r.at = "write" /\ r.op = call[c].op
                  /\ r.copied = call[c].copied /\ r.lone = call[c].lone
  <2> DEFINE n == [call[c] EXCEPT !.at = "write"]
  <2>1. /\ DOMAIN n = Fields /\ n # Idle /\ n.at = "write"
        /\ n.op = call[c].op /\ n.new = call[c].new /\ n.copied = call[c].copied
        /\ n.lone = call[c].lone
    BY <1>1, AtSet
  <2> HIDE DEF n
  <2>2. r = Idle \/ r = n
    BY <1>2 DEF n
  <2>3. QED BY <2>1, <2>2
<1>5. /\ call'[c] = r
      /\ \A d \in Caller \ {c} : call'[d] = call[d]
      /\ call' = [d \in Caller |-> call'[d]]
  BY <1>2, CallSet DEF IInv
<1>6. TypeOK'
  BY <1>1, <1>3, <1>4, <1>5 DEF IInv, TypeOK, IsFile
<1>7. StepsFit' /\ CopyStands' /\ KnowsFile'
  BY <1>1, <1>2, <1>3, <1>4, <1>5 DEF IInv, StepsFit, CopyStands, KnowsFile, Recording
<1>8. RowOfFile' /\ RowDescribesFile'
  BY <1>3 DEF IInv, RowOfFile, RowDescribesFile
<1>9. QED BY <1>6, <1>7, <1>8 DEF IInv

(* A change of the file leaves no request of the others alone after it, and *)
(* that of c only when no other has written before and not yet recorded it. *)
LEMMA ChangedCalls ==
  ASSUME TypeOK, NEW c \in Caller, DOMAIN call[c] = Fields, NEW step, NEW new, Change(c, new, step)
  PROVE  /\ call' = [d \in Caller |-> call'[d]]
         /\ step = "idle" => call'[c] = Idle
         /\ step # "idle" => /\ DOMAIN call'[c] = Fields /\ call'[c] # Idle
                             /\ call'[c].at = step /\ call'[c].lone \in BOOLEAN
                             /\ call'[c].op = call[c].op /\ call'[c].new = call[c].new
                             /\ call'[c].copied = call[c].copied
         /\ \A d \in Caller \ {c} :
              \/ call[d] = Idle /\ call'[d] = Idle
              \/ /\ call[d] # Idle /\ DOMAIN call'[d] = Fields /\ call'[d] # Idle
                 /\ call'[d].at = call[d].at /\ call'[d].op = call[d].op
                 /\ call'[d].copied = call[d].copied /\ call'[d].lone \in BOOLEAN
                 /\ call'[d].at \in Recording => ~call'[d].lone
<1>1. /\ call' = [d \in Caller |-> call'[d]]
      /\ call'[c] = GoesOn(c, step)
      /\ \A d \in Caller \ {c} : call'[d] = Overtaken(d)
  BY DEF Change
<1>2. step # "idle" => /\ DOMAIN call'[c] = Fields /\ call'[c] # Idle
                       /\ call'[c].at = step /\ call'[c].lone \in BOOLEAN
                       /\ call'[c].op = call[c].op /\ call'[c].new = call[c].new
                       /\ call'[c].copied = call[c].copied
  <2> DEFINE n == [call[c] EXCEPT !.at = step, !.lone = Lone(c)]
  <2>1. Lone(c) \in BOOLEAN
    BY DEF Lone
  <2>2. DOMAIN n = Fields
    OBVIOUS
  <2>3. n.lone = Lone(c)
    BY DEF Fields
  <2>4. n.at = step /\ n.op = call[c].op /\ n.new = call[c].new /\ n.copied = call[c].copied
    BY DEF Fields
  <2>5. step # "idle" => call'[c] = n
    BY <1>1 DEF GoesOn
  <2> HIDE DEF n
  <2>6. QED BY <2>1, <2>2, <2>3, <2>4, <2>5, NotIdle
<1>3. ASSUME NEW d \in Caller \ {c}
      PROVE  \/ call[d] = Idle /\ call'[d] = Idle
             \/ /\ call[d] # Idle /\ DOMAIN call'[d] = Fields /\ call'[d] # Idle
                /\ call'[d].at = call[d].at /\ call'[d].op = call[d].op
                /\ call'[d].copied = call[d].copied /\ call'[d].lone \in BOOLEAN
                /\ call'[d].at \in Recording => ~call'[d].lone
  <2>1. CASE call[d] = Idle
    <3>1. Idle.at \notin Recording
      BY DEF Idle, Recording
    <3>2. QED BY <1>1, <2>1, <3>1 DEF Overtaken
  <2>2. CASE call[d] # Idle
    <3>1. DOMAIN call[d] = Fields /\ call[d].lone \in BOOLEAN
      BY <2>2 DEF TypeOK
    <3>2. CASE call[d].at \in Recording
      BY <1>1, <2>2, <3>1, <3>2, LoneUnset DEF Overtaken
    <3>3. CASE call[d].at \notin Recording
      BY <1>1, <2>2, <3>1, <3>3, NotIdle DEF Overtaken
    <3>4. QED BY <3>2, <3>3
  <2>3. QED BY <2>1, <2>2
<1>4. step = "idle" => call'[c] = Idle
  BY <1>1 DEF GoesOn
<1>5. QED BY <1>1, <1>2, <1>3, <1>4

LEMMA WriteStep ==
  ASSUME IInv, NEW c \in Caller, Write(c)
  PROVE  IInv'
<1>1. call[c] # Idle /\ DOMAIN call[c] = Fields /\ call[c].at = "write" /\ IsFile
  BY DEF IInv, TypeOK, Write, Idle
<1>2. PICK step \in {"idle"} \cup (IF form = "file" /\ call[c].op # "unlink" THEN {"stat"} ELSE {}) :
        Change(c, call[c].new, step)
  BY DEF Write
<1>3. /\ UNCHANGED <<form, copies, clip, row>> /\ ~fresh' /\ fresh' \in BOOLEAN
      /\ body' = call[c].new /\ writes' = writes + 1 /\ writes < MaxWrites
      /\ exposed' \in BOOLEAN
      /\ ~exposed' => \A d \in Caller \ {c} : call[d].at # "write"
  BY <1>2 DEF Write, Change
<1>4. /\ call' = [d \in Caller |-> call'[d]]
      /\ step = "idle" => call'[c] = Idle
      /\ step # "idle" => /\ DOMAIN call'[c] = Fields /\ call'[c] # Idle
                          /\ call'[c].at = step /\ call'[c].lone \in BOOLEAN
                          /\ call'[c].op = call[c].op /\ call'[c].new = call[c].new
                          /\ call'[c].copied = call[c].copied
      /\ \A d \in Caller \ {c} :
           \/ call[d] = Idle /\ call'[d] = Idle
           \/ /\ call[d] # Idle /\ DOMAIN call'[d] = Fields /\ call'[d] # Idle
              /\ call'[d].at = call[d].at /\ call'[d].op = call[d].op
              /\ call'[d].copied = call[d].copied /\ call'[d].lone \in BOOLEAN
              /\ call'[d].at \in Recording => ~call'[d].lone
  BY <1>1, <1>2, ChangedCalls DEF IInv
<1>5. step \in {"idle", "stat"} /\ (step = "stat" => form = "file")
  BY <1>2
<1>6. TypeOK'
  <2>1. writes' \in 0..MaxWrites
    BY <1>3, EditsAssumption DEF IInv, TypeOK
  <2>2. QED BY <1>1, <1>3, <1>4, <1>5, <2>1 DEF IInv, TypeOK, IsFile, Recording
<1>7. StepsFit'
  BY <1>3, <1>4, <1>5 DEF IInv, StepsFit, Recording
<1>8. CopyStands'
  BY <1>3, <1>4, <1>5 DEF CopyStands
<1>9. KnowsFile'
  BY <1>3, <1>4, <1>5 DEF KnowsFile, Recording
<1>10. RowOfFile' /\ RowDescribesFile'
  BY <1>3 DEF RowOfFile, RowDescribesFile
<1>11. QED BY <1>6, <1>7, <1>8, <1>9, <1>10 DEF IInv

\* A request is over and has changed nothing any more.
LEMMA OverStep ==
  ASSUME IInv, NEW c \in Caller, Over(c),
         UNCHANGED <<form, body, copies, writes, exposed, row, fresh>>
  PROVE  IInv'
<1>1. /\ call'[c] = Idle
      /\ \A d \in Caller \ {c} : call'[d] = call[d]
      /\ call' = [d \in Caller |-> call'[d]]
  BY CallSet DEF IInv, Over
<1>2. TypeOK'
  BY <1>1 DEF IInv, TypeOK, IsFile
<1>3. StepsFit' /\ CopyStands' /\ KnowsFile'
  BY <1>1 DEF IInv, StepsFit, CopyStands, KnowsFile
<1>4. RowOfFile' /\ RowDescribesFile'
  BY DEF IInv, RowOfFile, RowDescribesFile
<1>5. QED BY <1>2, <1>3, <1>4 DEF IInv

LEMMA SaveTreeStep ==
  ASSUME IInv, NEW c \in Caller, SaveTree(c)
  PROVE  IInv'
<1>1. call[c] # Idle /\ DOMAIN call[c] = Fields /\ form = "jfile"
  BY DEF IInv, TypeOK, SaveTree, Idle
<1>2. CASE Change(c, call[c].new, "idle")
  <2>1. /\ UNCHANGED <<form, row>> /\ ~fresh' /\ fresh' \in BOOLEAN
        /\ writes' = writes + 1 /\ writes < MaxWrites
        /\ exposed' \in BOOLEAN
        /\ ~exposed' => \A d \in Caller \ {c} : call[d].at # "write"
    BY <1>2 DEF Change
  <2>2. /\ call' = [d \in Caller |-> call'[d]]
        /\ call'[c] = Idle
        /\ \A d \in Caller \ {c} :
             \/ call[d] = Idle /\ call'[d] = Idle
             \/ /\ call[d] # Idle /\ DOMAIN call'[d] = Fields /\ call'[d] # Idle
                /\ call'[d].at = call[d].at /\ call'[d].op = call[d].op
                /\ call'[d].copied = call[d].copied /\ call'[d].lone \in BOOLEAN
                /\ call'[d].at \in Recording => ~call'[d].lone
    BY <1>1, <1>2, ChangedCalls DEF IInv
  <2>3. TypeOK'
    <3>1. writes' \in 0..MaxWrites
      BY <2>1, EditsAssumption DEF IInv, TypeOK
    <3>2. QED BY <1>1, <2>1, <2>2, <3>1 DEF IInv, TypeOK, IsFile
  <2>4. StepsFit'
    BY <2>1, <2>2 DEF IInv, StepsFit, Recording
  <2>5. CopyStands'
    BY <2>1, <2>2 DEF CopyStands
  <2>6. KnowsFile'
    BY <2>1, <2>2 DEF KnowsFile, Recording
  <2>7. RowOfFile' /\ RowDescribesFile'
    BY <2>1 DEF RowOfFile, RowDescribesFile
  <2>8. QED BY <2>3, <2>4, <2>5, <2>6, <2>7 DEF IInv
<1>3. CASE Over(c) /\ UNCHANGED <<form, body, clip, copies, writes, exposed, record>>
  BY <1>3, OverStep DEF record
<1>4. QED BY <1>2, <1>3 DEF SaveTree

LEMMA StatStep ==
  ASSUME IInv, NEW c \in Caller, Stat(c)
  PROVE  IInv'
<1>1. call[c] # Idle /\ DOMAIN call[c] = Fields /\ call[c].at = "stat" /\ form = "file"
  BY DEF IInv, TypeOK, StepsFit, Stat, Idle, Recording
<1>2. UNCHANGED <<form, body, clip, copies, writes, exposed, row, fresh>>
  BY DEF Stat, record
<1>3. CASE body = Missing
  <2>1. Over(c)
    BY <1>3 DEF Stat, Over
  <2>2. QED BY <1>2, <2>1, OverStep
<1>4. CASE body # Missing
  <2> DEFINE r == [call[c] EXCEPT !.at = "row", !.time = body]
  <2>1. call' = [call EXCEPT ![c] = r]
    BY <1>4 DEF Stat
  <2>2. /\ DOMAIN r = Fields /\ r # Idle /\ r.at = "row" /\ r.time = body
        /\ r.op = call[c].op /\ r.new = call[c].new /\ r.copied = call[c].copied
        /\ r.lone = call[c].lone
    BY <1>1, NotIdle DEF Fields
  <2> HIDE DEF r
  <2>3. /\ call'[c] = r
        /\ \A d \in Caller \ {c} : call'[d] = call[d]
        /\ call' = [d \in Caller |-> call'[d]]
    BY <2>1, CallSet DEF IInv
  <2>4. TypeOK'
    BY <1>1, <1>2, <2>2, <2>3 DEF IInv, TypeOK, IsFile, Recording
  <2>5. StepsFit' /\ CopyStands'
    BY <1>1, <1>2, <2>2, <2>3 DEF IInv, StepsFit, CopyStands, Recording
  <2>6. KnowsFile'
    <3>1. call'[c].lone => body' = call'[c].new /\ body' = call'[c].time
      BY <1>1, <1>2, <2>2, <2>3 DEF IInv, KnowsFile, Recording
    <3>2. QED BY <1>2, <2>3, <3>1 DEF IInv, KnowsFile
  <2>7. RowOfFile' /\ RowDescribesFile'
    BY <1>2 DEF IInv, RowOfFile, RowDescribesFile
  <2>8. QED BY <2>4, <2>5, <2>6, <2>7 DEF IInv
<1>5. QED BY <1>3, <1>4

(* What is recorded is what the request knows; one that was overtaken       *)
(* leaves a row that nobody trusts.                                         *)
LEMMA RecordStep ==
  ASSUME IInv, NEW c \in Caller, Record(c)
  PROVE  IInv'
<1>1. call[c] # Idle /\ DOMAIN call[c] = Fields /\ call[c].at = "row" /\ form = "file"
  BY DEF IInv, TypeOK, StepsFit, Record, Idle, Recording
<1>2. UNCHANGED <<form, body, clip, copies, writes, exposed>> /\ Over(c)
  BY DEF Record
<1>3. CASE PutRow(c) /\ fresh' = call[c].lone
  <2>1. /\ call'[c] = Idle
        /\ \A d \in Caller \ {c} : call'[d] = call[d]
        /\ call' = [d \in Caller |-> call'[d]]
    BY <1>2, CallSet DEF IInv, Over
  <2>2. fresh' \in BOOLEAN
    BY <1>1, <1>3 DEF IInv, TypeOK
  <2>3. TypeOK'
    BY <1>1, <1>2, <2>1, <2>2 DEF IInv, TypeOK, IsFile
  <2>4. StepsFit' /\ CopyStands' /\ KnowsFile'
    BY <1>2, <2>1 DEF IInv, StepsFit, CopyStands, KnowsFile
  <2>5. RowOfFile'
    BY <1>1, <1>2 DEF RowOfFile
  <2>6. RowDescribesFile'
    <3>1. fresh' => call[c].lone
      BY <1>3
    <3>2. call[c].lone => call[c].new = body /\ call[c].time = body
      BY <1>1 DEF IInv, KnowsFile, Recording
    <3>3. QED BY <1>2, <1>3, <3>1, <3>2 DEF PutRow, RowDescribesFile
  <2>7. QED BY <2>3, <2>4, <2>5, <2>6 DEF IInv
<1>4. CASE UNCHANGED record
  BY <1>2, <1>4, OverStep DEF record
<1>5. QED BY <1>3, <1>4 DEF Record

-----------------------------------------------------------------------------
(* The documents in memory are apart: no request is under way.              *)
InMemory == form \in {"json", "yaml"} /\ writes' \in 0..MaxWrites /\ UNCHANGED <<form, files>>

LEMMA FormatterInMemory ==
  ASSUME TypeOK,
         JsonEdit \/ JsonCopy \/ JsonCut \/ JsonPaste \/ OtherCopies
           \/ YamlEdit \/ YamlCopy \/ YamlCut \/ YamlPaste
  PROVE  InMemory
<1>1. writes \in 0..MaxWrites /\ (writes < MaxWrites => writes + 1 \in 0..MaxWrites)
  BY EditsAssumption DEF TypeOK
<1>2. ASSUME NEW doc, Become(doc)
      PROVE  writes' \in 0..MaxWrites /\ UNCHANGED <<form, files>>
  BY <1>1, <1>2 DEF Become
<1>3. ASSUME UNCHANGED <<form, body, writes, files>>
      PROVE  writes' \in 0..MaxWrites /\ UNCHANGED <<form, files>>
  BY <1>1, <1>3
<1>4. CASE JsonEdit BY <1>2, <1>4 DEF JsonEdit, InMemory
<1>5. CASE JsonCopy BY <1>3, <1>5 DEF JsonCopy, InMemory
<1>6. CASE JsonCut BY <1>2, <1>3, <1>6 DEF JsonCut, InMemory
<1>7. CASE JsonPaste BY <1>2, <1>7 DEF JsonPaste, InMemory
<1>8. CASE OtherCopies BY <1>3, <1>8 DEF OtherCopies, InMemory
<1>9. CASE YamlEdit BY <1>2, <1>9 DEF YamlEdit, InMemory
<1>10. CASE YamlCopy BY <1>3, <1>10 DEF YamlCopy, InMemory
<1>11. CASE YamlCut BY <1>2, <1>11 DEF YamlCut, InMemory
<1>12. CASE YamlPaste BY <1>2, <1>12 DEF YamlPaste, InMemory
<1>13. QED BY <1>4, <1>5, <1>6, <1>7, <1>8, <1>9, <1>10, <1>11, <1>12

LEMMA MemoryStep ==
  ASSUME IInv, InMemory
  PROVE  IInv'
<1>1. \A c \in Caller : call[c] = Idle
  BY DEF IInv, TypeOK, IsFile, InMemory
<1>2. UNCHANGED <<form, call, copies, exposed, row, fresh>>
  BY DEF InMemory, files, record
<1>3. ~fresh
  BY DEF IInv, RowOfFile, InMemory
<1>4. TypeOK'
  BY <1>1, <1>2 DEF IInv, TypeOK, InMemory
<1>5. StepsFit' /\ CopyStands' /\ KnowsFile'
  BY <1>1, <1>2 DEF StepsFit, CopyStands, KnowsFile
<1>6. RowOfFile' /\ RowDescribesFile'
  BY <1>2, <1>3 DEF RowOfFile, RowDescribesFile
<1>7. QED BY <1>4, <1>5, <1>6 DEF IInv

-----------------------------------------------------------------------------
LEMMA InitIInv == Init => IInv
<1> SUFFICES ASSUME Init PROVE IInv
  OBVIOUS
<1>1. call = [c \in Caller |-> call[c]] /\ \A c \in Caller : call[c] = Idle
  BY DEF Init
<1>2. TypeOK
  <2>1. writes = 0
    BY DEF Init
  <2>2. writes \in 0..MaxWrites
    BY <2>1, EditsAssumption
  <2>3. form \in Form /\ exposed \in BOOLEAN /\ fresh \in BOOLEAN /\ copies = {} /\ row = Missing
    BY DEF Init
  <2>4. QED BY <1>1, <2>2, <2>3 DEF TypeOK
<1>3. StepsFit /\ CopyStands /\ KnowsFile /\ RowOfFile /\ RowDescribesFile
  BY <1>1 DEF Init, StepsFit, CopyStands, KnowsFile, RowOfFile, RowDescribesFile
<1>4. QED BY <1>2, <1>3 DEF IInv

LEMMA NextIInv == IInv /\ [Next]_vars => IInv'
<1> SUFFICES ASSUME IInv, [Next]_vars PROVE IInv'
  OBVIOUS
<1>1. ASSUME NEW c \in Caller, Begin(c) PROVE IInv'
  <2>1. PICK step, op, new, copied : Asks(c, step, op, new, copied)
    BY <1>1, BeginAsks
  <2>2. call[c] = Idle
    BY <1>1 DEF Begin
  <2>3. QED BY <2>1, <2>2, AskStep
<1>2. ASSUME NEW c \in Caller, Backup(c) PROVE IInv'
  BY <1>2, BackupStep
<1>3. ASSUME NEW c \in Caller, Write(c) PROVE IInv'
  BY <1>3, WriteStep
<1>4. ASSUME NEW c \in Caller, SaveTree(c) PROVE IInv'
  BY <1>4, SaveTreeStep
<1>5. ASSUME NEW c \in Caller, Stat(c) PROVE IInv'
  BY <1>5, StatStep
<1>6. ASSUME NEW c \in Caller, Record(c) PROVE IInv'
  BY <1>6, RecordStep
<1>7. CASE JsonEdit \/ JsonCopy \/ JsonCut \/ JsonPaste \/ OtherCopies
             \/ YamlEdit \/ YamlCopy \/ YamlCut \/ YamlPaste
  BY <1>7, FormatterInMemory, MemoryStep DEF IInv
<1>8. CASE UNCHANGED vars
  <2>1. UNCHANGED <<form, body, call, copies, writes, exposed, row, fresh>>
    BY <1>8 DEF vars, files, record
  <2>2. TypeOK' /\ StepsFit'
    BY <2>1 DEF IInv, TypeOK, IsFile, StepsFit
  <2>3. CopyStands' /\ KnowsFile' /\ RowOfFile' /\ RowDescribesFile'
    BY <2>1 DEF IInv, CopyStands, KnowsFile, RowOfFile, RowDescribesFile
  <2>4. QED BY <2>2, <2>3 DEF IInv
<1>9. QED BY <1>1, <1>2, <1>3, <1>4, <1>5, <1>6, <1>7, <1>8 DEF Next

(* The requests of callers keep their shape in every step, and with them    *)
(* the backups and the row stay where the handlers have any.                *)
THEOREM EditsTypeCorrect == Spec => []TypeOK
<1>1. IInv => TypeOK
  BY DEF IInv
<1>2. QED BY <1>1, InitIInv, NextIInv, PTL DEF Spec

(* A row that a request wrote undisturbed describes the file until the next *)
(* change, whoever writes in between (persist_plain_text_file_metadata).    *)
THEOREM RowsDescribeFile == Spec => []RowDescribesFile
<1>1. IInv => RowDescribesFile
  BY DEF IInv
<1>2. QED BY <1>1, InitIInv, NextIInv, PTL DEF Spec

-----------------------------------------------------------------------------
(* What a step replaces.                                                    *)
CopyMade ==
  body # Missing /\ form \in {"file", "jfile"} /\ body' # body =>
    \/ body \in copies' \/ exposed
    \/ \E c \in Caller : call'[c] # call[c] /\ call[c].at \in {"write", "tree"} /\ ~call[c].copied

LEMMA WriteCopied ==
  ASSUME IInv, NEW c \in Caller, Write(c)
  PROVE  CopyMade
<1>1. call[c] # Idle /\ DOMAIN call[c] = Fields /\ call[c].at = "write"
  BY DEF IInv, TypeOK, Write, Idle
<1>2. CASE ~call[c].copied
  <2>1. PICK step \in {"idle", "stat"} : Change(c, call[c].new, step)
    BY DEF Write
  <2>2. step = "idle" => call'[c] = Idle
    BY <1>1, <2>1, ChangedCalls DEF IInv
  <2>3. step # "idle" => call'[c].at = step
    BY <1>1, <2>1, ChangedCalls DEF IInv
  <2>4. call'[c] # call[c]
    BY <1>1, <2>2, <2>3
  <2>5. QED BY <1>1, <1>2, <2>4 DEF CopyMade
<1>3. CASE call[c].copied
  <2>1. copies' = copies
    BY DEF Write
  <2>2. QED BY <1>1, <1>3, <2>1 DEF IInv, CopyStands, CopyMade
<1>4. QED BY <1>1, <1>2, <1>3 DEF IInv, TypeOK

LEMMA SaveTreeCopied ==
  ASSUME IInv, NEW c \in Caller, SaveTree(c)
  PROVE  CopyMade
<1>1. call[c] # Idle /\ DOMAIN call[c] = Fields /\ call[c].at = "tree"
  BY DEF IInv, TypeOK, SaveTree, Idle
<1>2. CASE Change(c, call[c].new, "idle")
           /\ copies' = IF call[c].copied THEN copies \cup ({body} \ {Missing}) ELSE copies
  <2>1. call'[c] = Idle
    BY <1>1, <1>2, ChangedCalls DEF IInv
  <2>2. QED BY <1>1, <1>2, <2>1 DEF CopyMade
<1>3. CASE UNCHANGED <<form, body, clip, copies, writes, exposed, record>>
  BY <1>3 DEF CopyMade
<1>4. QED BY <1>2, <1>3 DEF SaveTree

(* What a YAML or JSON request replaces or deletes is in the backups, or    *)
(* came between another's backup and its write, or none was asked for.      *)
THEOREM ReplacedIsCopied == Spec => ReplacedAreCopied
<1>1. IInv /\ [Next]_vars => [CopyMade]_vars
  <2> SUFFICES ASSUME IInv, Next PROVE CopyMade
    OBVIOUS
  <2>1. ASSUME NEW c \in Caller, Begin(c) \/ Backup(c) \/ Stat(c) \/ Record(c) PROVE CopyMade
    <3>1. CASE Begin(c)
      BY <3>1, BeginAsks DEF Asks, Request, CopyMade
    <3>2. QED BY <2>1, <3>1 DEF Backup, Stat, Record, CopyMade
  <2>2. ASSUME NEW c \in Caller, Write(c) PROVE CopyMade
    BY <2>2, WriteCopied
  <2>3. ASSUME NEW c \in Caller, SaveTree(c) PROVE CopyMade
    BY <2>3, SaveTreeCopied
  <2>4. CASE JsonEdit \/ JsonCopy \/ JsonCut \/ JsonPaste \/ OtherCopies
               \/ YamlEdit \/ YamlCopy \/ YamlCut \/ YamlPaste
    BY <2>4, FormatterInMemory DEF IInv, InMemory, CopyMade
  <2>5. QED BY <2>1, <2>2, <2>3, <2>4 DEF Next
<1>2. QED BY <1>1, InitIInv, NextIInv, PTL DEF Spec, ReplacedAreCopied, CopyMade
=============================================================================
