----------------------- MODULE ServiceManager_proofs -----------------------
(***************************************************************************)
(* Proofs about ServiceManager, for every set of terminals, processes and  *)
(* configurations an operator may write: the variables keep their sets     *)
(* however commands cross; and as long as they do not, the pid file names  *)
(* the live server between commands and a configuration that no operator   *)
(* wrote is one the server starts from.                                    *)
(***************************************************************************)
EXTENDS ServiceManager, TLAPS

(* What holds however commands cross: a pid that was seen alive is a pid, a *)
(* generator that goes on has merged something, and whoever got past        *)
(* _load_raw_config, or was spawned by one who did, leaves a configuration. *)
KindChosen == \A c \in Cli : cli[c] # Idle /\ cli[c].at = "final" => cli[c].kind # "none"
PidsSeen == \A c \in Cli : cli[c] # Idle /\ cli[c].alive => cli[c].pid # NoPid

PastLook == {"probe", "unlink"} \cup StopSteps \cup StartSteps
ConfigRead ==
  /\ Live # {} => config # Absent
  /\ \A c \in Cli : cli[c] # Idle /\ cli[c].at \in PastLook => config # Absent

IInv == TypeOK /\ KindChosen /\ PidsSeen /\ ConfigRead

(* As long as commands do not cross, one runs at a time ...                 *)
Alone == \A c, d \in Cli : cli[c] # Idle /\ cli[d] # Idle => c = d

(* ... a live editor is the one of the pid file, on the configured port ... *)
EditorNamed == \A p \in Live : p = pidFile /\ proc[p] = "serving" /\ bound[p] = config.port

(* ... except on the way through a start or a stop ...                      *)
Course(c) ==
  /\ cli[c].at \in {"look", "probe", "resolve"} \cup GenerateSteps => EditorNamed
  /\ cli[c].at \in {"probe", "resolve"} => cli[c].pid = pidFile /\ (Live # {} => cli[c].alive)
  /\ cli[c].at = "probe" => (Live # {} => cli[c].port = config.port)
  /\ cli[c].at \in {"unlink", "spawn"} => Live = {}
  /\ cli[c].at \in {"write", "check", "wait"} => Live \subseteq {cli[c].child}
  /\ cli[c].at \in {"check", "wait"} => pidFile = cli[c].child
  /\ cli[c].at = "poll" => Live \subseteq cli[c].targets

(* ... and the draft is that of the generator that runs.                    *)
DraftOf(c) ==
  /\ cli[c].at \notin {"merge", "final", "replace", "discard"} => draft = Absent
  /\ cli[c].at = "final" => Valid(Merged(cli[c].kind))
  /\ cli[c].at = "replace" => draft = Merged(cli[c].kind) /\ Valid(Merged(cli[c].kind))

ConfigSound == config \in {Absent} \cup Written \/ (config.sections = "there" /\ Builds(config))

Quiet ==
  /\ Alone /\ ConfigSound
  /\ \A c \in Cli : cli[c] # Idle => Course(c) /\ DraftOf(c)
  /\ (\A c \in Cli : cli[c] = Idle) => EditorNamed /\ draft = Absent

Uncrossed == ~crossed => Quiet

Inv == IInv /\ Uncrossed
-----------------------------------------------------------------------------
(* Commands.                                                               *)
AllSteps == {"look", "probe", "unlink"} \cup StopSteps \cup StartSteps \cup GenerateSteps

LEMMA CommandShape ==
  ASSUME NEW r \in Commands
  PROVE  /\ r # Idle /\ r.cmd # "none" /\ r.at \in AllSteps /\ r.kind \in {"none", "https", "mtls"}
         /\ r.pid \in Pid \cup {NoPid} /\ r.child \in Pid \cup {NoPid}
         /\ r.targets \subseteq Pid /\ r.port \in Ports
         /\ r.alive \in BOOLEAN /\ r.running \in BOOLEAN /\ r.again \in BOOLEAN
BY DEF Commands, Idle, AllSteps

LEMMA Runs ==
  ASSUME TypeOK, NEW c \in Cli
  PROVE  /\ cli[c] # Idle <=> cli[c] \in Commands
         /\ cli[c] # Idle <=> cli[c].cmd # "none"
BY CommandShape DEF TypeOK, Idle

LEMMA StepSet ==
  ASSUME NEW r \in Commands, NEW t \in AllSteps
  PROVE  LET n == [r EXCEPT !.at = t]
         IN /\ n \in Commands /\ n.at = t /\ n.pid = r.pid /\ (n.alive <=> r.alive)
            /\ n.child = r.child /\ n.targets = r.targets /\ n.kind = r.kind
BY DEF Commands, AllSteps

LEMMA Updated ==
  ASSUME TypeOK, NEW c \in Cli, NEW r \in {Idle} \cup Commands, Update(c, r)
  PROVE  /\ cli' \in [Cli -> {Idle} \cup Commands] /\ cli'[c] = r
         /\ \A d \in Cli : d # c => cli'[d] = cli[d]
BY DEF TypeOK, Update

LEMMA WentTo ==
  ASSUME TypeOK, NEW c \in Cli, cli[c] # Idle, NEW t \in AllSteps, GoTo(c, t)
  PROVE  \E r \in Commands :
           /\ Update(c, r) /\ r.at = t /\ r.pid = cli[c].pid /\ (r.alive <=> cli[c].alive)
           /\ r.child = cli[c].child /\ r.targets = cli[c].targets /\ r.kind = cli[c].kind
<1> DEFINE n == [cli[c] EXCEPT !.at = t]
<1>1. cli[c] \in Commands
  BY DEF TypeOK
<1>2. /\ n \in Commands /\ n.at = t /\ n.pid = cli[c].pid /\ (n.alive <=> cli[c].alive)
      /\ n.child = cli[c].child /\ n.targets = cli[c].targets /\ n.kind = cli[c].kind
  BY <1>1, StepSet
<1>3. Update(c, n)
  BY DEF GoTo
<1> HIDE DEF n
<1>4. QED BY <1>2, <1>3

LEMMA SawAs ==
  ASSUME TypeOK, NEW c \in Cli, cli[c] # Idle, NEW t \in AllSteps,
         NEW q \in Pid \cup {NoPid}, NEW a \in BOOLEAN, NEW b \in BOOLEAN, Seen(c, t, q, a, b)
  PROVE  \E r \in Commands :
           /\ Update(c, r) /\ r.at = t /\ r.pid = q /\ (r.alive <=> a)
           /\ r.child = cli[c].child
<1> DEFINE n == [cli[c] EXCEPT !.at = t, !.port = NoPort, !.pid = q, !.alive = a, !.running = b]
<1>1. cli[c] \in Commands
  BY DEF TypeOK
<1>2. n \in Commands /\ n.at = t /\ n.pid = q /\ n.alive = a /\ n.child = cli[c].child
  <2>1. NoPort \in Ports
    BY DEF Ports
  <2>2. n \in Commands
    BY <1>1, <2>1 DEF Commands, AllSteps
  <2>3. n.at = t /\ n.pid = q /\ n.alive = a /\ n.child = cli[c].child
    BY <1>1 DEF Commands
  <2>4. QED BY <2>2, <2>3
<1>3. Update(c, n)
  BY DEF Seen
<1> HIDE DEF n
<1>4. QED BY <1>2, <1>3

LEMMA Stopped ==
  ASSUME TypeOK, NEW c \in Cli, cli[c] # Idle, AfterStop(c)
  PROVE  \E r \in {Idle} \cup Commands :
           Update(c, r) /\ (r # Idle => r.at = "look" /\ ~r.alive)
<1> DEFINE n == [cli[c] EXCEPT !.cmd = "start", !.at = "look", !.again = FALSE,
                               !.pid = NoPid, !.alive = FALSE, !.running = FALSE, !.targets = {}]
<1>1. cli[c] \in Commands
  BY DEF TypeOK
<1>2. n \in Commands /\ n.at = "look" /\ ~n.alive
  BY <1>1 DEF Commands
<1>3. Update(c, n) \/ Update(c, Idle)
  BY DEF AfterStop, End
<1> HIDE DEF n
<1>4. QED BY <1>2, <1>3

LEMMA Alive ==
  ASSUME NEW q
  PROVE  /\ PidAlive(q) \in BOOLEAN
         /\ PidAlive(q) => q \in Pid
         /\ q \in Live => PidAlive(q)
BY DEF PidAlive, Live, Zombie
-----------------------------------------------------------------------------
(* What a step of a command has to show of the processes, the files and the *)
(* request it leaves.                                                       *)
ProcsTyped ==
  /\ proc \in [Pid -> ProcStates] /\ bound \in [Pid -> Ports]
  /\ \A p, q \in Pid : proc[p] = "serving" /\ proc[q] = "serving" =>
       bound[p] # NoPort /\ (bound[p] = bound[q] => p = q)

LEMMA CommandInv ==
  ASSUME IInv, NEW c \in Cli, NEW r \in {Idle} \cup Commands, Update(c, r), ProcsTyped',
         \A p \in Pid : proc[p] # "unborn" => proc'[p] # "unborn",
         pidFile' \in Pid \cup {NoPid}, config' \in Configs, draft' \in Configs,
         crossed' \in BOOLEAN, accidents' \in 0..MaxAccidents,
         config # Absent => config' # Absent,
         Live' # {} => Live # {} \/ config # Absent,
         r # Idle =>
           /\ r.alive => r.pid # NoPid
           /\ r.at = "final" => r.kind # "none"
           /\ r.at \in PastLook => config # Absent
           /\ r.at \in {"write", "check", "wait"} => r.child # NoPid /\ proc'[r.child] # "unborn"
  PROVE  IInv'
<1>1. /\ cli' \in [Cli -> {Idle} \cup Commands] /\ cli'[c] = r
      /\ \A d \in Cli : d # c => cli'[d] = cli[d]
  BY Updated DEF IInv
<1>2. ASSUME NEW d \in Cli, cli'[d].cmd # "none", cli'[d].at \in {"write", "check", "wait"}
      PROVE  cli'[d].child # NoPid /\ proc'[cli'[d].child] # "unborn"
  <2>1. cli'[d] \in Commands
    BY <1>1, <1>2 DEF Idle
  <2>2. CASE d = c
    BY <1>1, <1>2, <2>1, <2>2, CommandShape
  <2>3. CASE d # c
    <3>1. /\ cli[d].child # NoPid /\ proc[cli[d].child] # "unborn"
          /\ cli[d].child \in Pid \cup {NoPid}
      BY <1>1, <1>2, <2>1, <2>3, CommandShape DEF IInv, TypeOK
    <3>2. QED BY <1>1, <2>3, <3>1
  <2>4. QED BY <2>2, <2>3
<1>3. TypeOK'
  BY <1>1, <1>2 DEF TypeOK, ProcsTyped
<1>4. KindChosen' /\ PidsSeen' /\ ConfigRead'
  BY <1>1 DEF IInv, KindChosen, PidsSeen, ConfigRead
<1>5. QED BY <1>3, <1>4 DEF IInv

LEMMA SameProcs ==
  ASSUME TypeOK, UNCHANGED <<proc, bound>>
  PROVE  ProcsTyped' /\ Live' = Live
BY DEF TypeOK, ProcsTyped, Live

LEMMA Exited ==
  ASSUME TypeOK, NEW ps, Exit(ps)
  PROVE  /\ ProcsTyped' /\ Live' = Live \ ps
         /\ \A p \in Pid : proc[p] # "unborn" => proc'[p] # "unborn"
         /\ \A p \in Live' : proc'[p] = proc[p] /\ bound'[p] = bound[p]
<1>1. NoPort \in Ports /\ "dead" \in ProcStates
  BY DEF Ports, ProcStates
<1>2. /\ proc' \in [Pid -> ProcStates] /\ bound' \in [Pid -> Ports]
      /\ \A p \in Pid : p \in ps => proc'[p] = "dead"
      /\ \A p \in Pid : p \notin ps => proc'[p] = proc[p] /\ bound'[p] = bound[p]
  BY <1>1 DEF TypeOK, Exit
<1>3. ProcsTyped'
  BY <1>2 DEF TypeOK, ProcsTyped
<1>4. Live' = Live \ ps
  BY <1>2 DEF Live
<1>5. QED BY <1>2, <1>3, <1>4 DEF Live

\* The same of what is true as long as commands do not cross.
LEMMA CommandQuiet ==
  ASSUME TypeOK, NEW c \in Cli, NEW r \in {Idle} \cup Commands, Update(c, r),
         \A d \in Cli : d # c => cli[d] = Idle, ConfigSound',
         r # Idle => Course(c)' /\ DraftOf(c)',
         r = Idle => EditorNamed' /\ draft' = Absent
  PROVE  Quiet'
<1>1. cli'[c] = r /\ \A d \in Cli : d # c => cli'[d] = Idle
  BY Updated
<1>2. QED BY <1>1 DEF Quiet, Alone

LEMMA RunsAlone ==
  ASSUME Quiet, NEW c \in Cli, cli[c] # Idle
  PROVE  /\ \A d \in Cli : d # c => cli[d] = Idle
         /\ Course(c) /\ DraftOf(c) /\ ConfigSound
BY DEF Quiet, Alone

LEMMA SameEditor ==
  ASSUME UNCHANGED <<proc, bound, pidFile, config>>, EditorNamed
  PROVE  EditorNamed'
BY DEF EditorNamed, Live

LEMMA NoEditor ==
  /\ Live = {} => EditorNamed
  /\ (Live = {} => EditorNamed)'
BY DEF EditorNamed

LEMMA SameConfig ==
  ASSUME ConfigSound, config' = config
  PROVE  ConfigSound'
BY DEF ConfigSound
-----------------------------------------------------------------------------
(* One lemma per action: the invariant, and what is true as long as         *)
(* commands do not cross.                                                   *)
LEMMA BeginInv ==
  ASSUME Inv, NEW c \in Cli, Begin(c)
  PROVE  Inv'
<1> PICK cmd \in {"start", "stop", "restart", "status", "generate"} :
      /\ cli[c] = Idle
      /\ cmd \in {"start", "restart"} =>
           Cardinality({p \in Pid : proc[p] = "unborn"}) >
           Cardinality({d \in Cli : WillSpawn(d)})
      /\ Update(c, [cmd |-> cmd, at |-> IF cmd = "generate" THEN "draft" ELSE "look",
                    again |-> cmd = "restart", pid |-> NoPid, alive |-> FALSE,
                    running |-> FALSE, port |-> NoPort, targets |-> {}, kind |-> "none",
                    child |-> NoPid])
      /\ crossed' = (crossed \/ \E d \in Cli \ {c} : cli[d] # Idle)
      /\ UNCHANGED <<Services, Files, accidents>>
  BY DEF Begin
<1> DEFINE t == IF cmd = "generate" THEN "draft" ELSE "look"
           b == cmd = "restart"
           r == [cmd |-> cmd, at |-> t, again |-> b, pid |-> NoPid, alive |-> FALSE,
                 running |-> FALSE, port |-> NoPort, targets |-> {}, kind |-> "none",
                 child |-> NoPid]
<1>1. r \in Commands /\ r.at \in {"draft", "look"} /\ ~r.alive
  <2>1. t \in {"draft", "look"} /\ b \in BOOLEAN /\ NoPort \in Ports
    BY DEF Ports
  <2> HIDE DEF t, b
  <2>2. QED BY <2>1 DEF Commands, GenerateSteps
<1>2. Update(c, r)
  OBVIOUS
<1> HIDE DEF r
<1>3. UNCHANGED <<proc, bound, pidFile, config, draft, accidents>> /\ crossed' \in BOOLEAN
  BY DEF Services, Files, Inv, IInv, TypeOK
<1>4. IInv'
  BY <1>1, <1>2, <1>3, CommandInv, SameProcs DEF Inv, IInv, TypeOK, PastLook, StopSteps, StartSteps
<1>5. ASSUME ~crossed'
      PROVE  Quiet'
  <2>1. Quiet /\ \A d \in Cli : cli[d] = Idle
    BY <1>5 DEF Inv, Uncrossed
  <2>2. EditorNamed' /\ draft' = Absent /\ ConfigSound'
    BY <1>3, <2>1, SameEditor, SameConfig DEF Quiet
  <2>3. cli'[c] = r
    BY <1>1, <1>2, Updated DEF Inv, IInv
  <2>4. Course(c)' /\ DraftOf(c)'
    BY <1>1, <2>2, <2>3 DEF Course, DraftOf
  <2>5. QED BY <1>1, <1>2, <2>1, <2>2, <2>4, CommandQuiet, CommandShape DEF Inv, IInv
<1>6. QED BY <1>4, <1>5 DEF Inv, Uncrossed

LEMMA LookInv ==
  ASSUME Inv, NEW c \in Cli, Look(c)
  PROVE  Inv'
<1> DEFINE a == PidAlive(pidFile)
           n == [cli[c] EXCEPT !.at = "probe", !.port = config.port, !.pid = pidFile, !.alive = a]
<1>1. /\ cli[c] # Idle /\ cli[c] \in Commands /\ cli[c].at = "look"
      /\ UNCHANGED <<proc, bound, pidFile, config, draft, crossed, accidents>>
  BY Runs DEF Inv, IInv, Look, At, Services, Files, History
<1>2. a \in BOOLEAN /\ (a => pidFile # NoPid) /\ pidFile \in Pid \cup {NoPid}
  BY Alive, ServiceAssumption DEF Inv, IInv, TypeOK
<1>3. ASSUME config # Absent
      PROVE  /\ n \in Commands /\ n.at = "probe" /\ n.port = config.port
             /\ n.pid = pidFile /\ (n.alive <=> a)
  <2> HIDE DEF a
  <2>1. config.port \in Ports
    BY <1>3 DEF Inv, IInv, TypeOK, Ports
  <2>2. n \in Commands
    BY <1>1, <1>2, <2>1 DEF Commands
  <2>3. n.at = "probe" /\ n.port = config.port /\ n.pid = pidFile /\ n.alive = a
    BY <1>1 DEF Commands
  <2>4. QED BY <2>2, <2>3
<1>4. PICK r \in {Idle} \cup Commands :
        /\ Update(c, r)
        /\ r # Idle => /\ config # Absent /\ r.at = "probe" /\ r.port = config.port
                       /\ r.pid = pidFile /\ (r.alive <=> a)
  <2>1. (Update(c, n) /\ config # Absent) \/ Update(c, Idle)
    BY DEF Look, End
  <2> HIDE DEF a, n
  <2>2. QED BY <1>3, <2>1
<1>5. IInv'
  BY <1>1, <1>2, <1>4, CommandInv, SameProcs DEF Inv, IInv, TypeOK
<1>6. ASSUME Quiet
      PROVE  Quiet'
  <2>1. /\ \A d \in Cli : d # c => cli[d] = Idle
        /\ EditorNamed /\ draft = Absent /\ ConfigSound
    BY <1>1, <1>6, RunsAlone DEF Course, DraftOf
  <2>2. EditorNamed' /\ draft' = Absent /\ ConfigSound' /\ Live' = Live
    BY <1>1, <2>1, SameEditor, SameConfig, SameProcs DEF Inv, IInv
  <2>3. Live # {} => a
    BY <2>1, Alive DEF EditorNamed
  <2>4. cli'[c] = r
    BY <1>4, Updated DEF Inv, IInv
  <2> HIDE DEF a
  <2>5. r # Idle => Course(c)' /\ DraftOf(c)'
    BY <1>1, <1>4, <2>2, <2>3, <2>4 DEF Course, DraftOf
  <2>6. QED BY <1>4, <2>1, <2>2, <2>5, CommandQuiet DEF Inv, IInv
<1>7. QED BY <1>1, <1>5, <1>6 DEF Inv, Uncrossed

LEMMA ProbeForStopInv ==
  ASSUME Inv, NEW c \in Cli, ProbeForStop(c)
  PROVE  Inv'
<1> DEFINE b == Answers(c)
<1>1. /\ cli[c] # Idle /\ cli[c] \in Commands /\ cli[c].at = "probe"
      /\ UNCHANGED <<proc, bound, pidFile, config, draft, crossed, accidents>>
  BY Runs DEF Inv, IInv, ProbeForStop, At, Services, Files, History
<1>2. /\ cli[c].pid \in Pid \cup {NoPid} /\ cli[c].alive \in BOOLEAN /\ config # Absent
      /\ cli[c].alive => cli[c].pid # NoPid
  BY <1>1, CommandShape DEF Inv, IInv, PidsSeen, ConfigRead, PastLook
<1>3. PICK r \in Commands :
        Update(c, r) /\ r.at = "resolve" /\ r.pid = cli[c].pid /\ (r.alive <=> cli[c].alive)
  <2>1. b \in BOOLEAN /\ Seen(c, "resolve", cli[c].pid, cli[c].alive, b)
    BY DEF ProbeForStop, Answers, Health
  <2> HIDE DEF b
  <2>2. "resolve" \in AllSteps
    BY DEF AllSteps, StopSteps
  <2>3. QED BY <1>1, <1>2, <2>1, <2>2, SawAs DEF Inv, IInv
<1>4. IInv'
  BY <1>1, <1>2, <1>3, CommandInv, SameProcs DEF Inv, IInv, TypeOK
<1>5. ASSUME Quiet
      PROVE  Quiet'
  <2>1. /\ \A d \in Cli : d # c => cli[d] = Idle
        /\ Course(c) /\ EditorNamed /\ draft = Absent /\ ConfigSound
    BY <1>1, <1>5, RunsAlone DEF Course, DraftOf
  <2>2. EditorNamed' /\ draft' = Absent /\ ConfigSound' /\ Live' = Live
    BY <1>1, <2>1, SameEditor, SameConfig, SameProcs DEF Inv, IInv
  <2>3. cli'[c] = r
    BY <1>3, Updated DEF Inv, IInv
  <2>4. Course(c)' /\ DraftOf(c)'
    BY <1>1, <1>3, <2>1, <2>2, <2>3 DEF Course, DraftOf
  <2>5. QED BY <1>3, <2>1, <2>2, <2>4, CommandQuiet, CommandShape DEF Inv, IInv
<1>6. QED BY <1>1, <1>4, <1>5 DEF Inv, Uncrossed

LEMMA ProbeForRestartInv ==
  ASSUME Inv, NEW c \in Cli, ProbeForRestart(c)
  PROVE  Inv'
<1> DEFINE found == Answers(c) \/ cli[c].alive
           cmd == IF found THEN "stop" ELSE "start"
           r == [cli[c] EXCEPT !.at = "look", !.port = NoPort, !.pid = NoPid,
                   !.alive = FALSE, !.again = found, !.cmd = cmd]
<1>1. /\ cli[c] # Idle /\ cli[c] \in Commands /\ cli[c].at = "probe" /\ Update(c, r)
      /\ UNCHANGED <<proc, bound, pidFile, config, draft, crossed, accidents>>
  BY Runs DEF Inv, IInv, ProbeForRestart, At, Services, Files, History
<1>2. r \in Commands /\ r.at = "look" /\ ~r.alive
  <2>1. found \in BOOLEAN
    OBVIOUS
  <2>2. cmd \in {"stop", "start"} /\ NoPort \in Ports
    BY DEF Ports
  <2> HIDE DEF found, cmd
  <2>3. r \in Commands
    BY <1>1, <2>1, <2>2 DEF Commands
  <2>4. QED BY <1>1, <2>3 DEF Commands
<1> HIDE DEF r
<1>3. IInv'
  BY <1>1, <1>2, CommandInv, SameProcs DEF Inv, IInv, TypeOK, PastLook, StopSteps, StartSteps
<1>4. ASSUME Quiet
      PROVE  Quiet'
  <2>1. /\ \A d \in Cli : d # c => cli[d] = Idle
        /\ EditorNamed /\ draft = Absent /\ ConfigSound
    BY <1>1, <1>4, RunsAlone DEF Course, DraftOf
  <2>2. EditorNamed' /\ draft' = Absent /\ ConfigSound'
    BY <1>1, <2>1, SameEditor, SameConfig
  <2>3. cli'[c] = r
    BY <1>1, <1>2, Updated DEF Inv, IInv
  <2>4. Course(c)' /\ DraftOf(c)'
    BY <1>2, <2>2, <2>3 DEF Course, DraftOf
  <2>5. QED BY <1>1, <1>2, <2>1, <2>2, <2>4, CommandQuiet, CommandShape DEF Inv, IInv
<1>5. QED BY <1>1, <1>3, <1>4 DEF Inv, Uncrossed

\* A health page that does not answer leaves no editor to name.
LEMMA SilentMeansNone ==
  ASSUME EditorNamed, Live # {}, NEW c \in Cli, cli[c].port = config.port
  PROVE  Answers(c)
BY DEF EditorNamed, Answers, Health, Live, Serving

LEMMA ProbeForStartInv ==
  ASSUME Inv, NEW c \in Cli, ProbeForStart(c)
  PROVE  Inv'
<1>1. /\ cli[c] # Idle /\ cli[c] \in Commands /\ cli[c].at = "probe" /\ config # Absent
      /\ UNCHANGED <<proc, bound, pidFile, config, draft, crossed, accidents>>
  BY Runs DEF Inv, IInv, ConfigRead, PastLook, ProbeForStart, At, Services, Files, History
<1>2. PICK r \in {Idle} \cup Commands :
        Update(c, r) /\ (r # Idle => r.at = "spawn" /\ ~r.alive /\ ~Answers(c))
  <2>1. "spawn" \in AllSteps
    BY DEF AllSteps, StartSteps
  <2>2. Seen(c, "spawn", NoPid, FALSE, FALSE) =>
          \E r \in Commands : Update(c, r) /\ r.at = "spawn" /\ ~r.alive
    BY <1>1, <2>1, SawAs DEF Inv, IInv
  <2>3. Update(c, Idle) \/ (Seen(c, "spawn", NoPid, FALSE, FALSE) /\ ~Answers(c))
    BY DEF ProbeForStart, End, Forget
  <2>4. QED BY <2>2, <2>3
<1>3. IInv'
  BY <1>1, <1>2, CommandInv, SameProcs DEF Inv, IInv, TypeOK
<1>4. ASSUME Quiet
      PROVE  Quiet'
  <2>1. /\ \A d \in Cli : d # c => cli[d] = Idle
        /\ Course(c) /\ EditorNamed /\ draft = Absent /\ ConfigSound
    BY <1>1, <1>4, RunsAlone DEF Course, DraftOf
  <2>2. EditorNamed' /\ draft' = Absent /\ ConfigSound' /\ Live' = Live
    BY <1>1, <2>1, SameEditor, SameConfig, SameProcs DEF Inv, IInv
  <2>3. r # Idle => Live = {}
    BY <1>1, <1>2, <2>1, SilentMeansNone DEF Course
  <2>4. cli'[c] = r
    BY <1>2, Updated DEF Inv, IInv
  <2>5. r # Idle => Course(c)' /\ DraftOf(c)'
    BY <1>2, <2>2, <2>3, <2>4 DEF Course, DraftOf
  <2>6. QED BY <1>2, <2>1, <2>2, <2>5, CommandQuiet DEF Inv, IInv
<1>5. QED BY <1>1, <1>3, <1>4 DEF Inv, Uncrossed

LEMMA ProbeForStatusInv ==
  ASSUME Inv, NEW c \in Cli, ProbeForStatus(c)
  PROVE  Inv'
<1>1. /\ cli[c] # Idle /\ cli[c] \in Commands /\ cli[c].at = "probe" /\ config # Absent
      /\ UNCHANGED <<proc, bound, pidFile, config, draft, crossed, accidents>>
  BY Runs DEF Inv, IInv, ConfigRead, PastLook, ProbeForStatus, At, Services, Files, History
<1>2. PICK r \in {Idle} \cup Commands :
        Update(c, r) /\ (r # Idle => r.at = "unlink" /\ ~r.alive /\ ~cli[c].alive)
  <2>1. "unlink" \in AllSteps
    BY DEF AllSteps
  <2>2. Seen(c, "unlink", NoPid, FALSE, FALSE) =>
          \E r \in Commands : Update(c, r) /\ r.at = "unlink" /\ ~r.alive
    BY <1>1, <2>1, SawAs DEF Inv, IInv
  <2>3. Update(c, Idle) \/ (Seen(c, "unlink", NoPid, FALSE, FALSE) /\ ~cli[c].alive)
    BY DEF ProbeForStatus, End, Forget
  <2>4. QED BY <2>2, <2>3
<1>3. IInv'
  BY <1>1, <1>2, CommandInv, SameProcs DEF Inv, IInv, TypeOK
<1>4. ASSUME Quiet
      PROVE  Quiet'
  <2>1. /\ \A d \in Cli : d # c => cli[d] = Idle
        /\ Course(c) /\ EditorNamed /\ draft = Absent /\ ConfigSound
    BY <1>1, <1>4, RunsAlone DEF Course, DraftOf
  <2>2. EditorNamed' /\ draft' = Absent /\ ConfigSound' /\ Live' = Live
    BY <1>1, <2>1, SameEditor, SameConfig, SameProcs DEF Inv, IInv
  <2>3. r # Idle => Live = {}
    BY <1>1, <1>2, <2>1 DEF Course
  <2>4. cli'[c] = r
    BY <1>2, Updated DEF Inv, IInv
  <2>5. r # Idle => Course(c)' /\ DraftOf(c)'
    BY <1>2, <2>2, <2>3, <2>4 DEF Course, DraftOf
  <2>6. QED BY <1>2, <2>1, <2>2, <2>5, CommandQuiet DEF Inv, IInv
<1>5. QED BY <1>1, <1>3, <1>4 DEF Inv, Uncrossed

LEMMA UnlinkStaleInv ==
  ASSUME Inv, NEW c \in Cli, UnlinkStale(c)
  PROVE  Inv'
<1>1. /\ cli[c] # Idle /\ cli[c].at = "unlink" /\ Update(c, Idle) /\ pidFile' = NoPid
      /\ UNCHANGED <<proc, bound, config, draft, crossed, accidents>>
  BY Runs DEF Inv, IInv, UnlinkStale, At, End, Files, History
<1>2. IInv'
  BY <1>1, CommandInv, SameProcs DEF Inv, IInv, TypeOK
<1>3. ASSUME Quiet
      PROVE  Quiet'
  <2>1. /\ \A d \in Cli : d # c => cli[d] = Idle
        /\ Live = {} /\ draft = Absent /\ ConfigSound
    BY <1>1, <1>3, RunsAlone DEF Course, DraftOf
  <2>2. EditorNamed' /\ draft' = Absent /\ ConfigSound'
    BY <1>1, <2>1, NoEditor, SameConfig, SameProcs DEF Inv, IInv
  <2>3. QED BY <1>1, <2>1, <2>2, CommandQuiet DEF Inv, IInv
<1>4. QED BY <1>1, <1>2, <1>3 DEF Inv, Uncrossed
-----------------------------------------------------------------------------
(* Starting.                                                               *)
LEMMA SpawnInv ==
  ASSUME Inv, NEW c \in Cli, Spawn(c)
  PROVE  Inv'
<1> PICK p \in Pid :
      /\ proc[p] = "unborn"
      /\ proc' = [proc EXCEPT ![p] = "starting"]
      /\ bound' = [bound EXCEPT ![p] = Loaded]
      /\ Update(c, [cli[c] EXCEPT !.at = "write", !.child = p])
  BY DEF Spawn
<1> DEFINE r == [cli[c] EXCEPT !.at = "write", !.child = p]
<1>1. /\ cli[c] # Idle /\ cli[c] \in Commands /\ cli[c].at = "spawn" /\ config # Absent
      /\ UNCHANGED <<pidFile, config, draft, crossed, accidents>>
      /\ cli[c].alive => cli[c].pid # NoPid
  BY Runs DEF Inv, IInv, ConfigRead, PidsSeen, PastLook, StartSteps, Spawn, At, Files, History
<1>2. /\ r \in Commands /\ r.at = "write" /\ r.child = p
      /\ r.pid = cli[c].pid /\ r.alive = cli[c].alive
  <2>1. r \in Commands
    BY <1>1 DEF Commands, StartSteps
  <2>2. QED BY <1>1, <2>1 DEF Commands
<1>3. Update(c, r)
  OBVIOUS
<1> HIDE DEF r
<1>4. Loaded \in Ports
  BY <1>1 DEF Loaded, Ports, Inv, IInv, TypeOK
<1>5. /\ proc' \in [Pid -> ProcStates] /\ bound' \in [Pid -> Ports] /\ proc'[p] = "starting"
      /\ \A q \in Pid : q # p => proc'[q] = proc[q] /\ bound'[q] = bound[q]
  BY <1>4 DEF Inv, IInv, TypeOK, ProcStates
<1>6. ProcsTyped'
  BY <1>5 DEF ProcsTyped, Inv, IInv, TypeOK
<1>7. \A q \in Pid : proc[q] # "unborn" => proc'[q] # "unborn"
  BY <1>5
<1>8. IInv'
  BY <1>1, <1>2, <1>3, <1>5, <1>6, <1>7, CommandInv, ServiceAssumption DEF Inv, IInv, TypeOK
<1>9. ASSUME Quiet
      PROVE  Quiet'
  <2>1. /\ \A d \in Cli : d # c => cli[d] = Idle
        /\ Live = {} /\ draft = Absent /\ ConfigSound
    BY <1>1, <1>9, RunsAlone DEF Course, DraftOf
  <2>2. Live' \subseteq {p}
    BY <1>5, <2>1 DEF Live
  <2>3. cli'[c] = r
    BY <1>2, <1>3, Updated DEF Inv, IInv
  <2>4. Course(c)' /\ DraftOf(c)'
    BY <1>1, <1>2, <2>1, <2>2, <2>3 DEF Course, DraftOf, GenerateSteps
  <2>5. ConfigSound'
    BY <1>1, <2>1, SameConfig
  <2>6. QED BY <1>2, <1>3, <2>1, <2>4, <2>5, CommandQuiet, CommandShape DEF Inv, IInv
<1>10. QED BY <1>1, <1>8, <1>9 DEF Inv, Uncrossed

LEMMA WritePidInv ==
  ASSUME Inv, NEW c \in Cli, WritePid(c)
  PROVE  Inv'
<1>1. /\ cli[c] # Idle /\ cli[c] \in Commands /\ cli[c].at = "write" /\ config # Absent
      /\ pidFile' = cli[c].child /\ UNCHANGED <<proc, bound, config, draft, crossed, accidents>>
      /\ cli[c].alive => cli[c].pid # NoPid
  BY Runs DEF Inv, IInv, ConfigRead, PidsSeen, PastLook, StartSteps, WritePid, At, Files, History
<1>2. /\ cli[c].child \in Pid \cup {NoPid} /\ cli[c].child # NoPid
      /\ proc[cli[c].child] # "unborn"
  BY <1>1, CommandShape DEF Inv, IInv, TypeOK
<1>3. PICK r \in Commands :
        /\ Update(c, r) /\ r.at = "check" /\ r.pid = cli[c].pid /\ (r.alive <=> cli[c].alive)
        /\ r.child = cli[c].child
  BY <1>1, WentTo DEF WritePid, Inv, IInv, AllSteps, StartSteps
<1>4. IInv'
  BY <1>1, <1>2, <1>3, CommandInv, SameProcs DEF Inv, IInv, TypeOK
<1>5. ASSUME Quiet
      PROVE  Quiet'
  <2>1. /\ \A d \in Cli : d # c => cli[d] = Idle
        /\ Live \subseteq {cli[c].child} /\ draft = Absent /\ ConfigSound
    BY <1>1, <1>5, RunsAlone DEF Course, DraftOf
  <2>2. Live' = Live /\ ConfigSound'
    BY <1>1, <2>1, SameProcs, SameConfig DEF Inv, IInv
  <2>3. cli'[c] = r
    BY <1>3, Updated DEF Inv, IInv
  <2>4. Course(c)' /\ DraftOf(c)'
    BY <1>1, <1>3, <2>1, <2>2, <2>3 DEF Course, DraftOf, GenerateSteps
  <2>5. QED BY <1>3, <2>1, <2>2, <2>4, CommandQuiet, CommandShape DEF Inv, IInv
<1>6. QED BY <1>1, <1>4, <1>5 DEF Inv, Uncrossed

LEMMA CheckChildInv ==
  ASSUME Inv, NEW c \in Cli, CheckChild(c)
  PROVE  Inv'
<1>1. /\ cli[c] # Idle /\ cli[c] \in Commands /\ cli[c].at = "check" /\ config # Absent
      /\ UNCHANGED <<proc, bound, config, draft, crossed, accidents>>
      /\ cli[c].alive => cli[c].pid # NoPid
  BY Runs DEF Inv, IInv, ConfigRead, PidsSeen, PastLook, StartSteps, CheckChild, At, Files, History
<1>2. cli[c].child # NoPid /\ proc[cli[c].child] # "unborn"
  BY <1>1, CommandShape DEF Inv, IInv, TypeOK
<1>3. PICK r \in {Idle} \cup Commands :
        /\ Update(c, r)
        /\ r = Idle => proc[cli[c].child] = "dead" /\ pidFile' = NoPid
        /\ r # Idle => /\ r.at = "wait" /\ r.pid = cli[c].pid /\ (r.alive <=> cli[c].alive)
                       /\ r.child = cli[c].child /\ pidFile' = pidFile
  <2>1. CASE proc[cli[c].child] = "dead"
    BY <2>1 DEF CheckChild, End
  <2>2. CASE proc[cli[c].child] # "dead"
    BY <1>1, <2>2, WentTo, CommandShape DEF CheckChild, Inv, IInv, AllSteps, StartSteps
  <2>3. QED BY <2>1, <2>2
<1>4. IInv'
  BY <1>1, <1>2, <1>3, CommandInv, SameProcs DEF Inv, IInv, TypeOK
<1>5. ASSUME Quiet
      PROVE  Quiet'
  <2>1. /\ \A d \in Cli : d # c => cli[d] = Idle
        /\ Live \subseteq {cli[c].child} /\ pidFile = cli[c].child
        /\ draft = Absent /\ ConfigSound
    BY <1>1, <1>5, RunsAlone DEF Course, DraftOf
  <2>2. Live' = Live /\ ConfigSound'
    BY <1>1, <2>1, SameProcs, SameConfig DEF Inv, IInv
  <2>3. r = Idle => Live = {}
    BY <1>3, <2>1 DEF Live
  <2>4. cli'[c] = r
    BY <1>3, Updated DEF Inv, IInv
  <2>5. r # Idle => Course(c)' /\ DraftOf(c)'
    BY <1>1, <1>3, <2>1, <2>2, <2>4 DEF Course, DraftOf, GenerateSteps
  <2>6. QED BY <1>1, <1>3, <2>1, <2>2, <2>3, <2>5, CommandQuiet, NoEditor DEF Inv, IInv
<1>6. QED BY <1>1, <1>4, <1>5 DEF Inv, Uncrossed

LEMMA WaitInv ==
  ASSUME Inv, NEW c \in Cli, Wait(c)
  PROVE  Inv'
<1>1. /\ cli[c] # Idle /\ cli[c].at = "wait" /\ Update(c, Idle)
      /\ UNCHANGED <<proc, bound, pidFile, config, draft, accidents>>
      /\ crossed' = (crossed \/ ~Health(config.port))
  BY Runs DEF Inv, IInv, Wait, At, End, Services, Files
<1>2. crossed' \in BOOLEAN
  BY <1>1 DEF Inv, IInv, TypeOK
<1>3. IInv'
  BY <1>1, <1>2, CommandInv, SameProcs DEF Inv, IInv, TypeOK
<1>4. ASSUME ~crossed'
      PROVE  Quiet'
  <2>1. Quiet /\ Health(config.port)
    BY <1>1, <1>4 DEF Inv, Uncrossed
  <2>2. /\ \A d \in Cli : d # c => cli[d] = Idle
        /\ Live \subseteq {cli[c].child} /\ pidFile = cli[c].child
        /\ draft = Absent /\ ConfigSound
    BY <1>1, <2>1, RunsAlone DEF Course, DraftOf
  <2>3. EditorNamed
    BY <2>1, <2>2 DEF EditorNamed, Health, Serving, Live
  <2>4. QED BY <1>1, <2>2, <2>3, CommandQuiet, SameEditor, SameConfig DEF Inv, IInv
<1>5. QED BY <1>3, <1>4 DEF Inv, Uncrossed
-----------------------------------------------------------------------------
(* Stopping.                                                               *)
LEMMA ResolveInv ==
  ASSUME Inv, NEW c \in Cli, Resolve(c)
  PROVE  Inv'
<1> DEFINE t == StopTargets(c)
           n == [cli[c] EXCEPT !.at = "poll", !.targets = t, !.pid = NoPid,
                               !.alive = FALSE, !.running = FALSE]
<1>1. /\ cli[c] # Idle /\ cli[c] \in Commands /\ cli[c].at = "resolve" /\ config # Absent
      /\ UNCHANGED <<proc, bound, config, draft, crossed, accidents>>
      /\ cli[c].alive => cli[c].pid # NoPid
  BY Runs DEF Inv, IInv, ConfigRead, PidsSeen, PastLook, StopSteps, Resolve, At, Files, History
<1>2. t \subseteq Pid
  BY <1>1, CommandShape DEF StopTargets, Live
<1>3. n \in Commands /\ n.at = "poll" /\ ~n.alive /\ n.targets = t
  <2> HIDE DEF t
  <2>1. n \in Commands
    BY <1>1, <1>2 DEF Commands, StopSteps
  <2>2. QED BY <1>1, <2>1 DEF Commands
<1>4. PICK r \in {Idle} \cup Commands :
        /\ Update(c, r)
        /\ \/ t = {} /\ pidFile' = NoPid /\ (r # Idle => r.at = "look" /\ ~r.alive)
           \/ r # Idle /\ r.at = "poll" /\ ~r.alive /\ r.targets = t /\ pidFile' = pidFile
  <2>1. CASE t = {}
    <3>1. AfterStop(c) /\ pidFile' = NoPid
      BY <2>1 DEF Resolve
    <3>2. QED BY <1>1, <2>1, <3>1, Stopped DEF Inv, IInv
  <2>2. CASE t # {}
    <3>1. Update(c, n) /\ pidFile' = pidFile
      BY <2>2 DEF Resolve
    <3> HIDE DEF n, t
    <3>2. QED BY <1>3, <3>1, CommandShape
  <2>3. QED BY <2>1, <2>2
<1> HIDE DEF n, t
<1>5. IInv'
  BY <1>1, <1>4, CommandInv, SameProcs DEF Inv, IInv, TypeOK, PastLook, StopSteps, StartSteps
<1>6. ASSUME Quiet
      PROVE  Quiet'
  <2>1. /\ \A d \in Cli : d # c => cli[d] = Idle
        /\ Course(c) /\ EditorNamed /\ draft = Absent /\ ConfigSound
    BY <1>1, <1>6, RunsAlone DEF Course, DraftOf
  <2>2. Live' = Live /\ ConfigSound'
    BY <1>1, <2>1, SameProcs, SameConfig DEF Inv, IInv
  <2>3. Live \subseteq t
    BY <1>1, <2>1 DEF Course, EditorNamed, StopTargets, t
  <2>4. cli'[c] = r
    BY <1>4, Updated DEF Inv, IInv
  <2>5. CASE t = {} /\ (r # Idle => r.at = "look")
    <3>1. EditorNamed'
      BY <2>2, <2>3, <2>5, NoEditor
    <3>2. r # Idle => Course(c)' /\ DraftOf(c)'
      BY <1>1, <2>1, <2>4, <2>5, <3>1 DEF Course, DraftOf
    <3>3. QED BY <1>1, <1>4, <2>1, <2>2, <3>1, <3>2, CommandQuiet DEF Inv, IInv
  <2>6. CASE r # Idle /\ r.at = "poll" /\ r.targets = t
    <3>1. Course(c)' /\ DraftOf(c)'
      BY <1>1, <2>1, <2>2, <2>3, <2>4, <2>6 DEF Course, DraftOf, GenerateSteps
    <3>2. QED BY <1>1, <1>4, <2>1, <2>2, <2>6, <3>1, CommandQuiet DEF Inv, IInv
  <2>7. QED BY <1>4, <2>5, <2>6
<1>7. QED BY <1>1, <1>5, <1>6 DEF Inv, Uncrossed

\* What Gone and Kill have in common: the pid file goes when nothing lives.
LEMMA StopEnds ==
  ASSUME Inv, NEW c \in Cli, At(c, "poll"), AfterStop(c), pidFile' = NoPid, ProcsTyped',
         \A p \in Pid : proc[p] # "unborn" => proc'[p] # "unborn",
         Live' \subseteq Live \ cli[c].targets,
         UNCHANGED <<config, draft, crossed, accidents>>
  PROVE  Inv'
<1>1. /\ cli[c] # Idle /\ cli[c] \in Commands /\ cli[c].at = "poll" /\ config # Absent
  BY Runs DEF Inv, IInv, ConfigRead, PastLook, StopSteps, At
<1>2. PICK r \in {Idle} \cup Commands :
        Update(c, r) /\ (r # Idle => r.at = "look" /\ ~r.alive)
  BY <1>1, Stopped DEF Inv, IInv
<1>3. IInv'
  BY <1>1, <1>2, CommandInv DEF Inv, IInv, TypeOK, PastLook, StopSteps, StartSteps
<1>4. ASSUME Quiet
      PROVE  Quiet'
  <2>1. /\ \A d \in Cli : d # c => cli[d] = Idle
        /\ Live \subseteq cli[c].targets /\ draft = Absent /\ ConfigSound
    BY <1>1, <1>4, RunsAlone DEF Course, DraftOf
  <2>2. EditorNamed' /\ ConfigSound'
    BY <2>1, NoEditor, SameConfig
  <2>3. cli'[c] = r
    BY <1>2, Updated DEF Inv, IInv
  <2>4. r # Idle => Course(c)' /\ DraftOf(c)'
    BY <1>2, <2>1, <2>2, <2>3 DEF Course, DraftOf
  <2>5. QED BY <1>2, <2>1, <2>2, <2>4, CommandQuiet DEF Inv, IInv
<1>5. QED BY <1>3, <1>4 DEF Inv, Uncrossed

LEMMA GoneInv ==
  ASSUME Inv, NEW c \in Cli, Gone(c)
  PROVE  Inv'
<1>1. UNCHANGED <<proc, bound, config, draft, crossed, accidents>>
  BY DEF Gone, Files, History
<1>2. ProcsTyped' /\ Live' = Live
  BY <1>1, SameProcs DEF Inv, IInv
<1>3. Live \cap cli[c].targets = {}
  BY Alive DEF Gone
<1>4. QED BY <1>1, <1>2, <1>3, StopEnds DEF Gone

LEMMA KillInv ==
  ASSUME Inv, NEW c \in Cli, Kill(c)
  PROVE  Inv'
<1>1. UNCHANGED <<config, draft, crossed, accidents>> /\ Exit(cli[c].targets)
  BY DEF Kill, Files, History
<1>2. QED BY <1>1, Exited, StopEnds DEF Kill, Inv, IInv
-----------------------------------------------------------------------------
(* Generating a configuration.                                             *)
\* What the generator's steps have in common while the configuration stays.
LEMMA GenerateEnds ==
  ASSUME Inv, NEW c \in Cli, cli[c] # Idle, cli[c].at \in GenerateSteps,
         NEW r \in {Idle} \cup Commands, Update(c, r), draft' \in Configs,
         UNCHANGED <<proc, bound, pidFile, config, crossed, accidents>>,
         r # Idle => /\ r.at \in GenerateSteps /\ r.pid = cli[c].pid /\ (r.alive <=> cli[c].alive)
                     /\ r.at = "final" => r.kind # "none",
         r = Idle => draft' = Absent,
         DraftOf(c) /\ r # Idle =>
           /\ r.at \notin {"merge", "final", "replace", "discard"} => draft' = Absent
           /\ r.at = "final" => Valid(Merged(r.kind))
           /\ r.at = "replace" => draft' = Merged(r.kind) /\ Valid(Merged(r.kind))
  PROVE  Inv'
<1>1. IInv'
  BY CommandInv, SameProcs
    DEF Inv, IInv, TypeOK, PidsSeen, PastLook, StopSteps, StartSteps, GenerateSteps
<1>2. ASSUME Quiet
      PROVE  Quiet'
  <2>1. /\ \A d \in Cli : d # c => cli[d] = Idle
        /\ EditorNamed /\ DraftOf(c) /\ ConfigSound
    BY <1>2, RunsAlone DEF Course
  <2>2. EditorNamed' /\ ConfigSound'
    BY <2>1, SameEditor, SameConfig
  <2>3. cli'[c] = r
    BY Updated DEF Inv, IInv
  <2>4. r # Idle => Course(c)'
    BY <2>2, <2>3 DEF Course, GenerateSteps, StopSteps, StartSteps
  <2>5. r # Idle => DraftOf(c)'
    BY <2>1, <2>3, Zenon DEF DraftOf
  <2>6. QED BY <2>1, <2>2, <2>4, <2>5, CommandQuiet DEF Inv, IInv
<1>3. QED BY <1>1, <1>2 DEF Inv, Uncrossed

LEMMA WriteDraftInv ==
  ASSUME Inv, NEW c \in Cli, WriteDraft(c)
  PROVE  Inv'
<1>1. /\ cli[c] # Idle /\ cli[c].at = "draft" /\ draft' \in Configs
      /\ UNCHANGED <<proc, bound, pidFile, config, crossed, accidents>>
  BY Runs DEF Inv, IInv, WriteDraft, At, Services, History, Configs
<1>2. PICK r \in Commands :
        Update(c, r) /\ r.at = "merge" /\ r.pid = cli[c].pid /\ (r.alive <=> cli[c].alive)
  BY <1>1, WentTo DEF WriteDraft, Inv, IInv, AllSteps, GenerateSteps
<1>3. QED BY <1>1, <1>2, GenerateEnds, CommandShape DEF GenerateSteps

LEMMA MergeAndValidateInv ==
  ASSUME Inv, NEW c \in Cli, MergeAndValidate(c)
  PROVE  Inv'
<1>1. /\ cli[c] # Idle /\ cli[c].at = "merge" /\ cli[c] \in Commands
      /\ UNCHANGED <<proc, bound, pidFile, config, draft, crossed, accidents>>
  BY Runs DEF Inv, IInv, MergeAndValidate, At, Services, Files, History
<1>2. PICK kind \in {"https", "mtls"} :
        IF draft # Absent /\ Valid(Merged(kind))
        THEN Update(c, [cli[c] EXCEPT !.at = "final", !.kind = kind])
        ELSE GoTo(c, "discard")
  BY DEF MergeAndValidate
<1> DEFINE n == [cli[c] EXCEPT !.at = "final", !.kind = kind]
<1>3. /\ n \in Commands /\ n.at = "final" /\ n.pid = cli[c].pid /\ n.alive = cli[c].alive
      /\ n.kind = kind
  <2>1. n \in Commands
    BY <1>1 DEF Commands, GenerateSteps
  <2>2. QED BY <1>1, <2>1 DEF Commands
<1>4. Update(c, n) \/ GoTo(c, "discard")
  BY <1>2
<1>5. Update(c, n) => Valid(Merged(kind)) \/ GoTo(c, "discard")
  BY <1>2
<1> HIDE DEF n
<1>6. PICK r \in Commands :
        /\ Update(c, r) /\ r.pid = cli[c].pid /\ (r.alive <=> cli[c].alive)
        /\ r.at = "discard" \/ (r.at = "final" /\ r.kind = kind /\ Valid(Merged(kind)))
  BY <1>1, <1>3, <1>4, <1>5, WentTo DEF Inv, IInv, AllSteps, GenerateSteps
<1>7. draft' \in Configs
  BY <1>1 DEF Inv, IInv, TypeOK
<1>8. QED BY <1>1, <1>6, <1>7, GenerateEnds, CommandShape DEF GenerateSteps

LEMMA WriteFinalInv ==
  ASSUME Inv, NEW c \in Cli, WriteFinal(c)
  PROVE  Inv'
<1>1. /\ cli[c] # Idle /\ cli[c] \in Commands /\ cli[c].at = "final"
      /\ draft' = Merged(cli[c].kind)
      /\ UNCHANGED <<proc, bound, pidFile, config, crossed, accidents>>
  BY Runs DEF Inv, IInv, WriteFinal, At, Services, History
<1>2. draft' \in Configs
  BY <1>1, CommandShape DEF Inv, IInv, KindChosen, Configs
<1>3. PICK r \in Commands :
        /\ Update(c, r) /\ r.at = "replace" /\ r.pid = cli[c].pid /\ (r.alive <=> cli[c].alive)
        /\ r.kind = cli[c].kind
  BY <1>1, WentTo DEF WriteFinal, Inv, IInv, AllSteps, GenerateSteps
<1>4. DraftOf(c) => Valid(Merged(cli[c].kind))
  BY <1>1 DEF DraftOf
<1>5. QED BY <1>1, <1>2, <1>3, <1>4, GenerateEnds, CommandShape DEF GenerateSteps

\* A new configuration: the port of a live editor stays, or commands crossed.
LEMMA PutKeepsPort ==
  ASSUME Inv, NEW s, Put(s), ~crossed'
  PROVE  ~crossed /\ (Live # {} => s.port = config.port)
BY DEF Put, Inv, IInv, ConfigRead

LEMMA PutKeepsEditor ==
  ASSUME EditorNamed, UNCHANGED <<proc, bound, pidFile>>,
         Live # {} => config'.port = config.port
  PROVE  EditorNamed'
BY DEF EditorNamed, Live

LEMMA ReplaceInv ==
  ASSUME Inv, NEW c \in Cli, Replace(c)
  PROVE  Inv'
<1>1. /\ cli[c] # Idle /\ cli[c].at = "replace"
      /\ UNCHANGED <<proc, bound, pidFile, accidents>>
  BY Runs DEF Inv, IInv, Replace, At, Services
<1>2. CASE draft = Absent
  <2>1. GoTo(c, "discard") /\ UNCHANGED <<config, draft, crossed>> /\ draft' \in Configs
    BY <1>2 DEF Replace, Files, Inv, IInv, TypeOK
  <2>2. PICK r \in Commands :
          Update(c, r) /\ r.at = "discard" /\ r.pid = cli[c].pid /\ (r.alive <=> cli[c].alive)
    BY <1>1, <2>1, WentTo DEF Inv, IInv, AllSteps, GenerateSteps
  <2>3. QED BY <1>1, <2>1, <2>2, GenerateEnds, CommandShape DEF GenerateSteps
<1>3. CASE draft # Absent
  <2>1. Update(c, Idle) /\ Put(draft) /\ draft' = Absent /\ config' = draft
    BY <1>3 DEF Replace, End, Put
  <2>2. config' \in Configs /\ draft' \in Configs /\ crossed' \in BOOLEAN
    BY <2>1 DEF Put, Configs, Inv, IInv, TypeOK
  <2>3. IInv'
    BY <1>1, <1>3, <2>1, <2>2, CommandInv, SameProcs DEF Inv, IInv, TypeOK
  <2>4. ASSUME ~crossed'
        PROVE  Quiet'
    <3>1. Quiet /\ (Live # {} => config'.port = config.port)
      BY <2>1, <2>4, PutKeepsPort DEF Inv, Uncrossed
    <3>2. /\ \A d \in Cli : d # c => cli[d] = Idle
          /\ EditorNamed /\ draft = Merged(cli[c].kind) /\ Valid(Merged(cli[c].kind))
      BY <1>1, <3>1, RunsAlone DEF Course, DraftOf, GenerateSteps
    <3>3. EditorNamed'
      BY <1>1, <3>1, <3>2, PutKeepsEditor
    <3>4. ConfigSound'
      BY <2>1, <3>2 DEF ConfigSound, Builds, Merged
    <3>5. QED BY <2>1, <3>2, <3>3, <3>4, CommandQuiet DEF Inv, IInv
  <2>5. QED BY <2>3, <2>4 DEF Inv, Uncrossed
<1>4. QED BY <1>2, <1>3

LEMMA GenerateFailsInv ==
  ASSUME Inv, NEW c \in Cli, GenerateFails(c)
  PROVE  Inv'
<1>1. /\ cli[c] # Idle /\ cli[c].at \in GenerateSteps
      /\ UNCHANGED <<proc, bound, pidFile, config, crossed, accidents>>
  BY Runs DEF Inv, IInv, GenerateFails, At, Services, History, GenerateSteps
<1>2. draft' \in Configs
  BY DEF GenerateFails, Configs, Inv, IInv, TypeOK
<1>3. PICK r \in Commands :
        Update(c, r) /\ r.at = "discard" /\ r.pid = cli[c].pid /\ (r.alive <=> cli[c].alive)
  BY <1>1, WentTo DEF GenerateFails, Inv, IInv, AllSteps, GenerateSteps
<1>4. QED BY <1>1, <1>2, <1>3, GenerateEnds, CommandShape DEF GenerateSteps

LEMMA DiscardInv ==
  ASSUME Inv, NEW c \in Cli, Discard(c)
  PROVE  Inv'
<1>1. /\ cli[c] # Idle /\ cli[c].at \in GenerateSteps /\ Update(c, Idle)
      /\ draft' = Absent /\ draft' \in Configs
      /\ UNCHANGED <<proc, bound, pidFile, config, crossed, accidents>>
  BY Runs DEF Inv, IInv, Discard, At, End, Services, History, GenerateSteps, Configs
<1>2. QED BY <1>1, GenerateEnds
-----------------------------------------------------------------------------
(* Accidents, and the editor by itself.                                    *)
LEMMA InterruptInv ==
  ASSUME Inv, NEW c \in Cli, Interrupt(c)
  PROVE  Inv'
<1>1. /\ Update(c, Idle) /\ UNCHANGED <<proc, bound, pidFile, config, draft>>
      /\ crossed' = TRUE /\ accidents' \in 0..MaxAccidents
  BY ServiceAssumption DEF Inv, IInv, TypeOK, Interrupt, End, Services, Files
<1>2. IInv'
  BY <1>1, CommandInv, SameProcs DEF Inv, IInv, TypeOK
<1>3. QED BY <1>1, <1>2 DEF Inv, Uncrossed

\* What a step outside the commands has to show.
LEMMA OutsideInv ==
  ASSUME Inv, ProcsTyped', \A p \in Pid : proc[p] # "unborn" => proc'[p] # "unborn",
         Live' \subseteq Live, UNCHANGED <<pidFile, draft, cli>>,
         config' \in Configs, config # Absent => config' # Absent,
         crossed' \in BOOLEAN, accidents' \in 0..MaxAccidents,
         ~crossed' =>
           /\ ~crossed
           /\ EditorNamed => EditorNamed'
           /\ Live' # {} => config'.port = config.port
           /\ ConfigSound => ConfigSound'
  PROVE  Inv'
<1>1. TypeOK'
  <2>1. ASSUME NEW c \in Cli, cli[c].cmd # "none", cli[c].at \in {"write", "check", "wait"}
        PROVE  cli[c].child # NoPid /\ proc'[cli[c].child] # "unborn"
    <3>1. /\ cli[c].child # NoPid /\ proc[cli[c].child] # "unborn"
          /\ cli[c].child \in Pid \cup {NoPid}
      BY <2>1, Runs, CommandShape DEF Inv, IInv, TypeOK
    <3>2. QED BY <3>1
  <2>2. QED BY <2>1 DEF Inv, IInv, TypeOK, ProcsTyped
<1>2. KindChosen' /\ PidsSeen' /\ ConfigRead'
  BY DEF Inv, IInv, KindChosen, PidsSeen, ConfigRead
<1>3. ASSUME ~crossed'
      PROVE  Quiet'
  <2>1. /\ Quiet /\ (EditorNamed => EditorNamed') /\ ConfigSound'
        /\ Live' # {} => config'.port = config.port
    BY <1>3 DEF Inv, Uncrossed, Quiet
  <2>2. ASSUME NEW c \in Cli, Course(c)
        PROVE  Course(c)'
    BY <2>1, <2>2 DEF Course
  <2>3. \A c \in Cli : DraftOf(c) => DraftOf(c)'
    BY DEF DraftOf
  <2>4. QED BY <2>1, <2>2, <2>3 DEF Quiet, Alone
<1>4. QED BY <1>1, <1>2, <1>3 DEF Inv, IInv, Uncrossed

LEMMA WriteByHandInv ==
  ASSUME Inv, WriteByHand
  PROVE  Inv'
<1>1. PICK s \in Written : Put(s)
  BY DEF WriteByHand
<1>2. /\ UNCHANGED <<proc, bound, pidFile, draft, cli>>
      /\ config' = s /\ config' \in Configs /\ config' # Absent /\ crossed' \in BOOLEAN
      /\ accidents' \in 0..MaxAccidents
  BY <1>1, ServiceAssumption DEF WriteByHand, Services, Put, Configs, Inv, IInv, TypeOK
<1>3. ProcsTyped' /\ Live' = Live
  BY <1>2, SameProcs DEF Inv, IInv
<1>4. ConfigSound'
  BY <1>2 DEF ConfigSound
<1>5. ASSUME ~crossed'
      PROVE  /\ ~crossed /\ (Live # {} => config'.port = config.port)
             /\ EditorNamed => EditorNamed'
  <2>1. ~crossed /\ (Live # {} => config'.port = config.port)
    BY <1>1, <1>2, <1>5, PutKeepsPort
  <2>2. QED BY <1>2, <2>1, PutKeepsEditor
<1>6. QED BY <1>2, <1>3, <1>4, <1>5, OutsideInv

\* An editor that exits by itself.
LEMMA ExitInv ==
  ASSUME Inv, NEW p \in Pid, Exit({p}), UNCHANGED <<pidFile, Files, cli, History>>
  PROVE  Inv'
<1>1. UNCHANGED <<pidFile, config, draft, cli, crossed, accidents>>
  BY DEF Files, History
<1>2. /\ ProcsTyped' /\ Live' \subseteq Live
      /\ \A q \in Pid : proc[q] # "unborn" => proc'[q] # "unborn"
      /\ \A q \in Live' : proc'[q] = proc[q] /\ bound'[q] = bound[q]
  BY Exited DEF Inv, IInv
<1>3. EditorNamed => EditorNamed'
  BY <1>1, <1>2 DEF EditorNamed
<1>4. ConfigSound => ConfigSound'
  BY <1>1, SameConfig
<1>5. QED BY <1>1, <1>2, <1>3, <1>4, OutsideInv DEF Inv, IInv, TypeOK

LEMMA BindInv ==
  ASSUME Inv, NEW p \in Pid, Bind(p)
  PROVE  Inv'
<1>1. CASE bound[p] = NoPort \/ Health(bound[p])
  BY <1>1, ExitInv DEF Bind
<1>2. CASE bound[p] # NoPort /\ ~Health(bound[p])
  <2>1. /\ proc[p] = "starting" /\ proc' = [proc EXCEPT ![p] = "serving"]
        /\ UNCHANGED <<bound, pidFile, config, draft, cli, crossed, accidents>>
    BY <1>2 DEF Bind, Files, History
  <2>2. /\ proc' \in [Pid -> ProcStates] /\ proc'[p] = "serving"
        /\ \A q \in Pid : q # p => proc'[q] = proc[q]
    BY <2>1 DEF Inv, IInv, TypeOK, ProcStates
  <2>3. ProcsTyped'
    BY <1>2, <2>1, <2>2 DEF ProcsTyped, Health, Serving, Inv, IInv, TypeOK
  <2>4. Live' = Live
    BY <2>1, <2>2 DEF Live
  <2>5. EditorNamed => EditorNamed'
    BY <2>1, <2>2, <2>4 DEF EditorNamed, Live
  <2>6. ConfigSound => ConfigSound'
    BY <2>1, SameConfig
  <2>7. \A q \in Pid : proc[q] # "unborn" => proc'[q] # "unborn"
    BY <2>2
  <2>8. QED BY <2>1, <2>3, <2>4, <2>5, <2>6, <2>7, OutsideInv DEF Inv, IInv, TypeOK
<1>3. QED BY <1>1, <1>2

LEMMA DieInv ==
  ASSUME Inv, NEW p \in Pid, Die(p)
  PROVE  Inv'
BY ExitInv DEF Die

LEMMA ProceedInv ==
  ASSUME Inv, NEW c \in Cli, Proceed(c)
  PROVE  Inv'
BY LookInv, UnlinkStaleInv, ProbeForStopInv, ProbeForRestartInv, ProbeForStartInv,
   ProbeForStatusInv, SpawnInv, WritePidInv, CheckChildInv, WaitInv, ResolveInv, GoneInv, KillInv,
   WriteDraftInv, MergeAndValidateInv, WriteFinalInv, ReplaceInv, GenerateFailsInv, DiscardInv
   DEF Proceed

LEMMA NextInv ==
  ASSUME Inv, [Next]_vars
  PROVE  Inv'
<1>1. CASE UNCHANGED vars
  <2>1. UNCHANGED <<proc, bound, pidFile, config, draft, cli, crossed, accidents>>
    BY <1>1 DEF vars
  <2>2. ProcsTyped' /\ Live' = Live
    BY <2>1, SameProcs DEF Inv, IInv
  <2>3. (EditorNamed => EditorNamed') /\ (ConfigSound => ConfigSound')
    BY <2>1, SameEditor, SameConfig
  <2>4. QED BY <2>1, <2>2, <2>3, OutsideInv DEF Inv, IInv, TypeOK
<1>2. CASE Next
  BY <1>2, BeginInv, ProceedInv, InterruptInv, WriteByHandInv, BindInv, DieInv DEF Next
<1>3. QED BY <1>1, <1>2

LEMMA InitInv == Init => Inv
<1> SUFFICES ASSUME Init PROVE Inv
  OBVIOUS
<1>1. \A c \in Cli : cli[c] = Idle /\ cli[c].cmd = "none"
  BY DEF Init, Idle
<1>2. TypeOK
  <2>1. proc \in [Pid -> ProcStates] /\ bound \in [Pid -> Ports]
    BY DEF Init, ProcStates, Ports
  <2>2. config \in Configs /\ draft \in Configs
    BY DEF Init, Configs
  <2>3. \A p \in Pid : proc[p] = "unborn"
    BY DEF Init
  <2>4. cli \in [Cli -> {Idle} \cup Commands]
    BY DEF Init
  <2>5. accidents \in 0..MaxAccidents
    BY ServiceAssumption DEF Init
  <2>6. QED BY <1>1, <2>1, <2>2, <2>3, <2>4, <2>5 DEF Init, TypeOK
<1>3. Live = {}
  BY DEF Init, Live
<1>4. IInv
  BY <1>1, <1>2, <1>3 DEF IInv, KindChosen, PidsSeen, ConfigRead
<1>5. ConfigSound
  <2>1. Valid(Merged("https")) /\ Merged("https").sections = "there"
    BY DEF Valid, Merged, Sound, Reachable
  <2>2. QED BY <2>1 DEF Init, ConfigSound, Builds
<1>6. Quiet
  BY <1>1, <1>3, <1>5, NoEditor DEF Quiet, Alone, Init
<1>7. QED BY <1>4, <1>6 DEF Inv, Uncrossed

LEMMA Invariance == Spec => []Inv
BY InitInv, NextInv, PTL DEF Spec
-----------------------------------------------------------------------------
(* The variables stay in their sets, two editors never serve one port, and  *)
(* a start that waits has a child that was spawned (cmd_start, main).       *)
THEOREM ServiceTypeCorrect == Spec => []TypeOK
<1>1. Inv => TypeOK
  BY DEF Inv, IInv
<1>2. QED BY <1>1, Invariance, PTL

(* As long as commands ran one after another to their end, every live       *)
(* editor is the one the pid file names between commands (cmd_start writes  *)
(* it, cmd_stop and cmd_status remove it, each after its own look).         *)
THEOREM PidFileStaysTrue == Spec => []PidFileTrue
<1>1. Inv => PidFileTrue
  BY DEF Inv, Uncrossed, Quiet, EditorNamed, PidFileTrue
<1>2. QED BY <1>1, Invariance, PTL

(* As long as commands do not cross, the configuration is one that was      *)
(* written by hand or one that main starts from, and generate-config leaves *)
(* no draft (config_generator.generate).                                    *)
THEOREM ConfigStaysValidated == Spec => []ConfigValidated
<1>1. ASSUME Inv, ~crossed
      PROVE  /\ config \in {Absent} \cup Written \/ (config.sections = "there" /\ Builds(config))
             /\ (\A c \in Cli : cli[c] = Idle) => draft = Absent
  BY <1>1 DEF Inv, Uncrossed, Quiet, ConfigSound
<1>2. Inv => ConfigValidated
  BY <1>1 DEF ConfigValidated
<1>3. QED BY <1>2, Invariance, PTL
=============================================================================
