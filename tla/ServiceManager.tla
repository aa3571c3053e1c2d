--------------------------- MODULE ServiceManager ---------------------------
(* aiedmgr (interfaces/service_manager.py): commands that start, stop,      *)
(* restart and inspect the editor through a pid file and the health page,   *)
(* the configuration they all read first (config/), which a generator or an *)
(* operator's editor replaces at any time, and the start-up of the editor   *)
(* (main.py).  Nothing locks the pid file, the port, the configuration or   *)
(* its draft: commands of two terminals interleave.                         *)
EXTENDS Naturals, FiniteSets

CONSTANTS Pid,           \* processes that can be spawned
          Cli,           \* terminals an operator types commands in
          NoPid,         \* no pid file, or none readable
          Written,       \* configurations the operator writes by hand
          MaxAccidents   \* bound: commands interrupted with ^C and
                         \* configurations written by hand

VARIABLES proc,       \* proc[p]: "unborn", "starting", "serving", "dead"
          bound,      \* bound[p]: the port p has of the configuration
          pidFile,    \* pid named by the pid file
          config,     \* the configuration
          draft,      \* the generator's <out>.tmp
          cli,        \* cli[c]: the running command and what it has seen
          crossed,    \* history: two commands overlapped, one was cut short,
                      \* a start gave up waiting, or the port in the
                      \* configuration changed under a live editor
          accidents

vars == <<proc, bound, pidFile, config, draft, cli, crossed, accidents>>

ProcStates == {"unborn", "starting", "serving", "dead"}
NoPort == 0

(* A configuration as far as the editor looks at it: its two sections, there, *)
(* null or missing, and the port of the server section.                     *)
Absent == [sections |-> "absent"]
Bare == [sections |-> "missing", port |-> 8080]
Merged(kind) ==
  [sections |-> "there", port |-> 8080, threshold |-> "size", formatter |-> "text",
   protocol |-> kind, caPort |-> 15000, ssl |-> "none", token |-> "unused"]
Configs == {Absent, Bare, Merged("https"), Merged("mtls")} \cup Written
Ports == {s.port : s \in Configs \ {Absent}} \cup {NoPort}

ASSUME ServiceAssumption ==
  NoPid \notin Pid /\ Absent \notin Written /\ MaxAccidents \in Nat

(* AiEditorConfigValidator: a section that is not there, or null, has no    *)
(* errors.                                                                  *)
Sound(s) ==
  /\ s.threshold = "size"
  /\ s.formatter \in {"text", "yaml", "cst"}
Reachable(s) ==
  /\ s.protocol \in {"https", "mtls"}
  /\ s.caPort \in 1..65535
  /\ s.protocol = "mtls" => s.ssl # "none"
  /\ s.token # "unnamed"        \* used, and no variable named for it
  /\ s.ssl # "broken"           \* files the adapter refuses
Valid(s) == s.sections = "there" => Sound(s) /\ Reachable(s)

(* from_config_json fills in defaults, but cannot take a null.              *)
Builds(s) == Valid(s) /\ s.sections \in {"missing", "there"}

Idle == [cmd |-> "none"]
StopSteps == {"resolve", "poll"}
StartSteps == {"spawn", "write", "check", "wait"}
GenerateSteps == {"draft", "merge", "final", "replace", "discard"}
Commands ==
  [cmd : {"start", "stop", "restart", "status", "generate"},
   at : {"look", "probe", "unlink"} \cup StopSteps \cup StartSteps \cup GenerateSteps,
   again : BOOLEAN,                      \* restart: cmd_start follows the stop
   pid : Pid \cup {NoPid}, alive : BOOLEAN, running : BOOLEAN,  \* ServiceState
   port : Ports,
   targets : SUBSET Pid,                 \* stop: pids to terminate
   kind : {"none", "https", "mtls"},     \* generate: what it merged
   child : Pid \cup {NoPid}]             \* start: the Popen object

(* The variables stay in their sets, editors that serve hold different       *)
(* ports, and a start that waits has a child that was spawned.              *)
TypeOK ==
  /\ proc \in [Pid -> ProcStates]
  /\ bound \in [Pid -> Ports]
  /\ \A p, q \in Pid : proc[p] = "serving" /\ proc[q] = "serving" =>
       bound[p] # NoPort /\ (bound[p] = bound[q] => p = q)
  /\ pidFile \in Pid \cup {NoPid}
  /\ config \in Configs
  /\ draft \in Configs
  /\ cli \in [Cli -> {Idle} \cup Commands]
  /\ \A c \in Cli :
       cli[c].cmd # "none" /\ cli[c].at \in {"write", "check", "wait"} =>
         cli[c].child # NoPid /\ proc[cli[c].child] # "unborn"
  /\ crossed \in BOOLEAN
  /\ accidents \in 0..MaxAccidents

Init ==
  /\ proc = [p \in Pid |-> "unborn"]
  /\ bound = [p \in Pid |-> NoPort]
  /\ pidFile = NoPid
  /\ config \in {Absent, Merged("https")}
  /\ draft = Absent
  /\ cli = [c \in Cli |-> Idle]
  /\ crossed = FALSE
  /\ accidents = 0

At(c, step) == cli[c].cmd # "none" /\ cli[c].at = step
Update(c, command) == cli' = [cli EXCEPT ![c] = command]
GoTo(c, step) == Update(c, [cli[c] EXCEPT !.at = step])
End(c) == Update(c, Idle)
Services == <<proc, bound, pidFile>>
Files == <<config, draft>>
History == <<crossed, accidents>>

Live == {p \in Pid : proc[p] \in {"starting", "serving"}}
Serving == {p \in Pid : proc[p] = "serving"}
Health(port) == \E p \in Serving : bound[p] = port

(* A dead child of a start that still runs is a zombie: os.kill(pid, 0)     *)
(* finds it until its parent polls or exits.                                *)
Zombie == {p \in Pid : proc[p] = "dead" /\
             \E c \in Cli : cli[c].cmd # "none" /\ cli[c].child = p}
PidAlive(p) == p \in Live \cup Zombie

Exit(ps) ==
  /\ proc' = [p \in Pid |-> IF p \in ps THEN "dead" ELSE proc[p]]
  /\ bound' = [p \in Pid |-> IF p \in ps THEN NoPort ELSE bound[p]]

-----------------------------------------------------------------------------
(* The operator types a command.  Starts keep a pid to spawn (bound).       *)
WillSpawn(c) ==
  cli[c] # Idle /\ cli[c].child = NoPid /\ (cli[c].again \/ cli[c].cmd \in {"start", "restart"})

Begin(c) ==
  \E cmd \in {"start", "stop", "restart", "status", "generate"} :
    /\ cli[c] = Idle
    /\ cmd \in {"start", "restart"} =>
         Cardinality({p \in Pid : proc[p] = "unborn"}) >
         Cardinality({d \in Cli : WillSpawn(d)})
    /\ Update(c, [cmd |-> cmd, at |-> IF cmd = "generate" THEN "draft" ELSE "look",
                  again |-> cmd = "restart", pid |-> NoPid, alive |-> FALSE,
                  running |-> FALSE, port |-> NoPort, targets |-> {}, kind |-> "none",
                  child |-> NoPid])
    /\ crossed' = (crossed \/ \E d \in Cli \ {c} : cli[d] # Idle)
    /\ UNCHANGED <<Services, Files, accidents>>

(* _inspect_service: the configuration, the pid file and the process first  *)
(* ...                                                                      *)
Look(c) ==
  /\ At(c, "look")
  /\ IF config = Absent  \* _load_raw_config raises
     THEN End(c)
     ELSE Update(c, [cli[c] EXCEPT !.at = "probe", !.port = config.port, !.pid = pidFile,
                                   !.alive = PidAlive(pidFile)])
  /\ UNCHANGED <<Services, Files, History>>

(* ... and the health page after them.  What was seen is kept as far as the *)
(* next step needs it.                                                      *)
Answers(c) == Health(cli[c].port)
Seen(c, step, pid, alive, running) ==
  Update(c, [cli[c] EXCEPT !.at = step, !.port = NoPort, !.pid = pid, !.alive = alive,
                           !.running = running])
Forget(c, step) == Seen(c, step, NoPid, FALSE, FALSE)

ProbeForStop(c) ==
  /\ At(c, "probe")
  /\ cli[c].cmd = "stop"
  /\ Seen(c, "resolve", cli[c].pid, cli[c].alive, Answers(c))
  /\ UNCHANGED <<Services, Files, History>>

(* restart looks again in stop, and once more in start.                     *)
ProbeForRestart(c) ==
  /\ At(c, "probe")
  /\ cli[c].cmd = "restart"
  /\ LET found == Answers(c) \/ cli[c].alive
     IN Update(c, [cli[c] EXCEPT !.at = "look", !.port = NoPort, !.pid = NoPid,
                     !.alive = FALSE, !.again = found, !.cmd = IF found THEN "stop" ELSE "start"])
  /\ UNCHANGED <<Services, Files, History>>

(* start validates before it spawns, and only then: a restart has stopped   *)
(* the editor by now.                                                       *)
ProbeForStart(c) ==
  /\ At(c, "probe")
  /\ cli[c].cmd = "start"
  /\ IF Answers(c) \/ ~Valid(config) THEN End(c) ELSE Forget(c, "spawn")
  /\ UNCHANGED <<Services, Files, History>>

ProbeForStatus(c) ==
  /\ At(c, "probe")
  /\ cli[c].cmd = "status"
  /\ IF cli[c].pid # NoPid /\ ~cli[c].alive /\ ~Answers(c) THEN Forget(c, "unlink") ELSE End(c)
  /\ UNCHANGED <<Services, Files, History>>

(* cmd_status: a stale pid file is removed, whatever it names by now.       *)
UnlinkStale(c) ==
  /\ At(c, "unlink")
  /\ pidFile' = NoPid
  /\ End(c)
  /\ UNCHANGED <<proc, bound, Files, History>>

-----------------------------------------------------------------------------
(* main: the editor reads the configuration as it starts, validates it once *)
(* more and builds its settings from it.                                    *)
Loaded == IF Builds(config) THEN config.port ELSE NoPort

(* A slip in Spawn: the child is not kept.                                  *)
SpawnLoses(c) ==
  /\ At(c, "spawn")
  /\ \E p \in Pid :
       /\ proc[p] = "unborn"
       /\ proc' = [proc EXCEPT ![p] = "starting"]
       /\ bound' = [bound EXCEPT ![p] = Loaded]
       /\ GoTo(c, "write")
  /\ UNCHANGED <<pidFile, Files, History>>

(* start: Popen, the pid file, one poll of the child and the wait for       *)
(* health.                                                                  *)
Spawn(c) ==
  /\ At(c, "spawn")
  /\ \E p \in Pid :
       /\ proc[p] = "unborn"
       /\ proc' = [proc EXCEPT ![p] = "starting"]
       /\ bound' = [bound EXCEPT ![p] = Loaded]
       /\ Update(c, [cli[c] EXCEPT !.at = "write", !.child = p])
  /\ UNCHANGED <<pidFile, Files, History>>

WritePid(c) ==
  /\ At(c, "write")
  /\ pidFile' = cli[c].child
  /\ GoTo(c, "check")
  /\ UNCHANGED <<proc, bound, Files, History>>

CheckChild(c) ==
  /\ At(c, "check")
  /\ IF proc[cli[c].child] = "dead"
     THEN pidFile' = NoPid /\ End(c)
     ELSE GoTo(c, "wait") /\ UNCHANGED pidFile
  /\ UNCHANGED <<proc, bound, Files, History>>

(* _wait_for_health: the first look that finds the page up, or after        *)
(* fifteen seconds one that does not.                                       *)
Wait(c) ==
  /\ At(c, "wait")
  /\ crossed' = (crossed \/ ~Health(config.port))
  /\ End(c)
  /\ UNCHANGED <<Services, Files, accidents>>

-----------------------------------------------------------------------------
(* stop: a live process of the pid file alone; else, when the page answers, *)
(* the listener and every process started with this configuration; else     *)
(* nothing but the pid file.                                                *)
AfterStop(c) ==
  IF cli[c].again
  THEN Update(c, [cli[c] EXCEPT !.cmd = "start", !.at = "look", !.again = FALSE,
                                !.pid = NoPid, !.alive = FALSE, !.running = FALSE, !.targets = {}])
  ELSE End(c)

(* A slip in StopTargets: only the pid file is asked.                       *)
StopTargetsByFile(c) == IF cli[c].alive THEN {cli[c].pid} ELSE {}

StopTargets(c) ==
  IF cli[c].alive THEN {cli[c].pid} ELSE IF cli[c].running THEN Live ELSE {}

Resolve(c) ==
  /\ At(c, "resolve")
  /\ IF StopTargets(c) = {}
     THEN pidFile' = NoPid /\ AfterStop(c)
     ELSE /\ Update(c, [cli[c] EXCEPT !.at = "poll", !.targets = StopTargets(c), !.pid = NoPid,
                                      !.alive = FALSE, !.running = FALSE])
          /\ UNCHANGED pidFile
  /\ UNCHANGED <<proc, bound, Files, History>>

(* A slip in Gone: the pid file is removed without waiting for the exit.    *)
GoneAtOnce(c) ==
  /\ At(c, "poll")
  /\ pidFile' = NoPid
  /\ AfterStop(c)
  /\ UNCHANGED <<proc, bound, Files, History>>

(* SIGTERM leaves the exit to the editor (Die).  The command polls until    *)
(* every target is gone ...                                                 *)
Gone(c) ==
  /\ At(c, "poll")
  /\ \A p \in cli[c].targets : ~PidAlive(p)
  /\ pidFile' = NoPid
  /\ AfterStop(c)
  /\ UNCHANGED <<proc, bound, Files, History>>

(* A slip in Kill: the wait has no time limit.                              *)
KillNever(c) == FALSE

(* ... or, after thirty seconds, kills the ones that are left.              *)
Kill(c) ==
  /\ At(c, "poll")
  /\ \E p \in cli[c].targets : PidAlive(p)
  /\ Exit(cli[c].targets)
  /\ pidFile' = NoPid
  /\ AfterStop(c)
  /\ UNCHANGED <<Files, History>>

-----------------------------------------------------------------------------
(* A new configuration; the port may move away from a live editor.          *)
Put(s) ==
  /\ config' = s
  /\ crossed' = (crossed \/ (Live # {} /\ config # Absent /\ s.port # config.port))

(* generate-config: the adapter writes the draft, the editor's sections are *)
(* merged into it and validated, the draft is rewritten and renamed over    *)
(* the configuration.                                                       *)
WriteDraft(c) ==
  /\ At(c, "draft")
  /\ draft' = Bare
  /\ GoTo(c, "merge")
  /\ UNCHANGED <<Services, config, History>>

(* A slip in MergeAndValidate: the errors of the validation are not read.   *)
MergeUnvalidated(c) ==
  /\ At(c, "merge")
  /\ \E kind \in {"https", "mtls"} :
       Update(c, [cli[c] EXCEPT !.at = IF draft # Absent THEN "final" ELSE "discard",
                                !.kind = kind])
  /\ UNCHANGED <<Services, Files, History>>

(* The merged sections name no certificates, so mtls is always refused.     *)
MergeAndValidate(c) ==
  /\ At(c, "merge")
  /\ \E kind \in {"https", "mtls"} :
       IF draft # Absent /\ Valid(Merged(kind))
       THEN Update(c, [cli[c] EXCEPT !.at = "final", !.kind = kind])
       ELSE GoTo(c, "discard")
  /\ UNCHANGED <<Services, Files, History>>

WriteFinal(c) ==
  /\ At(c, "final")
  /\ draft' = Merged(cli[c].kind)
  /\ GoTo(c, "replace")
  /\ UNCHANGED <<Services, config, History>>

Replace(c) ==
  /\ At(c, "replace")
  /\ IF draft = Absent
     THEN GoTo(c, "discard") /\ UNCHANGED <<Files, crossed>>
     ELSE End(c) /\ Put(draft) /\ draft' = Absent
  /\ UNCHANGED <<Services, accidents>>

(* A disk error anywhere ends in the except branches.                       *)
GenerateFails(c) ==
  /\ \E step \in {"draft", "merge", "final", "replace"} : At(c, step)
  /\ \/ ~At(c, "draft") /\ UNCHANGED draft
     \/ At(c, "draft") /\ draft' \in {draft, Bare}
  /\ GoTo(c, "discard")
  /\ UNCHANGED <<Services, config, History>>

Discard(c) ==
  /\ At(c, "discard")
  /\ draft' = Absent
  /\ End(c)
  /\ UNCHANGED <<Services, config, History>>

-----------------------------------------------------------------------------
(* The operator interrupts a command: what it has done stays.               *)
Interrupt(c) ==
  /\ cli[c] # Idle
  /\ accidents < MaxAccidents
  /\ accidents' = accidents + 1
  /\ crossed' = TRUE
  /\ End(c)
  /\ UNCHANGED <<Services, Files>>

(* The operator writes the configuration, whatever runs.                    *)
WriteByHand ==
  /\ accidents < MaxAccidents
  /\ accidents' = accidents + 1
  /\ \E s \in Written : Put(s)
  /\ UNCHANGED <<Services, draft, cli>>

(* main, after its sweep: the editor binds its port, or dies when it could  *)
(* build nothing or another one has it.                                     *)
Bind(p) ==
  /\ proc[p] = "starting"
  /\ IF bound[p] = NoPort \/ Health(bound[p]) THEN Exit({p})
     ELSE proc' = [proc EXCEPT ![p] = "serving"] /\ UNCHANGED bound
  /\ UNCHANGED <<pidFile, Files, cli, History>>

Die(p) ==
  /\ p \in Live
  /\ Exit({p})
  /\ UNCHANGED <<pidFile, Files, cli, History>>

Proceed(c) ==
  \/ Look(c) \/ UnlinkStale(c)
  \/ ProbeForStop(c) \/ ProbeForRestart(c) \/ ProbeForStart(c) \/ ProbeForStatus(c)
  \/ Spawn(c) \/ WritePid(c) \/ CheckChild(c) \/ Wait(c)
  \/ Resolve(c) \/ Gone(c) \/ Kill(c)
  \/ WriteDraft(c) \/ MergeAndValidate(c) \/ WriteFinal(c) \/ Replace(c)
  \/ GenerateFails(c) \/ Discard(c)

Next ==
  \/ \E c \in Cli : Begin(c) \/ Proceed(c) \/ Interrupt(c)
  \/ WriteByHand
  \/ \E p \in Pid : Bind(p) \/ Die(p)

(* A command runs on by itself and its two timers run out; an editor that   *)
(* is started binds or dies.  Nothing makes a server exit on SIGTERM.       *)
Spec ==
  /\ Init /\ [][Next]_vars
  /\ \A c \in Cli : WF_vars(Proceed(c))
  /\ \A p \in Pid : WF_vars(Bind(p))

-----------------------------------------------------------------------------
(* service_manager.py cmd_start/cmd_stop: as long as commands ran one after *)
(* another to their end, every live editor is the one the pid file names    *)
(* between commands, so the next stop, restart or status is about it.       *)
PidFileTrue ==
  ~crossed /\ (\A c \in Cli : cli[c] = Idle) => Live \subseteq {pidFile}

(* config_generator.py generate: whatever fails, a run by itself replaces   *)
(* the configuration only by one that has the editor's sections and that    *)
(* main starts from, and leaves no draft behind.                            *)
ConfigValidated ==
  ~crossed => /\ config \in {Absent} \cup Written \/ (config.sections = "there" /\ Builds(config))
              /\ (\A c \in Cli : cli[c] = Idle) => draft = Absent

(* service_manager.py _resolve_stop_pids: however commands crossed and the  *)
(* pid file was lost, an operator who keeps typing stop and starts no more  *)
(* editor ends with none: the health page betrays the ones left over.  It   *)
(* takes one of them to serve the port that the configuration names.        *)
StrayServersStopped ==
  LET named == Serving # {} => \E p \in Serving : config # Absent /\ bound[p] = config.port
      stops == \E c \in Cli : cli[c].cmd = "stop"
      starts == \E c \in Cli : cli[c].cmd \in {"start", "restart"}
  IN []<>stops /\ <>[](~starts /\ named) => <>[](Live = {})

(* service_manager.py _terminate_pids, _wait_for_health: every command ends *)
(* (its terminal is idle again), whatever the editor does.                  *)
CommandsEnd == \A c \in Cli : []<>(cli[c] = Idle)
=============================================================================
