----------------------- MODULE SessionLifecycle_proofs -----------------------
(***************************************************************************)
(* Proofs about SessionLifecycle, for every set of sessions and files and  *)
(* any number of crashes, restarts and refusals of the CA server, with a   *)
(* disconnect of the command line beside the commands of the server: the   *)
(* variables keep their shape; the subordinate link and the locks a        *)
(* session records stand on CA until a close begins or a sweep or          *)
(* release_ca takes them; without a crash no session is left half closed;  *)
(* and no unforced command loses edits that were never sent.  What a       *)
(* disconnect may do to a command it crosses is left out of each.          *)
(***************************************************************************)
EXTENDS SessionLifecycle, TLAPS

Entry == [state : FileState, lock : BOOLEAN]

AllSent(s) == \A f \in Open(s) : dir[s].bufs[f].state = "sent"

\* The settings are as a command has read them, or a disconnect removed them.
AsRead(s, seen) == dir[s] = seen \/ (s \in crossed /\ ~Settings(s))

\* What a command o has established by its next step.
ConnectOK(o) ==
  o.kind = "connect" =>
    /\ o.fresh => o.seen = Fresh
    /\ o.at \in {"mkdir", "settings"} => o.fresh /\ (o.s \in crossed \/ ~Settings(o.s))
    /\ o.at \in {"link", "write"} => AsRead(o.s, o.seen)
    /\ o.at = "write" /\ o.s \in alive \ (torn \cup crossed) => o.s \in link

RecordOK(o) ==
  o.kind \in Recorded =>
    /\ AsRead(o.s, o.seen)
    /\ o.kind = "open" => /\ o.f \notin DOMAIN o.seen.bufs
                          /\ o.s \in alive \ crossed => lockOf[o.f] = {o.s}
    /\ o.kind # "open" => o.f \in DOMAIN o.seen.bufs
    /\ o.kind = "drop" /\ o.seen.bufs[o.f].state = "edited" => o.flag

\* A close has looked for unsent edits, and nothing but itself drops a link.
CloseOK(o) ==
  o.kind = "close" =>
    /\ o.at = "unlock" => o.mode = "release_ca"
    /\ o.at \in {"locks", "link", "remove"} /\ o.s \notin crossed =>
         Settings(o.s) /\ (o.force \/ AllSent(o.s))
    /\ o.at = "link" => o.s \in torn \cup crossed

Sound(o) == ConnectOK(o) /\ RecordOK(o) /\ CloseOK(o)

CommandsOK ==
  \A p \in Process, o \in Op :
    op[p] = o => Sound(o) /\ (p = "cli" => o.kind = "close")

\* Where server and disconnect are on one session, it is marked.
Apart == \A s \in Session : On("server", s) /\ Leaving(s) => s \in crossed

\* What is said of each session.
LinkOf(s) == s \in alive \ (torn \cup crossed) /\ Usable(s) => s \in link

LocksOf(s) ==
  s \in alive \ (torn \cup crossed) =>
    \A f \in Open(s) : dir[s].bufs[f].lock /\ <<s, f>> \notin swept => lockOf[f] = {s}

\* A session whose resources are given back: in a close that has only to drop
\* its link and to remove the directory.
HalfOf(s) ==
  crashes = 0 /\ s \in torn \ (stuck \cup crossed) =>
    \E p \in Process :
      On(p, s) /\ op[p].kind = "close" /\ op[p].at \in {"link", "remove"}

SessionOK(s) == LinkOf(s) /\ LocksOf(s) /\ HalfOf(s)

IInv ==
  /\ TypeOK /\ CommandsOK /\ Apart
  /\ \A s \in Session : SessionOK(s)
-----------------------------------------------------------------------------
(* Directories.                                                            *)
LEMMA DirShape ==
  /\ Fresh \in Dir
  /\ \A d \in Dir : /\ d # NoDir /\ d # Bare
                    /\ d.linked \in BOOLEAN /\ d.bufs \in Buffers
  /\ \A linked \in BOOLEAN, bufs \in Buffers : [linked |-> linked, bufs |-> bufs] \in Dir
<1>1. <<>> = [f \in {} |-> {}]
  BY SMT
<1>2. <<>> \in Buffers
  BY <1>1 DEF Buffers
<1>3. \A d \in Dir : DOMAIN d = {"linked", "bufs"}
  BY DEF Dir
<1>4. DOMAIN NoDir = {"is"} /\ DOMAIN Bare = {"is"}
  BY DEF NoDir, Bare
<1>5. QED BY <1>2, <1>3, <1>4 DEF Dir, Fresh

LEMMA BuffersShape ==
  /\ \A e \in Buffers : /\ DOMAIN e \subseteq File
                        /\ \A f \in DOMAIN e : e[f] \in Entry
                        /\ e = [f \in DOMAIN e |-> e[f]]
  /\ \A F \in SUBSET File : [F -> Entry] \subseteq Buffers
  /\ DOMAIN <<>> = {} /\ DOMAIN Fresh.bufs = {}
BY DEF Buffers, Entry, Fresh

\* What a record of settings or of a buffer becomes when a part of it changes.
LEMMA Changed ==
  /\ \A d \in Dir : \E e \in Dir :
       e = [d EXCEPT !.linked = TRUE] /\ e.bufs = d.bufs /\ e.linked = TRUE
  /\ \A d \in Dir, bufs \in Buffers : \E e \in Dir :
       e = [d EXCEPT !.bufs = bufs] /\ e.bufs = bufs /\ e.linked = d.linked
  /\ \A b \in Entry, state \in FileState : \E e \in Entry :
       e = [b EXCEPT !.state = state] /\ e.lock = b.lock
  /\ \A state \in FileState, lock \in BOOLEAN : \E e \in Entry :
       e = [state |-> state, lock |-> lock] /\ e.lock = lock
<1>1. ASSUME NEW d \in Dir
      PROVE  \E e \in Dir : e = [d EXCEPT !.linked = TRUE] /\ e.bufs = d.bufs /\ e.linked = TRUE
  <2> DEFINE x == [d EXCEPT !.linked = TRUE]
  <2>1. x \in Dir /\ x.bufs = d.bufs /\ x.linked = TRUE
    BY DEF Dir
  <2> HIDE DEF x
  <2>2. QED BY <2>1 DEF x
<1>2. ASSUME NEW d \in Dir, NEW bufs \in Buffers
      PROVE  \E e \in Dir : e = [d EXCEPT !.bufs = bufs] /\ e.bufs = bufs /\ e.linked = d.linked
  <2> DEFINE x == [d EXCEPT !.bufs = bufs]
  <2>1. x \in Dir /\ x.bufs = bufs /\ x.linked = d.linked
    BY DEF Dir
  <2> HIDE DEF x
  <2>2. QED BY <2>1 DEF x
<1>3. ASSUME NEW b \in Entry, NEW state \in FileState
      PROVE  \E e \in Entry : e = [b EXCEPT !.state = state] /\ e.lock = b.lock
  <2> DEFINE x == [b EXCEPT !.state = state]
  <2>1. x \in Entry /\ x.lock = b.lock
    BY DEF Entry
  <2> HIDE DEF x
  <2>2. QED BY <2>1 DEF x
<1>4. ASSUME NEW state \in FileState, NEW lock \in BOOLEAN
      PROVE  \E e \in Entry : e = [state |-> state, lock |-> lock] /\ e.lock = lock
  <2> DEFINE x == [state |-> state, lock |-> lock]
  <2>1. x \in Entry /\ x.lock = lock
    BY DEF Entry
  <2> HIDE DEF x
  <2>2. QED BY <2>1 DEF x
<1>5. QED BY <1>1, <1>2, <1>3, <1>4

LEMMA OpenFiles ==
  ASSUME TypeOK, NEW s \in Session
  PROVE  /\ Settings(s) => dir[s] \in Dir
         /\ Open(s) \subseteq File
         /\ \A f \in Open(s) : dir[s].bufs[f] \in Entry
BY DirShape, BuffersShape DEF TypeOK, Settings, Open

LEMMA SeenDir ==
  ASSUME NEW s \in Session, NEW d \in Dir, dir[s] = d
  PROVE  Settings(s) /\ Open(s) = DOMAIN d.bufs
BY DirShape DEF Settings, Open

\* A directory that is taken away, or made from nothing.
LEMMA Replaced ==
  ASSUME TypeOK, NEW s \in Session, NEW d \in {NoDir, Bare, Fresh},
         dir' = [dir EXCEPT ![s] = d]
  PROVE  /\ dir' \in [Session -> Dir \cup {NoDir, Bare}]
         /\ \A t \in Session : t # s => dir'[t] = dir[t]
         /\ Settings(s)' <=> d = Fresh
         /\ ~Usable(s)' /\ Open(s)' = {}
<1>1. /\ dir' \in [Session -> Dir \cup {NoDir, Bare}] /\ dir'[s] = d
      /\ \A t \in Session : t # s => dir'[t] = dir[t]
  BY DirShape DEF TypeOK
<1>2. Fresh # NoDir /\ Fresh # Bare /\ Fresh.linked = FALSE
  BY DirShape DEF Fresh
<1>3. QED BY <1>1, <1>2, BuffersShape DEF Settings, Usable, Open

\* A directory with other settings.
LEMMA Written ==
  ASSUME TypeOK, NEW s \in Session, NEW d \in Dir, dir' = [dir EXCEPT ![s] = d]
  PROVE  /\ dir' \in [Session -> Dir \cup {NoDir, Bare}]
         /\ \A t \in Session : t # s => dir'[t] = dir[t]
         /\ dir'[s] = d /\ Settings(s)' /\ Open(s)' = DOMAIN d.bufs
         /\ Usable(s)' <=> d.linked
BY DirShape DEF TypeOK, Settings, Usable, Open

LEMMA SameDir ==
  ASSUME NEW t \in Session, dir'[t] = dir[t]
  PROVE  /\ Settings(t)' <=> Settings(t)
         /\ Usable(t)' <=> Usable(t)
         /\ Open(t)' = Open(t) /\ AllSent(t)' = AllSent(t)
BY DEF Settings, Usable, Open, AllSent
-----------------------------------------------------------------------------
(* Commands.                                                               *)
Steps(kind) ==
  CASE kind = "connect" -> {"mkdir", "settings", "link", "write"}
    [] kind \in Recorded -> {"record"}
    [] kind = "close"   -> {"unlock", "guard", "locks", "link", "remove"}

LEMMA CommandShape ==
  ASSUME NEW o \in Op
  PROVE  /\ o # Idle /\ o.s \in Session
         /\ o.kind \in {"connect", "close"} \cup Recorded /\ o.at \in Steps(o.kind)
         /\ o.kind = "connect" => o.fresh \in BOOLEAN /\ o.seen \in Dir
         /\ o.kind \in Recorded => o.f \in File /\ o.flag \in BOOLEAN /\ o.seen \in Dir
         /\ o.kind = "close" => /\ o.force \in BOOLEAN /\ o.locks \in SUBSET File
                                /\ o.linked \in BOOLEAN
BY DEF Op, Steps, Recorded, Idle

LEMMA OnShape ==
  ASSUME TypeOK, NEW p \in Process, op[p] # Idle
  PROVE  op[p] \in Op /\ op[p].s \in Session
<1>1. op[p] \in Op
  BY DEF TypeOK
<1>2. QED BY <1>1, CommandShape

\* One process goes on to a command, to the next step of it, or to its end.
LEMMA OpSet ==
  ASSUME TypeOK, NEW p \in Process, NEW c \in Op \cup {Idle}, op' = [op EXCEPT ![p] = c]
  PROVE  /\ op' \in [Process -> Op \cup {Idle}] /\ op'[p] = c
         /\ \A q \in Process \ {p} : op'[q] = op[q]
BY DEF TypeOK

LEMMA OpEnds ==
  ASSUME TypeOK, NEW p \in Process, End(p)
  PROVE  /\ op' \in [Process -> Op \cup {Idle}] /\ op'[p] = Idle
         /\ \A q \in Process \ {p} : op'[q] = op[q]
BY OpSet DEF End

LEMMA OpGoes ==
  ASSUME TypeOK, NEW p \in Process, NEW kind, NEW s \in Session, NEW step,
         At(p, kind, s, step), kind \in {"connect", "close"},
         NEW t \in Steps(kind), GoTo(p, t)
  PROVE  /\ op' \in [Process -> Op \cup {Idle}]
         /\ \A q \in Process \ {p} : op'[q] = op[q]
         /\ op'[p] \in Op /\ op'[p].kind = kind /\ op'[p].s = s /\ op'[p].at = t
         /\ kind = "connect" => op'[p].fresh = op[p].fresh /\ op'[p].seen = op[p].seen
         /\ kind = "close" => op'[p].force = op[p].force /\ op'[p].mode = op[p].mode
<1> DEFINE c == [op[p] EXCEPT !.at = t]
<1>1. op[p] \in Op /\ op[p].kind = kind /\ op[p].s = s
  BY OnShape DEF At, On
<1>2. /\ c \in Op /\ c.kind = kind /\ c.s = s /\ c.at = t
      /\ kind = "connect" => c.fresh = op[p].fresh /\ c.seen = op[p].seen
      /\ kind = "close" => c.force = op[p].force /\ c.mode = op[p].mode
  <2>1. CASE kind = "connect"
    BY <1>1, <2>1 DEF Op, Steps, Recorded
  <2>2. CASE kind = "close"
    BY <1>1, <2>2 DEF Op, Steps, Recorded
  <2>3. QED BY <2>1, <2>2
<1>3. op' = [op EXCEPT ![p] = c]
  BY DEF GoTo, TypeOK
<1> HIDE DEF c
<1>4. QED BY <1>2, <1>3, OpSet

\* A command stays sound while its session is left alone, or is removed by
\* a disconnect that crosses it.
LEMMA CommandKept ==
  ASSUME NEW o \in Op, Sound(o),
         \/ dir'[o.s] = dir[o.s]
         \/ ~Settings(o.s)' /\ (~Settings(o.s) \/ o.s \in crossed'),
         o.s \in alive' => o.s \in alive,
         o.s \in crossed => o.s \in crossed',
         o.s \in torn => o.s \in torn' \/ ~Settings(o.s) \/ o.s \in crossed',
         o.s \in link => o.s \in link' \/ o.s \in crossed' \/ o.s \notin alive',
         o.kind = "open" /\ lockOf[o.f] = {o.s} =>
           lockOf'[o.f] = {o.s} \/ o.s \in crossed'
  PROVE  Sound(o)'
<1>1. o.s \in Session /\ (o.kind \in {"connect"} \cup Recorded => o.seen \in Dir)
  BY CommandShape
<1>2. \A seen \in Dir : AsRead(o.s, seen) => AsRead(o.s, seen)'
  BY <1>1, SeenDir, DirShape DEF AsRead, Settings
<1>3. ConnectOK(o)'
  <2>1. o.kind = "connect" /\ o.at \in {"mkdir", "settings"} => o.s \in crossed' \/ ~Settings(o.s)'
    BY <1>1 DEF Sound, ConnectOK, Settings
  <2>2. o.kind = "connect" /\ o.at \in {"link", "write"} => AsRead(o.s, o.seen)'
    BY <1>1, <1>2 DEF Sound, ConnectOK
  <2>3. o.kind = "connect" /\ o.at = "write" /\ o.s \in alive' \ (torn' \cup crossed') =>
          o.s \in link'
    BY <1>1, SeenDir DEF Sound, ConnectOK, AsRead
  <2>4. QED BY <2>1, <2>2, <2>3 DEF Sound, ConnectOK
<1>4. RecordOK(o)'
  BY <1>1, <1>2 DEF Sound, RecordOK
<1>5. CloseOK(o)'
  <2>1. o.kind = "close" /\ o.at \in {"locks", "link", "remove"} /\ o.s \notin crossed' =>
          Settings(o.s)' /\ (o.force \/ AllSent(o.s)')
    BY <1>1, SameDir DEF Sound, CloseOK
  <2>2. o.kind = "close" /\ o.at = "link" => o.s \in torn' \cup crossed'
    BY DEF Sound, CloseOK
  <2>3. QED BY <2>1, <2>2 DEF Sound, CloseOK
<1>6. QED BY <1>3, <1>4, <1>5 DEF Sound

\* What is said of a session carries over a step that leaves it alone.
LEMMA SessionKept ==
  ASSUME TypeOK, NEW t \in Session, SessionOK(t), dir'[t] = dir[t],
         t \in alive' => t \in alive,
         t \in torn \cup crossed => t \in torn' \cup crossed',
         t \in link => t \in link' \/ t \notin alive',
         \A f \in Open(t) : /\ <<t, f>> \in swept => <<t, f>> \in swept'
                            /\ t \in alive' /\ lockOf[f] = {t} =>
                                 lockOf'[f] = {t} \/ <<t, f>> \in swept'
  PROVE  LinkOf(t)' /\ LocksOf(t)'
<1>1. LinkOf(t)'
  BY SameDir DEF SessionOK, LinkOf
<1>2. LocksOf(t)'
  BY SameDir DEF SessionOK, LocksOf
<1>3. QED BY <1>1, <1>2
-----------------------------------------------------------------------------
(* A step of one process, on one session.                                  *)
LEMMA StepOn ==
  ASSUME IInv, NEW p \in Process, NEW s \in Session, On(p, s), TypeOK',
         UNCHANGED alive, crashes' = 0 => crashes = 0,
         \A q \in Process \ {p} : op'[q] = op[q],
         op'[p] = Idle \/ op'[p].s = s,
         \A t \in Session \ {s} :
           /\ dir'[t] = dir[t]
           /\ t \in torn' <=> t \in torn
           /\ t \in crossed' <=> t \in crossed
           /\ t \in stuck' <=> t \in stuck
           /\ t \in link' <=> t \in link
           /\ \A f \in File : /\ <<t, f>> \in swept => <<t, f>> \in swept'
                              /\ lockOf[f] = {t} => lockOf'[f] = {t},
         On("server", s) /\ Leaving(s) /\ s \in crossed => s \in crossed',
         p = "cli" /\ On("server", s) =>
           /\ dir'[s] = dir[s] \/ ~Settings(s)'
           /\ s \in crossed' \/ UNCHANGED <<dir, link, lockOf, torn, crossed>>,
         On("server", s)' /\ Leaving(s)' => s \in crossed',
         \A o \in Op : op'[p] = o => Sound(o)' /\ (p = "cli" => o.kind = "close"),
         SessionOK(s)'
  PROVE  IInv'
<1>1. CommandsOK'
  <2> SUFFICES ASSUME NEW q \in Process, NEW o \in Op, op'[q] = o
               PROVE  Sound(o)' /\ (q = "cli" => o.kind = "close")
    BY DEF CommandsOK
  <2>1. CASE q = p
    BY <2>1
  <2>2. CASE q # p
    <3>1. op[q] = o /\ Sound(o) /\ (q = "cli" => o.kind = "close")
      BY <2>2 DEF IInv, CommandsOK
    <3>2. o.s \in Session /\ (o.kind = "open" => o.f \in File) /\ o # Idle
      BY CommandShape DEF Recorded
    <3>3. CASE o.s # s
      <4>1. /\ dir'[o.s] = dir[o.s] /\ (o.s \in torn => o.s \in torn')
            /\ (o.s \in crossed => o.s \in crossed') /\ (o.s \in link => o.s \in link')
            /\ o.kind = "open" /\ lockOf[o.f] = {o.s} => lockOf'[o.f] = {o.s}
        BY <3>2, <3>3
      <4>2. QED BY <3>1, <4>1, CommandKept
    <3>4. CASE o.s = s /\ p = "server"
      <4>1. q = "cli" /\ o.kind = "close"
        BY <2>2, <3>1, <3>4 DEF Process
      <4>2. o.at # "guard" => Leaving(s)
        BY <3>1, <3>2, <3>4, <4>1 DEF Leaving, On
      <4>3. o.at # "guard" => s \in crossed'
        BY <3>4, <4>2 DEF IInv, Apart
      <4>4. CloseOK(o)'
        BY <3>1, <3>4, <4>3 DEF Sound, CloseOK
      <4>5. QED BY <3>1, <4>1, <4>4 DEF Sound, ConnectOK, RecordOK, Recorded
    <3>5. CASE o.s = s /\ p = "cli"
      <4>1. q = "server" /\ On("server", s)
        BY <2>2, <3>1, <3>2, <3>5 DEF Process, On
      <4>2. CASE s \in crossed'
        BY <3>1, <3>2, <3>5, <4>1, <4>2, CommandKept
      <4>3. CASE UNCHANGED <<dir, link, lockOf, torn, crossed>>
        BY <3>1, <3>2, <3>5, <4>3, CommandKept
      <4>4. QED BY <3>1, <3>5, <4>1, <4>2, <4>3
    <3>6. QED BY <3>3, <3>4, <3>5 DEF Process
  <2>3. QED BY <2>1, <2>2
<1>2. Apart'
  <2> SUFFICES ASSUME NEW t \in Session, On("server", t)', Leaving(t)'
               PROVE  t \in crossed'
    BY DEF Apart
  <2>1. CASE t = s
    BY <2>1
  <2>2. CASE t # s
    <3>1. p # "server" /\ p # "cli"
      BY <2>2 DEF On, Leaving
    <3>2. QED BY <3>1 DEF Process
  <2>3. QED BY <2>1, <2>2
<1>3. \A t \in Session : SessionOK(t)'
  <2> SUFFICES ASSUME NEW t \in Session, t # s PROVE SessionOK(t)'
    OBVIOUS
  <2>1. LinkOf(t)' /\ LocksOf(t)'
    BY OpenFiles, SessionKept DEF IInv
  <2>2. HalfOf(t)'
    BY DEF IInv, SessionOK, HalfOf, On
  <2>3. QED BY <2>1, <2>2 DEF SessionOK
<1>4. QED BY <1>1, <1>2, <1>3 DEF IInv

\* A command of the server that begins.
LEMMA ServerStarts ==
  ASSUME IInv, NEW s \in Session, NEW c \in Op, c.s = s, op["server"] = Idle,
         Start(c), Meet(s), UNCHANGED <<alive, link, dir, up, crashes, torn, stuck>>,
         swept \subseteq swept', swept' \subseteq Session \X File,
         lockOf' \in [File -> {{}} \cup {{t} : t \in Session \cup {Other}}],
         \A t \in Session, g \in File :
           lockOf[g] = {t} => lockOf'[g] = {t} \/ <<t, g>> \in swept',
         Sound(c)'
  PROVE  IInv'
<1>1. /\ op' \in [Process -> Op \cup {Idle}] /\ op'["server"] = c /\ op'["cli"] = op["cli"]
      /\ c # Idle
  BY OpSet, CommandShape DEF IInv, Start, Process
<1>2. /\ crossed \subseteq crossed' /\ crossed' \subseteq Session
      /\ Leaving(s) => s \in crossed'
  BY DEF IInv, TypeOK, Meet
<1>3. TypeOK'
  BY <1>1, <1>2 DEF IInv, TypeOK
<1>4. CommandsOK'
  <2> SUFFICES ASSUME NEW q \in Process, NEW o \in Op, op'[q] = o
               PROVE  Sound(o)' /\ (q = "cli" => o.kind = "close")
    BY DEF CommandsOK
  <2>1. CASE q = "server"
    BY <1>1, <2>1
  <2>2. CASE q = "cli"
    <3>1. Sound(o) /\ o.kind = "close"
      BY <1>1, <2>2 DEF IInv, CommandsOK
    <3>2. QED BY <1>2, <2>2, <3>1, CommandShape, CommandKept
  <2>3. QED BY <2>1, <2>2 DEF Process
<1>5. Apart'
  BY <1>1, <1>2 DEF Apart, On, Leaving
<1>6. \A t \in Session : SessionOK(t)'
  <2> SUFFICES ASSUME NEW t \in Session PROVE SessionOK(t)'
    OBVIOUS
  <2>1. LinkOf(t)' /\ LocksOf(t)'
    BY <1>2, OpenFiles, SessionKept DEF IInv
  <2>2. HalfOf(t)'
    BY <1>1, <1>2 DEF IInv, SessionOK, HalfOf, On, Process
  <2>3. QED BY <2>1, <2>2 DEF SessionOK
<1>7. QED BY <1>3, <1>4, <1>5, <1>6 DEF IInv
-----------------------------------------------------------------------------
LEMMA InitInv == Init => IInv
<1> SUFFICES ASSUME Init PROVE IInv
  OBVIOUS
<1>1. lockOf \in [File -> {{}} \cup {{s} : s \in Session \cup {Other}}]
  BY DEF Init
<1>2. dir \in [Session -> Dir \cup {NoDir, Bare}] /\ op \in [Process -> Op \cup {Idle}]
  BY DEF Init
<1>3. crashes \in 0..MaxCrashes
  BY SessionAssumption DEF Init
<1>4. TypeOK
  BY <1>1, <1>2, <1>3 DEF Init, TypeOK
<1>5. \A s \in Session : Open(s) = {} /\ ~Usable(s)
  BY DEF Init, Open, Usable, Settings
<1>6. \A p \in Process : op[p] = Idle
  BY DEF Init
<1>7. CommandsOK
  BY <1>6, CommandShape DEF CommandsOK
<1>8. Apart
  BY <1>6 DEF Apart, On, Process
<1>9. \A s \in Session : SessionOK(s)
  BY <1>5 DEF Init, SessionOK, LinkOf, LocksOf, HalfOf
<1>10. QED BY <1>4, <1>7, <1>8, <1>9 DEF IInv

\* A step of the world around the editor: CA forgets a session or a lock of
\* one, other clients lock.
LEMMA WorldInv ==
  ASSUME IInv, alive' \subseteq alive, link' \subseteq link,
         \A t \in alive' : t \in link => t \in link',
         lockOf' \in [File -> {{}} \cup {{t} : t \in Session \cup {Other}}],
         \A t \in alive', g \in File : lockOf[g] = {t} => lockOf'[g] = {t},
         UNCHANGED <<dir, op, past>>,
         up' \in BOOLEAN, crashes' \in 0..MaxCrashes, crashes' = 0 => crashes = 0
  PROVE  IInv'
<1>1. TypeOK'
  BY DEF IInv, TypeOK, past
<1>2. CommandsOK'
  <2> SUFFICES ASSUME NEW q \in Process, NEW o \in Op, op[q] = o
               PROVE  Sound(o)' /\ (q = "cli" => o.kind = "close")
    BY DEF CommandsOK
  <2>1. Sound(o) /\ (q = "cli" => o.kind = "close") /\ o.s \in Session
    BY CommandShape DEF IInv, CommandsOK
  <2>2. ConnectOK(o)' /\ CloseOK(o)'
    BY <2>1 DEF Sound, ConnectOK, CloseOK, AsRead, Settings, AllSent, Open, past
  <2>3. RecordOK(o)'
    BY <2>1, CommandShape DEF Sound, RecordOK, AsRead, Settings, past
  <2>4. QED BY <2>1, <2>2, <2>3 DEF Sound
<1>3. Apart'
  BY DEF IInv, Apart, On, Leaving, past
<1>4. \A t \in Session : SessionOK(t)'
  <2> SUFFICES ASSUME NEW t \in Session PROVE SessionOK(t)'
    OBVIOUS
  <2>1. LinkOf(t)' /\ LocksOf(t)'
    BY OpenFiles, SessionKept DEF IInv, past
  <2>2. HalfOf(t)'
    BY DEF IInv, SessionOK, HalfOf, On, past
  <2>3. QED BY <2>1, <2>2 DEF SessionOK
<1>5. QED BY <1>1, <1>2, <1>3, <1>4 DEF IInv

LEMMA ExpireInv ==
  ASSUME IInv, NEW s \in Session, Expire(s)
  PROVE  IInv'
BY WorldInv DEF IInv, TypeOK, Expire

LEMMA LocksMoveInv ==
  ASSUME IInv, NEW f \in File, OtherLock(f) \/ \E s \in Session : DropLock(s, f)
  PROVE  IInv'
<1>1. ASSUME NEW s \in Session, DropLock(s, f) PROVE IInv'
  <2>1. \A t \in alive, g \in File : lockOf[g] = {t} => lockOf'[g] = {t}
    BY <1>1 DEF IInv, TypeOK, DropLock
  <2>2. lockOf' \in [File -> {{}} \cup {{t} : t \in Session \cup {Other}}]
    BY <1>1 DEF IInv, TypeOK, DropLock
  <2>3. QED BY <1>1, <2>1, <2>2, WorldInv DEF DropLock, IInv, TypeOK
<1>2. CASE OtherLock(f)
  <2>1. {Other} \ lockOf[f] \in {{}, {Other}}
    BY <1>2 DEF OtherLock
  <2>2. \A t \in Session, g \in File : lockOf[g] = {t} => lockOf'[g] = {t}
    BY <1>2, SessionAssumption DEF IInv, TypeOK, OtherLock
  <2>3. lockOf' \in [File -> {{}} \cup {{t} : t \in Session \cup {Other}}]
    BY <1>2, <2>1 DEF IInv, TypeOK, OtherLock
  <2>4. alive \subseteq Session
    BY DEF IInv, TypeOK
  <2>5. QED BY <1>2, <2>2, <2>3, <2>4, WorldInv DEF OtherLock, IInv, TypeOK
<1>3. QED BY <1>1, <1>2
-----------------------------------------------------------------------------
(* Commands of the server that begin.                                      *)
LEMMA BeginConnectInv ==
  ASSUME IInv, NEW s \in Session, BeginConnect(s)
  PROVE  IInv'
<1>1. Settings(s) => dir[s] \in Dir
  BY OpenFiles DEF IInv
<1>2. Connect(s) \in Op
  BY <1>1, DirShape DEF Connect, Op
<1>3. PICK c \in Op : c = Connect(s)
  BY <1>2
<1>4. /\ c.s = s /\ c.kind = "connect" /\ c.fresh = ~Settings(s)
      /\ c.seen = IF Settings(s) THEN dir[s] ELSE Fresh
      /\ c.at = IF Settings(s) THEN "link" ELSE "mkdir"
  BY <1>3 DEF Connect
<1>5. Sound(c)'
  <2>1. dir' = dir
    BY DEF BeginConnect
  <2>2. QED BY <1>4, <2>1 DEF Sound, ConnectOK, RecordOK, CloseOK, AsRead, Settings, Recorded
<1>6. Start(c)
  BY <1>3 DEF BeginConnect
<1>7. QED BY <1>4, <1>5, <1>6, ServerStarts DEF IInv, TypeOK, BeginConnect, Ready, ca

\* A command that is recorded later.
LEMMA CommandStarts ==
  ASSUME IInv, NEW s \in Session, NEW f \in File, NEW kind \in Recorded, NEW flag \in BOOLEAN,
         Served(s), Start(Command(kind, s, f, flag)), Meet(s),
         UNCHANGED <<alive, link, dir, up, crashes, torn, stuck>>,
         swept \subseteq swept', swept' \subseteq Session \X File,
         lockOf' \in [File -> {{}} \cup {{t} : t \in Session \cup {Other}}],
         \A t \in Session, g \in File :
           lockOf[g] = {t} => lockOf'[g] = {t} \/ <<t, g>> \in swept',
         kind = "open" => f \notin Open(s) /\ lockOf'[f] = {s},
         kind # "open" => f \in Open(s),
         kind = "drop" /\ dir[s].bufs[f].state = "edited" => flag
  PROVE  IInv'
<1>1. Settings(s) /\ dir[s] \in Dir /\ Open(s) = DOMAIN dir[s].bufs
  BY OpenFiles DEF IInv, Served, Usable, Open
<1>2. Command(kind, s, f, flag) \in Op
  BY <1>1 DEF Command, Op
<1>3. PICK c \in Op : c = Command(kind, s, f, flag)
  BY <1>2
<1>4. /\ c.s = s /\ c.kind = kind /\ c.at = "record" /\ c.f = f
      /\ c.flag = flag /\ c.seen = dir[s]
  BY <1>3 DEF Command
<1>5. Sound(c)'
  <2>1. kind # "connect" /\ kind # "close" /\ dir' = dir
    BY DEF Recorded
  <2>2. QED BY <1>1, <1>4, <2>1 DEF Sound, ConnectOK, RecordOK, CloseOK, AsRead
<1>6. Start(c)
  BY <1>3
<1>7. QED BY <1>4, <1>5, <1>6, ServerStarts DEF Served, Ready

LEMMA BeginOpenInv ==
  ASSUME IInv, NEW s \in Session, NEW f \in File, BeginOpen(s, f)
  PROVE  IInv'
<1>1. /\ lockOf' \in [File -> {{}} \cup {{t} : t \in Session \cup {Other}}]
      /\ lockOf'[f] = {s}
      /\ \A t \in Session, g \in File : lockOf[g] = {t} => lockOf'[g] = {t}
  BY DEF IInv, TypeOK, BeginOpen
<1>2. QED BY <1>1, CommandStarts DEF IInv, TypeOK, BeginOpen, Recorded

LEMMA BeginEditInv ==
  ASSUME IInv, NEW s \in Session, NEW f \in File, BeginEdit(s, f)
  PROVE  IInv'
BY CommandStarts DEF IInv, TypeOK, BeginEdit, ca, Recorded

LEMMA BeginWriteInv ==
  ASSUME IInv, NEW s \in Session, NEW f \in File, BeginWrite(s, f)
  PROVE  IInv'
BY CommandStarts DEF IInv, TypeOK, BeginWrite, ca, Recorded, Edited

LEMMA BeginSendInv ==
  ASSUME IInv, NEW s \in Session, NEW f \in File, NEW release \in BOOLEAN,
         BeginSend(s, f, release)
  PROVE  IInv'
<1>1. /\ swept \subseteq swept' /\ swept' \subseteq Session \X File
      /\ release => <<s, f>> \in swept'
  BY DEF IInv, TypeOK, BeginSend
<1>2. /\ lockOf' \in [File -> {{}} \cup {{t} : t \in Session \cup {Other}}]
      /\ \A t \in Session, g \in File :
           lockOf[g] = {t} => lockOf'[g] = {t} \/ <<t, g>> \in swept'
  BY <1>1 DEF IInv, TypeOK, BeginSend
<1>3. QED BY <1>1, <1>2, CommandStarts DEF BeginSend, Recorded

LEMMA Unlocked ==
  ASSUME NEW S \in {{}} \cup {{t} : t \in Session \cup {Other}}, NEW s \in Session
  PROVE  /\ S \ {s} \in {{}} \cup {{t} : t \in Session \cup {Other}}
         /\ \A t : t # s /\ S = {t} => S \ {s} = {t}
<1>1. CASE S \in {{}, {s}}
  BY <1>1
<1>2. CASE s \notin S
  BY <1>2
<1>3. QED BY <1>1, <1>2

LEMMA BeginDropInv ==
  ASSUME IInv, NEW s \in Session, NEW f \in File, NEW force \in BOOLEAN,
         BeginDrop(s, f, force)
  PROVE  IInv'
<1>1. swept \subseteq swept' /\ swept' \subseteq Session \X File
  BY DEF IInv, TypeOK, BeginDrop
<1>2. CASE UNCHANGED lockOf
  BY <1>1, <1>2, CommandStarts DEF IInv, TypeOK, BeginDrop, Recorded
<1>3. CASE lockOf' = [lockOf EXCEPT ![f] = @ \ {s}] /\ swept' = swept \cup {<<s, f>>}
  <2>1. /\ lockOf' \in [File -> {{}} \cup {{t} : t \in Session \cup {Other}}]
        /\ \A t \in Session, g \in File :
             lockOf[g] = {t} => lockOf'[g] = {t} \/ <<t, g>> \in swept'
    BY <1>3, Unlocked DEF IInv, TypeOK
  <2>2. QED BY <1>1, <2>1, CommandStarts DEF BeginDrop, Recorded
<1>4. QED BY <1>2, <1>3 DEF BeginDrop

\* A close that begins has done nothing yet.
LEMMA CloseStarts ==
  ASSUME IInv, NEW s \in Session, Ready, NEW step \in {"unlock", "guard"}, NEW force \in BOOLEAN,
         NEW mode \in {"session_close", "release_ca", "local_only"}, NEW locks \in SUBSET File,
         Start(ClosingOp(s, step, force, mode, locks)), Meet(s),
         step = "unlock" => mode = "release_ca",
         UNCHANGED <<ca, dir, up, crashes, torn, swept, stuck>>
  PROVE  IInv'
<1> DEFINE c == ClosingOp(s, step, force, mode, locks)
<1>1. /\ c \in Op /\ c.s = s /\ c.kind = "close" /\ c.at = step /\ c.mode = mode
  BY DEF ClosingOp, Op
<1>2. Start(c)
  OBVIOUS
<1> HIDE DEF c
<1>3. Sound(c)'
  BY <1>1 DEF Sound, ConnectOK, RecordOK, CloseOK, Recorded
<1>4. QED BY <1>1, <1>2, <1>3, ServerStarts DEF IInv, TypeOK, Ready, ca

LEMMA BeginCloseInv ==
  ASSUME IInv, NEW s \in Session, NEW force \in BOOLEAN, BeginClose(s, force)
  PROVE  IInv'
BY CloseStarts DEF BeginClose, Served

LEMMA BeginCloseInvalidInv ==
  ASSUME IInv, NEW s \in Session, NEW mode \in {"release_ca", "local_only"},
         NEW force \in BOOLEAN, BeginCloseInvalid(s, mode, force)
  PROVE  IInv'
<1>1. Locks(s) \in SUBSET File
  BY OpenFiles DEF IInv, Locks
<1>2. CASE mode = "release_ca"
  <2>1. Start(ClosingOp(s, "unlock", force, mode, Locks(s)))
    BY <1>2 DEF BeginCloseInvalid
  <2>2. QED BY <1>1, <1>2, <2>1, CloseStarts DEF BeginCloseInvalid
<1>3. CASE mode # "release_ca"
  <2>1. Start(ClosingOp(s, "guard", force, mode, {}))
    BY <1>3 DEF BeginCloseInvalid
  <2>2. QED BY <2>1, CloseStarts DEF BeginCloseInvalid
<1>4. QED BY <1>2, <1>3
-----------------------------------------------------------------------------
(* The server goes on with a command that is no close.                     *)
LEMMA ServerStep ==
  ASSUME IInv, NEW s \in Session, On("server", s), op["server"].kind # "close",
         op' \in [Process -> Op \cup {Idle}], op'["cli"] = op["cli"],
         op'["server"] = Idle \/ op'["server"].s = s,
         dir' \in [Session -> Dir \cup {NoDir, Bare}],
         \A t \in Session : t # s => dir'[t] = dir[t],
         link \subseteq link', link' \subseteq link \cup {s},
         UNCHANGED <<alive, lockOf, up, crashes>>,
         swept' \subseteq Session \X File,
         \A t \in Session, f \in File : t # s /\ <<t, f>> \in swept => <<t, f>> \in swept',
         UNCHANGED <<torn, stuck, crossed>> \/ Forget(s),
         \A o \in Op : op'["server"] = o => Sound(o)',
         LinkOf(s)', LocksOf(s)'
  PROVE  IInv'
<1>1. /\ torn' \subseteq torn /\ torn \subseteq torn' \cup {s}
      /\ stuck' \subseteq stuck /\ stuck \subseteq stuck' \cup {s}
      /\ crossed' \subseteq crossed /\ crossed \subseteq crossed' \cup {s}
      /\ On("server", s) /\ Leaving(s) /\ s \in crossed => s \in crossed'
      /\ s \in torn' => UNCHANGED <<torn, stuck, crossed>>
  BY DEF Forget, past
<1>2. TypeOK'
  BY <1>1 DEF IInv, TypeOK
<1>3. On("server", s)' /\ Leaving(s)' => s \in crossed'
  BY <1>1 DEF IInv, Apart, Leaving, On
<1>4. HalfOf(s)'
  <2> SUFFICES ASSUME crashes' = 0, s \in torn', s \notin stuck' \cup crossed'
               PROVE  HalfOf(s)'
    BY DEF HalfOf
  <2>1. On("cli", s) /\ op["cli"].kind = "close" /\ op["cli"].at \in {"link", "remove"}
    BY <1>1 DEF IInv, SessionOK, HalfOf, Process
  <2>2. QED BY <2>1 DEF HalfOf, On, Process
<1>5. SessionOK(s)'
  BY <1>4 DEF SessionOK
<1>6. \A t \in Session \ {s} :
        /\ t \in torn' <=> t \in torn
        /\ t \in crossed' <=> t \in crossed
        /\ t \in stuck' <=> t \in stuck
        /\ t \in link' <=> t \in link
  BY <1>1
<1>7. QED BY <1>1, <1>2, <1>3, <1>5, <1>6, StepOn DEF Process

LEMMA ConnectSound ==
  ASSUME op'["server"].kind = "connect",
         \A o \in Op : op'["server"] = o => ConnectOK(o)'
  PROVE  \A o \in Op : op'["server"] = o => Sound(o)'
<1> SUFFICES ASSUME NEW o \in Op, op'["server"] = o
             PROVE  Sound(o)'
  OBVIOUS
<1>1. o.kind = "connect" /\ ConnectOK(o)'
  OBVIOUS
<1>2. RecordOK(o)' /\ CloseOK(o)'
  BY <1>1 DEF RecordOK, CloseOK, Recorded
<1>3. QED BY <1>1, <1>2 DEF Sound

LEMMA ConnectGoes ==
  ASSUME TypeOK, NEW s \in Session, NEW step, At("server", "connect", s, step),
         NEW t \in {"mkdir", "settings", "link", "write"}, GoTo("server", t)
  PROVE  /\ op' \in [Process -> Op \cup {Idle}] /\ op'["cli"] = op["cli"]
         /\ op'["server"] \in Op /\ op'["server"].kind = "connect" /\ op'["server"].s = s
         /\ op'["server"].at = t /\ op'["server"].fresh = op["server"].fresh
         /\ op'["server"].seen = op["server"].seen
<1>1. "server" \in Process /\ "cli" \in Process \ {"server"}
  BY DEF Process
<1>2. t \in Steps("connect")
  BY DEF Steps, Recorded
<1>3. QED BY <1>1, <1>2, OpGoes

LEMMA MakeDirInv ==
  ASSUME IInv, NEW s \in Session, MakeDir(s)
  PROVE  IInv'
<1>1. On("server", s) /\ op["server"].kind = "connect" /\ op["server"].at = "mkdir"
  BY DEF MakeDir, At
<1>2. op["server"] \in Op /\ Sound(op["server"])
  BY <1>1, OnShape DEF IInv, CommandsOK, On, Process
<1>3. /\ op' \in [Process -> Op \cup {Idle}] /\ op'["cli"] = op["cli"]
      /\ op'["server"] \in Op /\ op'["server"].kind = "connect" /\ op'["server"].s = s
      /\ op'["server"].at = "settings" /\ op'["server"].fresh = op["server"].fresh
      /\ op'["server"].seen = op["server"].seen
  BY ConnectGoes DEF IInv, MakeDir
<1>4. /\ dir' \in [Session -> Dir \cup {NoDir, Bare}]
      /\ \A t \in Session : t # s => dir'[t] = dir[t]
      /\ ~Settings(s)' /\ ~Usable(s)' /\ Open(s)' = {}
  BY Replaced, DirShape DEF IInv, MakeDir
<1>5. \A o \in Op : op'["server"] = o => Sound(o)'
  <2>1. op["server"].fresh /\ (op["server"].fresh => op["server"].seen = Fresh)
    BY <1>1, <1>2 DEF Sound, ConnectOK
  <2>2. \A o \in Op : op'["server"] = o => ConnectOK(o)'
    BY <1>3, <1>4, <2>1 DEF ConnectOK
  <2>3. QED BY <1>3, <2>2, ConnectSound
<1>6. LinkOf(s)' /\ LocksOf(s)'
  BY <1>4 DEF LinkOf, LocksOf
<1>7. QED BY <1>1, <1>3, <1>4, <1>5, <1>6, ServerStep DEF IInv, TypeOK, MakeDir, ca, past

LEMMA FirstSettingsInv ==
  ASSUME IInv, NEW s \in Session, FirstSettings(s)
  PROVE  IInv'
<1>1. On("server", s) /\ op["server"].kind = "connect" /\ op["server"].at = "settings"
  BY DEF FirstSettings, At
<1>2. op["server"] \in Op /\ Sound(op["server"])
  BY <1>1, OnShape DEF IInv, CommandsOK, On, Process
<1>3. /\ op' \in [Process -> Op \cup {Idle}] /\ op'["cli"] = op["cli"]
      /\ op'["server"] \in Op /\ op'["server"].kind = "connect" /\ op'["server"].s = s
      /\ op'["server"].at = "link" /\ op'["server"].fresh = op["server"].fresh
      /\ op'["server"].seen = op["server"].seen
  BY ConnectGoes DEF IInv, FirstSettings
<1>4. /\ dir' \in [Session -> Dir \cup {NoDir, Bare}]
      /\ \A t \in Session : t # s => dir'[t] = dir[t]
      /\ dir'[s] = Fresh /\ ~Usable(s)' /\ Open(s)' = {}
  BY Replaced DEF IInv, TypeOK, FirstSettings
<1>5. \A o \in Op : op'["server"] = o => Sound(o)'
  <2>1. op["server"].seen = Fresh
    BY <1>1, <1>2 DEF Sound, ConnectOK
  <2>2. \A o \in Op : op'["server"] = o => ConnectOK(o)'
    BY <1>3, <1>4, <2>1 DEF ConnectOK, AsRead
  <2>3. QED BY <1>3, <2>2, ConnectSound
<1>6. LinkOf(s)' /\ LocksOf(s)'
  BY <1>4 DEF LinkOf, LocksOf
<1>7. swept' \subseteq Session \X File
      /\ \A t \in Session, f \in File : t # s /\ <<t, f>> \in swept => <<t, f>> \in swept'
  BY DEF IInv, TypeOK, FirstSettings, Forget, past
<1>8. Forget(s)
  BY DEF FirstSettings
<1>9. UNCHANGED <<alive, lockOf, up, crashes, link>>
  BY DEF FirstSettings, ca
<1>10. QED BY <1>1, <1>3, <1>4, <1>5, <1>6, <1>7, <1>8, <1>9, ServerStep

\* The server ends a command and leaves the directory as it is.
LEMMA ServerEnds ==
  ASSUME IInv, NEW s \in Session, On("server", s), op["server"].kind # "close", End("server"),
         link \subseteq link', link' \subseteq link \cup {s},
         UNCHANGED <<alive, lockOf, dir, up, crashes, past>>
  PROVE  IInv'
<1>1. op' \in [Process -> Op \cup {Idle}] /\ op'["server"] = Idle /\ op'["cli"] = op["cli"]
  BY OpEnds DEF IInv, Process
<1>2. LinkOf(s)' /\ LocksOf(s)'
  BY DEF IInv, SessionOK, LinkOf, LocksOf, Usable, Settings, Open, past
<1>3. \A o \in Op : op'["server"] = o => Sound(o)'
  BY <1>1, CommandShape
<1>4. QED BY <1>1, <1>2, <1>3, ServerStep DEF IInv, TypeOK, past

LEMMA GitFailsInv ==
  ASSUME IInv, NEW s \in Session, GitFails(s)
  PROVE  IInv'
BY ServerEnds DEF GitFails, At, ca

LEMMA RegisterInv ==
  ASSUME IInv, NEW s \in Session, Register(s)
  PROVE  IInv'
<1>1. On("server", s) /\ op["server"].kind = "connect" /\ op["server"].at = "link"
  BY DEF Register, At
<1>2. op["server"] \in Op /\ Sound(op["server"]) /\ op["server"].s = s
  BY <1>1, OnShape DEF IInv, CommandsOK, On, Process
<1>3. /\ op' \in [Process -> Op \cup {Idle}] /\ op'["cli"] = op["cli"]
      /\ op'["server"] \in Op /\ op'["server"].kind = "connect" /\ op'["server"].s = s
      /\ op'["server"].at = "write" /\ op'["server"].fresh = op["server"].fresh
      /\ op'["server"].seen = op["server"].seen
  BY ConnectGoes DEF IInv, Register
<1>4. link \subseteq link' /\ link' \subseteq link \cup {s}
  BY DEF Register, LinkMade
<1>5. s \in alive \ (torn \cup crossed) => s \in link'
  <2>1. CASE op["server"].seen.linked
    <3>1. s \notin crossed => dir[s] = op["server"].seen
      BY <1>1, <1>2 DEF Sound, ConnectOK, AsRead
    <3>2. op["server"].seen \in Dir
      BY <1>1, <1>2, CommandShape
    <3>3. s \notin crossed => Usable(s)
      BY <2>1, <3>1, <3>2, SeenDir DEF Usable
    <3>4. QED BY <1>4, <3>3 DEF IInv, SessionOK, LinkOf
  <2>2. CASE ~op["server"].seen.linked
    BY <2>2 DEF Register, LinkMade
  <2>3. QED BY <2>1, <2>2
<1>6. \A o \in Op : op'["server"] = o => Sound(o)'
  <2>1. /\ op["server"].fresh => op["server"].seen = Fresh
        /\ AsRead(s, op["server"].seen)
    BY <1>1, <1>2 DEF Sound, ConnectOK
  <2>2. \A seen : AsRead(s, seen) => AsRead(s, seen)'
    BY DEF AsRead, Settings, Register, past
  <2>3. \A o \in Op : op'["server"] = o => AsRead(s, o.seen)
    BY <1>3, <2>1
  <2>4. UNCHANGED <<alive, torn, crossed>>
    BY DEF Register, past
  <2>5. \A o \in Op : op'["server"] = o => ConnectOK(o)'
    BY <1>3, <1>5, <2>1, <2>2, <2>3, <2>4 DEF ConnectOK
  <2>6. QED BY <1>3, <2>5, ConnectSound
<1>7. LinkOf(s)' /\ LocksOf(s)'
  BY <1>4 DEF IInv, SessionOK, LinkOf, LocksOf, Usable, Settings, Open, Register, past
<1>8. QED BY <1>1, <1>3, <1>4, <1>6, <1>7, ServerStep DEF IInv, TypeOK, Register, past

LEMMA RegisterFailsInv ==
  ASSUME IInv, NEW s \in Session, RegisterFails(s)
  PROVE  IInv'
<1>1. On("server", s) /\ op["server"].kind = "connect" /\ End("server")
      /\ UNCHANGED <<alive, lockOf, up, crashes, past>>
  BY DEF RegisterFails, At
<1>2. link \subseteq link' /\ link' \subseteq link \cup {s}
  BY DEF RegisterFails, LinkMade
<1>3. CASE UNCHANGED dir
  BY <1>1, <1>2, <1>3, ServerEnds
<1>4. CASE dir' = [dir EXCEPT ![s] = NoDir]
  <2>1. /\ dir' \in [Session -> Dir \cup {NoDir, Bare}]
        /\ \A t \in Session : t # s => dir'[t] = dir[t]
        /\ ~Usable(s)' /\ Open(s)' = {}
    BY <1>4, Replaced DEF IInv
  <2>2. LinkOf(s)' /\ LocksOf(s)'
    BY <2>1 DEF LinkOf, LocksOf
  <2>3. op' \in [Process -> Op \cup {Idle}] /\ op'["server"] = Idle /\ op'["cli"] = op["cli"]
    BY <1>1, OpEnds DEF IInv, Process
  <2>4. \A o \in Op : op'["server"] = o => Sound(o)'
    BY <2>3, CommandShape
  <2>5. QED BY <1>1, <1>2, <2>1, <2>2, <2>3, <2>4, ServerStep DEF IInv, TypeOK, past
<1>5. QED BY <1>3, <1>4 DEF RegisterFails, RemoveFresh

LEMMA WriteSettingsInv ==
  ASSUME IInv, NEW s \in Session, WriteSettings(s)
  PROVE  IInv'
<1>1. On("server", s) /\ op["server"].kind = "connect" /\ op["server"].at = "write"
  BY DEF WriteSettings, At
<1>2. op["server"] \in Op /\ Sound(op["server"]) /\ op["server"].s = s
      /\ op["server"].seen \in Dir
  BY <1>1, OnShape, CommandShape DEF IInv, CommandsOK, On, Process
<1>3. PICK d \in Dir : /\ d = [op["server"].seen EXCEPT !.linked = TRUE]
                       /\ d.bufs = op["server"].seen.bufs
  BY <1>2, Changed
<1>4. /\ dir' \in [Session -> Dir \cup {NoDir, Bare}]
      /\ \A t \in Session : t # s => dir'[t] = dir[t]
      /\ dir'[s] = d /\ Open(s)' = DOMAIN d.bufs
  BY <1>3, Written DEF IInv, WriteSettings
<1>5. op' \in [Process -> Op \cup {Idle}] /\ op'["server"] = Idle /\ op'["cli"] = op["cli"]
  BY OpEnds DEF IInv, WriteSettings, Process
<1>6. UNCHANGED <<alive, link, lockOf, up, crashes, torn, swept, stuck, crossed>>
  BY DEF WriteSettings, ca, past
<1>7. LinkOf(s)'
  BY <1>1, <1>2, <1>6 DEF Sound, ConnectOK, LinkOf
<1>8. LocksOf(s)'
  <2>1. s \notin crossed => dir[s] = op["server"].seen
    BY <1>1, <1>2 DEF Sound, ConnectOK, AsRead
  <2>2. s \notin crossed => Open(s)' = Open(s) /\ dir'[s].bufs = dir[s].bufs
    BY <1>2, <1>3, <1>4, <2>1, SeenDir
  <2>3. QED BY <1>6, <2>2 DEF IInv, SessionOK, LocksOf
<1>9. \A o \in Op : op'["server"] = o => Sound(o)'
  BY <1>5, CommandShape
<1>10. QED BY <1>1, <1>4, <1>5, <1>6, <1>7, <1>8, <1>9, ServerStep DEF IInv, TypeOK
-----------------------------------------------------------------------------
(* What a command has done is recorded.                                    *)
LEMMA Recording ==
  ASSUME IInv, NEW s \in Session, NEW kind \in Recorded, At("server", kind, s, "record")
  PROVE  /\ op["server"] \in Op /\ op["server"].kind = kind /\ op["server"].kind # "close"
         /\ op["server"].s = s /\ Sound(op["server"])
         /\ op["server"].f \in File /\ op["server"].seen \in Dir
         /\ Current(s) = op["server"].seen
         /\ s \notin crossed => dir[s] = op["server"].seen
         /\ kind # "open" => /\ op["server"].f \in DOMAIN op["server"].seen.bufs
                             /\ Buffer(s) \in Entry
<1>1. op["server"] \in Op /\ op["server"].kind = kind /\ op["server"].s = s
  BY OnShape DEF IInv, At, On, Process
<1>2. Sound(op["server"]) /\ op["server"].f \in File /\ op["server"].seen \in Dir
  BY <1>1, CommandShape DEF IInv, CommandsOK, Process
<1>3. AsRead(s, op["server"].seen) /\ kind # "close"
  BY <1>1, <1>2 DEF Sound, RecordOK, Recorded
<1>4. Current(s) = op["server"].seen /\ (s \notin crossed => dir[s] = op["server"].seen)
  BY <1>3 DEF Current, AsRead
<1>5. kind # "open" => op["server"].f \in DOMAIN op["server"].seen.bufs
  BY <1>1, <1>2 DEF Sound, RecordOK
<1>6. op["server"].seen.bufs \in Buffers
  BY <1>2, DirShape
<1>7. kind # "open" => Buffer(s) \in Entry
  BY <1>4, <1>5, <1>6, BuffersShape DEF Buffer
<1>8. QED BY <1>1, <1>2, <1>3, <1>4, <1>5, <1>7

LEMMA Stored ==
  ASSUME IInv, NEW s \in Session, NEW kind \in Recorded, NEW bufs \in Buffers,
         Store(kind, s, bufs)
  PROVE  /\ dir' \in [Session -> Dir \cup {NoDir, Bare}]
         /\ \A t \in Session : t # s => dir'[t] = dir[t]
         /\ Open(s)' = DOMAIN bufs /\ dir'[s].bufs = bufs
         /\ Usable(s)' <=> op["server"].seen.linked
<1>1. Current(s) = op["server"].seen /\ op["server"].seen \in Dir
  BY Recording DEF Store
<1>2. PICK seen \in Dir : seen = op["server"].seen
  BY <1>1
<1>3. PICK d \in Dir :
        d = [seen EXCEPT !.bufs = bufs] /\ d.bufs = bufs /\ d.linked = seen.linked
  BY Changed
<1>4. dir' = [dir EXCEPT ![s] = [Current(s) EXCEPT !.bufs = bufs]]
  BY DEF Store
<1>5. dir' = [dir EXCEPT ![s] = d]
  BY <1>1, <1>2, <1>3, <1>4
<1>6. QED BY <1>2, <1>3, <1>5, Written DEF IInv

LEMMA StoreInv ==
  ASSUME IInv, NEW s \in Session, NEW kind \in Recorded, NEW bufs \in Buffers,
         Store(kind, s, bufs), swept' \subseteq Session \X File,
         \A t \in Session, f \in File : t # s /\ <<t, f>> \in swept => <<t, f>> \in swept',
         s \in alive \ (torn \cup crossed) =>
           \A f \in DOMAIN bufs : bufs[f].lock /\ <<s, f>> \notin swept' => lockOf[f] = {s}
  PROVE  IInv'
<1>1. /\ dir' \in [Session -> Dir \cup {NoDir, Bare}]
      /\ \A t \in Session : t # s => dir'[t] = dir[t]
      /\ Open(s)' = DOMAIN bufs /\ dir'[s].bufs = bufs
      /\ Usable(s)' <=> op["server"].seen.linked
  BY Stored
<1>2. /\ On("server", s) /\ op["server"].kind # "close" /\ op["server"].seen \in Dir
      /\ s \notin crossed => dir[s] = op["server"].seen
  BY Recording DEF Store, At
<1>3. op' \in [Process -> Op \cup {Idle}] /\ op'["server"] = Idle /\ op'["cli"] = op["cli"]
  BY OpEnds DEF IInv, Store, Process
<1>4. UNCHANGED <<alive, link, lockOf, up, crashes, torn, stuck, crossed>>
  BY DEF Store, ca
<1>5. LinkOf(s)'
  <2>1. s \notin crossed => Usable(s)' = Usable(s)
    BY <1>1, <1>2, SeenDir DEF Usable
  <2>2. QED BY <1>4, <2>1 DEF IInv, SessionOK, LinkOf
<1>6. LocksOf(s)'
  BY <1>1, <1>4 DEF LocksOf
<1>7. \A o \in Op : op'["server"] = o => Sound(o)'
  BY <1>3, CommandShape
<1>8. QED BY <1>1, <1>2, <1>3, <1>4, <1>5, <1>6, <1>7, ServerStep DEF IInv, TypeOK

\* The entry of a buffer is written, and the others stay.
LEMMA EntryStored ==
  ASSUME IInv, NEW s \in Session, NEW kind \in Recorded, NEW e \in Entry,
         StoreEntry(kind, s, e)
  PROVE  \E bufs \in Buffers :
           /\ Store(kind, s, bufs)
           /\ DOMAIN bufs = DOMAIN op["server"].seen.bufs \cup {op["server"].f}
           /\ bufs[op["server"].f] = e
           /\ \A g \in DOMAIN bufs : g # op["server"].f => bufs[g] = op["server"].seen.bufs[g]
<1> DEFINE f == op["server"].f
           old == op["server"].seen.bufs
           new == [g \in DOMAIN old \cup {f} |-> IF g = f THEN e ELSE old[g]]
<1>1. f \in File /\ old \in Buffers /\ Current(s).bufs = old
  BY Recording, DirShape DEF StoreEntry, Store
<1>2. new \in [DOMAIN old \cup {f} -> Entry] /\ DOMAIN old \cup {f} \subseteq File
  BY <1>1, BuffersShape
<1>3. new \in Buffers
  BY <1>2, BuffersShape
<1>4. Store(kind, s, new)
  BY <1>1 DEF StoreEntry
<1>5. /\ DOMAIN new = DOMAIN old \cup {f} /\ new[f] = e
      /\ \A g \in DOMAIN new : g # f => new[g] = old[g]
  OBVIOUS
<1> HIDE DEF new
<1>6. QED BY <1>3, <1>4, <1>5

LEMMA EntryInv ==
  ASSUME IInv, NEW s \in Session, NEW kind \in Recorded, NEW e \in Entry,
         StoreEntry(kind, s, e), swept' \subseteq Session \X File,
         \A g \in File : /\ \A t \in Session : t # s /\ <<t, g>> \in swept => <<t, g>> \in swept'
                         /\ g # op["server"].f /\ <<s, g>> \in swept => <<s, g>> \in swept',
         s \in alive \ (torn \cup crossed) /\ e.lock /\ <<s, op["server"].f>> \notin swept' =>
           lockOf[op["server"].f] = {s}
  PROVE  IInv'
<1>1. PICK bufs \in Buffers :
        /\ Store(kind, s, bufs)
        /\ DOMAIN bufs = DOMAIN op["server"].seen.bufs \cup {op["server"].f}
        /\ bufs[op["server"].f] = e
        /\ \A g \in DOMAIN bufs : g # op["server"].f => bufs[g] = op["server"].seen.bufs[g]
  <2>1. IInv /\ StoreEntry(kind, s, e)
    OBVIOUS
  <2>2. QED BY ONLY <2>1, s \in Session, kind \in Recorded, e \in Entry, EntryStored
<1>2. op["server"].seen \in Dir /\ (s \notin crossed => dir[s] = op["server"].seen)
  BY <1>1, Recording DEF Store
<1>3. s \notin crossed => Open(s) = DOMAIN op["server"].seen.bufs
  BY <1>2, SeenDir
<1>4. DOMAIN bufs \subseteq File
  BY BuffersShape
<1>5. s \in alive \ (torn \cup crossed) =>
        \A f \in DOMAIN bufs : bufs[f].lock /\ <<s, f>> \notin swept' => lockOf[f] = {s}
  BY <1>1, <1>2, <1>3, <1>4 DEF IInv, SessionOK, LocksOf
<1>6. QED BY <1>1, <1>5, StoreInv

LEMMA RecordOpenInv ==
  ASSUME IInv, NEW s \in Session, RecordOpen(s)
  PROVE  IInv'
<1>1. At("server", "open", s, "record") /\ "open" \in Recorded
  BY DEF RecordOpen, StoreEntry, Store, Recorded
<1>2. PICK e \in Entry : e = [state |-> "sent", lock |-> TRUE]
  BY DEF Entry, FileState
<1>3. op["server"].f \in File /\ Sound(op["server"]) /\ op["server"].s = s
      /\ op["server"].kind = "open"
  BY <1>1, Recording
<1>4. s \in alive \ (torn \cup crossed) => lockOf[op["server"].f] = {s}
  BY <1>1, <1>3 DEF Sound, RecordOK
<1>5. StoreEntry("open", s, e) /\ swept' = swept \ {<<s, op["server"].f>>}
  BY <1>2 DEF RecordOpen
<1>6. QED BY <1>1, <1>3, <1>4, <1>5, EntryInv DEF IInv, TypeOK

\* A record that changes at most the state of a buffer.
LEMMA SameLock ==
  ASSUME IInv, NEW s \in Session, NEW kind \in Recorded \ {"open"}, NEW e \in Entry,
         StoreEntry(kind, s, e), e.lock => Buffer(s).lock, UNCHANGED swept
  PROVE  IInv'
<1>1. At("server", kind, s, "record")
  BY DEF StoreEntry, Store
<1>2. /\ op["server"].f \in DOMAIN op["server"].seen.bufs /\ op["server"].seen \in Dir
      /\ Buffer(s) = op["server"].seen.bufs[op["server"].f]
      /\ s \notin crossed => dir[s] = op["server"].seen
  BY <1>1, Recording DEF Buffer
<1>3. s \notin crossed => op["server"].f \in Open(s)
                          /\ Buffer(s) = dir[s].bufs[op["server"].f]
  BY <1>2, SeenDir
<1>4. QED BY <1>3, EntryInv DEF IInv, TypeOK, SessionOK, LocksOf

LEMMA RecordEditInv ==
  ASSUME IInv, NEW s \in Session, RecordEdit(s)
  PROVE  IInv'
<1>1. At("server", "edit", s, "record") /\ "edit" \in Recorded \ {"open"}
  BY DEF RecordEdit, StoreEntry, Store, Recorded
<1>2. Buffer(s) \in Entry
  BY <1>1, Recording
<1>3. PICK e \in Entry : e = [Buffer(s) EXCEPT !.state = "edited"] /\ e.lock = Buffer(s).lock
  BY <1>2, Changed DEF FileState
<1>4. QED BY <1>1, <1>3, SameLock DEF RecordEdit

LEMMA RecordWriteInv ==
  ASSUME IInv, NEW s \in Session, RecordWrite(s)
  PROVE  IInv'
<1>1. At("server", "write", s, "record") /\ "write" \in Recorded \ {"open"}
  BY DEF RecordWrite, StoreEntry, Store, Recorded
<1>2. Buffer(s) \in Entry
  BY <1>1, Recording
<1>3. PICK e \in Entry : e = [Buffer(s) EXCEPT !.state = "unsent"] /\ e.lock = Buffer(s).lock
  BY <1>2, Changed DEF FileState
<1>4. QED BY <1>1, <1>3, SameLock DEF RecordWrite

LEMMA RecordSendInv ==
  ASSUME IInv, NEW s \in Session, RecordSend(s)
  PROVE  IInv'
<1>1. At("server", "send", s, "record") /\ "send" \in Recorded \ {"open"}
  BY DEF RecordSend, StoreEntry, Store, Recorded
<1>2. Buffer(s) \in Entry /\ op["server"] \in Op /\ op["server"].kind = "send"
      /\ op["server"].f \in File
  BY <1>1, Recording
<1>3. op["server"].flag \in BOOLEAN /\ Buffer(s).lock \in BOOLEAN
  BY <1>1, <1>2, CommandShape DEF Entry
<1>4. PICK e \in Entry :
        /\ e = [state |-> "sent", lock |-> Buffer(s).lock /\ ~op["server"].flag]
        /\ e.lock = (Buffer(s).lock /\ ~op["server"].flag)
  BY <1>3, Changed DEF FileState
<1>5. StoreEntry("send", s, e)
  BY <1>4 DEF RecordSend
<1>6. CASE op["server"].flag
  BY <1>1, <1>2, <1>4, <1>5, <1>6, EntryInv DEF RecordSend, IInv, TypeOK
<1>7. CASE ~op["server"].flag
  BY <1>1, <1>4, <1>5, <1>7, SameLock DEF RecordSend
<1>8. QED BY <1>6, <1>7

\* What file_close leaves.
LEMMA Dropped ==
  ASSUME IInv, NEW s \in Session, RecordDrop(s)
  PROVE  \E bufs \in Buffers :
           /\ Store("drop", s, bufs)
           /\ DOMAIN bufs = DOMAIN op["server"].seen.bufs \ {op["server"].f}
           /\ \A g \in DOMAIN bufs : bufs[g] = op["server"].seen.bufs[g]
<1> DEFINE f == op["server"].f
           old == op["server"].seen.bufs
           new == [g \in DOMAIN old \ {f} |-> old[g]]
<1>1. old \in Buffers /\ Current(s).bufs = old
  BY Recording, DirShape DEF RecordDrop, Store, Recorded
<1>2. new \in [DOMAIN old \ {f} -> Entry] /\ DOMAIN old \ {f} \subseteq File
  BY <1>1, BuffersShape
<1>3. new \in Buffers
  BY <1>2, BuffersShape
<1>4. Store("drop", s, new)
  BY <1>1 DEF RecordDrop
<1>5. DOMAIN new = DOMAIN old \ {f} /\ \A g \in DOMAIN new : new[g] = old[g]
  OBVIOUS
<1> HIDE DEF new
<1>6. QED BY <1>3, <1>4, <1>5

LEMMA RecordDropInv ==
  ASSUME IInv, NEW s \in Session, RecordDrop(s)
  PROVE  IInv'
<1>1. PICK bufs \in Buffers :
        /\ Store("drop", s, bufs)
        /\ DOMAIN bufs = DOMAIN op["server"].seen.bufs \ {op["server"].f}
        /\ \A g \in DOMAIN bufs : bufs[g] = op["server"].seen.bufs[g]
  BY Dropped
<1>2. /\ op["server"].seen \in Dir /\ op["server"].f \in File
      /\ s \notin crossed => dir[s] = op["server"].seen
  BY <1>1, Recording DEF Store, Recorded
<1>3. s \notin crossed => Open(s) = DOMAIN op["server"].seen.bufs
  BY <1>2, SeenDir
<1>4. swept' = swept \ {<<s, op["server"].f>>}
  BY DEF RecordDrop
<1>5. s \in alive \ (torn \cup crossed) =>
        \A f \in DOMAIN bufs : bufs[f].lock /\ <<s, f>> \notin swept' => lockOf[f] = {s}
  BY <1>1, <1>2, <1>3, <1>4 DEF IInv, SessionOK, LocksOf
<1>6. QED BY <1>1, <1>4, <1>5, StoreInv DEF IInv, TypeOK, Recorded
-----------------------------------------------------------------------------
(* Closing.                                                                *)
LEMMA Closer ==
  ASSUME IInv, NEW p \in Process, NEW s \in Session, NEW step, At(p, "close", s, step)
  PROVE  /\ On(p, s) /\ op[p] \in Op /\ op[p].s = s /\ op[p].kind = "close" /\ op[p].at = step
         /\ CloseOK(op[p]) /\ op[p].locks \in SUBSET File
         /\ p = "cli" /\ step # "guard" /\ On("server", s) => s \in crossed
<1>1. On(p, s) /\ op[p] \in Op /\ op[p].s = s /\ op[p].kind = "close" /\ op[p].at = step
  BY OnShape DEF IInv, At, On
<1>2. CloseOK(op[p]) /\ op[p].locks \in SUBSET File
  BY <1>1, CommandShape DEF IInv, CommandsOK, Sound
<1>3. p = "cli" /\ step # "guard" /\ On("server", s) => s \in crossed
  BY <1>1 DEF IInv, Apart, Leaving
<1>4. QED BY <1>1, <1>2, <1>3

\* A command that has not come to the removal ends, and changes nothing else.
LEMMA Given ==
  ASSUME IInv, NEW p \in Process, NEW s \in Session, On(p, s),
         op[p].at \in {"record", "guard"}, End(p),
         UNCHANGED <<ca, dir, up, crashes, past>>
  PROVE  IInv'
<1>1. /\ op' \in [Process -> Op \cup {Idle}] /\ op'[p] = Idle
      /\ \A q \in Process \ {p} : op'[q] = op[q]
  BY OpEnds DEF IInv
<1>2. TypeOK'
  BY <1>1 DEF IInv, TypeOK, ca, past
<1>3. LinkOf(s)' /\ LocksOf(s)'
  BY DEF IInv, SessionOK, LinkOf, LocksOf, Usable, Settings, Open, ca, past
<1>4. HalfOf(s)'
  BY <1>1 DEF IInv, SessionOK, HalfOf, On, past
<1>5. ~(On("server", s)' /\ Leaving(s)')
  BY <1>1 DEF On, Leaving, Process
<1>6. \A o \in Op : op'[p] # o
  BY <1>1, CommandShape
<1>7. UNCHANGED <<alive, link, lockOf, dir, crashes, torn, swept, stuck, crossed>>
  BY DEF ca, past
<1>8. SessionOK(s)'
  BY <1>3, <1>4 DEF SessionOK
<1>9. QED BY <1>1, <1>2, <1>5, <1>6, <1>7, <1>8, StepOn

LEMMA SettingsGoneInv ==
  ASSUME IInv, NEW p \in Process, NEW s \in Session, SettingsGone(p, s)
  PROVE  IInv'
BY Given DEF SettingsGone

\* The step that a close goes on to.
LEMMA CloseGoes ==
  ASSUME TypeOK, NEW p \in Process, NEW s \in Session, NEW step, At(p, "close", s, step),
         NEW t \in {"unlock", "guard", "locks", "link", "remove"}, GoTo(p, t)
  PROVE  /\ op' \in [Process -> Op \cup {Idle}]
         /\ \A q \in Process \ {p} : op'[q] = op[q]
         /\ op'[p] \in Op /\ op'[p].kind = "close" /\ op'[p].s = s /\ op'[p].at = t
         /\ op'[p].force = op[p].force
<1>1. t \in Steps("close")
  BY DEF Steps, Recorded
<1>2. QED BY <1>1, OpGoes

LEMMA GuardInv ==
  ASSUME IInv, NEW p \in Process, NEW s \in Session, Guard(p, s)
  PROVE  IInv'
<1>1. /\ On(p, s) /\ op[p] \in Op /\ op[p].s = s /\ op[p].kind = "close" /\ op[p].at = "guard"
      /\ Settings(s)
  BY Closer DEF Guard
<1>2. CASE Refused(p, s)
  BY <1>1, <1>2, Given DEF Guard, past
<1>3. CASE ~Refused(p, s)
  <2> DEFINE c == [op[p] EXCEPT !.locks = Locks(s), !.linked = dir[s].linked,
                     !.at = IF op[p].mode = "local_only" THEN "remove" ELSE "locks"]
  <2>1. Locks(s) \in SUBSET File /\ dir[s].linked \in BOOLEAN
    BY <1>1, OpenFiles, DirShape DEF IInv, Locks
  <2>2. /\ c \in Op /\ c.s = s /\ c.kind = "close" /\ c.at \in {"remove", "locks"}
        /\ c.force = op[p].force
    BY <1>1, <2>1 DEF Op, Recorded
  <2>3. op' = [op EXCEPT ![p] = c]
    BY <1>3 DEF Guard, IInv, TypeOK
  <2> HIDE DEF c
  <2>4. /\ op' \in [Process -> Op \cup {Idle}] /\ op'[p] = c
        /\ \A q \in Process \ {p} : op'[q] = op[q]
    BY <2>2, <2>3, OpSet DEF IInv
  <2>5. /\ crossed' = IF p = "cli" /\ On("server", s) THEN crossed \cup {s} ELSE crossed
        /\ UNCHANGED <<alive, link, lockOf, dir, up, crashes, torn, swept, stuck>>
    BY <1>3 DEF Guard, ca
  <2>6. TypeOK'
    BY <2>4, <2>5 DEF IInv, TypeOK
  <2>7. op[p].force \/ AllSent(s)
    BY <1>3 DEF Refused, AllSent
  <2>8. \A o \in Op : op'[p] = o => Sound(o)' /\ o.kind = "close"
    <3> SUFFICES ASSUME NEW o \in Op, op'[p] = o PROVE Sound(o)' /\ o.kind = "close"
      OBVIOUS
    <3>1. o.kind = "close" /\ o.s = s /\ o.at \in {"remove", "locks"}
          /\ (o.force \/ AllSent(s)) /\ Settings(s)
      BY <1>1, <2>2, <2>4, <2>7
    <3>2. Settings(s)' /\ AllSent(s)' = AllSent(s)
      BY <1>1, <2>5, SameDir
    <3>3. CloseOK(o)'
      BY <3>1, <3>2 DEF CloseOK
    <3>4. QED BY <3>1, <3>3 DEF Sound, ConnectOK, RecordOK, Recorded
  <2>9. On("server", s)' /\ Leaving(s)' => s \in crossed'
    <3>1. CASE p = "server"
      BY <1>1, <2>4, <2>5, <3>1 DEF IInv, Apart, On, Leaving, Process
    <3>2. CASE p = "cli"
      BY <2>4, <2>5, <3>2 DEF On, Process
    <3>3. QED BY <3>1, <3>2 DEF Process
  <2>10. LinkOf(s)' /\ LocksOf(s)'
    BY <2>5 DEF IInv, SessionOK, LinkOf, LocksOf, Usable, Settings, Open
  <2>11. HalfOf(s)'
    BY <1>1, <2>4, <2>5 DEF IInv, SessionOK, HalfOf, On
  <2>12. SessionOK(s)'
    BY <2>10, <2>11 DEF SessionOK
  <2>13. QED BY <1>1, <2>2, <2>4, <2>5, <2>6, <2>8, <2>9, <2>12, CommandShape, StepOn
<1>4. QED BY <1>2, <1>3

LEMMA ReleaseLocksInv ==
  ASSUME IInv, NEW p \in Process, NEW s \in Session, ReleaseLocks(p, s)
  PROVE  IInv'
<1>1. /\ On(p, s) /\ op[p] \in Op /\ op[p].s = s /\ op[p].kind = "close"
      /\ op[p].at \in {"unlock", "locks"} /\ CloseOK(op[p]) /\ op[p].locks \in SUBSET File
      /\ p = "cli" /\ On("server", s) => s \in crossed
  BY Closer DEF ReleaseLocks
<1>2. /\ op' \in [Process -> Op \cup {Idle}]
      /\ \A q \in Process \ {p} : op'[q] = op[q]
      /\ op'[p] \in Op /\ op'[p].kind = "close" /\ op'[p].s = s /\ op'[p].force = op[p].force
      /\ op'[p].at = IF op[p].at = "unlock" THEN "guard" ELSE "link"
  <2>1. CASE op[p].at = "unlock"
    <3>1. At(p, "close", s, "unlock") /\ GoTo(p, "guard")
      BY <1>1, <2>1 DEF ReleaseLocks, At
    <3>2. QED BY <2>1, <3>1, CloseGoes DEF IInv
  <2>2. CASE op[p].at = "locks"
    <3>1. At(p, "close", s, "locks") /\ GoTo(p, "link")
      BY <1>1, <2>2 DEF ReleaseLocks, At
    <3>2. QED BY <2>2, <3>1, CloseGoes DEF IInv
  <2>3. QED BY <1>1, <2>1, <2>2
<1>3. /\ torn' = IF op[p].at = "locks" THEN torn \cup {s} ELSE torn
      /\ swept' = IF op[p].mode = "release_ca" THEN swept \cup ({s} \X op[p].locks) ELSE swept
      /\ UNCHANGED <<alive, link, dir, up, crashes, stuck, crossed>>
  BY DEF ReleaseLocks
<1>4. PICK failed \in SUBSET op[p].locks :
        lockOf' = [f \in File |-> lockOf[f] \ IF f \in op[p].locks \ failed THEN {s} ELSE {}]
  BY DEF ReleaseLocks
<1>5. \A S : S \ {} = S
  OBVIOUS
<1>6. /\ \A f \in File : lockOf'[f] = lockOf[f] \/ lockOf'[f] = lockOf[f] \ {s}
      /\ \A f \in File \ op[p].locks : lockOf'[f] = lockOf[f]
  BY <1>4, <1>5
<1>7. /\ lockOf' \in [File -> {{}} \cup {{t} : t \in Session \cup {Other}}]
      /\ \A t \in Session, f \in File : t # s /\ lockOf[f] = {t} => lockOf'[f] = {t}
  BY <1>4, <1>6, Unlocked DEF IInv, TypeOK
<1>8. /\ swept \subseteq swept' /\ swept' \subseteq Session \X File
      /\ op[p].mode = "release_ca" => \A f \in op[p].locks : <<s, f>> \in swept'
  BY <1>1, <1>3 DEF IInv, TypeOK
<1>9. TypeOK'
  BY <1>2, <1>3, <1>7, <1>8 DEF IInv, TypeOK
<1>10. \A o \in Op : op'[p] = o => Sound(o)' /\ o.kind = "close"
  <2> SUFFICES ASSUME NEW o \in Op, op'[p] = o PROVE Sound(o)' /\ o.kind = "close"
    OBVIOUS
  <2>1. o.kind = "close" /\ o.s = s /\ o.force = op[p].force
        /\ o.at = IF op[p].at = "unlock" THEN "guard" ELSE "link"
    BY <1>2
  <2>2. (Settings(s)' <=> Settings(s)) /\ AllSent(s)' = AllSent(s)
    BY <1>3, SameDir
  <2>3. CloseOK(o)'
    BY <1>1, <1>3, <2>1, <2>2 DEF CloseOK
  <2>4. QED BY <2>1, <2>3 DEF Sound, ConnectOK, RecordOK, Recorded
<1>11. On("server", s)' /\ Leaving(s)' => s \in crossed'
  <2>1. CASE p = "server"
    BY <1>1, <1>2, <1>3, <2>1 DEF IInv, Apart, On, Leaving, Process
  <2>2. CASE p = "cli"
    BY <1>1, <1>2, <1>3, <2>2 DEF On, Process
  <2>3. QED BY <2>1, <2>2 DEF Process
<1>12. LinkOf(s)'
  BY <1>3, SameDir DEF IInv, SessionOK, LinkOf
<1>13. LocksOf(s)'
  <2>1. CASE op[p].at = "locks"
    BY <1>3, <2>1 DEF LocksOf
  <2>2. CASE op[p].at = "unlock"
    <3>1. op[p].mode = "release_ca"
      BY <1>1, <2>2 DEF CloseOK
    <3>2. \A f \in Open(s) : <<s, f>> \notin swept' => lockOf'[f] = lockOf[f]
      BY <1>6, <1>8, <3>1, OpenFiles DEF IInv
    <3>3. QED BY <1>3, <1>8, <2>2, <3>2, SameDir DEF IInv, SessionOK, LocksOf
  <2>3. QED BY <1>1, <2>1, <2>2
<1>14. HalfOf(s)'
  BY <1>1, <1>2, <1>3, CommandShape DEF IInv, SessionOK, HalfOf, On
<1>15. SessionOK(s)'
  BY <1>12, <1>13, <1>14 DEF SessionOK
<1>16. QED BY <1>1, <1>2, <1>3, <1>7, <1>8, <1>9, <1>10, <1>11, <1>15, StepOn

LEMMA ReleaseLinkInv ==
  ASSUME IInv, NEW p \in Process, NEW s \in Session, ReleaseLink(p, s)
  PROVE  IInv'
<1>1. /\ On(p, s) /\ op[p] \in Op /\ op[p].s = s /\ op[p].kind = "close"
      /\ op[p].at = "link" /\ CloseOK(op[p])
      /\ p = "cli" /\ On("server", s) => s \in crossed
  BY Closer DEF ReleaseLink
<1>2. /\ op' \in [Process -> Op \cup {Idle}]
      /\ \A q \in Process \ {p} : op'[q] = op[q]
      /\ op'[p] \in Op /\ op'[p].kind = "close" /\ op'[p].s = s /\ op'[p].at = "remove"
      /\ op'[p].force = op[p].force
  BY CloseGoes DEF IInv, ReleaseLink
<1>3. link' \subseteq link /\ link \subseteq link' \cup {s} /\ s \in torn \cup crossed
  BY <1>1 DEF ReleaseLink, LinkGone, CloseOK
<1>4. UNCHANGED <<alive, lockOf, dir, up, crashes, torn, swept, stuck, crossed>>
  BY DEF ReleaseLink, past
<1>5. TypeOK'
  BY <1>2, <1>3, <1>4 DEF IInv, TypeOK
<1>6. \A o \in Op : op'[p] = o => Sound(o)' /\ o.kind = "close"
  <2> SUFFICES ASSUME NEW o \in Op, op'[p] = o PROVE Sound(o)' /\ o.kind = "close"
    OBVIOUS
  <2>1. o.kind = "close" /\ o.s = s /\ o.force = op[p].force /\ o.at = "remove"
    BY <1>2
  <2>2. (Settings(s)' <=> Settings(s)) /\ AllSent(s)' = AllSent(s)
    BY <1>4, SameDir
  <2>3. CloseOK(o)'
    BY <1>1, <1>4, <2>1, <2>2 DEF CloseOK
  <2>4. QED BY <2>1, <2>3 DEF Sound, ConnectOK, RecordOK, Recorded
<1>7. On("server", s)' /\ Leaving(s)' => s \in crossed'
  <2>1. CASE p = "server"
    BY <1>1, <1>2, <1>4, <2>1 DEF IInv, Apart, On, Leaving, Process
  <2>2. CASE p = "cli"
    BY <1>1, <1>2, <1>4, <2>2 DEF On, Process
  <2>3. QED BY <2>1, <2>2 DEF Process
<1>8. LinkOf(s)' /\ LocksOf(s)'
  BY <1>3, <1>4, SameDir DEF IInv, SessionOK, LinkOf, LocksOf
<1>9. HalfOf(s)'
  BY <1>2, CommandShape DEF HalfOf, On
<1>10. SessionOK(s)'
  BY <1>8, <1>9 DEF SessionOK
<1>11. QED BY <1>1, <1>2, <1>3, <1>4, <1>5, <1>6, <1>7, <1>10, StepOn

\* What is left of a directory when its removal stops half-way.
LEMMA Left ==
  ASSUME TypeOK, NEW s \in Session, dir' = Rest(s)
  PROVE  /\ dir' \in [Session -> Dir \cup {NoDir, Bare}]
         /\ \A t \in Session : t # s => dir'[t] = dir[t]
         /\ ~Settings(s)' /\ ~Usable(s)' /\ Open(s)' = {}
<1>1. PICK d \in {NoDir, Bare} : dir' = [dir EXCEPT ![s] = d]
  BY DEF Rest
<1>2. d # Fresh
  BY DirShape
<1>3. d \in {NoDir, Bare, Fresh}
  OBVIOUS
<1>4. /\ dir' \in [Session -> Dir \cup {NoDir, Bare}]
      /\ \A t \in Session : t # s => dir'[t] = dir[t]
      /\ Settings(s)' <=> d = Fresh
      /\ ~Usable(s)' /\ Open(s)' = {}
  BY <1>1, <1>3, Replaced
<1>5. QED BY <1>2, <1>4

LEMMA RemoveDirInv ==
  ASSUME IInv, NEW p \in Process, NEW s \in Session, RemoveDir(p, s)
  PROVE  IInv'
<1>1. /\ On(p, s) /\ op[p].s = s
      /\ p = "cli" /\ On("server", s) => s \in crossed /\ Leaving(s)
  BY Closer DEF RemoveDir, Leaving
<1>2. /\ op' \in [Process -> Op \cup {Idle}] /\ op'[p] = Idle
      /\ \A q \in Process \ {p} : op'[q] = op[q]
  BY OpEnds DEF IInv, RemoveDir
<1>3. /\ dir' \in [Session -> Dir \cup {NoDir, Bare}]
      /\ \A t \in Session : t # s => dir'[t] = dir[t]
      /\ \/ ~Settings(s)' /\ ~Usable(s)' /\ Open(s)' = {}
         \/ dir'[s] = dir[s] /\ UNCHANGED <<torn, swept, crossed>>
  <2>1. CASE dir' = [dir EXCEPT ![s] = NoDir]
    BY <2>1, Replaced, DirShape DEF IInv
  <2>2. CASE dir' = dir /\ UNCHANGED <<torn, swept, crossed>>
    BY <2>2 DEF IInv, TypeOK
  <2>3. CASE dir' = Rest(s)
    BY <2>3, Left DEF IInv
  <2>4. QED BY <2>1, <2>2, <2>3 DEF RemoveDir
<1>4. /\ torn' \subseteq torn /\ torn \subseteq torn' \cup {s}
      /\ crossed' \subseteq crossed /\ crossed \subseteq crossed' \cup {s}
      /\ stuck' \subseteq stuck \cup {s} /\ stuck \subseteq stuck' \cup {s}
      /\ swept' \subseteq swept
      /\ \A t \in Session, f \in File : t # s /\ <<t, f>> \in swept => <<t, f>> \in swept'
  BY DEF RemoveDir, Forget, past
<1>5. UNCHANGED <<alive, link, lockOf, up, crashes>>
  BY DEF RemoveDir, ca
<1>6. TypeOK'
  BY <1>2, <1>3, <1>4, <1>5 DEF IInv, TypeOK
<1>7. On("server", s) /\ Leaving(s) /\ s \in crossed => s \in crossed'
  BY DEF RemoveDir, Forget, past
<1>8. ~(On("server", s)' /\ Leaving(s)')
  BY <1>2 DEF On, Leaving, Process
<1>9. LinkOf(s)' /\ LocksOf(s)'
  BY <1>3, <1>5, SameDir DEF IInv, SessionOK, LinkOf, LocksOf
<1>10. HalfOf(s)'
  <2>1. CASE s \in stuck' \/ s \notin torn'
    BY <2>1 DEF HalfOf
  <2>2. CASE s \in torn' /\ s \notin stuck'
    <3>1. On("server", s) /\ Leaving(s)
      BY <2>2 DEF RemoveDir, Forget
    <3>2. s \in crossed
      BY <3>1 DEF IInv, Apart
    <3>3. QED BY <1>7, <3>1, <3>2 DEF HalfOf
  <2>3. QED BY <2>1, <2>2
<1>11. SessionOK(s)'
  BY <1>9, <1>10 DEF SessionOK
<1>12. \A o \in Op : op'[p] # o
  BY <1>2, CommandShape
<1>13. \A t \in Session \ {s} :
         /\ t \in torn' <=> t \in torn
         /\ t \in crossed' <=> t \in crossed
         /\ t \in stuck' <=> t \in stuck
  BY <1>4
<1>14. p = "cli" /\ On("server", s) =>
         /\ dir'[s] = dir[s] \/ ~Settings(s)'
         /\ s \in crossed'
  BY <1>1, <1>3, <1>7
<1>15. QED BY <1>1, <1>2, <1>3, <1>4, <1>5, <1>6, <1>7, <1>8, <1>11, <1>12, <1>13, <1>14, StepOn
-----------------------------------------------------------------------------
(* Deaths, restarts and start-up sweeps.                                   *)
LEMMA CrashInv ==
  ASSUME IInv, NEW p \in Process, Crash(p)
  PROVE  IInv'
<1>1. /\ op' \in [Process -> Op \cup {Idle}] /\ op'[p] = Idle
      /\ \A q \in Process \ {p} : op'[q] = op[q]
  BY OpEnds DEF IInv, Crash
<1>2. crashes' \in 0..MaxCrashes /\ crashes' # 0 /\ up' \in BOOLEAN
  <2>1. crashes' = crashes + 1 /\ crashes < MaxCrashes /\ crashes \in Nat
    BY SessionAssumption DEF IInv, TypeOK, Crash
  <2>2. up' \in BOOLEAN
    BY DEF IInv, TypeOK, Crash
  <2>3. QED BY <2>1, <2>2, SessionAssumption
<1>3. UNCHANGED <<alive, link, lockOf, torn, swept, stuck, crossed>>
  BY DEF Crash, ca, past
<1>4. CASE op[p] = Idle
  <2>1. \A q \in Process : op'[q] = op[q]
    BY <1>1, <1>4
  <2>2. op' = op
    BY <1>1, <2>1 DEF IInv, TypeOK
  <2>3. UNCHANGED dir
    BY <1>4 DEF Crash
  <2>4. QED BY <1>2, <1>3, <2>2, <2>3, WorldInv DEF IInv, TypeOK, past
<1>5. CASE op[p] # Idle
  <2>1. PICK s \in Session : s = op[p].s
    BY <1>5, OnShape DEF IInv
  <2>2. On(p, s)
    BY <1>5, <2>1 DEF On
  <2>3. /\ dir' \in [Session -> Dir \cup {NoDir, Bare}]
        /\ \A t \in Session : t # s => dir'[t] = dir[t]
        /\ \/ dir'[s] = dir[s]
           \/ op[p].at = "remove" /\ ~Settings(s)' /\ ~Usable(s)' /\ Open(s)' = {}
    <3>1. CASE UNCHANGED dir
      BY <3>1 DEF IInv, TypeOK
    <3>2. CASE op[p].at = "remove" /\ dir' = Rest(s)
      BY <3>2, Left DEF IInv
    <3>3. QED BY <2>1, <3>1, <3>2 DEF Crash
  <2>4. TypeOK'
    BY <1>1, <1>2, <1>3, <2>3 DEF IInv, TypeOK
  <2>5. LinkOf(s)' /\ LocksOf(s)'
    BY <1>3, <2>3, SameDir DEF IInv, SessionOK, LinkOf, LocksOf
  <2>6. SessionOK(s)'
    BY <1>2, <2>5 DEF SessionOK, HalfOf
  <2>7. ~(On("server", s)' /\ Leaving(s)')
    BY <1>1 DEF On, Leaving, Process
  <2>8. \A o \in Op : op'[p] # o
    BY <1>1, CommandShape
  <2>9. p = "cli" /\ On("server", s) =>
          /\ dir'[s] = dir[s] \/ ~Settings(s)'
          /\ s \in crossed' \/ UNCHANGED dir
    <3>1. CASE UNCHANGED dir
      BY <3>1
    <3>2. CASE op[p].at = "remove" /\ p = "cli" /\ On("server", s)
      BY <1>3, <2>2, <2>3, <3>2 DEF IInv, Apart, Leaving
    <3>3. QED BY <3>1, <3>2 DEF Crash
  <2>10. QED BY <1>1, <1>2, <1>3, <2>2, <2>3, <2>4, <2>6, <2>7, <2>8, <2>9, StepOn
<1>6. QED BY <1>4, <1>5

LEMMA SweepKeeps ==
  ASSUME IInv, Sweep
  PROVE  /\ dir' \in [Session -> Dir \cup {NoDir, Bare}]
         /\ lockOf' \in [File -> {{}} \cup {{t} : t \in Session \cup {Other}}]
         /\ swept' \subseteq Session \X File /\ swept \subseteq swept' /\ torn' \subseteq torn
         /\ \A t \in Session :
              /\ dir'[t] = dir[t] \/ (~Settings(t) /\ ~Settings(t)')
              /\ Usable(t)' <=> Usable(t)
              /\ Open(t)' = Open(t)
              /\ t \in torn => t \in torn' \/ ~Settings(t)
              /\ \A f \in File : lockOf[f] = {t} =>
                   lockOf'[f] = {t} \/ (f \in Open(t) /\ <<t, f>> \in swept')
         /\ UNCHANGED <<alive, link, crashes, stuck, crossed>>
<1>1. dir' = [t \in Session |-> IF dir[t] = Bare THEN NoDir ELSE dir[t]]
  BY DEF Sweep, SweepDirs
<1>2. dir' \in [Session -> Dir \cup {NoDir, Bare}]
  BY <1>1 DEF IInv, TypeOK
<1>3. \A t \in Session : dir'[t] = dir[t] \/ (~Settings(t) /\ ~Settings(t)')
  BY <1>1, DirShape DEF IInv, TypeOK, Settings
<1>4. \A t \in Session : (Usable(t)' <=> Usable(t)) /\ Open(t)' = Open(t)
  BY <1>3 DEF Settings, Usable, Open
<1>5. /\ Stale \subseteq Session \X File
      /\ \A t \in Session, f \in File : <<t, f>> \in Stale => f \in Open(t)
  BY DEF Stale
<1>6. /\ swept' \subseteq Session \X File /\ swept \subseteq swept'
      /\ lockOf' \in [File -> {{}} \cup {{t} : t \in Session \cup {Other}}]
      /\ \A t \in Session, f \in File :
           lockOf[f] = {t} => lockOf'[f] = {t} \/ (f \in Open(t) /\ <<t, f>> \in swept')
  <2>1. CASE UNCHANGED <<lockOf, swept>>
    BY <2>1 DEF IInv, TypeOK
  <2>2. CASE /\ lockOf' = [f \in File |-> {t \in lockOf[f] : <<t, f>> \notin Stale}]
             /\ swept' = swept \cup Stale
    <3>1. \A f \in File : lockOf'[f] = lockOf[f] \/ lockOf'[f] = {}
      BY <2>2 DEF IInv, TypeOK
    <3>2. \A t \in Session, f \in File :
            lockOf[f] = {t} /\ <<t, f>> \notin Stale => lockOf'[f] = {t}
      BY <2>2 DEF IInv, TypeOK
    <3>3. lockOf' \in [File -> {{}} \cup {{t} : t \in Session \cup {Other}}]
      BY <2>2, <3>1 DEF IInv, TypeOK
    <3>4. QED BY <1>5, <2>2, <3>2, <3>3 DEF IInv, TypeOK
  <2>3. QED BY <2>1, <2>2 DEF Sweep
<1>7. torn' \subseteq torn /\ \A t \in Session : t \in torn => t \in torn' \/ ~Settings(t)
  BY DEF Sweep, Settings
<1>8. UNCHANGED <<alive, link, crashes, stuck, crossed>>
  BY DEF Sweep
<1>9. QED BY <1>2, <1>3, <1>4, <1>6, <1>7, <1>8

\* Sweeping leaves the invariant alone, whatever commands are in progress; a
\* disconnect may begin with it.
LEMMA SweepInv ==
  ASSUME IInv, Sweep, up' \in BOOLEAN,
         op' \in [Process -> Op \cup {Idle}], op'["server"] = op["server"],
         \/ op'["cli"] = op["cli"]
         \/ /\ op["cli"] = Idle
            /\ op'["cli"].kind = "close" /\ op'["cli"].at = "guard"
  PROVE  IInv'
<1>1. TypeOK'
  BY SweepKeeps DEF IInv, TypeOK
<1>2. CommandsOK'
  <2> SUFFICES ASSUME NEW q \in Process, NEW o \in Op, op'[q] = o
               PROVE  Sound(o)' /\ (q = "cli" => o.kind = "close")
    BY DEF CommandsOK
  <2>1. CASE op[q] = o
    <3>1. Sound(o) /\ (q = "cli" => o.kind = "close")
      BY <2>1 DEF IInv, CommandsOK
    <3>2. o.s \in Session /\ (o.kind = "open" => o.f \in File /\ o.seen \in Dir)
      BY CommandShape DEF Recorded
    <3>3. \/ dir'[o.s] = dir[o.s]
          \/ ~Settings(o.s)' /\ (~Settings(o.s) \/ o.s \in crossed')
      BY <3>2, SweepKeeps
    <3>4. o.s \in torn => o.s \in torn' \/ ~Settings(o.s) \/ o.s \in crossed'
      BY <3>2, SweepKeeps
    <3>5. o.kind = "open" /\ lockOf[o.f] = {o.s} =>
            lockOf'[o.f] = {o.s} \/ o.s \in crossed'
      <4>1. o.kind = "open" => o.s \in crossed \/ o.f \notin Open(o.s)
        BY <3>1, <3>2, SeenDir DEF Sound, RecordOK, AsRead, Recorded
      <4>2. QED BY <3>2, <4>1, SweepKeeps
    <3>6. UNCHANGED <<alive, link, crossed>>
      BY SweepKeeps
    <3>7. QED BY <3>1, <3>3, <3>4, <3>5, <3>6, CommandKept
  <2>2. CASE o.kind = "close" /\ o.at = "guard"
    BY <2>2 DEF Sound, ConnectOK, RecordOK, CloseOK, Recorded
  <2>3. QED BY <2>1, <2>2 DEF Process
<1>3. Apart'
  BY SweepKeeps DEF IInv, Apart, On, Leaving
<1>4. \A t \in Session : SessionOK(t)'
  <2> SUFFICES ASSUME NEW t \in Session PROVE SessionOK(t)'
    OBVIOUS
  <2>1. LinkOf(t)' /\ LocksOf(t)'
    <3>1. CASE Settings(t)
      <4>1. dir'[t] = dir[t] /\ (t \in torn => t \in torn')
        BY <3>1, SweepKeeps
      <4>2. \A f \in Open(t) : /\ <<t, f>> \in swept => <<t, f>> \in swept'
                               /\ lockOf[f] = {t} => lockOf'[f] = {t} \/ <<t, f>> \in swept'
        BY SweepKeeps, OpenFiles DEF IInv
      <4>3. UNCHANGED <<alive, link, crossed>> /\ TypeOK /\ SessionOK(t)
        BY SweepKeeps DEF IInv
      <4>4. QED BY <4>1, <4>2, <4>3, SessionKept
    <3>2. CASE ~Settings(t)
      <4>1. ~Usable(t)' /\ Open(t)' = {}
        BY <3>2, SweepKeeps DEF Usable, Open
      <4>2. QED BY <4>1 DEF LinkOf, LocksOf
    <3>3. QED BY <3>1, <3>2
  <2>2. HalfOf(t)'
    BY SweepKeeps DEF IInv, SessionOK, HalfOf, On, Process
  <2>3. QED BY <2>1, <2>2 DEF SessionOK
<1>5. QED BY <1>1, <1>2, <1>3, <1>4 DEF IInv

LEMMA DisconnectInv ==
  ASSUME IInv, NEW s \in Session, NEW force \in BOOLEAN, Disconnect(s, force)
  PROVE  IInv'
<1> DEFINE c == ClosingOp(s, "guard", force, "session_close", {})
<1>1. c \in Op /\ c.kind = "close" /\ c.at = "guard"
  BY DEF ClosingOp, Op
<1>2. op' = [op EXCEPT !["cli"] = c]
  BY DEF Disconnect
<1> HIDE DEF c
<1>3. /\ op' \in [Process -> Op \cup {Idle}] /\ op'["cli"] = c
      /\ op'["server"] = op["server"]
  BY <1>1, <1>2, OpSet DEF IInv, Process
<1>4. QED BY <1>1, <1>3, SweepInv DEF IInv, TypeOK, Disconnect
-----------------------------------------------------------------------------
(* Edits.                                                                  *)

\* What EditsLostOnlyByForce says of a step, for the edits of one session.
Keeps(s) == \A f \in Edited(s) : f \in Open(s)' \/ ForcedClose(s) \/ ForcedDrop(s, f)

LEMMA KeptByOpen ==
  ASSUME NEW s \in Session, Open(s) \subseteq Open(s)'
  PROVE  Keeps(s)
BY DEF Keeps, Edited

LEMMA KeptByOthers ==
  ASSUME NEW s \in Session, dir'[s] = dir[s]
  PROVE  Keeps(s)
BY KeptByOpen, SameDir

\* A removal that is not forced finds nothing unsent, and no edit of a server
\* that is on its way.
LEMMA RemovalKeeps ==
  ASSUME IInv, NEW p \in Process, NEW s \in Session \ crossed, On(p, s), op[p].at = "remove"
  PROVE  Keeps(s)
<1>1. op[p] \in Op /\ op[p].s = s /\ Sound(op[p])
  BY OnShape DEF IInv, CommandsOK, On
<1>2. op[p].kind = "close"
  BY <1>1, CommandShape DEF Steps, Recorded
<1>3. op[p].force \/ AllSent(s)
  BY <1>1, <1>2 DEF Sound, CloseOK
<1>4. ~At("server", "edit", s, "record")
  <2>1. CASE p = "server"
    BY <1>2, <2>1 DEF At
  <2>2. CASE p = "cli"
    BY <2>2 DEF IInv, Apart, Leaving, At
  <2>3. QED BY <2>1, <2>2 DEF Process
<1>5. CASE op[p].force
  BY <1>2, <1>5 DEF Keeps, ForcedClose
<1>6. CASE AllSent(s)
  BY <1>4, <1>6 DEF Keeps, Edited, AllSent
<1>7. QED BY <1>3, <1>5, <1>6

LEMMA ConnectKeeps ==
  ASSUME IInv, NEW s \in Session \ crossed, NEW t \in Session, ConnectStep(t)
  PROVE  Keeps(s)
<1>1. /\ op["server"] \in Op /\ op["server"].kind = "connect" /\ op["server"].s = t
      /\ Sound(op["server"])
      /\ op["server"].seen \in Dir
  <2>1. On("server", t) /\ op["server"].kind = "connect"
    BY DEF ConnectStep, MakeDir, FirstSettings, GitFails, Register, RegisterFails,
      WriteSettings, At
  <2>2. QED BY <2>1, OnShape, CommandShape DEF IInv, CommandsOK, On, Process
<1>2. CASE s # t
  BY <1>2, KeptByOthers DEF IInv, TypeOK, ConnectStep, MakeDir, FirstSettings, GitFails,
    Register, RegisterFails, RemoveFresh, WriteSettings
<1>3. CASE s = t /\ (MakeDir(t) \/ FirstSettings(t))
  <2>1. op["server"].at \in {"mkdir", "settings"}
    BY <1>3 DEF MakeDir, FirstSettings, At
  <2>2. Open(s) = {}
    BY <1>1, <1>3, <2>1 DEF Sound, ConnectOK, Open
  <2>3. QED BY <2>2, KeptByOpen
<1>4. CASE s = t /\ (GitFails(t) \/ Register(t))
  BY <1>4, KeptByOthers DEF GitFails, Register
<1>5. CASE s = t /\ (RegisterFails(t) \/ WriteSettings(t))
  <2>1. op["server"].at \in {"link", "write"}
    BY <1>5 DEF RegisterFails, WriteSettings, At
  <2>2. dir[s] = op["server"].seen
    BY <1>1, <1>5, <2>1 DEF Sound, ConnectOK, AsRead
  <2>3. Open(s) = DOMAIN op["server"].seen.bufs
    BY <1>1, <2>2, SeenDir
  <2>4. CASE RegisterFails(t) /\ op["server"].fresh
    <3>1. Open(s) = {}
      BY <1>1, <2>3, <2>4, BuffersShape DEF Sound, ConnectOK
    <3>2. QED BY <3>1, KeptByOpen
  <2>5. CASE RegisterFails(t) /\ ~op["server"].fresh
    BY <2>5, KeptByOthers DEF RegisterFails, RemoveFresh
  <2>6. CASE WriteSettings(t)
    <3>1. PICK d \in Dir : /\ d = [op["server"].seen EXCEPT !.linked = TRUE]
                           /\ d.bufs = op["server"].seen.bufs
      BY <1>1, Changed
    <3>2. Open(s)' = DOMAIN d.bufs
      BY <1>5, <2>6, <3>1, Written DEF IInv, WriteSettings
    <3>3. QED BY <2>3, <3>1, <3>2, KeptByOpen
  <2>7. QED BY <1>5, <2>4, <2>5, <2>6
<1>6. QED BY <1>2, <1>3, <1>4, <1>5 DEF ConnectStep

LEMMA EntryKeeps ==
  ASSUME IInv, NEW s \in Session \ crossed, NEW t \in Session, NEW kind \in Recorded,
         NEW e \in Entry, StoreEntry(kind, t, e)
  PROVE  Keeps(s)
<1>1. PICK bufs \in Buffers :
        /\ Store(kind, t, bufs)
        /\ DOMAIN op["server"].seen.bufs \subseteq DOMAIN bufs
  <2>1. IInv /\ StoreEntry(kind, t, e)
    OBVIOUS
  <2>2. QED BY ONLY <2>1, t \in Session, kind \in Recorded, e \in Entry, EntryStored
<1>2. /\ op["server"].seen \in Dir
      /\ t \notin crossed => dir[t] = op["server"].seen
  BY <1>1, Recording DEF Store
<1>3. CASE s # t
  BY <1>1, <1>3, Stored, KeptByOthers
<1>4. CASE s = t
  <2>1. Open(s) = DOMAIN op["server"].seen.bufs
    BY <1>2, <1>4, SeenDir
  <2>2. Open(s)' = DOMAIN bufs
    BY <1>1, <1>4, Stored
  <2>3. QED BY <1>1, <2>1, <2>2, KeptByOpen
<1>5. QED BY <1>3, <1>4

LEMMA DropKeeps ==
  ASSUME IInv, NEW s \in Session \ crossed, NEW t \in Session, RecordDrop(t)
  PROVE  Keeps(s)
<1>1. PICK bufs \in Buffers :
        /\ Store("drop", t, bufs)
        /\ DOMAIN bufs = DOMAIN op["server"].seen.bufs \ {op["server"].f}
  BY Dropped
<1>2. "drop" \in Recorded
  BY DEF Recorded
<1>3. At("server", "drop", t, "record")
  BY <1>1 DEF Store
<1>4. /\ op["server"].seen \in Dir /\ op["server"].kind = "drop" /\ op["server"].s = t
      /\ Sound(op["server"])
      /\ t \notin crossed => dir[t] = op["server"].seen
  BY <1>2, <1>3, Recording
<1>5. CASE s # t
  BY <1>1, <1>2, <1>5, Stored, KeptByOthers
<1>6. CASE s = t
  <2>1. Open(s) = DOMAIN op["server"].seen.bufs /\ dir[s] = op["server"].seen
    BY <1>4, <1>6, SeenDir
  <2>2. Open(s)' = DOMAIN bufs
    BY <1>1, <1>2, <1>6, Stored
  <2>3. op["server"].f \in Edited(s) => op["server"].flag
    BY <1>4, <2>1 DEF Edited, At, Sound, RecordOK, Recorded
  <2>4. QED BY <1>1, <1>3, <1>6, <2>1, <2>2, <2>3 DEF Keeps, ForcedDrop, Edited
<1>7. QED BY <1>5, <1>6

LEMMA RecordKeeps ==
  ASSUME IInv, NEW s \in Session \ crossed, NEW t \in Session, RecordStep(t)
  PROVE  Keeps(s)
<1>1. CASE RecordOpen(t)
  <2>1. PICK e \in Entry : e = [state |-> "sent", lock |-> TRUE]
    BY Changed DEF FileState
  <2>2. QED BY <1>1, <2>1, EntryKeeps DEF RecordOpen, Recorded
<1>2. ASSUME NEW kind \in Recorded \ {"open"}, At("server", kind, t, "record")
      PROVE  Buffer(t) \in Entry
  BY <1>2, Recording
<1>3. CASE RecordEdit(t)
  <2>1. Buffer(t) \in Entry
    BY <1>2, <1>3 DEF RecordEdit, StoreEntry, Store, Recorded
  <2>2. PICK e \in Entry : e = [Buffer(t) EXCEPT !.state = "edited"]
    BY <2>1, Changed DEF FileState
  <2>3. QED BY <1>3, <2>2, EntryKeeps DEF RecordEdit, Recorded
<1>4. CASE RecordWrite(t)
  <2>1. Buffer(t) \in Entry
    BY <1>2, <1>4 DEF RecordWrite, StoreEntry, Store, Recorded
  <2>2. PICK e \in Entry : e = [Buffer(t) EXCEPT !.state = "unsent"]
    BY <2>1, Changed DEF FileState
  <2>3. QED BY <1>4, <2>2, EntryKeeps DEF RecordWrite, Recorded
<1>5. CASE RecordSend(t)
  <2>1. Buffer(t) \in Entry /\ op["server"] \in Op /\ op["server"].kind = "send"
    BY <1>5, Recording DEF RecordSend, StoreEntry, Store, Recorded
  <2>2. Buffer(t).lock \in BOOLEAN /\ op["server"].flag \in BOOLEAN
    BY <2>1, CommandShape DEF Entry, Recorded
  <2>3. PICK e \in Entry :
          e = [state |-> "sent", lock |-> Buffer(t).lock /\ ~op["server"].flag]
    BY <2>2, Changed DEF FileState
  <2>4. QED BY <1>5, <2>3, EntryKeeps DEF RecordSend, Recorded
<1>6. QED BY <1>1, <1>3, <1>4, <1>5, DropKeeps DEF RecordStep

LEMMA CloseKeeps ==
  ASSUME IInv, NEW s \in Session \ crossed, NEW t \in Session, NEW p \in Process,
         CloseStep(p, t) \/ SettingsGone(p, t)
  PROVE  Keeps(s)
<1>1. CASE Guard(p, t) \/ ReleaseLocks(p, t) \/ ReleaseLink(p, t) \/ SettingsGone(p, t)
  BY <1>1, KeptByOthers DEF Guard, ReleaseLocks, ReleaseLink, SettingsGone
<1>2. CASE RemoveDir(p, t) /\ s # t
  BY <1>2, KeptByOthers DEF IInv, TypeOK, RemoveDir, Rest
<1>3. CASE RemoveDir(p, t) /\ s = t
  BY <1>3, RemovalKeeps DEF RemoveDir, At
<1>4. QED BY <1>1, <1>2, <1>3 DEF CloseStep

LEMMA CrashKeeps ==
  ASSUME IInv, NEW s \in Session \ crossed, NEW p \in Process, Crash(p)
  PROVE  Keeps(s)
<1>1. CASE dir'[s] = dir[s]
  BY <1>1, KeptByOthers
<1>2. CASE dir'[s] # dir[s]
  <2>1. op[p] # Idle /\ op[p].at = "remove" /\ op[p].s = s
    BY <1>2 DEF IInv, TypeOK, Crash, Rest
  <2>2. QED BY <2>1, RemovalKeeps DEF On
<1>3. QED BY <1>1, <1>2

LEMMA SweepKeepsEdits ==
  ASSUME IInv, NEW s \in Session, Sweep
  PROVE  Keeps(s)
BY SweepKeeps, KeptByOpen
-----------------------------------------------------------------------------
(* All steps together.                                                     *)
LEMMA NextInv ==
  ASSUME IInv, [Next]_vars
  PROVE  IInv'
<1>1. CASE UNCHANGED vars
  BY <1>1, WorldInv DEF IInv, TypeOK, vars, ca, past
<1>2. ASSUME NEW s \in Session, Expire(s) \/ BeginConnect(s) \/ Work(s) \/ Closing(s)
      PROVE  IInv'
  <2>1. CASE Expire(s) \/ BeginConnect(s)
    BY <2>1, ExpireInv, BeginConnectInv
  <2>2. CASE Work(s)
    BY <2>2, BeginOpenInv, BeginEditInv, BeginWriteInv, BeginSendInv, BeginDropInv DEF Work
  <2>3. CASE Closing(s)
    BY <2>3, BeginCloseInv, DisconnectInv, BeginCloseInvalidInv DEF Closing
  <2>4. QED BY <1>2, <2>1, <2>2, <2>3
<1>3. ASSUME NEW p \in Process, Step(p) PROVE IInv'
  <2>1. ASSUME NEW s \in Session, ConnectStep(s) PROVE IInv'
    BY <2>1, MakeDirInv, FirstSettingsInv, GitFailsInv, RegisterInv, RegisterFailsInv,
      WriteSettingsInv DEF ConnectStep
  <2>2. ASSUME NEW s \in Session, RecordStep(s) PROVE IInv'
    BY <2>2, RecordOpenInv, RecordEditInv, RecordWriteInv, RecordSendInv, RecordDropInv
      DEF RecordStep
  <2>3. ASSUME NEW s \in Session, CloseStep(p, s) PROVE IInv'
    BY <2>3, GuardInv, ReleaseLocksInv, ReleaseLinkInv, RemoveDirInv DEF CloseStep
  <2>4. QED BY <1>3, <2>1, <2>2, <2>3, SettingsGoneInv DEF Step
<1>4. CASE \E f \in File : OtherLock(f) \/ \E s \in Session : DropLock(s, f)
  BY <1>4, LocksMoveInv
<1>5. CASE Restart \/ OtherProcessSweeps
  BY <1>5, SweepInv DEF Restart, OtherProcessSweeps, IInv, TypeOK
<1>6. QED BY <1>1, <1>2, <1>3, <1>4, <1>5, CrashInv DEF Next

LEMMA NextKeeps ==
  ASSUME IInv, Next, NEW s \in Session \ crossed
  PROVE  Keeps(s)
<1>1. ASSUME NEW t \in Session, Expire(t) \/ BeginConnect(t) \/ Work(t) PROVE Keeps(s)
  <2>1. UNCHANGED dir
    BY <1>1 DEF Expire, BeginConnect, Work, BeginOpen, BeginEdit, BeginWrite, BeginSend,
      BeginDrop
  <2>2. QED BY <2>1, KeptByOthers
<1>2. ASSUME NEW t \in Session, Closing(t) PROVE Keeps(s)
  <2>1. Sweep \/ UNCHANGED dir
    BY <1>2 DEF Closing, BeginClose, Disconnect, BeginCloseInvalid
  <2>2. QED BY <2>1, SweepKeepsEdits, KeptByOthers
<1>3. ASSUME NEW p \in Process, Step(p) PROVE Keeps(s)
  BY <1>3, ConnectKeeps, RecordKeeps, CloseKeeps DEF Step
<1>4. ASSUME NEW f \in File, OtherLock(f) \/ \E t \in Session : DropLock(t, f)
      PROVE  Keeps(s)
  BY <1>4, KeptByOthers DEF OtherLock, DropLock
<1>5. CASE Restart \/ OtherProcessSweeps
  BY <1>5, SweepKeepsEdits DEF Restart, OtherProcessSweeps
<1>6. QED BY <1>1, <1>2, <1>3, <1>4, <1>5, CrashKeeps DEF Next

LEMMA Invariance == Spec => []IInv
<1>1. IInv /\ [Next]_vars => IInv'
  BY NextInv
<1>2. QED BY InitInv, <1>1, PTL DEF Spec
-----------------------------------------------------------------------------
\* The variables keep their shape, however commands, a disconnect, crashes,
\* restarts and the CA server interleave.
THEOREM SessionTypeCorrect == Spec => []TypeOK
<1>1. IInv => TypeOK
  BY DEF IInv
<1>2. QED BY Invariance, <1>1, PTL

\* A recorded subordinate link of a live session is there on CA, unless a
\* close has begun or a disconnect crossed a command of the server.
THEOREM LinkStandsAlways == Spec => []LinkStands
<1>1. IInv => LinkStands
  BY DEF IInv, TypeOK, SessionOK, LinkOf, LinkStands
<1>2. QED BY Invariance, <1>1, PTL

\* The lock a buffer of a live session records is held by that session,
\* unless a close has begun, a disconnect crossed a command, a sweep or
\* release_ca took it, or its return has still to be recorded.
THEOREM LocksStandAlways == Spec => []LocksStand
<1>1. IInv => LocksStand
  BY DEF IInv, TypeOK, SessionOK, LocksOf, LocksStand
<1>2. QED BY Invariance, <1>1, PTL

\* Between commands no session is half closed, unless the editor died, a
\* removal failed or a disconnect crossed a command of the server.
THEOREM ClosesWhole == Spec => []CloseAllOrNothing
<1>1. IInv => CloseAllOrNothing
  BY DEF IInv, TypeOK, SessionOK, HalfOf, CloseAllOrNothing, Ready, On, Process
<1>2. QED BY Invariance, <1>1, PTL

\* Unsent edits, with the one a mutation has still to record, leave the disk
\* only by force, where no disconnect crosses a command of the server.
THEOREM EditsAreKept == Spec => EditsLostOnlyByForce
<1>1. IInv /\ [Next]_vars =>
        [\A s \in Session \ crossed : \A f \in Edited(s) :
           f \in Open(s)' \/ ForcedClose(s) \/ ForcedDrop(s, f)]_vars
  BY NextKeeps DEF Keeps
<1>2. QED BY Invariance, <1>1, PTL DEF Spec, EditsLostOnlyByForce
=============================================================================
