--------------------------- MODULE ConfigWatcher ---------------------------
(***************************************************************************)
(* Configuration watching: main starts the file watcher, registers core's  *)
(* observer, loads the rego directory into OPA's store and registers the   *)
(* policy compiler's observer; meanwhile watchRoutine, a goroutine of its  *)
(* own, takes file events and calls the observers.  Files are edited at    *)
(* any time, in steps that may leave a file half written, and read one at  *)
(* a time.  A process that ends is started again by its supervisor.        *)
(*                                                                         *)
(* Bound: the kernel's queue holds MaxQueue events; an edit that would     *)
(* overflow it waits.                                                      *)
(***************************************************************************)
EXTENDS Naturals, Sequences

CONSTANTS
  Rego,          \* the *.rego files
  Document,      \* the data.json files: part of the bundle, not *.rego
  ConfFile,      \* kelon.yml
  Unwatched,     \* files in directories that watchForChanges has not added
  Content,       \* what a file can contain
  Uncompilable,  \* contents of the directory that do not compile together
  Absent,        \* there is no such file
  Torn,          \* half written, or unparsable, or gone while being read
  Unread,        \* a load has not read this file yet
  Nobody,        \* no edit is outstanding
  MaxQueue

File    == Rego \cup Document
Loaded  == Content \cup {Absent}
Ops     == {"create", "write", "remove"}
Event   == [file : File \cup {ConfFile}, op : Ops]

ASSUME FilesAssumption ==
  /\ Rego \cap Document = {} /\ ConfFile \notin File
  /\ Unwatched \subseteq File \cup {ConfFile}
  /\ Uncompilable \subseteq [File -> Loaded]

ASSUME ContentAssumption ==
  /\ Absent \notin Content
  /\ Torn \notin Loaded /\ Unread \notin Loaded \cup {Torn}
  /\ Nobody \notin Event
  /\ MaxQueue \in Nat

VARIABLES
  disk,       \* the directory
  conf,       \* whether kelon.yml can be loaded
  watching,   \* whether the file watcher is open
  queue,      \* events watchRoutine has not taken
  main,       \* where the main goroutine stands
  observers,  \* how many observers are registered: core's, then the compiler's
  load,       \* what the load in progress has read
  engine,     \* the directory contents OPA's store was loaded from
  routine,    \* where watchRoutine stands
  event,      \* the event it handles
  confError,  \* whether its last loader.Load() failed
  last        \* the last edit, if it was announced to the compiler's observer

envVars  == <<disk, conf, watching, queue>>
loadVars == <<load, engine>>
runVars  == <<routine, event, confError>>
vars     == <<envVars, main, observers, loadVars, runVars, last>>

MainPC    == {"down", "watching", "addCore", "loadConf", "loadRegos",
              "addCompiler", "started", "serving", "stopping"}
RoutinePC == {"idle", "loadConf", "notify", "notifyAll", "reload"}

TypeOK ==
  /\ disk \in [File -> Loaded \cup {Torn}]
  /\ conf \in BOOLEAN /\ watching \in BOOLEAN
  /\ queue \in Seq(Event) /\ Len(queue) <= MaxQueue
  /\ main \in MainPC /\ routine \in RoutinePC
  /\ observers \in 0..2
  /\ load \in [File -> Loaded \cup {Torn, Unread}]
  /\ engine \in [File -> Loaded]
  /\ event \in Event \cup {Nobody}
  /\ confError \in BOOLEAN
  /\ last \in Event \cup {Nobody}

-----------------------------------------------------------------------------
(* Loading the rego directory: the files present are listed, then read one  *)
(* after the other; one that is gone by then, or does not parse, fails the  *)
(* load as a whole, and so do modules that do not compile together.         *)
Listed == [f \in File |-> IF disk[f] = Absent THEN Absent ELSE Unread]
Parses(d) == \A f \in File : d[f] \in Loaded
Loadable(d) == Parses(d) /\ d \notin Uncompilable
NoLoad == [f \in File |-> Absent]

ReadFile(f) ==
  /\ load[f] = Unread
  /\ load' = [load EXCEPT ![f] = IF disk[f] = Absent THEN Torn ELSE disk[f]]
HaveRead == \A f \in File : load[f] # Unread

Idle == routine' = "idle" /\ event' = Nobody /\ confError' = FALSE

(* The process ends, and with it what it held in memory. *)
Exit ==
  /\ main' = "down" /\ observers' = 0
  /\ watching' = FALSE /\ queue' = <<>> /\ last' = Nobody
  /\ load' = NoLoad /\ engine' = NoLoad
  /\ Idle
  /\ UNCHANGED <<disk, conf>>

-----------------------------------------------------------------------------
(* The main goroutine. *)

(* makeConfigWatcher: the routine runs and the directories are watched.     *)
StartWatcher ==
  /\ main = "down"
  /\ main' = "watching"
  /\ watching' = TRUE
  /\ UNCHANGED <<disk, conf, queue, observers, loadVars, runVars, last>>

MainStep(from, to) == main = from /\ main' = to

(* Watch appends to the slice of observers, which watchRoutine reads        *)
(* without synchronisation; afterwards it loads the configuration.          *)
BeginAppend ==
  /\ \/ MainStep("watching", "addCore")
     \/ HaveRead /\ Loadable(load) /\ MainStep("loadRegos", "addCompiler")
  /\ IF main = "loadRegos" THEN engine' = load /\ load' = NoLoad ELSE UNCHANGED loadVars
  /\ UNCHANGED <<envVars, observers, runVars, last>>

EndAppend ==
  /\ \/ MainStep("addCore", "loadConf")
     \/ MainStep("addCompiler", "started")
  /\ observers' = observers + 1
  /\ UNCHANGED <<envVars, loadVars, runVars, last>>

(* onConfigLoaded with ChangeAll builds everything from the configuration.  *)
ConfigLoaded ==
  /\ main = "loadConf"
  /\ IF conf
     THEN /\ main' = "loadRegos"
          /\ load' = Listed
          /\ UNCHANGED <<envVars, observers, engine, runVars, last>>
     ELSE Exit

FirstRead ==
  /\ main = "loadRegos"
  /\ \E f \in File : ReadFile(f)
  /\ UNCHANGED <<envVars, main, observers, engine, runVars, last>>

FirstLoadFails ==
  /\ main = "loadRegos" /\ HaveRead /\ ~Loadable(load)
  /\ Exit

(* stopOnSIGTERM listens from now on. *)
ListenForSignals ==
  /\ MainStep("started", "serving")
  /\ UNCHANGED <<envVars, observers, loadVars, runVars, last>>

(* A signal makes stopOnSIGTERM stop the process and                        *)
(* closeWatcherOnSIGTERM close the watcher.  Before the first listens, the  *)
(* second alone may get it: the watcher closes and the process carries on;  *)
(* when neither listens yet, it ends.                                       *)
CloseWatcher ==
  /\ watching' = FALSE /\ queue' = <<>> /\ last' = Nobody
  /\ UNCHANGED <<disk, conf, observers, loadVars, runVars>>

Signal ==
  \/ MainStep("serving", "stopping") /\ CloseWatcher
  \/ main \notin {"down", "serving", "stopping"} /\ Exit
  \/ main \notin {"down", "serving", "stopping"} /\ CloseWatcher /\ UNCHANGED main

Stop == main = "stopping" /\ Exit

-----------------------------------------------------------------------------
(* watchRoutine. *)

(* Mutant: only writes in place are relevant, not files moved into place.   *)
IsRelevant_WritesOnly(e) ==
  e.op = "write" /\ (e.file \in File => disk[e.file] # Absent)

(* isRelevantEvent: a removal is never relevant, whatever its comment says, *)
(* as isFile is only computed for the other operations.                     *)
IsRelevant(e) ==
  e.op \in {"create", "write"} /\ (e.file \in File => disk[e.file] # Absent)

(* Bound: no error comes instead of events, such as an overflow.            *)
TakeEvent ==
  /\ routine = "idle"
  /\ queue # <<>>
  /\ queue' = Tail(queue)
  /\ IF IsRelevant(Head(queue))
     THEN routine' = "loadConf" /\ event' = Head(queue)
     ELSE UNCHANGED <<routine, event>>
  /\ UNCHANGED <<disk, conf, watching, main, observers, loadVars, confError, last>>

LoadConfig ==
  /\ routine = "loadConf"
  /\ confError' = ~conf
  /\ routine' = "notify"
  /\ UNCHANGED <<envVars, main, observers, loadVars, event, last>>

(* The observers the loop sees: those registered, and during an append also *)
(* the one being appended.                                                  *)
Seen == {observers} \cup
        (IF main \in {"addCore", "addCompiler"} THEN {observers + 1} ELSE {})

(* Core's observer, the first: an error loading the configuration is fatal  *)
(* for every kind of change, everything else it ignores.                    *)
NotifyCore ==
  /\ routine = "notify"
  /\ \E n \in Seen :
       IF n >= 1 /\ confError THEN Exit
       ELSE /\ IF n = 2
               THEN routine' = "notifyAll" /\ UNCHANGED <<event, confError>>
               ELSE Idle
            /\ UNCHANGED <<envVars, main, observers, loadVars, last>>

(* Reading the slice between two words of the append: length and pointer    *)
(* do not fit and the loop dereferences nothing.                            *)
TornSlice ==
  /\ routine = "notify"
  /\ main \in {"addCore", "addCompiler"}
  /\ Exit

(* The compiler's observer: it reloads for *.rego files. *)
NotifyCompiler ==
  /\ routine = "notifyAll"
  /\ IF event.file \in Rego
     THEN routine' = "reload" /\ load' = Listed /\ UNCHANGED <<event, confError>>
     ELSE Idle /\ UNCHANGED load
  /\ UNCHANGED <<envVars, main, observers, engine, last>>

ReloadRead ==
  /\ routine = "reload"
  /\ \E f \in File : ReadFile(f)
  /\ UNCHANGED <<envVars, main, observers, engine, runVars, last>>

ReloadEnds == routine = "reload" /\ HaveRead
(* Mutants: what cannot be parsed is stored; a failure is fatal; a failure  *)
(* ends the routine.                                                        *)
FinishReload_Unchecked ==
  /\ ReloadEnds /\ Idle
  /\ engine' = load /\ load' = NoLoad
  /\ UNCHANGED <<envVars, main, observers, last>>
FinishReload_Fatal ==
  /\ ReloadEnds
  /\ \/ ~Loadable(load) /\ Exit
     \/ /\ Loadable(load) /\ Idle
        /\ engine' = load /\ load' = NoLoad
        /\ UNCHANGED <<envVars, main, observers, last>>
FinishReload_GivesUp ==
  /\ ReloadEnds /\ Loadable(load) /\ Idle
  /\ engine' = load /\ load' = NoLoad
  /\ UNCHANGED <<envVars, main, observers, last>>

(* A failed reload is logged; the policies loaded before stay in service.   *)
FinishReload ==
  /\ ReloadEnds /\ Idle
  /\ engine' = (IF Loadable(load) THEN load ELSE engine) /\ load' = NoLoad
  /\ UNCHANGED <<envVars, main, observers, last>>

-----------------------------------------------------------------------------
(* The environment: files are written in place (torn in between), moved     *)
(* into place, or removed.  Only watched files of a running watcher cause   *)
(* events.                                                                  *)
(* An edit the compiler's observer should hear of is remembered in last.    *)
Announce(f, op) ==
  IF f \in Unwatched \/ ~watching
  THEN queue' = queue /\ last' = Nobody
  ELSE /\ Len(queue) < MaxQueue
       /\ queue' = Append(queue, [file |-> f, op |-> op])
       /\ last' = IF f \in Rego /\ observers = 2 THEN [file |-> f, op |-> op]
                  ELSE Nobody

Edit(f) ==
  /\ \E c \in Loaded \cup {Torn} :
       /\ c # disk[f]
       /\ disk' = [disk EXCEPT ![f] = c]
       /\ \/ c = Absent /\ Announce(f, "remove")
          \/ c # Absent /\ disk[f] # Absent /\ Announce(f, "write")
          \/ c # Absent /\ Announce(f, "create")
  /\ UNCHANGED <<conf, watching, main, observers, loadVars, runVars>>

(* An edit of kelon.yml, which may be watched too: somebody else's event.   *)
EditConf ==
  /\ conf' \in BOOLEAN
  /\ \/ (ConfFile \in Unwatched \/ ~watching) /\ UNCHANGED queue
     \/ /\ ConfFile \notin Unwatched /\ watching /\ Len(queue) < MaxQueue
        /\ queue' = Append(queue, [file |-> ConfFile, op |-> "write"])
  /\ UNCHANGED <<disk, watching, main, observers, loadVars, runVars, last>>

-----------------------------------------------------------------------------
Init ==
  /\ disk \in [File -> Loaded] /\ conf \in BOOLEAN
  /\ watching = FALSE /\ queue = <<>> /\ last = Nobody
  /\ main = "down" /\ observers = 0
  /\ load = NoLoad /\ engine = NoLoad
  /\ routine = "idle" /\ event = Nobody /\ confError = FALSE

Main == \/ StartWatcher \/ BeginAppend \/ EndAppend \/ ConfigLoaded
        \/ FirstRead \/ FirstLoadFails \/ ListenForSignals \/ Stop

Routine == \/ TakeEvent \/ LoadConfig \/ NotifyCore \/ TornSlice
           \/ NotifyCompiler \/ ReloadRead \/ FinishReload

Next == Main \/ Routine \/ Signal \/ EditConf \/ \E f \in File : Edit(f)

Spec == Init /\ [][Next]_vars

(* Both goroutines are scheduled; nobody has to edit a file or to send a    *)
(* signal.                                                                  *)
FairSpec == Spec /\ WF_vars(Main) /\ WF_vars(Routine)

-----------------------------------------------------------------------------
(* Properties. *)

Quiet == main # "down" /\ routine = "idle" /\ queue = <<>>
Owed(op) == last # Nobody /\ last.op \in op

(* No created or written *.rego file is missed, once the compiler's         *)
(* observer is registered: when no event is left and the last edit was such *)
(* a one, the store holds what the directory holds, however edits, torn     *)
(* reads, failed reloads and removals came in between.  It holds no longer  *)
(* for edits in directories added later, of documents, and after a signal   *)
(* that came too early; Announce and Signal forget those.                   *)
NoEditMissed ==
  Quiet /\ Owed({"create", "write"}) /\ Loadable(disk) => engine = disk

(* The same for removals, as the comments of watchRoutine and               *)
(* isRelevantEvent say.  The code does not do it.                           *)
RemovalsNotified ==
  Quiet /\ Owed({"remove"}) /\ Loadable(disk) => engine = disk

(* Whatever is written into policy files, and when: the service stops only  *)
(* on a signal or for a configuration that cannot be loaded, and what it    *)
(* has loaded compiles.  (Handlers may end the process as well: FatalReply  *)
(* in PolicyApi, an invalid filter in Decision.)                            *)
OnlyConfigStops ==
  [][ main = "serving" /\ main' = "down" => routine = "notify" /\ confError ]_vars
ServesLoadable == main \in {"started", "serving", "stopping"} => Loadable(engine)

(* Once nobody edits any more, the last edit that was announced reaches the *)
(* store: neither goroutine gets stuck over a torn file or a failed reload. *)
EditsReachEngine ==
  <>[][disk' = disk]_vars =>
    []<>(~Owed({"create", "write"}) \/ ~Loadable(disk) \/ engine = disk)
=============================================================================
