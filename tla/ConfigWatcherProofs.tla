------------------------ MODULE ConfigWatcherProofs ------------------------
(***************************************************************************)
(* Proofs about ConfigWatcher: no edit is missed, what serves compiles,    *)
(* and only the configuration stops a service.                             *)
(***************************************************************************)
EXTENDS ConfigWatcher, TLAPS

(* How far main has come tells how many observers are registered, and       *)
(* whether the compiler's can have been called.                             *)
Registered ==
  /\ observers = IF main \in {"down", "watching", "addCore"} THEN 0
                 ELSE IF main \in {"started", "serving", "stopping"} THEN 2 ELSE 1
  /\ routine \in {"notifyAll", "reload"} =>
       main \in {"addCompiler", "started", "serving", "stopping"}
  /\ main \in {"addCompiler", "started", "serving", "stopping"} => Loadable(engine)

(* The signal that stops main closes the watcher. *)
Closed == main = "stopping" => ~watching

(* An announced edit was made in a service that watches. *)
Announced ==
  last # Nobody =>
    /\ main \in {"started", "serving"}
    /\ last.file \in Rego
    /\ last.op # "remove" => disk[last.file] # Absent

(* What is left to do about it: its event waits, an event of a policy is    *)
(* being handled, a reload has read nothing older, or it is done.           *)
Waits   == \E i \in 1..Len(queue) : queue[i] = last
Handled == routine \in {"loadConf", "notify", "notifyAll"} /\ event.file \in Rego
Reading == /\ routine = "reload"
           /\ \A f \in File : \/ load[f] = Unread /\ disk[f] # Absent
                              \/ load[f] = disk[f]
Done    == routine # "reload" /\ (Loadable(disk) => engine = disk)

Outstanding == Owed({"create", "write"}) => Waits \/ Handled \/ Reading \/ Done

IInv == TypeOK /\ Registered /\ Closed /\ Announced /\ Outstanding

-----------------------------------------------------------------------------
(* Reading a file into a load keeps its shape. *)
LEMMA ReadFileType ==
  ASSUME TypeOK, NEW f \in File, ReadFile(f)
  PROVE  load' \in [File -> Loaded \cup {Torn, Unread}]
BY DEF TypeOK, ReadFile

(* A load that can be stored is a content of the directory. *)
LEMMA LoadableType ==
  ASSUME TypeOK, Loadable(load)
  PROVE  load \in [File -> Loaded]
BY DEF TypeOK, Loadable, Parses

(* An empty directory, as an empty load shows it. *)
LEMMA NoLoadType == NoLoad \in [File -> Loaded]
BY DEF NoLoad, Loaded

(* The end of the process leaves nothing to prove. *)
LEMMA ExitStep ==
  ASSUME IInv, Exit
  PROVE  IInv'
<1>1. TypeOK'
  <2>1. queue' \in Seq(Event) /\ Len(queue') <= MaxQueue
    BY ContentAssumption DEF Exit
  <2>2. load' \in [File -> Loaded \cup {Torn, Unread}] /\ engine' \in [File -> Loaded]
    BY NoLoadType DEF Exit, Loaded
  <2>3. conf' \in BOOLEAN /\ watching' \in BOOLEAN /\ confError' \in BOOLEAN
    BY DEF IInv, TypeOK, Exit, Idle
  <2>4. main' \in MainPC /\ routine' \in RoutinePC /\ observers' \in 0..2
    BY DEF Exit, Idle, MainPC, RoutinePC
  <2>5. event' \in Event \cup {Nobody} /\ last' \in Event \cup {Nobody}
    BY DEF Exit, Idle
  <2>6. disk' \in [File -> Loaded \cup {Torn}] BY DEF IInv, TypeOK, Exit
  <2> QED BY <2>1, <2>2, <2>3, <2>4, <2>5, <2>6 DEF TypeOK
<1>2. Registered' BY DEF Exit, Idle, Registered
<1>3. Closed' BY DEF Exit, Closed
<1>4. Announced' /\ Outstanding' BY DEF Exit, Announced, Outstanding, Owed
<1> QED BY <1>1, <1>2, <1>3, <1>4 DEF IInv

(* The initial states. *)
LEMMA InitIInv == Init => IInv
<1> SUFFICES ASSUME Init PROVE IInv OBVIOUS
<1>1. TypeOK
  <2>1. queue \in Seq(Event) /\ Len(queue) <= MaxQueue
    BY ContentAssumption DEF Init
  <2>2. load \in [File -> Loaded \cup {Torn, Unread}] /\ engine \in [File -> Loaded]
    BY NoLoadType DEF Init, Loaded
  <2>3. conf \in BOOLEAN /\ watching \in BOOLEAN /\ confError \in BOOLEAN
    BY DEF Init
  <2>4. main \in MainPC /\ routine \in RoutinePC /\ observers \in 0..2
    BY DEF Init, MainPC, RoutinePC
  <2>5. event \in Event \cup {Nobody} /\ last \in Event \cup {Nobody}
    BY DEF Init
  <2>6. disk \in [File -> Loaded \cup {Torn}] BY DEF Init
  <2> QED BY <2>1, <2>2, <2>3, <2>4, <2>5, <2>6 DEF TypeOK
<1>2. Registered BY DEF Init, Registered
<1>3. Closed BY DEF Init, Closed
<1>4. Announced /\ Outstanding BY DEF Init, Announced, Outstanding, Owed
<1> QED BY <1>1, <1>2, <1>3, <1>4 DEF IInv

(* The type invariant is inductive by itself. *)
LEMMA TypeStep ==
  ASSUME IInv, [Next]_vars
  PROVE  TypeOK'
<1> USE ContentAssumption, FilesAssumption
<1>x. CASE Exit BY <1>x, ExitStep DEF IInv
<1>1. CASE StartWatcher
  BY <1>1 DEF IInv, TypeOK, StartWatcher, MainPC, loadVars, runVars
<1>2. CASE BeginAppend
  BY <1>2, LoadableType DEF IInv, TypeOK, BeginAppend, MainStep, MainPC, NoLoad, Loaded, envVars, loadVars, runVars
<1>3. CASE EndAppend
  BY <1>3 DEF IInv, TypeOK, Registered, EndAppend, MainStep, MainPC, envVars, loadVars, runVars
<1>4. CASE ConfigLoaded
  BY <1>4, <1>x DEF IInv, TypeOK, ConfigLoaded, MainPC, Listed, Loaded, envVars, runVars
<1>5. CASE FirstRead
  BY <1>5, ReadFileType DEF IInv, TypeOK, FirstRead, envVars, runVars
<1>6. CASE FirstLoadFails BY <1>6, <1>x DEF FirstLoadFails
<1>7. CASE ListenForSignals
  BY <1>7 DEF IInv, TypeOK, ListenForSignals, MainStep, MainPC, envVars, loadVars, runVars
<1>8. CASE Stop BY <1>8, <1>x DEF Stop
<1>9. CASE TakeEvent
  <2>1. Head(queue) \in Event /\ Tail(queue) \in Seq(Event) /\ Len(Tail(queue)) <= MaxQueue
    BY <1>9 DEF TakeEvent, IInv, TypeOK
  <2> QED BY <2>1, <1>9 DEF IInv, TypeOK, TakeEvent, RoutinePC, loadVars
<1>10. CASE LoadConfig
  BY <1>10 DEF IInv, TypeOK, LoadConfig, RoutinePC, envVars, loadVars
<1>11. CASE NotifyCore
  BY <1>11, <1>x DEF IInv, TypeOK, NotifyCore, Idle, RoutinePC, envVars, loadVars
<1>12. CASE TornSlice BY <1>12, <1>x DEF TornSlice
<1>13. CASE NotifyCompiler
  BY <1>13 DEF IInv, TypeOK, NotifyCompiler, Idle, RoutinePC, Listed, Loaded, envVars
<1>14. CASE ReloadRead
  BY <1>14, ReadFileType DEF IInv, TypeOK, ReloadRead, envVars, runVars
<1>15. CASE FinishReload
  BY <1>15, LoadableType DEF IInv, TypeOK, FinishReload, Idle, NoLoad, RoutinePC, Loaded, envVars
<1>16. CASE Signal
  <2>1. CASE CloseWatcher /\ main' \in MainPC
    <3>1. conf' \in BOOLEAN /\ watching' \in BOOLEAN /\ confError' \in BOOLEAN
      BY <2>1 DEF IInv, TypeOK, CloseWatcher, runVars
    <3>2. queue' \in Seq(Event) /\ Len(queue') <= MaxQueue /\ last' \in Event \cup {Nobody}
      BY <2>1 DEF CloseWatcher
    <3> QED BY <2>1, <3>1, <3>2 DEF IInv, TypeOK, CloseWatcher, loadVars, runVars
  <2>2. Exit \/ (CloseWatcher /\ main' \in MainPC)
    BY <1>16 DEF Signal, MainStep, MainPC, IInv, TypeOK
  <2> QED BY <2>1, <2>2, <1>x
<1>17. CASE EditConf
  <2>1. queue' \in Seq(Event) /\ Len(queue') <= MaxQueue
    <3>1. [file |-> ConfFile, op |-> "write"] \in Event BY DEF Event, Ops
    <3>2. \/ queue' = queue
          \/ Len(queue) < MaxQueue /\ queue' = Append(queue, [file |-> ConfFile, op |-> "write"])
      BY <1>17 DEF EditConf
    <3>3. queue \in Seq(Event) /\ Len(queue) <= MaxQueue BY DEF IInv, TypeOK
    <3> QED BY <3>1, <3>2, <3>3
  <2>2. conf' \in BOOLEAN BY <1>17 DEF EditConf
  <2> QED BY <1>17, <2>1, <2>2 DEF IInv, TypeOK, EditConf, loadVars, runVars
<1>18. ASSUME NEW f \in File, Edit(f) PROVE TypeOK'
  <2>1. disk' \in [File -> Loaded \cup {Torn}]
    BY <1>18 DEF IInv, TypeOK, Edit
  <2>2. PICK op \in Ops : Announce(f, op) BY <1>18 DEF Edit, Ops
  <2>3. [file |-> f, op |-> op] \in Event BY DEF Event
  <2>4. queue' \in Seq(Event) /\ Len(queue') <= MaxQueue
    <3>1. \/ queue' = queue
          \/ Len(queue) < MaxQueue /\ queue' = Append(queue, [file |-> f, op |-> op])
      BY <2>2 DEF Announce
    <3>2. queue \in Seq(Event) /\ Len(queue) <= MaxQueue BY DEF IInv, TypeOK
    <3> QED BY <2>3, <3>1, <3>2
  <2>5. last' \in Event \cup {Nobody}
    BY <2>2, <2>3 DEF Announce
  <2> QED BY <1>18, <2>1, <2>4, <2>5 DEF IInv, TypeOK, Edit, loadVars, runVars
<1>19. CASE UNCHANGED vars
  BY <1>19 DEF IInv, TypeOK, vars, envVars, loadVars, runVars
<1> QED
  BY <1>1, <1>2, <1>3, <1>4, <1>5, <1>6, <1>7, <1>8, <1>9, <1>10, <1>11, <1>12, <1>13,
     <1>14, <1>15, <1>16, <1>17, <1>18, <1>19
  DEF Next, Main, Routine

-----------------------------------------------------------------------------
(* main and the number of observers move together, the compiler's observer  *)
(* is called only once it is being registered, and what main and the reload *)
(* store compiles.                                                          *)
LEMMA RegisteredStep ==
  ASSUME IInv, [Next]_vars
  PROVE  Registered'
<1>x. CASE Exit BY <1>x, ExitStep DEF IInv
<1>1. CASE StartWatcher
  BY <1>1 DEF IInv, Registered, StartWatcher, loadVars, runVars
<1>2. CASE BeginAppend
  BY <1>2 DEF IInv, Registered, BeginAppend, MainStep, envVars, loadVars, runVars
<1>3. CASE EndAppend
  BY <1>3 DEF IInv, Registered, EndAppend, MainStep, envVars, loadVars, runVars
<1>4. CASE ConfigLoaded
  BY <1>4, <1>x DEF IInv, Registered, ConfigLoaded, envVars, runVars
<1>5. CASE FirstRead
  BY <1>5 DEF IInv, Registered, FirstRead, envVars, runVars
<1>6. CASE FirstLoadFails BY <1>6, <1>x DEF FirstLoadFails
<1>7. CASE ListenForSignals
  BY <1>7 DEF IInv, Registered, ListenForSignals, MainStep, envVars, loadVars, runVars
<1>8. CASE Stop BY <1>8, <1>x DEF Stop
<1>9. CASE TakeEvent
  BY <1>9 DEF IInv, Registered, TakeEvent, loadVars
<1>10. CASE LoadConfig
  BY <1>10 DEF IInv, Registered, LoadConfig, envVars, loadVars
<1>11. CASE NotifyCore
  <2>1. CASE routine' \in {"idle", "notifyAll"} /\ UNCHANGED <<main, observers, loadVars>>
    <3>1. routine' = "notifyAll" =>
            2 \in Seen
      BY <1>11, <2>1 DEF NotifyCore, Idle, IInv, TypeOK, RoutinePC, Exit
    <3>2. 2 \in Seen => main \in {"addCompiler", "started", "serving", "stopping"}
      BY DEF Seen, IInv, TypeOK, Registered, MainPC
    <3> QED BY <2>1, <3>1, <3>2 DEF IInv, Registered, loadVars
  <2> QED BY <1>11, <1>x, <2>1 DEF NotifyCore, Idle
<1>12. CASE TornSlice BY <1>12, <1>x DEF TornSlice
<1>13. CASE NotifyCompiler
  BY <1>13 DEF IInv, Registered, NotifyCompiler, Idle, envVars
<1>14. CASE ReloadRead
  BY <1>14 DEF IInv, Registered, ReloadRead, envVars, runVars
<1>15. CASE FinishReload
  BY <1>15 DEF IInv, Registered, FinishReload, Idle, envVars
<1>16. CASE Signal
  BY <1>16, <1>x DEF IInv, Registered, Signal, MainStep, CloseWatcher, loadVars, runVars
<1>17. CASE EditConf
  BY <1>17 DEF IInv, Registered, EditConf, loadVars, runVars
<1>18. ASSUME NEW f \in File, Edit(f) PROVE Registered'
  BY <1>18 DEF IInv, Registered, Edit, loadVars, runVars
<1>19. CASE UNCHANGED vars
  BY <1>19 DEF IInv, Registered, vars, envVars, loadVars, runVars
<1> QED
  BY <1>1, <1>2, <1>3, <1>4, <1>5, <1>6, <1>7, <1>8, <1>9, <1>10, <1>11, <1>12, <1>13,
     <1>14, <1>15, <1>16, <1>17, <1>18, <1>19
  DEF Next, Main, Routine

(* main starts to stop with the watcher closed, which nothing reopens.      *)
LEMMA ClosedStep ==
  ASSUME IInv, [Next]_vars
  PROVE  Closed'
<1>x. CASE Exit BY <1>x, ExitStep DEF IInv
<1>1. CASE Main
  BY <1>1, <1>x
  DEF IInv, Closed, Main, StartWatcher, BeginAppend, EndAppend, ConfigLoaded, FirstRead,
      FirstLoadFails, ListenForSignals, Stop, MainStep, envVars
<1>2. CASE Routine
  BY <1>2, <1>x
  DEF IInv, Closed, Routine, TakeEvent, LoadConfig, NotifyCore, TornSlice, NotifyCompiler,
      ReloadRead, FinishReload, envVars
<1>3. CASE Signal
  BY <1>3, <1>x DEF Closed, Signal, CloseWatcher
<1>4. CASE EditConf
  BY <1>4 DEF IInv, Closed, EditConf
<1>5. ASSUME NEW f \in File, Edit(f) PROVE Closed'
  BY <1>5 DEF IInv, Closed, Edit
<1>6. CASE UNCHANGED vars
  BY <1>6 DEF IInv, Closed, vars, envVars
<1> QED BY <1>1, <1>2, <1>3, <1>4, <1>5, <1>6 DEF Next

(* The last announced edit is forgotten whenever main leaves the states in  *)
(* which it can have been made, and only the edit's successor changes its   *)
(* file.                                                                    *)
LEMMA AnnouncedStep ==
  ASSUME IInv, [Next]_vars
  PROVE  Announced'
<1>x. CASE Exit BY <1>x, ExitStep DEF IInv
<1>1. CASE Main
  BY <1>1, <1>x
  DEF IInv, Announced, Main, StartWatcher, BeginAppend, EndAppend, ConfigLoaded, FirstRead,
      FirstLoadFails, ListenForSignals, Stop, MainStep, envVars, loadVars, runVars
<1>2. CASE Routine
  BY <1>2, <1>x
  DEF IInv, Announced, Routine, TakeEvent, LoadConfig, NotifyCore, TornSlice, NotifyCompiler,
      ReloadRead, FinishReload, Idle, envVars, loadVars, runVars
<1>3. CASE Signal
  BY <1>3, <1>x DEF Announced, Signal, CloseWatcher
<1>4. CASE EditConf
  BY <1>4 DEF IInv, Announced, EditConf
<1>5. ASSUME NEW f \in File, Edit(f) PROVE Announced'
  <2>1. SUFFICES ASSUME last' # Nobody
                 PROVE  /\ main' \in {"started", "serving"}
                        /\ last'.file \in Rego
                        /\ last'.op # "remove" => disk'[last'.file] # Absent
    BY DEF Announced
  <2>2. PICK c \in Loaded \cup {Torn} :
          /\ disk' = [disk EXCEPT ![f] = c]
          /\ \/ c = Absent /\ Announce(f, "remove")
             \/ c # Absent /\ Announce(f, "write")
             \/ c # Absent /\ Announce(f, "create")
    BY <1>5 DEF Edit
  <2>3. watching /\ observers = 2 /\ f \in Rego /\ last'.file = f
    BY <2>1, <2>2 DEF Announce
  <2>4. last'.op # "remove" => c # Absent
    BY <2>1, <2>2 DEF Announce
  <2>5. disk'[f] = c BY <2>2 DEF IInv, TypeOK
  <2>6. main' = main /\ main \in {"started", "serving", "stopping"}
    BY <1>5, <2>3 DEF Edit, IInv, Registered
  <2>7. main # "stopping"
    BY <2>3 DEF IInv, Closed
  <2> QED BY <2>3, <2>4, <2>5, <2>6, <2>7
<1>6. CASE UNCHANGED vars
  BY <1>6 DEF IInv, Announced, vars, envVars
<1> QED BY <1>1, <1>2, <1>3, <1>4, <1>5, <1>6 DEF Next

(* The heart: an announced edit stays outstanding until the store holds it. *)
LEMMA OutstandingStep ==
  ASSUME IInv, [Next]_vars
  PROVE  Outstanding'
<1> SUFFICES ASSUME Owed({"create", "write"})'
             PROVE  Waits' \/ Handled' \/ Reading' \/ Done'
  BY DEF Outstanding
<1>x. ~Exit BY DEF Exit, Owed
<1>1. ASSUME last' = last
      PROVE  /\ Owed({"create", "write"})
             /\ Waits \/ Handled \/ Reading \/ Done
             /\ main \in {"started", "serving"} /\ observers = 2
             /\ last \in Event /\ last.file \in Rego /\ last.op \in {"create", "write"}
             /\ disk[last.file] # Absent
  BY <1>1 DEF Owed, IInv, TypeOK, Outstanding, Announced, Registered
<1>2. CASE Main
  <2>1. last' = last BY <1>2, <1>x
    DEF Main, StartWatcher, BeginAppend, EndAppend, ConfigLoaded, FirstRead, FirstLoadFails,
        ListenForSignals, Stop
  <2>2. ListenForSignals
    BY <1>2, <1>x, <1>1, <2>1
    DEF Main, StartWatcher, BeginAppend, EndAppend, ConfigLoaded, FirstRead, FirstLoadFails,
        Stop, MainStep
  <2> QED BY <1>1, <2>1, <2>2
    DEF ListenForSignals, Waits, Handled, Reading, Done, Loadable, Parses, envVars, loadVars, runVars
<1>3. CASE TakeEvent
  <2>1. last' = last /\ disk' = disk /\ engine' = engine /\ load' = load
    BY <1>3 DEF TakeEvent, loadVars
  <2>2. ~Handled /\ ~Reading BY <1>3 DEF TakeEvent, Handled, Reading
  <2>3. CASE Done
    BY <1>3, <2>1, <2>3 DEF TakeEvent, Done, Loadable, Parses
  <2>4. CASE Waits
    <3>1. PICK i \in 1..Len(queue) : queue[i] = last BY <2>4 DEF Waits
    <3>2. queue \in Seq(Event) /\ queue # <<>> /\ queue' = Tail(queue)
      BY <1>3 DEF TakeEvent, IInv, TypeOK
    <3>3. CASE i = 1
      <4>1. Head(queue) = last BY <3>1, <3>2, <3>3
      <4>2. IsRelevant(last) BY <1>1, <2>1 DEF IsRelevant
      <4>3. routine' = "loadConf" /\ event' = last BY <1>3, <4>1, <4>2 DEF TakeEvent
      <4> QED BY <1>1, <2>1, <4>3 DEF Handled
    <3>4. CASE i # 1
      <4>1. (i - 1) \in 1..Len(Tail(queue)) /\ Tail(queue)[i - 1] = queue[i]
        BY <3>1, <3>2, <3>4
      <4> QED BY <2>1, <3>1, <3>2, <4>1 DEF Waits
    <3> QED BY <3>3, <3>4
  <2> QED BY <1>1, <2>1, <2>2, <2>3, <2>4
<1>4. CASE LoadConfig
  BY <1>4, <1>1
  DEF LoadConfig, Waits, Handled, Reading, Done, Loadable, Parses, envVars, loadVars
<1>5. CASE NotifyCore
  <2>1. last' = last /\ UNCHANGED <<queue, disk, loadVars>> BY <1>5, <1>x DEF NotifyCore, envVars
  <2>2. Seen = {2} BY <1>1, <2>1 DEF Seen
  <2>3. routine' = "notifyAll" /\ event' = event
    BY <1>5, <1>x, <2>2 DEF NotifyCore
  <2> QED BY <1>1, <1>5, <2>1, <2>3
    DEF NotifyCore, Waits, Handled, Reading, Done, Loadable, Parses, loadVars
<1>6. CASE TornSlice BY <1>6, <1>x DEF TornSlice
<1>7. CASE NotifyCompiler
  <2>1. last' = last /\ UNCHANGED <<queue, disk, engine>> BY <1>7 DEF NotifyCompiler, envVars
  <2>2. CASE Waits BY <2>1, <2>2 DEF Waits
  <2>3. CASE Done /\ event.file \notin Rego
    BY <1>7, <2>1, <2>3 DEF NotifyCompiler, Idle, Done, Loadable, Parses
  <2>4. CASE event.file \in Rego
    BY <1>7, <2>1, <2>4 DEF NotifyCompiler, Reading, Listed
  <2> QED BY <1>1, <1>7, <2>1, <2>2, <2>3, <2>4 DEF NotifyCompiler, Handled, Reading
<1>8. CASE ReloadRead
  <2>1. last' = last /\ UNCHANGED <<queue, disk, engine, routine, event>>
    BY <1>8 DEF ReloadRead, envVars, runVars
  <2>2. CASE Waits BY <2>1, <2>2 DEF Waits
  <2>3. CASE Done BY <2>1, <2>3 DEF Done, Loadable, Parses
  <2>4. CASE Reading
    <3>1. PICK f \in File : ReadFile(f) BY <1>8 DEF ReloadRead
    <3>2. load \in [File -> Loaded \cup {Torn, Unread}] BY DEF IInv, TypeOK
    <3>3. disk[f] # Absent
      BY <3>1, <2>4, ContentAssumption DEF ReadFile, Reading, Loaded
    <3>4. load'[f] = disk[f] /\ \A g \in File \ {f} : load'[g] = load[g]
      BY <3>1, <3>2, <3>3 DEF ReadFile
    <3> QED BY <2>1, <2>4, <3>4 DEF Reading
  <2> QED BY <1>1, <1>8, <2>1, <2>2, <2>3, <2>4 DEF ReloadRead, Handled
<1>9. CASE FinishReload
  <2>1. last' = last /\ UNCHANGED <<queue, disk>> BY <1>9 DEF FinishReload, envVars
  <2>2. CASE Waits BY <2>1, <2>2 DEF Waits
  <2>3. load \in [File -> Loaded \cup {Torn, Unread}] /\ disk \in [File -> Loaded \cup {Torn}]
    BY DEF IInv, TypeOK
  <2>4. CASE Reading
    <3>1. load = disk BY <1>9, <2>3, <2>4 DEF FinishReload, ReloadEnds, HaveRead, Reading
    <3> QED BY <1>9, <2>1, <3>1 DEF FinishReload, Idle, Done, Loadable, Parses
  <2>5. ~Done /\ ~Handled BY <1>9 DEF FinishReload, ReloadEnds, Done, Handled
  <2> QED BY <1>1, <2>1, <2>2, <2>4, <2>5
<1>10. CASE Signal BY <1>10, <1>x DEF Signal, CloseWatcher, Owed
<1>11. CASE EditConf
  <2>1. last' = last /\ UNCHANGED <<disk, engine, load, routine, event>>
    BY <1>11 DEF EditConf, loadVars, runVars
  <2>2. CASE Waits
    <3>1. PICK i \in 1..Len(queue) : queue[i] = last BY <2>2 DEF Waits
    <3>2. \/ queue' = queue
          \/ queue' = Append(queue, [file |-> ConfFile, op |-> "write"])
      BY <1>11 DEF EditConf
    <3>3. i \in 1..Len(queue') /\ queue'[i] = queue[i]
      BY <3>1, <3>2 DEF IInv, TypeOK
    <3> QED BY <2>1, <3>1, <3>3 DEF Waits
  <2> QED BY <1>1, <2>1, <2>2 DEF Handled, Reading, Done, Loadable, Parses
<1>12. ASSUME NEW f \in File, Edit(f) PROVE Waits'
  <2>1. PICK op \in Ops : Announce(f, op) BY <1>12 DEF Edit, Ops
  <2>2. last' = [file |-> f, op |-> op] /\ queue' = Append(queue, last')
    BY <2>1 DEF Announce, Owed
  <2>3. Len(queue') \in 1..Len(queue') /\ queue'[Len(queue')] = last'
    BY <2>2 DEF IInv, TypeOK
  <2> QED BY <2>3 DEF Waits
<1>13. CASE UNCHANGED vars
  BY <1>13, <1>1
  DEF vars, envVars, loadVars, runVars, Waits, Handled, Reading, Done, Loadable, Parses
<1> QED
  BY <1>2, <1>3, <1>4, <1>5, <1>6, <1>7, <1>8, <1>9, <1>10, <1>11, <1>12, <1>13
  DEF Next, Routine

-----------------------------------------------------------------------------
(* All parts together: the inductive invariant of the watcher.              *)
THEOREM WatcherInductive == Spec => []IInv
<1>1. Init => IInv BY InitIInv
<1>2. IInv /\ [Next]_vars => IInv'
  <2> SUFFICES ASSUME IInv, [Next]_vars PROVE IInv' OBVIOUS
  <2>1. TypeOK' BY TypeStep
  <2>2. Registered' /\ Closed' BY RegisteredStep, ClosedStep
  <2>3. Announced' /\ Outstanding' BY AnnouncedStep, OutstandingStep
  <2> QED BY <2>1, <2>2, <2>3 DEF IInv
<1> QED BY <1>1, <1>2, PTL DEF Spec

(* Every variable keeps its type. *)
THEOREM WatcherTypes == Spec => []TypeOK
<1>1. IInv => TypeOK BY DEF IInv
<1> QED BY <1>1, WatcherInductive, PTL

(* No announced edit is missed by the reloads, however many files there     *)
(* are, however they are edited while they are being read.                  *)
THEOREM EditsNotMissed == Spec => []NoEditMissed
<1>1. IInv => NoEditMissed
  <2> SUFFICES ASSUME IInv, Quiet, Owed({"create", "write"}), Loadable(disk)
               PROVE  engine = disk
    BY DEF NoEditMissed
  <2>1. ~Waits BY DEF Quiet, Waits
  <2>2. ~Handled /\ ~Reading BY DEF Quiet, Handled, Reading
  <2> QED BY <2>1, <2>2 DEF IInv, Outstanding, Done
<1> QED BY <1>1, WatcherInductive, PTL

(* What is in service always compiles. *)
THEOREM LoadableServed == Spec => []ServesLoadable
<1>1. IInv => ServesLoadable BY DEF IInv, Registered, ServesLoadable
<1> QED BY <1>1, WatcherInductive, PTL

(* No policy edit ends a service. *)
THEOREM OnlyConfigEnds == Spec => OnlyConfigStops
<1> DEFINE Ends == main = "serving" /\ main' = "down"
<1>1. [Next]_vars => [Ends => routine = "notify" /\ confError]_vars
  <2> SUFFICES ASSUME Next, main = "serving", main' = "down"
               PROVE  routine = "notify" /\ confError
    BY DEF vars
  <2>1. CASE Main
    BY <2>1 DEF Main, StartWatcher, BeginAppend, EndAppend, ConfigLoaded, FirstRead,
                FirstLoadFails, ListenForSignals, Stop, MainStep
  <2>2. CASE NotifyCore BY <2>2 DEF NotifyCore
  <2>3. CASE TornSlice BY <2>3 DEF TornSlice
  <2>4. CASE Routine /\ ~NotifyCore /\ ~TornSlice
    BY <2>4 DEF Routine, TakeEvent, LoadConfig, NotifyCompiler, ReloadRead, FinishReload, envVars
  <2>5. CASE Signal \/ EditConf \/ \E f \in File : Edit(f)
    BY <2>5 DEF Signal, MainStep, EditConf, Edit
  <2> QED BY <2>1, <2>2, <2>3, <2>4, <2>5 DEF Next, Routine
<1> QED BY <1>1, PTL DEF Spec, OnlyConfigStops
=============================================================================
