------------------------------ MODULE Service -------------------------------
(***************************************************************************)
(* The registration of the recorder with the machine's manager, and        *)
(* further down how one operation on a scheduled task is carried out.      *)
(*                                                                         *)
(* The registration that starts the recorder by itself, and the copy of    *)
(* the program it names: `stream-dvr install` and `uninstall`              *)
(* (cmd/stream-dvr/install.go) over the three managers of internal/service *)
(* (a systemd user unit, a launchd agent, a scheduled task with a helper   *)
(* of its own).  The interface starts and stops what is registered.        *)
(*                                                                         *)
(* One command runs at a time.  Every call of a manager may fail, and a    *)
(* command may be killed between two of them.                              *)
(***************************************************************************)
EXTENDS Integers

VARIABLES host,         \* the manager of this machine
          entry,        \* the file or the task that names the program
          loaded,       \* the manager holds the entry, and runs it as it loads
          up,           \* the registered recorder runs
          helper,       \* whether a helper starts at sign-in; left: as the operator was told
          program,      \* the copy of the program an entry names
          doing,        \* the next step of the command that runs
          announced     \* what the last command said of what it left behind

service == <<host, entry, loaded, up, helper, program, doing, announced>>

Manager == {"systemd", "launchd", "scheduler"}

NoCommand == "idle"
Proceed(step) == doing' = step
Fails == doing' = NoCommand /\ announced' = "failed"

----------------------------------------------------------------------------
(* Install                                                                 *)

(* installBinary: the copy is staged and renamed, and a running image is   *)
(* not replaced where the system forbids it.                               *)
InstallBinary ==
  /\ doing = NoCommand
  /\ \/ program' = "whole" /\ Proceed("write entry") /\ announced' = ""
     \/ UNCHANGED program /\ Fails
  /\ UNCHANGED <<host, entry, loaded, up, helper>>

(* The unit or the agent is written in place, so that a failure may leave  *)
(* a part of it.                                                           *)
WriteEntry ==
  /\ doing = "write entry" /\ host # "scheduler"
  /\ \/ entry' = "present" /\ Proceed(IF host = "systemd" THEN "reload" ELSE "unload") /\ UNCHANGED announced
     \/ entry' \in {entry, "torn"} /\ Fails
  /\ UNCHANGED <<host, loaded, up, helper, program>>

(* The deferred removal: an entry nothing starts would be reported as      *)
(* installed.  What the manager already holds stays with it.               *)
TakeBack ==
  /\ entry' \in {"absent", entry} /\ Fails
  /\ UNCHANGED <<host, helper, program>>

Reload ==
  /\ doing = "reload"
  /\ \/ Proceed("enable") /\ UNCHANGED <<host, entry, loaded, up, helper, program, announced>>
     \/ TakeBack /\ UNCHANGED <<loaded, up>>

(* enable --now: it may enable the unit and fail to start it.              *)
Enable ==
  /\ doing = "enable"
  /\ \/ loaded' = TRUE /\ up' = TRUE /\ Proceed("linger") /\ UNCHANGED <<host, entry, helper, program, announced>>
     \/ TakeBack /\ loaded' \in {loaded, TRUE} /\ UNCHANGED up

Linger ==
  /\ doing = "linger"
  /\ \/ Proceed("helper") /\ UNCHANGED <<host, entry, loaded, up, helper, program, announced>>
     \/ TakeBack /\ UNCHANGED <<loaded, up>>

(* bootout: a job that is loaded already refuses to be loaded again.       *)
Unload ==
  /\ doing = "unload" /\ Proceed("load")
  /\ \/ loaded' = FALSE /\ up' = FALSE
     \/ UNCHANGED <<loaded, up>>
  /\ UNCHANGED <<host, entry, helper, program, announced>>

Bootstrap ==
  /\ doing = "load"
  /\ \/ ~loaded /\ loaded' = TRUE /\ up' = TRUE /\ Proceed("helper") /\ UNCHANGED <<host, entry, helper, program, announced>>
     \/ TakeBack /\ UNCHANGED <<loaded, up>>

(* RegisterTask: the task is there, as a whole, or it is not.              *)
Register ==
  /\ doing = "write entry" /\ host = "scheduler"
  /\ \/ entry' = "present" /\ loaded' = TRUE /\ Proceed("helper") /\ UNCHANGED announced
     \/ Fails /\ UNCHANGED <<entry, loaded>>
  /\ UNCHANGED <<host, up, helper, program>>

(* The key of the registry that starts a helper at sign-in, as it is set   *)
(* and as it is removed.                                                   *)
HelperSet == IF host = "scheduler" THEN {helper, "on"} ELSE {helper}
HelperRemoved == IF helper = "none" THEN {"none"} ELSE {"none", "left"}

(* installAgent: a helper that cannot be registered refuses nothing.       *)
InstallHelper ==
  /\ doing = "helper" /\ doing' = NoCommand /\ announced' = "installed"
  /\ helper' \in HelperSet
  /\ UNCHANGED <<host, entry, loaded, up, program>>

----------------------------------------------------------------------------
(* Uninstall                                                               *)

(* Status: of a file that is not there, or of a task.  A manager that does *)
(* not hold the unit may say that it is unknown, and the file stays.       *)
StatusSays ==
  IF entry = "absent" THEN {"absent"}
  ELSE IF host = "systemd" /\ ~loaded THEN {"absent", "installed"} ELSE {"installed"}

(* runUninstall: a registration that is not there is passed over.          *)
AskStatus ==
  /\ doing = NoCommand
  /\ \/ \E state \in StatusSays : Proceed(IF state = "absent" THEN "drop helper" ELSE "disable") /\ announced' = ""
     \/ Fails
  /\ UNCHANGED <<host, entry, loaded, up, helper, program>>

(* A unit or a job that cannot be stopped still loses its file, and the    *)
(* command says so.                                                        *)
Disable ==
  /\ doing = "disable" /\ host # "scheduler" /\ Proceed("remove entry")
  /\ \/ loaded' = FALSE /\ up' = FALSE /\ UNCHANGED announced
     \/ announced' = "still up" /\ UNCHANGED <<loaded, up>>
  /\ UNCHANGED <<host, entry, helper, program>>

(* A task that cannot be removed stays, and one that is leaves its run.    *)
DeleteTask ==
  /\ doing = "disable" /\ host = "scheduler"
  /\ \/ entry' = "absent" /\ loaded' = FALSE /\ Proceed("drop helper") /\ UNCHANGED announced
     \/ Fails /\ UNCHANGED <<entry, loaded>>
  /\ UNCHANGED <<host, up, helper, program>>

(* A file that cannot be removed does not stop the command.                *)
RemoveEntryAnyway ==
  /\ doing = "remove entry"
  /\ entry' \in {"absent", entry}
  /\ IF announced = "still up" THEN doing' = NoCommand ELSE Proceed("drop helper")
  /\ UNCHANGED <<host, loaded, up, helper, program, announced>>

(* What could not be stopped, and what a manager could not be told, ends   *)
(* the command once the file is gone.                                      *)
RemoveEntry ==
  /\ doing = "remove entry"
  /\ \/ /\ entry' = "absent"
        /\ IF announced = "still up" THEN doing' = NoCommand /\ UNCHANGED announced
           ELSE \/ Proceed("drop helper") /\ UNCHANGED announced
                \/ host = "systemd" /\ Fails
     \/ UNCHANGED entry /\ Fails
  /\ UNCHANGED <<host, loaded, up, helper, program>>

(* uninstallAgent: what cannot be removed is reported, and the rest of the *)
(* command goes on.                                                        *)
DropHelper ==
  /\ doing = "drop helper" /\ Proceed("remove program")
  /\ helper' \in HelperRemoved
  /\ UNCHANGED <<host, entry, loaded, up, program, announced>>

(* uninstallBinary: a running program is moved aside where it cannot be    *)
(* deleted, and one that stays is reported.                                *)
UninstallBinary ==
  /\ doing = "remove program" /\ doing' = NoCommand /\ announced' = "uninstalled"
  /\ program' \in {"absent", program}
  /\ UNCHANGED <<host, entry, loaded, up, helper>>

----------------------------------------------------------------------------
(* The interface and the machine                                           *)

(* kickstart, start, Run: of a job that is loaded, or loads.               *)
Startable == loaded \/ (host = "launchd" /\ entry = "present")

StartService ==
  /\ Startable /\ program = "whole" /\ loaded' = TRUE /\ up' = TRUE
  /\ UNCHANGED <<host, entry, helper, program, doing, announced>>

(* Stop: a unit and a task stay loaded, and a launchd job does not.        *)
StopService ==
  /\ up /\ up' = FALSE /\ loaded' = (loaded /\ host # "launchd")
  /\ UNCHANGED <<host, entry, helper, program, doing, announced>>

(* What the next boot or sign-in starts.                                   *)
StartsAlone == entry # "absent" /\ (loaded \/ host = "launchd")

(* A boot ends what runs, and starts what an entry names.                  *)
Boot ==
  /\ loaded' = (StartsAlone /\ entry = "present")
  /\ up' = (loaded' /\ program = "whole")
  /\ doing' = NoCommand
  /\ announced' = IF doing = NoCommand THEN announced ELSE "killed"
  /\ UNCHANGED <<host, entry, helper, program>>

(* A command that is killed leaves what it did.                            *)
KillCommand ==
  /\ doing # NoCommand /\ doing' = NoCommand /\ announced' = "killed"
  /\ UNCHANGED <<host, entry, loaded, up, helper, program>>

ServiceInit ==
  /\ host \in Manager
  /\ entry = "absent" /\ loaded = FALSE /\ up = FALSE /\ helper = "none" /\ program = "absent"
  /\ doing = NoCommand /\ announced = ""

ServiceNext ==
  \/ InstallBinary \/ WriteEntry \/ Reload \/ Enable \/ Linger \/ Unload \/ Bootstrap \/ Register \/ InstallHelper
  \/ AskStatus \/ Disable \/ DeleteTask \/ RemoveEntry \/ DropHelper \/ UninstallBinary
  \/ StartService \/ StopService \/ Boot \/ KillCommand

ServiceSpec == ServiceInit /\ [][ServiceNext]_service
----------------------------------------------------------------------------

(* install.go, runUninstall: "both registrations name this file.  Removing *)
(* it first would leave a task pointing at nothing".  Whatever fails and   *)
(* wherever a command is killed, what starts by itself has the program it  *)
(* names, unless the operator was told of a helper that stays; and a       *)
(* command that ended well left what it said.                              *)
RegistrationIsHonest ==
  /\ StartsAlone \/ helper = "on" => program = "whole"
  /\ announced = "installed" => entry = "present"
  /\ announced = "uninstalled" => ~StartsAlone /\ helper # "on"

----------------------------------------------------------------------------
(***************************************************************************)
(* How one operation on a scheduled task borrows a thread, an apartment    *)
(* and the interfaces it calls through, and gives each of them back        *)
(* (internal/service/scheduler_com_windows.go).  Every call may fail, the  *)
(* thread may hold an apartment already, and an answer may be no interface *)
(* at all.                                                                 *)
(***************************************************************************)

CONSTANT Operations     \* bound on the operations

ASSUME SchedulerAssumption == Operations \in Nat

Interface == {"unknown", "service", "root", "task", "answer"}

VARIABLES apartment,    \* the mode of the thread's apartment, and how often it is entered
          borrowed,     \* whether the goroutine keeps its thread
          references,   \* the references held to each interface
          uninitialize, \* whether the session is to leave the apartment
          operation,    \* what is done, the call that is next, and the apartment that was found
          faulted,      \* whether anything reached an interface that was gone
          operations    \* the operations so far

scheduler == <<apartment, borrowed, references, uninitialize, operation, faulted, operations>>

NothingDone == [does |-> "nothing", call |-> "none", found |-> 0]
Calling(name) == operation.call = name
NextCall(name) == operation' = [operation EXCEPT !.call = name]

(* An interface serves while it is held and the apartment is open.         *)
Serving(i) == references[i] > 0 /\ apartment.entered > 0
Through(i) == faulted' = (faulted \/ ~Serving(i))
Gain(i) == references' = [references EXCEPT ![i] = @ + 1]

(* A call that comes back with an interface, or fails.                     *)
Obtains(i, name, otherwise) ==
  \/ Gain(i) /\ NextCall(name)
  \/ UNCHANGED references /\ NextCall(otherwise)

----------------------------------------------------------------------------
(* connect                                                                 *)

(* withSession, on a thread whose apartment may be open, of either mode.   *)
WithSession ==
  /\ Calling("none") /\ operations < Operations /\ operations' = operations + 1
  /\ \E does \in {"register", "delete", "run", "halt", "state"}, mode \in {"shut", "multi", "single"} :
       /\ apartment' = [mode |-> mode, entered |-> IF mode = "shut" THEN 0 ELSE 1]
       /\ operation' = [does |-> does, call |-> "initialize", found |-> apartment'.entered]
  /\ borrowed' = TRUE /\ UNCHANGED <<references, uninitialize, faulted>>

(* CoInitializeEx: an apartment of the other mode is used, and not left.   *)
CoInitialize ==
  /\ Calling("initialize")
  /\ \/ /\ uninitialize' = (apartment.mode # "single")
        /\ apartment' = IF apartment.mode = "single" THEN apartment
                        ELSE [mode |-> "multi", entered |-> apartment.entered + 1]
        /\ NextCall("create") /\ UNCHANGED borrowed
     \/ apartment.mode = "shut" /\ NextCall("none") /\ borrowed' = FALSE /\ UNCHANGED <<uninitialize, apartment>>
  /\ UNCHANGED <<references, faulted, operations>>

CreateService ==
  /\ Calling("create") /\ Obtains("unknown", "query", "close")
  /\ UNCHANGED <<apartment, borrowed, uninitialize, faulted, operations>>

(* Mutant of QueryInterface: the object is let go of once all is done.     *)
QueryInterfaceFirst ==
  /\ Calling("query") /\ Through("unknown") /\ Obtains("service", "connect", "close")
  /\ UNCHANGED <<apartment, borrowed, uninitialize, operations>>

(* QueryInterface, after which the object is let go of.                    *)
QueryInterface ==
  /\ Calling("query") /\ Through("unknown")
  /\ \/ references' = [references EXCEPT !["unknown"] = @ - 1, !["service"] = @ + 1] /\ NextCall("connect")
     \/ references' = [references EXCEPT !["unknown"] = @ - 1] /\ NextCall("close")
  /\ UNCHANGED <<apartment, borrowed, uninitialize, operations>>

ConnectService ==
  /\ Calling("connect") /\ Through("service") /\ (NextCall("folder") \/ NextCall("close"))
  /\ UNCHANGED <<apartment, borrowed, references, uninitialize, operations>>

(* GetFolder: the reference of the answer becomes the session's.           *)
GetFolder ==
  /\ Calling("folder") /\ Through("service")
  /\ Obtains("root", IF operation.does \in {"register", "delete"} THEN operation.does ELSE "task", "close")
  /\ UNCHANGED <<apartment, borrowed, uninitialize, operations>>

----------------------------------------------------------------------------
(* The operations                                                          *)

(* Register, which comes back with the task it registered, or not.         *)
RegisterTask ==
  /\ Calling("register") /\ Through("root") /\ Obtains("answer", "release answer", "close")
  /\ UNCHANGED <<apartment, borrowed, uninitialize, operations>>

DropTask ==
  /\ Calling("delete") /\ Through("root") /\ NextCall("close")
  /\ UNCHANGED <<apartment, borrowed, references, uninitialize, operations>>

(* task: an answer that is no interface is a task that is not there.       *)
GetTask ==
  /\ Calling("task") /\ Through("root") /\ Obtains("task", operation.does, "close")
  /\ UNCHANGED <<apartment, borrowed, uninitialize, operations>>

(* Run: the running task comes back as an interface, or not.               *)
RunTask ==
  /\ Calling("run") /\ Through("task") /\ Obtains("answer", "release answer", "release task")
  /\ UNCHANGED <<apartment, borrowed, uninitialize, operations>>

HaltTask ==
  /\ Calling("halt") /\ Through("task") /\ NextCall("release task")
  /\ UNCHANGED <<apartment, borrowed, references, uninitialize, operations>>

(* State: a number, which holds nothing.                                   *)
TaskState ==
  /\ Calling("state") /\ Through("task") /\ NextCall("release task")
  /\ UNCHANGED <<apartment, borrowed, references, uninitialize, operations>>

(* Mutant of LetGo: the variant the answer came in is cleared as well.     *)
LetGoTwice(i) ==
  /\ references' = [references EXCEPT ![i] = @ - 2] /\ faulted' = (faulted \/ references[i] < 2)

LetGo(i) == references' = [references EXCEPT ![i] = @ - 1] /\ Through(i)

ReleaseAnswer ==
  /\ Calling("release answer") /\ LetGo("answer")
  /\ NextCall(IF operation.does = "run" THEN "release task" ELSE "close")
  /\ UNCHANGED <<apartment, borrowed, uninitialize, operations>>

ReleaseTask ==
  /\ Calling("release task") /\ LetGo("task") /\ NextCall("close")
  /\ UNCHANGED <<apartment, borrowed, uninitialize, operations>>

(* Mutant of LeaveApartment: whoever opened the apartment.                 *)
LeaveAnyApartment == apartment' = [apartment EXCEPT !.entered = @ - 1]

LeaveApartment == apartment' = IF uninitialize THEN [apartment EXCEPT !.entered = @ - 1] ELSE apartment

(* Close: the folder, the service, the apartment and the thread, as far as *)
(* the session has come.                                                   *)
CloseSession ==
  /\ Calling("close") /\ NextCall("none")
  /\ references' = [references EXCEPT !["root"] = 0, !["service"] = 0]
  /\ faulted' = (faulted \/ \E i \in {"root", "service"} : references[i] > 0 /\ ~Serving(i))
  /\ LeaveApartment /\ borrowed' = FALSE /\ UNCHANGED <<uninitialize, operations>>

SchedulerInit ==
  /\ apartment = [mode |-> "shut", entered |-> 0] /\ borrowed = FALSE
  /\ references = [i \in Interface |-> 0] /\ uninitialize = FALSE
  /\ operation = NothingDone /\ faulted = FALSE /\ operations = 0

SchedulerNext ==
  \/ WithSession \/ CoInitialize \/ CreateService \/ QueryInterface \/ ConnectService \/ GetFolder
  \/ RegisterTask \/ DropTask \/ GetTask \/ RunTask \/ HaltTask \/ TaskState
  \/ ReleaseAnswer \/ ReleaseTask \/ CloseSession

SchedulerSpec == SchedulerInit /\ [][SchedulerNext]_scheduler

----------------------------------------------------------------------------

(* scheduler_com_windows.go, connect: "a call through an interface after   *)
(* that reaches a vtable in an unloaded DLL", and Register: "clearing the  *)
(* VARIANT would do it twice".  However far an operation came, nothing is  *)
(* called that is gone, and once it is over it holds no interface and no   *)
(* thread and the apartment is as it was found.                            *)
SessionIsReturned ==
  /\ ~faulted
  /\ Calling("none") => /\ ~borrowed /\ \A i \in Interface : references[i] = 0
                        /\ apartment.entered = operation.found
=============================================================================
