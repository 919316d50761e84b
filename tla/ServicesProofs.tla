--------------------------- MODULE ServicesProofs ---------------------------
(***************************************************************************)
(* Theorems about how the recorder stands towards the system and the       *)
(* operator: the notification socket and the webhook (Notices), what       *)
(* starts it by itself and the session of the Windows Task Scheduler that  *)
(* registers it (Service), the interface (Screen, Settings), the calendar  *)
(* it paints (Calendar), the setup of a library by commands that run at   *)
(* once (Setup), the session with the platform (Account) and the page that *)
(* asks for it (Device), and what is fetched from the platform: the days   *)
(* that are asked of (Plan), the round over them (Pass) and what it        *)
(* silenced of a download (Audio).  They hold for every set of recorders,  *)
(* agents, processes, roots, months, channels, tasks and commands, every   *)
(* number of events, operations and grants, every length of a queue and of *)
(* a day, every zone and every answer of the platform.                     *)
(***************************************************************************)
EXTENDS Notices, Service, Screen, Settings, Setup, Account, Device, Plan,
        Pass, Audio,
        FiniteSetTheorems, SequenceTheorems, TLAPS

----------------------------------------------------------------------------
(* Notices *)

NoticesTypeOK ==
  /\ recorder \in [Recorder -> {"off", "asked", "removed", "opened", "running", "leaving"}]
  /\ bus \subseteq Recorder /\ undisturbed \subseteq Recorder

(* Whose bus was opened with no other about to has the only one, and as    *)
(* its socket answers, nobody else has got past the question.              *)
NoticesInv ==
  /\ NoticesTypeOK
  /\ \A r \in undisturbed : socket = r /\ bus = {r} /\ \A q \in Recorder : ~Starting(q)

LEMMA MoveKeepsType ==
  ASSUME NoticesTypeOK, NEW r \in Recorder,
         NEW at \in {"off", "asked", "removed", "opened", "running", "leaving"}, Move(r, at)
  PROVE  /\ recorder' \in [Recorder -> {"off", "asked", "removed", "opened", "running", "leaving"}]
         /\ recorder'[r] = at /\ \A q \in Recorder \ {r} : recorder'[q] = recorder[q]
  BY DEF Move, NoticesTypeOK

LEMMA NoticesInvStep == NoticesInv /\ [NoticesNext]_notices => NoticesInv'
<1> SUFFICES ASSUME NoticesInv, [NoticesNext]_notices PROVE NoticesInv'
  OBVIOUS
<1> USE DEF NoticesInv, Starting
<1>0. NoticesTypeOK
  OBVIOUS
<1>1. ASSUME NEW r \in Recorder, AskSocket(r) PROVE NoticesInv'
  BY <1>0, <1>1, MoveKeepsType DEF AskSocket, NoticesTypeOK
<1>2. ASSUME NEW r \in Recorder, RemoveSocket(r) PROVE NoticesInv'
  <2>1. undisturbed = {}
    BY <1>0, <1>2 DEF RemoveSocket, NoticesTypeOK
  <2> QED
    BY <1>0, <1>2, <2>1, MoveKeepsType DEF RemoveSocket, NoticesTypeOK
<1>3. ASSUME NEW r \in Recorder, Bind(r) PROVE NoticesInv'
  <2>1. undisturbed = {}
    BY <1>0, <1>3 DEF Bind, NoticesTypeOK
  <2>2. undisturbed' \subseteq {r} /\ bus' \subseteq bus \cup {r}
    BY <1>3, <2>1 DEF Bind
  <2>3. ASSUME r \in undisturbed' PROVE socket' = r /\ bus' = {r} /\ \A q \in Recorder : ~Starting(q)'
    BY <1>0, <1>3, <2>1, <2>3, MoveKeepsType DEF Bind
  <2> QED
    BY <1>0, <1>3, <2>2, <2>3, MoveKeepsType DEF Bind, NoticesTypeOK
<1>4. ASSUME NEW r \in Recorder, Claim(r) \/ EndRun(r) PROVE NoticesInv'
  BY <1>0, <1>4, MoveKeepsType DEF Claim, EndRun, NoticesTypeOK
<1>5. ASSUME NEW r \in Recorder, CloseBus(r) \/ Dies(r) PROVE NoticesInv'
  BY <1>0, <1>5, MoveKeepsType DEF CloseBus, Dies, HangUp, NoticesTypeOK
<1>6. ASSUME NEW r \in Recorder, Publish(r) PROVE NoticesInv'
  BY <1>6 DEF Publish, NoticesTypeOK
<1>7. ASSUME NEW a \in Agent, Drain(a) \/ Follow(a) PROVE NoticesInv'
  BY <1>7 DEF Drain, Follow, NoticesTypeOK
<1>8. CASE UNCHANGED notices
  BY <1>8 DEF notices, NoticesTypeOK
<1> QED
  BY <1>1, <1>2, <1>3, <1>4, <1>5, <1>6, <1>7, <1>8 DEF NoticesNext

(* bus.go, Listen and Close: however many recorders start, refuse, end and *)
(* die beside it, the recorder whose bus nobody disturbed as it was opened *)
(* stays the one that is reached.                                          *)
THEOREM SocketSurvived == NoticesSpec => []SocketSurvives
<1>1. NoticesInit => NoticesInv
  BY DEF NoticesInit, NoticesInv, NoticesTypeOK
<1>2. NoticesInv => SocketSurvives
  BY DEF NoticesInv, SocketSurvives
<1> QED
  BY <1>1, <1>2, NoticesInvStep, PTL DEF NoticesSpec

----------------------------------------------------------------------------
(* Scheduler *)

Does == {"register", "delete", "run", "halt", "state"}
OverTask == {"run", "halt", "state", "release task"}
OverFolder == {"register", "delete", "task", "release answer"} \cup OverTask
OverService == {"connect", "folder"} \cup OverFolder
TaskCalls == {"none", "initialize", "create", "query", "close"} \cup OverService

Once(held) == IF held THEN 1 ELSE 0

(* What is held ahead of each call.                                        *)
CountedInv ==
  /\ references["unknown"] = Once(Calling("query"))
  /\ references["answer"] = Once(Calling("release answer"))
  /\ references["task"] = Once(operation.call \in OverTask \/ (Calling("release answer") /\ operation.does = "run"))
  /\ IF Calling("close") THEN references["service"] \in {0, 1} /\ references["root"] \in {0, references["service"]}
     ELSE /\ references["service"] = Once(operation.call \in OverService)
          /\ references["root"] = Once(operation.call \in OverFolder)

(* Where an operation may be, by what it does.                             *)
CallInv ==
  /\ operation.call \in Does => operation.does = operation.call
  /\ operation.call = "task" => operation.does \in {"run", "halt", "state"}
  /\ operation.call = "release answer" => operation.does \in {"register", "run"}
  /\ operation.call # "none" => operation.does \in Does

(* The apartment that was found, and whether this session entered it.      *)
ApartmentInv ==
  /\ operation.call \in {"none", "initialize"} => apartment.entered = operation.found
  /\ Calling("initialize") =>
       /\ apartment.entered = IF apartment.mode = "shut" THEN 0 ELSE 1
  /\ operation.call \notin {"none", "initialize"} =>
       apartment.entered = operation.found + Once(uninitialize) /\ apartment.entered > 0

SchedulerInv ==
  /\ references \in [Interface -> {0, 1}]
  /\ operation \in [does : Does \cup {"nothing"}, call : TaskCalls, found : Int]
  /\ apartment \in [mode : {"shut", "multi", "single"}, entered : Int]
  /\ uninitialize \in BOOLEAN /\ borrowed \in BOOLEAN
  /\ CountedInv /\ CallInv /\ ApartmentInv
  /\ ~faulted /\ (Calling("none") => ~borrowed)

(* The call that is next, and what stays of the operation.                 *)
LEMMA NextIs ==
  ASSUME SchedulerInv, NEW call \in TaskCalls, NextCall(call)
  PROVE  /\ operation' \in [does : Does \cup {"nothing"}, call : TaskCalls, found : Int]
         /\ operation'.call = call /\ operation'.does = operation.does /\ operation'.found = operation.found
  BY DEF SchedulerInv, NextCall

(* One reference more, and one less.                                       *)
LEMMA Gained ==
  ASSUME SchedulerInv, NEW i \in Interface, references[i] = 0, Gain(i)
  PROVE  /\ references' \in [Interface -> {0, 1}]
         /\ references'[i] = 1 /\ \A j \in Interface \ {i} : references'[j] = references[j]
<1>1. references' = [references EXCEPT ![i] = 1]
  <2> DEFINE more == references[i] + 1
  <2>1. more = 1
    OBVIOUS
  <2>2. references' = [references EXCEPT ![i] = more]
    BY DEF Gain
  <2> HIDE DEF more
  <2> QED
    BY <2>1, <2>2
<1> QED
  BY <1>1 DEF SchedulerInv

LEMMA Lost ==
  ASSUME SchedulerInv, NEW i \in Interface, references[i] = 1, LetGo(i)
  PROVE  /\ references' \in [Interface -> {0, 1}] /\ Through(i)
         /\ references'[i] = 0 /\ \A j \in Interface \ {i} : references'[j] = references[j]
<1>1. references' = [references EXCEPT ![i] = 0]
  <2> DEFINE less == references[i] - 1
  <2>1. less = 0
    OBVIOUS
  <2>2. references' = [references EXCEPT ![i] = less]
    BY DEF LetGo
  <2> HIDE DEF less
  <2> QED
    BY <2>1, <2>2
<1> QED
  BY <1>1 DEF SchedulerInv, LetGo

(* A call between the apartment's opening and its closing.                 *)
LEMMA Within ==
  ASSUME SchedulerInv, NEW call \in TaskCalls \ {"none", "initialize"}, NextCall(call),
         operation.call \notin {"none", "initialize"}, UNCHANGED <<apartment, borrowed, uninitialize>>,
         references' \in [Interface -> {0, 1}], CountedInv', CallInv', ~faulted'
  PROVE  SchedulerInv'
<1>1. operation'.call = call /\ operation'.found = operation.found
  BY NextIs
<1>2. ApartmentInv'
  BY <1>1 DEF SchedulerInv, ApartmentInv, Calling
<1>3. uninitialize' \in BOOLEAN /\ borrowed' \in BOOLEAN
  BY DEF SchedulerInv
<1> QED
  BY <1>1, <1>2, <1>3, NextIs DEF SchedulerInv, Calling

(* What is held can be called.                                             *)
LEMMA HeldCounted ==
  ASSUME SchedulerInv, operation.call \notin {"none", "initialize"}, NEW i \in Interface, references[i] = 1,
         Through(i)
  PROVE  ~faulted'
<1>1. apartment.entered > 0
  BY DEF SchedulerInv, ApartmentInv
<1>2. Serving(i)
  BY <1>1 DEF Serving
<1>3. ~faulted
  BY DEF SchedulerInv
<1> QED
  BY <1>2, <1>3 DEF Through

LEMMA SchedulerInvStep == SchedulerInv /\ [SchedulerNext]_scheduler => SchedulerInv'
<1> SUFFICES ASSUME SchedulerInv, [SchedulerNext]_scheduler PROVE SchedulerInv'
  OBVIOUS
<1> USE DEF Does, OverTask, OverFolder, OverService, TaskCalls, Calling, Once, Interface
<1>1. CASE CreateService
  <2>1. PICK call \in {"query", "close"} : NextCall(call) /\ (call = "query" => Gain("unknown"))
                                            /\ (call = "close" => UNCHANGED references)
    BY <1>1 DEF CreateService, Obtains
  <2>2. references' \in [Interface -> {0, 1}] /\ CountedInv'
    BY ZenonT(40), <1>1, <2>1, NextIs, Gained DEF CreateService, SchedulerInv, CountedInv
  <2>3. CallInv' /\ ~faulted'
    BY <1>1, <2>1, NextIs DEF CreateService, SchedulerInv, CallInv
  <2> QED
    BY <1>1, <2>1, <2>2, <2>3, Within DEF CreateService
<1>2. CASE QueryInterface
  <2>1. references["unknown"] = 1 /\ references["service"] = 0 /\ Through("unknown")
    BY <1>2 DEF QueryInterface, SchedulerInv, CountedInv
  <2> DEFINE less == references["unknown"] - 1
             more == references["service"] + 1
  <2>2. less = 0 /\ more = 1
    BY <2>1
  <2>3. PICK call \in {"connect", "close"} :
          /\ NextCall(call)
          /\ call = "connect" => references' = [references EXCEPT !["unknown"] = less, !["service"] = more]
          /\ call = "close" => references' = [references EXCEPT !["unknown"] = less]
    BY <1>2 DEF QueryInterface
  <2> HIDE DEF less, more
  <2>4. references' \in [Interface -> {0, 1}]
    BY ZenonT(40), <2>2, <2>3 DEF SchedulerInv
  <2>5. /\ references'["unknown"] = 0 /\ references'["service"] = IF call = "connect" THEN 1 ELSE 0
        /\ \A j \in Interface \ {"unknown", "service"} : references'[j] = references[j]
    BY <2>1, <2>2, <2>3 DEF SchedulerInv
  <2>6. CountedInv' /\ CallInv'
    BY <1>2, <2>3, <2>5, NextIs DEF QueryInterface, SchedulerInv, CountedInv, CallInv
  <2>7. ~faulted'
    BY <1>2, <2>1, HeldCounted DEF QueryInterface
  <2> QED
    BY <1>2, <2>3, <2>4, <2>6, <2>7, Within DEF QueryInterface
<1>3. CASE ConnectService \/ DropTask \/ HaltTask \/ TaskState
  <2>1. PICK call \in {"folder", "close", "release task"} :
          /\ NextCall(call) /\ UNCHANGED <<apartment, borrowed, references, uninitialize, operations>>
          /\ call = "folder" => Calling("connect")
          /\ Calling("connect") => call \in {"folder", "close"}
          /\ Calling("delete") => call = "close"
          /\ call = "release task" => operation.call \in {"halt", "state"}
          /\ operation.call \in {"halt", "state"} => call = "release task"
    BY <1>3 DEF ConnectService, DropTask, HaltTask, TaskState
  <2>2. operation.call \in {"connect", "delete", "halt", "state"}
    BY <1>3 DEF ConnectService, DropTask, HaltTask, TaskState
  <2>3. PICK i \in Interface : references[i] = 1 /\ Through(i)
    BY <1>3 DEF ConnectService, DropTask, HaltTask, TaskState, SchedulerInv, CountedInv
  <2>4. ~faulted'
    BY <2>2, <2>3, HeldCounted
  <2>5. CountedInv' /\ CallInv'
    BY <2>1, <2>2, NextIs DEF SchedulerInv, CountedInv, CallInv
  <2>6. references' \in [Interface -> {0, 1}]
    BY <2>1 DEF SchedulerInv
  <2> QED
    BY <2>1, <2>2, <2>4, <2>5, <2>6, Within
<1>4. CASE GetFolder
  <2>1. Calling("folder") /\ references["service"] = 1 /\ references["root"] = 0 /\ Through("service") /\ operation.does \in Does
    BY <1>4 DEF GetFolder, SchedulerInv, CountedInv, CallInv
  <2>2. PICK call \in {"register", "delete", "task", "close"} :
          /\ NextCall(call)
          /\ call = "close" => UNCHANGED references
          /\ call # "close" =>
               Gain("root") /\ call = IF operation.does \in {"register", "delete"} THEN operation.does ELSE "task"
    BY <1>4 DEF GetFolder, Obtains
  <2>3. /\ references' \in [Interface -> {0, 1}] /\ (Gain("root") => references'["root"] = 1)
        /\ \A j \in Interface \ {"root"} : references'[j] = references[j]
    BY <2>1, <2>2, Gained DEF SchedulerInv
  <2>4. CountedInv'
    BY ZenonT(40), <2>1, <2>2, <2>3, NextIs DEF SchedulerInv, CountedInv
  <2>5. CallInv' /\ ~faulted'
    BY <2>1, <2>2, NextIs, HeldCounted DEF CallInv
  <2> QED
    BY <1>4, <2>2, <2>3, <2>4, <2>5, Within DEF GetFolder
<1>5. CASE RegisterTask
  <2>1. Calling("register") /\ references["root"] = 1 /\ references["answer"] = 0 /\ Through("root") /\ operation.does = "register"
    BY <1>5 DEF RegisterTask, SchedulerInv, CountedInv, CallInv
  <2>2. PICK call \in {"release answer", "close"} :
          /\ NextCall(call) /\ (call = "close" => UNCHANGED references) /\ (call # "close" => Gain("answer"))
    BY <1>5 DEF RegisterTask, Obtains
  <2>3. /\ references' \in [Interface -> {0, 1}] /\ (Gain("answer") => references'["answer"] = 1)
        /\ \A j \in Interface \ {"answer"} : references'[j] = references[j]
    BY <2>1, <2>2, Gained DEF SchedulerInv
  <2>4. CountedInv'
    BY ZenonT(40), <2>1, <2>2, <2>3, NextIs DEF SchedulerInv, CountedInv
  <2>5. CallInv' /\ ~faulted'
    BY <2>1, <2>2, NextIs, HeldCounted DEF CallInv
  <2> QED
    BY <1>5, <2>2, <2>3, <2>4, <2>5, Within DEF RegisterTask
<1>6. CASE GetTask
  <2>1. Calling("task") /\ references["root"] = 1 /\ references["task"] = 0 /\ Through("root") /\ operation.does \in {"run", "halt", "state"}
    BY <1>6 DEF GetTask, SchedulerInv, CountedInv, CallInv
  <2>2. PICK call \in {"run", "halt", "state", "close"} :
          /\ NextCall(call) /\ (call = "close" => UNCHANGED references)
          /\ (call # "close" => Gain("task") /\ call = operation.does)
    BY <1>6, <2>1 DEF GetTask, Obtains
  <2>3. /\ references' \in [Interface -> {0, 1}] /\ (Gain("task") => references'["task"] = 1)
        /\ \A j \in Interface \ {"task"} : references'[j] = references[j]
    BY <2>1, <2>2, Gained DEF SchedulerInv
  <2>4. CountedInv'
    BY ZenonT(40), <2>1, <2>2, <2>3, NextIs DEF SchedulerInv, CountedInv
  <2>5. CallInv' /\ ~faulted'
    BY <2>1, <2>2, NextIs, HeldCounted DEF CallInv
  <2> QED
    BY <1>6, <2>2, <2>3, <2>4, <2>5, Within DEF GetTask
<1>7. CASE RunTask
  <2>1. Calling("run") /\ references["task"] = 1 /\ references["answer"] = 0 /\ Through("task") /\ operation.does = "run"
    BY <1>7 DEF RunTask, SchedulerInv, CountedInv, CallInv
  <2>2. PICK call \in {"release answer", "release task"} :
          /\ NextCall(call) /\ (call = "release task" => UNCHANGED references)
          /\ (call = "release answer" => Gain("answer"))
    BY <1>7 DEF RunTask, Obtains
  <2>3. /\ references' \in [Interface -> {0, 1}] /\ (Gain("answer") => references'["answer"] = 1)
        /\ \A j \in Interface \ {"answer"} : references'[j] = references[j]
    BY <2>1, <2>2, Gained DEF SchedulerInv
  <2>4. CountedInv'
    BY ZenonT(40), <2>1, <2>2, <2>3, NextIs DEF SchedulerInv, CountedInv
  <2>5. CallInv' /\ ~faulted'
    BY <2>1, <2>2, NextIs, HeldCounted DEF CallInv
  <2> QED
    BY <1>7, <2>2, <2>3, <2>4, <2>5, Within DEF RunTask
<1>8. CASE ReleaseAnswer
  <2>1. Calling("release answer") /\ references["answer"] = 1 /\ operation.does \in {"register", "run"}
    BY <1>8 DEF ReleaseAnswer, SchedulerInv, CountedInv, CallInv
  <2>2. PICK call \in {"release task", "close"} :
          NextCall(call) /\ LetGo("answer") /\ (operation.does = "run" <=> call = "release task")
    BY <1>8 DEF ReleaseAnswer
  <2>3. /\ references' \in [Interface -> {0, 1}] /\ references'["answer"] = 0 /\ Through("answer")
        /\ \A j \in Interface \ {"answer"} : references'[j] = references[j]
    BY <2>1, <2>2, Lost DEF SchedulerInv
  <2>4. CountedInv'
    BY ZenonT(40), <2>1, <2>2, <2>3, NextIs DEF SchedulerInv, CountedInv
  <2>5. CallInv' /\ ~faulted'
    BY <2>1, <2>2, <2>3, NextIs, HeldCounted DEF CallInv
  <2> QED
    BY <1>8, <2>2, <2>3, <2>4, <2>5, Within DEF ReleaseAnswer
<1>9. CASE ReleaseTask
  <2>1. Calling("release task") /\ references["task"] = 1 /\ operation.does \in Does
    BY <1>9 DEF ReleaseTask, SchedulerInv, CountedInv, CallInv
  <2>2. PICK call \in {"close"} : NextCall(call) /\ LetGo("task")
    BY <1>9 DEF ReleaseTask
  <2>3. /\ references' \in [Interface -> {0, 1}] /\ references'["task"] = 0 /\ Through("task")
        /\ \A j \in Interface \ {"task"} : references'[j] = references[j]
    BY <2>1, <2>2, Lost DEF SchedulerInv
  <2>4. CountedInv'
    BY <2>1, <2>2, <2>3, NextIs DEF SchedulerInv, CountedInv
  <2>5. CallInv' /\ ~faulted'
    BY <2>1, <2>2, <2>3, NextIs, HeldCounted DEF CallInv
  <2> QED
    BY <1>9, <2>2, <2>3, <2>4, <2>5, Within DEF ReleaseTask
<1>10. CASE CloseSession
  <2>1. PICK call \in {"none"} : NextCall(call)
    BY <1>10 DEF CloseSession
  <2>2. operation'.call = "none" /\ operation'.found = operation.found
    BY <2>1, NextIs
  <2>3. /\ references' \in [Interface -> {0, 1}] /\ \A i \in Interface : references'[i] = 0
        /\ UNCHANGED uninitialize /\ borrowed' = FALSE
    BY <1>10 DEF CloseSession, SchedulerInv, CountedInv
  <2>4. apartment.entered > 0 /\ apartment.entered \in Int /\ operation.found \in Int
        /\ apartment.entered = operation.found + Once(uninitialize)
    BY <1>10 DEF CloseSession, SchedulerInv, ApartmentInv
  <2>5. apartment' \in [mode : {"shut", "multi", "single"}, entered : Int] /\ apartment'.entered = operation.found
    <3> DEFINE less == apartment.entered - 1
    <3>1. apartment' = IF uninitialize THEN [apartment EXCEPT !.entered = less] ELSE apartment
      BY <1>10 DEF CloseSession, LeaveApartment
    <3>2. less \in Int /\ (uninitialize => less = operation.found)
      BY <2>4
    <3> HIDE DEF less
    <3>3. apartment \in [mode : {"shut", "multi", "single"}, entered : Int] /\ uninitialize \in BOOLEAN
      BY DEF SchedulerInv
    <3>4. CASE uninitialize
      BY <3>1, <3>2, <3>3, <3>4
    <3>5. CASE ~uninitialize
      BY <2>4, <3>1, <3>3, <3>5
    <3> QED
      BY <3>3, <3>4, <3>5
  <2>6. ~faulted'
    <3>1. \A i \in {"root", "service"} : references[i] > 0 => Serving(i)
      BY <2>4 DEF Serving
    <3> QED
      BY <1>10, <3>1 DEF CloseSession, SchedulerInv
  <2>7. CountedInv' /\ CallInv' /\ ApartmentInv'
    BY <2>2, <2>3, <2>5 DEF CountedInv, CallInv, ApartmentInv
  <2> QED
    BY <2>1, <2>2, <2>3, <2>5, <2>6, <2>7, NextIs DEF SchedulerInv
<1>11. CASE WithSession
  <2>1. PICK does \in Does, mode \in {"shut", "multi", "single"} :
          /\ apartment' = [mode |-> mode, entered |-> IF mode = "shut" THEN 0 ELSE 1]
          /\ operation' = [does |-> does, call |-> "initialize", found |-> apartment'.entered]
          /\ UNCHANGED <<references, uninitialize, faulted>> /\ borrowed' = TRUE
    BY <1>11 DEF WithSession
  <2>2. /\ apartment' \in [mode : {"shut", "multi", "single"}, entered : Int]
        /\ operation' \in [does : Does \cup {"nothing"}, call : TaskCalls, found : Int]
        /\ operation'.call = "initialize" /\ operation'.does \in Does /\ operation'.found = apartment'.entered
        /\ apartment'.entered = IF apartment'.mode = "shut" THEN 0 ELSE 1
    BY <2>1
  <2>3. CallInv' /\ ApartmentInv'
    BY <2>2 DEF CallInv, ApartmentInv
  <2>4. CountedInv'
    <3>1. Calling("none") /\ UNCHANGED references
      BY <1>11 DEF WithSession
    <3>2. ~Calling("close")' /\ operation'.call = "initialize"
      BY <2>2
    <3> QED
      BY <3>1, <3>2 DEF SchedulerInv, CountedInv
  <2>5. uninitialize' \in BOOLEAN /\ borrowed' \in BOOLEAN /\ ~faulted' /\ references' \in [Interface -> {0, 1}]
    BY <2>1 DEF SchedulerInv
  <2> QED
    BY <2>2, <2>3, <2>4, <2>5 DEF SchedulerInv
<1>12. CASE CoInitialize
  <2>1. PICK call \in {"create", "none"} : NextCall(call) /\ (call = "none" => apartment.mode = "shut")
    BY <1>12 DEF CoInitialize
  <2>2. /\ apartment.entered = operation.found
        /\ apartment.entered = IF apartment.mode = "shut" THEN 0 ELSE 1
        /\ apartment.entered \in Int /\ operation.found \in Int
    BY <1>12 DEF CoInitialize, SchedulerInv, ApartmentInv
  <2>3. CASE call = "none"
    <3>1. UNCHANGED <<uninitialize, apartment, references, faulted>> /\ borrowed' = FALSE
      BY <1>12, <2>1, <2>3, NextIs DEF CoInitialize, NextCall
    <3>2. CountedInv' /\ CallInv' /\ ApartmentInv'
      BY <1>12, <2>1, <2>2, <2>3, <3>1, NextIs DEF CoInitialize, SchedulerInv, CountedInv, CallInv, ApartmentInv
    <3> QED
      BY <2>1, <2>3, <3>1, <3>2, NextIs DEF SchedulerInv
  <2>4. CASE call = "create"
    <3> DEFINE more == apartment.entered + 1
    <3>1. /\ uninitialize' = (apartment.mode # "single") /\ UNCHANGED <<references, faulted, borrowed>>
          /\ apartment' = IF apartment.mode = "single" THEN apartment ELSE [mode |-> "multi", entered |-> more]
      BY <1>12, <2>1, <2>4, NextIs DEF CoInitialize, NextCall
    <3>2. more \in Int /\ more = apartment.entered + 1
      BY <2>2
    <3> HIDE DEF more
    <3>3. /\ apartment' \in [mode : {"shut", "multi", "single"}, entered : Int] /\ uninitialize' \in BOOLEAN
          /\ apartment'.entered = IF uninitialize' THEN more ELSE apartment.entered
          /\ ~uninitialize' => apartment.mode = "single"
      BY <3>1, <3>2 DEF SchedulerInv
    <3>4. operation'.call = "create" /\ operation'.found = operation.found
      BY <2>1, <2>4, NextIs
    <3>5. apartment'.entered = operation'.found + Once(uninitialize') /\ apartment'.entered > 0
      <4>1. apartment.entered >= 0 /\ (apartment.mode = "single" => apartment.entered > 0)
        BY <2>2
      <4>2. CASE uninitialize'
        <5>1. apartment'.entered = more /\ more = operation.found + 1 /\ more > 0
          BY <2>2, <3>2, <3>3, <4>1, <4>2
        <5> QED
          BY <3>4, <4>2, <5>1
      <4>3. CASE ~uninitialize'
        <5>1. apartment'.entered = operation.found /\ operation.found > 0 /\ operation.found + 0 = operation.found
          BY <2>2, <3>3, <4>1, <4>3
        <5> QED
          BY <3>4, <4>3, <5>1
      <4> QED
        BY <4>2, <4>3
    <3>6. ApartmentInv'
      BY <3>4, <3>5 DEF ApartmentInv
    <3>7. CountedInv' /\ CallInv'
      BY <1>12, <2>1, <2>4, <3>1, NextIs DEF CoInitialize, SchedulerInv, CountedInv, CallInv
    <3> QED
      BY <2>1, <2>4, <3>1, <3>3, <3>6, <3>7, NextIs DEF SchedulerInv
  <2> QED
    BY <2>3, <2>4
<1>13. CASE UNCHANGED scheduler
  BY ZenonT(40), <1>13 DEF scheduler, SchedulerInv, CountedInv, CallInv, ApartmentInv
<1> QED
  BY <1>1, <1>2, <1>3, <1>4, <1>5, <1>6, <1>7, <1>8, <1>9, <1>10, <1>11, <1>12, <1>13 DEF SchedulerNext

LEMMA SchedulerInvInit == SchedulerInit => SchedulerInv
<1> SUFFICES ASSUME SchedulerInit PROVE SchedulerInv
  OBVIOUS
<1> USE DEF Calling, Once, Interface, Does, OverTask, OverFolder, OverService, TaskCalls
<1>1. operation.call = "none" /\ operation.does = "nothing" /\ operation.found = 0
  BY DEF SchedulerInit, NothingDone
<1>2. CountedInv /\ CallInv
  BY <1>1 DEF SchedulerInit, CountedInv, CallInv
<1>3. ApartmentInv
  BY <1>1 DEF SchedulerInit, ApartmentInv
<1>4. operation \in [does : Does \cup {"nothing"}, call : TaskCalls, found : Int]
  BY DEF SchedulerInit, NothingDone
<1>5. apartment \in [mode : {"shut", "multi", "single"}, entered : Int] /\ references \in [Interface -> {0, 1}]
  BY DEF SchedulerInit
<1>6. uninitialize = FALSE /\ borrowed = FALSE /\ faulted = FALSE
  BY DEF SchedulerInit
<1> QED
  BY <1>2, <1>3, <1>4, <1>5, <1>6 DEF SchedulerInv

LEMMA SchedulerInvReturned == SchedulerInv => SessionIsReturned
<1> SUFFICES ASSUME SchedulerInv PROVE SessionIsReturned
  OBVIOUS
<1>1. ASSUME Calling("none") PROVE \A i \in Interface : references[i] = 0
  BY <1>1 DEF SchedulerInv, CountedInv, Calling, Once, Interface, OverTask, OverFolder, OverService
<1>2. ASSUME Calling("none") PROVE apartment.entered = operation.found /\ ~borrowed
  BY <1>2 DEF SchedulerInv, ApartmentInv, Calling
<1> QED
  BY <1>1, <1>2 DEF SchedulerInv, SessionIsReturned

(* scheduler_com_windows.go: whichever call of whichever operation fails,  *)
(* on a thread of whatever apartment, nothing is called that is gone, and  *)
(* every interface, the apartment and the thread are given back once.      *)
THEOREM SessionReturned == SchedulerSpec => []SessionIsReturned
  BY SchedulerInvInit, SchedulerInvStep, SchedulerInvReturned, PTL DEF SchedulerSpec

----------------------------------------------------------------------------
(* Service *)

Installing == {"reload", "enable", "linger", "unload", "load", "helper"}
Dropping == {"drop helper", "remove program"}

ServiceTypeOK ==
  /\ host \in Manager /\ entry \in {"absent", "present", "torn"} /\ program \in {"absent", "whole"}
  /\ loaded \in BOOLEAN /\ up \in BOOLEAN
  /\ helper \in {"none", "on", "left"}
  /\ doing \in {NoCommand, "write entry", "disable", "remove entry"} \cup Installing \cup Dropping
  /\ announced \in {"", "failed", "installed", "still up", "uninstalled", "killed"}

(* An entry is written only for a program that is there, and the program   *)
(* is removed only once neither the entry nor the helper starts it.        *)
ServiceInv ==
  /\ ServiceTypeOK
  /\ doing \in {"write entry"} \cup Installing => program = "whole"
  /\ doing \in Installing => entry = "present"
  /\ doing \in Dropping => ~StartsAlone
  /\ doing = "remove program" => helper # "on"
  /\ doing # NoCommand => announced \in {"", "still up"}
  /\ RegistrationIsHonest

LEMMA ServiceInvStep == ServiceInv /\ [ServiceNext]_service => ServiceInv'
<1> SUFFICES ASSUME ServiceInv, [ServiceNext]_service PROVE ServiceInv'
  OBVIOUS
<1> USE DEF ServiceInv, ServiceTypeOK, RegistrationIsHonest, Installing, Dropping, NoCommand, Proceed, Fails
<1>1. CASE InstallBinary
  BY <1>1 DEF InstallBinary, StartsAlone
<1>2. CASE WriteEntry
  BY <1>2 DEF WriteEntry, StartsAlone
<1>3. CASE Reload
  BY <1>3 DEF Reload, TakeBack, StartsAlone
<1>4. CASE Enable
  BY <1>4 DEF Enable, TakeBack, StartsAlone
<1>5. CASE Linger
  BY <1>5 DEF Linger, TakeBack, StartsAlone
<1>6. CASE Unload
  <2>1. StartsAlone' => StartsAlone
    BY <1>6 DEF Unload, StartsAlone
  <2> QED
    BY <1>6, <2>1 DEF Unload
<1>7. CASE Bootstrap
  BY <1>7 DEF Bootstrap, TakeBack, StartsAlone
<1>8. CASE Register
  BY <1>8 DEF Register, StartsAlone
<1>9. CASE InstallHelper
  BY <1>9 DEF InstallHelper, HelperSet, StartsAlone
<1>10. CASE AskStatus
  BY <1>10 DEF AskStatus, StatusSays, StartsAlone
<1>11. CASE Disable
  <2>1. StartsAlone' => StartsAlone
    BY <1>11 DEF Disable, StartsAlone
  <2>2. ServiceTypeOK'
    BY <1>11 DEF Disable
  <2>3. RegistrationIsHonest'
    BY <1>11, <2>1 DEF Disable
  <2> HIDE DEF ServiceTypeOK, RegistrationIsHonest
  <2> QED
    BY <1>11, <2>1, <2>2, <2>3 DEF Disable
<1>12. CASE DeleteTask
  <2>1. StartsAlone' => StartsAlone
    BY <1>12 DEF DeleteTask, StartsAlone
  <2>2. doing' = "drop helper" => entry' = "absent"
    BY <1>12 DEF DeleteTask
  <2>3. doing' = "drop helper" => ~StartsAlone'
    BY <2>2 DEF StartsAlone
  <2> QED
    BY <1>12, <2>1, <2>3 DEF DeleteTask
<1>13. CASE RemoveEntry
  <2>1. (StartsAlone' => StartsAlone) /\ (doing' = "drop helper" => ~StartsAlone')
    BY <1>13 DEF RemoveEntry, StartsAlone
  <2> QED
    BY <1>13, <2>1 DEF RemoveEntry
<1>14. CASE DropHelper
  BY <1>14 DEF DropHelper, HelperRemoved, StartsAlone
<1>15. CASE UninstallBinary
  BY <1>15 DEF UninstallBinary, StartsAlone
<1>16. CASE StartService
  BY <1>16 DEF StartService, Startable, StartsAlone
<1>17. CASE StopService
  <2>1. StartsAlone' => StartsAlone
    BY <1>17 DEF StopService, StartsAlone
  <2> QED
    BY ZenonT(40), <1>17, <2>1 DEF StopService
<1>18. CASE Boot
  <2>1. StartsAlone' => StartsAlone
    BY <1>18 DEF Boot, StartsAlone
  <2> QED
    BY <1>18, <2>1 DEF Boot
<1>19. CASE KillCommand
  BY <1>19 DEF KillCommand, StartsAlone
<1>20. CASE UNCHANGED service
  <2>1. StartsAlone' => StartsAlone
    BY <1>20 DEF service, StartsAlone
  <2>2. ServiceTypeOK'
    BY ZenonT(40), <1>20 DEF service
  <2>3. RegistrationIsHonest'
    BY <1>20, <2>1 DEF service
  <2> HIDE DEF ServiceTypeOK, RegistrationIsHonest
  <2> QED
    BY <1>20, <2>1, <2>2, <2>3 DEF service
<1> QED
  BY <1>1, <1>2, <1>3, <1>4, <1>5, <1>6, <1>7, <1>8, <1>9, <1>10, <1>11, <1>12, <1>13, <1>14, <1>15,
     <1>16, <1>17, <1>18, <1>19, <1>20 DEF ServiceNext

(* install.go, runUninstall: whichever call of a manager fails, wherever a *)
(* command is killed and whatever the operator starts meanwhile, what      *)
(* starts by itself has its program, and a command left what it said.      *)
THEOREM RegistrationHonest == ServiceSpec => []RegistrationIsHonest
<1>1. ServiceInit => ServiceInv
  BY DEF ServiceInit, ServiceInv, ServiceTypeOK, RegistrationIsHonest, StartsAlone, Installing, Dropping, NoCommand
<1>2. ServiceInv => RegistrationIsHonest
  BY DEF ServiceInv
<1> QED
  BY <1>1, <1>2, ServiceInvStep, PTL DEF ServiceSpec

----------------------------------------------------------------------------
(* Webhook *)

Outcome == {"delivered", "refused", "unanswered", "cancelled"}
Queued == {pending[i] : i \in DOMAIN pending}

WebhookTypeOK ==
  /\ happened \in Nat /\ pending \in Seq(Nat) /\ posting \in Nat
  /\ posted \in Seq(Nat \X Outcome)
  /\ hook \in {"open", "closing", "cancelled", "closed"}

(* What was posted came before what is posted, that before what waits, and *)
(* nothing is ahead of what happened.                                      *)
InTurn ==
  /\ \A e \in wanted \cup dropped \cup Queued \cup Sent : e \in Nat /\ 1 <= e /\ e <= happened
  /\ posting <= happened
  /\ \A i, j \in DOMAIN pending : i < j => pending[i] < pending[j]
  /\ \A i \in DOMAIN pending : posting < pending[i]
  /\ \A i, j \in DOMAIN posted : i < j => posted[i][1] < posted[j][1]
  /\ \A i \in DOMAIN posted : /\ posting # NoEvent => posted[i][1] < posting
                              /\ \A j \in DOMAIN pending : posted[i][1] < pending[j]

WebhookInv ==
  /\ WebhookTypeOK /\ InTurn
  /\ hook = "closed" => posting = NoEvent /\ pending = <<>>
  /\ ~panicked /\ logged = wanted
  /\ wanted = Queued \cup ({posting} \ {NoEvent}) \cup Sent \cup dropped
  /\ (Queued \cup ({posting} \ {NoEvent}) \cup Sent) \cap dropped = {}
  /\ \A i \in DOMAIN posted : posted[i][2] = "cancelled" => hook \in {"cancelled", "closed"}

LEMMA Appended ==
  ASSUME NEW S, NEW s \in Seq(S), NEW e \in S
  PROVE  /\ Append(s, e) \in Seq(S) /\ DOMAIN s = 1 .. Len(s) /\ Len(s) \in Nat
         /\ DOMAIN Append(s, e) = 1 .. Len(s) + 1
         /\ \A i \in 1 .. Len(s) : Append(s, e)[i] = s[i]
         /\ Append(s, e)[Len(s) + 1] = e
  OBVIOUS

LEMMA Split ==
  ASSUME NEW S, NEW s \in Seq(S), s # <<>>
  PROVE  /\ Head(s) \in S /\ Tail(s) \in Seq(S) /\ DOMAIN s = 1 .. Len(s) /\ Len(s) \in Nat \ {0}
         /\ Head(s) = s[1] /\ DOMAIN Tail(s) = 1 .. Len(s) - 1
         /\ \A i \in 1 .. Len(s) - 1 : Tail(s)[i] = s[i + 1]
  OBVIOUS

LEMMA WebhookInvStep == WebhookInv /\ [WebhookNext]_webhook => WebhookInv'
<1> SUFFICES ASSUME WebhookInv, [WebhookNext]_webhook PROVE WebhookInv'
  OBVIOUS
<1> USE DEF WebhookTypeOK, NoEvent, sinks
<1>1. CASE Notify
  <2> DEFINE e == happened + 1
  <2>1. e \in Nat /\ \A n \in wanted \cup dropped \cup Queued \cup Sent : n # e /\ n < e
    BY DEF WebhookInv, InTurn
  <2>2. happened' = e /\ UNCHANGED <<posting, posted, hook>>
    BY <1>1 DEF Notify
  <2>3. CASE UNCHANGED <<wanted, logged, raised, pending, dropped, panicked>>
    <3>1. UNCHANGED <<Queued, Sent>>
      BY <2>2, <2>3 DEF Queued, Sent
    <3>2. InTurn'
      BY <2>1, <2>2, <2>3, <3>1 DEF WebhookInv, InTurn
    <3> QED
      BY <2>2, <2>3, <3>1, <3>2 DEF WebhookInv
  <2>4. CASE wanted' = wanted \cup {e} /\ logged' = logged \cup {e} /\ pending' = Append(pending, e)
             /\ hook = "open" /\ UNCHANGED <<dropped, panicked>>
    <3>1. /\ pending' \in Seq(Nat) /\ DOMAIN pending = 1 .. Len(pending) /\ Len(pending) \in Nat
          /\ DOMAIN pending' = 1 .. Len(pending) + 1
          /\ \A i \in 1 .. Len(pending) : pending'[i] = pending[i]
          /\ pending'[Len(pending) + 1] = e
      BY <2>1, <2>4, Appended DEF WebhookInv
    <3>2. Queued' = Queued \cup {e} /\ UNCHANGED Sent
      BY <2>2, <3>1 DEF Queued, Sent
    <3>3. \A i \in 1 .. Len(pending) : pending[i] \in Nat /\ 1 <= pending[i] /\ pending[i] < e
      BY <2>1, <3>1 DEF WebhookInv, InTurn, Queued
    <3> HIDE DEF e
    <3>a. e \in Nat /\ happened' = e /\ e = happened + 1
      BY <2>1, <2>2 DEF e
    <3>4. \A i, j \in DOMAIN pending' : i < j => pending'[i] < pending'[j]
      <4> SUFFICES ASSUME NEW i \in 1 .. Len(pending) + 1, NEW j \in 1 .. Len(pending) + 1, i < j
                   PROVE  pending'[i] < pending'[j]
        BY <3>1
      <4>1. CASE j = Len(pending) + 1
        <5>1. i \in 1 .. Len(pending)
          BY <4>1, <3>1
        <5>2. pending'[i] = pending[i] /\ pending[i] < e /\ pending'[j] = e
          BY <5>1, <4>1, <3>1, <3>3
        <5> QED
          BY <5>2
      <4>2. CASE j # Len(pending) + 1
        <5>1. i \in 1 .. Len(pending) /\ j \in 1 .. Len(pending)
          BY <4>2, <3>1
        <5>2. pending'[i] = pending[i] /\ pending'[j] = pending[j] /\ pending[i] < pending[j]
          BY <5>1, <3>1 DEF WebhookInv, InTurn
        <5> QED
          BY <5>2
      <4> QED
        BY <4>1, <4>2
    <3>5. \A i \in DOMAIN pending' : posting' < pending'[i]
      <4> SUFFICES ASSUME NEW j \in 1 .. Len(pending) + 1 PROVE posting < pending'[j]
        BY <2>2, <3>1
      <4>1. posting < e /\ posting \in Nat
        BY <3>a DEF WebhookInv, InTurn
      <4>2. CASE j = Len(pending) + 1
        BY <4>1, <4>2, <3>1
      <4>3. CASE j # Len(pending) + 1
        <5>1. j \in 1 .. Len(pending)
          BY <4>3, <3>1
        <5> QED
          BY <5>1, <3>1 DEF WebhookInv, InTurn
      <4> QED
        BY <4>2, <4>3
    <3>6. \A i \in DOMAIN posted' : \A j \in DOMAIN pending' : posted'[i][1] < pending'[j]
      <4> SUFFICES ASSUME NEW i \in DOMAIN posted, NEW j \in 1 .. Len(pending) + 1
                   PROVE  posted[i][1] < pending'[j]
        BY <2>2, <3>1
      <4>1. posted[i][1] < e
        BY <2>1 DEF Sent
      <4>2. CASE j = Len(pending) + 1
        BY <4>1, <4>2, <3>1
      <4>3. CASE j # Len(pending) + 1
        <5>1. j \in 1 .. Len(pending)
          BY <4>3, <3>1
        <5> QED
          BY <5>1, <3>1 DEF WebhookInv, InTurn
      <4> QED
        BY <4>2, <4>3
    <3>7. \A n \in (wanted \cup dropped \cup Queued \cup Sent)' : n \in Nat /\ 1 <= n /\ n <= happened'
      <4>1. (wanted \cup dropped \cup Queued \cup Sent)' = wanted \cup dropped \cup Queued \cup Sent \cup {e}
        BY <2>4, <3>2
      <4>2. \A n \in wanted \cup dropped \cup Queued \cup Sent : n \in Nat /\ 1 <= n /\ n <= happened
        BY DEF WebhookInv, InTurn
      <4>3. happened \in Nat
        BY DEF WebhookInv
      <4> QED
        <5> SUFFICES ASSUME NEW n \in wanted \cup dropped \cup Queued \cup Sent \cup {e}
                     PROVE  n \in Nat /\ 1 <= n /\ n <= e
          BY <4>1, <3>a
        <5>1. CASE n = e
          BY <5>1, <4>3, <3>a
        <5>2. CASE n # e
          BY <5>2, <4>2, <4>3, <3>a
        <5> QED
          BY <5>1, <5>2
    <3>8. /\ posting' <= happened'
          /\ \A i, j \in DOMAIN posted' : i < j => posted'[i][1] < posted'[j][1]
          /\ \A i \in DOMAIN posted' : posting' # NoEvent => posted'[i][1] < posting'
      <4>1. posting' <= happened'
        BY <2>2, <3>a DEF WebhookInv, InTurn
      <4> QED
        BY <4>1, <2>2 DEF WebhookInv, InTurn
    <3>9. InTurn'
      BY <3>4, <3>5, <3>6, <3>7, <3>8 DEF InTurn
    <3> QED
      BY <2>1, <2>2, <2>4, <3>1, <3>2, <3>9 DEF WebhookInv
  <2>5. CASE wanted' = wanted \cup {e} /\ logged' = logged \cup {e} /\ dropped' = dropped \cup {e}
             /\ UNCHANGED <<pending, panicked>>
    <3>1. UNCHANGED <<Queued, Sent>>
      BY <2>2, <2>5 DEF Queued, Sent
    <3>2. InTurn'
      BY <2>1, <2>2, <2>5, <3>1 DEF WebhookInv, InTurn
    <3> QED
      BY <2>1, <2>2, <2>5, <3>1, <3>2 DEF WebhookInv, InTurn
  <2> QED
    BY <1>1, <2>2, <2>3, <2>4, <2>5 DEF Notify, Tell, Enqueue
<1>2. CASE TakeEvent
  <2>1. /\ posting = 0 /\ pending # <<>> /\ posting' = Head(pending) /\ pending' = Tail(pending)
        /\ UNCHANGED <<posted, dropped, hook, panicked, happened, wanted, logged>>
    BY <1>2 DEF TakeEvent
  <2>2. /\ posting' \in Nat /\ pending' \in Seq(Nat) /\ DOMAIN pending = 1 .. Len(pending)
        /\ Len(pending) \in Nat \ {0} /\ posting' = pending[1] /\ DOMAIN pending' = 1 .. Len(pending) - 1
        /\ \A i \in 1 .. Len(pending) - 1 : pending'[i] = pending[i + 1]
    BY <2>1, Split DEF WebhookInv
  <2>3. /\ Queued = Queued' \cup {posting'} /\ UNCHANGED Sent
        /\ posting' >= 1 /\ posting' <= happened
    <3>1. posting' \in Queued /\ Queued' \subseteq Queued /\ UNCHANGED Sent
      <4>1. \A i \in 1 .. Len(pending) - 1 : i + 1 \in 1 .. Len(pending)
        BY <2>2
      <4> QED
        BY <2>1, <2>2, <4>1 DEF Queued, Sent
    <3>2. Queued \subseteq Queued' \cup {posting'}
      <4> SUFFICES ASSUME NEW i \in 1 .. Len(pending), i # 1 PROVE pending[i] \in Queued'
        BY <2>2 DEF Queued
      <4>1. i - 1 \in 1 .. Len(pending) - 1 /\ (i - 1) + 1 = i
        BY <2>2
      <4>2. pending'[i - 1] = pending[i]
        BY <2>2, <4>1
      <4> QED
        BY <4>1, <4>2, <2>2 DEF Queued
    <3> QED
      BY <3>1, <3>2, <2>1 DEF WebhookInv, InTurn
  <2>4. \A i \in DOMAIN pending' : i + 1 \in DOMAIN pending /\ pending'[i] = pending[i + 1]
    BY <2>2
  <2>5. \A i, j \in DOMAIN pending' : i < j => pending'[i] < pending'[j]
    <3> SUFFICES ASSUME NEW i \in DOMAIN pending', NEW j \in DOMAIN pending', i < j
                 PROVE  pending'[i] < pending'[j]
      OBVIOUS
    <3>1. i + 1 < j + 1
      BY <2>2
    <3> QED
      BY <3>1, <2>4 DEF WebhookInv, InTurn
  <2>6. \A i \in DOMAIN pending' : posting' < pending'[i]
    <3> SUFFICES ASSUME NEW i \in DOMAIN pending' PROVE posting' < pending'[i]
      OBVIOUS
    <3>1. 1 < i + 1 /\ 1 \in DOMAIN pending
      BY <2>2
    <3> QED
      BY <3>1, <2>2, <2>4 DEF WebhookInv, InTurn
  <2>7. \A i \in DOMAIN posted' : /\ posted'[i][1] < posting'
                                  /\ \A j \in DOMAIN pending' : posted'[i][1] < pending'[j]
    <3>1. 1 \in DOMAIN pending
      BY <2>2
    <3> QED
      BY <3>1, <2>1, <2>2, <2>4 DEF WebhookInv, InTurn
  <2>8. InTurn'
    <3>1. (wanted \cup dropped \cup Queued \cup Sent)' \subseteq wanted \cup dropped \cup Queued \cup Sent
      BY <2>1, <2>3
    <3>2. \A n \in (wanted \cup dropped \cup Queued \cup Sent)' : n \in Nat /\ 1 <= n /\ n <= happened'
      BY <3>1, <2>1 DEF WebhookInv, InTurn
    <3>3. \A i, j \in DOMAIN posted' : i < j => posted'[i][1] < posted'[j][1]
      BY <2>1 DEF WebhookInv, InTurn
    <3>4. posting' <= happened'
      BY <2>1, <2>3
    <3> QED
      BY <3>2, <3>3, <3>4, <2>5, <2>6, <2>7 DEF InTurn
  <2>9. posting' # 0 /\ posting \in {0}
    BY <2>1, <2>2, <2>3
  <2>10. WebhookTypeOK'
    BY <2>1, <2>2 DEF WebhookInv
  <2>11. (hook = "closed" => posting = NoEvent /\ pending = <<>>)'
    BY <2>1 DEF WebhookInv
  <2>12. (wanted = Queued \cup ({posting} \ {NoEvent}) \cup Sent \cup dropped)'
    BY <2>1, <2>3, <2>9 DEF WebhookInv
  <2>13. ((Queued \cup ({posting} \ {NoEvent}) \cup Sent) \cap dropped = {})'
    BY <2>1, <2>3, <2>9 DEF WebhookInv
  <2>14. (~panicked /\ logged = wanted)' /\
         (\A i \in DOMAIN posted : posted[i][2] = "cancelled" => hook \in {"cancelled", "closed"})'
    BY <2>1 DEF WebhookInv
  <2> QED
    BY <2>8, <2>10, <2>11, <2>12, <2>13, <2>14 DEF WebhookInv
<1>3. ASSUME NEW how \in Outcome, EndPost(how), posting # NoEvent,
             how = "cancelled" => hook = "cancelled"
      PROVE  WebhookInv'
  <2> DEFINE ended == <<posting, how>>
  <2>1. /\ posted' = Append(posted, ended) /\ posting' = 0
        /\ UNCHANGED <<pending, dropped, hook, panicked, happened, wanted, logged>>
    BY <1>3 DEF EndPost
  <2>2. ended \in Nat \X Outcome /\ ended[1] = posting /\ ended[2] = how
    BY DEF WebhookInv
  <2> HIDE DEF ended
  <2>3. /\ posted' \in Seq(Nat \X Outcome) /\ DOMAIN posted = 1 .. Len(posted) /\ Len(posted) \in Nat
        /\ DOMAIN posted' = 1 .. Len(posted) + 1
        /\ \A i \in 1 .. Len(posted) : posted'[i] = posted[i]
        /\ posted'[Len(posted) + 1] = ended
    BY <2>1, <2>2, Appended DEF WebhookInv
  <2>4. Sent' = Sent \cup {posting} /\ UNCHANGED Queued
    <3>1. UNCHANGED Queued
      BY <2>1 DEF Queued
    <3>2. Sent \subseteq Sent'
      BY <2>3 DEF Sent
    <3>3. posting \in Sent'
      BY <2>2, <2>3 DEF Sent
    <3>4. Sent' \subseteq Sent \cup {posting}
      <4> SUFFICES ASSUME NEW i \in 1 .. Len(posted) + 1 PROVE posted'[i][1] \in Sent \cup {posting}
        BY <2>3 DEF Sent
      <4>1. CASE i = Len(posted) + 1
        BY <4>1, <2>2, <2>3
      <4>2. CASE i # Len(posted) + 1
        <5>1. i \in 1 .. Len(posted)
          BY <4>2, <2>3
        <5> QED
          BY <5>1, <2>3 DEF Sent
      <4> QED
        BY <4>1, <4>2
    <3> QED
      BY <3>1, <3>2, <3>3, <3>4
  <2>5. \A i \in DOMAIN posted' : \/ i \in DOMAIN posted /\ posted'[i] = posted[i]
                                  \/ i = Len(posted) + 1 /\ posted'[i] = ended
    BY <2>3
  <2>6. \A i, j \in DOMAIN posted' : i < j => posted'[i][1] < posted'[j][1]
    <3> SUFFICES ASSUME NEW i \in DOMAIN posted', NEW j \in DOMAIN posted', i < j
                 PROVE  posted'[i][1] < posted'[j][1]
      OBVIOUS
    <3>1. i \in DOMAIN posted /\ posted'[i] = posted[i]
      BY <2>3
    <3>2. CASE j \in DOMAIN posted /\ posted'[j] = posted[j]
      BY <3>1, <3>2 DEF WebhookInv, InTurn
    <3>3. CASE j = Len(posted) + 1 /\ posted'[j] = ended
      BY <3>1, <3>3, <2>2, <1>3 DEF WebhookInv, InTurn
    <3> QED
      BY <2>5, <3>2, <3>3
  <2>7. \A i \in DOMAIN posted' : \A j \in DOMAIN pending' : posted'[i][1] < pending'[j]
    <3> SUFFICES ASSUME NEW i \in DOMAIN posted', NEW j \in DOMAIN pending
                 PROVE  posted'[i][1] < pending[j]
      BY <2>1
    <3>1. CASE i \in DOMAIN posted /\ posted'[i] = posted[i]
      BY <3>1 DEF WebhookInv, InTurn
    <3>2. CASE i = Len(posted) + 1 /\ posted'[i] = ended
      BY <3>2, <2>2 DEF WebhookInv, InTurn
    <3> QED
      BY <2>5, <3>1, <3>2
  <2>8. posting \in wanted /\ posting \in Nat /\ posting # 0
    BY <1>3 DEF WebhookInv
  <2>9. \A n \in (wanted \cup dropped \cup Queued \cup Sent)' : n \in Nat /\ 1 <= n /\ n <= happened'
    BY <2>1, <2>4, <2>8 DEF WebhookInv, InTurn
  <2>10. \A i, j \in DOMAIN pending' : i < j => pending'[i] < pending'[j]
    BY <2>1 DEF WebhookInv, InTurn
  <2>11. \A i \in DOMAIN pending' : posting' < pending'[i]
    <3> SUFFICES ASSUME NEW i \in DOMAIN pending PROVE 0 < pending[i]
      BY <2>1
    <3>1. pending[i] \in Queued
      BY DEF Queued
    <3> QED
      BY <3>1 DEF WebhookInv, InTurn
  <2>12. posting' <= happened'
    BY <2>1 DEF WebhookInv
  <2>13. InTurn'
    BY <2>6, <2>7, <2>9, <2>10, <2>11, <2>12, <2>1 DEF InTurn
  <2>14. (\A i \in DOMAIN posted : posted[i][2] = "cancelled" => hook \in {"cancelled", "closed"})'
    <3> SUFFICES ASSUME NEW i \in DOMAIN posted', posted'[i][2] = "cancelled"
                 PROVE  hook \in {"cancelled", "closed"}
      BY <2>1
    <3>1. CASE i \in DOMAIN posted /\ posted'[i] = posted[i]
      BY <3>1 DEF WebhookInv
    <3>2. CASE i = Len(posted) + 1 /\ posted'[i] = ended
      BY <3>2, <2>2, <1>3
    <3> QED
      BY <2>5, <3>1, <3>2
  <2>15. (wanted = Queued \cup ({posting} \ {NoEvent}) \cup Sent \cup dropped)'
    BY <2>1, <2>4, <2>8 DEF WebhookInv
  <2>16. ((Queued \cup ({posting} \ {NoEvent}) \cup Sent) \cap dropped = {})'
    BY <2>1, <2>4, <2>8 DEF WebhookInv
  <2>17. WebhookTypeOK'
    BY <2>1, <2>3 DEF WebhookInv
  <2>18. (hook = "closed" => posting = NoEvent /\ pending = <<>>)' /\ (~panicked /\ logged = wanted)'
    BY <2>1, <1>3 DEF WebhookInv
  <2> QED
    BY <2>13, <2>14, <2>15, <2>16, <2>17, <2>18 DEF WebhookInv
<1>4. CASE ReceiverAnswers \/ TimeOut \/ Cancelled
  <2>1. PICK how \in Outcome : EndPost(how) /\ posting # NoEvent /\ (how = "cancelled" => hook = "cancelled")
    BY <1>4 DEF ReceiverAnswers, TimeOut, Cancelled, Outcome
  <2> QED
    BY <2>1, <1>3
<1>5. CASE UNCHANGED <<happened, wanted, logged, pending, posting, posted, dropped, panicked>>
           /\ hook' \in {hook, "closing", "cancelled", "closed"}
           /\ (hook' = "closing" => hook \in {"open", "closing"})
           /\ (hook' = "closed" => hook = "closed" \/ Drained)
  <2>1. UNCHANGED <<Queued, Sent>>
    BY <1>5 DEF Queued, Sent
  <2>2. InTurn'
    BY <1>5, <2>1 DEF WebhookInv, InTurn
  <2>3. WebhookTypeOK' /\ (hook = "closed" => posting = NoEvent /\ pending = <<>>)'
    BY <1>5 DEF WebhookInv, Drained
  <2>4. \A i \in DOMAIN posted : posted[i][2] = "cancelled" => hook' \in {"cancelled", "closed"}
    BY <1>5 DEF WebhookInv
  <2> QED
    BY <1>5, <2>1, <2>2, <2>3, <2>4 DEF WebhookInv
<1>6. CASE CloseHook \/ Grace \/ UNCHANGED webhook
  BY <1>5, <1>6 DEF CloseHook, Grace, webhook
<1> QED
  BY <1>1, <1>2, <1>4, <1>6 DEF WebhookNext

LEMMA WebhookInvHonest == WebhookInv => EventsAreAccountedFor
<1> SUFFICES ASSUME WebhookInv PROVE EventsAreAccountedFor
  OBVIOUS
<1>1. Awaiting = Queued \cup ({posting} \ {NoEvent})
  <2>1. 0 \notin Queued
    BY DEF WebhookInv, InTurn
  <2> QED
    BY <2>1 DEF Awaiting, Queued, NoEvent
<1>2. Awaiting \cap Sent = {}
  <2> SUFFICES ASSUME NEW e \in Sent, e \in Awaiting PROVE FALSE
    OBVIOUS
  <2>1. PICK i \in DOMAIN posted : e = posted[i][1]
    BY DEF Sent
  <2>2. e \in Nat
    BY DEF WebhookInv, InTurn
  <2>3. CASE e \in Queued
    <3>1. PICK j \in DOMAIN pending : e = pending[j]
      BY <2>3 DEF Queued
    <3>2. posted[i][1] < pending[j]
      BY DEF WebhookInv, InTurn
    <3> QED
      BY <2>1, <2>2, <3>1, <3>2
  <2>4. CASE e = posting /\ posting # NoEvent
    <3>1. posted[i][1] < posting
      BY <2>4 DEF WebhookInv, InTurn
    <3> QED
      BY <2>1, <2>2, <2>4, <3>1
  <2>5. e \in Queued \/ (e = posting /\ posting # NoEvent)
    BY <1>1
  <2> QED
    BY <2>3, <2>4, <2>5
<1>3. hook = "closed" => Awaiting = {}
  BY DEF WebhookInv, Awaiting
<1> QED
  BY <1>1, <1>2, <1>3 DEF WebhookInv, InTurn, EventsAreAccountedFor

LEMMA WebhookInvInit == WebhookInit => WebhookInv
<1> SUFFICES ASSUME WebhookInit PROVE WebhookInv
  OBVIOUS
<1>1. Queued = {} /\ Sent = {}
  BY DEF WebhookInit, Queued, Sent
<1> QED
  BY <1>1 DEF WebhookInit, WebhookInv, WebhookTypeOK, InTurn, NoEvent

(* Each event the settings ask for is in the log and waits, was posted     *)
(* once and in its turn, or was dropped; none that waited is missing when  *)
(* the sink has closed, and no event takes the recorder down.              *)
THEOREM EventsAccountedFor == WebhookSpec => []EventsAreAccountedFor
<1>1. WebhookInit => WebhookInv
  BY WebhookInvInit
<1>2. WebhookInv /\ [WebhookNext]_webhook => WebhookInv'
  BY WebhookInvStep
<1>3. WebhookInv => EventsAreAccountedFor
  BY WebhookInvHonest
<1> QED
  BY <1>1, <1>2, <1>3, PTL DEF WebhookSpec

----------------------------------------------------------------------------
(* Screen *)

(* A reload under way that nothing was asked for behind is of what is      *)
(* selected, as are the rows once nothing is under way.                    *)
GridInv ==
  /\ want \in View /\ want # NoView
  /\ loading = NoView /\ ~failed => onGrid = want
  /\ loading # NoView /\ ~reload => loading = want

(* At most one purge is under way, and its answer is awaited.              *)
TrashInv ==
  /\ trashing = [slot \in {1, 2} |-> trashing[slot]]
  /\ trashing[1] = {} \/ trashing[2] = {}
  /\ ~purging => trashing[1] = {} /\ trashing[2] = {}

ScreenInv == GridInv /\ TrashInv /\ selected \subseteq ranking

LEMMA NoViewIsNone == View # {} /\ NoView \notin View
<1>1. PICK m \in Month, c \in Channel : TRUE
  BY ScreenAssumption
<1>2. [month |-> m, channel |-> c] \in View
  BY <1>1 DEF View
<1>3. NoView \in View => NoView.month \in Month
  BY DEF View
<1> QED
  BY <1>2, <1>3, ScreenAssumption DEF NoView

LEMMA ScreenInvInit == ScreenInit => ScreenInv
<1> SUFFICES ASSUME ScreenInit PROVE ScreenInv
  OBVIOUS
<1>1. want \in View /\ want # NoView
  BY NoViewIsNone DEF ScreenInit
<1> QED
  BY <1>1 DEF ScreenInit, ScreenInv, GridInv, TrashInv

LEMMA RefreshKeeps ==
  ASSUME GridInv, NEW view \in View, want' = view, Refresh(view), UNCHANGED <<onGrid, failed>>
  PROVE  GridInv'
  BY NoViewIsNone DEF GridInv, Refresh

LEMMA ScreenInvStep == ScreenInv /\ [ScreenNext]_screen => ScreenInv'
<1> SUFFICES ASSUME ScreenInv, [ScreenNext]_screen PROVE ScreenInv'
  OBVIOUS
<1>0. GridInv /\ TrashInv /\ selected \subseteq ranking /\ want \in View
  BY DEF ScreenInv, GridInv
<1>1. ASSUME UNCHANGED grid PROVE GridInv'
  BY <1>0, <1>1 DEF GridInv, grid
<1>2. ASSUME UNCHANGED <<trashing, purging>> PROVE TrashInv'
  BY <1>0, <1>2 DEF TrashInv
<1>3. ASSUME UNCHANGED purge PROVE TrashInv' /\ (selected \subseteq ranking)'
  BY <1>0, <1>3 DEF TrashInv, purge
<1>4. CASE Grid
  <2>1. ASSUME Go PROVE GridInv'
    BY <2>1, <1>0, RefreshKeeps DEF Go
  <2>2. ASSUME Act PROVE GridInv'
    BY <2>2, <1>0, RefreshKeeps DEF Act
  <2>3. ASSUME ApplyLoaded PROVE GridInv'
    BY <2>3, <1>0 DEF ApplyLoaded, GridInv
  <2>4. UNCHANGED purge
    BY <1>4 DEF Grid, Go, Act, ApplyLoaded
  <2> QED
    BY <1>3, <1>4, <2>1, <2>2, <2>3, <2>4 DEF Grid, ScreenInv
<1>5. CASE UNCHANGED screen
  <2>1. UNCHANGED grid /\ UNCHANGED purge
    BY <1>5 DEF screen, grid, purge
  <2> QED
    BY <1>1, <1>3, <2>1 DEF ScreenInv
<1>6. CASE OpenPurge \/ Rank \/ ApplyCandidates \/ Toggle \/ ReloadRanking \/ Prompt \/ Escape \/ Elsewhere
  <2>1. UNCHANGED grid /\ UNCHANGED <<trashing, purging>>
    BY <1>6 DEF OpenPurge, Rank, ApplyCandidates, Toggle, ReloadRanking, Prompt, Escape, Elsewhere
  <2>2. (selected \subseteq ranking)'
    BY <1>0, <1>6 DEF OpenPurge, Rank, ApplyCandidates, DropSelection, Toggle, ReloadRanking, Prompt,
                      Escape, Elsewhere
  <2> QED
    BY <1>1, <1>2, <2>1, <2>2 DEF ScreenInv
<1>7. CASE Confirm
  <2>1. UNCHANGED grid /\ UNCHANGED <<ranking, selected>> /\ purging' = TRUE /\ ~purging
    BY <1>7 DEF Confirm, MayPurge
  <2>2. PICK slot \in DOMAIN trashing :
          trashing' = [trashing EXCEPT ![slot] = {"asked"} \cup (ranking \cap selected)]
    BY <1>7 DEF Confirm
  <2>3. TrashInv'
    <3>1. slot \in {1, 2} /\ trashing[1] = {} /\ trashing[2] = {}
      BY <1>0, <2>1 DEF TrashInv
    <3>2. trashing'[1] = {} \/ trashing'[2] = {}
      BY <1>0, <2>2, <3>1 DEF TrashInv
    <3>3. trashing' = [s \in {1, 2} |-> trashing'[s]]
      BY <1>0, <2>2 DEF TrashInv
    <3> QED
      BY <2>1, <3>2, <3>3 DEF TrashInv
  <2> QED
    BY <1>0, <1>1, <2>1, <2>3 DEF ScreenInv
<1>8. ASSUME NEW r \in Rec, Trash(r) PROVE ScreenInv'
  <2>1. UNCHANGED grid /\ UNCHANGED <<ranking, selected, purging>>
    BY <1>8 DEF Trash
  <2>2. PICK slot \in DOMAIN trashing :
          r \in trashing[slot] /\ trashing' = [trashing EXCEPT ![slot] = @ \ {r}]
    BY <1>8 DEF Trash
  <2>3. TrashInv'
    BY <1>0, <2>1, <2>2 DEF TrashInv
  <2> QED
    BY <1>0, <1>1, <2>1, <2>3 DEF ScreenInv
<1>9. CASE ApplyPurged
  <2>1. UNCHANGED <<ranking, selected, want, onGrid, failed>> /\ purging' = FALSE /\ Refresh(want)
    BY <1>9 DEF ApplyPurged
  <2>2. PICK slot \in DOMAIN trashing :
          trashing[slot] = {"asked"} /\ trashing' = [trashing EXCEPT ![slot] = {}]
    BY <1>9 DEF ApplyPurged
  <2>3. TrashInv'
    <3>1. slot \in {1, 2} /\ trashing[slot] # {}
      BY <1>0, <2>2 DEF TrashInv
    <3>2. trashing'[1] = {} /\ trashing'[2] = {}
      BY <1>0, <2>2, <3>1 DEF TrashInv
    <3>3. trashing' = [s \in {1, 2} |-> trashing'[s]]
      BY <1>0, <2>2 DEF TrashInv
    <3> QED
      BY <3>2, <3>3 DEF TrashInv
  <2> QED
    BY <1>0, <2>1, <2>3, RefreshKeeps DEF ScreenInv
<1> QED
  BY <1>4, <1>5, <1>6, <1>7, <1>8, <1>9 DEF ScreenNext, PurgePane

LEMMA ScreenInvHonest == ScreenInv => GridIsCurrent /\ PurgeIsDeliberate
<1> SUFFICES ASSUME ScreenInv PROVE GridIsCurrent /\ PurgeIsDeliberate
  OBVIOUS
<1>1. PICK slot \in {1, 2} : {s \in DOMAIN trashing : trashing[s] # {}} \subseteq {slot}
  BY DEF ScreenInv, TrashInv
<1>2. Cardinality({slot}) = 1 /\ IsFiniteSet({slot})
  BY FS_Singleton
<1>3. Cardinality({s \in DOMAIN trashing : trashing[s] # {}}) <= 1
  BY <1>1, <1>2, FS_Subset
<1> QED
  BY <1>3 DEF ScreenInv, GridInv, GridIsCurrent, PurgeIsDeliberate

(* An answer that comes late is shown where the operator is now, and what  *)
(* is purged is purged once and was chosen from the list as it stands.     *)
THEOREM ScreenCurrent == ScreenSpec => [](GridIsCurrent /\ PurgeIsDeliberate)
<1>1. ScreenInit => ScreenInv
  BY ScreenInvInit
<1>2. ScreenInv /\ [ScreenNext]_screen => ScreenInv'
  BY ScreenInvStep
<1>3. ScreenInv => GridIsCurrent /\ PurgeIsDeliberate
  BY ScreenInvHonest
<1> QED
  BY <1>1, <1>2, <1>3, PTL DEF ScreenSpec

----------------------------------------------------------------------------
(* Settings *)

ConfigName == ChannelName \cup {Unnamed}
AnyConfig == [sound : BOOLEAN, rows : Seq(ConfigName)]

FileCall == [kind : {"none", "load", "save"}, done : BOOLEAN, config : AnyConfig, failed : BOOLEAN]

SettingsInv ==
  /\ disk \in AnyConfig /\ editor \in AnyConfig
  /\ calls \in [1 .. Calls -> FileCall]
  /\ line \in [row : Int, of : ConfigName]
  /\ line = Closed \/ line.row >= 0
  /\ LineIsOverItsRow

LEMMA SettingsInvInit == SettingsInit => SettingsInv
<1> SUFFICES ASSUME SettingsInit PROVE SettingsInv
  OBVIOUS
<1>1. Config \subseteq AnyConfig
  <2> SUFFICES ASSUME NEW c \in Config PROVE c \in AnyConfig
    OBVIOUS
  <2>1. PICK n \in 0 .. MaxRows : c.rows \in [1 .. n -> ConfigName]
    BY DEF Config, ConfigName
  <2>2. c.rows \in Seq(ConfigName)
    BY <2>1 DEF MaxRows
  <2>3. c = [sound |-> c.sound, rows |-> c.rows] /\ c.sound \in BOOLEAN
    BY DEF Config
  <2> QED
    BY <2>2, <2>3 DEF AnyConfig
<1>2. disk \in Config
  BY ReadableAssumption DEF SettingsInit
<1> QED
  <2>1. Zero \in AnyConfig
    BY DEF Zero, AnyConfig
  <2>2. Closed \in [row : Int, of : ConfigName] /\ Closed.row = -1
    BY DEF Closed, ConfigName
  <2>3. calls \in [1 .. Calls -> FileCall]
    <3>1. calls = [slot \in 1 .. Calls |-> NoCall]
      BY DEF SettingsInit
    <3>2. NoCall \in FileCall
      BY <2>1 DEF NoCall, FileCall
    <3> QED
      BY <3>1, <3>2
  <2> QED
    <3>1. disk \in AnyConfig /\ editor = Zero /\ line = Closed
      BY <1>1, <1>2 DEF SettingsInit
    <3>2. LineIsOverItsRow
      BY <2>2, <3>1 DEF LineIsOverItsRow
    <3> QED
      BY <2>1, <2>2, <2>3, <3>1, <3>2 DEF SettingsInv

LEMMA CallsKept ==
  ASSUME SettingsInv, NEW call \in FileCall, Ask(call)
  PROVE  calls' \in [1 .. Calls -> FileCall]
<1> DEFINE free == CHOOSE slot \in FreeSlots : TRUE
<1>1. free \in 1 .. Calls /\ calls' = [calls EXCEPT ![free] = call]
  BY DEF Ask, FreeSlots
<1> QED
  BY <1>1 DEF SettingsInv

LEMMA SettingsInvStep == SettingsInv /\ [SettingsNext]_settings => SettingsInv'
<1> SUFFICES ASSUME SettingsInv, [SettingsNext]_settings PROVE SettingsInv'
  OBVIOUS
<1>0. /\ Zero \in AnyConfig /\ NoCall \in FileCall
      /\ Closed \in [row : Int, of : ConfigName] /\ ~(Closed.row > 0)
  BY DEF Zero, AnyConfig, NoCall, FileCall, Closed, ConfigName
<1>1. ASSUME line' = Closed PROVE /\ line' \in [row : Int, of : ConfigName] /\ LineIsOverItsRow'
                                 /\ (line = Closed \/ line.row >= 0)'
  BY <1>1, <1>0 DEF LineIsOverItsRow
<1>2. ASSUME UNCHANGED <<line, editor>> PROVE /\ line' \in [row : Int, of : ConfigName] /\ LineIsOverItsRow'
                                            /\ editor' \in AnyConfig /\ (line = Closed \/ line.row >= 0)'
  BY <1>2 DEF SettingsInv, LineIsOverItsRow
<1>3. ASSUME UNCHANGED calls
      PROVE  calls' \in [1 .. Calls -> FileCall]
  BY <1>3 DEF SettingsInv
<1>4. CASE OpenSettings \/ ReloadSettings \/ SaveSettings
  <2>1. UNCHANGED <<disk, editor, line>>
    BY <1>4 DEF OpenSettings, ReloadSettings, SaveSettings
  <2>2. [NoCall EXCEPT !.kind = "load"] \in FileCall
        /\ [NoCall EXCEPT !.kind = "save", !.config = editor] \in FileCall
    BY <1>0 DEF SettingsInv, NoCall, FileCall
  <2>3. calls' \in [1 .. Calls -> FileCall]
    BY <1>4, <2>2, CallsKept DEF OpenSettings, ReloadSettings, SaveSettings, AskLoad
  <2> QED
    BY <1>2, <2>1, <2>3 DEF SettingsInv
<1>5. CASE Leave \/ PressQ \/ PressCtrlC \/ UNCHANGED settings
  <2>1. UNCHANGED <<disk, editor, line, calls>>
    BY <1>5 DEF Leave, PressQ, PressCtrlC, settings
  <2> QED
    BY <1>2, <1>3, <2>1 DEF SettingsInv
<1>6. ASSUME NEW c \in AnyConfig, NEW s \in BOOLEAN
      PROVE  [c EXCEPT !.sound = s] \in AnyConfig /\ [c EXCEPT !.sound = s].rows = c.rows
  BY DEF AnyConfig
<1>7. CASE ChangeSelection
  <2>1. UNCHANGED <<disk, line, calls>> /\ line = Closed
    BY <1>7 DEF ChangeSelection, InPane, Key
  <2>2. editor' \in AnyConfig
    BY <1>6, <1>7 DEF ChangeSelection, Settle, SettingsInv
  <2> QED
    BY <1>1, <1>3, <2>1, <2>2 DEF SettingsInv
<1>8. CASE BeginEdit
  <2>1. UNCHANGED <<disk, editor, calls>>
    BY <1>8 DEF BeginEdit
  <2>2. CASE line' = [row |-> 0, of |-> Unnamed]
    BY <1>3, <2>1, <2>2 DEF SettingsInv, LineIsOverItsRow, ConfigName
  <2>3. ASSUME NEW i \in DOMAIN editor.rows, line' = [row |-> i, of |-> editor.rows[i]] PROVE SettingsInv'
    <3>1. i \in Nat /\ editor.rows[i] \in ConfigName
      BY DEF SettingsInv, AnyConfig
    <3> QED
      BY <1>3, <2>1, <2>3, <3>1 DEF SettingsInv, LineIsOverItsRow
  <2> QED
    BY <1>8, <2>2, <2>3 DEF BeginEdit
<1>9. CASE AddChannel
  <2>1. UNCHANGED <<disk, calls>> /\ line' = [row |-> Len(editor.rows) + 1, of |-> Unnamed]
        /\ editor' = [editor EXCEPT !.rows = Append(@, Unnamed)]
    BY <1>9 DEF AddChannel, Settle
  <2>2. editor.rows \in Seq(ConfigName) /\ Unnamed \in ConfigName
    BY DEF SettingsInv, AnyConfig, ConfigName
  <2>3. /\ Append(editor.rows, Unnamed) \in Seq(ConfigName) /\ Len(editor.rows) \in Nat
        /\ DOMAIN Append(editor.rows, Unnamed) = 1 .. Len(editor.rows) + 1
        /\ Append(editor.rows, Unnamed)[Len(editor.rows) + 1] = Unnamed
    BY <2>2, Appended
  <2>4. editor' \in AnyConfig /\ editor'.rows = Append(editor.rows, Unnamed)
    BY <2>1, <2>3 DEF SettingsInv, AnyConfig
  <2>5. line' \in [row : Int, of : ConfigName] /\ line'.row >= 0 /\ line'.row = Len(editor.rows) + 1
        /\ line'.of = Unnamed
    BY <2>1, <2>2, <2>3
  <2>6. LineIsOverItsRow'
    BY <2>3, <2>4, <2>5 DEF LineIsOverItsRow
  <2> QED
    BY <1>3, <2>1, <2>4, <2>5, <2>6 DEF SettingsInv
<1>10. CASE DeleteChannel
  <2>1. UNCHANGED <<disk, line, calls>> /\ line = Closed
    BY <1>10 DEF DeleteChannel, InPane, Key
  <2>2. PICK i \in DOMAIN editor.rows :
          editor' = [editor EXCEPT !.rows = SubSeq(@, 1, i - 1) \o SubSeq(@, i + 1, Len(@))]
    BY <1>10 DEF DeleteChannel, Settle
  <2>3. editor.rows \in Seq(ConfigName) /\ i \in 1 .. Len(editor.rows) /\ Len(editor.rows) \in Nat
    BY DEF SettingsInv, AnyConfig
  <2>4. SubSeq(editor.rows, 1, i - 1) \in Seq(ConfigName)
        /\ SubSeq(editor.rows, i + 1, Len(editor.rows)) \in Seq(ConfigName)
    BY <2>3, SubSeqProperties
  <2>5. SubSeq(editor.rows, 1, i - 1) \o SubSeq(editor.rows, i + 1, Len(editor.rows)) \in Seq(ConfigName)
    BY <2>4, ConcatProperties
  <2>6. editor' \in AnyConfig
    BY <2>2, <2>5 DEF SettingsInv, AnyConfig
  <2> QED
    BY <1>1, <1>3, <2>1, <2>6 DEF SettingsInv
<1>11. CASE CommitEdit \/ CancelEdit
  <2>1. UNCHANGED <<disk, calls>>
    BY <1>11 DEF CommitEdit, CancelEdit
  <2>2. CASE UNCHANGED <<line, editor>>
    BY <1>2, <1>3, <2>1, <2>2 DEF SettingsInv
  <2>3. CASE line' = Closed /\ editor' \in AnyConfig
    BY <1>1, <1>3, <2>1, <2>3 DEF SettingsInv
  <2>4. ASSUME NEW at \in DOMAIN editor.rows, NEW name \in ConfigName,
               editor' = [editor EXCEPT !.rows[at] = name]
        PROVE  editor' \in AnyConfig
    <3>1. [editor.rows EXCEPT ![at] = name] \in Seq(ConfigName)
      BY DEF SettingsInv, AnyConfig
    <3>2. editor' = [editor EXCEPT !.rows = [editor.rows EXCEPT ![at] = name]]
      BY <2>4
    <3> QED
      BY <3>1, <3>2 DEF SettingsInv, AnyConfig
  <2>5. CASE CancelEdit
    BY <2>3, <2>5 DEF CancelEdit, SettingsInv
  <2>6. ASSUME line' = Closed, NEW name \in ConfigName, EditChannel(line.row, name) PROVE SettingsInv'
    BY <2>3, <2>4, <2>6 DEF EditChannel, Settle, SettingsInv
  <2>7. ASSUME line' = Closed, NEW s \in BOOLEAN, Settle([editor EXCEPT !.sound = s]) PROVE SettingsInv'
    BY <1>6, <2>3, <2>7 DEF Settle, SettingsInv
  <2> QED
    BY <1>11, <2>2, <2>5, <2>6, <2>7 DEF CommitEdit, ConfigName
<1>12. CASE HandEdit
  <2>1. UNCHANGED <<editor, line, calls>>
    BY <1>12 DEF HandEdit
  <2>2. CASE disk' = [disk EXCEPT !.sound = ~@]
    <3>1. disk' \in AnyConfig
      BY <2>2 DEF SettingsInv, AnyConfig
    <3> QED
      BY <1>2, <1>3, <2>1, <3>1 DEF SettingsInv
  <2>3. CASE disk.rows # <<>> /\ disk' = [disk EXCEPT !.rows = Tail(@)]
    <3>1. Tail(disk.rows) \in Seq(ConfigName)
      BY <2>3 DEF SettingsInv, AnyConfig
    <3>2. disk' \in AnyConfig
      BY <2>3, <3>1 DEF SettingsInv, AnyConfig
    <3> QED
      BY <1>2, <1>3, <2>1, <3>2 DEF SettingsInv
  <2> QED
    BY <1>12, <2>2, <2>3 DEF HandEdit
<1>13. ASSUME NEW slot \in 1 .. Calls, ReadFile(slot) \/ WriteFile(slot) PROVE SettingsInv'
  <2>1. UNCHANGED <<editor, line>>
    BY <1>13 DEF ReadFile, WriteFile
  <2>2. disk' \in AnyConfig
    BY <1>13 DEF ReadFile, WriteFile, SettingsInv, FileCall
  <2>3. calls' \in [1 .. Calls -> FileCall]
    <3>1. calls[slot] \in FileCall
      BY DEF SettingsInv
    <3>2. ASSUME NEW call \in FileCall, calls' = [calls EXCEPT ![slot] = call]
          PROVE  calls' \in [1 .. Calls -> FileCall]
      BY <3>2 DEF SettingsInv
    <3>3. CASE ReadFile(slot)
      <4> DEFINE read == IF Valid(disk) THEN disk ELSE Zero
      <4>1. read \in AnyConfig /\ (~Valid(disk)) \in BOOLEAN
        BY <1>0 DEF SettingsInv
      <4> HIDE DEF read
      <4>2. [calls[slot] EXCEPT !.done = TRUE, !.failed = ~Valid(disk), !.config = read] \in FileCall
        BY <3>1, <4>1 DEF FileCall
      <4>3. calls' = [calls EXCEPT ![slot] =
                        [calls[slot] EXCEPT !.done = TRUE, !.failed = ~Valid(disk), !.config = read]]
        BY <3>3 DEF ReadFile, read, SettingsInv
      <4> QED
        BY <3>2, <4>2, <4>3
    <3>4. CASE calls' = [calls EXCEPT ![slot].done = TRUE]
      <4>1. [calls[slot] EXCEPT !.done = TRUE] \in FileCall
        BY <3>1 DEF FileCall
      <4> QED
        BY <3>2, <3>4, <4>1
    <3>5. CASE calls' = [calls EXCEPT ![slot].done = TRUE, ![slot].failed = TRUE]
      <4>1. [calls[slot] EXCEPT !.done = TRUE, !.failed = TRUE] \in FileCall
        BY <3>1 DEF FileCall
      <4>2. calls' = [calls EXCEPT ![slot] = [calls[slot] EXCEPT !.done = TRUE, !.failed = TRUE]]
        BY <3>5 DEF SettingsInv
      <4> QED
        BY <3>2, <4>1, <4>2
    <3> QED
      BY <1>13, <3>3, <3>4, <3>5 DEF WriteFile
  <2> QED
    BY <1>2, <2>1, <2>2, <2>3 DEF SettingsInv
<1>14. ASSUME NEW slot \in 1 .. Calls, ApplySettings(slot) \/ ApplySaved(slot) PROVE SettingsInv'
  <2>1. UNCHANGED disk
    BY <1>14 DEF ApplySettings, ApplySaved
  <2>2. calls' \in [1 .. Calls -> FileCall]
    <3>1. [NoCall EXCEPT !.kind = "load"] \in FileCall
      BY <1>0 DEF NoCall, FileCall
    <3> QED
      BY <1>0, <1>14, <3>1 DEF ApplySettings, ApplySaved, SettingsInv
  <2>3. CASE UNCHANGED <<line, editor>>
    BY <1>2, <2>1, <2>2, <2>3 DEF SettingsInv
  <2>4. CASE line' = Closed /\ editor' \in AnyConfig
    BY <1>1, <2>1, <2>2, <2>4 DEF SettingsInv
  <2>5. calls[slot].config \in AnyConfig
    BY DEF SettingsInv, FileCall
  <2> QED
    BY <1>14, <2>3, <2>4, <2>5 DEF ApplySettings, ApplySaved
<1> QED
  BY <1>4, <1>5, <1>7, <1>8, <1>9, <1>10, <1>11, <1>12, <1>13, <1>14 DEF SettingsNext

(* The row an open line stands over is the row it was opened over,         *)
(* whatever was read and written meanwhile.                                *)
THEOREM LineOverItsRow == SettingsSpec => []LineIsOverItsRow
<1>1. SettingsInit => SettingsInv
  BY SettingsInvInit
<1>2. SettingsInv /\ [SettingsNext]_settings => SettingsInv'
  BY SettingsInvStep
<1>3. SettingsInv => LineIsOverItsRow
  BY DEF SettingsInv
<1> QED
  BY <1>1, <1>2, <1>3, PTL DEF SettingsSpec

----------------------------------------------------------------------------
(* Setup *)

CommandStep == {"unstarted", "create", "ended", "open", "publish default", "set root", "publish root", "mark",
         "look for a database", "connect", "connect to read", "build schema", "migrate", "serving",
         "reading"}
AnyCommand == [at : CommandStep, does : {"", "init", "serve", "calendar", "config"}, root : Root \cup {NoRoot},
               build : Nat, owner : {Unmarked, "prod", "dev"}, force : BOOLEAN,
               expect : Root \cup {NoRoot}, seen : Root \cup {NoRoot}, version : Int]

Opening == {"create", "open", "mark", "look for a database", "connect", "connect to read",
            "build schema", "migrate", "serving", "reading", "set root", "publish root"}

(* What a command at each of its steps knows of the database it opens,     *)
(* where the databases' versions are as in versions.                       *)
CommandInv(c, versions) ==
  /\ c \in AnyCommand
  /\ c.at \in Opening => c.root \in Root /\ c.build \in 1 .. Schemas
  /\ c.at = "build schema" => versions[c.root] >= 0
  /\ c.at = "migrate" => c.version \in 1 .. c.build - 1 /\ versions[c.root] >= c.version
  /\ c.at = "serving" => versions[c.root] >= c.build
  /\ c.at = "publish root" => c.seen = c.expect

(* What was applied to a database is what its version says.                *)
Built(r) ==
  /\ applied[r] \in Seq(Nat) /\ schema[r] \in {NoFile} \cup Nat
  /\ \A i \in 1 .. Len(applied[r]) : applied[r][i] = i
  /\ Len(applied[r]) = IF schema[r] = NoFile THEN 0 ELSE schema[r]

SetupInv ==
  /\ config \in Root \cup {NoRoot, Absent}
  /\ DOMAIN schema = Root /\ DOMAIN applied = Root /\ \A r \in Root : Built(r)
  /\ command = [p \in Process |-> command[p]] /\ \A p \in Process : CommandInv(command[p], schema)

LEMMA OneCommand ==
  ASSUME SetupInv, NEW p \in Process, NEW c, command' = [command EXCEPT ![p] = c],
         CommandInv(c, schema'), config' \in Root \cup {NoRoot, Absent},
         DOMAIN schema' = Root, DOMAIN applied' = Root, \A r \in Root : Built(r)',
         \A r \in Root : schema'[r] >= schema[r]
  PROVE  SetupInv'
<1>1. ASSUME NEW q \in Process PROVE CommandInv(command'[q], schema')
  <2>1. CASE q = p
    BY <2>1 DEF SetupInv
  <2>2. CASE q # p
    <3> DEFINE d == command[q]
    <3>1. CommandInv(d, schema) /\ command'[q] = d
      BY <2>2 DEF SetupInv
    <3> HIDE DEF d
    <3>2. d.build \in Nat /\ d.version \in Int
      BY <3>1 DEF CommandInv, AnyCommand
    <3>3. CASE d.at \in Opening
      <4>1. d.root \in Root
        BY <3>1, <3>3 DEF CommandInv
      <4>2. schema[d.root] \in Int /\ schema'[d.root] \in Int /\ schema'[d.root] >= schema[d.root]
        BY <4>1 DEF SetupInv, Built, NoFile
      <4> DEFINE old == schema[d.root]
                 new == schema'[d.root]
      <4>3. old \in Int /\ new \in Int /\ new >= old
        BY <4>2
      <4>4. /\ d.at = "build schema" => old >= 0
            /\ d.at = "migrate" => d.version \in 1 .. d.build - 1 /\ old >= d.version
            /\ d.at = "serving" => old >= d.build
        BY <3>1 DEF CommandInv
      <4> HIDE DEF old, new
      <4>5. \A n \in Int : old >= n => new >= n
        BY <4>3
      <4>6. d.build \in Int
        BY <3>2
      <4>7. /\ d.at = "build schema" => new >= 0
            /\ d.at = "migrate" => d.version \in 1 .. d.build - 1 /\ new >= d.version
            /\ d.at = "serving" => new >= d.build
        <5>1. old >= 0 => new >= 0
          BY <4>5
        <5>2. old >= d.version => new >= d.version
          BY <3>2, <4>5
        <5>3. old >= d.build => new >= d.build
          BY <4>5, <4>6
        <5> QED
          BY <4>4, <5>1, <5>2, <5>3
      <4> QED
        BY <3>1, <4>7 DEF CommandInv, new
    <3>4. CASE d.at \notin Opening
      BY <3>1, <3>4 DEF CommandInv, Opening
    <3> QED
      BY <3>3, <3>4
  <2> QED
    BY <2>1, <2>2
<1> QED
  BY <1>1 DEF SetupInv

(* A step that leaves the databases alone.                                 *)
LEMMA OnlyTheCommand ==
  ASSUME SetupInv, NEW p \in Process, NEW c, command' = [command EXCEPT ![p] = c],
         CommandInv(c, schema), config' \in Root \cup {NoRoot, Absent}, UNCHANGED <<schema, applied>>
  PROVE  SetupInv'
<1>1. \A r \in Root : Built(r)'
  BY DEF SetupInv, Built
<1>2. \A r \in Root : schema'[r] >= schema[r]
  BY DEF SetupInv, Built, NoFile
<1> QED
  BY <1>1, <1>2, OneCommand DEF SetupInv

LEMMA UnstartedTyped == Unstarted \in AnyCommand /\ Unstarted.at = "unstarted"
<1>1. NoFile \in Int
  BY DEF NoFile
<1> QED
  BY <1>1 DEF AnyCommand, CommandStep, Unstarted

LEMMA BuildIsNat == Schemas \in Nat \ {0} /\ \A build \in 1 .. Schemas : build \in Nat
  BY SetupAssumption

LEMMA Started ==
  ASSUME SetupInv, NEW p \in Process, NEW does \in {"init", "serve", "calendar", "config"},
         NEW step \in {"create", "open", "publish default", "ended"}, NEW root \in Root \cup {NoRoot},
         NEW force \in BOOLEAN, Starts(p, does, step, root, force),
         step \in {"create", "open"} => root \in Root,
         config' \in Root \cup {NoRoot, Absent}, UNCHANGED <<schema, applied>>
  PROVE  SetupInv'
<1>1. PICK build \in Nat, owner \in {"prod", "dev"} :
        build \in 1 .. Schemas /\ command' = [command EXCEPT ![p] =
          [Unstarted EXCEPT !.at = step, !.does = does, !.root = root, !.build = build,
                            !.owner = owner, !.force = force, !.expect = ConfigRoot]]
  BY BuildIsNat DEF Starts
<1> DEFINE c == [Unstarted EXCEPT !.at = step, !.does = does, !.root = root, !.build = build,
                                  !.owner = owner, !.force = force, !.expect = ConfigRoot]
<1>2. command' = [command EXCEPT ![p] = c]
  BY <1>1
<1>a. step \in CommandStep
  BY DEF CommandStep
<1>c. owner \in {Unmarked, "prod", "dev"}
  BY <1>1
<1>3. ConfigRoot \in Root \cup {NoRoot}
  BY DEF SetupInv, ConfigRoot
<1>4. c \in AnyCommand /\ c.at = step /\ c.root = root /\ c.build = build
  BY ZenonT(40), <1>a, <1>c, <1>3, UnstartedTyped DEF AnyCommand
<1> HIDE DEF c
<1>5. CommandInv(c, schema)
  BY <1>1, <1>4 DEF CommandInv, Opening
<1> QED
  BY <1>2, <1>5, OnlyTheCommand

(* A command goes to a step that asks nothing of the database.             *)
LEMMA Gone ==
  ASSUME SetupInv, NEW p \in Process,
         NEW step \in CommandStep \ {"build schema", "migrate", "serving", "publish root"}, Goes(p, step),
         step \in Opening => command[p].at \in Opening,
         config' \in Root \cup {NoRoot, Absent}, UNCHANGED <<schema, applied>>
  PROVE  SetupInv'
<1> DEFINE c == [command[p] EXCEPT !.at = step]
<1>1. command' = [command EXCEPT ![p] = c]
  BY DEF Goes
<1>2. CommandInv(command[p], schema)
  BY DEF SetupInv
<1>3. c \in AnyCommand /\ c.at = step /\ c.root = command[p].root /\ c.build = command[p].build
  BY ZenonT(40), <1>2 DEF CommandInv, AnyCommand, CommandStep
<1> HIDE DEF c
<1>4. CommandInv(c, schema)
  BY <1>2, <1>3 DEF CommandInv
<1> QED
  BY <1>1, <1>4, OnlyTheCommand

(* What a command does once it knows a version that is there.              *)
LEMMA FoundVersion ==
  ASSUME SetupInv, NEW p \in Process, command[p].at \in Opening, NEW version \in Nat, Found(p, version),
         NEW versions, versions[command[p].root] \in Nat, versions[command[p].root] >= version
  PROVE  \E c : command' = [command EXCEPT ![p] = c] /\ CommandInv(c, versions)
<1> DEFINE b == command[p].build
           at == CASE version > command[p].build -> "ended"
                   [] version = 0 -> "build schema"
                   [] version \in 1 .. command[p].build - 1 -> "migrate"
                   [] version = command[p].build -> IF command[p].does = "init" THEN "set root" ELSE "serving"
           c == [command[p] EXCEPT !.version = version, !.at = at]
<1>1. CommandInv(command[p], schema) /\ b \in 1 .. Schemas /\ Schemas \in Nat
  BY SetupAssumption DEF SetupInv, CommandInv
<1>2. /\ at \in {"ended", "build schema", "migrate", "set root", "serving"}
      /\ at = "migrate" => version \in 1 .. b - 1
      /\ at = "serving" => version = b
  <2>1. version > b \/ version = 0 \/ version \in 1 .. b - 1 \/ version = b
    BY <1>1
  <2>2. CASE version > b
    BY <1>1, <2>2
  <2>3. CASE version = 0
    BY <1>1, <2>3
  <2>4. CASE version \in 1 .. b - 1
    BY <1>1, <2>4
  <2>5. CASE version = b
    BY <1>1, <2>5
  <2> QED
    BY <2>1, <2>2, <2>3, <2>4, <2>5
<1>a. command' = [command EXCEPT ![p].version = version, ![p].at = at]
  BY DEF Found
<1> HIDE DEF at
<1>3. command' = [command EXCEPT ![p] = c]
  BY <1>a DEF SetupInv
<1>b. command[p] \in AnyCommand /\ at \in CommandStep /\ version \in Int
  <2>1. command[p] \in AnyCommand
    BY <1>1 DEF CommandInv
  <2>2. at \in CommandStep
    BY <1>2 DEF CommandStep
  <2>3. version \in Int
    OBVIOUS
  <2> QED
    BY <2>1, <2>2, <2>3
<1>4. /\ c \in AnyCommand /\ c.at = at /\ c.version = version
      /\ c.root = command[p].root /\ c.build = b
  BY <1>b DEF AnyCommand
<1>5. command[p].root \in Root
  BY <1>1 DEF CommandInv
<1> HIDE DEF c, b
<1>6. CommandInv(c, versions)
  <2> DEFINE v == versions[command[p].root]
  <2>1. v \in Nat /\ v >= version
    OBVIOUS
  <2> HIDE DEF v
  <2>2. v >= 0
    BY <2>1
  <2>3. at = "migrate" => c.version \in 1 .. c.build - 1 /\ v >= c.version
    BY <1>2, <1>4, <2>1
  <2>4. at = "serving" => v >= c.build
    BY <1>2, <1>4, <2>1
  <2>5. v = versions[c.root] /\ c.root \in Root /\ c.build \in 1 .. Schemas
    BY <1>1, <1>4, <1>5 DEF v
  <2> QED
    BY <1>2, <1>4, <2>2, <2>3, <2>4, <2>5 DEF CommandInv
<1> QED
  BY <1>3, <1>6

(* A database gets the version that is next.                               *)
LEMMA AppliedNext ==
  ASSUME SetupInv, NEW p \in Process, command[p].at \in Opening, NEW version \in Nat \ {0},
         version <= Schemas, schema[command[p].root] = version - 1, Applies(p, version),
         UNCHANGED config
  PROVE  SetupInv'
<1>1. PICK r \in Root : r = command[p].root
  BY DEF SetupInv, CommandInv
<1>2. schema' = [schema EXCEPT ![r] = version] /\ applied' = [applied EXCEPT ![r] = Append(applied[r], version)]
      /\ Found(p, version)
  BY <1>1 DEF Applies
<1>3. /\ Built(r) /\ Len(applied[r]) = version - 1 /\ applied[r] \in Seq(Nat)
      /\ schema[r] = version - 1
  <2>1. Built(r) /\ schema[r] = version - 1
    BY <1>1 DEF SetupInv
  <2> QED
    BY <2>1 DEF Built, NoFile
<1>4. /\ Append(applied[r], version) \in Seq(Nat) /\ Len(Append(applied[r], version)) = version
      /\ \A i \in 1 .. version : Append(applied[r], version)[i] = i
  <2>1. \A i \in 1 .. version - 1 : applied[r][i] = i
    BY <1>3 DEF Built
  <2> QED
    BY SMTT(20), <1>3, <2>1
<1>5. Built(r)'
  <2>1. applied'[r] = Append(applied[r], version) /\ schema'[r] = version
    BY <1>1, <1>2 DEF SetupInv
  <2> QED
    BY <1>4, <2>1 DEF Built, NoFile
<1>6. DOMAIN schema' = Root /\ DOMAIN applied' = Root /\ \A q \in Root : Built(q)'
  <2>1. ASSUME NEW q \in Root, q # r PROVE Built(q)'
    BY <1>2, <2>1 DEF SetupInv, Built
  <2> QED
    BY <1>2, <1>5, <2>1 DEF SetupInv
<1>7. \A q \in Root : schema'[q] >= schema[q]
  <2>1. ASSUME NEW q \in Root, q # r PROVE schema'[q] >= schema[q]
    <3>1. schema'[q] = schema[q] /\ schema[q] \in Int
      BY <1>2, <2>1 DEF SetupInv, Built, NoFile
    <3> QED
      BY <3>1
  <2>2. schema'[r] >= schema[r]
    <3>1. schema'[r] = version /\ schema[r] = version - 1
      BY <1>1, <1>2, <1>3 DEF SetupInv
    <3> QED
      BY <3>1
  <2> QED
    BY <2>1, <2>2
<1>8. schema'[r] = version
  BY <1>1, <1>2 DEF SetupInv
<1>9. PICK c : command' = [command EXCEPT ![p] = c] /\ CommandInv(c, schema')
  <2>1. schema'[command[p].root] \in Nat /\ schema'[command[p].root] >= version
    BY <1>1, <1>8
  <2> QED
    BY <1>2, <2>1, FoundVersion
<1>10. config' \in Root \cup {NoRoot, Absent}
  BY DEF SetupInv
<1> QED
  BY <1>6, <1>7, <1>9, <1>10, OneCommand

(* A version that is there is found, and nothing is applied.               *)
LEMMA FoundOnly ==
  ASSUME SetupInv, NEW p \in Process, command[p].at \in Opening, NEW version \in Nat, Found(p, version),
         schema[command[p].root] \in Nat, schema[command[p].root] >= version,
         UNCHANGED <<config, schema, applied>>
  PROVE  SetupInv'
<1>1. PICK c : command' = [command EXCEPT ![p] = c] /\ CommandInv(c, schema)
  BY FoundVersion
<1>2. config' \in Root \cup {NoRoot, Absent}
  BY DEF SetupInv
<1> QED
  BY <1>1, <1>2, OnlyTheCommand

LEMMA SetupInvStep == SetupInv /\ [SetupNext]_setup => SetupInv'
<1> SUFFICES ASSUME SetupInv, [SetupNext]_setup PROVE SetupInv'
  OBVIOUS
<1>1. CASE UNCHANGED setup
  BY <1>1 DEF setup, SetupInv, Built
<1>2. ConfigRoot \in Root \cup {NoRoot} /\ (ConfigRoot # NoRoot => ConfigRoot \in Root)
      /\ config \in Root \cup {NoRoot, Absent}
  BY DEF SetupInv, ConfigRoot
<1>3. ASSUME NEW p \in Process, InitLibrary(p) \/ LoadConfig(p) \/ ClaimConfig(p) PROVE SetupInv'
  <2>1. CASE InitLibrary(p)
    <3>1. PICK root \in Root, force \in BOOLEAN :
            Starts(p, "init", "create", root, force) \/ Starts(p, "init", "ended", root, force)
      BY <2>1 DEF InitLibrary
    <3> QED
      BY <1>2, <2>1, <3>1, Started DEF InitLibrary
  <2>2. CASE LoadConfig(p)
    BY <1>2, <2>2, Started DEF LoadConfig
  <2>3. CASE ClaimConfig(p)
    BY <2>3, Started DEF ClaimConfig
  <2> QED
    BY <1>3, <2>1, <2>2, <2>3
<1>4. ASSUME NEW p \in Process, PublishDefault(p) \/ PublishRoot(p) PROVE SetupInv'
  <2>1. Goes(p, "ended") /\ UNCHANGED <<schema, applied>>
    BY <1>4 DEF PublishDefault, PublishRoot, Ends
  <2>2. config' \in Root \cup {NoRoot, Absent}
    BY <1>4 DEF PublishDefault, PublishRoot, SetupInv, CommandInv, At, Opening
  <2> QED
    BY <2>1, <2>2, Gone DEF CommandStep, Opening
<1>5. ASSUME NEW p \in Process, SetLibraryRoot(p) PROVE SetupInv'
  <2> DEFINE at == IF ConfigRoot = command[p].expect THEN "publish root" ELSE "ended"
             c == [command[p] EXCEPT !.seen = ConfigRoot, !.at = at]
  <2>1. command' = [command EXCEPT ![p] = c] /\ UNCHANGED <<config, schema, applied>> /\ At(p, "set root")
    BY <1>5 DEF SetLibraryRoot
  <2>2. CommandInv(command[p], schema)
    BY DEF SetupInv
  <2>3. at \in {"publish root", "ended"} /\ (at = "publish root" => ConfigRoot = command[p].expect)
    OBVIOUS
  <2> HIDE DEF at
  <2>4. /\ c \in AnyCommand /\ c.at = at /\ c.root = command[p].root /\ c.build = command[p].build
        /\ c.seen = ConfigRoot /\ c.expect = command[p].expect
    BY <1>2, <2>2, <2>3 DEF CommandInv, AnyCommand, CommandStep
  <2>5. command[p].root \in Root /\ command[p].build \in 1 .. Schemas
    BY <2>1, <2>2 DEF CommandInv, At, Opening
  <2> HIDE DEF c
  <2>6. CommandInv(c, schema)
    BY <2>3, <2>4, <2>5 DEF CommandInv
  <2> QED
    BY <1>2, <2>1, <2>6, OnlyTheCommand
<1>6. ASSUME NEW p \in Process,
             OpenOrCreate(p) \/ WriteMarker(p) \/ OpenLibrary(p) \/ LookForDatabase(p) \/ OpenClient(p)
      PROVE  SetupInv'
  <2>1. /\ UNCHANGED <<config, schema, applied>>
        /\ command[p].at \in Opening
        /\ \E step \in {"mark", "open", "look for a database", "connect", "connect to read", "ended",
                        "set root", "reading"} : Goes(p, step)
    BY <1>6 DEF OpenOrCreate, WriteMarker, OpenLibrary, LookForDatabase, OpenClient, At, Opening, Ends
  <2> QED
    BY <1>2, <2>1, Gone DEF CommandStep, Opening
<1>7. ASSUME NEW p \in Process, Connect(p) PROVE SetupInv'
  <2>0. PICK r \in Root : r = command[p].root
    BY <1>7 DEF Connect, At, Opening, SetupInv, CommandInv
  <2> DEFINE version == IF schema[r] = NoFile THEN 0 ELSE schema[r]
  <2>1. /\ schema' = [schema EXCEPT ![r] = version] /\ Found(p, version)
        /\ UNCHANGED <<config, applied>> /\ command[p].at \in Opening
    BY <1>7, <2>0 DEF Connect, At, Opening
  <2>2. Built(r)
    BY DEF SetupInv
  <2>3. version \in Nat /\ version >= schema[r]
    BY <2>2 DEF Built, NoFile
  <2>4. Len(applied[r]) = version
    BY <2>2 DEF Built
  <2> HIDE DEF version
  <2>5. schema'[r] = version /\ DOMAIN schema' = Root /\ \A q \in Root : q # r => schema'[q] = schema[q]
    BY <2>1, <2>2 DEF SetupInv
  <2>6. Built(r)'
    BY <2>1, <2>2, <2>3, <2>4, <2>5 DEF Built, NoFile
  <2>7. \A q \in Root : Built(q)' /\ schema'[q] >= schema[q]
    BY <2>1, <2>3, <2>5, <2>6 DEF SetupInv, Built, NoFile
  <2>8. PICK c : command' = [command EXCEPT ![p] = c] /\ CommandInv(c, schema')
    <3>1. schema'[command[p].root] \in Nat /\ schema'[command[p].root] >= version
      BY <2>0, <2>3, <2>5
    <3> QED
      BY <2>1, <2>3, <3>1, FoundVersion
  <2> QED
    BY <1>2, <2>1, <2>5, <2>7, <2>8, OneCommand DEF SetupInv
<1>8. ASSUME NEW p \in Process, RunInit(p) PROVE SetupInv'
  <2> DEFINE r == command[p].root
  <2>1. UNCHANGED config /\ command[p].at \in Opening
    BY <1>8 DEF RunInit, At, Opening
  <2>2. r \in Root /\ schema[r] \in Nat
    <3>1. r \in Root /\ schema[r] >= 0
      BY <1>8, <2>1 DEF RunInit, At, SetupInv, CommandInv
    <3> QED
      BY <3>1 DEF SetupInv, Built, NoFile
  <2>3. CASE schema[r] = 0
    <3>1. Applies(p, 1)
      BY <1>8, <2>3, Zenon DEF RunInit
    <3>2. schema[r] = 1 - 1 /\ 1 <= Schemas /\ 1 \in Nat \ {0}
      BY <2>3, SetupAssumption
    <3> QED
      BY <2>1, <3>1, <3>2, AppliedNext
  <2>4. CASE schema[r] # 0
    <3>1. Found(p, schema[r]) /\ UNCHANGED <<schema, applied>>
      BY <1>8, <2>4, Zenon DEF RunInit
    <3>2. schema[r] >= schema[r]
      BY <2>2
    <3> QED
      BY <2>1, <2>2, <3>1, <3>2, FoundOnly
  <2> QED
    BY <2>3, <2>4
<1>9. ASSUME NEW p \in Process, ApplyMigration(p) PROVE SetupInv'
  <2> DEFINE r == command[p].root
             v == command[p].version
             b == command[p].build
  <2>1. UNCHANGED config /\ command[p].at \in Opening /\ command[p].at = "migrate"
    BY <1>9 DEF ApplyMigration, At, Opening
  <2>2. r \in Root /\ schema[r] >= v /\ b \in 1 .. Schemas /\ v \in 1 .. b - 1
    BY <2>1 DEF SetupInv, CommandInv
  <2>3. schema[r] \in Nat
    BY <2>2 DEF SetupInv, Built, NoFile
  <2>4. CASE schema[r] <= v
    <3>1. schema[r] = (v + 1) - 1 /\ v + 1 \in Nat \ {0} /\ v + 1 <= Schemas
      BY <2>2, <2>3, <2>4, SetupAssumption
    <3>2. Applies(p, v + 1)
      BY <1>9, <2>4 DEF ApplyMigration
    <3> QED
      BY <2>1, <3>1, <3>2, AppliedNext
  <2>5. CASE ~(schema[r] <= v)
    <3> DEFINE version == IF schema[r] > b THEN b ELSE schema[r]
    <3>1. Found(p, version) /\ UNCHANGED <<schema, applied>>
      BY <1>9, <2>5 DEF ApplyMigration
    <3>2. version \in Nat /\ schema[r] >= version
      BY <2>2, <2>3, SetupAssumption
    <3> HIDE DEF version
    <3> QED
      BY <2>1, <2>3, <3>1, <3>2, FoundOnly
  <2> QED
    BY <2>4, <2>5
<1> QED
  BY <1>1, <1>3, <1>4, <1>5, <1>6, <1>7, <1>8, <1>9 DEF SetupNext

LEMMA SetupInvInit == SetupInit => SetupInv
<1> SUFFICES ASSUME SetupInit PROVE SetupInv
  OBVIOUS
<1>1. Unstarted \in AnyCommand /\ Unstarted.at = "unstarted"
  BY UnstartedTyped
<1>2. \A p \in Process : CommandInv(command[p], schema)
  BY <1>1 DEF SetupInit, CommandInv, Opening
<1>3. command = [p \in Process |-> command[p]]
  BY DEF SetupInit
<1>4. CASE /\ config = Absent
           /\ schema = [r \in Root |-> NoFile] /\ applied = [r \in Root |-> <<>>]
  BY <1>2, <1>3, <1>4 DEF SetupInv, Built
<1>5. ASSUME NEW version \in 1 .. Schemas, config \in Root,
             schema = [r \in Root |-> IF r = config THEN version ELSE NoFile],
             applied = [r \in Root |-> IF r = config THEN [i \in 1 .. version |-> i] ELSE <<>>]
      PROVE  SetupInv
  <2>1. version \in Nat
    BY SetupAssumption
  <2>2. /\ [i \in 1 .. version |-> i] \in Seq(Nat) /\ Len([i \in 1 .. version |-> i]) = version
        /\ \A i \in 1 .. version : [j \in 1 .. version |-> j][i] = i
    BY <2>1
  <2>3. ASSUME NEW r \in Root PROVE Built(r)
    BY <1>5, <2>1, <2>2 DEF Built, NoFile
  <2> QED
    BY <1>2, <1>3, <1>5, <2>3 DEF SetupInv
<1> QED
  BY <1>4, <1>5, SetupAssumption DEF SetupInit

LEMMA SetupInvBuilt == SetupInv => SchemaIsBuiltOnce
<1> SUFFICES ASSUME SetupInv PROVE SchemaIsBuiltOnce
  OBVIOUS
<1>1. ASSUME NEW r \in Root
      PROVE  applied[r] = [i \in 1 .. Len(applied[r]) |-> i] /\ (schema[r] > 0 => Len(applied[r]) = schema[r])
  <2>1. applied[r] \in Seq(Nat) /\ \A i \in 1 .. Len(applied[r]) : applied[r][i] = i
    BY DEF SetupInv, Built
  <2>2. applied[r] = [i \in 1 .. Len(applied[r]) |-> applied[r][i]]
    BY <2>1
  <2> QED
    BY <2>1, <2>2 DEF SetupInv, Built, NoFile
<1>2. \A p \in Process : At(p, "serving") => schema[command[p].root] >= command[p].build
  BY DEF SetupInv, CommandInv, At
<1> QED
  BY <1>1, <1>2 DEF SchemaIsBuiltOnce

RootKept ==
  \A p \in Process : At(p, "publish root") /\ command'[p].at = "ended" /\ ~command[p].force
       => ConfigRoot \in {command[p].expect, command[p].root} \/ ConfigRoot # command[p].seen

LEMMA SetupInvKept == SetupInv => RootKept
  BY DEF SetupInv, CommandInv, At, RootKept

(* Whatever commands of whatever builds run at once: each version is       *)
(* applied once and in order, nobody serves a database behind its own      *)
(* build, and no root is replaced that a command saw and did not expect.   *)
THEOREM LibraryStood == SetupSpec => []SchemaIsBuiltOnce /\ RootIsKept
<1>1. SetupInit => SetupInv
  BY SetupInvInit
<1>2. SetupInv /\ [SetupNext]_setup => SetupInv'
  BY SetupInvStep
<1>3. SetupInv => SchemaIsBuiltOnce
  BY SetupInvBuilt
<1>4. SetupInv => RootKept
  BY SetupInvKept
<1>5. RootIsKept <=> [][RootKept]_setup
  BY DEF RootIsKept, RootKept
<1> QED
  BY <1>1, <1>2, <1>3, <1>4, <1>5, PTL DEF SetupSpec

----------------------------------------------------------------------------
(* Account *)

AccountName == {"api", "play"}
JobType == [at : {"rest", "loaded", "holds", "steals", "locked", "read", "written", "refused", "stored"},
            of : AccountName, token : Int, read : [AccountName -> Int] \cup {NoToken}]

AccountTypeOK ==
  /\ issued \in 1 .. Grants
  /\ spentBy \in [1 .. Grants -> Actor \cup {Free}]
  /\ store \in [AccountName -> Int] /\ signedOut \in BOOLEAN
  /\ lock \in [by : Actor \cup {Free}, stale : BOOLEAN]
  /\ gate \in Task \cup {Free}
  /\ job \in [Actor -> JobType]
  /\ \A a \in Actor : job[a].at = "read" => job[a].read \in [AccountName -> Int]
  /\ playable \subseteq Int /\ harmed \in BOOLEAN

(* Who is inside a file's lock, and who is inside the session.             *)
InLock(a) == job[a].at \in {"locked", "read", "written"}
Inside(t) == job[t].at \in {"loaded", "holds", "steals", "locked", "read", "written"}
Loaded(a) == job[a].at = "loaded"

(* What the platform granted and nobody stored is one task's or command's, *)
(* is spent by no exchange that is under way and is not in the file.  The  *)
(* token in the file is spent by nobody but one who has its successor in   *)
(* hand, and what a process has read was spent by no other of its own.     *)
PairInv ==
  /\ store["api"] \in 0 .. issued /\ \A n \in 1 .. Grants : n > issued => spentBy[n] = Free
  /\ signedOut <=> store["api"] = NoToken
  /\ store["api"] # NoToken /\ spentBy[store["api"]] # Free => Unsaved(spentBy[store["api"]])
  /\ \A a \in Actor : Unsaved(a) => job[a].token \in 1 .. issued /\ spentBy[job[a].token] = Free
                                    /\ job[a].token # store["api"]
  /\ \A a, b \in Actor : Unsaved(a) /\ (Unsaved(b) \/ Loaded(b)) /\ b # a => job[b].token # job[a].token
  /\ \A a \in Actor : Loaded(a) => job[a].of = "api" /\ job[a].token \in 1 .. issued
                                   /\ spentBy[job[a].token] \notin ProcessOf(a)
  /\ \A a \in Actor : job[a].at = "refused" =>
        job[a].token \in 1 .. issued /\ spentBy[job[a].token] \in Actor \ ProcessOf(a)

(* The recorder's session has one task inside it, and the file one writer, *)
(* who reads what it replaces.                                             *)
GateInv ==
  /\ \A t \in Task : Inside(t) => gate = t
  /\ \A a \in Actor : InLock(a) => lock.by = a /\ lock # Unlocked
  /\ \A a \in Actor : job[a].at = "read" => job[a].read = store

AccountInv == AccountTypeOK /\ (harmed \/ (PairInv /\ GateInv))

LEMMA RestingTyped == Resting \in JobType /\ Resting.at = "rest" /\ Resting.of = "api"
  BY DEF Resting, JobType, AccountName, NoToken

LEMMA AccountTypeStep == AccountTypeOK /\ [AccountNext]_account => AccountTypeOK'
<1> SUFFICES ASSUME AccountTypeOK, [AccountNext]_account PROVE AccountTypeOK'
  OBVIOUS
<1> USE RestingTyped, AccountAssumption DEF AccountTypeOK, Rests, Actor, NoToken, AccountName, JobType
<1>1. ASSUME NEW a \in Actor,
             Load(a) \/ Exchange(a) \/ AnswerLost(a) \/ Transient(a) \/ Reauthorize(a) \/ GivesUp(a)
      PROVE  AccountTypeOK'
  <2>1. CASE Load(a)
    BY <2>1 DEF Load, Acquire, credentials, playback, Resting
  <2>2. CASE Exchange(a)
    BY <2>2 DEF Exchange, Spend, granted, credentials, playback
  <2>3. CASE AnswerLost(a)
    BY <2>3 DEF AnswerLost, Spend, granted, HandBack, credentials, playback
  <2>4. CASE Transient(a) \/ GivesUp(a)
    <3>1. job' = [job EXCEPT ![a] = Resting] /\ gate' \in {Free, gate}
          /\ UNCHANGED <<issued, spentBy, store, signedOut, lock, harmed, playable>>
      BY <2>4 DEF Transient, GivesUp, HandBack, credentials, playback, sessionVars
    <3> HIDE DEF JobType
    <3> QED
      BY <3>1
  <2>5. CASE Reauthorize(a)
    BY <2>5 DEF Reauthorize, HandBack, credentials, playback
  <2> QED
    BY <1>1, <2>1, <2>2, <2>3, <2>4, <2>5
<1>2. ASSUME NEW c \in Command, Authorize(c) \/ ForgetSession(c) \/ Login(c) \/ Logout(c) \/ Derive(c)
      PROVE  AccountTypeOK'
  <2>1. CASE Authorize(c)
    <3>1. [Resting EXCEPT !.at = "holds", !.token = issued + 1] \in JobType
      <4>1. issued + 1 \in Int
        OBVIOUS
      <4> QED
        BY <4>1 DEF Resting
    <3>2. [Resting EXCEPT !.at = "holds", !.token = issued + 1].at = "holds"
      BY DEF Resting
    <3>3. job' = [job EXCEPT ![c] = [Resting EXCEPT !.at = "holds", !.token = issued + 1]]
          /\ UNCHANGED <<spentBy, store, signedOut, lock, gate, harmed, playable>>
      BY <2>1 DEF Authorize, credentials, playback
    <3>4. issued' \in 1 .. Grants
      BY <2>1 DEF Authorize
    <3> HIDE DEF JobType
    <3> QED
      BY <3>1, <3>2, <3>3, <3>4
  <2>2. CASE Login(c)
    <3>1. PICK token \in playable :
            job' = [job EXCEPT ![c] = [Resting EXCEPT !.at = "holds", !.of = "play", !.token = token]]
      BY <2>2 DEF Login
    <3>2. [Resting EXCEPT !.at = "holds", !.of = "play", !.token = token] \in JobType
      BY DEF Resting
    <3>3. [Resting EXCEPT !.at = "holds", !.of = "play", !.token = token].at = "holds"
      BY DEF Resting
    <3>4. UNCHANGED <<store, signedOut, lock, harmed, issued, spentBy, gate, playable>>
      BY <2>2 DEF Login, credentials, playback, sessionVars
    <3> HIDE DEF JobType
    <3> QED
      BY <3>1, <3>2, <3>3, <3>4
  <2>3. CASE ForgetSession(c) \/ Logout(c)
    <3>1. /\ [Resting EXCEPT !.at = "holds"] \in JobType
          /\ [Resting EXCEPT !.at = "holds", !.of = "play"] \in JobType
          /\ [Resting EXCEPT !.at = "holds"].at = "holds"
          /\ [Resting EXCEPT !.at = "holds", !.of = "play"].at = "holds"
      BY DEF Resting
    <3>2. PICK next \in {[Resting EXCEPT !.at = "holds"], [Resting EXCEPT !.at = "holds", !.of = "play"]} :
            job' = [job EXCEPT ![c] = next]
      BY <2>3 DEF ForgetSession, Logout
    <3>3. UNCHANGED <<store, signedOut, lock, harmed, issued, spentBy, gate, playable>>
      BY <2>3 DEF ForgetSession, Logout, credentials, playback, sessionVars
    <3> HIDE DEF JobType
    <3> QED
      BY <3>1, <3>2, <3>3
  <2>4. CASE Derive(c)
    BY <2>4 DEF Derive, credentials, sessionVars
  <2> QED
    BY <1>2, <2>1, <2>2, <2>3, <2>4
<1>3. ASSUME NEW a \in Actor, \/ Lock(a) \/ FindStale(a) \/ TakeOver(a)
                              \/ ReadStore(a) \/ WriteStore(a) \/ SetFails(a) \/ Unlock(a)
      PROVE  AccountTypeOK'
  <2>1. CASE Lock(a)
    BY <2>1 DEF Lock, credentials, playback, sessionVars
  <2>2. CASE SetFails(a)
    BY <2>2 DEF SetFails, HandBack, credentials, playback, Unsaved, Unlocked
  <2>3. CASE FindStale(a)
    BY <2>3 DEF FindStale, credentials, playback, sessionVars
  <2>4. CASE TakeOver(a)
    BY <2>4 DEF TakeOver, credentials, playback, sessionVars, Unlocked
  <2>5. CASE ReadStore(a)
    BY <2>5 DEF ReadStore, credentials, playback, sessionVars
  <2>6. CASE WriteStore(a)
    BY <2>6 DEF WriteStore, playback, sessionVars
  <2>7. CASE Unlock(a)
    <3>1. [job[a] EXCEPT !.at = "stored"] \in JobType /\ [job[a] EXCEPT !.at = "stored"].at = "stored"
      OBVIOUS
    <3>2. PICK next \in {Resting, [job[a] EXCEPT !.at = "stored"]} : job' = [job EXCEPT ![a] = next]
      BY <2>7 DEF Unlock
    <3>3. lock' = Unlocked /\ gate' \in {Free, gate}
          /\ UNCHANGED <<issued, spentBy, store, signedOut, harmed, playable>>
      BY <2>7 DEF Unlock, HandBack, credentials, playback
    <3> HIDE DEF JobType
    <3> QED
      BY <3>1, <3>2, <3>3 DEF Unlocked
  <2> QED
    BY <1>3, <2>1, <2>2, <2>3, <2>4, <2>5, <2>6, <2>7
<1>4. CASE ReadDerived \/ CheckEnds \/ Rejected
  BY <1>4 DEF ReadDerived, CheckEnds, Rejected, credentials, sessionVars
<1>5. CASE Revoke
  <2>1. PICK token \in playable : playable' = (playable \ {token}) \cup ({token + 1} \cap 1 .. Tokens)
    BY <1>5 DEF Revoke
  <2>2. 1 .. Tokens \subseteq Int
    OBVIOUS
  <2>3. playable' \subseteq Int
    BY <2>1, <2>2
  <2> QED
    BY <1>5, <2>3 DEF Revoke, credentials, sessionVars
<1>6. CASE LockAges
  BY <1>6 DEF LockAges, credentials, sessionVars, playback
<1>7. ASSUME NEW process, Crash(process) PROVE AccountTypeOK'
  BY <1>7 DEF Crash, Unsaved, credentials
<1>8. CASE UNCHANGED account
  BY <1>8 DEF account
<1> QED
  BY <1>1, <1>2, <1>3, <1>4, <1>5, <1>6, <1>7, <1>8 DEF AccountNext

LEMMA HarmStands == AccountTypeOK /\ [AccountNext]_account /\ harmed => harmed'
  BY DEF AccountNext, account, Load, Exchange, AnswerLost, Transient, Reauthorize, GivesUp, Authorize, ForgetSession,
         Login, Logout, Derive, Lock, FindStale, TakeOver, ReadStore, WriteStore, SetFails, Unlock, ReadDerived,
         CheckEnds, Rejected, Revoke, LockAges, Crash

(* One task or command has taken a step that touched no pair: what it has  *)
(* unsaved it had, and it has read nothing.                                *)
LEMMA PairsStand ==
  ASSUME AccountTypeOK, PairInv, UNCHANGED <<issued, spentBy, store, signedOut>>, NEW a \in Actor,
         \A b \in Actor : b # a => job'[b] = job[b],
         Unsaved(a)' <=> Unsaved(a), Unsaved(a)' => job'[a].token = job[a].token,
         job'[a].at \notin {"loaded", "refused"}
  PROVE  PairInv'
<1>1. \A b \in Actor : Unsaved(b)' <=> Unsaved(b)
  BY DEF Unsaved
<1>2. \A b \in Actor : Unsaved(b)' => job'[b].token = job[b].token
  OBVIOUS
<1>3. \A b \in Actor : Loaded(b)' \/ job'[b].at = "refused" => b # a /\ job'[b] = job[b] /\ (Loaded(b)' <=> Loaded(b))
  BY DEF Loaded
<1>4. store["api"] # NoToken /\ spentBy[store["api"]] # Free => Unsaved(spentBy[store["api"]])'
  <2> SUFFICES ASSUME store["api"] # NoToken, spentBy[store["api"]] # Free
               PROVE  Unsaved(spentBy[store["api"]])'
    OBVIOUS
  <2>1. spentBy[store["api"]] \in Actor
    BY AccountAssumption DEF PairInv, AccountTypeOK, NoToken
  <2> QED
    BY <1>1, <2>1 DEF PairInv
<1>5. \A b \in Actor : Unsaved(b)' => job'[b].token \in 1 .. issued /\ spentBy[job'[b].token] = Free
                                   /\ job'[b].token # store["api"]
  BY <1>1, <1>2 DEF PairInv
<1>6. \A b, c \in Actor : Unsaved(b)' /\ (Unsaved(c)' \/ Loaded(c)') /\ c # b => job'[c].token # job'[b].token
  BY <1>1, <1>2, <1>3 DEF PairInv
<1>7. \A b \in Actor : Loaded(b)' => job'[b].of = "api" /\ job'[b].token \in 1 .. issued
                                   /\ spentBy[job'[b].token] \notin ProcessOf(b)
  BY <1>3 DEF PairInv
<1>8. \A b \in Actor : job'[b].at = "refused" =>
        job'[b].token \in 1 .. issued /\ spentBy[job'[b].token] \in Actor \ ProcessOf(b)
  BY <1>3 DEF PairInv
<1> QED
  BY <1>4, <1>5, <1>6, <1>7, <1>8 DEF PairInv, ProcessOf

(* One task or command has taken a step that kept who is inside what.      *)
LEMMA GatesStand ==
  ASSUME GateInv, NEW a \in Actor, \A b \in Actor : b # a => job'[b] = job[b],
         Inside(a)' /\ a \in Task => Inside(a), InLock(a)' => InLock(a), job'[a].at # "read",
         gate' = gate \/ (gate = a /\ ~Inside(a)'),
         UNCHANGED <<lock, store>> \/ (~InLock(a)' /\ InLock(a))
  PROVE  GateInv'
<1>1. \A t \in Task : Inside(t)' => gate' = t
  BY DEF GateInv, Inside, Actor
<1>2. \A b \in Actor : InLock(b)' => lock'.by = b /\ lock' # Unlocked
  BY DEF GateInv, InLock, Unlocked
<1>3. \A b \in Actor : job'[b].at = "read" => job'[b].read = store'
  BY DEF GateInv, InLock
<1> QED
  BY <1>1, <1>2, <1>3 DEF GateInv

LEMMA AccountPairStep ==
  ASSUME AccountTypeOK, AccountTypeOK', PairInv, GateInv, ~harmed, ~harmed', [AccountNext]_account
  PROVE  PairInv' /\ GateInv'
<1> USE AccountAssumption
<1>1. ASSUME NEW a \in Actor,
             Load(a) \/ Exchange(a) \/ AnswerLost(a) \/ Transient(a) \/ Reauthorize(a) \/ GivesUp(a)
      PROVE  PairInv' /\ GateInv'
  <2>1. CASE Load(a)
    <3>1. /\ job'[a].at = "loaded" /\ job'[a].of = "api" /\ job'[a].token = store["api"]
          /\ \A b \in Actor : b # a => job'[b] = job[b]
      BY <2>1 DEF Load, Resting, AccountTypeOK
    <3>2. UNCHANGED <<issued, spentBy, store, signedOut, lock>> /\ job[a].at = "rest" /\ store["api"] # NoToken
      BY <2>1 DEF Load, credentials
    <3>3. (a \in Task => gate = Free) /\ gate' = IF a \in Task THEN a ELSE gate
      BY <2>1 DEF Load, Acquire
    <3>4. spentBy[store["api"]] \notin ProcessOf(a) /\ store["api"] \in 1 .. issued
      <4>1. \A b \in ProcessOf(a) : ~Unsaved(b)
        BY <3>2, <3>3 DEF ProcessOf, GateInv, Inside, Unsaved
      <4>2. Free \notin ProcessOf(a)
        BY DEF ProcessOf, Actor
      <4> QED
        BY <3>2, <4>1, <4>2 DEF PairInv, AccountTypeOK, NoToken
    <3>5. \A b \in Actor : b # a => (Unsaved(b)' <=> Unsaved(b)) /\ (Loaded(b)' <=> Loaded(b))
      BY <3>1 DEF Unsaved, Loaded
    <3>6. ~Unsaved(a)' /\ ~Unsaved(a)
      BY <3>1, <3>2 DEF Unsaved
    <3>7. spentBy[store["api"]] # Free => Unsaved(spentBy[store["api"]])'
      <4>1. spentBy[store["api"]] \in Actor \cup {Free}
        BY <3>4 DEF AccountTypeOK
      <4> QED
        BY <3>2, <3>5, <3>6, <4>1 DEF PairInv
    <3>8. PairInv'
      BY <3>1, <3>2, <3>4, <3>5, <3>6, <3>7 DEF PairInv, ProcessOf
    <3>9. GateInv'
      BY <3>1, <3>2, <3>3 DEF GateInv, InLock, Inside, Actor
    <3> QED
      BY <3>8, <3>9
  <2>2. CASE Exchange(a)
    <3> DEFINE token == job[a].token
    <3>1. job[a].at = "loaded" /\ token \in 1 .. issued /\ spentBy[token] = Free /\ token \in 1 .. Grants
      BY <2>2 DEF Exchange, Spend, granted, AccountTypeOK
    <3>2. issued' = issued + 1 /\ spentBy' = [spentBy EXCEPT ![token] = a] /\ issued + 1 \in 1 .. Grants
          /\ UNCHANGED <<store, signedOut, lock, gate>>
      BY <2>2 DEF Exchange, Spend, credentials, AccountTypeOK
    <3>3. job'[a].at = "holds" /\ job'[a].token = issued + 1 /\ \A b \in Actor : b # a => job'[b] = job[b]
      BY <2>2 DEF Exchange, AccountTypeOK, JobType
    <3>4. spentBy'[token] = a /\ \A n \in 1 .. Grants : n # token => spentBy'[n] = spentBy[n]
      BY <3>1, <3>2 DEF AccountTypeOK
    <3>5. 1 .. issued \subseteq 1 .. issued' /\ 1 .. issued \subseteq 1 .. Grants /\ issued + 1 \notin 0 .. issued
          /\ issued + 1 \in 1 .. issued'
      BY <3>2 DEF AccountTypeOK
    <3>6. spentBy'[issued + 1] = Free /\ \A n \in 1 .. Grants : n > issued' => spentBy'[n] = Free
      BY <3>1, <3>2, <3>4, <3>5 DEF PairInv, AccountTypeOK
    <3>7. Unsaved(a)' /\ ~Loaded(a)' /\ Loaded(a) /\ ~Unsaved(a) /\ job'[a].at # "refused"
      <4>1. job'[a].of = "api" /\ issued + 1 # NoToken
        BY <2>2, <3>1, <3>2 DEF Exchange, AccountTypeOK, JobType, PairInv, Loaded, NoToken
      <4> QED
        BY <3>1, <3>3, <4>1 DEF Unsaved, Loaded
    <3>8. \A b \in Actor : b # a => (Unsaved(b)' <=> Unsaved(b)) /\ (Loaded(b)' <=> Loaded(b))
      BY <3>3 DEF Unsaved, Loaded
    <3>9. (store["api"] # NoToken /\ spentBy[store["api"]] # Free => Unsaved(spentBy[store["api"]]))'
      <4>1. store["api"] # NoToken => store["api"] \in 1 .. Grants
        BY <3>5 DEF PairInv, NoToken, AccountTypeOK
      <4>2. store["api"] # NoToken /\ spentBy[store["api"]] # Free =>
              Unsaved(spentBy[store["api"]]) /\ spentBy[store["api"]] \in Actor
        BY <4>1 DEF PairInv, AccountTypeOK
      <4> QED
        BY <3>2, <3>4, <3>7, <3>8, <4>1, <4>2
    <3>10. \A b \in Actor : Unsaved(b)' => job'[b].token \in 1 .. issued' /\ spentBy'[job'[b].token] = Free
                                        /\ job'[b].token # store["api"]
      <4>1. \A b \in Actor : b # a /\ Unsaved(b) => job[b].token # token
        BY <3>7 DEF PairInv
      <4> QED
        BY <3>3, <3>4, <3>5, <3>6, <3>8, <4>1 DEF PairInv
    <3>11. \A b, c \in Actor : Unsaved(b)' /\ (Unsaved(c)' \/ Loaded(c)') /\ c # b => job'[c].token # job'[b].token
      <4>1. \A b \in Actor : b # a /\ (Unsaved(b)' \/ Loaded(b)') => job'[b].token \in 0 .. issued
        BY <3>3, <3>8 DEF PairInv, AccountTypeOK
      <4> QED
        BY <3>3, <3>5, <3>7, <3>8, <4>1 DEF PairInv
    <3>12. \A b \in Actor : Loaded(b)' => job'[b].of = "api" /\ job'[b].token \in 1 .. issued'
                                       /\ spentBy'[job'[b].token] \notin ProcessOf(b)
      <4>1. \A b \in Actor : Loaded(b) /\ b # a => a \notin ProcessOf(b)
        BY <3>7 DEF ProcessOf, GateInv, Inside, Loaded
      <4> QED
        BY <3>3, <3>4, <3>5, <3>7, <3>8, <4>1 DEF PairInv
    <3>13. \A b \in Actor : job'[b].at = "refused" =>
             job'[b].token \in 1 .. issued' /\ spentBy'[job'[b].token] \in Actor \ ProcessOf(b)
      <4>1. Free \notin Actor
        BY DEF Actor
      <4> QED
        BY <3>1, <3>3, <3>4, <3>5, <3>7, <4>1 DEF PairInv
    <3>14. PairInv'
      <4>1. store["api"] \in 0 .. issued'
        BY <3>2 DEF PairInv, AccountTypeOK
      <4> QED
        BY <3>2, <3>6, <3>9, <3>10, <3>11, <3>12, <3>13, <4>1 DEF PairInv, ProcessOf
    <3>15. GateInv'
      BY <3>1, <3>2, <3>3, GatesStand DEF Inside, InLock
    <3> QED
      BY <3>14, <3>15
  <2>3. CASE AnswerLost(a)
    BY <2>3 DEF AnswerLost
  <2>4. CASE Transient(a) \/ GivesUp(a)
    <3>1. job'[a].at = "rest" /\ (\A b \in Actor : b # a => job'[b] = job[b])
          /\ job[a].at \in {"loaded", "refused"}
      BY <2>4 DEF Transient, GivesUp, Rests, Resting, AccountTypeOK
    <3>2. UNCHANGED <<issued, spentBy, store, signedOut, lock>> /\ (gate' = gate \/ (gate = a /\ gate' = Free))
      BY <2>4 DEF Transient, GivesUp, HandBack, credentials, sessionVars
    <3>3. PairInv'
      BY <3>1, <3>2, PairsStand DEF Unsaved
    <3>4. GateInv'
      BY <3>1, <3>2, GatesStand DEF Inside, InLock
    <3> QED
      BY <3>3, <3>4
  <2>5. CASE Reauthorize(a)
    <3>1. job[a].at = "loaded" /\ job'[a] = [job[a] EXCEPT !.at = "refused"] /\ \A b \in Actor : b # a => job'[b] = job[b]
      BY <2>5 DEF Reauthorize, AccountTypeOK
    <3>2. UNCHANGED <<issued, spentBy, store, signedOut, lock>> /\ (gate' = gate \/ (gate = a /\ gate' = Free))
      BY <2>5 DEF Reauthorize, HandBack, credentials
    <3>3. job'[a].at = "refused" /\ job'[a].token = job[a].token
      BY <3>1 DEF AccountTypeOK, JobType
    <3>4. job[a].token \in 1 .. issued /\ spentBy[job[a].token] \in Actor \ ProcessOf(a)
      <4>1. job[a].token \in 1 .. issued /\ spentBy[job[a].token] \notin ProcessOf(a) /\ job[a].token \notin granted
        BY <2>5, <3>1 DEF Reauthorize, PairInv, Loaded
      <4>2. job[a].token \in 1 .. Grants
        BY <4>1 DEF AccountTypeOK
      <4> QED
        BY <4>1, <4>2 DEF granted, AccountTypeOK
    <3>5. ~Unsaved(a)' /\ ~Unsaved(a) /\ ~Loaded(a)'
          /\ \A b \in Actor : b # a => (Unsaved(b)' <=> Unsaved(b)) /\ (Loaded(b)' <=> Loaded(b))
      BY <3>1, <3>3 DEF Unsaved, Loaded
    <3>6. store["api"] # NoToken /\ spentBy[store["api"]] # Free => Unsaved(spentBy[store["api"]])'
      <4>1. store["api"] # NoToken => spentBy[store["api"]] \in Actor \cup {Free}
        BY DEF PairInv, AccountTypeOK, NoToken
      <4> QED
        BY <3>2, <3>5, <4>1 DEF PairInv
    <3>7. PairInv'
      <4>1. \A b \in Actor : Unsaved(b)' \/ Loaded(b)' => b # a /\ job'[b] = job[b]
        BY <3>1, <3>5
      <4>2. \A b \in Actor : Unsaved(b)' => job'[b].token \in 1 .. issued /\ spentBy[job'[b].token] = Free
                                        /\ job'[b].token # store["api"]
        BY <3>5, <4>1 DEF PairInv
      <4>3. \A b, d \in Actor : Unsaved(b)' /\ (Unsaved(d)' \/ Loaded(d)') /\ d # b => job'[d].token # job'[b].token
        BY <3>5, <4>1 DEF PairInv
      <4>4. \A b \in Actor : Loaded(b)' => job'[b].of = "api" /\ job'[b].token \in 1 .. issued
                                        /\ spentBy[job'[b].token] \notin ProcessOf(b)
        BY <3>5, <4>1 DEF PairInv
      <4>5. \A b \in Actor : job'[b].at = "refused" =>
              job'[b].token \in 1 .. issued /\ spentBy[job'[b].token] \in Actor \ ProcessOf(b)
        BY <3>1, <3>3, <3>4 DEF PairInv
      <4> QED
        BY <3>2, <3>6, <4>2, <4>3, <4>4, <4>5 DEF PairInv, ProcessOf
    <3>8. GateInv'
      BY <3>1, <3>2, <3>3, GatesStand DEF Inside, InLock
    <3> QED
      BY <3>7, <3>8
  <2> QED
    BY <1>1, <2>1, <2>2, <2>3, <2>4, <2>5
<1>2. ASSUME NEW c \in Command, Authorize(c) \/ ForgetSession(c) \/ Login(c) \/ Logout(c) \/ Derive(c)
      PROVE  PairInv' /\ GateInv'
  <2> c \in Actor /\ c \notin Task
    BY DEF Actor
  <2>1. CASE Authorize(c)
    <3>1. job'[c].at = "holds" /\ job'[c].of = "api" /\ job'[c].token = issued + 1 /\ job[c].at = "rest"
          /\ \A b \in Actor : b # c => job'[b] = job[b]
      BY <2>1 DEF Authorize, Resting, AccountTypeOK
    <3>2. issued' = issued + 1 /\ issued + 1 \in 1 .. Grants /\ UNCHANGED <<spentBy, store, signedOut, lock, gate>>
      BY <2>1 DEF Authorize, credentials, AccountTypeOK
    <3>3. 1 .. issued \subseteq 1 .. issued' /\ issued + 1 \notin 0 .. issued /\ issued + 1 \in 1 .. issued'
          /\ spentBy[issued + 1] = Free
      BY <3>2 DEF AccountTypeOK, PairInv
    <3>4. Unsaved(c)' /\ ~Unsaved(c) /\ ~Loaded(c)'
          /\ \A b \in Actor : b # c => (Unsaved(b)' <=> Unsaved(b)) /\ (Loaded(b)' <=> Loaded(b))
      BY <3>1, <3>2 DEF Unsaved, Loaded, NoToken, AccountTypeOK
    <3>5. store["api"] # NoToken /\ spentBy[store["api"]] # Free => Unsaved(spentBy[store["api"]])'
      <4>1. store["api"] # NoToken => spentBy[store["api"]] \in Actor \cup {Free}
        BY DEF PairInv, AccountTypeOK, NoToken
      <4> QED
        BY <3>2, <3>4, <4>1 DEF PairInv
    <3>6. \A b \in Actor : b # c /\ (Unsaved(b)' \/ Loaded(b)') => job'[b].token \in 0 .. issued
      BY <3>1, <3>4 DEF PairInv, AccountTypeOK
    <3>7. store["api"] \in 0 .. issued' /\ \A n \in 1 .. Grants : n > issued' => spentBy[n] = Free
      BY <3>2 DEF PairInv, AccountTypeOK
    <3>8. \A b, d \in Actor : Unsaved(b)' /\ (Unsaved(d)' \/ Loaded(d)') /\ d # b => job'[d].token # job'[b].token
      BY <3>1, <3>3, <3>4, <3>6 DEF PairInv
    <3>9. \A b \in Actor : Unsaved(b)' => job'[b].token \in 1 .. issued' /\ spentBy[job'[b].token] = Free
                                       /\ job'[b].token # store["api"]
      BY <3>1, <3>3, <3>4 DEF PairInv
    <3>10. PairInv'
      BY <3>1, <3>2, <3>3, <3>4, <3>5, <3>7, <3>8, <3>9 DEF PairInv, ProcessOf
    <3>11. GateInv'
      BY <3>1, <3>2, GatesStand DEF Inside, InLock
    <3> QED
      BY <3>10, <3>11
  <2>2. CASE ForgetSession(c) \/ Login(c) \/ Logout(c)
    <3>1. job'[c].at = "holds" /\ (job'[c].of = "play" \/ job'[c].token = NoToken)
      <4>1. CASE ForgetSession(c)
        BY <4>1 DEF ForgetSession, Resting, AccountTypeOK
      <4>2. CASE Logout(c)
        BY <4>2 DEF Logout, Resting, AccountTypeOK
      <4>3. CASE Login(c)
        <5>1. PICK token \in playable :
                job' = [job EXCEPT ![c] = [Resting EXCEPT !.at = "holds", !.of = "play", !.token = token]]
          BY <4>3 DEF Login
        <5> QED
          BY <5>1 DEF Resting, AccountTypeOK
      <4> QED
        BY <2>2, <4>1, <4>2, <4>3
    <3>2. job[c].at = "rest" /\ \A b \in Actor : b # c => job'[b] = job[b]
      BY <2>2 DEF ForgetSession, Login, Logout, AccountTypeOK
    <3>3. UNCHANGED <<issued, spentBy, store, signedOut, lock, gate>>
      BY <2>2 DEF ForgetSession, Login, Logout, credentials, sessionVars
    <3>4. PairInv'
      BY <3>1, <3>2, <3>3, PairsStand DEF Unsaved
    <3>5. GateInv'
      BY <3>1, <3>2, <3>3, GatesStand DEF Inside, InLock
    <3> QED
      BY <3>4, <3>5
  <2>3. CASE Derive(c)
    <3>1. job'[c].at = "rest" /\ job[c].at = "stored" /\ \A b \in Actor : b # c => job'[b] = job[b]
      BY <2>3 DEF Derive, Rests, Resting, AccountTypeOK
    <3>2. UNCHANGED <<issued, spentBy, store, signedOut, lock, gate>>
      BY <2>3 DEF Derive, credentials, sessionVars
    <3>3. PairInv'
      BY <3>1, <3>2, PairsStand DEF Unsaved
    <3>4. GateInv'
      BY <3>1, <3>2, GatesStand DEF Inside, InLock
    <3> QED
      BY <3>3, <3>4
  <2> QED
    BY <1>2, <2>1, <2>2, <2>3
<1>3. ASSUME NEW a \in Actor, \/ Lock(a) \/ FindStale(a) \/ TakeOver(a)
                              \/ ReadStore(a) \/ WriteStore(a) \/ SetFails(a) \/ Unlock(a)
      PROVE  PairInv' /\ GateInv'
  <2>1. CASE Lock(a) \/ FindStale(a) \/ ReadStore(a)
    <3>1. /\ \A b \in Actor : b # a => job'[b] = job[b]
          /\ job'[a].of = job[a].of /\ job'[a].token = job[a].token
          /\ job[a].at \in {"holds", "locked"} /\ job'[a].at \in {"locked", "steals", "read"}
          /\ job'[a].at = "read" => job[a].at = "locked" /\ job'[a].read = store
          /\ job'[a].at = "locked" => lock = Unlocked /\ lock' = [by |-> a, stale |-> FALSE]
          /\ job'[a].at # "locked" => lock' = lock
      BY <2>1 DEF Lock, FindStale, ReadStore, AccountTypeOK, JobType
    <3>2. UNCHANGED <<issued, spentBy, store, signedOut, gate>>
      BY <2>1 DEF Lock, FindStale, ReadStore, credentials, sessionVars
    <3>3. PairInv'
      BY <3>1, <3>2, PairsStand DEF Unsaved
    <3>4. GateInv'
      <4>1. \A t \in Task : Inside(t)' => gate' = t
        BY <3>1, <3>2 DEF GateInv, Inside, Actor
      <4>2. a # Free /\ [by |-> a, stale |-> FALSE] # Unlocked
        BY DEF Actor, Unlocked
      <4>3. \A b \in Actor : InLock(b)' => lock'.by = b /\ lock' # Unlocked
        BY <3>1, <4>2 DEF GateInv, InLock
      <4>4. \A b \in Actor : job'[b].at = "read" => job'[b].read = store'
        BY <3>1, <3>2 DEF GateInv
      <4> QED
        BY <4>1, <4>3, <4>4 DEF GateInv
    <3> QED
      BY <3>3, <3>4
  <2>2. CASE SetFails(a)
    <3>1. job[a].at \in {"holds", "locked", "read"} /\ ~Unsaved(a)
      BY <2>2 DEF SetFails
    <3>2. UNCHANGED <<store, signedOut, issued, spentBy>> /\ (gate' = gate \/ (gate = a /\ gate' = Free))
          /\ lock' = IF job[a].at = "holds" THEN lock ELSE Unlocked
      BY <2>2 DEF SetFails, credentials, HandBack
    <3>3. job'[a].at = "rest" /\ \A b \in Actor : b # a => job'[b] = job[b]
      BY <2>2 DEF SetFails, Rests, Resting, AccountTypeOK
    <3>4. PairInv'
      BY <3>1, <3>2, <3>3, PairsStand DEF Unsaved
    <3>5. GateInv'
      BY <3>1, <3>2, <3>3, GatesStand DEF InLock, Inside
    <3> QED
      BY <3>4, <3>5
  <2>3. CASE TakeOver(a)
    BY <2>3 DEF TakeOver
  <2>4. CASE WriteStore(a)
    <3>1. job[a].at = "read" /\ job'[a].at = "written" /\ \A b \in Actor : b # a => job'[b] = job[b]
      BY <2>4 DEF WriteStore, AccountTypeOK, JobType
    <3>2. UNCHANGED <<issued, spentBy, lock, gate>> /\ store' = [store EXCEPT ![job[a].of] = job[a].token]
          /\ signedOut' = IF job[a].of = "api" THEN job[a].token = NoToken ELSE signedOut
      BY <2>4 DEF WriteStore, sessionVars, GateInv
    <3>3. lock.by = a /\ \A b \in Actor : InLock(b) => b = a
      BY <3>1 DEF GateInv, InLock
    <3>4. GateInv'
      <4>1. \A b \in Actor : job'[b].at # "read" /\ (InLock(b)' => InLock(b))
        BY <3>1, <3>3 DEF InLock
      <4>2. \A t \in Task : Inside(t)' => Inside(t)
        BY <3>1 DEF Inside, Actor
      <4> QED
        BY <3>2, <4>1, <4>2 DEF GateInv
    <3>5. CASE ~Unsaved(a)
      <4>1. (store'["api"] = store["api"] /\ signedOut' = signedOut) \/ (store'["api"] = NoToken /\ signedOut' = TRUE)
        BY <3>1, <3>2, <3>5 DEF Unsaved, AccountTypeOK, JobType, AccountName
      <4>2. \A b \in Actor : (Unsaved(b)' <=> Unsaved(b)) /\ (Loaded(b)' <=> Loaded(b)) /\ (Unsaved(b) => b # a)
                             /\ (job'[b].at = "refused" => b # a)
        BY <3>1, <3>5 DEF Unsaved, Loaded
      <4>3. /\ \A b \in Actor : Unsaved(b)' => job'[b].token \in 1 .. issued /\ spentBy[job'[b].token] = Free
                                          /\ job'[b].token # store'["api"]
            /\ \A b, c \in Actor : Unsaved(b)' /\ (Unsaved(c)' \/ Loaded(c)') /\ c # b => job'[c].token # job'[b].token
        <5>1. \A b \in Actor : Unsaved(b)' \/ Loaded(b)' => job'[b] = job[b]
          BY <3>1, <4>2 DEF Loaded
        <5>2. \A b \in Actor : Unsaved(b) => job[b].token # NoToken /\ job[b].token # store["api"]
          BY DEF Unsaved, PairInv
        <5> QED
          BY <4>1, <4>2, <5>1, <5>2 DEF PairInv
      <4>4. /\ \A b \in Actor : Loaded(b)' => job'[b].of = "api" /\ job'[b].token \in 1 .. issued
                                         /\ spentBy[job'[b].token] \notin ProcessOf(b)
            /\ \A b \in Actor : job'[b].at = "refused" =>
                 job'[b].token \in 1 .. issued /\ spentBy[job'[b].token] \in Actor \ ProcessOf(b)
        BY <3>1, <4>2 DEF PairInv, Loaded
      <4>5. /\ store'["api"] \in 0 .. issued /\ (signedOut' <=> store'["api"] = NoToken)
            /\ (store["api"] # NoToken /\ spentBy[store["api"]] # Free => Unsaved(spentBy[store["api"]]))'
        <5>1. store["api"] # NoToken => spentBy[store["api"]] \in Actor \cup {Free}
          BY DEF PairInv, AccountTypeOK, NoToken
        <5>2. NoToken \in 0 .. issued
          BY DEF NoToken, AccountTypeOK
        <5> QED
          BY <3>2, <4>1, <4>2, <5>1, <5>2 DEF PairInv
      <4> QED
        BY <3>2, <3>4, <4>3, <4>4, <4>5 DEF PairInv, ProcessOf
    <3>6. CASE Unsaved(a)
      <4>1. job[a].of = "api" /\ job[a].token # NoToken /\ job[a].token \in 1 .. issued /\ spentBy[job[a].token] = Free
        BY <3>6 DEF Unsaved, PairInv
      <4>2. store'["api"] = job[a].token /\ signedOut' = FALSE
        BY <3>2, <4>1 DEF AccountTypeOK, AccountName
      <4>3. ~Unsaved(a)' /\ \A b \in Actor : b # a => (Unsaved(b)' <=> Unsaved(b))
        BY <3>1 DEF Unsaved
      <4>4. \A b \in Actor : (Loaded(b)' <=> Loaded(b)) /\ (Loaded(b) \/ job'[b].at = "refused" => b # a)
        BY <3>1 DEF Loaded
      <4>5. job[a].token \in 0 .. issued
        BY <4>1 DEF AccountTypeOK
      <4> QED
        BY <3>1, <3>2, <3>4, <3>6, <4>1, <4>2, <4>3, <4>4, <4>5 DEF PairInv, ProcessOf
    <3> QED
      BY <3>5, <3>6
  <2>5. CASE Unlock(a)
    <3>1. job[a].at = "written" /\ job'[a].at \in {"stored", "rest"} /\ \A b \in Actor : b # a => job'[b] = job[b]
      BY <2>5 DEF Unlock, Rests, Resting, AccountTypeOK, JobType
    <3>2. UNCHANGED <<store, signedOut, issued, spentBy>> /\ (gate' = gate \/ (gate = a /\ gate' = Free))
      BY <2>5 DEF Unlock, credentials, HandBack
    <3>3. PairInv'
      BY <3>1, <3>2, PairsStand DEF Unsaved
    <3>4. GateInv'
      BY <3>1, <3>2, GatesStand DEF InLock, Inside
    <3> QED
      BY <3>3, <3>4
  <2> QED
    BY <1>3, <2>1, <2>2, <2>3, <2>4, <2>5
<1>4. CASE ReadDerived \/ CheckEnds \/ Rejected \/ Revoke \/ LockAges \/ UNCHANGED account
  <2>1. UNCHANGED <<issued, spentBy, store, signedOut, gate, job>>
    BY <1>4 DEF ReadDerived, CheckEnds, Rejected, Revoke, LockAges, account, credentials, sessionVars
  <2>2. lock' = lock \/ (lock' = [lock EXCEPT !.stale = TRUE] /\ lock # Unlocked)
    BY <1>4 DEF ReadDerived, CheckEnds, Rejected, Revoke, LockAges, account
  <2>3. lock'.by = lock.by /\ (lock # Unlocked => lock' # Unlocked)
    BY <2>2 DEF AccountTypeOK, Unlocked
  <2>4. PairInv'
    BY <2>1 DEF PairInv, Unsaved, Loaded, ProcessOf
  <2>5. GateInv'
    BY <2>1, <2>3 DEF GateInv, InLock, Inside
  <2> QED
    BY <2>4, <2>5
<1>5. ASSUME NEW process \in {Task} \cup {{c} : c \in Command}, Crash(process) PROVE PairInv' /\ GateInv'
  <2>1. \A a \in process : ~Unsaved(a)
    BY <1>5 DEF Crash
  <2>2. \A a \in Actor : IF a \in process THEN job'[a].at = "rest" ELSE job'[a] = job[a]
    BY <1>5 DEF Crash, Resting
  <2>3. UNCHANGED <<store, signedOut, lock, issued, spentBy>>
    BY <1>5 DEF Crash, credentials
  <2>4. gate \notin process => gate' = gate
    BY <1>5 DEF Crash
  <2>5. \A a \in Actor : (Unsaved(a)' <=> Unsaved(a)) /\ (Loaded(a)' => Loaded(a) /\ a \notin process)
                         /\ (Unsaved(a) => a \notin process) /\ (job'[a].at = "refused" => a \notin process)
    BY <2>1, <2>2 DEF Unsaved, Loaded
  <2>6. store["api"] # NoToken => spentBy[store["api"]] \in Actor \cup {Free}
    BY DEF PairInv, AccountTypeOK, NoToken
  <2>7. PairInv'
    BY <2>2, <2>3, <2>5, <2>6 DEF PairInv, ProcessOf
  <2>8. \A t \in Task : Inside(t)' => gate' = t
    <3>1. \A t \in Task : Inside(t)' => t \notin process /\ Inside(t)
      BY <2>2 DEF Inside, Actor
    <3>2. \A t \in Task : Inside(t)' => process # Task
      BY <3>1
    <3>3. \A t \in Task : process # Task => t \notin process
      BY DEF Actor
    <3> QED
      BY <2>4, <3>1, <3>2, <3>3 DEF GateInv
  <2> QED
    BY <2>2, <2>3, <2>7, <2>8 DEF GateInv, InLock
<1> QED
  BY <1>1, <1>2, <1>3, <1>4, <1>5 DEF AccountNext

LEMMA AccountInvInit == AccountInit => AccountInv
<1> SUFFICES ASSUME AccountInit PROVE AccountInv
  OBVIOUS
<1>1. \A a \in Actor : job[a] = Resting
  BY DEF AccountInit
<1>2. AccountTypeOK
  <2>1. store \in [AccountName -> Int]
    BY DEF AccountInit, AccountName
  <2>2. lock \in [by : Actor \cup {Free}, stale : BOOLEAN]
    BY DEF AccountInit, Unlocked
  <2>3. job \in [Actor -> JobType] /\ \A a \in Actor : job[a].at # "read"
    BY <1>1, RestingTyped DEF AccountInit
  <2>4. issued \in 1 .. Grants /\ spentBy \in [1 .. Grants -> Actor \cup {Free}]
    BY AccountAssumption DEF AccountInit
  <2>5. signedOut = FALSE /\ gate = Free /\ playable \subseteq Int /\ harmed = FALSE
    BY DEF AccountInit
  <2> QED
    BY <2>1, <2>2, <2>3, <2>4, <2>5 DEF AccountTypeOK
<1>3. PairInv
  <2>1. issued = 1 /\ store["api"] = 1 /\ signedOut = FALSE /\ \A n \in 1 .. Grants : spentBy[n] = Free
    BY AccountAssumption DEF AccountInit
  <2> QED
    BY <1>1, <2>1, RestingTyped, AccountAssumption DEF PairInv, Unsaved, Loaded, NoToken
<1>4. GateInv
  BY <1>1, RestingTyped DEF GateInv, InLock, Inside, Actor
<1> QED
  BY <1>2, <1>3, <1>4 DEF AccountInv

LEMMA AccountInvStep == AccountInv /\ [AccountNext]_account => AccountInv'
<1> SUFFICES ASSUME AccountInv, [AccountNext]_account PROVE AccountInv'
  OBVIOUS
<1>1. AccountTypeOK'
  BY AccountTypeStep DEF AccountInv
<1>2. CASE harmed
  BY <1>1, <1>2, HarmStands DEF AccountInv
<1>3. CASE ~harmed /\ ~harmed'
  BY <1>1, <1>3, AccountPairStep DEF AccountInv
<1> QED
  BY <1>1, <1>2, <1>3 DEF AccountInv

LEMMA AccountInvSession == AccountInv => SessionSurvives
<1> SUFFICES ASSUME AccountTypeOK, PairInv PROVE SessionSurvives
  BY DEF AccountInv, SessionSurvives
<1>1. signedOut => store["api"] = NoToken
  BY DEF PairInv
<1>2. ~signedOut => store["api"] \in granted \/ \E a \in Actor : Unsaved(a)
  <2> SUFFICES ASSUME ~signedOut PROVE store["api"] \in granted \/ \E a \in Actor : Unsaved(a)
    OBVIOUS
  <2>1. store["api"] \in 1 .. issued /\ store["api"] \in 1 .. Grants
    BY AccountAssumption DEF PairInv, AccountTypeOK, NoToken
  <2>2. CASE spentBy[store["api"]] = Free
    BY <2>1, <2>2 DEF granted
  <2>3. CASE spentBy[store["api"]] # Free
    BY <2>1, <2>3 DEF PairInv, AccountTypeOK
  <2> QED
    BY <2>2, <2>3
<1> QED
  BY <1>1, <1>2 DEF PairInv, SessionSurvives

(* file.go, lock, and helix.go, Session: for any number of tasks, commands *)
(* and grants, and whatever order the exchanges, the writes and the ends   *)
(* of processes come in, the stored session is alive until it is ended,    *)
(* unless a granted pair was dropped or a lock was taken over, and only a  *)
(* process whose token another one spent is told to authorize again.       *)
THEOREM SessionSurvived == AccountSpec => []SessionSurvives
  BY AccountInvInit, AccountInvStep, AccountInvSession, PTL DEF AccountSpec


----------------------------------------------------------------------------
(* Device *)

DeviceTypeOK ==
  /\ second \in Nat /\ interval \in Int /\ deadline \in Int /\ due \in Int
  /\ code \in [life : Int, every : Int]
  /\ polls \in [last : Int, before : Int, wanted : Int, slow : BOOLEAN]
  /\ page \in [did : {"nothing", "authorized", "refused"}, at : Int]

(* The timer is set an interval past the last poll, and the interval is    *)
(* what the platform wants by now or the longest one that is honoured.     *)
TimerInv ==
  /\ polls.last >= 0
  /\ flow = "start" => polls.last = 0
  /\ flow = "waiting" => /\ interval >= 1 /\ due >= polls.last + interval
                         /\ interval >= code.every \/ interval >= MaxPoll

(* Who enters a code that was given up does so past its deadline, unless   *)
(* the platform answered slow_down or has forgotten it.                    *)
GivenUpInv ==
  flow = "expired" /\ page.did = "nothing" => second >= deadline \/ polls.slow \/ ServerForgets

DeviceInv == DeviceTypeOK /\ TimerInv /\ GivenUpInv /\ AuthorizationIsHeard

LEMMA ClampedIsIn == \A n \in Int, most \in 1 .. Huge :
                       /\ Clamped(n, most) \in Int /\ Clamped(n, most) >= 1
                       /\ Clamped(n, most) >= n \/ Clamped(n, most) >= most
  BY DEF Clamped, Huge

(* A poll that the timer allowed keeps the platform's distance.            *)
LEMMA PollKeepsDistance ==
  ASSUME DeviceTypeOK, TimerInv, flow = "waiting", second >= due, NEW slow \in BOOLEAN, Polled(slow)
  PROVE  /\ polls' \in [last : Int, before : Int, wanted : Int, slow : BOOLEAN]
         /\ polls'.last = second /\ polls'.slow = slow
         /\ polls'.last > polls'.before
         /\ polls'.last - polls'.before >= polls'.wanted \/ polls'.last - polls'.before >= MaxPoll
<1>1. polls' = [last |-> second, before |-> polls.last, wanted |-> code.every, slow |-> slow]
  BY DEF Polled
<1>2. second \in Int /\ polls.last \in Int /\ code.every \in Int /\ interval \in Int /\ due \in Int /\ MaxPoll \in Int
  BY DeviceAssumption DEF DeviceTypeOK
<1>3. second - polls.last >= interval /\ interval >= 1
  BY <1>2 DEF TimerInv
<1>4. interval >= code.every \/ interval >= MaxPoll
  BY DEF TimerInv
<1>5. second - polls.last >= code.every \/ second - polls.last >= MaxPoll
  BY <1>2, <1>3, <1>4
<1> QED
  BY <1>1, <1>2, <1>3, <1>5

LEMMA DeviceInvStep == DeviceInv /\ [DeviceNext]_device => DeviceInv'
<1> SUFFICES ASSUME DeviceInv, [DeviceNext]_device PROVE DeviceInv'
  OBVIOUS
<1>t. DeviceTypeOK /\ TimerInv
  BY DEF DeviceInv
<1>a. MaxPoll \in 1 .. Huge /\ MaxExpiry \in 1 .. Huge /\ SlowDownStep \in Nat \ {0} /\ Lifetimes \subseteq Int
      /\ Intervals \subseteq Int
  BY DeviceAssumption
<1>1. CASE StartDevice
  <2>1. CASE flow' = "failed" /\ UNCHANGED <<code, interval, deadline, due>>
    BY <1>1, <2>1 DEF StartDevice, DeviceInv, DeviceTypeOK, TimerInv, GivenUpInv, AuthorizationIsHeard
  <2>2. ASSUME NEW life \in Lifetimes, NEW every \in Intervals,
               code' = [life |-> life, every |-> every],
               interval' = ClampInterval(every), deadline' = ClampExpiry(life),
               due' = interval', flow' = "waiting"
        PROVE  DeviceInv'
    <3>1. life \in Int /\ every \in Int
      BY <1>a
    <3>2. interval' \in Int /\ interval' >= 1 /\ (interval' >= every \/ interval' >= MaxPoll) /\ deadline' \in Int
      BY <1>a, <2>2, <3>1, ClampedIsIn DEF ClampInterval, ClampExpiry
    <3>3. code' \in [life : Int, every : Int] /\ code'.every = every
      BY <2>2, <3>1
    <3>4. flow = "start" /\ UNCHANGED <<second, polls, page>>
      BY <1>1 DEF StartDevice
    <3> QED
      BY <2>2, <3>2, <3>3, <3>4 DEF DeviceInv, DeviceTypeOK, TimerInv, GivenUpInv, AuthorizationIsHeard
  <2> QED
    BY <1>1, <2>1, <2>2 DEF StartDevice
<1>2. CASE PollPending
  <2>1. /\ flow = "waiting" /\ second >= due /\ page.did = "nothing" /\ Polled(FALSE)
        /\ UNCHANGED <<second, deadline, page, interval, code>> /\ EndOfPoll
    BY <1>2 DEF PollPending
  <2>2. polls' \in [last : Int, before : Int, wanted : Int, slow : BOOLEAN] /\ polls'.last = second
    BY <1>t, <2>1, PollKeepsDistance
  <2>3. AuthorizationIsHeard'
    BY <1>t, <2>1, PollKeepsDistance DEF AuthorizationIsHeard
  <2>4. CASE second >= deadline /\ flow' = "expired" /\ UNCHANGED due
    BY <2>1, <2>2, <2>3, <2>4 DEF DeviceInv, DeviceTypeOK, TimerInv, GivenUpInv
  <2>5. CASE due' = second + interval' /\ UNCHANGED flow
    BY <2>1, <2>2, <2>3, <2>5 DEF DeviceInv, DeviceTypeOK, TimerInv, GivenUpInv
  <2> QED
    BY <2>1, <2>4, <2>5 DEF EndOfPoll
<1>3. CASE PollSlowDown
  <2>1. /\ flow = "waiting" /\ second >= due /\ Polled(TRUE)
        /\ UNCHANGED <<second, deadline, page>> /\ EndOfPoll
        /\ interval' = interval + SlowDownStep /\ code' = [code EXCEPT !.every = @ + SlowDownStep]
    BY <1>3 DEF PollSlowDown
  <2>2. polls' \in [last : Int, before : Int, wanted : Int, slow : BOOLEAN] /\ polls'.last = second /\ polls'.slow
    BY <1>t, <2>1, PollKeepsDistance
  <2>3. AuthorizationIsHeard'
    BY <1>t, <2>1, <2>2, PollKeepsDistance DEF AuthorizationIsHeard
  <2>4. code.every \in Int /\ interval \in Int /\ MaxPoll \in Int /\ SlowDownStep \in Int /\ SlowDownStep >= 1
    BY <1>a, <1>t DEF DeviceTypeOK
  <2>5. code' \in [life : Int, every : Int] /\ code'.every = code.every + SlowDownStep
    BY <1>t, <2>1, <2>4 DEF DeviceTypeOK
  <2>6. interval' \in Int /\ interval' >= 1 /\ (interval' >= code'.every \/ interval' >= MaxPoll)
    BY <1>t, <2>1, <2>4, <2>5 DEF TimerInv
  <2>7. CASE second >= deadline /\ flow' = "expired" /\ UNCHANGED due
    BY <2>1, <2>2, <2>3, <2>5, <2>6, <2>7 DEF DeviceInv, DeviceTypeOK, TimerInv, GivenUpInv
  <2>8. CASE due' = second + interval' /\ UNCHANGED flow
    BY <2>1, <2>2, <2>3, <2>5, <2>6, <2>8 DEF DeviceInv, DeviceTypeOK, TimerInv, GivenUpInv
  <2> QED
    BY <2>1, <2>7, <2>8 DEF EndOfPoll
<1>4. ASSUME NEW end \in {"granted", "denied", "failed"}, NEW did,
             PollSettles(did, end) \/ (PollFails /\ end = "failed")
      PROVE  DeviceInv'
  <2>1. /\ flow = "waiting" /\ second >= due /\ Polled(FALSE) /\ flow' = end
        /\ UNCHANGED <<second, code, interval, deadline, due, page>>
    BY <1>4 DEF PollSettles, PollFails
  <2>2. polls' \in [last : Int, before : Int, wanted : Int, slow : BOOLEAN] /\ polls'.last = second
    BY <1>t, <2>1, PollKeepsDistance
  <2>3. AuthorizationIsHeard'
    BY <1>t, <2>1, PollKeepsDistance DEF AuthorizationIsHeard
  <2> QED
    BY <2>1, <2>2, <2>3 DEF DeviceInv, DeviceTypeOK, TimerInv, GivenUpInv
<1>5. CASE PollSettles("forgotten", "expired")
  <2>1. /\ flow = "waiting" /\ second >= due /\ Polled(FALSE) /\ flow' = "expired"
        /\ UNCHANGED <<second, code, interval, deadline, due, page>>
    BY <1>5 DEF PollSettles
  <2>2. polls' \in [last : Int, before : Int, wanted : Int, slow : BOOLEAN] /\ polls'.last = second
    BY <1>t, <2>1, PollKeepsDistance
  <2>3. page.did = "nothing" /\ ServerForgets
    BY <1>5, <1>t DEF PollSettles, DeviceTypeOK
  <2>4. AuthorizationIsHeard'
    BY <1>t, <2>1, <2>3, PollKeepsDistance DEF AuthorizationIsHeard
  <2> QED
    BY <2>1, <2>2, <2>3, <2>4 DEF DeviceInv, DeviceTypeOK, TimerInv, GivenUpInv, ServerForgets
<1>6. CASE Interrupt \/ StoreGrant
  BY <1>6 DEF Interrupt, StoreGrant, DeviceInv, DeviceTypeOK, TimerInv, GivenUpInv, AuthorizationIsHeard
<1>7. CASE AtThePage
  <2>1. PICK did \in {"authorized", "refused"} : page' = [did |-> did, at |-> second]
    BY <1>7 DEF AtThePage
  <2>2. page'.did # "nothing" /\ page'.at = second /\ page' \in [did : {"nothing", "authorized", "refused"}, at : Int]
    BY <1>t, <2>1 DEF DeviceTypeOK
  <2>3. /\ flow \in {"waiting", "expired"} /\ page.did = "nothing" /\ ~ServerForgets
        /\ UNCHANGED <<second, code, interval, deadline, due, polls, flow>>
    BY <1>7 DEF AtThePage
  <2> QED
    BY <2>2, <2>3 DEF DeviceInv, DeviceTypeOK, TimerInv, GivenUpInv, AuthorizationIsHeard
<1>8. CASE SecondPasses
  BY <1>8 DEF SecondPasses, DeviceInv, DeviceTypeOK, TimerInv, GivenUpInv, AuthorizationIsHeard
<1>9. CASE UNCHANGED device
  BY <1>9 DEF device, DeviceInv, DeviceTypeOK, TimerInv, GivenUpInv, AuthorizationIsHeard, ServerForgets
<1> QED
  BY <1>1, <1>2, <1>3, <1>4, <1>5, <1>6, <1>7, <1>8, <1>9 DEF DeviceNext

LEMMA DeviceInvInit == DeviceInit => DeviceInv
  BY DEF DeviceInit, DeviceInv, DeviceTypeOK, TimerInv, GivenUpInv, AuthorizationIsHeard, Never

(* device.go, PollDevice and clampInterval: for any numbers of the         *)
(* platform's, however late the timer fires and whenever the operator      *)
(* enters the code, polls keep their distance and what was entered in time *)
(* is heard.                                                               *)
THEOREM AuthorizationHeard == DeviceSpec => []AuthorizationIsHeard
<1>1. DeviceInv => AuthorizationIsHeard
  BY DEF DeviceInv
<1> QED
  BY <1>1, DeviceInvInit, DeviceInvStep, PTL DEF DeviceSpec

----------------------------------------------------------------------------
(* Calendar                                                                *)

LEMMA ZoneIs ==
  ASSUME zone \in Zone
  PROVE  /\ zone.base \in Int /\ zone.base <= 0 /\ zone.change \in Int /\ zone.jump \in {-1, 0, 1}
         /\ \A t \in Int : Offset(t) = IF t < zone.change THEN zone.base ELSE zone.base + zone.jump
<1>1. \A w \in West : -w \in Int /\ -w <= 0
  BY CalendarAssumption
<1>2. \A c \in Hours + 1 .. 2 * Hours + 1 : c \in Int
  BY CalendarAssumption
<1>3. zone.base \in {-w : w \in West} /\ zone.change \in {0} \cup (Hours + 1 .. 2 * Hours + 1) /\ zone.jump \in {-1, 0, 1}
  BY DEF Zone, Unchanging
<1>4. zone.base \in Int /\ zone.base <= 0
  BY <1>1, <1>3
<1> QED
  BY <1>2, <1>3, <1>4 DEF Offset

(* The day of an instant is the one its reading on the wall falls in.      *)
LEMMA DayKeyIs ==
  ASSUME zone \in Zone, NEW day \in Int, NEW t \in Int
  PROVE  /\ DayKey(t) \in Int /\ day * Hours \in Int
         /\ DayKey(t) >= day <=> t + Offset(t) >= day * Hours
         /\ DayKey(t) = day <=> day * Hours <= t + Offset(t) /\ t + Offset(t) < day * Hours + Hours
<1>1. Offset(t) \in Int
  BY ZoneIs
<1> DEFINE reading == t + Offset(t)
           key     == DayKey(t)
<1>2. reading \in Int /\ key = reading \div Hours
  BY <1>1 DEF DayKey
<1> HIDE DEF reading, key
<1>3. key \in Int /\ Hours * key <= reading /\ reading < Hours * key + Hours
  BY <1>2, CalendarAssumption
<1>4. \A d, e \in Int : d <= e => d * Hours <= e * Hours
  BY CalendarAssumption
<1>5. \A d \in Int : d * Hours \in Int /\ (d + 1) * Hours = d * Hours + Hours /\ Hours * d = d * Hours
  BY CalendarAssumption
<1>6. key >= day => day * Hours <= key * Hours
  BY <1>3, <1>4
<1>7. ~(key >= day) => (key + 1) * Hours <= day * Hours
  BY <1>3, <1>4
<1>8. ~(day >= key) => (day + 1) * Hours <= key * Hours
  BY <1>3, <1>4
<1>9. day * Hours \in Int /\ key * Hours \in Int /\ Hours \in Int
      /\ key * Hours <= reading /\ reading < key * Hours + Hours
      /\ (key + 1) * Hours = key * Hours + Hours /\ (day + 1) * Hours = day * Hours + Hours
  BY <1>3, <1>5, CalendarAssumption
<1>10. key >= day <=> reading >= day * Hours
  BY <1>2, <1>3, <1>6, <1>7, <1>9
<1>11. key = day <=> day * Hours <= reading /\ reading < day * Hours + Hours
  BY <1>2, <1>3, <1>6, <1>7, <1>8, <1>9
<1> QED
  BY <1>3, <1>9, <1>10, <1>11 DEF reading, key

(* time.Date lands on the midnight it is asked for, unless it never        *)
(* happens.                                                                *)
LEMMA MidnightIs ==
  ASSUME zone \in Zone, ~TwiceMidnight, NEW day \in Int
  PROVE  /\ MidnightOf(day) \in Int /\ day * Hours \in Int
         /\ \/ MidnightOf(day) + Offset(MidnightOf(day)) = day * Hours
            \/ /\ zone.jump = 1 /\ day * Hours = zone.change + zone.base
               /\ MidnightOf(day) \in {zone.change - 1, zone.change}
<1> DEFINE reading == day * Hours
           base    == zone.base
           change  == zone.change
           jump    == zone.jump
           midnight == MidnightOf(day)
<1>1. /\ base \in Int /\ base <= 0 /\ change \in Int /\ jump \in {-1, 0, 1}
      /\ \A x \in Int : Offset(x) = IF x < change THEN base ELSE base + jump
  BY ZoneIs
<1>2. reading \in Int /\ Hours \in Int /\ Hours > 1
  BY CalendarAssumption
<1>3. jump = -1 => reading # change + base - 1
  <2>1. ASSUME jump = -1, reading = change + base - 1 PROVE TwiceMidnight
    <3>1. reading % Hours = 0
      BY CalendarAssumption
    <3>2. 0 \in 0 .. -jump - 1 /\ change + 0 + base + jump = reading
      BY <1>1, <2>1
    <3> QED
      BY <2>1, <3>1, <3>2 DEF TwiceMidnight
  <2> QED
    BY <2>1
<1>4. midnight = IF (reading < change) = (reading - Offset(reading) < change) THEN reading - Offset(reading)
                 ELSE reading - Offset(reading - Offset(reading))
  BY DEF MidnightOf
<1> HIDE DEF reading, base, change, jump, midnight
<1>5. /\ midnight \in Int
      /\ \/ midnight + Offset(midnight) = reading
         \/ jump = 1 /\ reading = change + base /\ midnight \in {change - 1, change}
  <2> DEFINE guess == reading - Offset(reading)
  <2>1. /\ guess = IF reading < change THEN reading - base ELSE reading - (base + jump)
        /\ guess \in Int /\ Offset(guess) = IF guess < change THEN base ELSE base + jump
    BY <1>1, <1>2
  <2>2. midnight = IF (reading < change) = (guess < change) THEN guess ELSE reading - Offset(guess)
    BY <1>4
  <2> HIDE DEF guess
  <2>3. CASE reading < change /\ guess < change
    <3>1. midnight = guess /\ guess = reading - base /\ Offset(guess) = base
      BY <2>1, <2>2, <2>3
    <3> QED
      BY <1>1, <1>2, <3>1
  <2>4. CASE ~(reading < change) /\ ~(guess < change)
    <3>1. midnight = guess /\ guess = reading - (base + jump) /\ Offset(guess) = base + jump
      BY <2>1, <2>2, <2>4
    <3> QED
      BY <1>1, <1>2, <3>1
  <2>5. CASE reading < change /\ ~(guess < change)
    <3>1. midnight = reading - (base + jump) /\ guess = reading - base
      BY <2>1, <2>2, <2>5
    <3>2. Offset(midnight) = IF midnight < change THEN base ELSE base + jump
      BY <1>1, <1>2, <3>1
    <3> QED
      BY <1>1, <1>2, <1>3, <2>5, <3>1, <3>2
  <2>6. CASE ~(reading < change) /\ guess < change
    <3>1. midnight = reading - base /\ guess = reading - (base + jump)
      BY <2>1, <2>2, <2>6
    <3>2. Offset(midnight) = IF midnight < change THEN base ELSE base + jump
      BY <1>1, <1>2, <3>1
    <3> QED
      BY <1>1, <1>2, <1>3, <2>6, <3>1, <3>2
  <2> QED
    BY <2>3, <2>4, <2>5, <2>6
<1> QED
  BY <1>2, <1>5 DEF reading, base, change, jump, midnight

(* A day begins with the first instant that is of it or of a later one.    *)
LEMMA DayReached ==
  ASSUME zone \in Zone, ~TwiceMidnight, NEW day \in Int, NEW t \in Int
  PROVE  StartOfDayOn(day) \in Int /\ (StartOfDayOn(day) <= t <=> DayKey(t) >= day)
<1> DEFINE reading == day * Hours
           base    == zone.base
           change  == zone.change
           jump    == zone.jump
           midnight == MidnightOf(day)
           start   == StartOfDayOn(day)
<1>1. /\ base \in Int /\ base <= 0 /\ change \in Int /\ jump \in {-1, 0, 1}
      /\ \A x \in Int : Offset(x) = IF x < change THEN base ELSE base + jump
  BY ZoneIs
<1>2. reading \in Int /\ Hours \in Int /\ Hours > 1
  BY CalendarAssumption
<1>3. jump = -1 => reading # change + base - 1
  <2>1. ASSUME jump = -1, reading = change + base - 1 PROVE TwiceMidnight
    <3>1. reading % Hours = 0
      BY CalendarAssumption
    <3>2. 0 \in 0 .. -jump - 1 /\ change + 0 + base + jump = reading
      BY <1>1, <2>1
    <3> QED
      BY <2>1, <3>1, <3>2 DEF TwiceMidnight
  <2> QED
    BY <2>1
<1>5. start = IF DayKey(midnight) = day THEN midnight
              ELSE midnight + Offset(midnight + Hours) - Offset(midnight)
  BY DEF StartOfDayOn
<1>6. \A x \in Int : /\ DayKey(x) >= day <=> x + Offset(x) >= reading
                     /\ DayKey(x) = day <=> reading <= x + Offset(x) /\ x + Offset(x) < reading + Hours
  BY DayKeyIs
<1> HIDE DEF reading, base, change, jump, midnight, start
<1>7. /\ midnight \in Int
      /\ \/ midnight + Offset(midnight) = reading
         \/ jump = 1 /\ reading = change + base /\ midnight \in {change - 1, change}
  BY MidnightIs DEF reading, base, change, jump, midnight
<1>8. start \in Int /\ \/ start + Offset(start) = reading
                       \/ jump = 1 /\ reading = change + base /\ start = change
  <2>1. CASE midnight + Offset(midnight) = reading
    <3>1. DayKey(midnight) = day
      BY <1>1, <1>2, <1>6, <1>7, <2>1
    <3> QED
      BY <1>5, <1>7, <2>1, <3>1
  <2>2. CASE jump = 1 /\ reading = change + base /\ midnight = change - 1
    <3>1. Offset(midnight) = base /\ Offset(midnight + Hours) = base + 1
      BY <1>1, <1>2, <2>2
    <3>2. DayKey(midnight) # day
      BY <1>1, <1>2, <1>6, <1>7, <2>2, <3>1
    <3> QED
      BY <1>1, <1>5, <2>2, <3>1, <3>2
  <2>3. CASE jump = 1 /\ reading = change + base /\ midnight = change
    <3>1. Offset(midnight) = base + 1
      BY <1>1, <2>3
    <3>2. DayKey(midnight) = day
      BY <1>1, <1>2, <1>6, <1>7, <2>3, <3>1
    <3> QED
      BY <1>1, <1>5, <2>3, <3>2
  <2> QED
    BY <1>7, <2>1, <2>2, <2>3
<1>9. start <= t <=> t + Offset(t) >= reading
  BY <1>1, <1>2, <1>3, <1>8
<1> QED
  BY <1>6, <1>8, <1>9 DEF start


CalendarTypeOK ==
  /\ zone \in Zone /\ begun \in [Aired -> Int] /\ unread \subseteq Aired
  /\ made \in [Take -> Taken \cup {Unmade}]

LEMMA MadeIs ==
  ASSUME CalendarTypeOK, NEW r \in Take, made[r].of \in Aired
  PROVE  made[r] \in Taken /\ made[r] # Unmade /\ RecordedAt(r) \in Int
<1>1. made[r] \in Taken \cup {Unmade} /\ begun \in [Aired -> Int]
  BY DEF CalendarTypeOK
<1>2. Unmade.of = 0 /\ 0 \notin Aired
  BY DEF Unmade, Aired
<1>3. made[r] \in Taken /\ made[r] # Unmade
  BY <1>1, <1>2
<1>4. made[r].late \in {0, 1} /\ begun[made[r].of] \in Int
  BY <1>1, <1>3 DEF Taken
<1> QED
  BY <1>3, <1>4 DEF RecordedAt

(* What begins on a day that is asked about is asked about.                *)
LEMMA DayAsked ==
  ASSUME CalendarTypeOK, ~TwiceMidnight, NEW day \in 1 .. LastDay, NEW t \in Int, DayKey(t) = day
  PROVE  Asked(t)
<1>1. zone \in Zone
  BY DEF CalendarTypeOK
<1>2. LastDay \in Nat /\ 1 \in Int /\ LastDay + 1 \in Int /\ day >= 1 /\ ~(day >= LastDay + 1) /\ day \in Int
  BY CalendarAssumption
<1>3. FirstInstant \in Int /\ (FirstInstant <= t <=> DayKey(t) >= 1)
  BY <1>1, <1>2, DayReached DEF FirstInstant
<1>4. LastInstant \in Int /\ (LastInstant <= t <=> DayKey(t) >= LastDay + 1)
  BY <1>1, <1>2, DayReached DEF LastInstant
<1>5. FirstInstant <= t /\ ~(LastInstant <= t)
  BY <1>2, <1>3, <1>4
<1> QED
  BY <1>4, <1>5 DEF Asked

(* A day that claims to be whole is one all of whose broadcasts are held.  *)
LEMMA WholeIs ==
  ASSUME NEW broadcasts, CaptureState(broadcasts) \in {"held", "at_risk"}
  PROVE  Captured(broadcasts) = broadcasts /\ ~Holed(broadcasts) /\ ~Degraded
BY DEF CaptureState, Weakest

LEMMA NeverQuiet ==
  ASSUME NEW broadcasts
  PROVE  CaptureState(broadcasts) # "no_stream"
BY DEF CaptureState, Weakest

LEMMA QuietIs ==
  ASSUME NEW recordings, NEW quiet, quiet \in {"no_stream", "unknown"}, RecordedState(recordings, quiet) = "no_stream"
  PROVE  quiet = "no_stream"
BY DEF RecordedState, Weakest

LEMMA CalendarHonest ==
  ASSUME CalendarTypeOK
  PROVE  DaysAreHonest
<1> SUFFICES ASSUME ~TwiceMidnight, NEW day \in 1 .. LastDay
             PROVE  /\ Painted(day) \in {"held", "at_risk"} /\ BeganOn(day) \ unread # {} =>
                         \A b \in BeganOn(day) :
                           /\ b \notin unread
                           /\ \E r \in Take : made[r].of = b /\ made[r].state \in {"complete", "awaiting"}
                           /\ \A r \in Take : made[r].of = b /\ Asked(RecordedAt(r)) => ~made[r].holed
                    /\ Painted(day) = "no_stream" => BeganOn(day) = {}
  BY DEF DaysAreHonest
<1> DEFINE broadcasts == {b \in Rows : DayKey(begun[b]) = day}
           recordings == {r \in Recorded : DayKey(RecordedAt(r)) = day}
           quiet      == IF Watched(day) /\ ~Degraded THEN "no_stream" ELSE "unknown"
<1>1. Painted(day) = IF broadcasts # {} THEN CaptureState(broadcasts) ELSE RecordedState(recordings, quiet)
  BY DEF Painted
<1>2. \A b \in BeganOn(day) : b \in Aired /\ DayKey(begun[b]) = day /\ Asked(begun[b])
  <2> SUFFICES ASSUME NEW b \in BeganOn(day) PROVE b \in Aired /\ DayKey(begun[b]) = day /\ Asked(begun[b])
    OBVIOUS
  <2>1. b \in Aired /\ DayKey(begun[b]) = day /\ begun[b] \in Int
    BY DEF BeganOn, CalendarTypeOK
  <2> QED
    BY <2>1, DayAsked
<1>3. BeganOn(day) \ unread \subseteq broadcasts /\ broadcasts \subseteq BeganOn(day) \ unread
  BY <1>2 DEF Rows, BeganOn
<1>4. ~Degraded => BeganOn(day) \cap unread = {}
  BY <1>2 DEF Degraded
<1> HIDE DEF broadcasts, recordings
<1>5. ASSUME Painted(day) \in {"held", "at_risk"}, BeganOn(day) \ unread # {}, NEW b \in BeganOn(day)
      PROVE  /\ b \notin unread
             /\ \E r \in Take : made[r].of = b /\ made[r].state \in {"complete", "awaiting"}
             /\ \A r \in Take : made[r].of = b /\ Asked(RecordedAt(r)) => ~made[r].holed
  <2>1. CaptureState(broadcasts) \in {"held", "at_risk"}
    BY <1>1, <1>3, <1>5
  <2>2. Captured(broadcasts) = broadcasts /\ ~Holed(broadcasts) /\ ~Degraded
    BY <2>1, WholeIs
  <2>3. b \notin unread /\ b \in broadcasts /\ b \in Aired
    BY <1>2, <1>3, <1>4, <1>5, <2>2
  <2>4. PICK r \in Proving \cap CapturesOf(broadcasts) : made[r].of = b
    BY <2>2, <2>3 DEF Captured
  <2>5. r \in Take /\ Evidence(r) # "none"
    BY <2>4 DEF Proving, Recorded
  <2>6. made[r].state \in {"complete", "awaiting"}
    <3>1. made[r] \in Taken
      BY <2>3, <2>4, <2>5, MadeIs
    <3>2. made[r].state \in {"complete", "awaiting", "failed"}
      BY <3>1 DEF Taken
    <3>3. made[r].state = "failed" => Evidence(r) = "none"
      BY DEF Evidence
    <3> QED
      BY <2>5, <3>2, <3>3
  <2>7. ASSUME NEW s \in Take, made[s].of = b, Asked(RecordedAt(s)) PROVE ~made[s].holed
    <3>1. s \in Recorded
      BY <2>3, <2>7, MadeIs DEF Recorded
    <3>2. s \in CapturesOf(broadcasts)
      BY <2>3, <2>7, <3>1 DEF CapturesOf
    <3> QED
      BY <2>2, <3>2 DEF Holed
  <2> QED
    BY <2>3, <2>4, <2>5, <2>6, <2>7
<1>6. ASSUME Painted(day) = "no_stream" PROVE BeganOn(day) = {}
  <2>1. broadcasts = {}
    BY <1>1, <1>6, NeverQuiet
  <2>2. quiet \in {"no_stream", "unknown"} /\ (quiet = "no_stream" => ~Degraded)
    OBVIOUS
  <2> HIDE DEF quiet
  <2>3. quiet = "no_stream"
    BY <1>1, <1>6, <2>1, <2>2, QuietIs
  <2> QED
    BY <1>3, <1>4, <2>1, <2>2, <2>3
<1> QED
  BY <1>5, <1>6

LEMMA CalendarInvInit ==
  (CalendarInit \/ PlanInit => CalendarTypeOK)
<1>1. \A r \in Take : Unmade \in Taken \cup {Unmade}
  OBVIOUS
<1>2. \A f, S : f \in {g \in [Aired -> S] : g[1] <= g[2]} => f \in [Aired -> S]
  OBVIOUS
<1>3. \A a, b \in Int : [Aired -> a .. b] \subseteq [Aired -> Int]
  OBVIOUS
<1>4. CalendarInit => CalendarTypeOK
  <2> SUFFICES ASSUME CalendarInit PROVE CalendarTypeOK
    OBVIOUS
  <2>1. Hours \in Int /\ Hours * (LastDay + 1) + 1 \in Int
    BY CalendarAssumption
  <2>2. begun \in [Aired -> Int]
    BY <1>2, <1>3, <2>1 DEF CalendarInit
  <2> QED
    BY <1>1, <2>2 DEF CalendarInit, CalendarTypeOK
<1>5. PlanInit => CalendarTypeOK
  <2> SUFFICES ASSUME PlanInit PROVE CalendarTypeOK
    OBVIOUS
  <2>1. begun \in [Aired -> Int]
    BY <1>2, <1>3, PlanAssumption DEF PlanInit
  <2> QED
    BY <1>1, <2>1 DEF PlanInit, CalendarTypeOK
<1> QED
  BY <1>4, <1>5

LEMMA CalendarInvStep ==
  CalendarTypeOK /\ [CalendarNext]_calendar => CalendarTypeOK'
<1> SUFFICES ASSUME CalendarTypeOK, [CalendarNext]_calendar PROVE CalendarTypeOK'
  OBVIOUS
<1>1. ASSUME NEW r \in Take, Record(r) PROVE CalendarTypeOK'
  BY <1>1 DEF Record, CalendarTypeOK
<1>2. ASSUME NEW b \in Aired, Spoil(b) PROVE CalendarTypeOK'
  BY <1>2 DEF Spoil, CalendarTypeOK
<1>3. CASE Heartbeat
  BY <1>3 DEF Heartbeat, CalendarTypeOK
<1>4. CASE UNCHANGED calendar
  BY <1>4 DEF calendar, CalendarTypeOK
<1> QED
  BY <1>1, <1>2, <1>3, <1>4 DEF CalendarNext
----------------------------------------------------------------------------
(* Plan                                                                    *)

LEMMA DivIs ==
  ASSUME NEW n \in Nat \ {0}, NEW q \in Int, NEW x \in Int
  PROVE  /\ x \div n \in Int /\ q * n \in Int /\ (q + 1) * n = q * n + n
         /\ x \div n >= q <=> x >= q * n
         /\ x \div n = q <=> q * n <= x /\ x < q * n + n
<1> DEFINE key == x \div n
<1>1. key \in Int /\ n * key <= x /\ x < n * key + n
  OBVIOUS
<1> HIDE DEF key
<1>2. \A d, e \in Int : d <= e => d * n <= e * n
  OBVIOUS
<1>3. \A d \in Int : d * n \in Int /\ (d + 1) * n = d * n + n /\ n * d = d * n
  OBVIOUS
<1>4. key >= q => q * n <= key * n
  BY <1>1, <1>2
<1>5. ~(key >= q) => (key + 1) * n <= q * n
  BY <1>1, <1>2
<1>6. ~(q >= key) => (q + 1) * n <= key * n
  BY <1>1, <1>2
<1>7. q * n \in Int /\ key * n \in Int /\ key * n <= x /\ x < key * n + n
      /\ (key + 1) * n = key * n + n /\ (q + 1) * n = q * n + n
  BY <1>1, <1>3
<1>8. key >= q <=> x >= q * n
  BY <1>1, <1>4, <1>5, <1>7
<1>9. key = q <=> q * n <= x /\ x < q * n + n
  BY <1>1, <1>4, <1>5, <1>6, <1>7
<1> QED
  BY <1>1, <1>7, <1>8, <1>9 DEF key

(* A clock every midnight of which is struck once.                         *)
EvenClock == zone \in Zone /\ ~TwiceMidnight /\ ~LostMidnight

LEMMA MidnightStruck ==
  ASSUME EvenClock, NEW day \in Int
  PROVE  /\ MidnightOf(day) \in Int /\ DayKey(MidnightOf(day)) = day
         /\ MidnightOf(day) + Offset(MidnightOf(day)) = day * Hours
         /\ StartOfDayOn(day) = MidnightOf(day)
<1>1. day * Hours \in Int /\ zone.change \in Int /\ zone.base \in Int
  BY CalendarAssumption, ZoneIs DEF EvenClock
<1>2. ~(zone.jump = 1 /\ day * Hours = zone.change + zone.base)
  <2> SUFFICES ASSUME zone.jump = 1, day * Hours = zone.change + zone.base PROVE FALSE
    OBVIOUS
  <2>1. (day * Hours) % Hours = 0
    BY CalendarAssumption
  <2>2. 0 \in 0 .. zone.jump - 1 /\ (zone.change + 0 + zone.base) % Hours = 0
    BY <1>1, <2>1
  <2> QED
    BY <2>2 DEF EvenClock, LostMidnight
<1>3. MidnightOf(day) \in Int /\ MidnightOf(day) + Offset(MidnightOf(day)) = day * Hours
  BY <1>2, MidnightIs DEF EvenClock
<1>4. DayKey(MidnightOf(day)) = day
  BY <1>1, <1>3, DayKeyIs, CalendarAssumption DEF EvenClock
<1> QED
  BY <1>3, <1>4 DEF StartOfDayOn

(* From a midnight, whole days lead to a midnight.                         *)
LEMMA DaysOn ==
  ASSUME EvenClock, NEW day \in Int, NEW days \in Int
  PROVE  AddDays(StartOfDayOn(day), days) = StartOfDayOn(day + days)
<1> DEFINE t == StartOfDayOn(day)
<1>1. t + Offset(t) = day * Hours /\ DayKey(t) = day
  BY MidnightStruck
<1>2. (t + Offset(t)) % Hours = 0
  BY <1>1, CalendarAssumption
<1>3. AddDays(t, days) = DateAt(day + days, 0)
  BY <1>1, <1>2 DEF AddDays
<1>4. (day + days) * Hours + 0 = (day + days) * Hours
  BY CalendarAssumption
<1>5. DateAt(day + days, 0) = MidnightOf(day + days)
  BY <1>4 DEF DateAt, MidnightOf
<1> QED
  BY <1>3, <1>5, MidnightStruck

(* The same hour of the next day is of that day or of a later one.         *)
LEMMA NextDayReached ==
  ASSUME EvenClock, NEW t \in Int
  PROVE  AddDays(t, 1) \in Int /\ DayKey(t) < DayKey(AddDays(t, 1))
<1> DEFINE next == DayKey(t) + 1
           hour == (t + Offset(t)) % Hours
           reading == next * Hours + hour
           guess == reading - Offset(reading)
           there == DateAt(next, hour)
           base    == zone.base
           change  == zone.change
           jump    == zone.jump
<1>1. /\ base \in Int /\ base <= 0 /\ change \in Int /\ jump \in {-1, 0, 1}
      /\ \A x \in Int : Offset(x) = IF x < change THEN base ELSE base + jump
  BY ZoneIs DEF EvenClock
<1>2. /\ Hours \in Int /\ Hours > 1 /\ Offset(t) \in Int /\ DayKey(t) \in Int /\ next \in Int
      /\ next * Hours \in Int
  <2>1. Offset(t) \in Int
    BY <1>1
  <2>2. DayKey(t) \in Int
    BY DayKeyIs DEF EvenClock
  <2> QED
    BY <2>1, <2>2, CalendarAssumption
<1>3. hour \in Int /\ 0 <= hour /\ hour < Hours
  BY <1>1, <1>2, CalendarAssumption
<1>4. AddDays(t, 1) = there
  BY DEF AddDays
<1> HIDE DEF hour
<1>5. reading \in Int /\ guess \in Int
  BY <1>1, <1>2, <1>3
<1>6. there = IF (reading < change) = (guess < change) THEN guess ELSE reading - Offset(guess)
  BY DEF DateAt
<1>7. hour = 0 => there = MidnightOf(next)
  BY <1>2 DEF DateAt, MidnightOf
<1>8. there \in Int /\ (there + Offset(there) >= next * Hours \/ hour = 0)
  <2>1. guess = (IF reading < change THEN reading - base ELSE reading - (base + jump))
        /\ Offset(guess) = IF guess < change THEN base ELSE base + jump
    BY <1>1, <1>5
  <2>2. reading = next * Hours + hour
    OBVIOUS
  <2> HIDE DEF guess, reading, base, change, jump, there, next
  <2>3. there \in Int /\ Offset(there) = IF there < change THEN base ELSE base + jump
    BY <1>1, <1>5, <1>6, <2>1
  <2>4. there + Offset(there) >= reading - 1
    BY <1>1, <1>5, <1>6, <2>1, <2>3
  <2> QED
    BY <1>1, <1>2, <1>3, <2>2, <2>3, <2>4
<1>9. there + Offset(there) >= next * Hours
  <2>1. CASE hour = 0
    <3>1. there + Offset(there) = next * Hours
      BY <1>2, <1>7, <2>1, MidnightStruck
    <3> QED
      BY <1>2, <3>1
  <2>2. CASE hour # 0
    BY <1>8, <2>2
  <2> QED
    BY <2>1, <2>2
<1>10. DayKey(there) >= next /\ DayKey(there) \in Int
  BY <1>2, <1>8, <1>9, DayKeyIs DEF EvenClock
<1> QED
  BY <1>2, <1>4, <1>8, <1>10

PlanTypeOK ==
  /\ zone \in Zone /\ begun \in [Aired -> Int] /\ gapDays \in SUBSET Int
  /\ window \in [from : Int, until : Int, at : {"none", "months", "days"}]
  /\ offered \in [Aired -> Nat]
  /\ window.at # "none" => monthLength \in MonthLengths

(* A broadcast the plan has to offer.                                      *)
Wanted(b) == window.from <= begun[b] /\ Published(b)

(* Each day of a wanted broadcast is a gap that was found, once the walk   *)
(* is past its month; and it is offered when its day is queried.           *)
PlanInv ==
  /\ PlanTypeOK
  /\ window.at = "none" => gapDays = {}
  /\ window.at # "days" => \A b \in Aired : offered[b] = 0
  /\ EvenClock /\ window.at = "months" =>
       \E month \in Int :
         /\ walked = StartOfDayOn(month * monthLength)
         /\ \A b \in Aired : Wanted(b) /\ DayKey(begun[b]) \div monthLength < month => DayKey(begun[b]) \in gapDays
  /\ EvenClock /\ window.at = "days" =>
       \A b \in Aired : Wanted(b) => offered[b] = IF DayKey(begun[b]) \in gapDays THEN 0 ELSE 1

(* A wanted broadcast began within the lookback.                           *)
LEMMA WantedIs ==
  ASSUME PlanTypeOK, NEW b \in Aired, Wanted(b)
  PROVE  /\ begun[b] \in Int /\ window.from <= begun[b] /\ begun[b] <= window.until
         /\ DayKey(begun[b]) \in Int
<1>1. begun[b] \in Int /\ window.until \in Int
  BY DEF PlanTypeOK
<1>2. window.from <= begun[b] /\ begun[b] <= window.until
  BY <1>1, PlanAssumption DEF Wanted, Published
<1> QED
  BY <1>1, <1>2, DayKeyIs DEF PlanTypeOK

LEMMA DayOrder ==
  ASSUME EvenClock, NEW s \in Int, NEW t \in Int, s <= t
  PROVE  DayKey(s) \in Int /\ DayKey(t) \in Int /\ DayKey(s) <= DayKey(t)
<1>1. DayKey(s) \in Int /\ DayKey(t) \in Int
  BY DayKeyIs DEF EvenClock
<1>2. StartOfDayOn(DayKey(s)) \in Int /\ StartOfDayOn(DayKey(s)) <= s
  BY <1>1, DayReached DEF EvenClock
<1>3. StartOfDayOn(DayKey(s)) <= t
  BY <1>2
<1> QED
  BY <1>1, <1>3, DayReached DEF EvenClock

(* Its day is one of the gaps the walk looks for.                          *)
LEMMA WantedIsGap ==
  ASSUME PlanTypeOK, EvenClock, NEW b \in Aired, Wanted(b)
  PROVE  Recoverable(DayKey(begun[b])) /\ InLookback(DayKey(begun[b]))
<1> DEFINE day == DayKey(begun[b])
<1>1. begun[b] \in Int /\ window.from <= begun[b] /\ begun[b] <= window.until /\ day \in Int
      /\ window.from \in Int /\ window.until \in Int
  BY WantedIs DEF PlanTypeOK
<1>2. DayKey(window.from) \in Int /\ DayKey(window.from) <= day
  BY <1>1, DayOrder
<1>3. day <= DayKey(window.until) /\ DayKey(window.until) \in Int
  BY <1>1, DayOrder
<1>4. DayKey(window.until) < DayKey(AddDays(window.until, 1)) /\ DayKey(AddDays(window.until, 1)) \in Int
  <2>1. DayKey(window.until) < DayKey(AddDays(window.until, 1))
    BY <1>1, NextDayReached
  <2>2. AddDays(window.until, 1) \in Int
    BY <1>1, NextDayReached
  <2> QED
    BY <2>1, <2>2, DayKeyIs DEF EvenClock
<1>5. StartOfDayOn(day) \in Int /\ StartOfDayOn(day) <= begun[b]
  BY <1>1, DayReached DEF EvenClock
<1>6. StartOfDay(window.from) <= StartOfDayOn(day)
  <2>1. StartOfDayOn(DayKey(window.from)) <= StartOfDayOn(day)
    BY <1>1, <1>2, MidnightStruck, DayReached DEF EvenClock
  <2> QED
    BY <2>1 DEF StartOfDay
<1>7. StartOfDay(window.from) \in Int
  BY <1>2, DayReached DEF StartOfDay, EvenClock
<1> QED
  BY <1>1, <1>2, <1>3, <1>4, <1>5, <1>6, <1>7 DEF Recoverable, Covered, InLookback

(* The grid of a month holds the days of it.                               *)
LEMMA GridIs ==
  ASSUME EvenClock, monthLength \in MonthLengths, NEW month \in Int, NEW day \in Int,
         InMonth(day, month), Recoverable(day)
  PROVE  day \in GapsOf(month)
<1>1. monthLength \in Nat \ {0} /\ WeekLength \in Nat \ {0}
  BY PlanAssumption
<1> DEFINE first == month * monthLength
           last == first + monthLength - 1
<1>2. first \in Int /\ last \in Int /\ first <= day /\ day <= last
  <2>1. first \in Int /\ first <= day /\ day < first + monthLength
    BY <1>1, DivIs DEF InMonth
  <2> QED
    BY <1>1, <2>1
<1>3. MidnightOf(FirstOf(month)) = StartOfDayOn(first) /\ DayKey(MidnightOf(FirstOf(month))) = first
  BY <1>2, MidnightStruck DEF FirstOf
<1>4. AddMonth(MidnightOf(FirstOf(month))) = StartOfDayOn(first + monthLength)
  BY <1>1, <1>2, <1>3, DaysOn DEF AddMonth
<1>5. first + monthLength \in Int /\ DayKey(StartOfDayOn(first + monthLength)) = first + monthLength
  BY <1>1, <1>2, MidnightStruck
<1>6. GridDays(month) = AlignToWeek(first) .. AlignToWeek(last) + WeekLength - 1
  <2>1. GridDays(month) = AlignToWeek(DayKey(MidnightOf(FirstOf(month))))
          .. AlignToWeek(DayKey(AddMonth(MidnightOf(FirstOf(month)))) - 1) + WeekLength - 1
    BY DEF GridDays
  <2>2. DayKey(AddMonth(MidnightOf(FirstOf(month)))) - 1 = last
    BY <1>1, <1>2, <1>4, <1>5
  <2> QED
    BY <1>3, <2>1, <2>2
<1> HIDE DEF first, last
<1>7. \A d \in Int : /\ AlignToWeek(d) \in Int /\ AlignToWeek(d) <= d
                     /\ d <= AlignToWeek(d) + WeekLength - 1
  <2> TAKE d \in Int
  <2>1. d % WeekLength \in 0 .. WeekLength - 1
    BY <1>1
  <2> QED
    BY <1>1, <2>1 DEF AlignToWeek
<1>8. AlignToWeek(first) \in Int /\ AlignToWeek(last) \in Int /\ AlignToWeek(first) <= day
      /\ day <= AlignToWeek(last) + WeekLength - 1
  BY <1>1, <1>2, <1>7
<1>9. day \in GridDays(month)
  BY <1>1, <1>6, <1>8
<1> QED
  BY <1>9 DEF GapsOf

(* The readings of a clock that is not set stay what they are.             *)
LEMMA ClockStays ==
  ASSUME UNCHANGED <<zone, begun>>
  PROVE  /\ EvenClock' = EvenClock
         /\ \A x : DayKey(x)' = DayKey(x)
         /\ \A x : StartOfDayOn(x)' = StartOfDayOn(x)
<1>1. \A x : Offset(x)' = Offset(x)
  BY DEF Offset
<1>2. \A x : DayKey(x)' = DayKey(x)
  BY <1>1 DEF DayKey
<1>3. \A x : MidnightOf(x)' = MidnightOf(x)
  BY <1>1 DEF MidnightOf
<1>4. \A x : StartOfDayOn(x)' = StartOfDayOn(x)
  BY <1>1, <1>2, <1>3 DEF StartOfDayOn
<1>5. EvenClock' = EvenClock
  BY DEF EvenClock, TwiceMidnight, LostMidnight
<1> QED
  BY <1>2, <1>4, <1>5

(* Where nothing is planned and no clock is set, nothing changes.          *)
LEMMA PlanRests ==
  ASSUME PlanInv, UNCHANGED <<zone, begun>>, UNCHANGED plan
  PROVE  PlanInv'
<1>1. UNCHANGED <<zone, begun, monthLength, window, walked, gapDays, offered>>
  BY DEF plan
<1>2. (EvenClock' <=> EvenClock) /\ (\A b \in Aired : DayKey(begun[b])' = DayKey(begun[b]))
      /\ \A m : StartOfDayOn(m)' = StartOfDayOn(m)
  BY <1>1, ClockStays
<1>3. \A b \in Aired : Wanted(b)' <=> Wanted(b)
  BY <1>1 DEF Wanted, Published
<1>4. PlanTypeOK'
  BY <1>1 DEF PlanTypeOK, PlanInv
<1>5. EvenClock' /\ window'.at = "months" =>
        \E m \in Int :
          /\ walked' = StartOfDayOn(m * monthLength)'
          /\ \A b \in Aired : Wanted(b)' /\ (DayKey(begun[b]) \div monthLength < m)' => (DayKey(begun[b]) \in gapDays)'
  BY <1>1, <1>2, <1>3 DEF PlanInv
<1>6. EvenClock' /\ window'.at = "days" =>
        \A b \in Aired : Wanted(b)' => offered'[b] = IF (DayKey(begun[b]) \in gapDays)' THEN 0 ELSE 1
  BY <1>1, <1>2, <1>3 DEF PlanInv
<1> QED
  BY <1>1, <1>4, <1>5, <1>6 DEF PlanInv

LEMMA BeginStep ==
  ASSUME PlanInv, BeginPlan
  PROVE  PlanInv'
<1>1. PICK length \in MonthLengths, now \in 0 .. LastInstants, back \in 0 .. LastInstants :
        /\ back <= now /\ monthLength' = length
        /\ window' = [from |-> now - back, until |-> now, at |-> "months"]
        /\ walked' = LET m == DayKey(now - back) \div length IN StartOfDayOn(m * length)
  BY DEF BeginPlan
<1> DEFINE month == DayKey(now - back) \div length
<1>2. UNCHANGED <<gapDays, offered, zone, begun>> /\ window.at = "none"
  BY DEF BeginPlan, calendar
<1>3. now - back \in Int /\ now \in Int /\ length \in Nat \ {0}
  BY PlanAssumption
<1>4. PlanTypeOK'
  BY <1>1, <1>2, <1>3 DEF PlanInv, PlanTypeOK
<1>5. DayKey(now - back) \in Int /\ month \in Int
  BY <1>3, DayKeyIs, DivIs DEF PlanInv, PlanTypeOK
<1>6. walked' = StartOfDayOn(month * length)
  BY <1>1
<1>7. ASSUME EvenClock', NEW b \in Aired, Wanted(b)' PROVE ~((DayKey(begun[b]) \div monthLength)' < month)
  <2>1. EvenClock /\ begun'[b] = begun[b] /\ (DayKey(begun[b]))' = DayKey(begun[b]) /\ begun[b] \in Int
    BY <1>2, <1>7, ClockStays DEF PlanInv, PlanTypeOK
  <2>2. now - back <= begun[b]
    BY <1>1, <1>7, <2>1 DEF Wanted
  <2>3. DayKey(now - back) <= DayKey(begun[b]) /\ DayKey(begun[b]) \in Int
    BY <1>3, <2>1, <2>2, DayOrder
  <2>4. month * length <= DayKey(now - back) /\ month * length \in Int
    BY <1>3, <1>5, DivIs
  <2>5. month * length <= DayKey(begun[b])
    BY <1>5, <2>3, <2>4
  <2>6. DayKey(begun[b]) \div length >= month /\ DayKey(begun[b]) \div length \in Int
    BY <1>3, <1>5, <2>3, <2>5, DivIs
  <2> QED
    BY <1>1, <1>5, <2>1, <2>6
<1>8. window'.at = "months"
  BY <1>1
<1>9. \A b \in Aired : offered'[b] = 0
  BY <1>2 DEF PlanInv
<1>10. PICK reached \in Int : reached = month
  BY <1>5
<1>11. ASSUME EvenClock'
       PROVE  \E m \in Int :
                /\ walked' = StartOfDayOn(m * monthLength)'
                /\ \A b \in Aired : Wanted(b)' /\ (DayKey(begun[b]) \div monthLength < m)' => (DayKey(begun[b]) \in gapDays)'
  <2>1. \A b \in Aired : Wanted(b)' => ~((DayKey(begun[b]) \div monthLength)' < reached)
    BY <1>7, <1>10, <1>11
  <2>2. \A b \in Aired : ~(Wanted(b)' /\ (DayKey(begun[b]) \div monthLength < reached)')
    BY <2>1
  <2>3. walked' = StartOfDayOn(reached * monthLength)'
    <3>1. walked' = StartOfDayOn(reached * length)
      BY <1>6, <1>10
    <3> QED
      BY <1>1, <1>2, <3>1, ClockStays
  <2> QED
    BY <2>2, <2>3
<1> QED
  BY <1>4, <1>8, <1>9, <1>11 DEF PlanInv

LEMMA WalkStep ==
  ASSUME PlanInv, WalkMonth
  PROVE  PlanInv'
<1> USE DEF PlanInv
<1>1. /\ UNCHANGED <<monthLength, window, offered, zone, begun>> /\ window.at = "months"
      /\ gapDays' = gapDays \cup {day \in GapsOf(MonthAt(walked)) : InLookback(day)}
      /\ walked' = MonthStart(AddMonth(walked))
  BY DEF WalkMonth, calendar
<1>2. PlanTypeOK /\ monthLength \in MonthLengths /\ monthLength \in Nat \ {0}
  BY <1>1, PlanAssumption DEF PlanTypeOK
<1>4. \A day \in GapsOf(MonthAt(walked)) : day \in Int
  <2> SUFFICES ASSUME NEW day \in GapsOf(MonthAt(walked)) PROVE day \in Int
    OBVIOUS
  <2>1. PICK b \in Aired : DayKey(begun[b]) = day
    BY DEF GapsOf, Recoverable
  <2> QED
    BY <1>2, <2>1, DayKeyIs DEF PlanTypeOK
<1>5. PlanTypeOK' /\ window'.at = "months" /\ \A b \in Aired : offered'[b] = 0
  BY <1>1, <1>2, <1>4 DEF PlanTypeOK
<1>6. ASSUME EvenClock'
      PROVE  \E month \in Int :
               /\ walked' = (StartOfDayOn(month * monthLength))'
               /\ \A b \in Aired : Wanted(b)' /\ (DayKey(begun[b]) \div monthLength < month)' => (DayKey(begun[b]) \in gapDays)'
  <2>1. EvenClock
    BY <1>1, <1>6, ClockStays
  <2>2. PICK month \in Int :
          /\ walked = StartOfDayOn(month * monthLength)
          /\ \A b \in Aired : Wanted(b) /\ DayKey(begun[b]) \div monthLength < month => DayKey(begun[b]) \in gapDays
    BY <1>1, <2>1
  <2> DEFINE first == month * monthLength
  <2>3. /\ first \in Int /\ month + 1 \in Int /\ (month + 1) * monthLength \in Int
        /\ (month + 1) * monthLength = first + monthLength
    BY <1>2, DivIs
  <2>4. DayKey(walked) = first /\ MonthAt(walked) = month
    <3>1. DayKey(walked) = first
      BY <2>1, <2>2, <2>3, MidnightStruck
    <3>2. first \div monthLength = month
      BY <1>2, <2>3, DivIs
    <3> QED
      BY <3>1, <3>2 DEF MonthAt
  <2>5. AddMonth(walked) = StartOfDayOn((month + 1) * monthLength)
    BY <1>2, <2>1, <2>2, <2>3, DaysOn DEF AddMonth
  <2>6. MonthAt(AddMonth(walked)) = month + 1
    <3>1. DayKey(AddMonth(walked)) = (month + 1) * monthLength
      BY <2>1, <2>3, <2>5, MidnightStruck
    <3>2. ((month + 1) * monthLength) \div monthLength = month + 1
      <4>1. \A q \in Int : (q * monthLength) \div monthLength = q
        BY <1>2, DivIs
      <4> QED
        BY <2>3, <4>1
    <3> QED
      BY <3>1, <3>2 DEF MonthAt
  <2>7. walked' = StartOfDayOn((month + 1) * monthLength)
    BY <1>1, <2>6 DEF MonthStart, FirstOf
  <2>8. ASSUME NEW b \in Aired, Wanted(b), DayKey(begun[b]) \div monthLength < month + 1
        PROVE  DayKey(begun[b]) \in gapDays'
    <3> DEFINE day == DayKey(begun[b])
    <3>1. day \in Int /\ day \div monthLength \in Int
      BY <1>2, <2>8, WantedIs, DivIs
    <3>2. CASE day \div monthLength < month
      BY <1>1, <2>2, <2>8, <3>2
    <3>3. CASE day \div monthLength = month
      <4>1. Recoverable(day) /\ InLookback(day)
        BY <1>2, <2>1, <2>8, WantedIsGap
      <4>2. day \in GapsOf(month)
        BY <1>2, <2>1, <3>1, <3>3, <4>1, GridIs DEF InMonth
      <4> QED
        BY <1>1, <2>4, <4>1, <4>2
    <3> QED
      BY <2>3, <2>8, <3>1, <3>2, <3>3
  <2>9. \A b \in Aired : (Wanted(b)' <=> Wanted(b)) /\ DayKey(begun[b])' = DayKey(begun[b])
    BY <1>1, ClockStays DEF Wanted, Published
  <2>10. walked' = (StartOfDayOn((month + 1) * monthLength))'
    BY <1>1, <2>7, ClockStays
  <2>11. \A b \in Aired : Wanted(b)' /\ (DayKey(begun[b]) \div monthLength < month + 1)' => (DayKey(begun[b]) \in gapDays)'
    BY <1>1, <2>8, <2>9
  <2> QED
    BY <2>3, <2>10, <2>11
<1> QED
  BY <1>5, <1>6

LEMMA MonthsEndStep ==
  ASSUME PlanInv, MonthsEnd
  PROVE  PlanInv'
<1> USE DEF PlanInv
<1>1. /\ UNCHANGED <<zone, begun, monthLength, walked, gapDays, offered>> /\ PlanTypeOK
      /\ window.at = "months" /\ walked > window.until /\ window' = [window EXCEPT !.at = "days"]
      /\ monthLength \in MonthLengths
  BY DEF MonthsEnd, calendar, PlanTypeOK
<1>2. (EvenClock' <=> EvenClock) /\ \A b \in Aired : DayKey(begun[b])' = DayKey(begun[b])
  BY <1>1, ClockStays
<1>3. window'.at = "days" /\ window'.from = window.from /\ window'.until = window.until
  BY <1>1 DEF PlanTypeOK
<1>4. PlanTypeOK'
  BY <1>1, <1>3 DEF PlanTypeOK
<1>5. \A b \in Aired : Wanted(b)' <=> Wanted(b)
  BY <1>1, <1>3 DEF Wanted, Published
<1>6. ASSUME EvenClock, NEW b \in Aired, Wanted(b) PROVE DayKey(begun[b]) \in gapDays
  <2>1. PICK month \in Int :
          /\ walked = StartOfDayOn(month * monthLength)
          /\ \A o \in Aired : Wanted(o) /\ DayKey(begun[o]) \div monthLength < month => DayKey(begun[o]) \in gapDays
    BY <1>1, <1>6
  <2> DEFINE day == DayKey(begun[b])
             first == month * monthLength
  <2>2. monthLength \in Nat \ {0}
    BY <1>1, PlanAssumption
  <2>3. begun[b] \in Int /\ begun[b] <= window.until /\ day \in Int /\ window.until \in Int /\ first \in Int
        /\ day \div monthLength \in Int
    BY <1>1, <1>6, <2>2, WantedIs, DivIs DEF PlanTypeOK
  <2>4. StartOfDayOn(first) \in Int /\ ~(StartOfDayOn(first) <= begun[b])
    <3>1. StartOfDayOn(first) \in Int
      BY <1>6, <2>3, DayReached DEF EvenClock
    <3> QED
      BY <1>1, <2>1, <2>3, <3>1
  <2>5. ~(day >= first)
    BY <1>6, <2>3, <2>4, DayReached DEF EvenClock
  <2>6. ~(day \div monthLength >= month)
    BY <2>2, <2>3, <2>5, DivIs
  <2> QED
    BY <1>6, <2>1, <2>3, <2>6
<1>7. ASSUME EvenClock', NEW b \in Aired, Wanted(b)' PROVE offered'[b] = IF (DayKey(begun[b]) \in gapDays)' THEN 0 ELSE 1
  <2>1. DayKey(begun[b]) \in gapDays /\ offered[b] = 0
    BY <1>1, <1>2, <1>5, <1>6, <1>7
  <2> QED
    BY <1>1, <1>2, <2>1
<1> QED
  BY <1>3, <1>4, <1>7

(* A broadcast is offered on the day it began, and on no other.            *)
LEMMA QueryStep ==
  ASSUME PlanInv, QueryDay
  PROVE  PlanInv'
<1> USE DEF PlanInv
<1>1. PICK day \in gapDays :
        /\ gapDays' = gapDays \ {day}
        /\ offered' = [b \in Aired |-> IF b \in CandidatesOn(day) THEN offered[b] + 1 ELSE offered[b]]
  BY DEF QueryDay
<1>2. UNCHANGED <<zone, begun, monthLength, window>> /\ window.at = "days" /\ PlanTypeOK /\ day \in Int
  BY <1>1 DEF QueryDay, calendar, PlanTypeOK
<1>3. (EvenClock' <=> EvenClock) /\ \A b \in Aired : DayKey(begun[b])' = DayKey(begun[b])
  BY <1>2, ClockStays
<1>4. PlanTypeOK'
  BY <1>1, <1>2 DEF PlanTypeOK
<1>5. \A b \in Aired : Wanted(b)' <=> Wanted(b)
  BY <1>2 DEF Wanted, Published
<1>6. ASSUME EvenClock, NEW b \in Aired, Wanted(b) PROVE b \in CandidatesOn(day) <=> DayKey(begun[b]) = day
  <2>1. begun[b] \in Int /\ DayKey(begun[b]) \in Int /\ day + 1 \in Int
    BY <1>2, <1>6, WantedIs
  <2>2. QueryEnd(day) = StartOfDayOn(day + 1)
    BY <1>2, <1>6, DaysOn DEF QueryEnd
  <2>3. /\ StartOfDayOn(day) <= begun[b] <=> DayKey(begun[b]) >= day
        /\ StartOfDayOn(day + 1) <= begun[b] <=> DayKey(begun[b]) >= day + 1
        /\ StartOfDayOn(day + 1) \in Int
    BY <1>2, <1>6, <2>1, DayReached DEF EvenClock
  <2>4. begun[b] < QueryEnd(day) <=> ~(DayKey(begun[b]) >= day + 1)
    BY <2>1, <2>2, <2>3
  <2>5. b \in CandidatesOn(day) <=> StartOfDayOn(day) <= begun[b] /\ begun[b] < QueryEnd(day)
    <3>1. Published(b) /\ begun[b] >= window.from
      BY <1>2, <1>6, <2>1 DEF Wanted, PlanTypeOK
    <3> QED
      BY <3>1 DEF CandidatesOn
  <2> QED
    BY <1>2, <2>1, <2>3, <2>4, <2>5
<1>7. ASSUME EvenClock', NEW b \in Aired, Wanted(b)' PROVE offered'[b] = IF (DayKey(begun[b]) \in gapDays)' THEN 0 ELSE 1
  <2>1. EvenClock /\ Wanted(b) /\ offered[b] = (IF DayKey(begun[b]) \in gapDays THEN 0 ELSE 1)
    BY <1>2, <1>3, <1>5, <1>7
  <2>2. b \in CandidatesOn(day) <=> DayKey(begun[b]) = day
    BY <1>6, <2>1
  <2> QED
    BY <1>1, <1>3, <2>1, <2>2
<1> QED
  BY <1>2, <1>4, <1>7

LEMMA PlanInvStep == PlanInv /\ [PlanNext]_<<calendar, plan>> => PlanInv'
<1> SUFFICES ASSUME PlanInv, [PlanNext]_<<calendar, plan>> PROVE PlanInv'
  OBVIOUS
<1>1. ASSUME UNCHANGED <<zone, begun>>, UNCHANGED plan PROVE PlanInv'
  BY <1>1, PlanRests
<1> QED
  BY <1>1, BeginStep, WalkStep, MonthsEndStep, QueryStep DEF PlanNext, calendar

LEMMA PlanInvFinds == PlanInv => PlanFindsMissed
<1> SUFFICES ASSUME PlanInv, window.at = "days", gapDays = {}, ~TwiceMidnight, ~LostMidnight, NEW b \in Aired,
                    window.from <= begun[b], Published(b)
             PROVE  offered[b] = 1
  BY DEF PlanFindsMissed
<1> QED
  BY DEF PlanInv, PlanTypeOK, EvenClock, Wanted


LEMMA PlanInvInit == CalendarTypeOK /\ UnplannedInit => PlanInv
<1> SUFFICES ASSUME CalendarTypeOK, UnplannedInit PROVE PlanInv
  OBVIOUS
<1>1. PlanTypeOK
  BY DEF CalendarTypeOK, UnplannedInit, NoWindow, PlanTypeOK
<1>2. window.at = "none" /\ gapDays = {} /\ \A b \in Aired : offered[b] = 0
  BY DEF UnplannedInit, NoWindow
<1> QED
  BY <1>1, <1>2 DEF PlanInv

(* plan.go, gapDays and candidatesOn: every missed broadcast of the        *)
(* lookback that is over is offered, and once, wherever the zone's clock   *)
(* changes, but where a midnight is lost or happens twice.                 *)
THEOREM PlanFinds == PlanSpec => []PlanFindsMissed
<1>1. PlanInit => PlanInv
  BY CalendarInvInit, PlanInvInit DEF PlanInit
<1>2. PlanInv /\ [PlanNext]_<<calendar, plan>> => PlanInv'
  BY PlanInvStep
<1> QED
  BY <1>1, <1>2, PlanInvFinds, PTL DEF PlanSpec
----------------------------------------------------------------------------
(* Pass *)

RoundTypeOK ==
  /\ lies \in [Archive -> {"unlisted", "known", "leased", "unpublished", "waiting", "captured",
                           "recovered", "abandoned"}]
  /\ turn \in [channel : Nat, phase : {"list", "patch", "plan", "fetch", "ended"}]
  /\ tried \in [Archive -> {"none", "queued", "asking", "claiming", "held", "over"}]
  /\ tally \in [recovered : Nat, failed : Nat, deferred : Nat]
  /\ stopped \in BOOLEAN

(* What a round may leave behind it with nothing counted.                  *)
LiesSettled(a) == NothingLeft(a) \/ (a \in cramped /\ lies[a] # "unlisted") \/ a \in overlooked

(* What is being fetched is of the channel whose turn it is, and as the    *)
(* plan found it but for a capture that came first.                        *)
InHandInv ==
  /\ turn.phase # "fetch" => tried = Untried
  /\ \A a \in Archive : tried[a] # "none" => a[1] = turn.channel /\ lies[a] # "unlisted"
  /\ \A a \in Archive : tried[a] = "held" => lies[a] = "known"

(* What was reported is where each archive stands.                         *)
ReportInv ==
  /\ \A a \in Archive : lies[a] = "recovered" <=> <<"recovered", a>> \in reported
  /\ \A a \in Archive : lies[a] = "abandoned" <=> <<"fetch_gave_up", a>> \in reported
  /\ tally.recovered = Cardinality({a \in Archive : <<"recovered", a>> \in reported})

(* As long as nothing failed, nothing was left to another and the round    *)
(* was not cancelled, the channels behind it are settled, and the one it   *)
(* is at is once it is listed, but for what is still in hand.              *)
CleanSoFar == tally.failed = 0 /\ tally.deferred = 0 /\ ~stopped
CleanInv ==
  CleanSoFar =>
    \A a \in Archive :
      /\ a[1] < turn.channel => LiesSettled(a)
      /\ a[1] = turn.channel /\ turn.phase \in {"patch", "plan"} =>
           lies[a] # "unlisted" \/ a \in overlooked
      /\ a[1] = turn.channel /\ turn.phase = "fetch" =>
           LiesSettled(a) \/ tried[a] \in {"queued", "asking", "claiming", "held"}

ResultInv ==
  /\ turn.phase # "ended" => result = Unfinished
  /\ turn.phase = "ended" =>
       /\ result = [ended |-> TRUE, counts |-> tally, stopped |-> stopped]
       /\ turn.channel > Channels \/ stopped

RoundInv == RoundTypeOK /\ InHandInv /\ ReportInv /\ CleanInv /\ ResultInv

LEMMA ArchivesAre ==
  /\ IsFiniteSet(Archive)
  /\ \A a \in Archive : a[1] \in 1 .. Channels /\ a[2] \in 1 .. Channels
<1>1. IsFiniteSet(1 .. Channels)
  BY FS_Interval, PassAssumption
<1>2. IsFiniteSet((1 .. Channels) \X (1 .. Channels))
  BY <1>1, FS_Product
<1>3. Archive \in SUBSET ((1 .. Channels) \X (1 .. Channels))
  BY DEF Archive
<1> QED
  BY <1>2, <1>3, FS_Subset

LEMMA RoundInvInit == PassInit => RoundInv
<1> SUFFICES ASSUME PassInit PROVE RoundInv
  OBVIOUS
<1>1. RoundTypeOK
  BY DEF PassInit, RoundTypeOK, Untried
<1>2. InHandInv
  BY DEF PassInit, InHandInv, Untried
<1>3. ReportInv
  <2>1. {a \in Archive : <<"recovered", a>> \in reported} = {}
    BY DEF PassInit
  <2>2. tally.recovered = 0
    BY DEF PassInit
  <2>3. \A a \in Archive : lies[a] # "recovered" /\ lies[a] # "abandoned"
    BY DEF PassInit
  <2> QED
    BY <2>1, <2>2, <2>3, FS_EmptySet DEF PassInit, ReportInv
<1>4. CleanInv
  BY ArchivesAre DEF PassInit, CleanInv
<1>5. ResultInv
  BY DEF PassInit, ResultInv
<1> QED
  BY <1>1, <1>2, <1>3, <1>4, <1>5 DEF RoundInv

(* One more archive came, and the count says so.                           *)
LEMMA OneMoreCame ==
  ASSUME NEW a \in Archive, <<"recovered", a>> \notin reported,
         reported' = reported \cup {<<"recovered", a>>}
  PROVE  Cardinality({b \in Archive : <<"recovered", b>> \in reported'}) =
           Cardinality({b \in Archive : <<"recovered", b>> \in reported}) + 1
<1> DEFINE Came == {b \in Archive : <<"recovered", b>> \in reported}
<1>1. {b \in Archive : <<"recovered", b>> \in reported'} = Came \cup {a}
  OBVIOUS
<1>2. IsFiniteSet(Came) /\ a \notin Came
  BY ArchivesAre, FS_Subset
<1> QED
  BY <1>1, <1>2, FS_AddElement

(* What a step leaves alone of the reports.                                *)
LEMMA ReportsStand ==
  ASSUME ReportInv,
         \A a \in Archive : lies'[a] # lies[a] =>
           lies[a] \notin {"recovered", "abandoned"} /\ lies'[a] \notin {"recovered", "abandoned"},
         \A a \in Archive : <<"recovered", a>> \in reported' <=> <<"recovered", a>> \in reported,
         \A a \in Archive : <<"fetch_gave_up", a>> \in reported' <=> <<"fetch_gave_up", a>> \in reported,
         tally'.recovered = tally.recovered
  PROVE  ReportInv'
<1>1. {a \in Archive : <<"recovered", a>> \in reported'} = {a \in Archive : <<"recovered", a>> \in reported}
  OBVIOUS
<1> QED
  BY <1>1 DEF ReportInv

LEMMA CountIs ==
  ASSUME RoundTypeOK, NEW what \in {"recovered", "failed", "deferred"}, Count(what)
  PROVE  /\ tally' \in [recovered : Nat, failed : Nat, deferred : Nat]
         /\ tally'[what] = tally[what] + 1
         /\ \A other \in {"recovered", "failed", "deferred"} \ {what} : tally'[other] = tally[other]
  BY DEF RoundTypeOK, Count

LEMMA RoundTurnStep ==
  ASSUME RoundInv, ListArchives \/ PatchChannel \/ PlanChannel \/ NextChannel \/ Return
  PROVE  RoundInv'
<1> USE DEF RoundInv
<1>1. ASSUME ListArchives PROVE RoundInv'
  <2>1. /\ lies' \in [Archive -> {"unlisted", "known", "leased", "unpublished", "waiting", "captured",
                                  "recovered", "abandoned"}]
        /\ \A a \in Archive : lies'[a] # lies[a] => lies[a] = "unlisted" /\ lies'[a] = "known"
    <3>1. PICK known \in SUBSET Unlisted : lies' = [a \in Archive |-> IF a \in known THEN "known" ELSE lies[a]]
      BY <1>1 DEF ListArchives
    <3>2. \A a \in known : lies[a] = "unlisted"
      BY DEF Unlisted
    <3> QED
      BY <3>1, <3>2 DEF RoundTypeOK
  <2>2. /\ tally' \in [recovered : Nat, failed : Nat, deferred : Nat]
        /\ tally'.recovered = tally.recovered /\ tally'.deferred = tally.deferred
        /\ tally' = tally \/ tally'.failed = tally.failed + 1
    <3>1. CASE UNCHANGED tally
      BY <3>1 DEF RoundTypeOK
    <3>2. CASE Count("failed")
      BY <3>2, CountIs
    <3> QED
      BY <1>1, <3>1, <3>2 DEF ListArchives
  <2>3. turn' = [turn EXCEPT !.phase = "patch"] /\ turn.phase = "list" /\ turn.channel <= Channels
    BY <1>1 DEF ListArchives, Then
  <2>4. RoundTypeOK'
    BY <1>1, <2>1, <2>2, <2>3 DEF RoundTypeOK, ListArchives
  <2>5. InHandInv'
    BY <1>1, <2>1, <2>3 DEF ListArchives, InHandInv, Untried, RoundTypeOK
  <2>6. ReportInv'
    <3>1. \A a \in Archive : lies'[a] # lies[a] =>
            lies[a] \notin {"recovered", "abandoned"} /\ lies'[a] \notin {"recovered", "abandoned"}
      BY <2>1
    <3> QED
      BY <1>1, <2>2, <3>1, ReportsStand DEF ListArchives
  <2>7. CleanInv'
    <3> SUFFICES ASSUME CleanSoFar', NEW a \in Archive
                 PROVE  /\ a[1] < turn.channel => LiesSettled(a)'
                        /\ a[1] = turn.channel => lies'[a] # "unlisted" \/ a \in overlooked'
      BY <2>3 DEF CleanInv, RoundTypeOK
    <3>1. tally' = tally /\ CleanSoFar
      BY <1>1, <2>2 DEF CleanSoFar, ListArchives, RoundTypeOK
    <3>2. PICK known \in SUBSET Unlisted :
            /\ lies' = [b \in Archive |-> IF b \in known THEN "known" ELSE lies[b]]
            /\ overlooked' = overlooked \cup (Unlisted \ known)
      <4>1. ~Count("failed")
        BY <3>1, CountIs DEF RoundTypeOK
      <4> QED
        BY <1>1, <4>1 DEF ListArchives
    <3>3. a[1] < turn.channel => LiesSettled(a) /\ lies'[a] = lies[a]
      BY <3>1, <3>2, ArchivesAre DEF CleanInv, RoundTypeOK, Unlisted
    <3>4. a[1] = turn.channel => lies'[a] # "unlisted" \/ a \in overlooked'
      BY <3>2 DEF Unlisted
    <3> QED
      BY <1>1, <3>2, <3>3, <3>4 DEF LiesSettled, NothingLeft, ListArchives
  <2>8. ResultInv'
    BY <1>1, <2>3 DEF ResultInv, ListArchives, RoundTypeOK
  <2> QED
    BY <2>4, <2>5, <2>6, <2>7, <2>8
<1>2. ASSUME PatchChannel PROVE RoundInv'
  <2>1. /\ tally' \in [recovered : Nat, failed : Nat, deferred : Nat]
        /\ tally'.recovered = tally.recovered /\ tally'.deferred = tally.deferred
        /\ tally' = tally \/ tally'.failed = tally.failed + 1
    <3>1. CASE UNCHANGED tally
      BY <3>1 DEF RoundTypeOK
    <3>2. CASE Count("failed")
      BY <3>2, CountIs
    <3> QED
      BY <1>2, <3>1, <3>2 DEF PatchChannel
  <2>2. turn' = [turn EXCEPT !.phase = "plan"] /\ turn.phase = "patch"
    BY <1>2 DEF PatchChannel, Then
  <2>3. RoundTypeOK'
    BY <1>2, <2>1, <2>2 DEF RoundTypeOK, PatchChannel
  <2>4. InHandInv'
    BY <1>2, <2>2 DEF PatchChannel, InHandInv, RoundTypeOK
  <2>5. ReportInv'
    <3>1. reported' = reported /\ lies' = lies
      BY <1>2 DEF PatchChannel
    <3> QED
      BY <2>1, <3>1, ReportsStand
  <2>6. CleanInv'
    <3>1. CleanSoFar' => CleanSoFar
      BY <1>2, <2>1 DEF CleanSoFar, PatchChannel, RoundTypeOK
    <3>2. \A a \in Archive : LiesSettled(a)' <=> LiesSettled(a)
      BY <1>2 DEF LiesSettled, NothingLeft, PatchChannel
    <3> QED
      BY <1>2, <2>2, <3>1, <3>2 DEF CleanInv, PatchChannel, RoundTypeOK
  <2>7. ResultInv'
    BY <1>2, <2>2 DEF ResultInv, PatchChannel, RoundTypeOK
  <2> QED
    BY <2>3, <2>4, <2>5, <2>6, <2>7
<1>3. ASSUME PlanChannel PROVE RoundInv'
  <2>1. /\ tally' \in [recovered : Nat, failed : Nat, deferred : Nat]
        /\ tally'.recovered = tally.recovered /\ tally'.deferred = tally.deferred
        /\ tally' = tally \/ tally'.failed = tally.failed + 1
    <3>1. CASE UNCHANGED tally
      BY <3>1 DEF RoundTypeOK
    <3>2. CASE Count("failed")
      BY <3>2, CountIs
    <3> QED
      BY <1>3, <3>1, <3>2 DEF PlanChannel, PlanMade
  <2>2. turn' = [turn EXCEPT !.phase = "fetch"] /\ turn.phase = "plan"
    BY <1>3 DEF PlanChannel, Then
  <2>3. /\ tried' \in [Archive -> {"none", "queued", "asking", "claiming", "held", "over"}]
        /\ \A a \in Archive : tried'[a] # "none" => tried'[a] = "queued" /\ a[1] = turn.channel /\ Offered(a)
    BY <1>3 DEF PlanChannel, PlanMade, Offer, Offered
  <2>4. RoundTypeOK'
    BY <1>3, <2>1, <2>2, <2>3 DEF RoundTypeOK, PlanChannel
  <2>5. InHandInv'
    BY <1>3, <2>2, <2>3 DEF PlanChannel, InHandInv, RoundTypeOK, Offered
  <2>6. ReportInv'
    <3>1. lies' = lies /\ reported' = reported
      BY <1>3 DEF PlanChannel, RoundTypeOK
    <3> QED
      BY <2>1, <3>1, ReportsStand
  <2>7. CleanInv'
    <3> SUFFICES ASSUME CleanSoFar', NEW a \in Archive
                 PROVE  /\ a[1] < turn.channel => LiesSettled(a)'
                        /\ a[1] = turn.channel => LiesSettled(a)' \/ tried'[a] = "queued"
      BY <2>2 DEF CleanInv, RoundTypeOK
    <3>1. tally' = tally /\ CleanSoFar
      BY <1>3, <2>1 DEF CleanSoFar, PlanChannel, RoundTypeOK
    <3>2. PICK skipped \in SUBSET {b \in Archive : Offered(b)} :
            /\ tried' = [b \in Archive |-> IF b \in {c \in Archive : Offered(c)} \ skipped
                                         THEN "queued" ELSE "none"]
            /\ overlooked' = overlooked \cup skipped
      <4>1. ~Count("failed")
        BY <3>1, CountIs DEF RoundTypeOK
      <4>2. PlanMade
        BY <1>3, <4>1 DEF PlanChannel
      <4> QED
        BY <4>2 DEF PlanMade, Offer
    <3>3. LiesSettled(a) => LiesSettled(a)'
      BY <1>3, <3>2 DEF LiesSettled, NothingLeft, PlanChannel
    <3>4. a[1] = turn.channel => lies[a] # "unlisted" \/ a \in overlooked
      BY <2>2, <3>1 DEF CleanInv
    <3>5. a[1] = turn.channel => Offered(a) \/ LiesSettled(a) \/ lies[a] = "unlisted"
      BY DEF Offered, LiesSettled, NothingLeft, RoundTypeOK
    <3>6. a[1] = turn.channel => LiesSettled(a)' \/ tried'[a] = "queued"
      <4>1. CASE Offered(a)
        BY <3>2, <4>1 DEF LiesSettled
      <4>2. CASE ~Offered(a)
        BY <3>3, <3>4, <3>5, <4>2 DEF LiesSettled
      <4> QED
        BY <4>1, <4>2
    <3> QED
      BY <2>2, <3>1, <3>3, <3>6 DEF CleanInv
  <2>8. ResultInv'
    BY <1>3, <2>2 DEF ResultInv, PlanChannel, RoundTypeOK
  <2> QED
    BY <2>4, <2>5, <2>6, <2>7, <2>8
<1>4. ASSUME NextChannel PROVE RoundInv'
  <2>1. turn' = [channel |-> turn.channel + 1, phase |-> "list"] /\ turn.phase = "fetch" /\ turn.channel \in Nat
    BY <1>4 DEF NextChannel, RoundTypeOK
  <2>2. \A a \in Archive : LiesSettled(a)' <=> LiesSettled(a)
    BY <1>4 DEF LiesSettled, NothingLeft, NextChannel
  <2>3. RoundTypeOK' /\ InHandInv'
    BY <1>4, <2>1 DEF RoundTypeOK, NextChannel, InHandInv, Untried
  <2>4. ReportInv'
    <3>1. lies' = lies /\ reported' = reported /\ tally' = tally
      BY <1>4 DEF NextChannel, RoundTypeOK
    <3> QED
      BY <3>1, ReportsStand
  <2>5. CleanInv'
    <3> SUFFICES ASSUME CleanSoFar', NEW a \in Archive, a[1] < turn.channel + 1 PROVE LiesSettled(a)'
      BY <2>1 DEF CleanInv
    <3>1. CleanSoFar
      BY <1>4 DEF CleanSoFar, NextChannel
    <3>2. a[1] < turn.channel \/ a[1] = turn.channel
      BY <2>1, ArchivesAre
    <3>3. tried[a] \notin {"queued", "asking", "claiming", "held"}
      BY <1>4 DEF NextChannel
    <3> QED
      BY <2>1, <2>2, <3>1, <3>2, <3>3 DEF CleanInv
  <2>6. ResultInv'
    BY <1>4, <2>1 DEF ResultInv, NextChannel
  <2> QED
    BY <2>3, <2>4, <2>5, <2>6
<1>5. ASSUME Return PROVE RoundInv'
  <2>1. turn' = [turn EXCEPT !.phase = "ended"] /\ turn.phase = "list"
    BY <1>5 DEF Return, Then
  <2>2. \A a \in Archive : LiesSettled(a)' <=> LiesSettled(a)
    BY <1>5 DEF LiesSettled, NothingLeft, Return
  <2>3. RoundTypeOK' /\ InHandInv'
    BY <1>5, <2>1 DEF RoundTypeOK, Return, InHandInv
  <2>4. ReportInv'
    <3>1. lies' = lies /\ reported' = reported /\ tally' = tally
      BY <1>5 DEF Return, RoundTypeOK
    <3> QED
      BY <3>1, ReportsStand
  <2>5. CleanInv'
    BY <1>5, <2>1, <2>2 DEF CleanInv, CleanSoFar, Return, RoundTypeOK
  <2>6. ResultInv'
    BY <1>5, <2>1 DEF ResultInv, Return, RoundTypeOK
  <2> QED
    BY <2>3, <2>4, <2>5, <2>6
<1> QED
  BY <1>1, <1>2, <1>3, <1>4, <1>5

LEMMA RoundFetchStep ==
  ASSUME RoundInv, FetchOne \/ CaptureLands \/ CancelPass
  PROVE  RoundInv'
<1> USE DEF RoundInv
<1>1. ASSUME NEW a \in Archive, TakeSlot(a) PROVE RoundInv'
  <2>1. \E next \in {"asking", "over"} : tried' = [tried EXCEPT ![a] = next] /\ (next = "over" => stopped)
    BY <1>1 DEF TakeSlot, Over
  <2>2. PICK next \in {"asking", "over"} : tried' = [tried EXCEPT ![a] = next] /\ (next = "over" => stopped)
    BY <2>1
  <2>3. tried[a] = "queued" /\ turn.phase = "fetch"
    BY <1>1 DEF TakeSlot, InHandInv, Untried
  <2>4. RoundTypeOK' /\ InHandInv' /\ ResultInv'
    BY <1>1, <2>2, <2>3 DEF TakeSlot, RoundTypeOK, InHandInv, ResultInv
  <2>5. ReportInv'
    BY <1>1 DEF TakeSlot, ReportInv
  <2>6. CleanInv'
    BY <1>1, <2>2 DEF TakeSlot, CleanInv, CleanSoFar, LiesSettled, NothingLeft, RoundTypeOK
  <2> QED
    BY <2>4, <2>5, <2>6
<1>2. ASSUME NEW a \in Archive, AskRoom(a) PROVE RoundInv'
  <2>1. /\ tried[a] = "asking" /\ turn.phase = "fetch" /\ cramped \subseteq cramped'
        /\ \E next \in {"claiming", "over"} :
             /\ tried' = [tried EXCEPT ![a] = next]
             /\ next = "over" => lies[a] = "unpublished" \/ a \in cramped'
    BY <1>2 DEF AskRoom, Over, InHandInv, Untried
  <2>2. PICK next \in {"claiming", "over"} :
             /\ tried' = [tried EXCEPT ![a] = next]
             /\ next = "over" => lies[a] = "unpublished" \/ a \in cramped'
    BY <2>1
  <2>3. RoundTypeOK' /\ InHandInv' /\ ResultInv'
    BY <1>2, <2>1, <2>2 DEF AskRoom, RoundTypeOK, InHandInv, ResultInv
  <2>4. ReportInv'
    BY <1>2 DEF AskRoom, ReportInv
  <2>5. \A b \in Archive : LiesSettled(b) => LiesSettled(b)'
    BY <1>2, <2>1 DEF AskRoom, LiesSettled, NothingLeft
  <2>6. next = "over" => LiesSettled(a)'
    BY <1>2, <2>1, <2>2 DEF AskRoom, LiesSettled, NothingLeft, InHandInv, RoundTypeOK
  <2>7. CleanInv'
    BY <1>2, <2>2, <2>5, <2>6 DEF AskRoom, CleanInv, CleanSoFar, RoundTypeOK
  <2> QED
    BY <2>3, <2>4, <2>7
<1>3. ASSUME NEW a \in Archive, ClaimArchive(a) PROVE RoundInv'
  <2>1. tried[a] = "claiming" /\ turn.phase = "fetch"
    BY <1>3 DEF ClaimArchive, InHandInv, Untried
  <2>2. /\ tally' \in [recovered : Nat, failed : Nat, deferred : Nat]
        /\ tally'.recovered = tally.recovered
        /\ tally'.failed >= tally.failed /\ tally'.deferred >= tally.deferred
        /\ tally' = tally \/ tally'.deferred = tally.deferred + 1 \/ tally'.failed = tally.failed + 1
    <3>1. CASE UNCHANGED tally
      BY <3>1 DEF RoundTypeOK
    <3>2. CASE Count("deferred") \/ Count("failed")
      BY <3>2, CountIs DEF RoundTypeOK
    <3> QED
      BY <1>3, <3>1, <3>2 DEF ClaimArchive, LeftFor
  <2>3. \E next \in {"held", "over"} :
          /\ tried' = [tried EXCEPT ![a] = next]
          /\ next = "held" => lies[a] = "known"
          /\ next = "over" => lies[a] = "captured" \/ Count("deferred") \/ Count("failed")
    BY <1>3 DEF ClaimArchive, LeftFor, Over
  <2>4. PICK next \in {"held", "over"} :
          /\ tried' = [tried EXCEPT ![a] = next]
          /\ next = "held" => lies[a] = "known"
          /\ next = "over" => lies[a] = "captured" \/ Count("deferred") \/ Count("failed")
    BY <2>3
  <2>5. RoundTypeOK' /\ InHandInv' /\ ResultInv'
    BY <1>3, <2>1, <2>2, <2>4 DEF ClaimArchive, RoundTypeOK, InHandInv, ResultInv
  <2>6. ReportInv'
    BY <1>3, <2>2, ReportsStand DEF ClaimArchive
  <2>7. CleanInv'
    <3> SUFFICES ASSUME CleanSoFar' PROVE CleanInv'
      BY DEF CleanInv
    <3>1. tally' = tally /\ CleanSoFar
      BY <1>3, <2>2 DEF ClaimArchive, CleanSoFar, RoundTypeOK
    <3>2. next = "over" => lies[a] = "captured"
      BY <2>4, <3>1, CountIs DEF RoundTypeOK
    <3> QED
      BY <1>3, <2>4, <3>1, <3>2 DEF ClaimArchive, CleanInv, LiesSettled, NothingLeft, RoundTypeOK
  <2> QED
    BY <2>5, <2>6, <2>7
<1>4. ASSUME NEW a \in Archive, EndFetch(a) PROVE RoundInv'
  <2>1. tried[a] = "held" /\ turn.phase = "fetch" /\ lies[a] = "known"
    BY <1>4 DEF EndFetch, InHandInv, Untried
  <2>2. \E next \in {"recovered", "abandoned", "waiting", "known"} :
          lies' = [lies EXCEPT ![a] = next] /\ (next = "known" => stopped)
    BY <1>4, <2>1 DEF EndFetch, RoundTypeOK
  <2>3. PICK next \in {"recovered", "abandoned", "waiting", "known"} :
          lies' = [lies EXCEPT ![a] = next] /\ (next = "known" => stopped)
    BY <2>2
  <2>4. tried' = [tried EXCEPT ![a] = "over"]
    BY <1>4 DEF EndFetch, Over
  <2>5. /\ tally' \in [recovered : Nat, failed : Nat, deferred : Nat]
        /\ tally'.failed >= tally.failed /\ tally'.deferred = tally.deferred
    <3>1. CASE UNCHANGED tally
      BY <3>1 DEF RoundTypeOK
    <3>2. CASE Count("recovered") \/ Count("failed")
      BY <3>2, CountIs DEF RoundTypeOK
    <3> QED
      BY <1>4, <3>1, <3>2 DEF EndFetch
  <2>6. RoundTypeOK' /\ InHandInv' /\ ResultInv'
    BY <1>4, <2>1, <2>3, <2>4, <2>5 DEF EndFetch, RoundTypeOK, InHandInv, ResultInv
  <2>7. ReportInv'
    <3>1. CASE /\ lies' = [lies EXCEPT ![a] = "recovered"] /\ Count("recovered")
               /\ reported' = reported \cup {<<"recovered", a>>}
      <4>1. tally'.recovered = tally.recovered + 1
        BY <3>1, CountIs
      <4>2. <<"recovered", a>> \notin reported /\ <<"fetch_gave_up", a>> \notin reported
        BY <2>1 DEF ReportInv
      <4>3. tally'.recovered = Cardinality({b \in Archive : <<"recovered", b>> \in reported'})
        BY <3>1, <4>1, <4>2, OneMoreCame DEF ReportInv
      <4> QED
        BY <3>1, <4>2, <4>3 DEF ReportInv, RoundTypeOK
    <3>2. CASE /\ lies' = [lies EXCEPT ![a] = "abandoned"] /\ UNCHANGED tally
               /\ reported' = reported \cup {<<"fetch_gave_up", a>>}
      <4>1. {b \in Archive : <<"recovered", b>> \in reported'} = {b \in Archive : <<"recovered", b>> \in reported}
        BY <3>2
      <4>2. <<"recovered", a>> \notin reported /\ <<"fetch_gave_up", a>> \notin reported
        BY <2>1 DEF ReportInv
      <4> QED
        BY <3>2, <4>1, <4>2 DEF ReportInv, RoundTypeOK
    <3>3. CASE lies' = [lies EXCEPT ![a] = "waiting"] /\ Count("failed") /\ UNCHANGED reported
      <4>1. tally'.recovered = tally.recovered
        BY <3>3, CountIs
      <4> QED
        BY <2>1, <3>3, <4>1, ReportsStand DEF RoundTypeOK
    <3>4. CASE UNCHANGED <<lies, tally, reported>>
      BY <3>4 DEF ReportInv
    <3> QED
      BY <1>4, <3>1, <3>2, <3>3, <3>4 DEF EndFetch
  <2>8. CleanInv'
    <3>1. CleanSoFar' => CleanSoFar
      BY <1>4, <2>5 DEF EndFetch, CleanSoFar, RoundTypeOK
    <3>2. CleanSoFar' => LiesSettled(a)'
      BY <1>4, <2>3 DEF EndFetch, CleanSoFar, LiesSettled, NothingLeft, RoundTypeOK
    <3>3. \A b \in Archive \ {a} : lies'[b] = lies[b] /\ tried'[b] = tried[b] /\ LiesSettled(b)' = LiesSettled(b)
      BY <1>4, <2>3, <2>4 DEF EndFetch, LiesSettled, NothingLeft, RoundTypeOK
    <3> QED
      BY <1>4, <2>1, <3>1, <3>2, <3>3 DEF EndFetch, CleanInv, RoundTypeOK
  <2> QED
    BY <2>6, <2>7, <2>8
<1>5. ASSUME CaptureLands PROVE RoundInv'
  <2>1. PICK a \in Archive : lies[a] = "known" /\ tried[a] # "held" /\ lies' = [lies EXCEPT ![a] = "captured"]
    BY <1>5 DEF CaptureLands
  <2>2. RoundTypeOK' /\ InHandInv' /\ ResultInv'
    BY <1>5, <2>1 DEF CaptureLands, RoundTypeOK, InHandInv, ResultInv
  <2>3. ReportInv'
    BY <1>5, <2>1, ReportsStand DEF CaptureLands, RoundTypeOK
  <2>4. CleanInv'
    <3>1. LiesSettled(a)' /\ lies'[a] # "unlisted"
      BY <1>5, <2>1 DEF CaptureLands, LiesSettled, NothingLeft, RoundTypeOK
    <3>2. \A b \in Archive \ {a} : lies'[b] = lies[b] /\ LiesSettled(b)' = LiesSettled(b)
      BY <1>5, <2>1 DEF CaptureLands, LiesSettled, NothingLeft, RoundTypeOK
    <3> QED
      BY <1>5, <3>1, <3>2 DEF CaptureLands, CleanInv, CleanSoFar
  <2> QED
    BY <2>2, <2>3, <2>4
<1>6. ASSUME CancelPass PROVE RoundInv'
  <2>1. RoundTypeOK' /\ InHandInv' /\ ResultInv'
    BY <1>6 DEF CancelPass, RoundTypeOK, InHandInv, ResultInv
  <2>2. ReportInv' /\ CleanInv'
    BY <1>6 DEF CancelPass, ReportInv, CleanInv, CleanSoFar
  <2> QED
    BY <2>1, <2>2
<1> QED
  BY <1>1, <1>2, <1>3, <1>4, <1>5, <1>6 DEF FetchOne

LEMMA RoundInvStep == RoundInv /\ [PassNext]_pass => RoundInv'
<1>1. ASSUME RoundInv, UNCHANGED pass PROVE RoundInv'
  BY <1>1 DEF RoundInv, RoundTypeOK, InHandInv, ReportInv, CleanInv, CleanSoFar, LiesSettled, NothingLeft, ResultInv, pass
<1> QED
  BY <1>1, RoundTurnStep, RoundFetchStep DEF PassNext

LEMMA RoundInvHonest == RoundInv => RoundIsHonest
<1> SUFFICES ASSUME RoundInv, result.ended PROVE RoundIsHonest
  BY DEF RoundIsHonest
<1>1. result = [ended |-> TRUE, counts |-> tally, stopped |-> stopped] /\ (turn.channel > Channels \/ stopped)
  BY DEF RoundInv, ResultInv, Unfinished
<1>2. result.counts = tally /\ result.stopped = stopped
  BY <1>1
<1>3. CleanSoFar => \A a \in Archive : LiesSettled(a)
  BY <1>1, ArchivesAre, PassAssumption DEF RoundInv, RoundTypeOK, CleanInv, CleanSoFar
<1>4. tally.recovered = Cardinality({a \in Archive : <<"recovered", a>> \in reported})
  BY DEF RoundInv, ReportInv
<1>5. \A a \in Archive : lies[a] \in {"recovered", "abandoned"} <=>
                           (<<"recovered", a>> \in reported \/ <<"fetch_gave_up", a>> \in reported)
  BY DEF RoundInv, ReportInv
<1> QED
  BY <1>2, <1>3, <1>4, <1>5 DEF RoundIsHonest, CleanSoFar, LiesSettled, NothingLeft

(* pass.go, Result: a round that ran to its end and counted nothing as     *)
(* failed or deferred left nothing the next one could fetch, but for want  *)
(* of room and what was passed over singly; and it counted and reported    *)
(* once what came.                                                         *)
THEOREM RoundHonest == PassSpec => []RoundIsHonest
  BY RoundInvInit, RoundInvStep, RoundInvHonest, PTL DEF PassSpec

----------------------------------------------------------------------------
(* Audio *)

(* The sum of one stretch.                                                 *)
LEMMA TotalOfOne ==
  ASSUME NEW x, Extent(x) \in Int
  PROVE  Total({x}) = Extent(x)
<1> DEFINE Adding(f) == [s \in SUBSET {x} |-> IF s = {} THEN 0
                                            ELSE Extent(CHOOSE y \in s : TRUE) + f[s \ {CHOOSE y \in s : TRUE}]]
           sum == [s \in SUBSET {x} |-> IF s = {} THEN 0 ELSE Extent(x)]
           iter == CHOOSE f : f = Adding(f)
<1>1. \A s \in SUBSET {x} : s # {} => (CHOOSE y \in s : TRUE) = x /\ s \ {CHOOSE y \in s : TRUE} = {}
  OBVIOUS
<1>2. sum = Adding(sum)
  BY <1>1
<1>3. iter = Adding(iter)
  BY <1>2
<1>4. iter[{}] = 0
  BY <1>3
<1>5. iter[{x}] = Extent(x) + iter[{}]
  BY <1>1, <1>3
<1>6. Total({x}) = iter[{x}]
  BY DEF Total, MapThenSumSet, MapThenFoldSet
<1> QED
  BY <1>4, <1>5, <1>6

(* What one or two stretches come to is more than nothing.                 *)
LEMMA SomeIsMuted ==
  ASSUME DOMAIN spans = {1} \/ DOMAIN spans = {1, 2}, \A n \in DOMAIN spans : spans[n] \in Stretch
  PROVE  MutedTotal > 0
<1> DEFINE D == DOMAIN spans
           Pick(s) == CHOOSE n \in s : TRUE
           Adding(f) == [s \in SUBSET D |-> IF s = {} THEN 0 ELSE Extent(spans[Pick(s)]) + f[s \ {Pick(s)}]]
           One(n) == Extent(spans[n])
           sum == [s \in SUBSET D |-> (IF 1 \in s THEN One(1) ELSE 0) + (IF 2 \in s THEN One(2) ELSE 0)]
           iter == CHOOSE f : f = Adding(f)
<1>1. \A n \in D : One(n) \in Nat /\ One(n) > 0
  BY DEF Stretch, Extent, AudioEnd, Segments, SegmentUnits
<1>2. \A s \in SUBSET D : s # {} => Pick(s) \in s
  OBVIOUS
<1>3. D \subseteq {1, 2} /\ D # {}
  OBVIOUS
<1> HIDE DEF Pick, One, D
<1>4. \A s \in SUBSET D : s # {} => sum[s] = One(Pick(s)) + sum[s \ {Pick(s)}]
  <2> TAKE s \in SUBSET D
  <2>1. \A n \in s : n \in {1, 2} /\ One(n) \in Nat
    BY <1>1, <1>3
  <2>2. s \ {Pick(s)} \in SUBSET D
    OBVIOUS
  <2> HAVE s # {}
  <2>3. Pick(s) \in s /\ Pick(s) \in {1, 2}
    BY <1>2, <2>1
  <2>4. CASE Pick(s) = 1
    BY <2>1, <2>2, <2>3, <2>4
  <2>5. CASE Pick(s) = 2
    BY <2>1, <2>2, <2>3, <2>5
  <2> QED
    BY <2>3, <2>4, <2>5
<1>5. sum = Adding(sum)
  <2>1. \A s \in SUBSET D : sum[s] = IF s = {} THEN 0 ELSE Extent(spans[Pick(s)]) + sum[s \ {Pick(s)}]
    <3>1. \A s \in SUBSET D : s = {} => sum[s] = 0
      OBVIOUS
    <3> QED
      BY <1>4, <3>1 DEF One
  <2> HIDE DEF sum
  <2>2. sum = [s \in SUBSET D |-> sum[s]]
    BY DEF sum
  <2> QED
    BY <2>1, <2>2
<1>6. iter = Adding(iter)
  BY <1>5
<1>7. \A s \in SUBSET D : iter[s] = IF s = {} THEN 0 ELSE One(Pick(s)) + iter[s \ {Pick(s)}]
  BY <1>6 DEF One
<1>8. MutedTotal = iter[D]
  BY DEF MutedTotal, MapThenSumSet, MapThenFoldSet, Pick, D
<1> HIDE DEF iter
<1>9. \A s \in SUBSET D : s # {} => s \ {Pick(s)} \in SUBSET D /\ One(Pick(s)) \in Nat /\ One(Pick(s)) > 0
  BY <1>1, <1>2
<1>10. iter[{}] = 0
  BY <1>7
<1>11. D \ {Pick(D)} = {} \/ (D \ {Pick(D)}) \ {Pick(D \ {Pick(D)})} = {}
  <2>1. Pick(D) \in D /\ D \in SUBSET D
    BY <1>2, <1>3
  <2>2. D \ {Pick(D)} # {} => Pick(D \ {Pick(D)}) \in D \ {Pick(D)}
    BY <1>2
  <2>3. \A a, b \in {1, 2} : a # b => {1, 2} \ {a} \subseteq {b}
    OBVIOUS
  <2>4. D \ {Pick(D)} # {} => D \subseteq {Pick(D), Pick(D \ {Pick(D)})}
    BY <1>3, <2>1, <2>2, <2>3
  <2> QED
    BY <2>4
<1>12. iter[D \ {Pick(D)}] \in Nat
  <2>1. CASE D \ {Pick(D)} = {}
    BY <1>10, <2>1
  <2>2. CASE D \ {Pick(D)} # {}
    BY <1>7, <1>9, <1>10, <1>11, <2>2
  <2> QED
    BY <2>1, <2>2
<1>13. iter[D] = One(Pick(D)) + iter[D \ {Pick(D)}] /\ One(Pick(D)) \in Nat /\ One(Pick(D)) > 0
  <2>1. D \in SUBSET D
    OBVIOUS
  <2> QED
    BY <1>3, <1>7, <1>9, <2>1
<1> QED
  BY <1>8, <1>12, <1>13

AudioInv ==
  /\ \/ spans = <<>>
     \/ /\ DOMAIN spans = {1} \/ DOMAIN spans = {1, 2}
        /\ \A n \in DOMAIN spans : spans[n] \in Stretch
        /\ \A i \in 1 .. Segments : playlist[i].named \in {"plain", "unmuted", "elsewhere"}
  /\ address = "original" => spans # <<>> /\ OriginalIsServed
  /\ muted # NotHeard => media # <<>>
  /\ muted = 0 => \A n \in Verified : ~SilentOver(spans[n])

LEMMA VerifiedAre == \A n \in Verified : n \in DOMAIN spans /\ Extent(spans[n]) >= Shortest
  BY DEF Verified, Measurable

(* A stretch that is silent throughout is heard to be.                     *)
LEMMA SilentIsHeard ==
  ASSUME NEW s \in Stretch, Extent(s) >= Shortest, SilentOver(s)
  PROVE  SilentBetween(s)
<1>1. /\ s.from \in Int /\ s.to \in Int /\ s.from < s.to /\ s = [from |-> s.from, to |-> s.to]
      /\ Extent(s) \in Nat
  BY DEF Stretch, Extent, AudioEnd, Segments, SegmentUnits
<1>2. \A r \in Stretch : r.from \in Int /\ r.to \in Int /\ r = [from |-> r.from, to |-> r.to]
  BY DEF Stretch, AudioEnd, Segments, SegmentUnits
<1>3. ASSUME NEW r \in Stretch, s.from <= r.from, r.to <= s.to,
             \A o \in Stretch : s.from <= o.from /\ o.to <= s.to /\ SilentOver(o)
                                  /\ o.from <= r.from /\ r.to <= o.to => o = r
      PROVE  r = s
  BY <1>1, <1>3
<1>4. Runs(s) = {s}
  <2>1. s \in Runs(s)
    <3>1. \A o \in Stretch : s.from <= o.from /\ o.to <= s.to /\ o.from <= s.from /\ s.to <= o.to => o = s
      BY <1>1, <1>2
    <3> QED
      BY <1>1, <3>1 DEF Runs
  <2>2. ASSUME NEW r \in Runs(s) PROVE r = s
    BY <1>3, <2>2 DEF Runs
  <2> QED
    BY <2>1, <2>2
<1>5. (IF Unended(s, s) THEN [s EXCEPT !.to = s.to] ELSE s) = s
  BY <1>1
<1>6. {IF Unended(r, s) THEN [r EXCEPT !.to = s.to] ELSE r : r \in Runs(s)} = {s}
  BY <1>4, <1>5
<1>7. SilentFor(s) = Extent(s)
  BY <1>1, <1>6, TotalOfOne DEF SilentFor
<1> QED
  BY <1>1, <1>7 DEF SilentBetween

LEMMA AudioInvStep == AudioInv /\ [AudioNext]_audio => AudioInv'
<1> SUFFICES ASSUME AudioInv, [AudioNext]_audio PROVE AudioInv'
  OBVIOUS
<1> USE DEF AudioInv
<1>1. CASE AudibleSource
  <2>1. UNCHANGED <<playlist, served, spans, media, muted>>
    BY <1>1 DEF AudibleSource
  <2>2. address' = "original" => spans # <<>> /\ OriginalIsServed
    BY <1>1 DEF AudibleSource, Recovered
  <2>3. OriginalIsServed' <=> OriginalIsServed
    BY <2>1 DEF OriginalIsServed, OriginalSegments, OverlapsAny, StartOf, SegmentLength, Serves
  <2>4. Verified' = Verified /\ \A s : SilentOver(s)' <=> SilentOver(s)
    BY <2>1 DEF Verified, Measurable, SilentOver
  <2> QED
    BY <2>1, <2>2, <2>3, <2>4
<1>2. CASE DownloadSound
  <2>1. UNCHANGED <<playlist, served, spans, address, muted>> /\ media = <<>>
    BY <1>2 DEF DownloadSound
  <2>2. OriginalIsServed' <=> OriginalIsServed
    BY <2>1 DEF OriginalIsServed, OriginalSegments, OverlapsAny, StartOf, SegmentLength, Serves
  <2>3. muted = NotHeard /\ muted # 0
    BY <2>1 DEF NotHeard
  <2> QED
    BY <2>1, <2>2, <2>3
<1>3. CASE SilenceHeldBy
  <2>1. UNCHANGED <<playlist, served, spans, address, media>> /\ media # <<>>
    BY <1>3 DEF SilenceHeldBy
  <2>2. OriginalIsServed' <=> OriginalIsServed
    BY <2>1 DEF OriginalIsServed, OriginalSegments, OverlapsAny, StartOf, SegmentLength, Serves
  <2>3. Verified' = Verified /\ \A s : SilentOver(s)' <=> SilentOver(s)
    BY <2>1 DEF Verified, Measurable, SilentOver
  <2>4. ASSUME muted' = 0, NEW n \in Verified PROVE ~SilentOver(spans[n])
    <3>1. n \in DOMAIN spans /\ Extent(spans[n]) >= Shortest /\ spans # <<>> /\ spans[n] \in Stretch
      BY VerifiedAre
    <3>2. MutedTotal > 0
      BY <3>1, SomeIsMuted
    <3>3. ~SilentBetween(spans[n])
      BY <1>3, <2>4, <3>2 DEF SilenceHeldBy
    <3> QED
      BY <3>1, <3>3, SilentIsHeard
  <2> QED
    BY <2>1, <2>2, <2>3, <2>4
<1>4. CASE UNCHANGED audio
  <2>1. UNCHANGED <<playlist, served, spans, address, media, muted>>
    BY <1>4 DEF audio
  <2> QED
    BY <2>1 DEF OriginalIsServed, OriginalSegments, OverlapsAny, StartOf, SegmentLength, Serves,
                Verified, Measurable, SilentOver
<1> QED
  BY <1>1, <1>2, <1>3, <1>4 DEF AudioNext

(* Where every segment can be read, one begins where the ones before end.  *)
LEMMA StartOfReadable ==
  ASSUME \A i \in 1 .. Segments : playlist[i].readable, NEW i \in 1 .. Segments
  PROVE  StartOf(i) = SegmentUnits * (i - 1)
<1>1. {j \in 1 .. i - 1 : playlist[j].readable} = 1 .. i - 1
  BY DEF Segments
<1>2. Cardinality(1 .. i - 1) = i - 1
  BY FS_Interval DEF Segments
<1> QED
  BY <1>1, <1>2 DEF StartOf

LEMMA AudioInvTold == AudioInv => SilenceIsTold
<1> SUFFICES ASSUME AudioInv PROVE SilenceIsTold
  OBVIOUS
<1>1. ASSUME address = "original", \A i \in 1 .. Segments : playlist[i].readable /\ playlist[i].named # "elsewhere",
             NEW n \in DOMAIN spans, NEW u \in Moment, u \in spans[n].from .. spans[n].to - 1
      PROVE  SegmentOf(u) \notin Renamed \ served
  <2> DEFINE i == SegmentOf(u)
  <2>1. /\ spans[n] \in Stretch /\ OriginalIsServed
        /\ \A j \in 1 .. Segments : playlist[j].named \in {"plain", "unmuted", "elsewhere"}
    BY <1>1 DEF AudioInv
  <2>2. i \in 1 .. Segments /\ SegmentUnits * (i - 1) <= u /\ u < SegmentUnits * (i - 1) + SegmentUnits /\ u \in Int
    BY DEF SegmentOf, Moment, AudioEnd, Segments, SegmentUnits
  <2>3. StartOf(i) = SegmentUnits * (i - 1) /\ SegmentLength(i) = SegmentUnits
    BY <1>1, <2>2, StartOfReadable DEF SegmentLength
  <2>4. spans[n].from \in Int /\ spans[n].to \in Int /\ spans[n].from <= u /\ u < spans[n].to
    BY <1>1, <2>1, <2>2 DEF Stretch, AudioEnd, Segments, SegmentUnits
  <2>5. OverlapsAny(StartOf(i), StartOf(i) + SegmentLength(i))
    BY <2>2, <2>3, <2>4 DEF OverlapsAny, SegmentUnits
  <2> HIDE DEF i
  <2>6. i \in Renamed => i \in OriginalSegments
    BY <1>1, <2>1, <2>2, <2>5 DEF Renamed, OriginalSegments
  <2>7. i \in OriginalSegments => i \in served
    BY <2>1 DEF OriginalIsServed, Serves
  <2> QED
    BY <2>6, <2>7 DEF i
<1> QED
  BY <1>1 DEF AudioInv, SilenceIsTold

LEMMA AudioInvInit == AudioInit => AudioInv
<1> SUFFICES ASSUME AudioInit PROVE AudioInv
  OBVIOUS
<1>1. \A i \in 1 .. Segments : playlist[i].named \in {"plain", "unmuted", "elsewhere"}
  BY DEF AudioInit, Playlist
<1>2. spans # <<>> => /\ DOMAIN spans = {1} \/ DOMAIN spans = {1, 2}
                      /\ \A n \in DOMAIN spans : spans[n] \in Stretch
  <2>1. CASE \E s \in Stretch : spans = <<s>>
    BY <2>1
  <2>2. CASE \E p \in Stretch \X Stretch : spans = p
    BY <2>2
  <2> QED
    BY <2>1, <2>2 DEF AudioInit
<1> QED
  BY <1>1, <1>2 DEF AudioInit, AudioInv, NotAsked, NotHeard

(* mute.go, OriginalAudio, and fetch.go, silenceHeldBy: the original is    *)
(* taken only where it stands for every stretch, and what is said to lack  *)
(* nothing was heard, however many segments are asked for and stretches    *)
(* listened to.                                                            *)
THEOREM SilenceTold == AudioSpec => []SilenceIsTold
  BY AudioInvInit, AudioInvStep, AudioInvTold, PTL DEF AudioSpec

----------------------------------------------------------------------------
(* The silences of a row *)

(* What is stored, and what the platform answered.                         *)
StoredAs(list, answer) ==
  /\ stretches = {list} /\ answered = {answer}
  /\ \/ answer = <<>> /\ list = <<>>
     \/ \E s \in Silence : answer = <<s>> /\ list = <<<<Milliseconds(s[1]), Milliseconds(s[2])>>>>
     \/ \E s \in Silence :
          \/ list = <<s>> /\ answer = <<<<Fine * s[1], Fine * s[2]>>>>
          \/ list = <<<<0, 1>>, s>> /\ answer = <<<<0, Fine>>, <<Fine * s[1], Fine * s[2]>>>>

SilencesInv ==
  (stretches = NoAnswer /\ answered = NoAnswer) \/ \E list, answer : StoredAs(list, answer)

LEMMA SilencesInvStep == SilencesInv /\ [SilencesNext]_silences => SilencesInv'
<1> SUFFICES ASSUME SilencesInv, [SilencesNext]_silences PROVE SilencesInv'
  OBVIOUS
<1>1. CASE InsertBroadcast
  <2>1. PICK answer \in {<<>>} \cup {<<s>> : s \in Silence} : stretches' = Encode({answer}) /\ answered' = {answer}
    BY <1>1 DEF InsertBroadcast
  <2>2. CASE answer = <<>>
    <3>1. Encode({answer}) = {<<>>}
      BY <2>2 DEF Encode
    <3>2. StoredAs(<<>>, <<>>)'
      BY <2>1, <2>2, <3>1 DEF StoredAs
    <3> QED
      BY <3>2 DEF SilencesInv
  <2>3. CASE \E s \in Silence : answer = <<s>>
    <3>1. PICK s \in Silence : answer = <<s>>
      BY <2>3
    <3> DEFINE list == <<<<Milliseconds(s[1]), Milliseconds(s[2])>>>>
    <3>2. [i \in DOMAIN answer |-> <<Milliseconds(answer[i][1]), Milliseconds(answer[i][2])>>] = list
      BY <3>1
    <3>3. Encode({answer}) = {list}
      BY <3>2 DEF Encode
    <3>4. StoredAs(list, answer)'
      BY <2>1, <3>1, <3>3 DEF StoredAs
    <3> QED
      BY <3>4 DEF SilencesInv
  <2> QED
    BY <2>1, <2>2, <2>3
<1>2. CASE WriteUnbounded
  <2>1. PICK s \in Silence : \E list \in {<<s>>, <<<<0, 1>>, s>>} :
          /\ stretches' = {list}
          /\ answered' = {[i \in DOMAIN list |-> <<Fine * list[i][1], Fine * list[i][2]>>]}
    BY <1>2 DEF WriteUnbounded
  <2>2. PICK list \in {<<s>>, <<<<0, 1>>, s>>} :
          /\ stretches' = {list}
          /\ answered' = {[i \in DOMAIN list |-> <<Fine * list[i][1], Fine * list[i][2]>>]}
    BY <2>1
  <2> DEFINE answer == [i \in DOMAIN list |-> <<Fine * list[i][1], Fine * list[i][2]>>]
  <2>3. CASE list = <<s>>
    <3>1. answer = <<<<Fine * s[1], Fine * s[2]>>>>
      BY <2>3
    <3>2. StoredAs(list, answer)'
      BY <2>2, <2>3, <3>1 DEF StoredAs
    <3> QED
      BY <3>2 DEF SilencesInv
  <2>4. CASE list = <<<<0, 1>>, s>>
    <3>1. answer = <<<<0, Fine>>, <<Fine * s[1], Fine * s[2]>>>>
      BY <2>4 DEF Fine
    <3>2. StoredAs(list, answer)'
      BY <2>2, <2>4, <3>1 DEF StoredAs
    <3> QED
      BY <3>2 DEF SilencesInv
  <2> QED
    BY <2>2, <2>3, <2>4
<1>3. CASE UNCHANGED silences
  BY <1>3 DEF SilencesInv, StoredAs, silences
<1> QED
  BY <1>1, <1>2, <1>3 DEF SilencesNext

LEMMA SilenceIs ==
  ASSUME NEW s \in Silence
  PROVE  s[1] \in Int /\ s[2] \in Int /\ s = <<s[1], s[2]>>
  BY SilencesAssumption DEF Silence, Fine

(* A number of milliseconds in range does not wrap.                        *)
LEMMA InRangeStands ==
  ASSUME NEW n \in Int, 0 <= n, n <= MaxMuted
  PROVE  Wrapped(Fine * n) = Fine * n
<1> DEFINE top == 2 * Fine * MaxMuted + 1
           x == Fine * n + top
<1>1. x \in Int /\ 0 <= x /\ x < 2 * top /\ 2 * top \in Nat \ {0} /\ top \in Int
  BY SilencesAssumption DEF Fine
<1>2. \A m \in Nat \ {0}, k \in Int : 0 <= k /\ k < m => k % m = k
  OBVIOUS
<1> HIDE DEF top
<1>3. x % (2 * top) = x
  BY <1>1, <1>2
<1>4. Wrapped(Fine * n) = x - top
  BY <1>3 DEF Wrapped, Wraps, top
<1> QED
  BY <1>1, <1>4 DEF Fine

(* What the reader makes of a stretch in range is near what was answer.     *)
LEMMA StretchReturns ==
  ASSUME NEW from \in Int, NEW length \in Int, InRange(from, length)
  PROVE  OneStretch(<<from, length>>) = <<Fine * from, Fine * length>> /\ Fine * length > 0
<1>1. 0 <= from /\ from <= MaxMuted /\ 0 < length /\ length <= MaxMuted
  BY DEF InRange
<1> QED
  BY <1>1, InRangeStands DEF OneStretch, Fine

LEMMA MillisecondsNear ==
  ASSUME NEW n \in Int, Milliseconds(n) >= 0
  PROVE  Milliseconds(n) \in Int /\ Fine * Milliseconds(n) - n \in (1 - Fine) .. (Fine - 1)
  BY DEF Milliseconds, Fine

LEMMA SilencesInvReturn == SilencesInv => SilencesReturn
<1> DEFINE Near(list, answer) ==
             /\ Len(list) = Len(answer)
             /\ \A i \in DOMAIN list :
                  /\ list[i][1] - answer[i][1] \in (1 - Fine) .. (Fine - 1)
                  /\ list[i][1] + list[i][2] > list[i][1]
           Read(list) == [i \in DOMAIN list |-> OneStretch(list[i])]
<1>1. ASSUME NEW list, NEW answer, StoredAs(list, answer), \A i \in DOMAIN list : InRange(list[i][1], list[i][2])
      PROVE  Near(Read(list), answer)
  <2>1. CASE answer = <<>> /\ list = <<>>
    BY <2>1
  <2>2. ASSUME NEW s \in Silence, answer = <<s>>, list = <<<<Milliseconds(s[1]), Milliseconds(s[2])>>>>
        PROVE  Near(Read(list), answer)
    <3>1. s[1] \in Int /\ s[2] \in Int
      BY SilenceIs
    <3>2. InRange(Milliseconds(s[1]), Milliseconds(s[2]))
      BY <1>1, <2>2
    <3>3. Milliseconds(s[1]) >= 0 /\ Milliseconds(s[2]) >= 0
      BY <3>1, <3>2 DEF InRange, Milliseconds, Fine
    <3>4. /\ Milliseconds(s[1]) \in Int /\ Fine * Milliseconds(s[1]) - s[1] \in (1 - Fine) .. (Fine - 1)
          /\ Milliseconds(s[2]) \in Int
      BY <3>1, <3>3, MillisecondsNear
    <3>5. /\ Read(list) = <<<<Fine * Milliseconds(s[1]), Fine * Milliseconds(s[2])>>>>
          /\ Fine * Milliseconds(s[2]) > 0
      BY <2>2, <3>2, <3>4, StretchReturns
    <3> HIDE DEF Read
    <3> QED
      BY <2>2, <3>4, <3>5 DEF Fine
  <2>3. ASSUME NEW s \in Silence, list = <<s>>, answer = <<<<Fine * s[1], Fine * s[2]>>>>
        PROVE  Near(Read(list), answer)
    <3>1. s[1] \in Int /\ s[2] \in Int /\ s = <<s[1], s[2]>> /\ InRange(s[1], s[2])
      BY <1>1, <2>3, SilenceIs
    <3>2. Read(list) = <<<<Fine * s[1], Fine * s[2]>>>> /\ Fine * s[2] > 0
      BY <2>3, <3>1, StretchReturns
    <3> HIDE DEF Read
    <3> QED
      BY <2>3, <3>1, <3>2 DEF Fine
  <2>4. ASSUME NEW s \in Silence, list = <<<<0, 1>>, s>>, answer = <<<<0, Fine>>, <<Fine * s[1], Fine * s[2]>>>>
        PROVE  Near(Read(list), answer)
    <3>1. s[1] \in Int /\ s[2] \in Int /\ s = <<s[1], s[2]>> /\ InRange(s[1], s[2]) /\ InRange(0, 1)
      BY <1>1, <2>4, SilenceIs
    <3>2. OneStretch(s) = <<Fine * s[1], Fine * s[2]>> /\ Fine * s[2] > 0 /\ OneStretch(<<0, 1>>) = <<Fine * 0, Fine * 1>>
      BY <3>1, StretchReturns
    <3>3. Read(list) = <<<<Fine * 0, Fine * 1>>, <<Fine * s[1], Fine * s[2]>>>>
      BY <2>4, <3>2
    <3> HIDE DEF Read
    <3> QED
      BY <2>4, <3>1, <3>2, <3>3 DEF Fine
  <2> QED
    BY <1>1, <2>1, <2>2, <2>3, <2>4 DEF StoredAs
<1>2. ASSUME NEW list, NEW answer, StoredAs(list, answer) PROVE SilencesReturn
  <2>1. stretches = {list} /\ answered = {answer}
    BY <1>2 DEF StoredAs
  <2>2. CASE Bounded(stretches)
    <3>1. Decode(stretches).answer = {Read(list)}
      BY <2>1, <2>2 DEF Decode
    <3>2. Near(Read(list), answer)
      BY <1>1, <1>2, <2>1, <2>2 DEF Bounded
    <3> HIDE DEF Read
    <3> QED
      BY <2>1, <3>1, <3>2 DEF SilencesReturn, NoAnswer
  <2>3. CASE ~Bounded(stretches)
    BY <2>3 DEF Decode, SilencesReturn
  <2> QED
    BY <2>2, <2>3
<1>3. ASSUME stretches = NoAnswer, answered = NoAnswer PROVE SilencesReturn
  BY <1>3 DEF SilencesReturn, Decode, NoAnswer
<1> QED
  BY <1>2, <1>3 DEF SilencesInv

(* broadcast.go, decodeMutedSpans: what is read of a row's silences is     *)
(* what the platform answered, to the millisecond, or is refused whole,    *)
(* whatever the longest silence is.                                        *)
THEOREM SilencesAreReturned == SilencesSpec => []SilencesReturn
<1>1. SilencesInit => SilencesInv
  BY DEF SilencesInit, SilencesInv
<1> QED
  BY <1>1, SilencesInvStep, SilencesInvReturn, PTL DEF SilencesSpec
=============================================================================
