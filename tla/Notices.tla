------------------------------ MODULE Notices ------------------------------
(***************************************************************************)
(* How the recorder tells of what happens: the socket other processes      *)
(* follow it on, and further down the sinks of the recorder itself.        *)
(*                                                                         *)
(* The notification socket (internal/notify/bus.go): recorders that start  *)
(* open it before they claim the library (cmd/stream-dvr/serve.go), and    *)
(* agents and windows follow whatever listens there.  What a socket leads  *)
(* to is its path's: a recorder that died leaves the path behind, and one  *)
(* that closes its listener unlinks the path, whoever's socket lies there. *)
(***************************************************************************)
EXTENDS Naturals, FiniteSets, Sequences

CONSTANTS Recorder,     \* the processes that may record
          Agent,        \* the agents and windows that follow
          Subscribers,  \* maxSubscribers
          Queue         \* queueDepth

ASSUME NoticesAssumption == Subscribers \in Nat /\ Queue \in Nat

VARIABLES socket,       \* what lies at the path: nothing, a dead one's, or a recorder's
          recorder,     \* where each recorder stands
          bus,          \* the recorders whose listener is open
          follows,      \* whom each agent is connected to
          queue,        \* the events that wait for each agent
          undisturbed   \* history: those that opened the bus while no other was about to

notices == <<socket, recorder, bus, follows, queue, undisturbed>>

NoSocket == "nobody"
Stale == "stale"

Starting(r) == recorder[r] \in {"asked", "removed"}
Move(r, at) == recorder' = [recorder EXCEPT ![r] = at]

Followers(r) == {a \in Agent : follows[a] = r}

(* The connections of a listener end with it.                              *)
HangUp(r) ==
  /\ bus' = bus \ {r} /\ undisturbed' = undisturbed \ {r}
  /\ follows' = [a \in Agent |-> IF follows[a] = r THEN NoSocket ELSE follows[a]]
  /\ queue' = [a \in Agent |-> IF follows[a] = r THEN 0 ELSE queue[a]]

----------------------------------------------------------------------------
(* Listen                                                                  *)

(* A start that takes whatever lies at the path for a socket left behind.  *)
AskNothing(r) ==
  /\ recorder[r] = "off" /\ Move(r, "asked")
  /\ UNCHANGED <<socket, bus, follows, queue, undisturbed>>

(* dialable: a socket that answers is left alone, and the recorder goes on *)
(* without a bus, as it does where the setting is off or the path is bad.  *)
AskSocket(r) ==
  /\ recorder[r] = "off"
  /\ \/ socket \notin bus /\ Move(r, "asked")
     \/ Move(r, "opened")
  /\ UNCHANGED <<socket, bus, follows, queue, undisturbed>>

RemoveSocket(r) ==
  /\ recorder[r] = "asked"
  /\ socket' = NoSocket /\ Move(r, "removed")
  /\ UNCHANGED <<bus, follows, queue, undisturbed>>

(* bind fails over what is there.                                          *)
Bind(r) ==
  /\ recorder[r] = "removed" /\ Move(r, "opened")
  /\ IF socket = NoSocket
     THEN /\ socket' = r /\ bus' = bus \cup {r}
          /\ undisturbed' = IF bus = {} /\ \A q \in Recorder \ {r} : ~Starting(q)
                            THEN undisturbed \cup {r} ELSE undisturbed
     ELSE UNCHANGED <<socket, bus, undisturbed>>
  /\ UNCHANGED <<follows, queue>>

----------------------------------------------------------------------------
(* runServe: the claim, the run, and the sinks closed behind it            *)

Claim(r) ==
  /\ recorder[r] = "opened"
  /\ Move(r, IF \E q \in Recorder : recorder[q] = "running" THEN "leaving" ELSE "running")
  /\ UNCHANGED <<socket, bus, follows, queue, undisturbed>>

EndRun(r) ==
  /\ recorder[r] = "running" /\ Move(r, "leaving")
  /\ UNCHANGED <<socket, bus, follows, queue, undisturbed>>

CloseBus(r) ==
  /\ recorder[r] = "leaving" /\ Move(r, "off")
  /\ socket' = IF r \in bus THEN NoSocket ELSE socket
  /\ HangUp(r)

Dies(r) ==
  /\ recorder[r] # "off" /\ Move(r, "off")
  /\ socket' = IF socket = r THEN Stale ELSE socket
  /\ HangUp(r)

----------------------------------------------------------------------------
(* Notify, drain and Follow                                                *)

(* A subscriber whose queue is full misses the event, and nobody waits.    *)
Publish(r) ==
  /\ r \in bus
  /\ queue' = [a \in Agent |-> IF follows[a] = r /\ queue[a] < Queue THEN queue[a] + 1 ELSE queue[a]]
  /\ UNCHANGED <<socket, recorder, bus, follows, undisturbed>>

(* A write goes through, or the deadline ends the connection.              *)
Drain(a) ==
  /\ queue[a] > 0
  /\ \/ queue' = [queue EXCEPT ![a] = @ - 1] /\ UNCHANGED follows
     \/ queue' = [queue EXCEPT ![a] = 0] /\ follows' = [follows EXCEPT ![a] = NoSocket]
  /\ UNCHANGED <<socket, recorder, bus, undisturbed>>

(* readFrom, and register, which refuses past the limit.                   *)
Follow(a) ==
  /\ follows[a] = NoSocket /\ socket \in bus
  /\ Cardinality(Followers(socket)) < Subscribers
  /\ follows' = [follows EXCEPT ![a] = socket]
  /\ UNCHANGED <<socket, recorder, bus, queue, undisturbed>>

NoticesInit ==
  /\ socket \in {NoSocket, Stale} /\ bus = {} /\ undisturbed = {}
  /\ recorder = [r \in Recorder |-> "off"]
  /\ follows = [a \in Agent |-> NoSocket] /\ queue = [a \in Agent |-> 0]

NoticesNext ==
  \/ \E r \in Recorder :
       \/ AskSocket(r) \/ RemoveSocket(r) \/ Bind(r) \/ Claim(r)
       \/ EndRun(r) \/ CloseBus(r) \/ Dies(r) \/ Publish(r)
  \/ \E a \in Agent : Drain(a) \/ Follow(a)

NoticesSpec == NoticesInit /\ [][NoticesNext]_notices

----------------------------------------------------------------------------

(* bus.go, Listen: a second recorder must not leave the one that holds the *)
(* library "listening where nothing can reach it".  A bus that was opened  *)
(* while no other recorder had one or was between its question and its own *)
(* can be reached for as long as it is open, whatever starts and ends.     *)
SocketSurvives == \A r \in undisturbed : socket = r

----------------------------------------------------------------------------
(***************************************************************************)
(* The sinks an event is told to (internal/daemon/notify.go) and the one   *)
(* that posts it to the operator's address (internal/notify/notify.go).    *)
(* Events come from every goroutine of the recorder, one sender posts      *)
(* them in order, the receiver answers, refuses or says nothing, and a     *)
(* shutdown closes the sink while events may still come.                   *)
(***************************************************************************)

CONSTANTS Events,       \* how many events there are
          QueueDepth    \* how many may wait for the receiver

ASSUME WebhookAssumption == Events \in Nat /\ QueueDepth \in Nat \ {0}

Event == 1 .. Events
NoEvent == 0

VARIABLES happened,     \* how many events there were
          wanted,        \* the events the settings ask for, of those that happened
          logged,       \* the events in the log
          raised,       \* the events the desktop was told, whether or not it could
          pending,        \* the events that wait
          posting,      \* the event that is being posted
          posted,       \* the events that were posted, in order, and how each ended
          dropped,      \* the events that were not queued
          hook,         \* "open", "closing", "cancelled" or "closed"
          panicked      \* whether an event was sent into the closed pending

webhook == <<happened, wanted, logged, raised, pending, posting, posted, dropped, hook, panicked>>
sinks == <<happened, wanted, logged, raised>>

----------------------------------------------------------------------------

(* Mutant of Enqueue: the queue is not asked whether it is closed.         *)
EnqueueAnyway(e) ==
  IF Len(pending) < QueueDepth
  THEN pending' = Append(pending, e) /\ panicked' = (hook # "open") /\ UNCHANGED dropped
  ELSE dropped' = dropped \cup {e} /\ UNCHANGED <<pending, panicked>>

(* Mutant of Enqueue: the newest event pushes the oldest one out.          *)
EnqueueNewest(e) ==
  /\ pending' = Append(IF Len(pending) < QueueDepth THEN pending ELSE Tail(pending), e)
  /\ UNCHANGED <<dropped, panicked>>

(* Notify: never waits, and tells under the lock whether it is closed.     *)
Enqueue(e) ==
  IF hook = "open" /\ Len(pending) < QueueDepth
  THEN pending' = Append(pending, e) /\ UNCHANGED <<dropped, panicked>>
  ELSE dropped' = dropped \cup {e} /\ UNCHANGED <<pending, panicked>>

(* Notifiers.Notify: a desktop that fails does not keep the event from the *)
(* sink behind it.                                                         *)
Tell(e) ==
  /\ logged' = logged \cup {e} /\ raised' = raised \cup {e}
  /\ Enqueue(e)

(* Daemon.notify: an event whose kind is switched off is nothing.          *)
Notify ==
  /\ happened < Events /\ happened' = happened + 1
  /\ \/ wanted' = wanted \cup {happened'} /\ Tell(happened')
     \/ UNCHANGED <<wanted, logged, raised, pending, dropped, panicked>>
  /\ UNCHANGED <<posting, posted, hook>>

(* run: one at a time, and the rest of the queue when it is closed.        *)
TakeEvent ==
  /\ posting = NoEvent /\ pending # <<>> /\ posting' = Head(pending) /\ pending' = Tail(pending)
  /\ UNCHANGED <<posted, dropped, hook, panicked, sinks>>

EndPost(how) ==
  /\ posted' = Append(posted, <<posting, how>>) /\ posting' = NoEvent
  /\ UNCHANGED <<pending, dropped, hook, panicked, sinks>>

(* send: the receiver takes it, or answers something else, a redirect      *)
(* among it, which is not followed.                                        *)
ReceiverAnswers == posting # NoEvent /\ hook # "cancelled" /\ (EndPost("delivered") \/ EndPost("refused"))

(* sendTimeout                                                             *)
TimeOut == posting # NoEvent /\ hook # "cancelled" /\ EndPost("unanswered")

(* What is in flight when the context ends fails, and so does what is      *)
(* posted after it.                                                        *)
Cancelled == posting # NoEvent /\ hook = "cancelled" /\ EndPost("cancelled")

(* Close, once.                                                            *)
CloseHook ==
  /\ hook = "open" /\ hook' = "closing"
  /\ UNCHANGED <<pending, posting, posted, dropped, panicked, sinks>>

Drained == posting = NoEvent /\ pending = <<>>

(* Mutant of Grace: the shutdown waits for what is queued.                 *)
GraceOfTheQueue ==
  /\ hook = "closing" /\ Drained /\ hook' = "closed"
  /\ UNCHANGED <<pending, posting, posted, dropped, panicked, sinks>>

(* closeGrace                                                              *)
Grace ==
  /\ \/ hook = "closing" /\ ~Drained /\ hook' = "cancelled"
     \/ hook \in {"closing", "cancelled"} /\ Drained /\ hook' = "closed"
  /\ UNCHANGED <<pending, posting, posted, dropped, panicked, sinks>>

----------------------------------------------------------------------------

WebhookInit ==
  /\ happened = 0 /\ wanted = {} /\ logged = {} /\ raised = {}
  /\ pending = <<>> /\ posting = NoEvent /\ posted = <<>> /\ dropped = {}
  /\ hook = "open" /\ panicked = FALSE

WebhookNext ==
  \/ Notify \/ TakeEvent \/ ReceiverAnswers \/ TimeOut \/ Cancelled \/ CloseHook \/ Grace

(* The sender and the shutdown's timer run; the receiver owes nothing, and *)
(* a timeout of one post is longer than the grace.                         *)
WebhookFairness == WF_webhook(TakeEvent) /\ WF_webhook(Cancelled) /\ WF_webhook(Grace)

WebhookSpec == WebhookInit /\ [][WebhookNext]_webhook
WebhookFairSpec == WebhookSpec /\ WebhookFairness

----------------------------------------------------------------------------

Awaiting == ({pending[i] : i \in DOMAIN pending} \cup {posting}) \ {NoEvent}
Sent == {posted[i][1] : i \in DOMAIN posted}

(* notify.go, Webhook: "sending into it would take the process down rather *)
(* than drop one notification", and Close "waits, so a daemon shutting     *)
(* down after a failure still delivers the notification about it".  No     *)
(* event takes the recorder down; each that was asked for is in the log    *)
(* and either waits, was posted once and in its turn, or was dropped; and  *)
(* none that waited is missing when the sink has closed.                   *)
EventsAreAccountedFor ==
  /\ ~panicked
  /\ logged = wanted /\ wanted = Awaiting \cup Sent \cup dropped
  /\ Awaiting \cap Sent = {} /\ (Awaiting \cup Sent) \cap dropped = {}
  /\ \A i, j \in DOMAIN posted : i < j => posted[i][1] < posted[j][1]
  /\ \A i \in DOMAIN posted : posted[i][2] = "cancelled" => hook \in {"cancelled", "closed"}
  /\ hook = "closed" => Awaiting = {}

(* notify.go, closeGrace: "Losing a queued alert is a better outcome than  *)
(* a stop that reads as a hang": a sink that is told to close has closed,  *)
(* although the receiver never says another word.                          *)
HookCloses == hook = "closing" ~> hook = "closed"
=============================================================================
