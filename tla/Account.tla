------------------------------ MODULE Account ------------------------------
(***************************************************************************)
(* The credentials of the platform: the refresh token that is spent by its *)
(* exchange (internal/providers/twitch/helix.go), the file both are kept   *)
(* in with its lock (internal/secret/file.go), and the playback token's    *)
(* derived copy with the check that deletes it (cmd/stream-dvr).           *)
(*                                                                         *)
(* The recorder is one process whose tasks share a session and its gate;   *)
(* a command of the operator's is a process of its own, with a session and *)
(* a gate of its own over the same file.                                   *)
(***************************************************************************)
EXTENDS Integers, FiniteSets

CONSTANTS Task,         \* the recorder's tasks that ask for a token
          Command,      \* the operator's commands
          Free,         \* no task or command
          Grants,       \* bound on the refresh tokens the platform grants
          Tokens        \* bound on the playback tokens

ASSUME AccountAssumption ==
  /\ Task \cap Command = {} /\ Free \notin Task \cup Command
  /\ Grants \in Nat \ {0} /\ Tokens \in Nat

Actor == Task \cup Command
NoToken == 0

VARIABLES issued,       \* how many refresh tokens the platform has granted
          spentBy,      \* whose exchange spent each of them
          store,        \* the credential file: one token for each account
          signedOut,    \* whether the last the file was told is to forget the session
          lock,         \* who made the lock file, and whether it is stale
          gate,         \* the task inside the recorder's session
          job,          \* what each task and command is doing
          playable,     \* the playback tokens the platform honours
          derived,      \* the token in the streamlink config
          checking,     \* the token a check has read, NoToken between checks
          harmed        \* a granted pair was dropped, or a lock was taken over

sessionVars == <<issued, spentBy, gate>>
credentials == <<store, signedOut>>
playback == <<playable, derived, checking>>
account == <<issued, spentBy, store, signedOut, lock, gate, job, playable, derived, checking, harmed>>

(* The refresh tokens the platform honours: each until it is exchanged.    *)
granted == {n \in 1 .. issued : spentBy[n] = Free}

(* Who shares a process, and with it the session's gate.                   *)
ProcessOf(a) == IF a \in Task THEN Task ELSE {a}

Unlocked == [by |-> Free, stale |-> FALSE]
Resting == [at |-> "rest", of |-> "api", token |-> NoToken, read |-> NoToken]

Rests(a) == job' = [job EXCEPT ![a] = Resting]

(* Between the exchange and the write a crash costs the session.           *)
Unsaved(a) ==
  /\ job[a].at \in {"holds", "steals", "locked", "read"}
  /\ job[a].of = "api" /\ job[a].token # NoToken

(* The recorder's tasks take turns; no command waits for them.             *)
Acquire(a) == (a \in Task => gate = Free) /\ gate' = IF a \in Task THEN a ELSE gate
HandBack(a) == gate' = IF gate = a THEN Free ELSE gate

----------------------------------------------------------------------------
(* Session: Token and Renew                                                *)

(* acquire, and load; an access token that still has life is handed out as *)
(* it is.  The recorder's tasks ask, and runMetadataStatus does.           *)
Load(a) ==
  /\ job[a].at = "rest" /\ Acquire(a) /\ store["api"] # NoToken
  /\ job' = [job EXCEPT ![a] = [Resting EXCEPT !.at = "loaded", !.token = store["api"]]]
  /\ UNCHANGED <<issued, spentBy, lock, harmed>> /\ UNCHANGED credentials /\ UNCHANGED playback

(* Refresh: the platform spends the token and grants the next.             *)
Spend(a) ==
  /\ job[a].at = "loaded" /\ job[a].token \in granted /\ issued < Grants
  /\ issued' = issued + 1 /\ spentBy' = [spentBy EXCEPT ![job[a].token] = a]

Exchange(a) ==
  /\ Spend(a)
  /\ job' = [job EXCEPT ![a].at = "holds", ![a].token = issued + 1]
  /\ UNCHANGED <<lock, gate, harmed>> /\ UNCHANGED credentials /\ UNCHANGED playback

(* The answer to an exchange is lost on its way.                           *)
AnswerLost(a) ==
  /\ Spend(a) /\ Rests(a) /\ HandBack(a) /\ harmed' = TRUE
  /\ UNCHANGED lock /\ UNCHANGED credentials /\ UNCHANGED playback

(* The platform cannot be asked.                                           *)
Transient(a) ==
  /\ job[a].at = "loaded" /\ Rests(a) /\ HandBack(a)
  /\ UNCHANGED <<issued, spentBy, lock, harmed>> /\ UNCHANGED credentials /\ UNCHANGED playback

(* ErrReauthorize: the operator is told to authorize once more, with no    *)
(* second look at what the file holds by now.                              *)
Reauthorize(a) ==
  /\ job[a].at = "loaded" /\ job[a].token \notin granted
  /\ job' = [job EXCEPT ![a].at = "refused"] /\ HandBack(a)
  /\ UNCHANGED <<issued, spentBy, lock, harmed>> /\ UNCHANGED credentials /\ UNCHANGED playback

GivesUp(a) ==
  /\ job[a].at = "refused" /\ Rests(a)
  /\ UNCHANGED <<lock, harmed>> /\ UNCHANGED credentials /\ UNCHANGED sessionVars /\ UNCHANGED playback

----------------------------------------------------------------------------
(* The operator's commands                                                 *)

(* runMetadataLogin: a device flow grants a pair of its own.               *)
Authorize(c) ==
  /\ job[c].at = "rest" /\ issued < Grants /\ issued' = issued + 1
  /\ job' = [job EXCEPT ![c] = [Resting EXCEPT !.at = "holds", !.token = issued + 1]]
  /\ UNCHANGED <<spentBy, lock, gate, harmed>> /\ UNCHANGED credentials /\ UNCHANGED playback

(* runMetadataLogout: Delete of the session's account.                     *)
ForgetSession(c) ==
  /\ job[c].at = "rest"
  /\ job' = [job EXCEPT ![c] = [Resting EXCEPT !.at = "holds"]]
  /\ UNCHANGED <<lock, harmed>> /\ UNCHANGED credentials /\ UNCHANGED sessionVars /\ UNCHANGED playback

(* runAuthLogin: a token that validates.                                   *)
Login(c) ==
  /\ job[c].at = "rest"
  /\ \E token \in playable :
       job' = [job EXCEPT ![c] = [Resting EXCEPT !.at = "holds", !.of = "play", !.token = token]]
  /\ UNCHANGED <<lock, harmed>> /\ UNCHANGED credentials /\ UNCHANGED sessionVars /\ UNCHANGED playback

(* runAuthLogout: Delete under the same lock.                              *)
Logout(c) ==
  /\ job[c].at = "rest"
  /\ job' = [job EXCEPT ![c] = [Resting EXCEPT !.at = "holds", !.of = "play"]]
  /\ UNCHANGED <<lock, harmed>> /\ UNCHANGED credentials /\ UNCHANGED sessionVars /\ UNCHANGED playback

----------------------------------------------------------------------------
(* File: Set and Delete                                                    *)

(* A store that guards its file within one process alone.                  *)
LockInProcess(a) ==
  /\ job[a].at = "holds" /\ lock' = [by |-> a, stale |-> FALSE]
  /\ job' = [job EXCEPT ![a].at = "locked"]
  /\ UNCHANGED harmed /\ UNCHANGED credentials /\ UNCHANGED sessionVars /\ UNCHANGED playback

(* The lock file is made by whoever finds none.                            *)
Lock(a) ==
  /\ job[a].at = "holds" /\ lock = Unlocked
  /\ lock' = [by |-> a, stale |-> FALSE]
  /\ job' = [job EXCEPT ![a].at = "locked"]
  /\ UNCHANGED harmed /\ UNCHANGED credentials /\ UNCHANGED sessionVars /\ UNCHANGED playback

(* A stale lock is removed by name, some time after it was looked at.      *)
FindStale(a) ==
  /\ job[a].at = "holds" /\ lock.stale
  /\ job' = [job EXCEPT ![a].at = "steals"]
  /\ UNCHANGED <<lock, harmed>> /\ UNCHANGED credentials /\ UNCHANGED sessionVars /\ UNCHANGED playback

TakeOver(a) ==
  /\ job[a].at = "steals" /\ lock' = Unlocked /\ harmed' = TRUE
  /\ job' = [job EXCEPT ![a].at = "holds"]
  /\ UNCHANGED credentials /\ UNCHANGED sessionVars /\ UNCHANGED playback

ReadStore(a) ==
  /\ job[a].at = "locked"
  /\ job' = [job EXCEPT ![a].at = "read", ![a].read = store]
  /\ UNCHANGED <<lock, harmed>> /\ UNCHANGED credentials /\ UNCHANGED sessionVars /\ UNCHANGED playback

(* The whole map is written back, and the file replaced at once.           *)
WriteStore(a) ==
  /\ job[a].at = "read"
  /\ store' = [job[a].read EXCEPT ![job[a].of] = job[a].token]
  /\ signedOut' = IF job[a].of = "api" THEN job[a].token = NoToken ELSE signedOut
  /\ job' = [job EXCEPT ![a].at = "written"]
  /\ UNCHANGED <<lock, harmed>> /\ UNCHANGED sessionVars /\ UNCHANGED playback

(* No lock file can be made, or not in the time there is; or the map does  *)
(* not read, or is not replaced: what was to be kept is dropped.           *)
SetFails(a) ==
  /\ job[a].at \in {"holds", "locked", "read"}
  /\ lock' = IF job[a].at = "holds" THEN lock ELSE Unlocked
  /\ Rests(a) /\ HandBack(a) /\ harmed' = (harmed \/ Unsaved(a))
  /\ UNCHANGED <<issued, spentBy>> /\ UNCHANGED credentials /\ UNCHANGED playback

Unlock(a) ==
  /\ job[a].at = "written" /\ lock' = Unlocked
  /\ IF job[a].of = "play" THEN job' = [job EXCEPT ![a].at = "stored"] ELSE Rests(a)
  /\ HandBack(a)
  /\ UNCHANGED <<issued, spentBy, harmed>> /\ UNCHANGED credentials /\ UNCHANGED playback

(* WriteAuthConfig, or after a logout RemoveAuthConfig.                    *)
Derive(c) ==
  /\ job[c].at = "stored" /\ derived' = job[c].token /\ Rests(c)
  /\ UNCHANGED <<lock, playable, checking, harmed>> /\ UNCHANGED credentials /\ UNCHANGED sessionVars

----------------------------------------------------------------------------
(* The check of the playback token                                         *)

(* checkCredential: the derived file is read, for that is what captures    *)
(* present.                                                                *)
ReadDerived ==
  /\ checking = NoToken /\ derived # NoToken /\ checking' = derived
  /\ UNCHANGED <<lock, job, playable, derived, harmed>> /\ UNCHANGED credentials /\ UNCHANGED sessionVars

(* It is accepted, or there is no answer.                                  *)
CheckEnds ==
  /\ checking # NoToken /\ checking' = NoToken
  /\ UNCHANGED <<lock, job, playable, derived, harmed>> /\ UNCHANGED credentials /\ UNCHANGED sessionVars

(* A refusal deletes the derived file, whatever it holds by now.           *)
Rejected ==
  /\ checking # NoToken /\ checking \notin playable
  /\ checking' = NoToken /\ derived' = NoToken
  /\ UNCHANGED <<lock, job, playable, harmed>> /\ UNCHANGED credentials /\ UNCHANGED sessionVars

----------------------------------------------------------------------------
(* The world                                                               *)

(* The operator signs out of the platform elsewhere, and is given another. *)
Revoke ==
  /\ \E token \in playable : playable' = (playable \ {token}) \cup ({token + 1} \cap 1 .. Tokens)
  /\ UNCHANGED <<lock, job, derived, checking, harmed>> /\ UNCHANGED credentials /\ UNCHANGED sessionVars

(* A holder that is dead, or slow for longer than lockStale.               *)
LockAges ==
  /\ lock # Unlocked /\ ~lock.stale /\ lock' = [lock EXCEPT !.stale = TRUE]
  /\ UNCHANGED <<job, harmed>> /\ UNCHANGED credentials /\ UNCHANGED sessionVars /\ UNCHANGED playback

Crash(process) ==
  /\ \E a \in process : job[a] # Resting
  /\ harmed' = (harmed \/ \E a \in process : Unsaved(a))
  /\ job' = [a \in Actor |-> IF a \in process THEN Resting ELSE job[a]]
  /\ gate' = IF gate \in process THEN Free ELSE gate
  /\ checking' = IF process = Task THEN NoToken ELSE checking
  /\ UNCHANGED <<issued, spentBy, lock, playable, derived>> /\ UNCHANGED credentials

AccountInit ==
  /\ issued = 1 /\ spentBy = [n \in 1 .. Grants |-> Free]
  /\ store = [api |-> 1, play |-> 1] /\ signedOut = FALSE
  /\ lock = Unlocked /\ gate = Free /\ job = [a \in Actor |-> Resting]
  /\ playable = {1} /\ derived = 1 /\ checking = NoToken /\ harmed = FALSE

AccountNext ==
  \/ \E a \in Actor : Load(a) \/ Exchange(a) \/ AnswerLost(a) \/ Transient(a) \/ Reauthorize(a) \/ GivesUp(a)
  \/ \E c \in Command : Authorize(c) \/ ForgetSession(c) \/ Login(c) \/ Logout(c) \/ Derive(c)
  \/ \E a \in Actor : \/ Lock(a) \/ FindStale(a) \/ TakeOver(a)
                      \/ ReadStore(a) \/ WriteStore(a) \/ SetFails(a) \/ Unlock(a)
  \/ ReadDerived \/ CheckEnds \/ Rejected \/ Revoke \/ LockAges
  \/ Crash(Task) \/ \E c \in Command : Crash({c})

AccountSpec == AccountInit /\ [][AccountNext]_account

----------------------------------------------------------------------------

(* file.go, lock: two writers must not leave "the loser's rotation on      *)
(* disk", whose token "has already been spent"; and helix.go, Session: no  *)
(* caller is told to authorize again over "a session that is actually      *)
(* alive".  Once everybody is done with it the stored session is one the   *)
(* platform honours, until the operator ends it, unless a pair was dropped *)
(* between its exchange and its write or a lock was taken over.  The gate  *)
(* keeps the second promise within a process and nothing keeps it between  *)
(* two: renew does not read the file again once it is refused.  A process  *)
(* is told to authorize again only where another one has spent the token   *)
(* it had read.                                                            *)
SessionSurvives ==
  \/ harmed
  \/ /\ IF signedOut THEN store["api"] = NoToken
                       ELSE store["api"] \in granted \/ \E a \in Actor : Unsaved(a)
     /\ \A a \in Actor : job[a].at = "refused" => spentBy[job[a].token] \in Actor \ ProcessOf(a)
=============================================================================
