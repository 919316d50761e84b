------------------------------- MODULE Device -------------------------------
(***************************************************************************)
(* How the operator authorizes the metadata API (cmd/stream-dvr/auth.go,   *)
(* runMetadataLogin): the platform hands out a code with a lifetime and an *)
(* interval, the command polls at that interval, slower whenever it is     *)
(* told to, until the operator has entered the code, refused it or let it  *)
(* expire (internal/providers/twitch/device.go).                           *)
(*                                                                         *)
(* The timings are remote numbers.  A number that is Huge wraps to one     *)
(* below nothing when it is counted in nanoseconds.                        *)
(***************************************************************************)
EXTENDS Integers

CONSTANTS Lifetimes,    \* what the platform may say a code is good for
          Intervals,    \* and how far apart it may want its polls
          MaxPoll,      \* maxPollSeconds
          MaxExpiry,    \* maxExpirySeconds
          SlowDownStep, \* what a slow_down adds
          Patience      \* bound on the seconds of a flow

Huge == 1000
ASSUME DeviceAssumption ==
  /\ Lifetimes \subseteq Int /\ Intervals \subseteq Int
  /\ MaxPoll \in 1 .. Huge /\ MaxExpiry \in 1 .. Huge
  /\ SlowDownStep \in Nat \ {0} /\ Patience \in Nat

Never == 0 - 1

VARIABLES second,       \* the seconds since the code was handed out
          code,         \* what the platform said: its lifetime, and its interval by now
          interval,     \* the command's interval
          deadline,     \* when the command gives the code up
          due,          \* when the timer fires
          polls,        \* when the last two polls were, and how far apart they had to be
          page,         \* what the operator did at the page, and when
          flow          \* where the command is

device == <<second, code, interval, deadline, due, polls, page, flow>>

Clamped(n, most) == IF n < 1 THEN 1 ELSE IF n > most THEN most ELSE n

----------------------------------------------------------------------------

(* Mutant of ClampInterval: the number is taken as it came.                *)
IntervalAsSaid(n) == IF n >= Huge THEN 0 - 1 ELSE n

(* clampInterval, clampExpiry                                              *)
ClampInterval(n) == Clamped(n, MaxPoll)
ClampExpiry(n) == Clamped(n, MaxExpiry)

(* StartDevice                                                             *)
StartDevice ==
  /\ flow = "start"
  /\ \/ \E life \in Lifetimes, every \in Intervals :
          /\ code' = [life |-> life, every |-> every]
          /\ interval' = ClampInterval(every) /\ deadline' = ClampExpiry(life)
          /\ due' = interval' /\ flow' = "waiting"
     \/ flow' = "failed" /\ UNCHANGED <<code, interval, deadline, due>>
  /\ UNCHANGED <<second, polls, page>>

(* Mutant of EndOfPoll: a code past its deadline is not polled once more.  *)
EndOfPollAtOnce ==
  IF second + interval' >= deadline THEN flow' = "expired" /\ UNCHANGED due
  ELSE due' = second + interval' /\ UNCHANGED flow

(* PollDevice: after a poll that settled nothing.                          *)
EndOfPoll ==
  IF second >= deadline THEN flow' = "expired" /\ UNCHANGED due
  ELSE due' = second + interval' /\ UNCHANGED flow

Polled(slow) ==
  polls' = [last |-> second, before |-> polls.last, wanted |-> code.every, slow |-> slow]
ServerForgets == code.life <= second /\ code.life >= 1

(* pollOnce: what the platform answers, by what the operator has done.     *)
PollPending ==
  /\ flow = "waiting" /\ second >= due /\ page.did = "nothing" /\ ~ServerForgets
  /\ Polled(FALSE) /\ UNCHANGED <<interval, code>> /\ EndOfPoll
  /\ UNCHANGED <<second, deadline, page>>

PollSlowDown ==
  /\ flow = "waiting" /\ second >= due
  /\ Polled(TRUE) /\ interval' = interval + SlowDownStep
  /\ code' = [code EXCEPT !.every = @ + SlowDownStep] /\ EndOfPoll
  /\ UNCHANGED <<second, deadline, page>>

PollSettles(did, end) ==
  /\ flow = "waiting" /\ second >= due
  /\ page.did = did \/ (did = "forgotten" /\ ServerForgets /\ page.did = "nothing")
  /\ Polled(FALSE) /\ flow' = end
  /\ UNCHANGED <<second, code, interval, deadline, due, page>>

PollFails ==
  /\ flow = "waiting" /\ second >= due /\ Polled(FALSE) /\ flow' = "failed"
  /\ UNCHANGED <<second, code, interval, deadline, due, page>>

Interrupt ==
  /\ flow \in {"waiting", "granted"} /\ flow' = "cancelled"
  /\ UNCHANGED <<second, code, interval, deadline, due, polls, page>>

(* Authorize                                                               *)
StoreGrant ==
  /\ flow = "granted" /\ flow' \in {"stored", "failed"}
  /\ UNCHANGED <<second, code, interval, deadline, due, polls, page>>

----------------------------------------------------------------------------

(* The operator, while the platform still knows the code, which they may   *)
(* enter after the command gave it up.                                     *)
AtThePage ==
  /\ flow \in {"waiting", "expired"} /\ page.did = "nothing" /\ ~ServerForgets
  /\ \E did \in {"authorized", "refused"} : page' = [did |-> did, at |-> second]
  /\ UNCHANGED <<second, code, interval, deadline, due, polls, flow>>

(* The timer may fire late.                                                *)
SecondPasses ==
  /\ flow = "waiting" /\ second < Patience /\ second' = second + 1
  /\ UNCHANGED <<code, interval, deadline, due, polls, page, flow>>

DeviceInit ==
  /\ second = 0 /\ code = [life |-> 1, every |-> 1]
  /\ interval = 0 /\ deadline = 0 /\ due = 0
  /\ polls = [last |-> 0, before |-> Never, wanted |-> 0, slow |-> FALSE] /\ page = [did |-> "nothing", at |-> Never]
  /\ flow = "start"

DeviceNext ==
  \/ StartDevice \/ PollPending \/ PollSlowDown \/ PollFails \/ Interrupt \/ StoreGrant
  \/ PollSettles("authorized", "granted") \/ PollSettles("refused", "denied")
  \/ PollSettles("forgotten", "expired")
  \/ AtThePage \/ SecondPasses

DeviceSpec == DeviceInit /\ [][DeviceNext]_device

----------------------------------------------------------------------------

(* device.go, clampInterval: "a Duration that wraps negative makes every   *)
(* timer fire at once: the flow then polls the provider's token endpoint   *)
(* as fast as the machine allows", and PollDevice: the interval is the     *)
(* server's, widened by each slow_down.  No two polls are closer than the  *)
(* platform wants them, up to the longest interval that is honoured; a     *)
(* code the operator enters within the lifetime the command honours is not *)
(* given up as expired, unless the platform answered slow_down.            *)
AuthorizationIsHeard ==
  /\ polls.before # Never =>
       /\ polls.last > polls.before
       /\ polls.last - polls.before >= polls.wanted \/ polls.last - polls.before >= MaxPoll
  /\ flow = "expired" /\ page.did = "authorized" => page.at >= deadline \/ polls.slow
=============================================================================
