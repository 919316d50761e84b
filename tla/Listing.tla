------------------------------ MODULE Listing ------------------------------
(***************************************************************************)
(* How a channel's past broadcasts are found (internal/backfill,           *)
(* Discover): through the metadata API page by page                        *)
(* (internal/providers/twitch/helix.go, Videos), or, when that fails,      *)
(* through the listing tool and one lookup for each broadcast              *)
(* (internal/fetch/fetch.go).  Archives appear and disappear meanwhile,    *)
(* the token may be refused, and an answer may be about another channel.   *)
(***************************************************************************)
EXTENDS Naturals, FiniteSets, FiniteSetsExt

CONSTANTS Owner,        \* the channels' names
          Prolific,         \* the channels whose archives come and go
          Archives,     \* bound on the archives of a channel, numbered as they began
          Since,        \* the first of them that began within the horizon
          PageSize,     \* maxVideos
          MaxPages,     \* maxVideoPages
          MaxDescribed  \* the bound on lookups

ASSUME ListingAssumption ==
  /\ Prolific \subseteq Owner
  /\ Archives \in Nat /\ Since \in Nat
  /\ PageSize \in Nat \ {0} /\ MaxPages \in Nat \ {0} /\ MaxDescribed \in Nat \ {0}

Unlooked == {}          \* an account that is remembered is the set of it
Newest == 0             \* the cursor of the first page

VARIABLES published,    \* the archives each channel has now
          undated,      \* the archives whose start nobody can read
          logins,       \* the account remembered for each channel
          honoured,     \* whether the platform takes the token
          walk          \* the listing that runs, and what it holds of whom

listing == <<published, undated, logins, honoured, walk>>

NoWalk == [at |-> "none"]
Asking(c, phase) ==
  [at |-> phase, of |-> c, cursor |-> Newest, pages |-> 0, renewed |-> FALSE,
   left |-> {}, got |-> {}, stood |-> published[c], passed |-> {}, capped |-> FALSE]

----------------------------------------------------------------------------
(* The metadata API                                                        *)

(* describe: the account's id is looked up once for each process.          *)
Describe ==
  /\ walk = NoWalk
  /\ \E c \in Owner : walk' = Asking(c, IF logins[c] = Unlooked THEN "user" ELSE "page")
  /\ UNCHANGED <<published, undated, logins, honoured>>

InTwo(phases) == walk.at \in phases
Answered(w) == [w EXCEPT !.renewed = FALSE]

(* Whatever fails of the first way, the second one begins anew.            *)
FallBack == walk' = [Asking(walk.of, "list") EXCEPT !.stood = walk.stood]

(* get: a token that is refused is renewed once, and the request repeated. *)
RefuseToken ==
  /\ InTwo({"user", "page"}) /\ ~honoured
  /\ \/ ~walk.renewed /\ honoured' = TRUE /\ walk' = [walk EXCEPT !.renewed = TRUE]
     \/ FallBack /\ UNCHANGED honoured
  /\ UNCHANGED <<published, undated, logins>>

(* do: no answer, or one that is none.                                     *)
AnswerFails ==
  /\ InTwo({"user", "page"}) /\ FallBack
  /\ UNCHANGED <<published, undated, logins, honoured>>

(* Mutant of UserID: the answer is taken for one about the channel.        *)
UserIDAnyway(account) ==
  /\ logins' = [logins EXCEPT ![walk.of] = {account}]
  /\ walk' = [Answered(walk) EXCEPT !.at = "page"]

(* userID: an answer about a different channel is an error, and is not     *)
(* remembered.                                                             *)
UserID(account) ==
  IF account = walk.of
  THEN logins' = [logins EXCEPT ![walk.of] = {account}] /\ walk' = [Answered(walk) EXCEPT !.at = "page"]
  ELSE FallBack /\ UNCHANGED logins

AnswerUser ==
  /\ walk.at = "user" /\ honoured /\ \E account \in Owner : UserID(account)
  /\ UNCHANGED <<published, undated, honoured>>

(* videoPage: the newest that are older than the cursor.                   *)
Older(account) == {n \in published[account] : walk.cursor = Newest \/ n < walk.cursor}
PageOf(account) ==
  {n \in Older(account) : Cardinality({m \in Older(account) : m > n}) < PageSize}
MoreAfter(account) == Older(account) # PageOf(account)

(* Mutant of Dated: what cannot be dated ends the listing.               *)
DatedUpTo(account, page) ==
  LET dated == {n \in page : <<account, n>> \notin undated}
  IN  [held |-> dated, reached |-> dated # page \/ \E n \in dated : n < Since]

(* decodeVideos: what cannot be dated is dropped, and what is older than   *)
(* the horizon is kept and ends the listing.                               *)
Dated(account, page) ==
  LET dated == {n \in page : <<account, n>> \notin undated}
  IN  [held |-> dated, reached |-> \E n \in dated : n < Since]

(* Videos                                                                  *)
AnswerPage ==
  /\ walk.at = "page" /\ honoured
  /\ LET account == CHOOSE c \in logins[walk.of] : TRUE
         page    == PageOf(account)
         answer == Dated(account, page)
         last    == answer.reached \/ ~MoreAfter(account)
     IN  walk' = [Answered(walk) EXCEPT
                    !.got = @ \cup {<<account, n>> : n \in answer.held},
                    !.pages = @ + 1,
                    !.cursor = IF page = {} THEN @ ELSE Min(page),
                    !.at = IF last \/ walk.pages + 1 = MaxPages THEN "over" ELSE "page",
                    !.capped = ~last /\ walk.pages + 1 = MaxPages]
  /\ UNCHANGED <<published, undated, logins, honoured>>

----------------------------------------------------------------------------
(* The listing tool                                                        *)

(* List: the newest of what there is; a channel that has nothing is no     *)
(* failure.                                                                *)
ListFlat ==
  /\ walk.at = "list"
  /\ LET all    == published[walk.of]
         looked == {n \in all : Cardinality({m \in all : m > n}) < MaxDescribed}
     IN  \/ walk' = [walk EXCEPT !.left = looked, !.capped = (looked # all), !.at = "info"]
         \/ walk' = NoWalk
  /\ UNCHANGED <<published, undated, logins, honoured>>

(* Info: one that cannot be described is passed over, and the first one    *)
(* before the horizon is the last.                                         *)
Look ==
  /\ walk.at = "info" /\ walk.left # {}
  /\ LET n == Max(walk.left)
     IN  \/ /\ n \in published[walk.of]
            /\ LET dated == <<walk.of, n>> \notin undated
               IN  walk' = [walk EXCEPT
                              !.left = @ \ {n},
                              !.got = IF dated THEN @ \cup {<<walk.of, n>>} ELSE @,
                              !.at = IF dated /\ n < Since THEN "over" ELSE @]
         \/ walk' = [walk EXCEPT !.left = @ \ {n}, !.passed = @ \cup {n}]
  /\ UNCHANGED <<published, undated, logins, honoured>>

LookedAll ==
  /\ walk.at = "info" /\ walk.left = {} /\ walk' = [walk EXCEPT !.at = "over"]
  /\ UNCHANGED <<published, undated, logins, honoured>>

(* A shutdown while it lists records nothing.                              *)
Shutdown ==
  /\ walk.at \in {"user", "page", "list", "info"} /\ walk' = NoWalk
  /\ UNCHANGED <<published, undated, logins, honoured>>

(* Discover: what the walk holds is recorded under the channel.            *)
RecordFound ==
  /\ walk.at = "over" /\ walk' = NoWalk
  /\ UNCHANGED <<published, undated, logins, honoured>>

----------------------------------------------------------------------------

PublishArchive ==
  /\ \E c \in Prolific : /\ Max(published[c] \cup {0}) < Archives
                     /\ published' = [published EXCEPT ![c] = @ \cup {Max(@ \cup {0}) + 1}]
  /\ UNCHANGED <<undated, logins, honoured, walk>>

(* An archive expires, the oldest or one the channel removes.              *)
RemoveArchive ==
  /\ \E c \in Prolific : \E n \in published[c] :
       /\ published' = [published EXCEPT ![c] = @ \ {n}]
       /\ walk' = IF walk # NoWalk /\ walk.of = c THEN [walk EXCEPT !.stood = @ \ {n}] ELSE walk
  /\ UNCHANGED <<undated, logins, honoured>>

RefuseFromNowOn ==
  /\ honoured /\ honoured' = FALSE
  /\ UNCHANGED <<published, undated, logins, walk>>

(* One archive at most has no date, for the runs' sake.                    *)
ListingInit ==
  /\ published = [c \in Owner |-> IF c \in Prolific THEN 1 .. Archives - 1 ELSE {1}]
  /\ undated \in {{}} \cup {{<<c, n>>} : c \in Prolific, n \in 1 .. Archives}
  /\ logins = [c \in Owner |-> Unlooked] /\ honoured = TRUE
  /\ walk = NoWalk

ListingNext ==
  \/ Describe \/ RefuseToken \/ AnswerFails \/ AnswerUser \/ AnswerPage
  \/ ListFlat \/ Look \/ LookedAll \/ Shutdown \/ RecordFound
  \/ PublishArchive \/ RemoveArchive \/ RefuseFromNowOn

ListingSpec == ListingInit /\ [][ListingNext]_listing

----------------------------------------------------------------------------

(* helix.go, Videos: "because the bound a caller cares about is how far    *)
(* back it needs to see", and userID: "a wrong one cached here is read by  *)
(* every later listing for that channel".  A listing that ended holds      *)
(* every dated archive of the horizon that stood all the while, unless the *)
(* bound on pages or lookups cut it or a lookup failed; and no broadcast   *)
(* is filed under a channel that did not broadcast it.                     *)
ListingReaches ==
  walk.at = "over" =>
    /\ \A n \in walk.stood \ walk.passed :
         n >= Since /\ <<walk.of, n>> \notin undated /\ ~walk.capped => <<walk.of, n>> \in walk.got
    /\ \A archive \in walk.got : archive[1] = walk.of
=============================================================================
