-------------------------------- MODULE Auth --------------------------------
(***************************************************************************)
(* Who is logged in, as the sessions table, the browser's cookie and the   *)
(* single-page app (one tab) each see it: services/auth.py and api/auth.py *)
(* on one side, AuthContext, useLoginMutation, useLogoutMutation and the   *)
(* persisted query cache on the other.                                     *)
(*                                                                         *)
(* A request carries the cookie of the moment it is sent.  Its handler and *)
(* the arrival of its response headers, which set or clear the cookie, are *)
(* one step; the app's callback runs later, or never if the page is        *)
(* reloaded.  Responses may be lost.  Of the other queries ("data") only   *)
(* how many logouts came before their fetch is kept.                       *)
(***************************************************************************)
EXTENDS Naturals, Sequences

CONSTANTS
  Users,
  Unknown,    \* the auth query has no data
  Nobody,     \* its data is null
  MaxSession, \* bound: logins served
  MaxReload   \* bound: page loads after the first

ASSUME AuthAssumption ==
  Unknown \notin Users /\ Nobody \notin Users /\ Unknown # Nobody
    /\ MaxSession \in Nat /\ MaxReload \in Nat

VARIABLES
  sessions,  \* ids of the rows of the sessions table
  expired,   \* ids past their expires_at
  owner,     \* user_id of every session ever created, by id
  cookie,    \* session id in the browser, 0 when there is none
  restoring, \* useIsRestoring
  me,        \* data of the auth query
  ask,       \* its fetch: [state, cookie, value]
  tried,     \* a fetch of it has ended since the page was loaded
  login,     \* useLoginMutation: [state, user]
  logout,    \* useLogoutMutation: [state, cookie]
  data,      \* cached results of the other queries
  load,      \* a fetch of theirs: [state, cookie, tag]
  pending,   \* snapshot the throttled persister has yet to write: [dirty, me, data]
  storage,   \* the snapshot in localStorage: [me, data]
  reloads,
  epoch,     \* history: logouts completed in the app
  phase,     \* history: outcome of the last login or logout of this page, or "none"
  raced,     \* history: an auth fetch was under way at that moment
  heard,     \* history: users a server response named since the page was loaded
  ended      \* history: ids whose logout succeeded

server == <<sessions, expired, owner, cookie>>
authQuery == <<me, ask, tried>>
persisted == <<pending, storage>>
history == <<epoch, phase, raced, heard, ended>>
vars == <<server, restoring, authQuery, login, logout, data, load, persisted, reloads, history>>

NoAsk == [state |-> "none", cookie |-> 0, value |-> Nobody]
NoLogin == [state |-> "none", user |-> Nobody]
NoLogout == [state |-> "none", cookie |-> 0]
NoLoad == [state |-> "none", cookie |-> 0, tag |-> 0]
Empty == [me |-> Unknown, data |-> {}]
NotDirty == [dirty |-> FALSE, me |-> Unknown, data |-> {}]

Init ==
  /\ sessions = {} /\ expired = {} /\ owner = <<>> /\ cookie = 0
  /\ restoring = TRUE /\ me = Unknown /\ ask = NoAsk /\ tried = FALSE
  /\ login = NoLogin /\ logout = NoLogout
  /\ data = {} /\ load = NoLoad
  /\ pending = NotDirty /\ storage = Empty
  /\ reloads = 0 /\ epoch = 0 /\ phase = "none" /\ raced = FALSE /\ heard = {} /\ ended = {}

-----------------------------------------------------------------------------
(* The server.                                                              *)

(* get_current_session. *)
Valid(id) == id \in sessions \ expired

(* get_valid_session deletes an expired row it comes across.                *)
Purged(id) == IF id \in expired THEN sessions \ {id} ELSE sessions

(* Time passes expires_at; the cookies' max_age is the same.                *)
Expire(id) ==
  /\ id \in sessions \ expired
  /\ expired' = expired \cup {id}
  /\ cookie' \in {cookie} \cup (IF cookie = id THEN {0} ELSE {})
  /\ UNCHANGED <<sessions, owner, restoring, authQuery, login, logout, data, load, persisted,
                 reloads, history>>

-----------------------------------------------------------------------------
(* The page.  Any event of the query cache hands the persister a snapshot,  *)
(* which the latest replaces until the throttled write.                     *)

(* shouldPersistQuery. *)
Snapshot(m, d) == [dirty |-> TRUE, me |-> Unknown, data |-> d]

Flush ==
  /\ pending.dirty
  /\ storage' = [me |-> pending.me, data |-> pending.data]
  /\ pending' = NotDirty
  /\ UNCHANGED <<server, restoring, authQuery, login, logout, data, load, reloads, history>>

(* A hard navigation: what is in memory is gone, what was asked is not      *)
(* waited for (a handler that runs to its end changes the server still).    *)
Reload ==
  /\ reloads < MaxReload
  /\ reloads' = reloads + 1
  /\ restoring' = TRUE /\ me' = Unknown /\ ask' = NoAsk /\ tried' = FALSE
  /\ login' = NoLogin /\ logout' = NoLogout /\ load' = NoLoad
  /\ data' = {} /\ pending' = NotDirty
  /\ phase' = "none" /\ raced' = FALSE /\ heard' = {}
  /\ UNCHANGED <<server, storage, epoch, ended>>

(* The snapshot is restored, and with that queries may fetch.               *)
Restore ==
  /\ restoring
  /\ restoring' = FALSE
  /\ me' = storage.me
  /\ data' = storage.data
  /\ ask' = [NoAsk EXCEPT !.state = "asked", !.cookie = cookie]
  /\ UNCHANGED <<server, tried, login, logout, load, persisted, reloads, history>>

(* What AuthProvider hands to the routes.                                   *)
IsAuthenticated == me \in Users

\* mutant: isRestoring is not folded in
IsLoading_QueryOnly == me = Unknown /\ ask.state # "none"

\* mutant: loading until there is data
IsLoading_UntilData == restoring \/ me = Unknown

IsLoading == restoring \/ (me = Unknown /\ ask.state # "none")

(* ProtectedRoute. *)
Redirects == ~ IsLoading /\ ~ IsAuthenticated

-----------------------------------------------------------------------------
(* GET /auth/me: a 401 is null, another failure leaves the data.            *)

AskMe ==
  /\ ~ restoring /\ ask.state = "none"
  /\ ask' = [NoAsk EXCEPT !.state = "asked", !.cookie = cookie]
  /\ UNCHANGED <<server, restoring, me, tried, login, logout, data, load, persisted, reloads, history>>

ServeMe ==
  /\ ask.state = "asked"
  /\ sessions' = Purged(ask.cookie)
  /\ ask' = [ask EXCEPT !.state = "answered",
                        !.value = IF Valid(ask.cookie) THEN owner[ask.cookie] ELSE Nobody]
  /\ UNCHANGED <<expired, owner, cookie, restoring, me, tried, login, logout, data, load,
                 persisted, reloads, history>>

MeArrives ==
  /\ ask.state = "answered"
  /\ me' = ask.value
  /\ ask' = NoAsk
  /\ tried' = TRUE
  /\ pending' = Snapshot(me', data)
  /\ heard' = heard \cup ({ask.value} \cap Users)
  /\ UNCHANGED <<server, restoring, login, logout, data, load, storage, reloads,
                 epoch, phase, raced, ended>>

MeFails ==
  /\ ask.state # "none"
  /\ ask' = NoAsk
  /\ tried' = TRUE
  /\ UNCHANGED <<server, restoring, me, login, logout, data, load, persisted, reloads, history>>

-----------------------------------------------------------------------------
(* Login.                                                                   *)

SubmitLogin(u) ==
  /\ ~ restoring /\ login = NoLogin /\ logout = NoLogout
  /\ login' = [state |-> "asked", user |-> u]
  /\ UNCHANGED <<server, restoring, authQuery, logout, data, load, persisted, reloads, history>>

(* create_session; the response's cookies replace those of a session the    *)
(* browser may have, whose row stays.                                       *)
ServeLogin ==
  /\ login.state = "asked"
  /\ Len(owner) < MaxSession
  /\ owner' = Append(owner, login.user)
  /\ sessions' = sessions \cup {Len(owner')}
  /\ \/ /\ cookie' = Len(owner')
        /\ login' = [login EXCEPT !.state = "answered"]
     \/ /\ cookie' = cookie   \* the response is lost
        /\ login' = NoLogin
  /\ UNCHANGED <<expired, restoring, authQuery, logout, data, load, persisted, reloads, history>>

LoginSucceeds ==
  /\ login.state = "answered"
  /\ me' = login.user
  /\ login' = NoLogin
  /\ pending' = Snapshot(me', data)
  /\ phase' = "in" /\ raced' = (ask.state # "none") /\ heard' = heard \cup {login.user}
  /\ UNCHANGED <<server, restoring, ask, tried, logout, data, load, storage, reloads, epoch, ended>>

(* Wrong credentials, or no answer. *)
LoginFails ==
  /\ login.state = "asked"
  /\ login' = NoLogin
  /\ UNCHANGED <<server, restoring, authQuery, logout, data, load, persisted, reloads, history>>

-----------------------------------------------------------------------------
(* Logout.                                                                  *)

SubmitLogout ==
  /\ IsAuthenticated /\ ~ restoring /\ login = NoLogin /\ logout = NoLogout
  /\ logout' = [state |-> "asked", cookie |-> cookie]
  /\ UNCHANGED <<server, restoring, authQuery, login, data, load, persisted, reloads, history>>

\* mutant: the row stays, only the cookies are cleared
Revoked_CookieOnly(id) == sessions

(* delete_session. *)
Revoked(id) == sessions \ {id}

(* A session that is not valid any more is a 401, and the cookies stay.     *)
ServeLogout ==
  /\ logout.state = "asked"
  /\ IF Valid(logout.cookie)
     THEN /\ sessions' = Revoked(logout.cookie)
          /\ ended' = ended \cup {logout.cookie}
          /\ \/ cookie' = 0 /\ logout' = [logout EXCEPT !.state = "answered"]
             \/ cookie' = cookie /\ logout' = NoLogout   \* the response is lost
     ELSE /\ sessions' = Purged(logout.cookie)
          /\ logout' = NoLogout
          /\ UNCHANGED <<cookie, ended>>
  /\ UNCHANGED <<expired, owner, restoring, authQuery, login, data, load, persisted, reloads,
                 epoch, phase, raced, heard>>

\* mutant: the persisted snapshot stays
LogoutSucceeds_KeepsStorage ==
  /\ logout.state = "answered"
  /\ me' = Nobody /\ logout' = NoLogout
  /\ data' = {} /\ load' = NoLoad /\ pending' = Snapshot(me', {})
  /\ epoch' = epoch + 1 /\ phase' = "out" /\ raced' = (ask.state # "none")
  /\ UNCHANGED <<server, restoring, ask, tried, login, storage, reloads, heard, ended>>

(* setQueryData, removeQueries (which drops fetches in flight), and         *)
(* removeClient.                                                            *)
LogoutSucceeds ==
  /\ logout.state = "answered"
  /\ me' = Nobody /\ logout' = NoLogout
  /\ data' = {} /\ load' = NoLoad /\ pending' = Snapshot(me', {}) /\ storage' = Empty
  /\ epoch' = epoch + 1 /\ phase' = "out" /\ raced' = (ask.state # "none")
  /\ UNCHANGED <<server, restoring, ask, tried, login, reloads, heard, ended>>

LogoutFails ==
  /\ logout.state = "asked"
  /\ logout' = NoLogout
  /\ UNCHANGED <<server, restoring, authQuery, login, data, load, persisted, reloads, history>>

-----------------------------------------------------------------------------
(* Any other query of a protected page.                                     *)

FetchData ==
  /\ IsAuthenticated /\ ~ restoring /\ load = NoLoad
  /\ load' = [state |-> "asked", cookie |-> cookie, tag |-> epoch]
  /\ UNCHANGED <<server, restoring, authQuery, login, logout, data, persisted, reloads, history>>

ServeData ==
  /\ load.state = "asked"
  /\ sessions' = Purged(load.cookie)
  /\ load' = IF Valid(load.cookie) THEN [load EXCEPT !.state = "answered"] ELSE NoLoad
  /\ UNCHANGED <<expired, owner, cookie, restoring, authQuery, login, logout, data, persisted,
                 reloads, history>>

DataArrives ==
  /\ load.state = "answered"
  /\ data' = data \cup {load.tag}
  /\ load' = NoLoad
  /\ pending' = Snapshot(me, data')
  /\ UNCHANGED <<server, restoring, authQuery, login, logout, storage, reloads, history>>

-----------------------------------------------------------------------------

Answers ==
  \/ Restore \/ ServeMe \/ MeArrives
  \/ ServeLogin \/ LoginSucceeds \/ ServeLogout \/ LogoutSucceeds
  \/ ServeData \/ DataArrives

Next ==
  \/ Answers
  \/ \E id \in 1..MaxSession : Expire(id)
  \/ Flush \/ Reload
  \/ AskMe \/ MeFails
  \/ \E u \in Users : SubmitLogin(u)
  \/ LoginFails \/ SubmitLogout \/ LogoutFails
  \/ FetchData

Spec == Init /\ [][Next]_vars

(* Requests are answered or fail. *)
FairSpec ==
  /\ Spec
  /\ WF_vars(Restore)
  /\ WF_vars(ServeMe \/ MeArrives \/ MeFails)
  /\ WF_vars(ServeLogout \/ LogoutSucceeds \/ LogoutFails)

-----------------------------------------------------------------------------

Ids == 1..Len(owner)
Tags == 0..MaxSession

TypeOK ==
  /\ owner \in Seq(Users) /\ Len(owner) <= MaxSession
  /\ sessions \subseteq Ids /\ expired \subseteq Ids /\ ended \subseteq Ids
  /\ cookie \in Ids \cup {0}
  /\ restoring \in BOOLEAN /\ tried \in BOOLEAN /\ raced \in BOOLEAN
  /\ me \in Users \cup {Unknown, Nobody}
  /\ ask \in [state : {"none", "asked", "answered"}, cookie : Ids \cup {0},
              value : Users \cup {Nobody}]
  /\ login \in [state : {"none", "asked", "answered"}, user : Users \cup {Nobody}]
  /\ logout \in [state : {"none", "asked", "answered"}, cookie : Ids \cup {0}]
  /\ load \in [state : {"none", "asked", "answered"}, cookie : Ids \cup {0}, tag : Tags]
  /\ data \subseteq Tags /\ storage.data \subseteq Tags /\ pending.data \subseteq Tags
  /\ epoch \in Tags /\ reloads \in 0..MaxReload
  /\ phase \in {"none", "in", "out"} /\ heard \subseteq Users

(* Nobody is sent to the login page before the server was asked: while the  *)
(* cache is being restored, or the first request is under way, a protected  *)
(* page waits.                                                              *)
RedirectsOnlyWhenAnswered == Redirects => me = Nobody \/ tried

(* The app believes in a user only when a response of this page's life said *)
(* so: no snapshot written before a login, a logout or a reload brings one  *)
(* back.                                                                    *)
UserIsNeverRemembered == IsAuthenticated => me \in heard

(* After a logout nothing fetched before it is left: not in the cache, not  *)
(* in a fetch that comes back later, not in the snapshot on disk, and not   *)
(* in the one the throttle holds back.                                      *)
LogoutForgets ==
  \A tag \in data \cup storage.data \cup pending.data : tag = epoch

(* A session that was logged out is not accepted again, whatever requests   *)
(* with its cookie were under way.                                          *)
LoggedOutForGood == ended \cap sessions = {}

(* Without an auth fetch under way when a login or logout completes, the    *)
(* app shows its outcome: a logout until somebody logs in, a login as long  *)
(* as its session is valid.                                                 *)
ShowsTheOutcome ==
  ~ raced /\ login = NoLogin /\ logout = NoLogout =>
      /\ phase = "out" => ~ IsAuthenticated
      /\ phase = "in" /\ Valid(cookie) => me = owner[cookie]

(* The first question is answered or fails: the spinner goes away.          *)
LoadingEnds == IsLoading ~> ~ IsLoading

(* useLogoutMutation.ts:12-13: "setQueryData first, synchronously flipping  *)
(* isAuthenticated to false so ProtectedRoute redirects immediately".       *)
LogoutShowsAtOnceAndLasts == phase = "out" /\ login = NoLogin => ~ IsAuthenticated

(* useLoginMutation.ts:12-13: "Seed the cache directly instead of just      *)
(* invalidating - avoids an extra round trip and a loading flicker right    *)
(* after a successful login".                                               *)
LoginShowsAtOnceAndLasts ==
  phase = "in" /\ Valid(cookie) /\ login = NoLogin /\ logout = NoLogout => IsAuthenticated
=============================================================================
