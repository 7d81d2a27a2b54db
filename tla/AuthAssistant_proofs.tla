------------------------ MODULE AuthAssistant_proofs ------------------------
(***************************************************************************)
(* Proofs about Auth and about Assistant, which share nothing but the page *)
(* they are part of.                                                       *)
(*                                                                         *)
(* Auth, for any users, any number of logins and page loads: a logout is   *)
(* final on the server and leaves nothing behind in the page, and what the *)
(* page believes, a response told it.                                      *)
(*                                                                         *)
(* Assistant, for any questions, answers of any length, and chunks that    *)
(* end anywhere: an answer shows its own words.                            *)
(***************************************************************************)
EXTENDS Auth, Assistant, FiniteSetTheorems, SequenceTheorems, WellFoundedInduction, TLAPS

(* A login under way is somebody's.                                         *)
SomebodyLogsIn == login.state # "none" => login.user \in Users

(* A logout that the page has completed, or is about to, ended a session of *)
(* its own, of which there are as many as logins were served.               *)
LogoutsEndSessions ==
  epoch + (IF logout.state = "answered" THEN 1 ELSE 0) <= Cardinality(ended)

(* The snapshot never holds the user (shouldPersistQuery).                  *)
NobodyIsPersisted == storage.me = Unknown /\ pending.me = Unknown

AuthInv ==
  /\ TypeOK
  /\ SomebodyLogsIn
  /\ NobodyIsPersisted
  /\ LogoutsEndSessions
  /\ LoggedOutForGood

LEMMA AuthInitInv == Init => AuthInv
<1> SUFFICES ASSUME Init PROVE AuthInv
  OBVIOUS
<1>1. Len(owner) = 0 /\ owner \in Seq(Users)
  BY DEF Init
<1>2. Cardinality(ended) = 0
  BY FS_EmptySet DEF Init
<1>3. TypeOK
  <2>1. /\ owner \in Seq(Users) /\ Len(owner) <= MaxSession
        /\ sessions \subseteq Ids /\ expired \subseteq Ids /\ ended \subseteq Ids
    BY <1>1, AuthAssumption DEF Init, Ids
  <2>2. /\ ask \in [state : {"none", "asked", "answered"}, cookie : Ids \cup {0},
                    value : Users \cup {Nobody}]
        /\ login \in [state : {"none", "asked", "answered"}, user : Users \cup {Nobody}]
        /\ logout \in [state : {"none", "asked", "answered"}, cookie : Ids \cup {0}]
        /\ load \in [state : {"none", "asked", "answered"}, cookie : Ids \cup {0}, tag : Tags]
    BY AuthAssumption DEF Init, Tags, NoAsk, NoLogin, NoLogout, NoLoad
  <2>3. data \subseteq Tags /\ storage.data \subseteq Tags /\ pending.data \subseteq Tags
    BY DEF Init, Empty, NotDirty
  <2>4. restoring \in BOOLEAN /\ tried \in BOOLEAN /\ raced \in BOOLEAN
    BY DEF Init
  <2>5. /\ cookie \in Ids \cup {0} /\ me \in Users \cup {Unknown, Nobody} /\ heard \subseteq Users
        /\ epoch \in Tags /\ reloads \in 0..MaxReload /\ phase \in {"none", "in", "out"}
    BY AuthAssumption DEF Init, Tags
  <2> QED
    BY <2>1, <2>2, <2>3, <2>4, <2>5 DEF TypeOK
<1>4. SomebodyLogsIn /\ NobodyIsPersisted
  BY DEF Init, SomebodyLogsIn, NobodyIsPersisted, NoLogin, Empty, NotDirty
<1>5. LogoutsEndSessions /\ LoggedOutForGood
  BY <1>2 DEF Init, LogoutsEndSessions, LoggedOutForGood, NoLogout
<1> QED
  BY <1>3, <1>4, <1>5 DEF AuthInv

(* There are at most MaxSession sessions to log out of.                     *)
LEMMA EndedIsBounded ==
  ASSUME TypeOK
  PROVE  IsFiniteSet(ended) /\ Cardinality(ended) \in Nat /\ Cardinality(ended) <= MaxSession
<1>1. Len(owner) \in Nat /\ Len(owner) <= MaxSession
  BY DEF TypeOK
<1>2. IsFiniteSet(1..Len(owner)) /\ Cardinality(1..Len(owner)) = Len(owner)
  <2>1. PICK n \in Nat : n = Len(owner)
    BY <1>1
  <2>2. IsFiniteSet(1..n) /\ Cardinality(1..n) = IF 1 > n THEN 0 ELSE n - 1 + 1
    BY FS_Interval
  <2> QED
    BY <2>1, <2>2
<1>3. ended \in SUBSET (1..Len(owner))
  BY DEF TypeOK, Ids
<1>4. IsFiniteSet(ended) /\ Cardinality(ended) <= Len(owner)
  BY <1>2, <1>3, FS_Subset
<1> QED
  BY <1>1, <1>4, FS_CardinalityType, AuthAssumption

LEMMA AuthNextInv == AuthInv /\ [Next]_vars => AuthInv'
<1> SUFFICES ASSUME AuthInv, [Next]_vars PROVE AuthInv'
  OBVIOUS
<1> USE AuthAssumption
    DEF AuthInv, TypeOK, SomebodyLogsIn, NobodyIsPersisted, LogoutsEndSessions, LoggedOutForGood, Ids, Tags,
        server, authQuery, persisted, history
<1>0. IsFiniteSet(ended) /\ Cardinality(ended) \in Nat /\ Cardinality(ended) <= MaxSession
  BY EndedIsBounded
<1>1. CASE Restore
  <2>1. ask' = [state |-> "asked", cookie |-> cookie, value |-> Nobody]
    BY <1>1 DEF Restore, NoAsk
  <2>2. restoring' \in BOOLEAN
    BY <1>1 DEF Restore
  <2> QED
    BY <1>1, <2>1, <2>2 DEF Restore
<1>2. CASE ServeMe
  <2>1. sessions' \subseteq sessions
    BY <1>2 DEF ServeMe, Purged
  <2>2. \E v \in Users \cup {Nobody} : ask' = [state |-> "answered", cookie |-> ask.cookie, value |-> v]
    <3>1. Valid(ask.cookie) => ask.cookie \in Ids /\ owner[ask.cookie] \in Users
      BY DEF Valid
    <3> QED
      BY <1>2, <3>1 DEF ServeMe
  <2> QED
    BY <1>2, <2>1, <2>2 DEF ServeMe
<1>3. CASE MeArrives
  BY <1>3 DEF MeArrives, Snapshot, NoAsk
<1>4. CASE ServeLogin
  <2>1. /\ owner' \in Seq(Users) /\ Len(owner') = Len(owner) + 1 /\ Len(owner) \in Nat
        /\ Len(owner') <= MaxSession
    BY <1>4 DEF ServeLogin
  <2>2. Ids \subseteq Ids' /\ Len(owner') \in Ids' /\ Len(owner') \notin Ids
    BY <2>1
  <2>3. login' \in {NoLogin, [state |-> "answered", user |-> login.user]}
    BY <1>4 DEF ServeLogin
  <2>4. login' \in [state : {"none", "asked", "answered"}, user : Users \cup {Nobody}] /\ SomebodyLogsIn'
    BY <1>4, <2>3 DEF ServeLogin, NoLogin
  <2>5. sessions' \subseteq Ids' /\ cookie' \in Ids' \cup {0} /\ LoggedOutForGood'
    BY <1>4, <2>2 DEF ServeLogin
  <2>6. TypeOK'
    <3> HIDE DEF Ids
    <3> QED
      BY <1>4, <2>1, <2>2, <2>4, <2>5 DEF ServeLogin
  <2> QED
    BY <1>4, <2>4, <2>5, <2>6 DEF ServeLogin
<1>5. CASE LoginSucceeds
  BY <1>5 DEF LoginSucceeds, Snapshot, NoLogin
<1>6. CASE ServeLogout
  <2>1. sessions' \subseteq sessions
    BY <1>6 DEF ServeLogout, Revoked, Purged
  <2>2. CASE Valid(logout.cookie)
    <3>1. /\ logout.cookie \in sessions /\ logout.cookie \notin sessions'
          /\ ended' = ended \cup {logout.cookie}
      BY <1>6, <2>2 DEF ServeLogout, Revoked, Valid
    <3>2. Cardinality(ended') = Cardinality(ended) + 1
      BY <1>0, <3>1, FS_AddElement
    <3>3. logout' \in {NoLogout, [state |-> "answered", cookie |-> logout.cookie]} /\ logout.state = "asked"
      BY <1>6, <2>2 DEF ServeLogout
    <3>4. LogoutsEndSessions'
      BY <1>0, <1>6, <3>2, <3>3 DEF ServeLogout, NoLogout
    <3>5. TypeOK'
      BY <1>6, <2>1, <2>2, <3>1, <3>3 DEF ServeLogout, NoLogout
    <3> QED
      BY <1>6, <2>1, <3>1, <3>4, <3>5 DEF ServeLogout
  <2>3. CASE ~ Valid(logout.cookie)
    BY <1>6, <2>1, <2>3 DEF ServeLogout, NoLogout
  <2> QED
    BY <2>2, <2>3
<1>7. CASE LogoutSucceeds
  BY <1>0, <1>7 DEF LogoutSucceeds, Snapshot, Empty, NoLogout, NoLoad
<1>8. CASE ServeData
  <2>1. sessions' \subseteq sessions
    BY <1>8 DEF ServeData, Purged
  <2>2. load' \in {NoLoad, [state |-> "answered", cookie |-> load.cookie, tag |-> load.tag]}
    BY <1>8 DEF ServeData
  <2> QED
    BY <1>8, <2>1, <2>2 DEF ServeData, NoLoad
<1>9. CASE DataArrives
  <2>1. pending'.me = Unknown /\ pending'.data = data'
    BY <1>9 DEF DataArrives, Snapshot
  <2>2. data' \subseteq Tags /\ load' = [state |-> "none", cookie |-> 0, tag |-> 0]
    BY <1>9 DEF DataArrives, NoLoad
  <2>3. UNCHANGED <<server, restoring, authQuery, login, logout, storage, reloads, history>>
    BY <1>9 DEF DataArrives
  <2> QED
    BY <2>1, <2>2, <2>3
<1>10. ASSUME NEW id \in 1..MaxSession, Expire(id) PROVE AuthInv'
  <2>1. expired' \subseteq Ids /\ cookie' \in Ids \cup {0}
    BY <1>10 DEF Expire
  <2> QED
    BY <1>10, <2>1 DEF Expire
<1>11. CASE Flush
  <2>1. storage'.me = Unknown /\ storage'.data = pending.data /\ pending'.me = Unknown /\ pending'.data = {}
    BY <1>11 DEF Flush, NotDirty
  <2> QED
    BY <1>11, <2>1 DEF Flush
<1>12. CASE Reload
  <2>1. restoring' \in BOOLEAN /\ tried' \in BOOLEAN /\ raced' \in BOOLEAN
    BY <1>12 DEF Reload
  <2>2. reloads' \in 0..MaxReload
    BY <1>12 DEF Reload
  <2>3. pending'.me = Unknown /\ pending'.data = {}
    BY <1>12 DEF Reload, NotDirty
  <2> QED
    BY <1>0, <1>12, <2>1, <2>2, <2>3 DEF Reload, NoAsk, NoLogin, NoLogout, NoLoad
<1>13. CASE AskMe
  <2>1. ask' = [state |-> "asked", cookie |-> cookie, value |-> Nobody]
    BY <1>13 DEF AskMe, NoAsk
  <2> QED
    BY <1>13, <2>1 DEF AskMe
<1>14. CASE MeFails
  BY <1>14 DEF MeFails, NoAsk
<1>15. ASSUME NEW u \in Users, SubmitLogin(u) PROVE AuthInv'
  BY <1>15 DEF SubmitLogin
<1>16. CASE LoginFails
  BY <1>16 DEF LoginFails, NoLogin
<1>17. CASE SubmitLogout
  <2>1. logout' = [state |-> "asked", cookie |-> cookie]
    BY <1>17 DEF SubmitLogout
  <2>2. epoch <= Cardinality(ended)
    BY <1>0
  <2> QED
    BY <1>0, <1>17, <2>1, <2>2 DEF SubmitLogout
<1>18. CASE LogoutFails
  BY <1>18 DEF LogoutFails, NoLogout
<1>19. CASE FetchData
  BY <1>19 DEF FetchData
<1>20. CASE UNCHANGED vars
  BY <1>20 DEF vars
<1> QED
  BY <1>1, <1>2, <1>3, <1>4, <1>5, <1>6, <1>7, <1>8, <1>9, <1>10, <1>11, <1>12, <1>13, <1>14,
     <1>15, <1>16, <1>17, <1>18, <1>19, <1>20 DEF Next, Answers

LEMMA AuthAlwaysInv == Spec => []AuthInv
BY AuthInitInv, AuthNextInv, PTL DEF Spec

(* The types of the whole system.                                           *)
THEOREM AuthTypeCorrect == Spec => []TypeOK
<1>1. AuthInv => TypeOK
  BY DEF AuthInv
<1> QED
  BY <1>1, AuthAlwaysInv, PTL

(* delete_session is final: no request that had the cookie, and no later    *)
(* login, brings a session that was logged out back.                        *)
THEOREM AuthLoggedOutForGood == Spec => []LoggedOutForGood
<1>1. AuthInv => LoggedOutForGood
  BY DEF AuthInv
<1> QED
  BY <1>1, AuthAlwaysInv, PTL

-----------------------------------------------------------------------------
(* What the page believes.                                                  *)

(* As long as the server was not asked, it is being asked; and a user on    *)
(* screen was named by a response.                                          *)
FirstQuestion == ~ restoring /\ ~ tried /\ me = Unknown => ask.state # "none"

Believes == FirstQuestion /\ UserIsNeverRemembered

LEMMA StepBelieves == AuthInv /\ Believes /\ [Next]_vars => Believes'
<1> SUFFICES ASSUME AuthInv, Believes, [Next]_vars PROVE Believes'
  OBVIOUS
<1> USE AuthAssumption DEF Believes, FirstQuestion, UserIsNeverRemembered, IsAuthenticated
<1>1. CASE Restore
  <2>1. me' = Unknown /\ ask'.state = "asked"
    BY <1>1 DEF Restore, NoAsk, AuthInv, NobodyIsPersisted
  <2> QED
    BY <2>1
<1>2. CASE ServeMe
  <2>1. ask'.state = "answered" /\ UNCHANGED <<me, heard>>
    BY <1>2 DEF ServeMe, AuthInv, TypeOK, history
  <2> QED
    BY <2>1
<1>3. CASE MeArrives
  BY <1>3 DEF MeArrives
<1>4. CASE LoginSucceeds
  <2>1. me' \in Users /\ me' \in heard'
    BY <1>4 DEF LoginSucceeds, AuthInv, SomebodyLogsIn
  <2> QED
    BY <2>1
<1>5. CASE LogoutSucceeds
  BY <1>5 DEF LogoutSucceeds
<1>6. CASE Reload
  BY <1>6 DEF Reload
<1>7. CASE AskMe
  <2>1. ask'.state = "asked" /\ UNCHANGED <<me, heard>>
    BY <1>7 DEF AskMe, NoAsk, history
  <2> QED
    BY <2>1
<1>8. CASE MeFails
  BY <1>8 DEF MeFails, history
<1>9. CASE \/ ServeLogin \/ ServeLogout \/ ServeData \/ DataArrives \/ Flush \/ LoginFails
           \/ SubmitLogout \/ LogoutFails \/ FetchData
           \/ \E id \in 1..MaxSession : Expire(id)
           \/ \E u \in Users : SubmitLogin(u)
           \/ UNCHANGED vars
  <2>1. UNCHANGED <<restoring, me, ask, tried, heard>>
    BY <1>9 DEF ServeLogin, ServeLogout, ServeData, DataArrives, Flush, LoginFails, SubmitLogout,
                LogoutFails, FetchData, Expire, SubmitLogin, vars, authQuery, history
  <2> QED
    BY <2>1
<1> QED
  BY <1>1, <1>2, <1>3, <1>4, <1>5, <1>6, <1>7, <1>8, <1>9 DEF Next, Answers

LEMMA AlwaysBelieves == Spec => []Believes
<1>1. Init => Believes
  BY AuthAssumption DEF Init, Believes, FirstQuestion, UserIsNeverRemembered, IsAuthenticated
<1> QED
  BY <1>1, StepBelieves, AuthAlwaysInv, PTL DEF Spec

(* A protected page waits for the server's answer before it redirects, from *)
(* the first paint on, however the cache is restored.                       *)
THEOREM AuthRedirectsOnlyWhenAnswered == Spec => []RedirectsOnlyWhenAnswered
<1>1. AuthInv /\ Believes => RedirectsOnlyWhenAnswered
  BY DEF AuthInv, TypeOK, Believes, FirstQuestion, RedirectsOnlyWhenAnswered, Redirects, IsLoading,
         IsAuthenticated
<1> QED
  BY <1>1, AuthAlwaysInv, AlwaysBelieves, PTL

(* No snapshot makes the page believe in a user: only a response does.      *)
THEOREM AuthUserIsNeverRemembered == Spec => []UserIsNeverRemembered
<1>1. Believes => UserIsNeverRemembered
  BY DEF Believes
<1> QED
  BY <1>1, AlwaysBelieves, PTL

-----------------------------------------------------------------------------
(* What a logout leaves.                                                    *)

(* A fetch under way has been asked since the last logout too, for it may   *)
(* still arrive.                                                            *)
OfThisEpoch == LogoutForgets /\ (load.state # "none" => load.tag = epoch)

LEMMA StepForgets == AuthInv /\ OfThisEpoch /\ [Next]_vars => OfThisEpoch'
<1> SUFFICES ASSUME AuthInv, OfThisEpoch, [Next]_vars PROVE OfThisEpoch'
  OBVIOUS
<1> USE DEF OfThisEpoch, LogoutForgets
<1>1. CASE Restore
  BY <1>1 DEF Restore, persisted, history
<1>2. CASE MeArrives \/ LoginSucceeds
  <2>1. UNCHANGED <<data, load, storage, epoch>> /\ pending'.data = data
    BY <1>2 DEF MeArrives, LoginSucceeds, Snapshot
  <2> QED
    BY <2>1
<1>3. CASE LogoutSucceeds
  <2>1. data' = {} /\ storage'.data = {} /\ pending'.data = {} /\ load'.state = "none"
    BY <1>3 DEF LogoutSucceeds, Snapshot, Empty, NoLoad
  <2> QED
    BY <2>1
<1>4. CASE ServeData
  <2>1. UNCHANGED <<data, pending, storage, epoch>>
    BY <1>4 DEF ServeData, persisted, history
  <2>2. (load.state # "none" /\ load'.tag = load.tag) \/ load'.state = "none"
    BY <1>4 DEF ServeData, NoLoad, AuthInv, TypeOK
  <2> QED
    BY <2>1, <2>2
<1>5. CASE DataArrives
  <2>1. UNCHANGED <<storage, epoch>> /\ load'.state = "none" /\ pending'.data = data'
    BY <1>5 DEF DataArrives, NoLoad, Snapshot, history
  <2>2. data' = data \cup {load.tag} /\ load.tag = epoch
    BY <1>5 DEF DataArrives
  <2> QED
    BY <2>1, <2>2
<1>6. CASE Flush
  <2>1. UNCHANGED <<data, load, epoch>> /\ storage'.data = pending.data /\ pending'.data = {}
    BY <1>6 DEF Flush, NotDirty, history
  <2> QED
    BY <2>1
<1>7. CASE Reload
  <2>1. UNCHANGED <<storage, epoch>> /\ data' = {} /\ pending'.data = {} /\ load'.state = "none"
    BY <1>7 DEF Reload, NotDirty, NoLoad
  <2> QED
    BY <2>1
<1>8. CASE FetchData
  <2>1. UNCHANGED <<data, pending, storage, epoch>> /\ load'.tag = epoch
    BY <1>8 DEF FetchData, persisted, history
  <2> QED
    BY <2>1
<1>9. CASE \/ ServeMe \/ ServeLogin \/ ServeLogout \/ AskMe \/ MeFails \/ LoginFails
           \/ SubmitLogout \/ LogoutFails
           \/ \E id \in 1..MaxSession : Expire(id)
           \/ \E u \in Users : SubmitLogin(u)
           \/ UNCHANGED vars
  <2>1. UNCHANGED <<data, load, pending, storage, epoch>>
    BY <1>9 DEF ServeMe, ServeLogin, ServeLogout, AskMe, MeFails, LoginFails, SubmitLogout,
                LogoutFails, Expire, SubmitLogin, vars, persisted, history
  <2> QED
    BY <2>1
<1> QED
  BY <1>1, <1>2, <1>3, <1>4, <1>5, <1>6, <1>7, <1>8, <1>9 DEF Next, Answers

(* removeQueries and removeClient together: nothing that was fetched before *)
(* a logout is in the cache, on its way to it, on disk, or in the snapshot  *)
(* the throttle holds back.                                                 *)
THEOREM AuthLogoutForgets == Spec => []LogoutForgets
<1>1. Init => OfThisEpoch
  <2> SUFFICES ASSUME Init PROVE OfThisEpoch
    OBVIOUS
  <2>1. data = {} /\ storage.data = {} /\ pending.data = {} /\ load.state = "none"
    BY DEF Init, Empty, NotDirty, NoLoad
  <2> QED
    BY <2>1 DEF OfThisEpoch, LogoutForgets
<1>2. OfThisEpoch => LogoutForgets
  BY DEF OfThisEpoch
<1> QED
  BY <1>1, <1>2, StepForgets, AuthAlwaysInv, PTL DEF Spec

-----------------------------------------------------------------------------
(* What the page shows after a login or a logout.                           *)

(* One of the two is under way, neither while the snapshot is restored; the *)
(* browser has the cookies of a response before the page acts on it.        *)
OneAtATime ==
  /\ login.state = "none" => login = NoLogin
  /\ logout.state = "none" => logout = NoLogout
  /\ login = NoLogin \/ logout = NoLogout
  /\ restoring => phase = "none" /\ login = NoLogin /\ logout = NoLogout /\ ask = NoAsk
  /\ login.state = "answered" => cookie = 0 \/ owner[cookie] = login.user
  /\ logout.state = "answered" => cookie = 0

(* After a logout there is no cookie to ask with until somebody logs in.    *)
LoggedOut ==
  phase = "out" /\ ~ raced /\ login.state # "answered" =>
    /\ cookie = 0 /\ ~ IsAuthenticated /\ logout = NoLogout
    /\ ask.state # "none" => ask.cookie = 0 /\ ask.value = Nobody

(* After a login the page asks with its session's cookie, if at all.        *)
LoggedIn ==
  phase = "in" /\ ~ raced /\ login.state # "answered" /\ logout.state # "answered" /\ Valid(cookie) =>
    /\ me = owner[cookie]
    /\ ask.state # "none" => ask.cookie = cookie
    /\ ask.state = "answered" => ask.value = owner[cookie]

OutcomeInv == OneAtATime /\ LoggedOut /\ LoggedIn

LEMMA StepOutcome == AuthInv /\ OutcomeInv /\ [Next]_vars => OutcomeInv'
<1> SUFFICES ASSUME AuthInv, OutcomeInv, [Next]_vars PROVE OutcomeInv'
  OBVIOUS
<1> USE AuthAssumption DEF OutcomeInv, OneAtATime, LoggedOut, LoggedIn, IsAuthenticated, Valid
<1>0. /\ owner \in Seq(Users) /\ sessions \subseteq 1..Len(owner) /\ cookie \in (1..Len(owner)) \cup {0}
      /\ me \in Users \cup {Unknown, Nobody}
      /\ ask \in [state : {"none", "asked", "answered"}, cookie : Ids \cup {0}, value : Users \cup {Nobody}]
      /\ login \in [state : {"none", "asked", "answered"}, user : Users \cup {Nobody}]
      /\ logout \in [state : {"none", "asked", "answered"}, cookie : Ids \cup {0}]
      /\ login.state # "none" => login.user \in Users
  BY DEF AuthInv, TypeOK, Ids, SomebodyLogsIn
<1>1. CASE Restore
  <2>1. phase' = "none" /\ login' = NoLogin /\ logout' = NoLogout /\ restoring' = FALSE
    BY <1>1 DEF Restore, history
  <2> QED
    BY <2>1 DEF NoLogin, NoLogout
<1>2. CASE ServeMe
  <2>1. /\ ask.state = "asked" /\ ask'.state = "answered" /\ ask'.cookie = ask.cookie
        /\ ask'.value = IF Valid(ask.cookie) THEN owner[ask.cookie] ELSE Nobody
        /\ sessions' \subseteq sessions
        /\ UNCHANGED <<expired, owner, cookie, restoring, me, login, logout, phase, raced>>
    BY <1>0, <1>2 DEF ServeMe, Purged, history
  <2>2. ask # NoAsk
    BY <2>1 DEF NoAsk
  <2>3. ~ Valid(0)
    BY <1>0
  <2> QED
    BY <2>1, <2>2, <2>3
<1>3. CASE MeArrives
  <2>1. /\ ask.state = "answered" /\ me' = ask.value /\ ask' = NoAsk
        /\ UNCHANGED <<sessions, expired, owner, cookie, restoring, login, logout, phase, raced>>
    BY <1>3 DEF MeArrives, server
  <2>2. ask'.state = "none"
    BY <2>1 DEF NoAsk
  <2> QED
    BY <2>1, <2>2
<1>4. CASE MeFails
  <2>1. /\ ask' = NoAsk
        /\ UNCHANGED <<me, sessions, expired, owner, cookie, restoring, login, logout, phase, raced>>
    BY <1>4 DEF MeFails, server, history
  <2>2. ask'.state = "none"
    BY <2>1 DEF NoAsk
  <2> QED
    BY <2>1, <2>2
<1>5. CASE AskMe
  <2>1. /\ ~ restoring /\ ask'.state = "asked" /\ ask'.cookie = cookie /\ ask'.value = Nobody
        /\ UNCHANGED <<me, sessions, expired, owner, cookie, restoring, login, logout, phase, raced>>
    BY <1>5 DEF AskMe, NoAsk, server, history
  <2> QED
    BY <2>1
<1>6. ASSUME NEW id \in 1..MaxSession, Expire(id) PROVE OutcomeInv'
  <2>1. /\ expired \subseteq expired' /\ (cookie' = cookie \/ cookie' = 0)
        /\ UNCHANGED <<sessions, owner, restoring, me, ask, login, logout, phase, raced>>
    BY <1>6 DEF Expire, authQuery, history
  <2>2. 0 \notin sessions
    BY <1>0
  <2> QED
    BY <2>1, <2>2
<1>7. ASSUME NEW u \in Users, SubmitLogin(u) PROVE OutcomeInv'
  <2>1. /\ ~ restoring /\ login = NoLogin /\ logout = NoLogout
        /\ login'.state = "asked"
        /\ UNCHANGED <<sessions, expired, owner, cookie, restoring, me, ask, logout, phase, raced>>
    BY <1>7 DEF SubmitLogin, server, authQuery, history
  <2>2. login.state = "none" /\ logout.state = "none"
    BY <2>1 DEF NoLogin, NoLogout
  <2> QED
    BY <2>1, <2>2
<1>8. CASE ServeLogin
  <2>1. /\ login.state = "asked" /\ owner' = Append(owner, login.user)
        /\ sessions' = sessions \cup {Len(owner')}
        /\ UNCHANGED <<expired, restoring, me, ask, logout, phase, raced>>
    BY <1>8 DEF ServeLogin, authQuery, history
  <2>2. /\ Len(owner') = Len(owner) + 1 /\ owner'[Len(owner')] = login.user
        /\ \A i \in 1..Len(owner) : owner'[i] = owner[i]
    BY <1>0, <2>1
  <2>3. login # NoLogin /\ logout = NoLogout /\ logout.state = "none"
    BY <2>1 DEF NoLogin, NoLogout
  <2>4. CASE cookie' = Len(owner') /\ login' = [login EXCEPT !.state = "answered"]
    <3>1. login'.state = "answered" /\ login'.user = login.user
      BY <1>0, <2>4
    <3> QED
      BY <2>1, <2>2, <2>3, <2>4, <3>1
  <2>5. CASE cookie' = cookie /\ login' = NoLogin
    <3>1. login'.state = "none"
      BY <2>5 DEF NoLogin
    <3>2. Valid(cookie)' => Valid(cookie) /\ owner'[cookie] = owner[cookie]
      <4>1. cookie # Len(owner')
        BY <1>0, <2>2
      <4> QED
        BY <1>0, <2>1, <2>2, <2>5, <4>1
    <3> QED
      BY <2>1, <2>3, <2>5, <3>1, <3>2
  <2> QED
    BY <1>8, <2>4, <2>5 DEF ServeLogin
<1>9. CASE LoginSucceeds
  <2>1. /\ login.state = "answered" /\ me' = login.user /\ login' = NoLogin /\ phase' = "in"
        /\ raced' = (ask.state # "none")
        /\ UNCHANGED <<sessions, expired, owner, cookie, restoring, ask, logout>>
    BY <1>9 DEF LoginSucceeds, server
  <2>2. login'.state = "none" /\ login # NoLogin
    BY <2>1 DEF NoLogin
  <2>3. 0 \notin sessions
    BY <1>0
  <2> QED
    BY <2>1, <2>2, <2>3
<1>10. CASE LoginFails
  <2>1. /\ login.state = "asked" /\ login' = NoLogin
        /\ UNCHANGED <<sessions, expired, owner, cookie, restoring, me, ask, logout, phase, raced>>
    BY <1>10 DEF LoginFails, server, authQuery, history
  <2>2. login'.state = "none" /\ login # NoLogin
    BY <2>1 DEF NoLogin
  <2> QED
    BY <2>1, <2>2
<1>11. CASE SubmitLogout
  <2>1. /\ IsAuthenticated /\ ~ restoring /\ login = NoLogin /\ logout = NoLogout
        /\ logout'.state = "asked"
        /\ UNCHANGED <<sessions, expired, owner, cookie, restoring, me, ask, login, phase, raced>>
    BY <1>11 DEF SubmitLogout, server, authQuery, history
  <2>2. login.state = "none" /\ logout.state = "none"
    BY <2>1 DEF NoLogin, NoLogout
  <2> QED
    BY <2>1, <2>2
<1>12. CASE ServeLogout
  <2>1. /\ logout.state = "asked" /\ sessions' \subseteq sessions
        /\ UNCHANGED <<expired, owner, restoring, me, ask, login, phase, raced>>
    BY <1>12 DEF ServeLogout, Revoked, Purged, authQuery
  <2>2. logout # NoLogout /\ login = NoLogin /\ login.state = "none"
    BY <2>1 DEF NoLogin, NoLogout
  <2>3. \/ cookie' = 0 /\ logout'.state = "answered"
        \/ cookie' = cookie /\ logout' = NoLogout
    BY <1>0, <1>12 DEF ServeLogout
  <2>4. CASE cookie' = 0 /\ logout'.state = "answered"
    BY <2>1, <2>2, <2>4
  <2>5. CASE cookie' = cookie /\ logout' = NoLogout
    <3>1. logout'.state = "none"
      BY <2>5 DEF NoLogout
    <3> QED
      BY <2>1, <2>2, <2>5, <3>1
  <2> QED
    BY <2>3, <2>4, <2>5
<1>13. CASE LogoutSucceeds
  <2>1. /\ logout.state = "answered" /\ me' = Nobody /\ logout' = NoLogout /\ phase' = "out"
        /\ raced' = (ask.state # "none")
        /\ UNCHANGED <<sessions, expired, owner, cookie, restoring, ask, login>>
    BY <1>13 DEF LogoutSucceeds, server
  <2>2. logout'.state = "none" /\ logout # NoLogout
    BY <2>1 DEF NoLogout
  <2> QED
    BY <2>1, <2>2
<1>14. CASE LogoutFails
  <2>1. /\ logout.state = "asked" /\ logout' = NoLogout
        /\ UNCHANGED <<sessions, expired, owner, cookie, restoring, me, ask, login, phase, raced>>
    BY <1>14 DEF LogoutFails, server, authQuery, history
  <2>2. logout'.state = "none" /\ logout # NoLogout
    BY <2>1 DEF NoLogout
  <2> QED
    BY <2>1, <2>2
<1>15. CASE Reload
  <2>1. /\ phase' = "none" /\ ask' = NoAsk /\ login' = NoLogin /\ logout' = NoLogout
        /\ login'.state = "none" /\ logout'.state = "none"
    BY <1>15 DEF Reload, NoLogin, NoLogout
  <2> QED
    BY <2>1
<1>16. CASE ServeData
  <2>1. /\ sessions' \subseteq sessions
        /\ UNCHANGED <<expired, owner, cookie, restoring, me, ask, login, logout, phase, raced>>
    BY <1>16 DEF ServeData, Purged, authQuery, history
  <2> QED
    BY <2>1
<1>17. CASE DataArrives \/ Flush \/ FetchData \/ UNCHANGED vars
  <2>1. UNCHANGED <<sessions, expired, owner, cookie, restoring, me, ask, login, logout, phase, raced>>
    BY <1>17 DEF DataArrives, Flush, FetchData, vars, server, authQuery, history
  <2> QED
    BY <2>1
<1> QED
  BY <1>1, <1>2, <1>3, <1>4, <1>5, <1>6, <1>7, <1>8, <1>9, <1>10, <1>11, <1>12, <1>13, <1>14,
     <1>15, <1>16, <1>17 DEF Next, Answers

(* Without an auth fetch under way when a login or logout completes, its    *)
(* outcome lasts: setQueryData of useLoginMutation and useLogoutMutation is *)
(* not overwritten by what is asked later, whatever is lost or expires.     *)
THEOREM AuthShowsTheOutcome == Spec => []ShowsTheOutcome
<1>1. Init => OutcomeInv
  BY DEF Init, OutcomeInv, OneAtATime, LoggedOut, LoggedIn, NoLogin, NoLogout
<1>2. AuthInv /\ OutcomeInv => ShowsTheOutcome
  <2>1. NoLogin.state # "answered" /\ NoLogout.state # "answered"
    BY DEF NoLogin, NoLogout
  <2> QED
    BY <2>1 DEF OutcomeInv, LoggedOut, LoggedIn, ShowsTheOutcome
<1> QED
  BY <1>1, <1>2, StepOutcome, AuthAlwaysInv, PTL DEF Spec

-----------------------------------------------------------------------------
(* The assistant's answers.                                                 *)

(* The e-th event of an answer.                                             *)
Sources == [type |-> "sources", token |-> <<>>]
Token(q, n) == [type |-> "token", token |-> <<q, n>>]
Done == [type |-> "done", token |-> <<>>]
Event(q, e) == IF e = 1 THEN Sources ELSE IF e = Words[q] + 2 THEN Done ELSE Token(q, e - 1)

LEMMA EventsOfAnswer ==
  ASSUME NEW q \in Questions
  PROVE  Events(q) = [e \in 1..Words[q] + 2 |-> Event(q, e)]
<1> DEFINE words == [n \in 1..Words[q] |-> Token(q, n)]
           AnyEvent == {Sources, Done} \cup {Token(q, n) : n \in 1..Words[q]}
<1>1. PICK w \in Nat : w = Words[q]
  BY AssistantAssumption
<1>2. words \in Seq(AnyEvent) /\ Len(words) = w
  BY <1>1
<1>3. <<Sources>> \in Seq(AnyEvent) /\ <<Done>> \in Seq(AnyEvent) /\ Len(<<Sources>>) = 1 /\ Len(<<Done>>) = 1
  OBVIOUS
<1>4. /\ <<Sources>> \o words \in Seq(AnyEvent) /\ Len(<<Sources>> \o words) = w + 1
      /\ \A i \in 1..w + 1 : (<<Sources>> \o words)[i] = IF i = 1 THEN Sources ELSE words[i - 1]
  <2> HIDE DEF words, AnyEvent
  <2> QED
    BY <1>1, <1>2, <1>3
<1> DEFINE front == <<Sources>> \o words
<1>5. /\ front \o <<Done>> \in Seq(AnyEvent) /\ Len(front \o <<Done>>) = w + 2
      /\ \A i \in 1..w + 2 : (front \o <<Done>>)[i] = IF i = w + 2 THEN Done ELSE front[i]
  <2> HIDE DEF front, AnyEvent
  <2> QED
    BY <1>1, <1>3, <1>4 DEF front
<1>6. front \o <<Done>> = [e \in 1..w + 2 |-> (front \o <<Done>>)[e]]
  <2> HIDE DEF front, AnyEvent
  <2> QED
    BY <1>1, <1>5
<1>7. \A e \in 1..w + 2 : (front \o <<Done>>)[e] = Event(q, e)
  BY <1>1, <1>4, <1>5 DEF Event
<1>8. Events(q) = front \o <<Done>>
  BY DEF Events, Sources, Token, Done
<1> QED
  BY <1>1, <1>6, <1>7, <1>8

(* The bytes of an answer: each event and two line feeds; n of them after   *)
(* the first a.                                                             *)
Symbol(q, i) == IF i % 3 = 1 THEN Event(q, (i + 2) \div 3) ELSE LF
Text(q, a, n) == [i \in 1..n |-> Symbol(q, a + i)]

LEMMA EventIsNoLineFeed ==
  ASSUME NEW q, NEW e
  PROVE  Event(q, e) # LF
BY DEF Event, Sources, Token, Done, LF

LEMMA SymbolsOfFrame ==
  ASSUME NEW q, NEW e \in Nat
  PROVE  /\ Symbol(q, 3 * e + 1) = Event(q, e + 1)
         /\ Symbol(q, 3 * e + 2) = LF /\ Symbol(q, 3 * e + 3) = LF
<1>1. (3 * e + 1) % 3 = 1 /\ (3 * e + 1 + 2) \div 3 = e + 1
  OBVIOUS
<1>2. (3 * e + 2) % 3 = 2 /\ (3 * e + 3) % 3 = 0
  OBVIOUS
<1> QED
  BY <1>1, <1>2 DEF Symbol

(* Neighbouring pieces join, and a piece is cut in two.                     *)
Joins(q, a, n, m) == Text(q, a, n) \o Text(q, a + n, m) = Text(q, a, n + m)

Cuts(q, a, n, m) ==
  /\ SubSeq(Text(q, a, n), 1, m) = Text(q, a, m)
  /\ SubSeq(Text(q, a, n), m + 1, n) = Text(q, a + m, n - m)

LEMMA TextsJoin ==
  ASSUME NEW q, NEW a \in Nat, NEW n \in Nat, NEW m \in Nat
  PROVE  Joins(q, a, n, m)
<1> DEFINE S == {Symbol(q, i) : i \in Nat}
<1>1. Text(q, a, n) \in Seq(S) /\ Len(Text(q, a, n)) = n
  BY DEF Text
<1>2. Text(q, a + n, m) \in Seq(S) /\ Len(Text(q, a + n, m)) = m
  BY DEF Text
<1>3. Text(q, a, n + m) \in Seq(S) /\ Len(Text(q, a, n + m)) = n + m
  BY DEF Text
<1>4. ASSUME NEW i \in 1..n + m
      PROVE  (Text(q, a, n) \o Text(q, a + n, m))[i] = Text(q, a, n + m)[i]
  <2> HIDE DEF S
  <2>1. CASE i <= n
    BY <1>1, <1>2, <2>1 DEF Text
  <2>2. CASE i > n
    <3>1. i - n \in 1..m /\ a + n + (i - n) = a + i
      BY <2>2
    <3>2. (Text(q, a, n) \o Text(q, a + n, m))[i] = Text(q, a + n, m)[i - n]
      BY <1>1, <1>2, <2>2
    <3> QED
      BY <3>1, <3>2 DEF Text
  <2>3. i <= n \/ i > n
    OBVIOUS
  <2> QED
    BY <2>1, <2>2, <2>3
<1> HIDE DEF S
<1>5. /\ Text(q, a, n) \o Text(q, a + n, m) \in Seq(S)
      /\ Len(Text(q, a, n) \o Text(q, a + n, m)) = n + m
  BY <1>1, <1>2
<1> QED
  BY <1>3, <1>4, <1>5, SeqEqual DEF Joins

LEMMA TextIsCut ==
  ASSUME NEW q, NEW a \in Nat, NEW n \in Nat, NEW m \in 0..n
  PROVE  Cuts(q, a, n, m)
<1>1. SubSeq(Text(q, a, n), 1, m) = [k \in 1..m |-> Text(q, a, n)[k]]
  BY DEF Text
<1>2. SubSeq(Text(q, a, n), m + 1, n) = [k \in 1..n - m |-> Text(q, a, n)[m + k]]
  BY DEF Text
<1>3. \A k \in 1..n - m : m + k \in 1..n /\ a + (m + k) = a + m + k
  OBVIOUS
<1> QED
  BY <1>1, <1>2, <1>3 DEF Text, Cuts

(* What the message shows after k events.                                   *)
WordsTold(q, k) == IF k = 0 THEN 0 ELSE IF k > Words[q] THEN Words[q] ELSE k - 1
Told(q, k) == [question |-> q, content |-> [n \in 1..WordsTold(q, k) |-> <<q, n>>],
               sources |-> k > 0, isStreaming |-> k < Words[q] + 2, isError |-> FALSE]

LEMMA EventIsTold ==
  ASSUME NEW q \in Questions, NEW k \in 0..Words[q] + 1
  PROVE  OnEvent(Told(q, k), Event(q, k + 1)) = Told(q, k + 1)
<1>1. PICK w \in Nat \ {0} : w = Words[q]
  BY AssistantAssumption
<1>2. CASE k = 0
  <2>1. Event(q, k + 1) = Sources /\ WordsTold(q, k) = 0 /\ WordsTold(q, k + 1) = 0
    BY <1>1, <1>2 DEF Event, WordsTold
  <2>2. OnEvent(Told(q, k), Sources) = [Told(q, k) EXCEPT !.sources = TRUE]
    BY DEF OnEvent, Sources
  <2>3. (k > 0) = FALSE /\ (k + 1 > 0) = TRUE
    BY <1>2
  <2>4. (k < Words[q] + 2) = TRUE /\ (k + 1 < Words[q] + 2) = TRUE
    BY <1>1, <1>2
  <2> QED
    BY <2>1, <2>2, <2>3, <2>4 DEF Told
<1>3. CASE k \in 1..w
  <2>1. Event(q, k + 1) = Token(q, k) /\ WordsTold(q, k) = k - 1 /\ WordsTold(q, k + 1) = k
    BY <1>1, <1>3 DEF Event, WordsTold
  <2>2. OnEvent(Told(q, k), Token(q, k)) = [Told(q, k) EXCEPT !.content = Append(@, <<q, k>>)]
    BY DEF OnEvent, Token
  <2>3. Append([n \in 1..k - 1 |-> <<q, n>>], <<q, k>>) = [n \in 1..k |-> <<q, n>>]
    BY <1>3
  <2>4. (k > 0) = TRUE /\ (k + 1 > 0) = TRUE
    BY <1>3
  <2>5. (k < Words[q] + 2) = TRUE /\ (k + 1 < Words[q] + 2) = TRUE
    BY <1>1, <1>3
  <2> QED
    BY <2>1, <2>2, <2>3, <2>4, <2>5 DEF Told
<1>4. CASE k = w + 1
  <2>1. Event(q, k + 1) = Done /\ WordsTold(q, k) = w /\ WordsTold(q, k + 1) = w
    BY <1>1, <1>4 DEF Event, WordsTold
  <2>2. OnEvent(Told(q, k), Done) = [Told(q, k) EXCEPT !.isStreaming = FALSE]
    BY DEF OnEvent, Done
  <2>3. (k > 0) = TRUE /\ (k + 1 > 0) = TRUE
    BY <1>1, <1>4
  <2>4. (k < Words[q] + 2) = TRUE /\ (k + 1 < Words[q] + 2) = FALSE
    BY <1>1, <1>4
  <2>5. PICK c : c = [n \in 1..w |-> <<q, n>>]
    OBVIOUS
  <2>6. /\ Told(q, k) = [question |-> q, content |-> c, sources |-> TRUE,
                         isStreaming |-> TRUE, isError |-> FALSE]
        /\ Told(q, k + 1) = [question |-> q, content |-> c, sources |-> TRUE,
                             isStreaming |-> FALSE, isError |-> FALSE]
    BY <2>1, <2>3, <2>4, <2>5 DEF Told
  <2>7. \A yes, no \in BOOLEAN :
          [[question |-> q, content |-> c, sources |-> yes, isStreaming |-> yes, isError |-> no]
             EXCEPT !.isStreaming = no]
          = [question |-> q, content |-> c, sources |-> yes, isStreaming |-> no, isError |-> no]
    OBVIOUS
  <2>8. TRUE \in BOOLEAN /\ FALSE \in BOOLEAN
    OBVIOUS
  <2>9. [Told(q, k) EXCEPT !.isStreaming = FALSE] = Told(q, k + 1)
    BY <2>6, <2>7, <2>8, Zenon
  <2> QED
    BY <2>1, <2>2, <2>9
<1> QED
  BY <1>1, <1>2, <1>3, <1>4

(* A text that begins with a frame has its first boundary after the event;  *)
(* an unfinished frame has none.                                            *)
LEMMA BoundaryOfFrame ==
  ASSUME NEW q, NEW e \in Nat, NEW n \in Nat
  PROVE  /\ n <= 2 => Boundaries(Text(q, 3 * e, n)) = {}
         /\ n >= 3 => Min(Boundaries(Text(q, 3 * e, n))) = 2
<1> DEFINE B == Boundaries(Text(q, 3 * e, n))
<1>1. B = {i \in 1..n - 1 : Symbol(q, 3 * e + i) = LF /\ Symbol(q, 3 * e + (i + 1)) = LF}
  <2>1. Len(Text(q, 3 * e, n)) = n
    BY DEF Text
  <2>2. ASSUME NEW i \in 1..n - 1
        PROVE  /\ Text(q, 3 * e, n)[i] = Symbol(q, 3 * e + i)
               /\ Text(q, 3 * e, n)[i + 1] = Symbol(q, 3 * e + (i + 1))
    BY DEF Text
  <2> QED
    BY <2>1, <2>2 DEF Boundaries
<1>2. Symbol(q, 3 * e + 1) # LF /\ Symbol(q, 3 * e + 2) = LF /\ Symbol(q, 3 * e + 3) = LF
  BY SymbolsOfFrame, EventIsNoLineFeed
<1>3. 1 \notin B
  BY <1>1, <1>2
<1>4. ASSUME n <= 2 PROVE B = {}
  <2>1. \A i \in B : i = 1
    BY <1>1, <1>4
  <2> QED
    BY <1>3, <2>1
<1>5. ASSUME n >= 3 PROVE Min(B) = 2
  <2>1. 2 \in B
    BY <1>1, <1>2, <1>5
  <2>2. \A i \in B : i \in Nat /\ i >= 2
    BY <1>1, <1>3
  <2> HIDE DEF B
  <2>3. \A x \in B : (\A y \in B : x <= y) => x = 2
    BY <2>1, <2>2
  <2>4. \A y \in B : 2 <= y
    BY <2>2
  <2> QED
    BY <2>1, <2>3, <2>4 DEF Min
<1> QED
  BY <1>4, <1>5

(* One round of the loop: the first event is told, its frame is cut off.    *)
LEMMA FrameIsTaken ==
  ASSUME NEW q \in Questions, NEW k \in 0..Words[q] + 1, NEW n \in Nat, n >= 3
  PROVE  TakeFrame([buffer |-> Text(q, 3 * k, n), message |-> Told(q, k)])
         = [buffer |-> Text(q, 3 * (k + 1), n - 3), message |-> Told(q, k + 1)]
<1>1. k \in Nat
  BY AssistantAssumption
<1>2. Min(Boundaries(Text(q, 3 * k, n))) = 2
  BY <1>1, BoundaryOfFrame
<1>3. SubSeq(Text(q, 3 * k, n), 2 + 2, Len(Text(q, 3 * k, n))) = Text(q, 3 * (k + 1), n - 3)
  <2>1. Len(Text(q, 3 * k, n)) = n
    BY DEF Text
  <2>2. 3 * k \in Nat /\ 3 \in 0..n /\ 3 * k + 3 = 3 * (k + 1) /\ 3 + 1 = 2 + 2
    BY <1>1
  <2>3. Cuts(q, 3 * k, n, 3)
    BY <2>2, TextIsCut
  <2> QED
    BY <2>1, <2>2, <2>3 DEF Cuts
<1>4. PICK raw : raw = SubSeq(Text(q, 3 * k, n), 1, 2 - 1)
  OBVIOUS
<1>5. raw = <<Event(q, k + 1)>>
  <2>1. 3 * k \in Nat /\ 1 \in 0..n /\ 2 - 1 = 1
    BY <1>1
  <2>2. raw = Text(q, 3 * k, 1)
    <3>1. Cuts(q, 3 * k, n, 1)
      BY <2>1, TextIsCut
    <3>2. SubSeq(Text(q, 3 * k, n), 1, 1) = Text(q, 3 * k, 1)
      BY <3>1 DEF Cuts
    <3> QED
      BY <1>4, <2>1, <3>2, Zenon
  <2>3. Symbol(q, 3 * k + 1) = Event(q, k + 1)
    BY <1>1, SymbolsOfFrame
  <2> QED
    BY <2>2, <2>3 DEF Text
<1>6. OnFrame(Told(q, k), raw) = Told(q, k + 1)
  <2>1. {i \in DOMAIN raw : raw[i] # LF} = {1}
    BY <1>5, EventIsNoLineFeed
  <2>2. Min({1}) = 1
    BY DEF Min
  <2>3. OnFrame(Told(q, k), raw) = OnEvent(Told(q, k), raw[1])
    BY <2>1, <2>2 DEF OnFrame
  <2> QED
    BY <1>5, <2>3, EventIsTold
<1>7. PICK s : s = [buffer |-> Text(q, 3 * k, n), message |-> Told(q, k)]
  OBVIOUS
<1>8. s.buffer = Text(q, 3 * k, n) /\ s.message = Told(q, k)
  BY <1>7
<1>9. TakeFrame(s) = [buffer |-> SubSeq(s.buffer, 2 + 2, Len(s.buffer)),
                           message |-> OnFrame(s.message, SubSeq(s.buffer, 1, 2 - 1))]
  BY <1>2, <1>8 DEF TakeFrame
<1> QED
  BY <1>3, <1>4, <1>6, <1>7, <1>8, <1>9

LEMMA SetsHaveALeast ==
  ASSUME NEW S \in SUBSET Nat, S # {}
  PROVE  \E n \in S : \A m \in S : n <= m
<1>1. PICK n \in S : \A m \in S : ~ (<<m, n>> \in OpToRel(<, Nat))
  BY NatLessThanWellFounded, WFMin
<1>2. ASSUME NEW m \in S PROVE ~ (m < n)
  <2>1. ~ (<<m, n>> \in {ss \in Nat \X Nat : ss[1] < ss[2]})
    BY <1>1 DEF OpToRel
  <2> QED
    BY <2>1
<1> QED
  BY <1>2

(* The loop takes as many frames as there are, and leaves the rest.  Its    *)
(* states are known, so that they are the only solution of its recursion.   *)
Takes(q, k, d, c) ==
  TakeFrames([buffer |-> Text(q, 3 * k, 3 * d + c), message |-> Told(q, k)])
  = [buffer |-> Text(q, 3 * (k + d), c), message |-> Told(q, k + d)]

LEMMA FramesAreTaken ==
  ASSUME NEW q \in Questions,
         NEW k \in Nat, NEW d \in Nat, NEW c \in 0..2, k + d <= Words[q] + 2
  PROVE  Takes(q, k, d, c)
<1>0. Words[q] \in Nat
  BY AssistantAssumption
<1>1. PICK N \in Nat : N = 3 * d + c
  OBVIOUS
<1>s. PICK start : start = [buffer |-> Text(q, 3 * k, 3 * d + c), message |-> Told(q, k)]
  OBVIOUS
<1>l. Len(start.buffer) = N
  <2>1. start.buffer = Text(q, 3 * k, N)
    BY <1>1, <1>s
  <2> QED
    BY <2>1 DEF Text
<1> DEFINE Taken(n) == IF n < d THEN n ELSE d
           After(n) == [buffer |-> Text(q, 3 * (k + Taken(n)), N - 3 * Taken(n)),
                        message |-> Told(q, k + Taken(n))]
           Round(f, n) == IF n = 0 THEN start
                          ELSE IF Boundaries(f[n - 1].buffer) = {} THEN f[n - 1]
                          ELSE TakeFrame(f[n - 1])
<1>2. Taken(0) = 0 /\ After(0) = start
  BY <1>1, <1>s
<1>3. Taken(N) = d /\ After(N) = [buffer |-> Text(q, 3 * (k + d), c), message |-> Told(q, k + d)]
  BY <1>1
<1>4. \A n \in 1..N :
        After(n) = IF Boundaries(After(n - 1).buffer) = {} THEN After(n - 1)
                   ELSE TakeFrame(After(n - 1))
  <2> SUFFICES ASSUME NEW n \in 1..N
               PROVE  After(n) = IF Boundaries(After(n - 1).buffer) = {} THEN After(n - 1)
                                 ELSE TakeFrame(After(n - 1))
    OBVIOUS
  <2>1. PICK t \in Nat : t = Taken(n - 1)
    OBVIOUS
  <2>2. t <= d /\ k + t \in Nat /\ N - 3 * t \in Nat /\ N - 3 * t = 3 * (d - t) + c
    BY <1>1, <2>1
  <2>3. After(n - 1) = [buffer |-> Text(q, 3 * (k + t), N - 3 * t), message |-> Told(q, k + t)]
    BY <2>1
  <2>4. After(n - 1).buffer = Text(q, 3 * (k + t), N - 3 * t)
    BY <2>3
  <2>5. CASE n <= d
    <3>1. t = n - 1 /\ Taken(n) = t + 1 /\ N - 3 * t >= 3 /\ k + t \in 0..Words[q] + 1
      BY <1>0, <1>1, <2>1, <2>2, <2>5
    <3>2. Boundaries(After(n - 1).buffer) # {}
      <4>1. Symbol(q, 3 * (k + t) + 2) = LF /\ Symbol(q, 3 * (k + t) + 3) = LF
        BY <2>2, SymbolsOfFrame
      <4>2. PICK x : x = Text(q, 3 * (k + t), N - 3 * t)
        OBVIOUS
      <4>3. 2 \in 1..Len(x) - 1 /\ x[2] = LF /\ x[2 + 1] = LF
        BY <2>2, <3>1, <4>1, <4>2 DEF Text
      <4>4. 2 \in Boundaries(x)
        BY <4>3 DEF Boundaries
      <4> QED
        BY <2>4, <4>2, <4>4
    <3>3. TakeFrame([buffer |-> Text(q, 3 * (k + t), N - 3 * t), message |-> Told(q, k + t)])
          = [buffer |-> Text(q, 3 * (k + t + 1), N - 3 * t - 3), message |-> Told(q, k + t + 1)]
      BY <2>2, <3>1, FrameIsTaken
    <3>4. After(n) = [buffer |-> Text(q, 3 * (k + t + 1), N - 3 * t - 3), message |-> Told(q, k + t + 1)]
      <4>1. k + (t + 1) = k + t + 1 /\ N - 3 * (t + 1) = N - 3 * t - 3
        BY <1>1, <2>1
      <4> QED
        BY <3>1, <4>1
    <3> HIDE DEF After
    <3> QED
      BY <2>3, <3>2, <3>3, <3>4
  <2>6. CASE n > d
    <3>1. t = d /\ Taken(n) = t /\ N - 3 * t \in Nat /\ N - 3 * t <= 2
      BY <1>1, <2>1, <2>2, <2>6
    <3>2. Boundaries(After(n - 1).buffer) = {}
      BY <2>2, <2>4, <3>1, BoundaryOfFrame
    <3>3. After(n) = After(n - 1)
      BY <2>1, <3>1
    <3> HIDE DEF After
    <3> QED
      BY <3>2, <3>3
  <2>7. n <= d \/ n > d
    OBVIOUS
  <2> HIDE DEF After
  <2> QED
    BY <2>5, <2>6, <2>7
<1> HIDE DEF After, Taken
<1>5. PICK f : f = CHOOSE g : g = [n \in 0..Len(start.buffer) |-> Round(g, n)]
  OBVIOUS
<1>6. f = [n \in 0..N |-> Round(f, n)]
  <2>1. PICK h : h = [n \in 0..N |-> After(n)]
    OBVIOUS
  <2>2. h = [n \in 0..N |-> Round(h, n)]
    <3>1. ASSUME NEW n \in 0..N PROVE h[n] = Round(h, n)
      <4>1. CASE n = 0
        BY <1>2, <2>1, <4>1
      <4>2. CASE n \in 1..N
        <5>1. n - 1 \in 0..N /\ n \in 0..N /\ n # 0
          BY <4>2
        <5>2. h[n] = After(n) /\ h[n - 1] = After(n - 1)
          BY <2>1, <5>1
        <5> QED
          BY <1>4, <4>2, <5>1, <5>2
      <4> QED
        BY <4>1, <4>2
    <3>2. h = [n \in 0..N |-> h[n]]
      BY <2>1
    <3> HIDE DEF Round
    <3> QED
      BY <3>1, <3>2
  <2> HIDE DEF Round
  <2>3. \E g : g = [n \in 0..Len(start.buffer) |-> Round(g, n)]
    BY <1>l, <2>2
  <2> QED
    BY <1>5, <1>l, <2>3
<1>7. \A n \in 0..N : f[n] = After(n)
  <2> DEFINE Wrong == {n \in 0..N : f[n] # After(n)}
  <2>1. SUFFICES ASSUME Wrong # {} PROVE FALSE
    OBVIOUS
  <2>2. PICK n \in Wrong : \A m \in Wrong : n <= m
    <3>1. Wrong \subseteq Nat
      OBVIOUS
    <3> HIDE DEF Wrong
    <3> QED
      BY <2>1, <3>1, SetsHaveALeast
  <2>3. n \in 0..N /\ f[n] # After(n) /\ \A m \in 0..N : m < n => f[m] = After(m)
    BY <2>2
  <2>4. f[n] = Round(f, n)
    <3> HIDE DEF Round
    <3> QED
      BY <1>6, <2>3
  <2>5. n # 0
    BY <1>2, <2>3, <2>4
  <2>6. n \in 1..N /\ f[n - 1] = After(n - 1)
    BY <2>3, <2>5
  <2>7. f[n] = After(n)
    BY <1>4, <2>4, <2>5, <2>6
  <2> QED
    BY <2>3, <2>7
<1>8. TakeFrames(start) = f[Len(start.buffer)]
  BY <1>5 DEF TakeFrames
<1>9. f[N] = After(N)
  BY <1>7
<1> QED
  BY <1>3, <1>s, <1>l, <1>8, <1>9 DEF Takes

-----------------------------------------------------------------------------
(* The invariant.                                                           *)

Failed(q, k) == [Told(q, k) EXCEPT !.isStreaming = FALSE, !.isError = TRUE, !.content = <<>>]

(* A message shows so many events, or that there was an error.              *)
Tells(m) == \E q \in Questions : \E k \in 0..Words[q] + 2 : m = Told(q, k) \/ m = Failed(q, k)

(* The bytes of the answer to q: k events told, j symbols of the next in    *)
(* the buffer, what follows on the wire up to the s-th event, and the rest  *)
(* yet to be sent.                                                          *)
Position(q, k, j, s) ==
  /\ s <= Words[q] + 2 /\ 3 * k + j <= 3 * s
  /\ buffer = Text(q, 3 * k, j)
  /\ wire = Text(q, 3 * k + j, 3 * s - (3 * k + j))
  /\ toSend = [i \in 1..Words[q] + 2 - s |-> Event(q, s + i)]
  /\ open = "ended" => s = Words[q] + 2

Streams ==
  /\ Len(messages) > 0
  /\ \E q \in Questions : \E k \in 0..Words[q] + 2 :
       /\ messages[Len(messages)] = Told(q, k)
       /\ open # "broken" => \E j \in 0..2 : \E s \in Nat : Position(q, k, j, s)

ChatInv ==
  /\ messages \in Seq({m \in Message : Tells(m)})
  /\ isStreaming \in BOOLEAN /\ open \in {"none", "open", "ended", "broken"}
  /\ isStreaming <=> open # "none"
  /\ NoStreamLeftOpen
  /\ isStreaming => Streams

LEMMA ToldIsMessage ==
  ASSUME NEW q \in Questions, NEW k \in 0..Words[q] + 2
  PROVE  /\ Told(q, k) \in {m \in Message : Tells(m)}
         /\ Failed(q, k) \in {m \in Message : Tells(m)}
         /\ Failed(q, k).isStreaming = FALSE
<1>1. Words[q] \in Nat
  BY AssistantAssumption
<1>2. WordsTold(q, k) \in Nat
  BY <1>1 DEF WordsTold
<1>3. [n \in 1..WordsTold(q, k) |-> <<q, n>>] \in Seq(Questions \X Nat)
  BY <1>2
<1>4. (k > 0) \in BOOLEAN /\ (k < Words[q] + 2) \in BOOLEAN
  BY <1>1
<1>5. Told(q, k) \in Message
  BY <1>3, <1>4 DEF Told, Message
<1>6. <<>> \in Seq(Questions \X Nat) /\ TRUE \in BOOLEAN /\ FALSE \in BOOLEAN
  OBVIOUS
<1>7. Failed(q, k) \in Message
  BY <1>5, <1>6 DEF Failed, Message
<1>8. Failed(q, k).isStreaming = FALSE
  BY <1>5 DEF Failed, Message
<1> QED
  BY <1>5, <1>7, <1>8 DEF Tells

(* The last message is replaced: by the response, or by the error.          *)
LEMMA LastIsReplaced ==
  ASSUME ChatInv, isStreaming, NEW m, m \in {x \in Message : Tells(x)}, UpdateAssistant(m)
  PROVE  /\ Len(messages') = Len(messages) /\ messages'[Len(messages)] = m
         /\ messages' \in Seq({x \in Message : Tells(x)})
         /\ \A i \in DOMAIN messages' : i # Len(messages) => ~ messages'[i].isStreaming
         /\ Len(messages) \in Nat \ {0}
<1> DEFINE Ms == {x \in Message : Tells(x)}
<1>1. messages \in Seq(Ms) /\ Len(messages) \in Nat /\ Len(messages) > 0
  BY DEF ChatInv, Streams
<1>2. messages' = [messages EXCEPT ![Len(messages)] = m] /\ m \in Ms
  BY DEF UpdateAssistant
<1> HIDE DEF Ms
<1>3. messages' \in Seq(Ms) /\ Len(messages') = Len(messages) /\ messages'[Len(messages)] = m
  BY <1>1, <1>2
<1>4. \A i \in DOMAIN messages' : i \in DOMAIN messages /\ (i # Len(messages) => messages'[i] = messages[i])
  BY <1>1, <1>2
<1>5. \A i \in DOMAIN messages : i # Len(messages) => ~ messages[i].isStreaming
  BY DEF ChatInv, NoStreamLeftOpen
<1> QED
  BY <1>1, <1>3, <1>4, <1>5 DEF Ms

LEMMA SendIsTold ==
  ASSUME ChatInv, NEW q \in Questions, SendMessage(q)
  PROVE  ChatInv'
<1> DEFINE Ms == {x \in Message : Tells(x)}
<1>1. Words[q] \in Nat /\ 0 \in 0..Words[q] + 2
  BY AssistantAssumption
<1>2. Told(q, 0) \in Ms /\ Told(q, 0).isStreaming
  <2>1. (0 < Words[q] + 2) = TRUE
    BY <1>1
  <2> QED
    BY <1>1, <2>1, ToldIsMessage DEF Told
<1>3. messages' = Append(messages, Told(q, 0))
  <2>1. [n \in 1..WordsTold(q, 0) |-> <<q, n>>] = <<>>
    BY DEF WordsTold
  <2>2. (0 > 0) = FALSE /\ (0 < Words[q] + 2) = TRUE
    BY <1>1
  <2>3. Told(q, 0) = [question |-> q, content |-> <<>>, sources |-> FALSE,
                      isStreaming |-> TRUE, isError |-> FALSE]
    BY <2>1, <2>2 DEF Told
  <2> QED
    BY <2>3 DEF SendMessage
<1>4. messages \in Seq(Ms) /\ \A i \in DOMAIN messages : ~ messages[i].isStreaming
  BY DEF ChatInv, NoStreamLeftOpen, SendMessage, MaySend
<1>5. isStreaming' = TRUE /\ open' = "open" /\ wire' = <<>> /\ buffer' = <<>>
  BY DEF SendMessage
<1> HIDE DEF Ms
<1>6. /\ messages' \in Seq(Ms) /\ Len(messages') > 0 /\ messages'[Len(messages')] = Told(q, 0)
      /\ \A i \in DOMAIN messages' : i # Len(messages') => ~ messages'[i].isStreaming
  BY <1>2, <1>3, <1>4
<1>7. Position(q, 0, 0, 0)'
  <2>1. toSend' = [e \in 1..Words[q] + 2 |-> Event(q, e)]
    BY EventsOfAnswer DEF SendMessage
  <2>2. Text(q, 3 * 0, 0) = <<>> /\ Text(q, 3 * 0 + 0, 3 * 0 - (3 * 0 + 0)) = <<>>
    BY DEF Text
  <2>3. toSend' = [i \in 1..Words[q] + 2 - 0 |-> Event(q, 0 + i)]
    <3>1. Words[q] + 2 - 0 = Words[q] + 2 /\ \A i \in 1..Words[q] + 2 : 0 + i = i
      BY <1>1
    <3> QED
      BY <2>1, <3>1
  <2> QED
    BY <1>1, <1>5, <2>2, <2>3 DEF Position
<1>8. Streams'
  BY <1>1, <1>6, <1>7 DEF Streams
<1>9. NoStreamLeftOpen'
  BY <1>5, <1>6 DEF NoStreamLeftOpen
<1> QED
  BY <1>5, <1>6, <1>8, <1>9 DEF ChatInv, Ms

LEMMA YieldIsTold ==
  ASSUME ChatInv, Yield
  PROVE  ChatInv'
<1>1. isStreaming /\ open = "open" /\ UNCHANGED <<messages, isStreaming, buffer, open>>
  BY DEF Yield, ChatInv
<1>q. PICK q \in Questions : \E k \in 0..Words[q] + 2 : \E j \in 0..2 : \E s \in Nat :
        messages[Len(messages)] = Told(q, k) /\ Position(q, k, j, s)
  BY <1>1 DEF ChatInv, Streams
<1>2. PICK k \in 0..Words[q] + 2, j \in 0..2, s \in Nat :
        messages[Len(messages)] = Told(q, k) /\ Position(q, k, j, s)
  BY <1>q
<1>3. PICK w \in Nat : w = Words[q]
  BY AssistantAssumption
<1>b. k \in Nat /\ k <= w + 2 /\ j \in 0..2 /\ 3 * k + j <= 3 * s /\ s <= w + 2
  BY <1>2, <1>3 DEF Position
<1>4. PICK rest : rest = w + 2 - s
  OBVIOUS
<1>5. toSend = [i \in 1..rest |-> Event(q, s + i)] /\ rest \in Nat
  <2>1. toSend = [i \in 1..Words[q] + 2 - s |-> Event(q, s + i)]
    BY <1>2 DEF Position
  <2>2. rest = Words[q] + 2 - s
    BY <1>3, <1>4
  <2>3. rest \in Nat
    BY <1>b, <1>3, <1>4
  <2> QED
    BY <2>1, <2>2, <2>3
<1>6. rest > 0 /\ s + 1 <= w + 2
  <2>1. toSend # <<>>
    BY DEF Yield
  <2> QED
    BY <1>3, <1>4, <1>5, <2>1
<1>7. Head(toSend) = Event(q, s + 1) /\ Tail(toSend) = [i \in 1..w + 2 - (s + 1) |-> Event(q, (s + 1) + i)]
  <2> DEFINE S == {Event(q, i) : i \in Nat}
             after == [i \in 1..rest - 1 |-> Event(q, (s + 1) + i)]
  <2>1. toSend \in Seq(S) /\ Len(toSend) = rest
    <3>1. \A i \in 1..rest : Event(q, s + i) \in S
      BY <1>5
    <3> HIDE DEF S
    <3> QED
      BY <1>5, <3>1
  <2>2. after \in Seq(S) /\ Len(after) = rest - 1
    BY <1>5, <1>6
  <2>3. \A i \in 1..rest - 1 : toSend[i + 1] = after[i]
    <3>1. \A i \in 1..rest - 1 : i + 1 \in 1..rest /\ s + (i + 1) = (s + 1) + i
      BY <1>5
    <3> QED
      BY <1>5, <3>1
  <2>4. Head(toSend) = Event(q, s + 1)
    BY <1>5, <1>6, <2>1
  <2>5. rest - 1 = w + 2 - (s + 1)
    BY <1>3, <1>4
  <2>6. Tail(toSend) = after
    <3>1. toSend # <<>>
      BY <1>6, <2>1
    <3> HIDE DEF S, after
    <3>2. /\ Tail(toSend) \in Seq(S) /\ Len(Tail(toSend)) = rest - 1
          /\ \A i \in 1..rest - 1 : Tail(toSend)[i] = toSend[i + 1]
      BY <2>1, <3>1, HeadTailProperties
    <3> QED
      BY <2>2, <2>3, <3>2, SeqEqual
  <2> QED
    BY <2>4, <2>5, <2>6
<1>8. wire' = Text(q, 3 * k + j, 3 * (s + 1) - (3 * k + j))
  <2>0. 3 * k + j \in Nat /\ 3 * s - (3 * k + j) \in Nat
    BY <1>b
  <2>a. PICK a \in Nat : a = 3 * k + j
    BY <2>0
  <2>n. PICK n \in Nat : n = 3 * s - (3 * k + j)
    BY <2>0
  <2>1. a \in Nat /\ a = 3 * k + j /\ n \in Nat /\ n = 3 * s - (3 * k + j) /\ a + n = 3 * s
    BY <2>a, <2>n, <1>b
  <2>2. Frame(Event(q, s + 1)) = Text(q, a + n, 3)
    <3>1. /\ Symbol(q, 3 * s + 1) = Event(q, s + 1)
          /\ Symbol(q, 3 * s + 2) = LF /\ Symbol(q, 3 * s + 3) = LF
      BY SymbolsOfFrame
    <3> QED
      BY <2>1, <3>1 DEF Frame, Text
  <2>3. wire' = Text(q, a, n) \o Text(q, a + n, 3)
    BY <1>2, <1>7, <2>1, <2>2 DEF Yield, Position
  <2>4. wire' = Text(q, a, n + 3)
    <3>1. 3 \in Nat
      OBVIOUS
    <3>2. Joins(q, a, n, 3)
      BY <2>1, <3>1, TextsJoin
    <3> QED
      BY <2>3, <3>2 DEF Joins
  <2>5. n + 3 = 3 * (s + 1) - (3 * k + j)
    BY <1>b, <2>1
  <2> QED
    BY <2>1, <2>4, <2>5
<1>9. Position(q, k, j, s + 1)'
  <2>1. toSend' = Tail(toSend)
    BY DEF Yield
  <2>2. 3 * k + j <= 3 * (s + 1)
    BY <1>2, <1>3 DEF Position
  <2> QED
    BY <1>1, <1>2, <1>3, <1>6, <1>7, <1>8, <2>1, <2>2 DEF Position
<1>10. Streams'
  <2>1. s + 1 \in Nat
    OBVIOUS
  <2>2. Len(messages') > 0 /\ messages'[Len(messages')] = Told(q, k)
    BY <1>1, <1>2 DEF ChatInv, Streams
  <2> QED
    BY <1>2, <1>9, <2>1, <2>2 DEF Streams
<1> QED
  BY <1>1, <1>10 DEF ChatInv, NoStreamLeftOpen

LEMMA EndIsTold ==
  ASSUME ChatInv, EndResponse
  PROVE  ChatInv'
<1>1. /\ isStreaming /\ open = "open" /\ open' = "ended" /\ toSend = <<>>
      /\ UNCHANGED <<messages, isStreaming, toSend, wire, buffer>>
  BY DEF EndResponse, ChatInv
<1>q. PICK q \in Questions : \E k \in 0..Words[q] + 2 : \E j \in 0..2 : \E s \in Nat :
        messages[Len(messages)] = Told(q, k) /\ Position(q, k, j, s)
  BY <1>1 DEF ChatInv, Streams
<1>2. PICK k \in 0..Words[q] + 2, j \in 0..2, s \in Nat :
        messages[Len(messages)] = Told(q, k) /\ Position(q, k, j, s)
  BY <1>q
<1>3. s = Words[q] + 2
  <2>1. PICK rest : rest = Words[q] + 2 - s
    OBVIOUS
  <2>2. rest \in Nat
    BY <1>2, <2>1, AssistantAssumption DEF Position
  <2>3. [i \in 1..rest |-> Event(q, s + i)] = <<>>
    BY <1>1, <1>2, <2>1 DEF Position
  <2>4. rest = 0
    BY <2>2, <2>3
  <2>5. Words[q] \in Nat
    BY AssistantAssumption
  <2> QED
    BY <2>1, <2>4, <2>5
<1>4. Position(q, k, j, s)'
  BY <1>1, <1>2, <1>3 DEF Position
<1>5. Streams'
  BY <1>1, <1>2, <1>4 DEF Streams, ChatInv
<1> QED
  BY <1>1, <1>5 DEF ChatInv, NoStreamLeftOpen

LEMMA BreakIsTold ==
  ASSUME ChatInv, Break
  PROVE  ChatInv'
<1>1. isStreaming /\ open' = "broken" /\ UNCHANGED <<messages, isStreaming>>
  BY DEF Break, ChatInv
<1>2. Streams'
  BY <1>1 DEF ChatInv, Streams
<1> QED
  BY <1>1, <1>2 DEF ChatInv, NoStreamLeftOpen

LEMMA ReadIsTold ==
  ASSUME ChatInv, Read
  PROVE  ChatInv'
<1>1. isStreaming /\ open # "broken" /\ UNCHANGED <<isStreaming, toSend, open>>
  BY DEF Read
<1>q. PICK q \in Questions : \E k \in 0..Words[q] + 2 : \E j \in 0..2 : \E s \in Nat :
        messages[Len(messages)] = Told(q, k) /\ Position(q, k, j, s)
  BY <1>1 DEF ChatInv, Streams
<1>2. PICK k \in 0..Words[q] + 2, j \in 0..2, s \in Nat :
        messages[Len(messages)] = Told(q, k) /\ Position(q, k, j, s)
  BY <1>q
<1>3. PICK w \in Nat : w = Words[q]
  BY AssistantAssumption
<1>b. k \in Nat /\ k <= w + 2 /\ j \in 0..2 /\ 3 * k + j <= 3 * s /\ s <= w + 2
  BY <1>2, <1>3 DEF Position
<1>4. PICK n \in 1..Len(wire) :
        /\ wire' = SubSeq(wire, n + 1, Len(wire))
        /\ buffer' = Parse(SubSeq(wire, 1, n)).buffer
        /\ UpdateAssistant(Parse(SubSeq(wire, 1, n)).message)
  BY DEF Read
<1>5. PICK a \in Nat, l \in Nat :
        a = 3 * k + j /\ l = 3 * s - (3 * k + j) /\ a + l = 3 * s /\ wire = Text(q, a, l) /\ Len(wire) = l
  <2>0. 3 * s - (3 * k + j) \in Nat
    BY <1>b
  <2>1. PICK l \in Nat : l = 3 * s - (3 * k + j)
    BY <2>0
  <2>2. Len(Text(q, 3 * k + j, l)) = l
    BY DEF Text
  <2>3. 3 * k + j \in Nat /\ 3 * k + j + l = 3 * s
    BY <2>1, <1>b
  <2> QED
    BY <1>2, <2>1, <2>2, <2>3 DEF Position
<1>6. PICK d \in Nat, c \in 0..2 : j + n = 3 * d + c
  <2>1. PICK t \in Nat : t = j + n
    BY <1>5
  <2>2. PICK u : u = t \div 3
    OBVIOUS
  <2>3. u \in Nat /\ t - 3 * u \in 0..2 /\ t = 3 * u + (t - 3 * u)
    BY <2>1, <2>2
  <2> QED
    BY <2>1, <2>3
<1>7. n \in 1..l /\ 3 * (k + d) + c = a + n /\ 3 * (k + d) + c <= 3 * s /\ k + d <= w + 2
  BY <1>b, <1>4, <1>5, <1>6
<1>8. buffer \o SubSeq(wire, 1, n) = Text(q, 3 * k, 3 * d + c)
  <2>1. SubSeq(wire, 1, n) = Text(q, a, n)
    <3>1. a \in Nat /\ l \in Nat /\ n \in 0..l
      BY <1>5, <1>7
    <3>2. Cuts(q, a, l, n)
      BY <3>1, TextIsCut
    <3> QED
      BY <1>5, <3>2 DEF Cuts
  <2>2. PICK b \in Nat : b = 3 * k /\ a = b + j /\ n \in Nat /\ j \in Nat
    BY <1>5, <1>7, <1>b
  <2>3. Joins(q, b, j, n)
    BY <2>2, TextsJoin
  <2> QED
    BY <1>2, <1>6, <2>1, <2>2, <2>3 DEF Position, Joins
<1>9. Parse(SubSeq(wire, 1, n)) = [buffer |-> Text(q, 3 * (k + d), c), message |-> Told(q, k + d)]
  <2>1. k \in Nat /\ d \in Nat /\ c \in 0..2 /\ k + d <= Words[q] + 2
    BY <1>3, <1>6, <1>7, <1>b
  <2>2. Takes(q, k, d, c)
    BY <2>1, FramesAreTaken
  <2> QED
    BY <1>2, <1>8, <2>2 DEF Takes, Parse, Current
<1>10. buffer' = Text(q, 3 * (k + d), c) /\ UpdateAssistant(Told(q, k + d))
  <2>1. PICK p : p = Parse(SubSeq(wire, 1, n))
    OBVIOUS
  <2>2. p.buffer = Text(q, 3 * (k + d), c) /\ p.message = Told(q, k + d)
    BY <1>9, <2>1
  <2> QED
    BY <1>4, <2>1, <2>2
<1>11. wire' = Text(q, 3 * (k + d) + c, 3 * s - (3 * (k + d) + c))
  <2>1. a \in Nat /\ l \in Nat /\ n \in 0..l
    BY <1>5, <1>7
  <2>2. SubSeq(Text(q, a, l), n + 1, l) = Text(q, a + n, l - n)
    <3>1. Cuts(q, a, l, n)
      BY <2>1, TextIsCut
    <3> QED
      BY <3>1 DEF Cuts
  <2>3. l - n = 3 * s - (a + n)
    BY <1>5, <1>7
  <2> QED
    BY <1>4, <1>5, <1>7, <2>2, <2>3
<1>12. Position(q, k + d, c, s)'
  BY <1>1, <1>2, <1>7, <1>10, <1>11 DEF Position
<1>13. k + d \in 0..Words[q] + 2
  BY <1>3, <1>7, <1>b
<1>14. Told(q, k + d) \in {x \in Message : Tells(x)}
  BY <1>13, ToldIsMessage
<1>15. /\ Len(messages') = Len(messages) /\ messages'[Len(messages)] = Told(q, k + d)
       /\ messages' \in Seq({x \in Message : Tells(x)})
       /\ \A i \in DOMAIN messages' : i # Len(messages) => ~ messages'[i].isStreaming
       /\ Len(messages) \in Nat \ {0}
  BY <1>1, <1>10, <1>14, LastIsReplaced
<1>16. Streams'
  BY <1>12, <1>13, <1>15 DEF Streams
<1> QED
  BY <1>1, <1>15, <1>16 DEF ChatInv, NoStreamLeftOpen

LEMMA FinishIsTold ==
  ASSUME ChatInv, Finish
  PROVE  ChatInv'
<1>1. /\ isStreaming /\ open = "ended" /\ wire = <<>> /\ isStreaming' = FALSE /\ open' = "none"
      /\ messages' = messages
  BY DEF Finish
<1>q. PICK q \in Questions : \E k \in 0..Words[q] + 2 : \E j \in 0..2 : \E s \in Nat :
        messages[Len(messages)] = Told(q, k) /\ Position(q, k, j, s)
  BY <1>1 DEF ChatInv, Streams
<1>2. PICK k \in 0..Words[q] + 2, j \in 0..2, s \in Nat :
        messages[Len(messages)] = Told(q, k) /\ Position(q, k, j, s)
  BY <1>q
<1>3. PICK w \in Nat : w = Words[q]
  BY AssistantAssumption
<1>b. k \in Nat /\ k <= w + 2 /\ j \in 0..2 /\ 3 * k + j <= 3 * s /\ s <= w + 2
  BY <1>2, <1>3 DEF Position
<1>4. k = w + 2
  <2>0. 3 * s - (3 * k + j) \in Nat
    BY <1>b
  <2>1. PICK l \in Nat : l = 3 * s - (3 * k + j)
    BY <2>0
  <2>2. Text(q, 3 * k + j, l) = <<>>
    BY <1>1, <1>2, <2>1 DEF Position
  <2>3. l = 0
    BY <2>2 DEF Text
  <2> QED
    <3>1. s = w + 2
      BY <1>1, <1>2, <1>3 DEF Position
    <3> QED
      BY <1>b, <2>1, <2>3, <3>1
<1>5. ~ messages[Len(messages)].isStreaming
  <2>1. (k < Words[q] + 2) = FALSE
    BY <1>3, <1>4
  <2>2. Told(q, k).isStreaming = FALSE
    BY <2>1 DEF Told
  <2> QED
    BY <1>2, <2>2
<1> QED
  BY <1>1, <1>5 DEF ChatInv, NoStreamLeftOpen

LEMMA CatchIsTold ==
  ASSUME ChatInv, Catch
  PROVE  ChatInv'
<1>1. isStreaming /\ isStreaming' = FALSE /\ open' = "none"
  BY DEF Catch
<1>q. PICK q \in Questions : \E k \in 0..Words[q] + 2 : messages[Len(messages)] = Told(q, k)
  BY <1>1 DEF ChatInv, Streams
<1>2. PICK k \in 0..Words[q] + 2 : messages[Len(messages)] = Told(q, k)
  BY <1>q
<1>3. UpdateAssistant(Failed(q, k))
  BY <1>2 DEF Catch, Current, Failed
<1>4. Failed(q, k) \in {x \in Message : Tells(x)} /\ Failed(q, k).isStreaming = FALSE
  BY ToldIsMessage
<1>5. /\ Len(messages') = Len(messages) /\ messages'[Len(messages)] = Failed(q, k)
      /\ messages' \in Seq({x \in Message : Tells(x)})
      /\ \A i \in DOMAIN messages' : i # Len(messages) => ~ messages'[i].isStreaming
  BY <1>1, <1>3, <1>4, LastIsReplaced
<1>6. \A i \in DOMAIN messages' : ~ messages'[i].isStreaming
  BY <1>4, <1>5
<1> QED
  BY <1>1, <1>5, <1>6 DEF ChatInv, NoStreamLeftOpen

LEMMA ChatStarts == ChatInit => ChatInv
<1> SUFFICES ASSUME ChatInit PROVE ChatInv
  OBVIOUS
<1>1. messages = <<>> /\ isStreaming = FALSE /\ open = "none"
  BY DEF ChatInit
<1>2. messages \in Seq({m \in Message : Tells(m)})
  <2>1. \A S : <<>> \in Seq(S)
    OBVIOUS
  <2> QED
    BY <1>1, <2>1
<1>3. NoStreamLeftOpen
  BY <1>1 DEF NoStreamLeftOpen
<1> QED
  BY <1>1, <1>2, <1>3 DEF ChatInv

LEMMA ChatKeeps ==
  ASSUME ChatInv, [ChatNext]_chatVars
  PROVE  ChatInv'
<1>1. CASE ChatNext
  BY <1>1, SendIsTold, YieldIsTold, EndIsTold, BreakIsTold, ReadIsTold, FinishIsTold, CatchIsTold
     DEF ChatNext
<1>2. CASE UNCHANGED chatVars
  BY <1>2 DEF chatVars, ChatInv, Streams, Position, NoStreamLeftOpen
<1> QED
  BY <1>1, <1>2

LEMMA ChatInvHolds == ChatSpec => []ChatInv
<1>1. ChatInit => ChatInv
  BY ChatStarts
<1>2. ChatInv /\ [ChatNext]_chatVars => ChatInv'
  BY ChatKeeps
<1> QED
  BY <1>1, <1>2, PTL DEF ChatSpec

(* Messages have the types of ChatMessage, and the form is disabled just as *)
(* long as there is a response to read.                                     *)
THEOREM AssistantTypeCorrect == ChatSpec => []ChatTypeOK
<1>1. ChatInv => ChatTypeOK
  <2> SUFFICES ASSUME ChatInv PROVE ChatTypeOK
    OBVIOUS
  <2>1. \A i \in DOMAIN messages : messages[i] \in Message
    BY DEF ChatInv
  <2> QED
    BY <2>1 DEF ChatInv, ChatTypeOK
<1> QED
  BY <1>1, ChatInvHolds, PTL

(* However the bytes are cut into chunks, and wherever the stream breaks,   *)
(* an answer shows its own words in order and each once, and all of them    *)
(* with its sources when it is over without an error (streamAiQuery).       *)
THEOREM AssistantShowsTheAnswer == ChatSpec => []ShowsTheAnswer
<1>1. ASSUME ChatInv, NEW i \in DOMAIN messages, NEW m, m = messages[i]
      PROVE  /\ IsPrefix(m.content, Tokens(m.question))
             /\ ~ m.isStreaming /\ ~ m.isError =>
                  m.content = Tokens(m.question) /\ m.sources
  <2>1. Tells(m)
    BY <1>1 DEF ChatInv
  <2>2. PICK q \in Questions : \E k \in 0..Words[q] + 2 : m = Told(q, k) \/ m = Failed(q, k)
    BY <2>1 DEF Tells
  <2>3. PICK k \in 0..Words[q] + 2 : m = Told(q, k) \/ m = Failed(q, k)
    BY <2>2
  <2>4. PICK w \in Nat \ {0} : w = Words[q]
    BY AssistantAssumption
  <2>5. PICK n \in 0..w : n = WordsTold(q, k) /\ (k = w + 2 => n = w)
    BY <2>3, <2>4 DEF WordsTold
  <2>6. CASE m = Told(q, k)
    <3>1. m.question = q /\ m.content = [x \in 1..n |-> <<q, x>>]
      BY <2>5, <2>6 DEF Told
    <3>2. Tokens(q) = [x \in 1..w |-> <<q, x>>]
      BY <2>4 DEF Tokens
    <3>3. IsPrefix(m.content, Tokens(m.question))
      BY <3>1, <3>2 DEF IsPrefix
    <3>4. ASSUME ~ m.isStreaming PROVE m.content = Tokens(m.question) /\ m.sources
      <4>1. ~ (k < Words[q] + 2)
        BY <2>6, <3>4 DEF Told
      <4>2. k = w + 2 /\ n = w /\ (k > 0) = TRUE
        BY <2>3, <2>4, <2>5, <4>1
      <4>3. m.sources
        BY <2>6, <4>2 DEF Told
      <4> QED
        BY <3>1, <3>2, <4>2, <4>3
    <3> QED
      BY <3>3, <3>4
  <2>7. CASE m = Failed(q, k)
    <3>1. m.question = q /\ m.content = <<>> /\ m.isError = TRUE
      BY <2>7 DEF Failed, Told
    <3>2. IsPrefix(<<>>, Tokens(q))
      BY <2>4 DEF IsPrefix, Tokens
    <3> QED
      BY <3>1, <3>2
  <2> QED
    BY <2>3, <2>6, <2>7
<1>2. ChatInv => ShowsTheAnswer
  BY <1>1 DEF ShowsTheAnswer
<1> QED
  BY <1>2, ChatInvHolds, PTL

(* No message is left with a spinner when its stream is over, and only the  *)
(* last one has it (the finally block of sendMessage).                      *)
THEOREM AssistantLeavesNoStreamOpen == ChatSpec => []NoStreamLeftOpen
<1>1. ChatInv => NoStreamLeftOpen
  BY DEF ChatInv
<1> QED
  BY <1>1, ChatInvHolds, PTL
=============================================================================
