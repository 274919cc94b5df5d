--------------------------- MODULE SessionsProofs ---------------------------
(***************************************************************************)
(* What a reset can find and what it drops, for any number of tokens.      *)
(*                                                                         *)
(* A token leaves the set sids only after its session key was deleted, and *)
(* no login writes that key again: a token is in the set, or being logged  *)
(* out, only once its login is done.                                       *)
(***************************************************************************)
EXTENDS Sessions, TLAPS

(* Whoever is listed, being logged out or being dropped has finished its   *)
(* login, and is dropped from the set only when its key is gone.           *)
Finished == {t \in Tokens : login[t] = "done"}

Gone(t) == t \notin sessions \/ t \in lost

ProgressInv ==
    /\ sids \subseteq Finished
    /\ reset.left \subseteq Finished
    /\ reset.deleted \subseteq reset.left
    /\ reset.step # "dropping" => reset.left = {}
    /\ before \subseteq Finished
    /\ \A t \in sessions : login[t] \notin {"unused", "accepted"}
    /\ \A t \in Tokens : logout[t] # "none" => login[t] = "done"
    /\ \A t \in Tokens : logout[t] = "deleted" => Gone(t)
    /\ \A t \in reset.deleted : Gone(t)

(* While a reset drops sessions, those it still has to drop are in left.   *)
DroppingInv ==
    reset.step = "dropping" =>
        sessions \cap before \subseteq reset.left \cup {reset.cookie} \cup lost

SessionsInv ==
    TypeOK /\ ProgressInv /\ LiveSessionsAreListed /\ DroppingInv /\ ResetDropsFinishedLogins

(* At first there is neither session nor list.                             *)
LEMMA SessionsInit == Init => SessionsInv
BY DEF Init, SessionsInv, TypeOK, ProgressInv, LiveSessionsAreListed, DroppingInv,
       ResetDropsFinishedLogins, NoReset, Tok, Finished, Gone

(* The steps of a login, which alone write a session key.                  *)
LEMMA LoginSteps ==
    ASSUME SessionsInv, NEW t \in Tokens,
           AcceptPassword(t) \/ SetSession(t) \/ AddSid(t) \/ DropLogin(t)
    PROVE  SessionsInv'
<1> USE DEF SessionsInv, Tok, resetVars
<1>1. CASE AcceptPassword(t)
  BY <1>1 DEF AcceptPassword, TypeOK, ProgressInv, LiveSessionsAreListed, DroppingInv,
              ResetDropsFinishedLogins, Finished, Gone
<1>2. CASE SetSession(t)
  <2>1. TypeOK'
    BY <1>2 DEF SetSession, TypeOK
  <2>2. t \notin Finished /\ Finished' = Finished
    BY <1>2 DEF SetSession, TypeOK, Finished
  <2>3. ProgressInv'
    BY <1>2, <2>2 DEF SetSession, TypeOK, ProgressInv, Finished, Gone
  <2>4. LiveSessionsAreListed'
    BY <1>2 DEF SetSession, TypeOK, LiveSessionsAreListed
  <2>5. DroppingInv' /\ ResetDropsFinishedLogins'
    BY <1>2, <2>2 DEF SetSession, ProgressInv, DroppingInv, ResetDropsFinishedLogins
  <2>6. QED
    BY <2>1, <2>3, <2>4, <2>5
<1>3. CASE AddSid(t)
  <2>1. TypeOK'
    BY <1>3 DEF AddSid, TypeOK
  <2>2. ProgressInv'
    BY <1>3 DEF AddSid, TypeOK, ProgressInv, Finished, Gone
  <2>3. LiveSessionsAreListed'
    BY <1>3 DEF AddSid, TypeOK, LiveSessionsAreListed
  <2>4. DroppingInv' /\ ResetDropsFinishedLogins'
    BY <1>3 DEF AddSid, DroppingInv, ResetDropsFinishedLogins
  <2>5. QED
    BY <2>1, <2>2, <2>3, <2>4
<1>4. CASE DropLogin(t)
  <2>1. TypeOK'
    BY <1>4 DEF DropLogin, TypeOK
  <2>2. ProgressInv'
    BY <1>4 DEF DropLogin, TypeOK, ProgressInv, Finished, Gone
  <2>3. LiveSessionsAreListed' /\ DroppingInv' /\ ResetDropsFinishedLogins'
    BY <1>4 DEF DropLogin, TypeOK, LiveSessionsAreListed, DroppingInv, ResetDropsFinishedLogins
  <2>4. QED
    BY <2>1, <2>2, <2>3
<1>5. QED
  BY <1>1, <1>2, <1>3, <1>4

(* The steps of a logout, and the TTL.                                     *)
LEMMA LogoutSteps ==
    ASSUME SessionsInv, NEW t \in Tokens,
           Logout(t) \/ DelSession(t) \/ RemoveSid(t) \/ DropLogout(t) \/ ExpireSession(t)
    PROVE  SessionsInv'
<1> USE DEF SessionsInv, Tok, resetVars
<1>1. TypeOK'
  BY DEF Logout, DelSession, RemoveSid, DropLogout, ExpireSession, TypeOK
<1>2. ProgressInv'
  <2>1. CASE Logout(t)
    BY <2>1 DEF Logout, TypeOK, ProgressInv, Finished, Gone
  <2>2. CASE DelSession(t)
    BY <2>2 DEF DelSession, TypeOK, ProgressInv, Finished, Gone
  <2>3. CASE RemoveSid(t)
    BY <2>3 DEF RemoveSid, TypeOK, ProgressInv, Finished, Gone
  <2>4. CASE DropLogout(t)
    BY <2>4 DEF DropLogout, TypeOK, ProgressInv, Finished, Gone
  <2>5. CASE ExpireSession(t)
    BY <2>5 DEF ExpireSession, TypeOK, ProgressInv, Finished, Gone
  <2>6. QED
    BY <2>1, <2>2, <2>3, <2>4, <2>5
<1>3. LiveSessionsAreListed'
  BY DEF Logout, DelSession, RemoveSid, DropLogout, ExpireSession, TypeOK, ProgressInv, Gone,
         LiveSessionsAreListed
<1>4. DroppingInv' /\ ResetDropsFinishedLogins'
  BY DEF Logout, DelSession, RemoveSid, DropLogout, ExpireSession, DroppingInv,
         ResetDropsFinishedLogins
<1>5. QED
  BY <1>1, <1>2, <1>3, <1>4

(* The steps of a reset: it lists every finished login that has a session, *)
(* and takes a token off its list only when the key is gone.               *)
LEMMA ResetSteps ==
    ASSUME SessionsInv,
           \/ \E t \in Tokens, c \in Tok : ResetPin(t, c)
           \/ ListSids \/ FinishReset \/ AnswerReset \/ DropReset
           \/ \E t \in Tokens : DropSession(t) \/ DropSid(t)
    PROVE  SessionsInv'
<1> USE DEF SessionsInv, Tok
<1>1. ASSUME NEW t \in Tokens, NEW c \in Tok, ResetPin(t, c)
      PROVE  SessionsInv'
  <2>1. TypeOK'
    BY <1>1 DEF ResetPin, NoReset, TypeOK
  <2>2. ProgressInv'
    BY <1>1 DEF ResetPin, NoReset, TypeOK, ProgressInv, Finished, Gone
  <2>3. LiveSessionsAreListed'
    BY <1>1 DEF ResetPin, LiveSessionsAreListed
  <2>4. DroppingInv' /\ ResetDropsFinishedLogins'
    BY <1>1 DEF ResetPin, NoReset, TypeOK, DroppingInv, ResetDropsFinishedLogins
  <2>5. QED
    BY <2>1, <2>2, <2>3, <2>4
<1>2. CASE ListSids
  <2> DEFINE listed == reset'.left
  <2>1. /\ lost \subseteq lost' /\ lost' \subseteq Tokens
        /\ UNCHANGED <<sessions, sids, login, logout, before, older>>
    BY <1>2 DEF ListSids, TypeOK
  <2>2. reset.left = {} /\ reset.deleted = {}
    BY <1>2 DEF ListSids, ProgressInv
  <2>3. /\ reset' = [reset EXCEPT !.step = "dropping", !.left = listed]
        /\ listed \subseteq sids
        /\ sids \subseteq listed \cup {reset.cookie} \cup lost'
    <3>1. CASE /\ reset' = [reset EXCEPT !.step = "dropping", !.left = sids \ {reset.cookie}]
               /\ lost' = lost
      <4>1. listed = sids \ {reset.cookie}
        BY <3>1 DEF TypeOK
      <4>2. QED
        BY <3>1, <4>1
    <3>2. CASE reset' = [reset EXCEPT !.step = "dropping"] /\ lost' = lost \cup sids
      <4>1. listed = {}
        BY <2>2, <3>2 DEF TypeOK
      <4>2. reset' = [reset EXCEPT !.step = "dropping", !.left = reset.left]
        BY <3>2 DEF TypeOK
      <4>3. QED
        BY <2>2, <3>2, <4>1, <4>2
    <3>3. QED
      BY <1>2, <3>1, <3>2 DEF ListSids
  <2> HIDE DEF listed
  <2>4. /\ reset' = [step |-> "dropping", cookie |-> reset.cookie, left |-> listed,
                     deleted |-> {}]
        /\ reset.cookie \in Tok
    BY <2>2, <2>3 DEF TypeOK
  <2>5. TypeOK'
    BY <2>1, <2>3, <2>4 DEF TypeOK
  <2>6. ProgressInv'
    <3>1. reset'.left = listed /\ reset'.deleted = {} /\ reset'.step = "dropping"
      BY <2>4
    <3>2. \A t : Gone(t) => Gone(t)'
      BY <2>1 DEF Gone
    <3>3. listed \subseteq Finished'
      BY <2>1, <2>3 DEF ProgressInv, Finished
    <3>4. QED
      BY <2>1, <3>1, <3>2, <3>3 DEF ProgressInv, Finished
  <2>7. LiveSessionsAreListed' /\ ResetDropsFinishedLogins'
    BY <2>1, <2>4 DEF LiveSessionsAreListed, ResetDropsFinishedLogins
  <2>8. sessions \cap before \subseteq sids \cup lost
    BY DEF ProgressInv, LiveSessionsAreListed, Finished
  <2>9. DroppingInv'
    BY <2>1, <2>3, <2>4, <2>8 DEF DroppingInv
  <2>10. QED
    BY <2>5, <2>6, <2>7, <2>9
<1>3. CASE FinishReset
  <2>1. TypeOK' /\ LiveSessionsAreListed'
    BY <1>3 DEF FinishReset, TypeOK, LiveSessionsAreListed
  <2>2. ProgressInv'
    BY <1>3 DEF FinishReset, TypeOK, ProgressInv, Finished, Gone
  <2>3. DroppingInv' /\ ResetDropsFinishedLogins'
    BY <1>3 DEF FinishReset, TypeOK, DroppingInv, ResetDropsFinishedLogins
  <2>4. QED
    BY <2>1, <2>2, <2>3
<1>4. CASE AnswerReset \/ DropReset
  <2>1. TypeOK'
    BY <1>4 DEF AnswerReset, DropReset, NoReset, TypeOK
  <2>2. ProgressInv'
    BY <1>4 DEF AnswerReset, DropReset, NoReset, TypeOK, ProgressInv, Finished, Gone
  <2>3. LiveSessionsAreListed'
    BY <1>4 DEF AnswerReset, DropReset, LiveSessionsAreListed
  <2>4. DroppingInv' /\ ResetDropsFinishedLogins'
    BY <1>4 DEF AnswerReset, DropReset, NoReset, TypeOK, DroppingInv, ResetDropsFinishedLogins
  <2>5. QED
    BY <2>1, <2>2, <2>3, <2>4
<1>5. ASSUME NEW t \in Tokens, DropSession(t)
      PROVE  SessionsInv'
  <2>1. TypeOK'
    BY <1>5 DEF DropSession, TypeOK
  <2>2. ProgressInv'
    BY <1>5 DEF DropSession, TypeOK, ProgressInv, Finished, Gone
  <2>3. LiveSessionsAreListed'
    BY <1>5 DEF DropSession, TypeOK, LiveSessionsAreListed
  <2>4. DroppingInv' /\ ResetDropsFinishedLogins'
    BY <1>5 DEF DropSession, TypeOK, DroppingInv, ResetDropsFinishedLogins
  <2>5. QED
    BY <2>1, <2>2, <2>3, <2>4
<1>6. ASSUME NEW t \in Tokens, DropSid(t)
      PROVE  SessionsInv'
  <2>1. TypeOK'
    BY <1>6 DEF DropSid, TypeOK
  <2>2. Gone(t)
    BY <1>6 DEF DropSid, ProgressInv
  <2>3. ProgressInv'
    BY <1>6 DEF DropSid, TypeOK, ProgressInv, Finished, Gone
  <2>4. LiveSessionsAreListed'
    BY <1>6, <2>2 DEF DropSid, TypeOK, LiveSessionsAreListed, Gone
  <2>5. DroppingInv' /\ ResetDropsFinishedLogins'
    BY <1>6, <2>2 DEF DropSid, TypeOK, DroppingInv, ResetDropsFinishedLogins, Gone
  <2>6. QED
    BY <2>1, <2>3, <2>4, <2>5
<1>7. QED
  BY <1>1, <1>2, <1>3, <1>4, <1>5, <1>6

(* The invariant holds in every state.                                     *)
LEMMA SessionsInvariance == Spec => []SessionsInv
<1>1. SessionsInv /\ [Next]_vars => SessionsInv'
  <2>1. CASE UNCHANGED vars
    BY <2>1 DEF vars, SessionsInv, TypeOK, ProgressInv, LiveSessionsAreListed, DroppingInv,
                ResetDropsFinishedLogins, Finished, Gone
  <2>2. CASE Next
    BY <2>2, LoginSteps, LogoutSteps, ResetSteps DEF Next
  <2>3. QED
    BY <2>1, <2>2
<1>2. QED
  BY <1>1, SessionsInit, PTL DEF Spec

(* reset_pin can find every session that is not being logged in, except    *)
(* where a command was lost: whatever logins, logouts and resets interleave. *)
THEOREM SessionsListed == Spec => []LiveSessionsAreListed
<1>1. SessionsInv => LiveSessionsAreListed
  BY DEF SessionsInv
<1>2. QED
  BY <1>1, SessionsInvariance, PTL

(* A reset that answers has dropped every session whose login had finished *)
(* when it began, except its own and those about which a command was lost. *)
THEOREM ResetDrops == Spec => []ResetDropsFinishedLogins
<1>1. SessionsInv => ResetDropsFinishedLogins
  BY DEF SessionsInv
<1>2. QED
  BY <1>1, SessionsInvariance, PTL
=============================================================================
