------------------------------ MODULE Sessions ------------------------------
(***************************************************************************)
(* The sessions of one user in Redis (src/src/features/auth/service.rs and *)
(* middleware.rs): a key session:<token> per live session, with a TTL, and *)
(* the set sids:<user> by which reset_pin finds them.  login_user writes   *)
(* the key, then the set; logout_user and reset_pin delete from both, in   *)
(* the same order.  All five commands are fire-and-forget (let _ = ...).   *)
(***************************************************************************)
EXTENDS FiniteSets

CONSTANTS
    Tokens,         \* session tokens, drawn at random, never drawn twice
    NoToken         \* a reset by a Bearer client may carry no cookie

ASSUME TokenAssumption == NoToken \notin Tokens

VARIABLES
    sessions,       \* tokens t with a key session:t
    sids,           \* the set sids:<user>
    login,          \* login[t]: how far the login that drew t has come
    logout,         \* logout[t]: how far a logout with cookie t has come
    reset,          \* the reset in flight: its step, its cookie, the sids left to drop
    before,         \* tokens whose login had finished when the reset began
    older,          \* tokens whose session key was written before the reset began
    lost            \* tokens some command for which was lost

vars == <<sessions, sids, login, logout, reset, before, older, lost>>

Tok == Tokens \cup {NoToken}

TypeOK ==
    /\ sessions \subseteq Tokens
    /\ sids \subseteq Tokens
    /\ login \in [Tokens -> {"unused", "accepted", "keyed", "done"}]
    /\ logout \in [Tokens -> {"none", "called", "deleted"}]
    /\ reset \in [step : {"none", "updated", "dropping", "done"}, cookie : Tok,
                  left : SUBSET Tokens, deleted : SUBSET Tokens]
    /\ before \subseteq Tokens
    /\ older \subseteq Tokens
    /\ lost \subseteq Tokens

NoReset == [step |-> "none", cookie |-> NoToken, left |-> {}, deleted |-> {}]

Init ==
    /\ sessions = {}
    /\ sids = {}
    /\ login = [t \in Tokens |-> "unused"]
    /\ logout = [t \in Tokens |-> "none"]
    /\ reset = NoReset
    /\ before = {}
    /\ older = {}
    /\ lost = {}

resetVars == <<reset, before, older>>

(* login_user: password accepted, lockout counter cleared, token drawn.    *)
AcceptPassword(t) ==
    /\ login[t] = "unused"
    /\ login' = [login EXCEPT ![t] = "accepted"]
    /\ UNCHANGED <<sessions, sids, logout, resetVars, lost>>

SetSession(t) ==
    /\ login[t] = "accepted"
    /\ \/ sessions' = sessions \cup {t} /\ lost' = lost
       \/ sessions' = sessions /\ lost' = lost \cup {t}
    /\ login' = [login EXCEPT ![t] = "keyed"]
    /\ UNCHANGED <<sids, logout, resetVars>>

AddSid(t) ==
    /\ login[t] = "keyed"
    /\ \/ sids' = sids \cup {t} /\ lost' = lost
       \/ sids' = sids /\ lost' = lost \cup {t}
    /\ login' = [login EXCEPT ![t] = "done"]
    /\ UNCHANGED <<sessions, logout, resetVars>>

Logout_SkipsDel(t) ==                           \* mutant: only the set is updated
    /\ login[t] = "done"
    /\ t \in sessions
    /\ logout[t] = "none"
    /\ logout' = [logout EXCEPT ![t] = "deleted"]
    /\ UNCHANGED <<sessions, sids, login, resetVars, lost>>

(* A request is authenticated by the key alone (AuthenticatedUser), and    *)
(* logout acts on the token of the cookie.                                 *)
Logout(t) ==
    /\ login[t] = "done"
    /\ t \in sessions
    /\ logout[t] = "none"
    /\ logout' = [logout EXCEPT ![t] = "called"]
    /\ UNCHANGED <<sessions, sids, login, resetVars, lost>>

DelSession(t) ==
    /\ logout[t] = "called"
    /\ \/ sessions' = sessions \ {t} /\ lost' = lost
       \/ sessions' = sessions /\ lost' = lost \cup {t}
    /\ logout' = [logout EXCEPT ![t] = "deleted"]
    /\ UNCHANGED <<sids, login, resetVars>>

RemoveSid(t) ==
    /\ logout[t] = "deleted"
    /\ \/ sids' = sids \ {t} /\ lost' = lost
       \/ sids' = sids /\ lost' = lost \cup {t}
    /\ logout' = [logout EXCEPT ![t] = "none"]
    /\ UNCHANGED <<sessions, login, resetVars>>

(* reset_pin: the caller is authenticated by a live session, named by its  *)
(* Bearer token or by its cookie; password verified, PIN updated in the    *)
(* database.  Only a cookie called sid counts as the current session: with *)
(* a Bearer token it may be absent or that of another session.  One reset  *)
(* runs at a time here.                                                    *)
ResetPin(caller, cookie) ==
    /\ reset.step = "none"
    /\ caller \in sessions
    /\ login[caller] = "done"
    /\ reset' = [NoReset EXCEPT !.step = "updated", !.cookie = cookie]
    /\ before' = {t \in Tokens : login[t] = "done"}
    /\ older' = {t \in Tokens : login[t] \in {"keyed", "done"}}
    /\ UNCHANGED <<sessions, sids, login, logout, lost>>

(* SMEMBERS; an error reads as the empty set.                              *)
ListSids ==
    /\ reset.step = "updated"
    /\ \/ /\ reset' = [reset EXCEPT !.step = "dropping", !.left = sids \ {reset.cookie}]
          /\ lost' = lost
       \/ /\ reset' = [reset EXCEPT !.step = "dropping"]
          /\ lost' = lost \cup sids
    /\ UNCHANGED <<sessions, sids, login, logout, before, older>>

DropSession(t) ==
    /\ reset.step = "dropping"
    /\ t \in reset.left
    /\ reset.deleted = {}
    /\ \/ sessions' = sessions \ {t} /\ lost' = lost
       \/ sessions' = sessions /\ lost' = lost \cup {t}
    /\ reset' = [reset EXCEPT !.deleted = {t}]
    /\ UNCHANGED <<sids, login, logout, before, older>>

DropSid(t) ==
    /\ reset.step = "dropping"
    /\ t \in reset.deleted
    /\ \/ sids' = sids \ {t} /\ lost' = lost
       \/ sids' = sids /\ lost' = lost \cup {t}
    /\ reset' = [reset EXCEPT !.deleted = {}, !.left = @ \ {t}]
    /\ UNCHANGED <<sessions, login, logout, before, older>>

FinishReset_Early ==                            \* mutant: loop left early
    /\ reset.step = "dropping"
    /\ reset' = [reset EXCEPT !.step = "done"]
    /\ UNCHANGED <<sessions, sids, login, logout, before, older, lost>>

FinishReset ==
    /\ reset.step = "dropping"
    /\ reset.left = {}
    /\ reset' = [reset EXCEPT !.step = "done"]
    /\ UNCHANGED <<sessions, sids, login, logout, before, older, lost>>

(* The answer is sent, and another reset may be asked for.                 *)
AnswerReset ==
    /\ reset.step = "done"
    /\ reset' = NoReset
    /\ before' = {}
    /\ older' = {}
    /\ UNCHANGED <<sessions, sids, login, logout, lost>>

(* The TTL removes the key of a session; the set has no TTL.               *)
ExpireSession(t) ==
    /\ t \in sessions
    /\ sessions' = sessions \ {t}
    /\ UNCHANGED <<sids, login, logout, resetVars, lost>>

(* The server stops, or the client hangs up, between two commands.         *)
DropLogin(t) ==
    /\ login[t] \in {"accepted", "keyed"}
    /\ login' = [login EXCEPT ![t] = "done"]
    /\ lost' = lost \cup {t}
    /\ UNCHANGED <<sessions, sids, logout, resetVars>>

DropLogout(t) ==
    /\ logout[t] # "none"
    /\ logout' = [logout EXCEPT ![t] = "none"]
    /\ UNCHANGED <<sessions, sids, login, resetVars, lost>>

DropReset ==
    /\ reset.step \in {"updated", "dropping"}
    /\ reset' = NoReset
    /\ before' = {}
    /\ older' = {}
    /\ UNCHANGED <<sessions, sids, login, logout, lost>>

Next ==
    \/ \E t \in Tokens : AcceptPassword(t) \/ SetSession(t) \/ AddSid(t) \/ DropLogin(t)
    \/ \E t \in Tokens : Logout(t) \/ DelSession(t) \/ RemoveSid(t) \/ DropLogout(t)
    \/ \E t \in Tokens, c \in Tok : ResetPin(t, c)
    \/ ListSids \/ FinishReset \/ AnswerReset \/ DropReset
    \/ \E t \in Tokens : DropSession(t) \/ DropSid(t) \/ ExpireSession(t)

Spec == Init /\ [][Next]_vars
-----------------------------------------------------------------------------
(* reset_pin can find every live session: it is in the set, or its login   *)
(* has not finished, or a command about it was lost.                       *)
LiveSessionsAreListed ==
    \A t \in sessions : t \in sids \/ login[t] = "keyed" \/ t \in lost

(* When a reset answers, every session whose login had finished when it    *)
(* began is gone, except its own and those about which a command was lost. *)
ResetDropsFinishedLogins ==
    reset.step = "done" => sessions \cap before \subseteq {reset.cookie} \cup lost

(* "Redis secondary session invalidation" (README.md, T52): a session      *)
(* opened before a reset does not outlive it, its own excepted, when Redis *)
(* loses nothing.  A login between its two writes escapes SMEMBERS.        *)
SecondarySessionsInvalidated ==
    reset.step = "done" => sessions \cap older \subseteq {reset.cookie} \cup lost
=============================================================================
