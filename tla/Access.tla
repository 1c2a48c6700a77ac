------------------------------- MODULE Access -------------------------------
(***************************************************************************)
(* Web sessions and API keys of one user (src/agent/dependencies.py,       *)
(* api_keys_api.py, login and logout in main.py): the sliding expiry of a  *)
(* session, keys that are created, used and revoked, and the MCP sessions  *)
(* that are closed with the last web session.                              *)
(*                                                                         *)
(* A request reads its session or key, then commits the new expiry or the  *)
(* time of use, then does its work; other requests run in between.  The    *)
(* password check and its throttle are in LoginThrottle.                   *)
(***************************************************************************)
EXTENDS Naturals, FiniteSets

CONSTANTS AccessRequests, Tokens, KeyIds,
          TTL,          \* SESSION_TTL_DAYS
          KeyLimit,     \* API_KEY_MAX_PER_USER
          MaxClock       \* bound: the clock

ASSUME AccessAssumption ==
  /\ Tokens \cap KeyIds = {}
  /\ TTL \in Nat /\ MaxClock \in Nat

VARIABLES webSessions,   \* token -> expires_at, or Never: no row
          keys,       \* the rows of the user's keys
          mcpOpen,    \* the user has MCP sessions
          requests,   \* request -> [op, by, target, at, late]
          gone,       \* tokens and keys whose logout or revocation was answered
          clock

accessVars == <<webSessions, keys, mcpOpen, requests, gone, clock>>

Never == 0
None == "none"
Rows == {t \in Tokens : webSessions[t] # Never}
SessionLive(t) == webSessions[t] # Never /\ webSessions[t] >= clock

Sets(r, at) == requests' = [requests EXCEPT ![r].at = at]
AccessGoes(r, at) == Sets(r, at) /\ UNCHANGED <<webSessions, keys, mcpOpen, gone, clock>>

AccessInit ==
  /\ clock = 1
  /\ webSessions = [t \in Tokens |-> Never] /\ keys = {} /\ gone = {}
  /\ mcpOpen = FALSE
  /\ requests = [r \in AccessRequests |-> [op |-> None, by |-> None, target |-> None, at |-> "idle", late |-> FALSE]]

Ticks == clock < MaxClock /\ clock' = clock + 1 /\ UNCHANGED <<webSessions, keys, mcpOpen, requests, gone>>

\* login, with a right password: a fresh token each time.
Logs(t) ==
  /\ t \notin Rows /\ t \notin gone
  /\ webSessions' = [webSessions EXCEPT ![t] = clock + TTL]
  /\ UNCHANGED <<keys, mcpOpen, requests, gone, clock>>

Comes(r, op, by, target) ==
  /\ requests[r].at = "idle"
  /\ requests' = [requests EXCEPT ![r] =
       [op |-> op, by |-> by, target |-> target, at |-> "reads", late |-> by \in gone]]
  /\ UNCHANGED <<webSessions, keys, mcpOpen, gone, clock>>

AccessArrives(r) ==
  \/ \E t \in Tokens : (t \in Rows \cup gone) /\ (\E op \in {"use", "logout", "create"} : Comes(r, op, t, None))
  \/ \E t \in Tokens, k \in KeyIds : (t \in Rows \cup gone) /\ Comes(r, "revoke", t, k)
  \/ \E k \in KeyIds : (k \in keys \cup gone) /\ Comes(r, "use", k, None)

-----------------------------------------------------------------------------
(* get_current_user *)

ReadsSession(r) ==
  /\ requests[r].at = "reads" /\ requests[r].by \in Tokens
  /\ AccessGoes(r, IF SessionLive(requests[r].by) THEN "extends" ELSE "refused")

(* Mutant: the session read is stored again as a whole, row or no row. *)
StoresSession(r) ==
  /\ requests[r].at = "extends"
  /\ webSessions' = [webSessions EXCEPT ![requests[r].by] = clock + TTL]
  /\ Sets(r, "authed") /\ UNCHANGED <<keys, mcpOpen, gone, clock>>

\* The new expiry is an UPDATE: a row that is gone meanwhile is an error, not a new row.
ExtendsSession(r) ==
  /\ requests[r].at = "extends"
  /\ LET t == requests[r].by
     IN  IF webSessions[t] = Never THEN AccessGoes(r, "error")
         ELSE /\ webSessions' = [webSessions EXCEPT ![t] = clock + TTL]
              /\ Sets(r, "authed") /\ UNCHANGED <<keys, mcpOpen, gone, clock>>

\* _user_from_api_key: on every call, never from a cache; the use is noted once a minute.
ReadsKey(r) ==
  /\ requests[r].at = "reads" /\ requests[r].by \in KeyIds
  /\ IF requests[r].by \in keys THEN \E at \in {"notes", "authed"} : AccessGoes(r, at) ELSE AccessGoes(r, "refused")
NotesUse(r) ==
  /\ requests[r].at = "notes"
  /\ AccessGoes(r, IF requests[r].by \in keys THEN "authed" ELSE "error")

-----------------------------------------------------------------------------
(* What the request does *)

\* Any route; it may open MCP sessions of the user.
Uses(r) ==
  /\ requests[r].at = "authed" /\ requests[r].op = "use"
  /\ mcpOpen' \in {mcpOpen, TRUE}
  /\ Sets(r, "ok") /\ UNCHANGED <<webSessions, keys, gone, clock>>

\* create_api_key counts, then inserts a key nobody had.
CountsKeys(r) ==
  /\ requests[r].at = "authed" /\ requests[r].op = "create"
  /\ AccessGoes(r, IF Cardinality(keys) >= KeyLimit THEN "refused" ELSE "inserts")
InsertsKey(r) ==
  /\ requests[r].at = "inserts"
  /\ \E k \in KeyIds \ (keys \cup gone) : keys' = keys \cup {k}
  /\ Sets(r, "ok") /\ UNCHANGED <<webSessions, mcpOpen, gone, clock>>

\* revoke_api_key
FindsKey(r) ==
  /\ requests[r].at = "authed" /\ requests[r].op = "revoke"
  /\ AccessGoes(r, IF requests[r].target \in keys THEN "deletes" ELSE "refused")
Revokes(r) ==
  /\ requests[r].at = "deletes"
  /\ keys' = keys \ {requests[r].target} /\ gone' = gone \cup {requests[r].target}
  /\ Sets(r, "ok") /\ UNCHANGED <<webSessions, mcpOpen, clock>>

\* logout: the row first, then the MCP sessions when no live web session is left.
LogsOut(r) ==
  /\ requests[r].at = "authed" /\ requests[r].op = "logout"
  /\ webSessions' = [webSessions EXCEPT ![requests[r].by] = Never]
  /\ gone' = gone \cup {requests[r].by}
  /\ Sets(r, "looks") /\ UNCHANGED <<keys, mcpOpen, clock>>
LooksForSessions(r) ==
  /\ requests[r].at = "looks"
  /\ AccessGoes(r, IF \E t \in Tokens : SessionLive(t) THEN "ok" ELSE "cleans")
CleansUp(r) ==
  /\ requests[r].at = "cleans"
  /\ mcpOpen' = FALSE
  /\ Sets(r, "ok") /\ UNCHANGED <<webSessions, keys, gone, clock>>

Handles(r) ==
  ReadsSession(r) \/ ExtendsSession(r) \/ ReadsKey(r) \/ NotesUse(r) \/ Uses(r) \/ CountsKeys(r)
    \/ InsertsKey(r) \/ FindsKey(r) \/ Revokes(r) \/ LogsOut(r) \/ LooksForSessions(r) \/ CleansUp(r)

AccessNext ==
  \/ Ticks
  \/ \E t \in Tokens : Logs(t)
  \/ \E r \in AccessRequests : AccessArrives(r) \/ Handles(r)
AccessSpec == AccessInit /\ [][AccessNext]_accessVars

-----------------------------------------------------------------------------
(* Properties *)

\* A session that was logged out never has a row again, whatever request of it was under way.
NoResurrection == gone \cap (Rows \cup keys) = {}

\* A request that comes after the logout or the revocation was answered is never let in.
DeadAtOnce == \A r \in AccessRequests : requests[r].late => requests[r].at \in {"reads", "refused"}

AccessSound == NoResurrection /\ DeadAtOnce
=============================================================================
