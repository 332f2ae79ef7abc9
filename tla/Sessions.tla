------------------------------ MODULE Sessions ------------------------------
(***************************************************************************)
(* The WebSocket sessions of ONE account and what revokes them: a ban      *)
(* (rest/moderation.py), the account's deletion (rest/auth.py) and a       *)
(* recovery's re-key (rest/recovery.py).  A socket authenticates at the    *)
(* handshake only (realtime/ws.py), so a revoking request first COMMITs    *)
(* and then walks the sockets the hub knows (realtime/hub.py).  Every      *)
(* await is a place where the other coroutines run.                        *)
(***************************************************************************)
EXTENDS Naturals, FiniteSets

CONSTANTS
    Conns,       \* WebSocket connections the account's devices make
    Revokers,    \* requests that revoke sessions
    MaxGen       \* bound on re-keys

VARIABLES
    standing,    \* users row: "active", "banned" or "gone"
    gen,         \* users.token_generation
    sock,        \* ws_endpoint: "new", "resolved", "open", "closed" or "over"
    authGen,     \* generation a connection authenticated with
    conns,       \* Hub._conns
    late,        \* connections that registered after their session was revoked (history)
    pc,          \* revoker: "new", "committed", "closing" or "done"
    targets      \* local of Hub.disconnect_user

users == <<standing, gen>>
hub == <<conns, late>>
vars == <<users, sock, authGen, hub, pc, targets>>

\* auth_session.resolve_session_user would still accept this connection.
Valid(c) == standing = "active" /\ authGen[c] = gen

Set(c, state) == sock' = [sock EXCEPT ![c] = state]

-----------------------------------------------------------------------------
\* The handshake: a token of any generation so far is resolved ...
Resolve(c) ==
    /\ sock[c] = "new"
    /\ \E g \in 0..gen :
          /\ authGen' = [authGen EXCEPT ![c] = g]
          /\ Set(c, IF standing = "active" /\ g = gen THEN "resolved" ELSE "over")
    /\ UNCHANGED <<users, hub, pc, targets>>

\* ... and accept() awaited; nothing is asked again before hub.register.
Accept(c) ==
    /\ sock[c] = "resolved"
    /\ Set(c, "open")
    /\ conns' = conns \cup {c}
    /\ late' = IF Valid(c) THEN late ELSE late \cup {c}
    /\ UNCHANGED <<users, authGen, pc, targets>>

\* accept() raises, the peer is gone.
AcceptFails(c) ==
    /\ sock[c] = "resolved"
    /\ Set(c, "over")
    /\ UNCHANGED <<users, authGen, hub, pc, targets>>

\* The receive loop, which never looks at the account again, meets a socket closed by
\* its peer or by the hub; finally unregisters.
Leave(c) ==
    /\ sock[c] \in {"open", "closed"}
    /\ Set(c, "over")
    /\ conns' = conns \ {c}
    /\ UNCHANGED <<users, authGen, late, pc, targets>>

-----------------------------------------------------------------------------
Goto(e, step) == pc' = [pc EXCEPT ![e] = step]

\* moderation_service.ban_user commits.
Ban(e) ==
    /\ pc[e] = "new" /\ standing # "gone"
    /\ standing' = "banned"
    /\ Goto(e, "committed")
    /\ UNCHANGED <<gen, sock, authGen, hub, targets>>

Unban ==
    /\ standing = "banned" /\ standing' = "active"
    /\ UNCHANGED <<gen, sock, authGen, hub, pc, targets>>

\* delete_user_account commits.
DeleteAccount(e) ==
    /\ pc[e] = "new" /\ standing = "active"
    /\ standing' = "gone"
    /\ Goto(e, "committed")
    /\ UNCHANGED <<gen, sock, authGen, hub, targets>>

\* finalize_recovery commits (a ban does not stop it).
Rekey(e) ==
    /\ pc[e] = "new" /\ standing # "gone" /\ gen < MaxGen
    /\ gen' = gen + 1
    /\ Goto(e, "committed")
    /\ UNCHANGED <<standing, sock, authGen, hub, targets>>

\* Hub.disconnect_user: the list is taken once, ...
Snapshot(e) ==
    /\ pc[e] = "committed"
    /\ targets' = [targets EXCEPT ![e] = conns]
    /\ Goto(e, "closing")
    /\ UNCHANGED <<users, sock, authGen, hub>>

\* Mutant: a close that raises ends the walk of that socket.
DropUnlessDead(e) ==
    \E c \in targets[e] :
       /\ targets' = [targets EXCEPT ![e] = @ \ {c}]
       /\ \/ Set(c, "closed") /\ conns' = conns \ {c}
          \/ UNCHANGED <<sock, conns>>

\* ... and every socket in it closed and unregistered, whether or not close() raises
\* on a peer that is already gone.
Drop(e) ==
    \E c \in targets[e] :
       /\ targets' = [targets EXCEPT ![e] = @ \ {c}]
       /\ conns' = conns \ {c}
       /\ Set(c, IF sock[c] = "over" THEN "over" ELSE "closed")

Disconnect(e) ==
    /\ pc[e] = "closing" /\ Drop(e)
    /\ UNCHANGED <<users, authGen, late, pc>>

Respond(e) ==
    /\ pc[e] = "closing" /\ targets[e] = {}
    /\ Goto(e, "done")
    /\ UNCHANGED <<users, sock, authGen, hub, targets>>

-----------------------------------------------------------------------------
Init ==
    /\ standing = "active" /\ gen = 0
    /\ sock = [c \in Conns |-> "new"]
    /\ authGen = [c \in Conns |-> 0]
    /\ conns = {} /\ late = {}
    /\ pc = [e \in Revokers |-> "new"]
    /\ targets = [e \in Revokers |-> {}]

ConnStep(c) ==
    \/ Resolve(c) \/ Accept(c) \/ AcceptFails(c) \/ Leave(c)

RevokerStep(e) == Snapshot(e) \/ Disconnect(e) \/ Respond(e)

Next ==
    \/ \E c \in Conns : ConnStep(c)
    \/ \E e \in Revokers : Ban(e) \/ DeleteAccount(e) \/ Rekey(e) \/ RevokerStep(e)
    \/ Unban

Spec == Init /\ [][Next]_vars

-----------------------------------------------------------------------------
(* Properties *)

TypeOK ==
    /\ standing \in {"active", "banned", "gone"} /\ gen \in Nat
    /\ sock \in [Conns -> {"new", "resolved", "open", "closed", "over"}]
    /\ authGen \in [Conns -> Nat]
    /\ conns \subseteq Conns /\ late \subseteq Conns
    /\ pc \in [Revokers -> {"new", "committed", "closing", "done"}]
    /\ targets \in [Revokers -> SUBSET Conns]

\* A request is still going to take c off the hub.
WillDrop(c) ==
    \E e \in Revokers : pc[e] = "committed" \/ (pc[e] = "closing" /\ c \in targets[e])

\* disconnect_user: "the connection is unregistered regardless, so a stale entry can't
\* survive the ban": of the sockets that were registered when the ban, the deletion or
\* the re-key committed, none is on the hub once the request has answered.
RegisteredIsDropped ==
    \A c \in conns : Valid(c) \/ c \in late \/ WillDrop(c)

\* The same for every socket, the ones whose handshake was under way included.
NoneSurvives ==
    \A c \in conns : Valid(c) \/ WillDrop(c)
=============================================================================
