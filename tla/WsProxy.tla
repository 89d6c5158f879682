------------------------------ MODULE WsProxy ------------------------------
(***************************************************************************)
(* The WebSocket proxy of one user (websocket_proxy/server.py): clients    *)
(* come and go, subscribe and unsubscribe, and share the user's pool of    *)
(* broker connections.  A handler runs on one event loop and awaits        *)
(* nothing before its reply, so a handler is one step; the loops over all  *)
(* subscriptions of a client take a step for each, with nothing between.   *)
(***************************************************************************)
EXTENDS ConnectionPool

CONSTANTS
    Client,          \* connections to the proxy
    ModePerSymbol,   \* does an unsubscription name the mode beside each symbol?
    MaxRelogins      \* bound: logins at the broker that invalidate the caches

ASSUME ProxyAssumption ==
    /\ ModePerSymbol \in BOOLEAN
    /\ ModePerSymbol \/ 2 \in Modes
    /\ MaxRelogins \in Nat

VARIABLES
    status,      \* of a client: off, connected, or in user_mapping
    subs,        \* subscriptions: the keys of a client
    index,       \* subscription_index: the clients of a key
    hasAdapter,  \* is the user in broker_adapters?
    clearing,    \* the loop over all subscriptions a handler is in
    relogins

proxy == <<status, subs, index, hasAdapter, clearing, relogins>>
vars == <<pool, proxy>>

Keys == Sym \X Modes

Idle == \A c \in Client : clearing[c] = "no"

-----------------------------------------------------------------------------
Connect(c) ==
    /\ Idle
    /\ status[c] = "off"
    /\ status' = [status EXCEPT ![c] = "connected"]
    /\ UNCHANGED <<pool, subs, index, hasAdapter, clearing, relogins>>

\* The first client of the user opens the pool; a client that fails to is mapped
\* to the user all the same, and so is one that joins the others.
Authenticate(c) ==
    /\ Idle
    /\ status[c] # "off"
    /\ hasAdapter => status[c] = "connected"
    /\ status' = [status EXCEPT ![c] = "mapped"]
    /\ \/ /\ hasAdapter
          /\ Refuse
          /\ UNCHANGED hasAdapter
       \/ /\ ~hasAdapter
          /\ \E ok \in BOOLEAN : PoolOpen(ok) /\ hasAdapter' = ok
    /\ UNCHANGED <<subs, index, clearing, relogins>>

\* Without an adapter the request is refused.
Subscribe(c, s, m) ==
    /\ Idle
    /\ status[c] = "mapped"
    /\ hasAdapter
    /\ \E ok \in BOOLEAN :
           /\ PoolSubscribe(s, m, ok)
           /\ subs' = IF ok THEN [subs EXCEPT ![c] = @ \cup {<<s, m>>}] ELSE subs
           /\ index' = IF ok THEN [index EXCEPT ![<<s, m>>] = @ \cup {c}] ELSE index
    /\ UNCHANGED <<status, hasAdapter, clearing, relogins>>

\* Mutant of Drop: the pool gives up a key another client still has.
DropShared(c, k) ==
    /\ subs' = [subs EXCEPT ![c] = @ \ {k}]
    /\ index' = [index EXCEPT ![k] = @ \ {c}]
    /\ IF c \in index[k] /\ hasAdapter
       THEN \E ok \in BOOLEAN : PoolUnsubscribe(k[1], k[2], ok)
       ELSE Refuse

\* A client gives up a key.  The pool is told when nobody else has it; the entries
\* are gone whatever the pool answers.
Drop(c, k) ==
    /\ subs' = [subs EXCEPT ![c] = @ \ {k}]
    /\ index' = [index EXCEPT ![k] = @ \ {c}]
    /\ IF index[k] = {c} /\ hasAdapter
       THEN \E ok \in BOOLEAN : PoolUnsubscribe(k[1], k[2], ok)
       ELSE Refuse

\* The mode beside a symbol, or Quote; the mode of the message is not read.
ModeTaken(m) == IF ModePerSymbol THEN m ELSE 2

Unsubscribe(c, s, m) ==
    /\ Idle
    /\ status[c] = "mapped"
    /\ hasAdapter
    /\ Drop(c, <<s, ModeTaken(m)>>)
    /\ UNCHANGED <<status, hasAdapter, clearing, relogins>>

\* unsubscribe_all, which reads each mode from the client's own subscriptions.
UnsubscribeAll(c) ==
    /\ Idle
    /\ status[c] = "mapped"
    /\ hasAdapter
    /\ clearing' = [clearing EXCEPT ![c] = "all"]
    /\ UNCHANGED <<pool, status, subs, index, hasAdapter, relogins>>

\* The connection is lost or closed: cleanup_client begins.
Disconnect(c) ==
    /\ Idle
    /\ status[c] # "off"
    /\ clearing' = [clearing EXCEPT ![c] = "leave"]
    /\ UNCHANGED <<pool, status, subs, index, hasAdapter, relogins>>

ClearOne(c) ==
    /\ clearing[c] # "no"
    /\ \E k \in subs[c] : Drop(c, k)
    /\ UNCHANGED <<status, hasAdapter, clearing, relogins>>

LastOfUser(c) == status[c] = "mapped" /\ \A d \in Client \ {c} : status[d] # "mapped"

\* The last client of the user takes the pool with it.
EndClear(c) ==
    /\ clearing[c] # "no"
    /\ subs[c] = {}
    /\ clearing' = [clearing EXCEPT ![c] = "no"]
    /\ \/ /\ clearing[c] = "all"
          /\ Refuse
          /\ UNCHANGED <<status, hasAdapter>>
       \/ /\ clearing[c] = "leave"
          /\ status' = [status EXCEPT ![c] = "off"]
          /\ IF LastOfUser(c) /\ hasAdapter
             THEN PoolDisconnect /\ hasAdapter' = FALSE
             ELSE Refuse /\ UNCHANGED hasAdapter
    /\ UNCHANGED <<subs, index, relogins>>

\* Mutant of Relogin: the adapter is closed and stays in the table.
ReloginKeepingAdapter ==
    /\ Idle
    /\ relogins < MaxRelogins
    /\ relogins' = relogins + 1
    /\ hasAdapter
    /\ PoolDisconnect
    /\ UNCHANGED <<status, subs, index, hasAdapter, clearing>>

\* A login at the broker invalidates the caches (_handle_cache_invalidation): the
\* user's adapter goes, the clients and their subscriptions stay.
Relogin ==
    /\ Idle
    /\ relogins < MaxRelogins
    /\ relogins' = relogins + 1
    /\ hasAdapter
    /\ PoolDisconnect
    /\ hasAdapter' = FALSE
    /\ UNCHANGED <<status, subs, index, clearing>>

Init ==
    /\ PoolInit
    /\ status = [c \in Client |-> "off"]
    /\ subs = [c \in Client |-> {}]
    /\ index = [k \in Keys |-> {}]
    /\ hasAdapter = FALSE
    /\ clearing = [c \in Client |-> "no"]
    /\ relogins = 0

Next ==
    \/ \E c \in Client :
           Connect(c) \/ Authenticate(c) \/ Disconnect(c)
           \/ UnsubscribeAll(c) \/ ClearOne(c) \/ EndClear(c)
    \/ \E c \in Client, s \in Sym, m \in Modes : Subscribe(c, s, m) \/ Unsubscribe(c, s, m)
    \/ Relogin
    \/ AdapterStep /\ UNCHANGED proxy

Spec == Init /\ [][Next]_vars
-----------------------------------------------------------------------------
TypeOK ==
    /\ PoolTypeOK
    /\ status \in [Client -> {"off", "connected", "mapped"}]
    /\ subs \in [Client -> SUBSET Keys]
    /\ index \in [Keys -> SUBSET Client]
    /\ hasAdapter \in BOOLEAN
    /\ clearing \in [Client -> {"no", "all", "leave"}]
    /\ relogins \in 0..MaxRelogins

\* A symbol that somebody is told he is subscribed to is on its way to the broker
\* or fed, unless a connection that was lost threw the request away; and it is fed
\* in the highest mode that is asked for once its requests were sent, unless they
\* came faster than they were sent.  (A login at the broker ends every feed, and
\* nobody asks for it again.)
EveryoneServed ==
    relogins = 0 =>
        \A k \in Keys : index[k] # {} =>
            LET s    == k[1]
                conn == conns[PlaceOf(s)]
            IN  /\ PlaceOf(s) \in DOMAIN conns
                /\ faults = 0 \/ s \notin conn.hasty => conn.unsent[s] # {} \/ conn.fed[s] # 0
                /\ s \notin conn.hasty /\ conn.unsent[s] = {} => conn.fed[s] >= k[2]

\* When no call failed, the pool holds a slot only for what some client wants; and
\* a connection that is not a symbol's has nothing of it, and one that is no mode
\* above the highest that is wanted, in whatever order clients subscribe, share,
\* leave and come back, unless they do so faster than requests are sent.
NothingLeaks ==
    /\ faults = 0 /\ relogins = 0 =>
           \A s \in Sym : ModesOf(s) = {m \in Modes : index[<<s, m>>] # {}}
    /\ \A i \in DOMAIN conns : \A s \in Sym \ conns[i].hasty :
           \A m \in conns[i].unsent[s] \cup ({conns[i].fed[s]} \ {0}) :
               PlaceOf(s) = i /\ m <= Max(ModesOf(s))

\* Without an adapter nobody is connected to the broker; with one, a client of the
\* broker was started, also after a login that closed the pool.  Its socket need
\* not have opened.
AdapterIsOpen == hasAdapter <=> \E i \in DOMAIN conns : conns[i].link # "off"
=============================================================================
