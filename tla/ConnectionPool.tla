--------------------------- MODULE ConnectionPool ---------------------------
(***************************************************************************)
(* The pool of broker connections of one user                              *)
(* (websocket_proxy/connection_manager.py ConnectionPool) over the Zerodha *)
(* adapter, which answers as soon as a request is queued and sends it      *)
(* later (broker/zerodha/streaming/zerodha_adapter.py,                     *)
(* zerodha_websocket.py).  The pool's lock is held throughout a call, so a *)
(* call is one step; the adapter's threads take theirs in between.         *)
(***************************************************************************)
EXTENDS Integers, Sequences, FiniteSets, FiniteSetsExt

CONSTANTS
    Sym,             \* symbols, each with its exchange
    Modes,           \* 1 LTP, 2 Quote, 3 Depth
    MaxSymbols,      \* MAX_SYMBOLS_PER_WEBSOCKET
    MaxConnections,  \* MAX_WEBSOCKET_CONNECTIONS
    MaxFaults        \* bound: adapter calls and connections that fail of themselves

ASSUME PoolAssumption ==
    /\ Modes \subseteq 1..3
    /\ IsFiniteSet(Sym)
    /\ MaxSymbols \in Nat \ {0}
    /\ MaxConnections \in Nat \ {0}
    /\ MaxFaults \in Nat

VARIABLES
    conns,    \* adapters
    counts,   \* adapter_symbol_counts
    tracked,  \* subscription_map: the connection of a symbol and mode, 0 for none
    faults    \* adapter calls and connections that have failed of themselves

pool == <<conns, counts, tracked, faults>>

-----------------------------------------------------------------------------
(* A broker adapter.                                                         *)

\* link: was the client started, has its socket opened, is it lost; held:
\* subscribed_symbols; unsent: the modes queued for a symbol, in the batch or
\* behind it; fed: the mode it was last sent in, 0 for none, which a connection
\* that reopens sends again.  History: the symbols asked for, or given up, before
\* the last request for them was sent, those whose request was thrown away, and
\* those given up while the socket was lost.
Conn == [link : {"off", "starting", "open", "lost"}, held : SUBSET Sym,
         unsent : [Sym -> SUBSET Modes], fed : [Sym -> Modes \cup {0}], hasty : SUBSET Sym]

Fresh(link) == [link |-> link, held |-> {}, unsent |-> [s \in Sym |-> {}],
                fed |-> [s \in Sym |-> 0], hasty |-> {}]

\* What a call may answer, what it leaves behind, and the faults it takes.
Outcome(ok, conn, n) == [ok |-> ok, conn |-> conn, faults |-> n]

Queued(conn, s, m) ==
    [conn EXCEPT !.held = @ \cup {s},
                 !.unsent[s] = @ \cup {m},
                 !.hasty = IF conn.unsent[s] = {} THEN @ ELSE @ \cup {s}]

\* A client that was not started refuses, and so does one whose socket does not
\* open in time; one that has lost its socket queues.
SubscribeOutcomes(conn, s, m) ==
    IF conn.link \in {"open", "lost"}
    THEN {Outcome(TRUE, Queued(conn, s, m), 0), Outcome(FALSE, conn, 1)}
    ELSE {Outcome(FALSE, conn, 0)}

\* The end is sent at once, or not at all without a socket; what is queued stays.
Released(conn, s) ==
    [conn EXCEPT !.held = @ \ {s},
                 !.fed[s] = IF conn.link = "open" THEN 0 ELSE @,
                 !.hasty = IF conn.link = "open" /\ conn.unsent[s] = {} THEN @ ELSE @ \cup {s}]

UnsubscribeOutcome(conn, s) ==
    IF s \in conn.held THEN Outcome(TRUE, Released(conn, s), 0) ELSE Outcome(FALSE, conn, 0)

-----------------------------------------------------------------------------
(* The pool's bookkeeping.                                                   *)

\* _get_existing_modes
ModesOf(s) == {m \in Modes : tracked[s][m] # 0}

\* The symbols a connection has been given.
On(i) == {s \in Sym : \E m \in Modes : tracked[s][m] = i}

Spend(n) == faults + n <= MaxFaults /\ faults' = faults + n

Refuse == UNCHANGED pool

\* subscribe: already tracked, or covered by a higher mode.
SubscribeCovered(s, m, ok) ==
    /\ ok
    /\ \E n \in ModesOf(s) : m <= n
    /\ tracked' = [tracked EXCEPT ![s][m] = tracked[s][Max(ModesOf(s))]]
    /\ UNCHANGED <<conns, counts, faults>>

\* subscribe: a higher mode than the symbol has, on the symbol's connection.
SubscribeUpgrade(s, m, ok) ==
    /\ ModesOf(s) # {}
    /\ \A n \in ModesOf(s) : n < m
    /\ LET i == tracked[s][Max(ModesOf(s))]
       IN  \E r \in SubscribeOutcomes(conns[i], s, m) :
               /\ r.ok = ok
               /\ conns' = [conns EXCEPT ![i] = r.conn]
               /\ tracked' = IF ok THEN [tracked EXCEPT ![s][m] = i] ELSE tracked
               /\ Spend(r.faults)
    /\ UNCHANGED counts

\* Mutant of Rooms: one symbol too many.
RoomsAndOne == {i \in DOMAIN counts : counts[i] <= MaxSymbols}

\* The connections with a free slot.
Rooms == {i \in DOMAIN counts : counts[i] < MaxSymbols}

\* subscribe of a new symbol on connection i of cs: the symbol is counted when
\* the adapter accepts it.
SubscribeOn(cs, ns, i, s, m, ok, spent) ==
    \E r \in SubscribeOutcomes(cs[i], s, m) :
        /\ r.ok = ok
        /\ conns' = [cs EXCEPT ![i] = r.conn]
        /\ tracked' = IF ok THEN [tracked EXCEPT ![s][m] = i] ELSE tracked
        /\ counts' = IF ok THEN [ns EXCEPT ![i] = @ + 1] ELSE ns
        /\ Spend(r.faults + spent)

\* On the first connection with a free slot; without one another connection is
\* made, and nobody looks whether it started or opened.
SubscribeNew(s, m, ok) ==
    /\ ModesOf(s) = {}
    /\ \/ \E i \in Rooms :
              /\ \A j \in Rooms : i <= j
              /\ SubscribeOn(conns, counts, i, s, m, ok, 0)
       \/ /\ Rooms = {}
          /\ Len(conns) < MaxConnections
          /\ \E link \in {"off", "starting", "open"} :
                 SubscribeOn(Append(conns, Fresh(link)), Append(counts, 0), Len(conns) + 1,
                             s, m, ok, IF link = "open" THEN 0 ELSE 1)
       \/ /\ Rooms = {}
          /\ Len(conns) >= MaxConnections
          /\ ~ok /\ Refuse

PoolSubscribe(s, m, ok) ==
    SubscribeCovered(s, m, ok) \/ SubscribeUpgrade(s, m, ok) \/ SubscribeNew(s, m, ok)

Forget(s, m) == [tracked EXCEPT ![s][m] = 0]

\* Mutant of UnsubscribeLast: the slot is not given back.
UnsubscribeLastUncounted(s, m, ok) ==
    /\ ModesOf(s) = {m}
    /\ LET i == tracked[s][m]
           r == UnsubscribeOutcome(conns[i], s)
       IN  /\ r.ok = ok
           /\ conns' = [conns EXCEPT ![i] = r.conn]
           /\ tracked' = IF ok THEN Forget(s, m) ELSE tracked
    /\ UNCHANGED <<counts, faults>>

\* unsubscribe: the symbol's only mode.  An adapter that refuses keeps it tracked.
UnsubscribeLast(s, m, ok) ==
    /\ ModesOf(s) = {m}
    /\ LET i == tracked[s][m]
           r == UnsubscribeOutcome(conns[i], s)
       IN  /\ r.ok = ok
           /\ conns' = [conns EXCEPT ![i] = r.conn]
           /\ tracked' = IF ok THEN Forget(s, m) ELSE tracked
           /\ counts' = IF ok THEN [counts EXCEPT ![i] = @ - 1] ELSE counts
    /\ UNCHANGED faults

\* The highest of several modes of a symbol.
Highest(s, m) == m \in ModesOf(s) /\ ModesOf(s) # {m} /\ \A n \in ModesOf(s) : n <= m

\* Mutant of UnsubscribeHighest: the connection is not told.
UnsubscribeHighestQuietly(s, m, ok) ==
    /\ ok
    /\ Highest(s, m)
    /\ tracked' = Forget(s, m)
    /\ UNCHANGED <<conns, counts, faults>>

\* unsubscribe: the highest of several modes.  The connection is switched down;
\* when it refuses, the mode stays tracked and is asked for again.
UnsubscribeHighest(s, m, ok) ==
    /\ Highest(s, m)
    /\ LET i == tracked[s][m]
           off == UnsubscribeOutcome(conns[i], s).conn
       IN  \E d \in SubscribeOutcomes(off, s, Max(ModesOf(s) \ {m})) :
               /\ ok = d.ok
               /\ \/ /\ d.ok
                     /\ conns' = [conns EXCEPT ![i] = d.conn]
                     /\ tracked' = Forget(s, m)
                     /\ Spend(d.faults)
                  \/ /\ ~d.ok
                     /\ \E b \in SubscribeOutcomes(d.conn, s, m) :
                            /\ conns' = [conns EXCEPT ![i] = b.conn]
                            /\ Spend(d.faults + b.faults)
                     /\ UNCHANGED tracked
    /\ UNCHANGED counts

\* Mutant of UnsubscribeLower: a slot is given back that is still taken.
UnsubscribeLowerCounted(s, m, ok) ==
    /\ ok
    /\ m \in ModesOf(s)
    /\ \E n \in ModesOf(s) : m < n
    /\ tracked' = Forget(s, m)
    /\ counts' = [counts EXCEPT ![tracked[s][m]] = @ - 1]
    /\ UNCHANGED <<conns, faults>>

\* unsubscribe: a mode below another one, which goes on.
UnsubscribeLower(s, m, ok) ==
    /\ ok
    /\ m \in ModesOf(s)
    /\ \E n \in ModesOf(s) : m < n
    /\ tracked' = Forget(s, m)
    /\ UNCHANGED <<conns, counts, faults>>

PoolUnsubscribe(s, m, ok) ==
    \/ m \notin ModesOf(s) /\ ~ok /\ Refuse
    \/ UnsubscribeLast(s, m, ok)
    \/ UnsubscribeHighest(s, m, ok)
    \/ UnsubscribeLower(s, m, ok)

Untracked == [s \in Sym |-> [m \in Modes |-> 0]]

\* initialize and connect: the first connection, of a pool without one that was
\* started.  A socket that has not opened in time is a success.
PoolOpen(ok) ==
    /\ tracked = Untracked
    /\ tracked' = Untracked
    /\ \/ /\ ok
          /\ \E link \in {"starting", "open"} :
                 conns' = <<Fresh(link)>> /\ Spend(IF link = "open" THEN 0 ELSE 1)
          /\ counts' = << 0 >>
       \/ /\ ~ok
          /\ \/ conns' = <<>> /\ counts' = <<>>
             \/ conns' = <<Fresh("off")>> /\ counts' = << 0 >>
          /\ Spend(1)

PoolDisconnect ==
    /\ conns' = <<>> /\ counts' = <<>>
    /\ tracked' = Untracked
    /\ UNCHANGED faults

-----------------------------------------------------------------------------
(* The adapter's own threads.                                                *)

\* The socket opens, and what was sent is sent again; or it is lost.
Link(i) ==
    \/ /\ conns[i].link \in {"starting", "lost"}
       /\ conns' = [conns EXCEPT ![i].link = "open"]
       /\ UNCHANGED faults
    \/ /\ conns[i].link = "open"
       /\ conns' = [conns EXCEPT ![i].link = "lost"]
       /\ Spend(1)

\* A request that was sent, and what then waits; and one that was thrown away.
Sent(conn, s, m, rest) == [conn EXCEPT !.fed[s] = m, !.unsent[s] = rest]

Discarded(conn, s, m) ==
    [conn EXCEPT !.unsent[s] = @ \ {m}, !.hasty = @ \cup {s}]

\* _process_batch_subscriptions, _process_pending_subscriptions: requests go out
\* by mode, and those that fail go behind the others, so the last of a symbol's
\* need not be the last sent.  One that was queued twice is still there.
Send(i) ==
    /\ conns[i].link = "open"
    /\ \E s \in Sym : \E m \in conns[i].unsent[s] :
           \E rest \in {conns[i].unsent[s] \ {m}}
                       \cup {conns[i].unsent[r] : r \in conns[i].hasty \cap {s}} :
               conns' = [conns EXCEPT ![i] = Sent(conns[i], s, m, rest)]
    /\ UNCHANGED faults

\* Without a socket the client throws the requests away after some tries.
GiveUp(i) ==
    /\ conns[i].link = "lost"
    /\ \E s \in Sym : \E m \in conns[i].unsent[s] :
           conns' = [conns EXCEPT ![i] = Discarded(conns[i], s, m)]
    /\ UNCHANGED faults

AdapterStep ==
    /\ \E i \in DOMAIN conns : Link(i) \/ Send(i) \/ GiveUp(i)
    /\ UNCHANGED <<counts, tracked>>

-----------------------------------------------------------------------------
PoolInit == conns = <<>> /\ counts = <<>> /\ tracked = Untracked /\ faults = 0

PoolNext ==
    \/ \E s \in Sym, m \in Modes, ok \in BOOLEAN : PoolSubscribe(s, m, ok)
    \/ \E s \in Sym, m \in Modes, ok \in BOOLEAN : PoolUnsubscribe(s, m, ok)
    \/ \E ok \in BOOLEAN : PoolOpen(ok)
    \/ PoolDisconnect
    \/ AdapterStep

PoolSpec == PoolInit /\ [][PoolNext]_pool
-----------------------------------------------------------------------------
PoolTypeOK ==
    /\ conns \in Seq(Conn)
    /\ counts \in Seq(Nat)
    /\ tracked \in [Sym -> [Modes -> 0..MaxConnections]]
    /\ faults \in 0..MaxFaults

\* Whatever fails, the counts the capacity is decided by are the symbols each
\* connection holds: no slot is lost or given twice, and all modes of a symbol
\* are on one connection (subscribe, unsubscribe and their rollbacks).
CountsMatch ==
    /\ Len(counts) = Len(conns) /\ Len(conns) <= MaxConnections
    /\ \A i \in DOMAIN counts : counts[i] = Cardinality(On(i)) /\ counts[i] <= MaxSymbols
    /\ \A s \in Sym : \A m, n \in ModesOf(s) : tracked[s][m] = tracked[s][n]
    /\ \A s \in Sym : \A m \in ModesOf(s) : tracked[s][m] \in DOMAIN conns

\* The connection of a symbol, the same in every mode it is tracked in.
PlaceOf(s) == IF ModesOf(s) = {} THEN 0 ELSE tracked[s][Max(ModesOf(s))]

Plan == INSTANCE Placement WITH place <- [s \in Sym |-> PlaceOf(s)]

\* The pool places symbols as Placement says: within the limits, and a symbol is
\* never moved by an upgrade, a downgrade or a rollback.
PlacementSpec == Plan!Spec
=============================================================================
