--------------------------- MODULE WsProxyProofs ---------------------------
(***************************************************************************)
(* Theorems of ConnectionPool for every set of symbols, capacity, number   *)
(* of connections and number of faults: the counts are exact, and the pool *)
(* places symbols as Placement says.  Then those of WsProxy for any number *)
(* of clients: the pool under them only takes steps of ConnectionPool, so  *)
(* what is proved of the pool holds of the proxy; the two records of the   *)
(* subscriptions agree; nothing waits or is fed that is not wanted, and    *)
(* what is wanted waits or is fed.                                         *)
(***************************************************************************)
EXTENDS WsProxy, FiniteSetTheorems, TLAPS

Inv == PoolTypeOK /\ CountsMatch

\* The highest of some modes is one of them and bounds the others.
LEMMA HighestMode ==
    ASSUME NEW S, S \subseteq 1..3, S # {}
    PROVE  Max(S) \in S /\ \A n \in S : n <= Max(S)
<1>1. \E x \in S : \A y \in S : x >= y
    <2>1. CASE 3 \in S BY <2>1
    <2>2. CASE 3 \notin S /\ 2 \in S BY <2>2
    <2>3. CASE 3 \notin S /\ 2 \notin S
        <3>1. \A x \in S : x = 1 BY <2>3
        <3>2. 1 \in S BY <3>1
        <3> QED BY <3>1, <3>2
    <2> QED BY <2>1, <2>2, <2>3
<1> QED BY <1>1 DEF Max

\* Two states of an adapter that say the same of a symbol.
Same(c, d, t) ==
    /\ d.unsent[t] = c.unsent[t] /\ d.fed[t] = c.fed[t]
    /\ t \in d.held <=> t \in c.held
    /\ t \in d.hasty <=> t \in c.hasty

\* What is queued with an adapter is the adapter's, and changes nothing else.
LEMMA Queues ==
    ASSUME NEW c \in Conn, NEW s \in Sym, NEW m \in Modes
    PROVE  /\ Queued(c, s, m) \in Conn
           /\ Queued(c, s, m).link = c.link
           /\ s \in Queued(c, s, m).held
           /\ Queued(c, s, m).fed[s] = c.fed[s]
           /\ Queued(c, s, m).unsent[s] = c.unsent[s] \cup {m}
           /\ s \in Queued(c, s, m).hasty <=> s \in c.hasty \/ c.unsent[s] # {}
           /\ \A t \in Sym \ {s} : Same(c, Queued(c, s, m), t)
<1>1. Queued(c, s, m) \in Conn BY DEF Queued, Conn
<1>2. /\ Queued(c, s, m).link = c.link /\ Queued(c, s, m).fed = c.fed
      /\ Queued(c, s, m).held = c.held \cup {s}
    BY DEF Queued, Conn
<1>3. Queued(c, s, m).unsent = [c.unsent EXCEPT ![s] = c.unsent[s] \cup {m}]
    BY DEF Queued, Conn
<1>4. Queued(c, s, m).hasty = IF c.unsent[s] = {} THEN c.hasty ELSE c.hasty \cup {s}
    BY DEF Queued, Conn
<1>5. c.unsent \in [Sym -> SUBSET Modes] BY DEF Conn
<1>6. \A t \in Sym \ {s} : Same(c, Queued(c, s, m), t)
    BY <1>2, <1>3, <1>4, <1>5 DEF Same
<1>7. Queued(c, s, m).unsent[s] = c.unsent[s] \cup {m} BY <1>3, <1>5
<1>8. s \in Queued(c, s, m).hasty <=> s \in c.hasty \/ c.unsent[s] # {} BY <1>4
<1> QED BY <1>1, <1>2, <1>6, <1>7, <1>8

\* What is released is given up at once, or later when the socket is lost.
LEMMA Releases ==
    ASSUME NEW c \in Conn, NEW s \in Sym
    PROVE  /\ Released(c, s) \in Conn
           /\ Released(c, s).link = c.link
           /\ Released(c, s).unsent[s] = c.unsent[s]
           /\ c.link = "open" => Released(c, s).fed[s] = 0
           /\ s \in Released(c, s).hasty <=>
                  s \in c.hasty \/ c.link # "open" \/ c.unsent[s] # {}
           /\ \A t \in Sym \ {s} : Same(c, Released(c, s), t)
<1>1. Released(c, s) \in Conn BY DEF Released, Conn
<1>2. /\ Released(c, s).link = c.link /\ Released(c, s).unsent = c.unsent
      /\ Released(c, s).held = c.held \ {s}
    BY DEF Released, Conn
<1>3. Released(c, s).fed = [c.fed EXCEPT ![s] = IF c.link = "open" THEN 0 ELSE c.fed[s]]
    BY DEF Released, Conn
<1>4. Released(c, s).hasty = IF c.link = "open" /\ c.unsent[s] = {} THEN c.hasty
                             ELSE c.hasty \cup {s}
    BY DEF Released, Conn
<1>5. c.fed \in [Sym -> Modes \cup {0}] BY DEF Conn
<1>6. \A t \in Sym \ {s} : Same(c, Released(c, s), t)
    BY <1>2, <1>3, <1>4, <1>5 DEF Same
<1>7. c.link = "open" => Released(c, s).fed[s] = 0 BY <1>3, <1>5
<1>8. s \in Released(c, s).hasty <=> s \in c.hasty \/ c.link # "open" \/ c.unsent[s] # {}
    BY <1>4
<1> QED BY <1>1, <1>2, <1>6, <1>7, <1>8

\* The answers of an adapter to a subscription.
LEMMA Answers ==
    ASSUME NEW c \in Conn, NEW s \in Sym, NEW m \in Modes, NEW r \in SubscribeOutcomes(c, s, m)
    PROVE  /\ r.ok \in BOOLEAN /\ r.conn \in Conn /\ r.faults \in {0, 1}
           /\ r.ok => r.conn = Queued(c, s, m) /\ c.link \in {"open", "lost"}
           /\ ~r.ok => r.conn = c
           /\ ~r.ok /\ c.link \in {"open", "lost"} => r.faults = 1
<1>1. Queued(c, s, m) \in Conn BY Queues
<1>2. CASE c.link \in {"open", "lost"}
    <2>1. r = [ok |-> TRUE, conn |-> Queued(c, s, m), faults |-> 0]
          \/ r = [ok |-> FALSE, conn |-> c, faults |-> 1]
        BY <1>2 DEF SubscribeOutcomes, Outcome
    <2>2. CASE r = [ok |-> TRUE, conn |-> Queued(c, s, m), faults |-> 0]
        BY <1>1, <1>2, <2>2
    <2>3. CASE r = [ok |-> FALSE, conn |-> c, faults |-> 1] BY <2>3
    <2> QED BY <2>1, <2>2, <2>3
<1>3. CASE c.link \notin {"open", "lost"}
    <2>1. r = [ok |-> FALSE, conn |-> c, faults |-> 0]
        BY <1>3 DEF SubscribeOutcomes, Outcome
    <2> QED BY <1>3, <2>1
<1> QED BY <1>2, <1>3

\* The answer of an adapter to an end: it agrees to what it holds.
LEMMA Agrees ==
    ASSUME NEW c \in Conn, NEW s \in Sym
    PROVE  /\ UnsubscribeOutcome(c, s).ok \in BOOLEAN
           /\ UnsubscribeOutcome(c, s).ok <=> s \in c.held
           /\ UnsubscribeOutcome(c, s).conn = IF s \in c.held THEN Released(c, s) ELSE c
           /\ UnsubscribeOutcome(c, s).conn \in Conn
<1>1. Released(c, s) \in Conn BY Releases
<1>2. CASE s \in c.held
    <2>1. UnsubscribeOutcome(c, s) = [ok |-> TRUE, conn |-> Released(c, s), faults |-> 0]
        BY <1>2 DEF UnsubscribeOutcome, Outcome
    <2> QED BY <1>1, <1>2, <2>1
<1>3. CASE s \notin c.held
    <2>1. UnsubscribeOutcome(c, s) = [ok |-> FALSE, conn |-> c, faults |-> 0]
        BY <1>3 DEF UnsubscribeOutcome, Outcome
    <2> QED BY <1>3, <2>1
<1> QED BY <1>2, <1>3

\* What an adapter leaves behind is an adapter, and it fails at most once.
LEMMA OutcomeTypes ==
    ASSUME NEW conn \in Conn, NEW s \in Sym, NEW m \in Modes
    PROVE  /\ \A r \in SubscribeOutcomes(conn, s, m) :
                  r.ok \in BOOLEAN /\ r.conn \in Conn /\ r.faults \in Nat
           /\ UnsubscribeOutcome(conn, s).ok \in BOOLEAN
           /\ UnsubscribeOutcome(conn, s).conn \in Conn
<1>1. \A r \in SubscribeOutcomes(conn, s, m) :
          r.ok \in BOOLEAN /\ r.conn \in Conn /\ r.faults \in {0, 1}
    BY Answers
<1>2. {0, 1} \subseteq Nat OBVIOUS
<1> QED BY <1>1, <1>2, Agrees

\* A connection that was just made is one.
LEMMA FreshTypes ==
    ASSUME NEW link \in {"off", "starting", "open"}
    PROVE  Fresh(link) \in Conn
<1>1. [s \in Sym |-> {}] \in [Sym -> SUBSET Modes] /\ [s \in Sym |-> 0] \in [Sym -> Modes \cup {0}]
    OBVIOUS
<1>2. {} \in SUBSET Sym /\ link \in {"off", "starting", "open", "lost"} OBVIOUS
<1> QED BY <1>1, <1>2 DEF Fresh, Conn

\* A symbol is on a connection exactly when that is its place.
LEMMA PlaceOfTracked ==
    ASSUME Inv, NEW s \in Sym
    PROVE  /\ ModesOf(s) \subseteq Modes
           /\ ModesOf(s) # {} => PlaceOf(s) \in DOMAIN conns
           /\ \A m \in ModesOf(s) : tracked[s][m] = PlaceOf(s)
           /\ \A i \in Nat \ {0} : s \in On(i) <=> PlaceOf(s) = i
<1>1. ModesOf(s) \subseteq Modes /\ Modes \subseteq 1..3 BY PoolAssumption DEF ModesOf
<1>2. ModesOf(s) # {} => Max(ModesOf(s)) \in ModesOf(s) BY <1>1, HighestMode
<1>3. \A m, n \in ModesOf(s) : tracked[s][m] = tracked[s][n] BY DEF Inv, CountsMatch
<1>4. \A m \in ModesOf(s) : tracked[s][m] = PlaceOf(s) BY <1>2, <1>3 DEF PlaceOf
<1>5. ModesOf(s) # {} => PlaceOf(s) \in DOMAIN conns
    BY <1>2, <1>4 DEF Inv, CountsMatch
<1>6. \A i \in Nat \ {0} : s \in On(i) <=> \E m \in ModesOf(s) : tracked[s][m] = i
    BY DEF On, ModesOf
<1>7. ModesOf(s) = {} => PlaceOf(s) = 0 BY DEF PlaceOf
<1>8. \A i \in Nat \ {0} : s \in On(i) <=> PlaceOf(s) = i BY <1>4, <1>6, <1>7
<1> QED BY <1>1, <1>4, <1>5, <1>8

\* The part of the invariant that the places decide, after a step: whatever the
\* step did, it holds if every mode of a symbol is tracked at one place p[t], and
\* the counts are those of the places.
LEMMA FromPlaces ==
    ASSUME conns' \in Seq(Conn), counts' \in Seq(Nat),
           Len(counts') = Len(conns'), Len(conns') <= MaxConnections,
           tracked' \in [Sym -> [Modes -> 0..MaxConnections]],
           NEW p \in [Sym -> Nat],
           \A t \in Sym : \A n \in ModesOf(t)' : tracked'[t][n] = p[t],
           \A t \in Sym : ModesOf(t)' = {} <=> p[t] = 0,
           \A t \in Sym : p[t] \in 0..Len(conns'),
           \A i \in 1..Len(counts') :
               /\ counts'[i] = Cardinality({t \in Sym : p[t] = i})
               /\ counts'[i] <= MaxSymbols
    PROVE  CountsMatch' /\ \A t \in Sym : PlaceOf(t)' = p[t]
<1>1. ASSUME NEW t \in Sym
      PROVE  ModesOf(t)' \subseteq Modes /\ (ModesOf(t)' # {} => Max(ModesOf(t)') \in ModesOf(t)')
    <2>1. ModesOf(t)' \subseteq Modes /\ Modes \subseteq 1..3 BY PoolAssumption DEF ModesOf
    <2> QED BY <2>1, HighestMode
<1>2. ASSUME NEW t \in Sym PROVE PlaceOf(t)' = p[t]
    <2>1. PlaceOf(t)' = IF ModesOf(t)' = {} THEN 0 ELSE tracked'[t][Max(ModesOf(t)')]
        BY DEF PlaceOf
    <2> QED BY <1>1, <2>1
<1>3. ASSUME NEW i \in 1..Len(counts') PROVE On(i)' = {t \in Sym : p[t] = i}
    <2>1. ASSUME NEW t \in Sym PROVE t \in On(i)' <=> p[t] = i
        <3>1. t \in On(i)' <=> \E m \in Modes : tracked'[t][m] = i BY DEF On
        <3>2. \A m \in Modes : tracked'[t][m] = i => m \in ModesOf(t)' BY DEF ModesOf
        <3>3. t \in On(i)' <=> \E m \in ModesOf(t)' : tracked'[t][m] = i
            BY <1>1, <3>1, <3>2
        <3>4. CASE ModesOf(t)' = {} BY <3>3, <3>4
        <3>5. CASE ModesOf(t)' # {} BY <3>3, <3>5
        <3> QED BY <3>4, <3>5
    <2>2. On(i)' \subseteq Sym BY DEF On
    <2> QED BY <2>1, <2>2
<1>4. DOMAIN counts' = 1..Len(counts') /\ DOMAIN conns' = 1..Len(conns')
    OBVIOUS
<1>5. \A i \in DOMAIN counts' : counts'[i] = Cardinality(On(i)') /\ counts'[i] <= MaxSymbols
    BY <1>3, <1>4
<1>6. \A t \in Sym : \A m, n \in ModesOf(t)' : tracked'[t][m] = tracked'[t][n]
    OBVIOUS
<1>7. \A t \in Sym : \A m \in ModesOf(t)' : tracked'[t][m] \in DOMAIN conns'
    <2>1. ASSUME NEW t \in Sym, NEW m \in ModesOf(t)' PROVE p[t] \in 1..Len(conns')
        OBVIOUS
    <2> QED BY <1>4, <2>1
<1> QED BY <1>2, <1>5, <1>6, <1>7 DEF CountsMatch

\* What the invariant says of the places.
LEMMA Places ==
    ASSUME Inv
    PROVE  /\ \A t \in Sym : PlaceOf(t) \in 0..Len(conns)
           /\ \A t \in Sym : ModesOf(t) = {} <=> PlaceOf(t) = 0
           /\ \A i \in 1..Len(counts) :
                  /\ counts[i] = Cardinality({t \in Sym : PlaceOf(t) = i})
                  /\ counts[i] <= MaxSymbols
<1>1. DOMAIN conns = 1..Len(conns) /\ DOMAIN counts = 1..Len(counts) /\ Len(conns) \in Nat
    BY DEF Inv, PoolTypeOK
<1>2. ASSUME NEW t \in Sym
      PROVE  PlaceOf(t) \in 0..Len(conns) /\ (ModesOf(t) = {} <=> PlaceOf(t) = 0)
    <2>1. CASE ModesOf(t) = {} BY <1>1, <2>1 DEF PlaceOf
    <2>2. CASE ModesOf(t) # {} BY <1>1, <2>2, PlaceOfTracked
    <2> QED BY <2>1, <2>2
<1>3. ASSUME NEW i \in 1..Len(counts) PROVE On(i) = {t \in Sym : PlaceOf(t) = i}
    <2>1. On(i) \subseteq Sym BY DEF On
    <2>2. i \in Nat \ {0} OBVIOUS
    <2> QED BY <2>1, <2>2, PlaceOfTracked
<1>4. \A i \in DOMAIN counts : counts[i] = Cardinality(On(i)) /\ counts[i] <= MaxSymbols
    BY DEF Inv, CountsMatch
<1> QED BY <1>1, <1>2, <1>3, <1>4

\* A symbol and mode is tracked at v, or forgotten when v is 0.
Tracks(s, m, v) == tracked' = [tracked EXCEPT ![s][m] = v]

\* The modes of a symbol when one of them is tracked or forgotten.
LEMMA AfterTracking ==
    ASSUME PoolTypeOK, NEW s \in Sym, NEW m \in Modes, NEW v \in 0..MaxConnections,
           Tracks(s, m, v)
    PROVE  /\ tracked' \in [Sym -> [Modes -> 0..MaxConnections]]
           /\ \A t \in Sym \ {s} : ModesOf(t)' = ModesOf(t) /\ tracked'[t] = tracked[t]
           /\ v = 0 => ModesOf(s)' = ModesOf(s) \ {m}
           /\ v # 0 => ModesOf(s)' = ModesOf(s) \cup {m}
           /\ tracked'[s][m] = v
           /\ \A n \in Modes \ {m} : tracked'[s][n] = tracked[s][n]
<1>1. tracked \in [Sym -> [Modes -> 0..MaxConnections]] BY DEF PoolTypeOK
<1>2. tracked' \in [Sym -> [Modes -> 0..MaxConnections]] BY <1>1 DEF Tracks
<1>3. \A t \in Sym \ {s} : tracked'[t] = tracked[t] BY <1>1 DEF Tracks
<1>4. tracked'[s][m] = v /\ \A n \in Modes \ {m} : tracked'[s][n] = tracked[s][n]
    BY <1>1 DEF Tracks
<1>5. \A t \in Sym \ {s} : ModesOf(t)' = ModesOf(t) BY <1>3 DEF ModesOf
<1>6. v = 0 => ModesOf(s)' = ModesOf(s) \ {m} BY <1>4 DEF ModesOf
<1>7. v # 0 => ModesOf(s)' = ModesOf(s) \cup {m} BY <1>4 DEF ModesOf
<1> QED BY <1>2, <1>3, <1>4, <1>5, <1>6, <1>7

\* The places do not change, whatever happens to the modes.
StaysPut == \A t \in Sym : PlaceOf(t)' = PlaceOf(t)

\* A step that moves no symbol keeps the counts exact.
LEMMA SamePlaces ==
    ASSUME Inv,
           conns' \in Seq(Conn), Len(conns') = Len(conns), counts' = counts,
           tracked' \in [Sym -> [Modes -> 0..MaxConnections]],
           \A t \in Sym : \A n \in ModesOf(t)' : tracked'[t][n] = PlaceOf(t),
           \A t \in Sym : ModesOf(t)' = {} <=> ModesOf(t) = {}
    PROVE  CountsMatch' /\ StaysPut
<1> DEFINE p == [t \in Sym |-> PlaceOf(t)]
<1>1. \A t \in Sym : p[t] = PlaceOf(t) OBVIOUS
<1>2. \A t \in Sym : PlaceOf(t) \in 0..Len(conns) BY Places
<1>3. Len(conns) \in Nat /\ Len(counts) = Len(conns) /\ Len(conns) <= MaxConnections
      /\ counts \in Seq(Nat)
    BY DEF Inv, PoolTypeOK, CountsMatch
<1>4. p \in [Sym -> Nat] BY <1>2, <1>3
<1>5. \A i : {t \in Sym : p[t] = i} = {t \in Sym : PlaceOf(t) = i} BY <1>1
<1>6. \A i \in 1..Len(counts') : /\ counts'[i] = Cardinality({t \in Sym : p[t] = i})
                                /\ counts'[i] <= MaxSymbols
    BY <1>5, Places
<1>7. \A t \in Sym : ModesOf(t)' = {} <=> p[t] = 0 BY <1>1, Places
<1>8. \A t \in Sym : p[t] \in 0..Len(conns') BY <1>1, <1>2
<1>9. \A t \in Sym : \A n \in ModesOf(t)' : tracked'[t][n] = p[t] BY <1>1
<1> HIDE DEF p
<1>10. CountsMatch' /\ \A t \in Sym : PlaceOf(t)' = p[t]
    BY <1>3, <1>4, <1>6, <1>7, <1>8, <1>9, FromPlaces
<1> QED BY <1>1, <1>10 DEF StaysPut

Moves(s, i) == \A t \in Sym : PlaceOf(t)' = IF t = s THEN i ELSE PlaceOf(t)

\* subscribe of a new symbol, accepted or not.
LEMMA NewSymbol ==
    ASSUME Inv, NEW s \in Sym, NEW m \in Modes, ModesOf(s) = {},
           NEW cs \in Seq(Conn), NEW ns \in Seq(Nat),
           Len(ns) = Len(cs), Len(conns) <= Len(cs), Len(cs) <= MaxConnections,
           \A j \in 1..Len(ns) : /\ ns[j] = Cardinality({t \in Sym : PlaceOf(t) = j})
                                 /\ ns[j] <= MaxSymbols,
           NEW i \in 1..Len(ns), ns[i] < MaxSymbols,
           NEW ok \in BOOLEAN, NEW spent \in Nat,
           SubscribeOn(cs, ns, i, s, m, ok, spent)
    PROVE  /\ Inv'
           /\ StaysPut \/ Moves(s, i)
<1>0. PICK r \in SubscribeOutcomes(cs[i], s, m) :
        /\ r.ok = ok
        /\ conns' = [cs EXCEPT ![i] = r.conn]
        /\ tracked' = IF ok THEN [tracked EXCEPT ![s][m] = i] ELSE tracked
        /\ counts' = IF ok THEN [ns EXCEPT ![i] = @ + 1] ELSE ns
        /\ Spend(r.faults + spent)
    BY DEF SubscribeOn
<1>1. /\ PoolTypeOK /\ Len(conns) \in Nat /\ Len(cs) \in Nat
      /\ MaxSymbols \in Nat /\ MaxConnections \in Nat /\ MaxFaults \in Nat
    BY PoolAssumption DEF Inv, PoolTypeOK
<1>2. cs[i] \in Conn /\ i \in 1..Len(cs) OBVIOUS
<1>3. r.conn \in Conn /\ r.faults \in Nat BY <1>0, <1>2, OutcomeTypes
<1>4. conns' \in Seq(Conn) /\ Len(conns') = Len(cs) BY <1>0, <1>2, <1>3
<1>5. faults' \in 0..MaxFaults
    <2>1. faults + (r.faults + spent) <= MaxFaults /\ faults' = faults + (r.faults + spent)
        BY <1>0 DEF Spend
    <2>2. faults \in Nat /\ MaxFaults \in Nat BY <1>1 DEF PoolTypeOK
    <2>3. r.faults \in Nat /\ spent \in Nat BY <1>3
    <2> HIDE <1>0
    <2> QED BY <2>1, <2>2, <2>3
<1>6. \A t \in Sym : PlaceOf(t) \in 0..Len(conns) /\ (ModesOf(t) = {} <=> PlaceOf(t) = 0)
    BY Places
<1>7. PlaceOf(s) = 0 BY <1>6
<1>8. \A t \in Sym : \A n \in ModesOf(t) : tracked[t][n] = PlaceOf(t) BY PlaceOfTracked
<1>9. CASE ~ok
    <2> DEFINE p == [t \in Sym |-> PlaceOf(t)]
    <2>1. \A t \in Sym : p[t] = PlaceOf(t) OBVIOUS
    <2>2. p \in [Sym -> Nat] BY <1>6, <1>1
    <2>3. \A j : {t \in Sym : p[t] = j} = {t \in Sym : PlaceOf(t) = j} BY <2>1
    <2>4. tracked' = tracked /\ counts' = ns BY <1>0, <1>9
    <2>5. \A t \in Sym : ModesOf(t)' = ModesOf(t) BY <2>4 DEF ModesOf
    <2>6. \A t \in Sym : p[t] \in 0..Len(conns') BY <1>1, <1>4, <1>6, <2>1
    <2>7. \A t \in Sym : ModesOf(t)' = {} <=> p[t] = 0 BY <1>6, <2>1, <2>5
    <2>8. \A t \in Sym : \A n \in ModesOf(t)' : tracked'[t][n] = p[t]
        BY <1>8, <2>1, <2>4, <2>5
    <2>9. \A j \in 1..Len(counts') : /\ counts'[j] = Cardinality({t \in Sym : p[t] = j})
                                    /\ counts'[j] <= MaxSymbols
        BY <2>3, <2>4
    <2>10. tracked' \in [Sym -> [Modes -> 0..MaxConnections]] BY <1>1, <2>4 DEF PoolTypeOK
    <2> HIDE DEF p
    <2>11. CountsMatch' /\ \A t \in Sym : PlaceOf(t)' = p[t]
        BY <1>4, <2>2, <2>4, <2>6, <2>7, <2>8, <2>9, <2>10, FromPlaces
    <2> QED BY <1>4, <1>5, <2>1, <2>4, <2>10, <2>11 DEF Inv, PoolTypeOK, StaysPut
<1>10. CASE ok
    <2> DEFINE p == [t \in Sym |-> IF t = s THEN i ELSE PlaceOf(t)]
    <2>1. \A t \in Sym : p[t] = IF t = s THEN i ELSE PlaceOf(t) OBVIOUS
    <2>2. p \in [Sym -> Nat] BY <1>6, <1>1
    <2>3. \A j \in Nat \ {0, i} : {t \in Sym : p[t] = j} = {t \in Sym : PlaceOf(t) = j}
        BY <1>7, <2>1
    <2>4. {t \in Sym : p[t] = i} = {t \in Sym : PlaceOf(t) = i} \cup {s} BY <2>1
    <2>5. s \notin {t \in Sym : PlaceOf(t) = i} BY <1>7
    <2>6. IsFiniteSet({t \in Sym : PlaceOf(t) = i})
        <3>1. {t \in Sym : PlaceOf(t) = i} \in SUBSET Sym OBVIOUS
        <3> QED BY <3>1, FS_Subset, PoolAssumption
    <2>7. Cardinality({t \in Sym : p[t] = i}) = Cardinality({t \in Sym : PlaceOf(t) = i}) + 1
        BY <2>4, <2>5, <2>6, FS_AddElement
    <2>8. tracked' = [tracked EXCEPT ![s][m] = i] /\ i \in 0..MaxConnections /\ i # 0
        BY <1>0, <1>1, <1>2, <1>10
    <2>9. /\ tracked' \in [Sym -> [Modes -> 0..MaxConnections]]
          /\ \A t \in Sym \ {s} : ModesOf(t)' = ModesOf(t) /\ tracked'[t] = tracked[t]
          /\ ModesOf(s)' = {m} /\ tracked'[s][m] = i
        <3>1. /\ tracked' \in [Sym -> [Modes -> 0..MaxConnections]]
              /\ \A t \in Sym \ {s} : ModesOf(t)' = ModesOf(t) /\ tracked'[t] = tracked[t]
              /\ i # 0 => ModesOf(s)' = ModesOf(s) \cup {m}
              /\ tracked'[s][m] = i
            <4>1. PoolTypeOK /\ i \in 0..MaxConnections BY <1>1, <2>8
            <4>2. Tracks(s, m, i) BY <2>8 DEF Tracks
            <4> QED BY <4>1, <4>2, AfterTracking
        <3> QED BY <2>8, <3>1
    <2>10. counts' = [ns EXCEPT ![i] = ns[i] + 1] /\ ns[i] \in Nat BY <1>0, <1>10
    <2>11. counts' \in Seq(Nat) /\ Len(counts') = Len(ns) BY <2>10
    <2>12. ASSUME NEW j \in 1..Len(counts')
           PROVE  /\ counts'[j] = Cardinality({t \in Sym : p[t] = j})
                  /\ counts'[j] <= MaxSymbols
        <3>1. CASE j = i
            <4>1. counts'[i] = ns[i] + 1 BY <2>10
            <4>2. ns[i] = Cardinality({t \in Sym : PlaceOf(t) = i}) OBVIOUS
            <4>3. ns[i] + 1 <= MaxSymbols BY <1>1, <2>10
            <4> QED BY <2>7, <3>1, <4>1, <4>2, <4>3
        <3>2. CASE j # i
            <4>1. counts'[j] = ns[j] /\ j \in 1..Len(ns) BY <2>10, <2>11, <3>2
            <4>2. j \in Nat \ {0, i} BY <3>2
            <4> QED BY <2>3, <4>1, <4>2
        <3> QED BY <3>1, <3>2
    <2>13. \A t \in Sym : p[t] \in 0..Len(conns') BY <1>1, <1>2, <1>4, <1>6, <2>1
    <2>14. \A t \in Sym : ModesOf(t)' = {} <=> p[t] = 0 BY <1>6, <2>1, <2>8, <2>9
    <2>15. \A t \in Sym : \A n \in ModesOf(t)' : tracked'[t][n] = p[t]
        BY <1>8, <2>1, <2>9
    <2> HIDE DEF p
    <2>16. CountsMatch' /\ \A t \in Sym : PlaceOf(t)' = p[t]
        BY <1>4, <2>2, <2>9, <2>11, <2>12, <2>13, <2>14, <2>15, FromPlaces
    <2> QED BY <1>4, <1>5, <2>1, <2>9, <2>11, <2>16 DEF Inv, PoolTypeOK, Moves
<1> QED BY <1>9, <1>10

\* A step that leaves the tracking alone, or gives up one of several modes, or adds
\* a mode on the symbol's connection.
LEMMA OtherMode ==
    ASSUME Inv, NEW s \in Sym, NEW m \in Modes, ModesOf(s) # {},
           conns' \in Seq(Conn), Len(conns') = Len(conns), counts' = counts,
           faults' \in 0..MaxFaults,
           \/ tracked' = tracked
           \/ tracked' = Forget(s, m) /\ ModesOf(s) \ {m} # {}
           \/ tracked' = [tracked EXCEPT ![s][m] = PlaceOf(s)]
    PROVE  Inv' /\ StaysPut
<1>1. PoolTypeOK BY DEF Inv
<1>2. \A t \in Sym : \A n \in ModesOf(t) : tracked[t][n] = PlaceOf(t) BY PlaceOfTracked
<1>3. ASSUME tracked' \in [Sym -> [Modes -> 0..MaxConnections]],
             \A t \in Sym : \A n \in ModesOf(t)' : tracked'[t][n] = PlaceOf(t),
             \A t \in Sym : ModesOf(t)' = {} <=> ModesOf(t) = {}
      PROVE  Inv' /\ StaysPut
    <2>1. CountsMatch' /\ StaysPut BY <1>3, SamePlaces
    <2>2. PoolTypeOK' BY <1>1, <1>3 DEF PoolTypeOK
    <2> QED BY <2>1, <2>2 DEF Inv
<1>4. CASE tracked' = tracked
    <2>1. \A t \in Sym : ModesOf(t)' = ModesOf(t) BY <1>4 DEF ModesOf
    <2>2. tracked' \in [Sym -> [Modes -> 0..MaxConnections]] BY <1>1, <1>4 DEF PoolTypeOK
    <2>3. \A t \in Sym : \A n \in ModesOf(t)' : tracked'[t][n] = PlaceOf(t)
        BY <1>2, <1>4, <2>1
    <2> QED BY <1>3, <2>1, <2>2, <2>3
<1>5. CASE tracked' = Forget(s, m) /\ ModesOf(s) \ {m} # {}
    <2>1. Tracks(s, m, 0) BY <1>5 DEF Forget, Tracks
    <2>2. 0 \in 0..MaxConnections BY PoolAssumption
    <2>3. tracked' \in [Sym -> [Modes -> 0..MaxConnections]]
        BY <1>1, <2>1, <2>2, AfterTracking
    <2>4. \A t \in Sym \ {s} : ModesOf(t)' = ModesOf(t) /\ tracked'[t] = tracked[t]
        BY <1>1, <2>1, <2>2, AfterTracking
    <2>5. ModesOf(s)' = ModesOf(s) \ {m} BY <1>1, <2>1, <2>2, AfterTracking
    <2>6. \A n \in Modes \ {m} : tracked'[s][n] = tracked[s][n]
        BY <1>1, <2>1, <2>2, AfterTracking
    <2>7. \A n \in ModesOf(s)' : tracked'[s][n] = PlaceOf(s)
        BY <1>2, <2>5, <2>6, PlaceOfTracked
    <2>8. \A t \in Sym : \A n \in ModesOf(t)' : tracked'[t][n] = PlaceOf(t)
        BY <1>2, <2>4, <2>7
    <2>9. \A t \in Sym : ModesOf(t)' = {} <=> ModesOf(t) = {} BY <1>5, <2>4, <2>5
    <2> QED BY <1>3, <2>3, <2>8, <2>9
<1>6. CASE tracked' = [tracked EXCEPT ![s][m] = PlaceOf(s)]
    <2>1. PlaceOf(s) \in 0..MaxConnections /\ PlaceOf(s) # 0
        <3>1. Len(conns) \in Nat /\ Len(conns) <= MaxConnections /\ MaxConnections \in Nat
            BY <1>1, PoolAssumption DEF Inv, PoolTypeOK, CountsMatch
        <3>2. PlaceOf(s) \in 0..Len(conns) /\ PlaceOf(s) # 0 BY Places
        <3> QED BY <3>1, <3>2
    <2>2. PICK i \in 0..MaxConnections : i = PlaceOf(s) BY <2>1
    <2>4. i # 0 BY <2>1, <2>2
    <2>3. Tracks(s, m, i) BY <1>6, <2>2 DEF Tracks
    <2>7. /\ tracked' \in [Sym -> [Modes -> 0..MaxConnections]]
          /\ \A t \in Sym \ {s} : ModesOf(t)' = ModesOf(t) /\ tracked'[t] = tracked[t]
          /\ i # 0 => ModesOf(s)' = ModesOf(s) \cup {m}
          /\ tracked'[s][m] = i
          /\ \A n \in Modes \ {m} : tracked'[s][n] = tracked[s][n]
        <3>1. PoolTypeOK /\ i \in 0..MaxConnections BY <1>1
        <3> QED BY <2>3, <3>1, AfterTracking
    <2>5. tracked' \in [Sym -> [Modes -> 0..MaxConnections]] BY <2>7
    <2>6. \A t \in Sym \ {s} : ModesOf(t)' = ModesOf(t) /\ tracked'[t] = tracked[t] BY <2>7
    <2>12. ModesOf(s)' = ModesOf(s) \cup {m} BY <2>4, <2>7
    <2>8. tracked'[s][m] = i /\ \A n \in Modes \ {m} : tracked'[s][n] = tracked[s][n] BY <2>7
    <2>9. \A n \in ModesOf(s)' : tracked'[s][n] = PlaceOf(s)
        BY <1>2, <2>2, <2>8, <2>12, PlaceOfTracked
    <2>10. \A t \in Sym : \A n \in ModesOf(t)' : tracked'[t][n] = PlaceOf(t)
        BY <1>2, <2>6, <2>9
    <2>11. \A t \in Sym : ModesOf(t)' = {} <=> ModesOf(t) = {} BY <2>6, <2>12
    <2> QED BY <1>3, <2>5, <2>10, <2>11
<1> QED BY <1>4, <1>5, <1>6

\* unsubscribe of a symbol's only mode, accepted or not.
LEMMA LastMode ==
    ASSUME Inv, NEW s \in Sym, NEW m \in Modes, NEW ok \in BOOLEAN,
           UnsubscribeLast(s, m, ok)
    PROVE  Inv' /\ (StaysPut \/ Moves(s, 0))
<1>1. PoolTypeOK /\ MaxSymbols \in Nat /\ Len(conns) \in Nat
    BY PoolAssumption DEF Inv, PoolTypeOK
<1>2. ModesOf(s) = {m} BY DEF UnsubscribeLast
<1>3. PICK i \in 1..Len(conns) : i = PlaceOf(s)
    <2>1. PlaceOf(s) \in 0..Len(conns) /\ PlaceOf(s) # 0 BY <1>2, Places
    <2> QED BY <1>1, <2>1
<1>4. tracked[s][m] = i BY <1>2, <1>3, PlaceOfTracked
<1>5. /\ conns' = [conns EXCEPT ![i] = UnsubscribeOutcome(conns[i], s).conn]
      /\ tracked' = IF ok THEN Forget(s, m) ELSE tracked
      /\ counts' = IF ok THEN [counts EXCEPT ![i] = @ - 1] ELSE counts
      /\ faults' = faults
    BY <1>4 DEF UnsubscribeLast
<1>6. conns[i] \in Conn BY <1>1 DEF PoolTypeOK
<1>7. UnsubscribeOutcome(conns[i], s).conn \in Conn BY <1>2, <1>6, OutcomeTypes
<1>8. conns' \in Seq(Conn) /\ Len(conns') = Len(conns)
    BY <1>1, <1>5, <1>7 DEF PoolTypeOK
<1>9. faults' \in 0..MaxFaults BY <1>1, <1>5 DEF PoolTypeOK
<1>10. CASE ~ok
    <2>1. tracked' = tracked /\ counts' = counts BY <1>5, <1>10
    <2> QED BY <1>2, <1>8, <1>9, <2>1, OtherMode
<1>11. CASE ok
    <2> DEFINE p == [t \in Sym |-> IF t = s THEN 0 ELSE PlaceOf(t)]
    <2>1. \A t \in Sym : p[t] = IF t = s THEN 0 ELSE PlaceOf(t) OBVIOUS
    <2>2. \A t \in Sym : PlaceOf(t) \in 0..Len(conns) /\ (ModesOf(t) = {} <=> PlaceOf(t) = 0)
        BY Places
    <2>3. p \in [Sym -> Nat] BY <1>1, <2>2
    <2>4. \A j \in Nat \ {0, i} : {t \in Sym : p[t] = j} = {t \in Sym : PlaceOf(t) = j}
        BY <1>3, <2>1
    <2>5. {t \in Sym : p[t] = i} = {t \in Sym : PlaceOf(t) = i} \ {s}
        BY <1>3, <2>1
    <2>6. s \in {t \in Sym : PlaceOf(t) = i} BY <1>3
    <2>7. IsFiniteSet({t \in Sym : PlaceOf(t) = i})
        <3>1. {t \in Sym : PlaceOf(t) = i} \in SUBSET Sym OBVIOUS
        <3> QED BY <3>1, FS_Subset, PoolAssumption
    <2>8. Cardinality({t \in Sym : p[t] = i}) = Cardinality({t \in Sym : PlaceOf(t) = i}) - 1
        BY <2>5, <2>6, <2>7, FS_RemoveElement
    <2>9. Cardinality({t \in Sym : p[t] = i}) \in Nat
        <3>1. {t \in Sym : p[t] = i} \in SUBSET Sym OBVIOUS
        <3> QED BY <3>1, FS_Subset, FS_CardinalityType, PoolAssumption
    <2>10. /\ counts \in Seq(Nat) /\ Len(counts) = Len(conns) /\ Len(conns) <= MaxConnections
           /\ counts' = [counts EXCEPT ![i] = counts[i] - 1]
        BY <1>1, <1>5, <1>11 DEF Inv, PoolTypeOK, CountsMatch
    <2>11. \A j \in 1..Len(counts) : /\ counts[j] = Cardinality({t \in Sym : PlaceOf(t) = j})
                                     /\ counts[j] <= MaxSymbols
        BY Places
    <2>12. counts[i] - 1 = Cardinality({t \in Sym : p[t] = i}) /\ counts[i] - 1 \in Nat
        BY <2>8, <2>9, <2>10, <2>11
    <2>13. counts' \in Seq(Nat) /\ Len(counts') = Len(counts) BY <2>10, <2>12
    <2>14. ASSUME NEW j \in 1..Len(counts')
           PROVE  /\ counts'[j] = Cardinality({t \in Sym : p[t] = j})
                  /\ counts'[j] <= MaxSymbols
        <3>1. counts[j] \in Nat /\ j \in 1..Len(counts) BY <2>10, <2>13
        <3>2. CASE j = i
            <4>1. counts'[j] = counts[i] - 1 BY <2>10, <3>1, <3>2
            <4>2. counts[i] <= MaxSymbols BY <2>11, <3>1, <3>2
            <4> QED BY <1>1, <2>12, <3>1, <3>2, <4>1, <4>2
        <3>3. CASE j # i
            <4>1. counts'[j] = counts[j] BY <2>10, <3>1, <3>3
            <4>2. j \in Nat \ {0, i} BY <3>3
            <4> QED BY <2>4, <2>11, <3>1, <4>1, <4>2
        <3> QED BY <3>2, <3>3
    <2>15. Tracks(s, m, 0) BY <1>5, <1>11 DEF Forget, Tracks
    <2>16. 0 \in 0..MaxConnections BY PoolAssumption
    <2>17. tracked' \in [Sym -> [Modes -> 0..MaxConnections]]
        BY <1>1, <2>15, <2>16, AfterTracking
    <2>18. \A t \in Sym \ {s} : ModesOf(t)' = ModesOf(t) /\ tracked'[t] = tracked[t]
        BY <1>1, <2>15, <2>16, AfterTracking
    <2>19. ModesOf(s)' = {}
        <3>1. ModesOf(s)' = ModesOf(s) \ {m} BY <1>1, <2>15, <2>16, AfterTracking
        <3> QED BY <1>2, <3>1
    <2>20. \A t \in Sym : \A n \in ModesOf(t)' : tracked'[t][n] = p[t]
        <3>1. \A t \in Sym : \A n \in ModesOf(t) : tracked[t][n] = PlaceOf(t)
            BY PlaceOfTracked
        <3> QED BY <2>1, <2>18, <2>19, <3>1
    <2>21. \A t \in Sym : ModesOf(t)' = {} <=> p[t] = 0 BY <2>1, <2>2, <2>18, <2>19
    <2>22. \A t \in Sym : p[t] \in 0..Len(conns') BY <1>1, <1>8, <2>1, <2>2
    <2> HIDE DEF p
    <2>23. CountsMatch' /\ \A t \in Sym : PlaceOf(t)' = p[t]
        BY <1>8, <2>3, <2>10, <2>13, <2>14, <2>17, <2>20, <2>21, <2>22, FromPlaces
    <2> QED BY <1>8, <1>9, <2>1, <2>13, <2>17, <2>23 DEF Inv, PoolTypeOK, Moves
<1> QED BY <1>10, <1>11

\* What a step does to the places.
Gains ==
    \E s \in Sym, i \in 1..MaxConnections :
        /\ PlaceOf(s) = 0
        /\ Cardinality({t \in Sym : PlaceOf(t) = i}) < MaxSymbols
        /\ Moves(s, i)

Loses == \E s \in Sym : PlaceOf(s) # 0 /\ Moves(s, 0)

Clears == \A t \in Sym : PlaceOf(t)' = 0

Effects == StaysPut \/ Gains \/ Loses \/ Clears

\* subscribe puts its symbol on a connection with room, or moves nothing.
LEMMA SubscribeEffect ==
    ASSUME Inv, NEW s \in Sym, NEW m \in Modes, NEW ok \in BOOLEAN, PoolSubscribe(s, m, ok)
    PROVE  Inv' /\ (StaysPut \/ Gains)
<1>1. /\ PoolTypeOK /\ MaxSymbols \in Nat \ {0} /\ MaxConnections \in Nat
      /\ Len(conns) \in Nat /\ Len(counts) = Len(conns) /\ Len(conns) <= MaxConnections
    BY PoolAssumption DEF Inv, PoolTypeOK, CountsMatch
<1>2. ModesOf(s) \subseteq 1..3 BY PoolAssumption DEF ModesOf
<1>3. CASE SubscribeCovered(s, m, ok)
    <2>1. ModesOf(s) # {} BY <1>3 DEF SubscribeCovered
    <2>2. tracked[s][Max(ModesOf(s))] = PlaceOf(s) BY <2>1 DEF PlaceOf
    <2>3. tracked' = [tracked EXCEPT ![s][m] = PlaceOf(s)] BY <1>3, <2>2 DEF SubscribeCovered
    <2>4. conns' = conns /\ counts' = counts /\ faults' = faults BY <1>3 DEF SubscribeCovered
    <2>5. conns' \in Seq(Conn) /\ Len(conns') = Len(conns) /\ faults' \in 0..MaxFaults
        BY <1>1, <2>4 DEF PoolTypeOK
    <2> QED BY <2>1, <2>3, <2>4, <2>5, OtherMode
<1>4. CASE SubscribeUpgrade(s, m, ok)
    <2>1. ModesOf(s) # {} BY <1>4 DEF SubscribeUpgrade
    <2>2. PICK i \in 1..Len(conns) : i = PlaceOf(s)
        <3>1. PlaceOf(s) \in 0..Len(conns) /\ PlaceOf(s) # 0 BY <2>1, Places
        <3> QED BY <1>1, <3>1
    <2>3. tracked[s][Max(ModesOf(s))] = i BY <2>1, <2>2 DEF PlaceOf
    <2>4. PICK r \in SubscribeOutcomes(conns[i], s, m) :
              /\ conns' = [conns EXCEPT ![i] = r.conn]
              /\ tracked' = IF ok THEN [tracked EXCEPT ![s][m] = i] ELSE tracked
              /\ Spend(r.faults)
              /\ counts' = counts
        BY <1>4, <2>3 DEF SubscribeUpgrade
    <2>5. conns[i] \in Conn BY <1>1 DEF PoolTypeOK
    <2>6. r.conn \in Conn /\ r.faults \in Nat BY <2>5, OutcomeTypes
    <2>7. conns' \in Seq(Conn) /\ Len(conns') = Len(conns) BY <1>1, <2>4, <2>6 DEF PoolTypeOK
    <2>8. faults' \in 0..MaxFaults BY <1>1, <2>4, <2>6, PoolAssumption DEF PoolTypeOK, Spend
    <2>9. tracked' = tracked \/ tracked' = [tracked EXCEPT ![s][m] = PlaceOf(s)]
        BY <2>2, <2>4
    <2> QED BY <2>1, <2>4, <2>7, <2>8, <2>9, OtherMode
<1>5. CASE SubscribeNew(s, m, ok)
    <2>1. ModesOf(s) = {} BY <1>5 DEF SubscribeNew
    <2>2. PlaceOf(s) = 0 BY <2>1, Places
    <2>3. conns \in Seq(Conn) /\ counts \in Seq(Nat) BY <1>1 DEF PoolTypeOK
    <2>4. \A j \in 1..Len(counts) : /\ counts[j] = Cardinality({t \in Sym : PlaceOf(t) = j})
                                    /\ counts[j] <= MaxSymbols
        BY Places
    <2>5. ASSUME NEW i \in Rooms, SubscribeOn(conns, counts, i, s, m, ok, 0)
          PROVE  Inv' /\ (StaysPut \/ Gains)
        <3>1. i \in 1..Len(counts) /\ counts[i] < MaxSymbols BY <2>3 DEF Rooms
        <3>2. Inv' /\ (StaysPut \/ Moves(s, i))
            <4>1. Len(counts) = Len(conns) /\ Len(conns) <= Len(conns) /\ Len(conns) <= MaxConnections
                BY <1>1
            <4>2. 0 \in Nat OBVIOUS
            <4> QED BY <2>1, <2>3, <2>4, <2>5, <3>1, <4>1, <4>2, NewSymbol
        <3>3. i \in 1..MaxConnections BY <1>1, <3>1
        <3>4. Cardinality({t \in Sym : PlaceOf(t) = i}) < MaxSymbols BY <2>4, <3>1
        <3> QED BY <2>2, <3>2, <3>3, <3>4 DEF Gains
    <2>6. ASSUME Len(conns) < MaxConnections, NEW link \in {"off", "starting", "open"},
                 SubscribeOn(Append(conns, Fresh(link)), Append(counts, 0), Len(conns) + 1,
                             s, m, ok, IF link = "open" THEN 0 ELSE 1)
          PROVE  Inv' /\ (StaysPut \/ Gains)
        <3> DEFINE i == Len(conns) + 1
                   cs == Append(conns, Fresh(link))
                   ns == Append(counts, 0)
        <3>1. Fresh(link) \in Conn BY FreshTypes
        <3>2. cs \in Seq(Conn) /\ Len(cs) = i BY <2>3, <3>1
        <3>3. ns \in Seq(Nat) /\ Len(ns) = i /\ ns[i] = 0 /\ \A j \in 1..Len(conns) : ns[j] = counts[j]
            BY <1>1, <2>3
        <3>4. {t \in Sym : PlaceOf(t) = i} = {} BY <1>1, Places
        <3>5. Cardinality({t \in Sym : PlaceOf(t) = i}) = 0 BY <3>4, FS_EmptySet
        <3>6. \A j \in 1..Len(ns) : /\ ns[j] = Cardinality({t \in Sym : PlaceOf(t) = j})
                                    /\ ns[j] <= MaxSymbols
            <4>1. ASSUME NEW j \in 1..Len(ns), j # i PROVE j \in 1..Len(conns)
                BY <1>1, <3>3, <4>1
            <4>2. ASSUME NEW j \in 1..Len(ns), j # i
                  PROVE  /\ ns[j] = Cardinality({t \in Sym : PlaceOf(t) = j})
                         /\ ns[j] <= MaxSymbols
                <5>1. j \in 1..Len(conns) /\ j \in 1..Len(counts) BY <1>1, <4>1, <4>2
                <5>2. ns[j] = counts[j] BY <3>3, <5>1
                <5> QED BY <2>4, <5>1, <5>2
            <4>3. ns[i] = Cardinality({t \in Sym : PlaceOf(t) = i}) /\ ns[i] <= MaxSymbols
                BY <1>1, <3>3, <3>5
            <4> QED BY <4>2, <4>3
        <3>7. PICK spent \in Nat : spent = IF link = "open" THEN 0 ELSE 1 OBVIOUS
        <3>8. i \in 1..Len(ns) /\ ns[i] < MaxSymbols /\ i \in 1..MaxConnections
            BY <1>1, <2>6, <3>3
        <3>9. Len(ns) = Len(cs) /\ Len(conns) <= Len(cs) /\ Len(cs) <= MaxConnections
            BY <1>1, <2>6, <3>2, <3>3
        <3> HIDE DEF i, cs, ns
        <3>10. SubscribeOn(cs, ns, i, s, m, ok, spent) BY <2>6, <3>7 DEF i, cs, ns
        <3>11. Inv' /\ (StaysPut \/ Moves(s, i))
            BY <2>1, <3>2, <3>3, <3>6, <3>8, <3>9, <3>10, NewSymbol
        <3>12. Cardinality({t \in Sym : PlaceOf(t) = i}) < MaxSymbols BY <1>1, <3>5
        <3> QED BY <2>2, <3>8, <3>11, <3>12 DEF Gains
    <2>7. CASE Refuse
        <3>1. tracked' = tracked /\ conns' = conns /\ counts' = counts /\ faults' = faults
            BY <2>7 DEF Refuse, pool
        <3>2. \A t \in Sym : ModesOf(t)' = ModesOf(t) BY <3>1 DEF ModesOf
        <3>3. StaysPut BY <3>1, <3>2 DEF StaysPut, PlaceOf
        <3>4. \A i : On(i)' = On(i) BY <3>1 DEF On
        <3>5. CountsMatch' BY <3>1, <3>2, <3>4 DEF Inv, CountsMatch
        <3>6. PoolTypeOK' BY <1>1, <3>1 DEF PoolTypeOK
        <3> QED BY <3>3, <3>5, <3>6 DEF Inv
    <2> QED BY <1>5, <2>5, <2>6, <2>7 DEF SubscribeNew
<1> QED BY <1>3, <1>4, <1>5 DEF PoolSubscribe

\* A refusal changes nothing.
LEMMA RefuseEffect ==
    ASSUME Inv, UNCHANGED pool
    PROVE  Inv' /\ StaysPut
<1>1. tracked' = tracked /\ conns' = conns /\ counts' = counts /\ faults' = faults
    BY DEF pool
<1>2. \A t \in Sym : ModesOf(t)' = ModesOf(t) BY <1>1 DEF ModesOf
<1>3. \A i : On(i)' = On(i) BY <1>1 DEF On
<1>4. CountsMatch' BY <1>1, <1>2, <1>3 DEF Inv, CountsMatch
<1>5. PoolTypeOK' BY <1>1 DEF Inv, PoolTypeOK
<1>6. StaysPut BY <1>1, <1>2 DEF StaysPut, PlaceOf
<1> QED BY <1>4, <1>5, <1>6 DEF Inv

\* unsubscribe takes its symbol off its connection, or moves nothing.
LEMMA UnsubscribeEffect ==
    ASSUME Inv, NEW s \in Sym, NEW m \in Modes, NEW ok \in BOOLEAN, PoolUnsubscribe(s, m, ok)
    PROVE  Inv' /\ (StaysPut \/ Loses)
<1>1. PoolTypeOK /\ Len(conns) \in Nat BY DEF Inv, PoolTypeOK
<1>2. ModesOf(s) \subseteq 1..3 /\ ModesOf(s) \subseteq Modes BY PoolAssumption DEF ModesOf
<1>3. CASE m \notin ModesOf(s) /\ ~ok /\ Refuse BY <1>3, RefuseEffect DEF Refuse
<1>4. CASE UnsubscribeLast(s, m, ok)
    <2>1. PlaceOf(s) # 0
        <3>1. ModesOf(s) # {} BY <1>4 DEF UnsubscribeLast
        <3> QED BY <3>1, Places
    <2>2. Inv' /\ (StaysPut \/ Moves(s, 0)) BY <1>4, LastMode
    <2> QED BY <2>1, <2>2 DEF Loses
<1>5. CASE UnsubscribeHighest(s, m, ok)
    <2>1. m \in ModesOf(s) /\ ModesOf(s) \ {m} # {} BY <1>5 DEF UnsubscribeHighest, Highest
    <2>2. PICK i \in 1..Len(conns) : i = PlaceOf(s)
        <3>1. PlaceOf(s) \in 0..Len(conns) /\ PlaceOf(s) # 0 BY <2>1, Places
        <3> QED BY <1>1, <3>1
    <2>3. tracked[s][m] = i BY <2>1, <2>2, PlaceOfTracked
    <2>4. conns[i] \in Conn BY <1>1 DEF PoolTypeOK
    <2> DEFINE off == UnsubscribeOutcome(conns[i], s).conn
               low == Max(ModesOf(s) \ {m})
    <2>5. low \in Modes
        <3>1. low \in ModesOf(s) \ {m} BY <1>2, <2>1, HighestMode
        <3> QED BY <1>2, <3>1
    <2>6. off \in Conn BY <1>2, <2>1, <2>4, OutcomeTypes
    <2>7. counts' = counts BY <1>5 DEF UnsubscribeHighest
    <2>8. \E d \in SubscribeOutcomes(off, s, low) :
              \/ /\ conns' = [conns EXCEPT ![i] = d.conn]
                 /\ tracked' = Forget(s, m)
                 /\ Spend(d.faults)
              \/ /\ \E b \in SubscribeOutcomes(d.conn, s, m) :
                        /\ conns' = [conns EXCEPT ![i] = b.conn]
                        /\ Spend(d.faults + b.faults)
                 /\ tracked' = tracked
        BY <1>5, <2>3 DEF UnsubscribeHighest
    <2> HIDE DEF off, low
    <2>9. PICK d \in SubscribeOutcomes(off, s, low) :
              \/ /\ conns' = [conns EXCEPT ![i] = d.conn]
                 /\ tracked' = Forget(s, m)
                 /\ Spend(d.faults)
              \/ /\ \E b \in SubscribeOutcomes(d.conn, s, m) :
                        /\ conns' = [conns EXCEPT ![i] = b.conn]
                        /\ Spend(d.faults + b.faults)
                 /\ tracked' = tracked
        BY <2>8
    <2>10. d.conn \in Conn /\ d.faults \in Nat BY <2>5, <2>6, OutcomeTypes
    <2>11. \E conn \in Conn, n \in Nat : conns' = [conns EXCEPT ![i] = conn] /\ Spend(n)
        <3>1. CASE conns' = [conns EXCEPT ![i] = d.conn] /\ Spend(d.faults) BY <2>10, <3>1
        <3>2. ASSUME NEW b \in SubscribeOutcomes(d.conn, s, m),
                     conns' = [conns EXCEPT ![i] = b.conn], Spend(d.faults + b.faults)
              PROVE  \E conn \in Conn, n \in Nat :
                         conns' = [conns EXCEPT ![i] = conn] /\ Spend(n)
            <4>1. b.conn \in Conn /\ b.faults \in Nat BY <2>10, OutcomeTypes
            <4>2. d.faults + b.faults \in Nat BY <2>10, <4>1
            <4> QED BY <3>2, <4>1, <4>2
        <3> QED BY <2>9, <3>1, <3>2
    <2>12. conns' \in Seq(Conn) /\ Len(conns') = Len(conns) BY <1>1, <2>11 DEF PoolTypeOK
    <2>13. faults' \in 0..MaxFaults BY <1>1, <2>11, PoolAssumption DEF PoolTypeOK, Spend
    <2>14. tracked' = tracked \/ tracked' = Forget(s, m) BY <2>9
    <2>15. ModesOf(s) # {} BY <2>1
    <2> QED BY <2>1, <2>7, <2>12, <2>13, <2>14, <2>15, OtherMode
<1>6. CASE UnsubscribeLower(s, m, ok)
    <2>1. m \in ModesOf(s) /\ tracked' = Forget(s, m)
          /\ conns' = conns /\ counts' = counts /\ faults' = faults
        BY <1>6 DEF UnsubscribeLower
    <2>2. ModesOf(s) \ {m} # {}
        <3>1. \E n \in ModesOf(s) : m < n BY <1>6 DEF UnsubscribeLower
        <3>2. m \in 1..3 BY <1>2, <2>1
        <3> QED BY <1>2, <3>1, <3>2
    <2>3. conns' \in Seq(Conn) /\ Len(conns') = Len(conns) /\ faults' \in 0..MaxFaults
        BY <1>1, <2>1 DEF PoolTypeOK
    <2>4. ModesOf(s) # {} BY <2>1
    <2> QED BY <2>1, <2>2, <2>3, <2>4, OtherMode
<1> QED BY <1>3, <1>4, <1>5, <1>6 DEF PoolUnsubscribe

\* A pool without symbols: just opened, closed, or whose opening failed.
LEMMA EmptyPool ==
    ASSUME tracked' = Untracked, faults' \in 0..MaxFaults,
           \/ conns' = <<>> /\ counts' = <<>>
           \/ \E link \in {"off", "starting", "open"} :
                  conns' = <<Fresh(link)>> /\ counts' = << 0 >>
    PROVE  Inv' /\ Clears
<1>1. conns' \in Seq(Conn) /\ counts' \in Seq(Nat)
      /\ Len(counts') = Len(conns') /\ Len(conns') <= MaxConnections
      /\ \A i \in 1..Len(counts') : counts'[i] = 0
    <2>1. CASE conns' = <<>> /\ counts' = <<>> BY <2>1, PoolAssumption
    <2>2. ASSUME NEW link \in {"off", "starting", "open"}, conns' = <<Fresh(link)>>,
                 counts' = << 0 >>
          PROVE  <1>1!:
        <3>1. Fresh(link) \in Conn BY FreshTypes
        <3> QED BY <2>2, <3>1, PoolAssumption
    <2> QED BY <2>1, <2>2
<1>2. tracked' \in [Sym -> [Modes -> 0..MaxConnections]] BY PoolAssumption DEF Untracked
<1>3. \A t \in Sym : ModesOf(t)' = {} BY DEF ModesOf, Untracked
<1> DEFINE p == [t \in Sym |-> 0]
<1>4. p \in [Sym -> Nat] /\ \A t \in Sym : p[t] = 0 OBVIOUS
<1>5. \A i \in 1..Len(counts') : {t \in Sym : p[t] = i} = {} OBVIOUS
<1>6. \A i \in 1..Len(counts') : /\ counts'[i] = Cardinality({t \in Sym : p[t] = i})
                                /\ counts'[i] <= MaxSymbols
    <2>1. Cardinality({}) = 0 BY FS_EmptySet
    <2>2. \A i \in 1..Len(counts') : Cardinality({t \in Sym : p[t] = i}) = 0 BY <1>5, <2>1
    <2> HIDE DEF p
    <2> QED BY <1>1, <2>2, PoolAssumption
<1>7. \A t \in Sym : p[t] \in 0..Len(conns') BY <1>1, <1>4
<1> HIDE DEF p
<1>8. \A t \in Sym : \A n \in ModesOf(t)' : tracked'[t][n] = p[t] BY <1>3
<1>9. \A t \in Sym : ModesOf(t)' = {} <=> p[t] = 0 BY <1>3, <1>4
<1>10. CountsMatch' /\ \A t \in Sym : PlaceOf(t)' = p[t]
    BY <1>1, <1>2, <1>4, <1>6, <1>7, <1>8, <1>9, FromPlaces
<1> QED BY <1>1, <1>2, <1>4, <1>10 DEF Inv, PoolTypeOK, Clears

\* What is sent, and what is thrown away, changes its symbol only.
LEMMA Sends ==
    ASSUME NEW c \in Conn, NEW s \in Sym, NEW m \in Modes, NEW rest \in SUBSET Modes
    PROVE  /\ Sent(c, s, m, rest) \in Conn
           /\ Sent(c, s, m, rest).link = c.link /\ Sent(c, s, m, rest).held = c.held
           /\ Sent(c, s, m, rest).hasty = c.hasty
           /\ Sent(c, s, m, rest).fed[s] = m
           /\ Sent(c, s, m, rest).unsent[s] = rest
           /\ \A t \in Sym \ {s} : Same(c, Sent(c, s, m, rest), t)
<1>1. Sent(c, s, m, rest) \in Conn BY DEF Sent, Conn
<1>2. /\ Sent(c, s, m, rest).link = c.link /\ Sent(c, s, m, rest).held = c.held
      /\ Sent(c, s, m, rest).hasty = c.hasty
    BY DEF Sent, Conn
<1>3. Sent(c, s, m, rest).fed = [c.fed EXCEPT ![s] = m] BY DEF Sent, Conn
<1>4. Sent(c, s, m, rest).unsent = [c.unsent EXCEPT ![s] = rest] BY DEF Sent, Conn
<1>5. c.fed \in [Sym -> Modes \cup {0}] /\ c.unsent \in [Sym -> SUBSET Modes] BY DEF Conn
<1>6. \A t \in Sym \ {s} : Same(c, Sent(c, s, m, rest), t)
    BY <1>2, <1>3, <1>4, <1>5 DEF Same
<1>7. Sent(c, s, m, rest).fed[s] = m /\ Sent(c, s, m, rest).unsent[s] = rest
    BY <1>3, <1>4, <1>5
<1> QED BY <1>1, <1>2, <1>6, <1>7

LEMMA Discards ==
    ASSUME NEW c \in Conn, NEW s \in Sym, NEW m \in Modes
    PROVE  /\ Discarded(c, s, m) \in Conn
           /\ Discarded(c, s, m).link = c.link /\ Discarded(c, s, m).held = c.held
           /\ s \in Discarded(c, s, m).hasty
           /\ \A t \in Sym \ {s} : Same(c, Discarded(c, s, m), t)
<1>1. Discarded(c, s, m) \in Conn BY DEF Discarded, Conn
<1>2. /\ Discarded(c, s, m).link = c.link /\ Discarded(c, s, m).held = c.held
      /\ Discarded(c, s, m).fed = c.fed /\ Discarded(c, s, m).hasty = c.hasty \cup {s}
    BY DEF Discarded, Conn
<1>3. Discarded(c, s, m).unsent = [c.unsent EXCEPT ![s] = c.unsent[s] \ {m}]
    BY DEF Discarded, Conn
<1>4. c.unsent \in [Sym -> SUBSET Modes] BY DEF Conn
<1>5. \A t \in Sym \ {s} : Same(c, Discarded(c, s, m), t) BY <1>2, <1>3, <1>4 DEF Same
<1> QED BY <1>1, <1>2, <1>5

\* The adapter's threads change one connection, and at most lose a socket.
LEMMA OwnStep ==
    ASSUME PoolTypeOK, AdapterStep
    PROVE  /\ counts' = counts /\ tracked' = tracked
           /\ faults' \in {faults, faults + 1} /\ faults' \in 0..MaxFaults
           /\ \E i \in 1..Len(conns) : \E c \in Conn : conns' = [conns EXCEPT ![i] = c]
<1>1. conns \in Seq(Conn) /\ faults \in 0..MaxFaults /\ MaxFaults \in Nat
    BY PoolAssumption DEF PoolTypeOK
<1>2. PICK i \in 1..Len(conns) : Link(i) \/ Send(i) \/ GiveUp(i)
    BY <1>1 DEF AdapterStep
<1>3. conns[i] \in Conn BY <1>1
<1>4. ASSUME Link(i)
      PROVE  /\ faults' \in {faults, faults + 1} /\ faults' \in 0..MaxFaults
             /\ \E c \in Conn : conns' = [conns EXCEPT ![i] = c]
    <2>1. PICK link \in {"open", "lost"} : conns' = [conns EXCEPT ![i].link = link]
        BY <1>4 DEF Link
    <2>2. [conns[i] EXCEPT !.link = link] \in Conn BY <1>3 DEF Conn
    <2>3. conns' = [conns EXCEPT ![i] = [conns[i] EXCEPT !.link = link]] BY <2>1
    <2>4. faults' = faults \/ Spend(1) BY <1>4 DEF Link
    <2>5. faults' \in {faults, faults + 1} /\ faults' \in 0..MaxFaults
        BY <1>1, <2>4 DEF Spend
    <2> QED BY <2>2, <2>3, <2>5
<1>5. ASSUME Send(i)
      PROVE  /\ faults' \in {faults, faults + 1} /\ faults' \in 0..MaxFaults
             /\ \E c \in Conn : conns' = [conns EXCEPT ![i] = c]
    <2>1. PICK s \in Sym : \E m \in conns[i].unsent[s] :
              \E rest \in {conns[i].unsent[s] \ {m}}
                          \cup {conns[i].unsent[r] : r \in conns[i].hasty \cap {s}} :
                  conns' = [conns EXCEPT ![i] = Sent(conns[i], s, m, rest)]
        BY <1>5 DEF Send
    <2>2. PICK m \in conns[i].unsent[s] :
              \E rest \in {conns[i].unsent[s] \ {m}}
                          \cup {conns[i].unsent[r] : r \in conns[i].hasty \cap {s}} :
                  conns' = [conns EXCEPT ![i] = Sent(conns[i], s, m, rest)]
        BY <2>1
    <2>3. PICK rest \in {conns[i].unsent[s] \ {m}}
                        \cup {conns[i].unsent[r] : r \in conns[i].hasty \cap {s}} :
              conns' = [conns EXCEPT ![i] = Sent(conns[i], s, m, rest)]
        BY <2>2
    <2>4. conns[i].unsent[s] \subseteq Modes BY <1>3 DEF Conn
    <2>5. rest \in SUBSET Modes /\ m \in Modes BY <2>2, <2>3, <2>4
    <2>6. PICK c \in Conn : c = Sent(conns[i], s, m, rest) BY <1>3, <2>5, Sends
    <2>7. conns' = [conns EXCEPT ![i] = c] BY <2>3, <2>6
    <2>8. faults' = faults BY <1>5 DEF Send
    <2> QED BY <1>1, <2>7, <2>8
<1>6. ASSUME GiveUp(i)
      PROVE  /\ faults' \in {faults, faults + 1} /\ faults' \in 0..MaxFaults
             /\ \E c \in Conn : conns' = [conns EXCEPT ![i] = c]
    <2>1. PICK s \in Sym : \E m \in conns[i].unsent[s] :
              conns' = [conns EXCEPT ![i] = Discarded(conns[i], s, m)]
        BY <1>6 DEF GiveUp
    <2>2. PICK m \in conns[i].unsent[s] :
              conns' = [conns EXCEPT ![i] = Discarded(conns[i], s, m)]
        BY <2>1
    <2>3. Discarded(conns[i], s, m) \in Conn
        <3>1. conns[i].unsent[s] \subseteq Modes BY <1>3 DEF Conn
        <3> QED BY <1>3, <2>2, <3>1, Discards
    <2>4. faults' = faults BY <1>6 DEF GiveUp
    <2> QED BY <1>1, <2>2, <2>3, <2>4
<1>7. counts' = counts /\ tracked' = tracked BY DEF AdapterStep
<1>8. /\ faults' \in {faults, faults + 1} /\ faults' \in 0..MaxFaults
      /\ \E c \in Conn : conns' = [conns EXCEPT ![i] = c]
    BY <1>2, <1>4, <1>5, <1>6
<1> QED BY <1>7, <1>8

\* The pool starts without connections.
LEMMA InitHolds == PoolInit => Inv /\ \A t \in Sym : PlaceOf(t) = 0
<1> SUFFICES ASSUME PoolInit PROVE Inv /\ \A t \in Sym : PlaceOf(t) = 0
    OBVIOUS
<1>1. conns = <<>> /\ counts = <<>> /\ tracked = Untracked /\ faults = 0 BY DEF PoolInit
<1>2. \A t \in Sym : ModesOf(t) = {} BY <1>1 DEF ModesOf, Untracked
<1>3. PoolTypeOK BY <1>1, PoolAssumption DEF PoolTypeOK, Untracked
<1>4. CountsMatch BY <1>1, <1>2, PoolAssumption DEF CountsMatch
<1>5. \A t \in Sym : PlaceOf(t) = 0 BY <1>2 DEF PlaceOf
<1> QED BY <1>3, <1>4, <1>5 DEF Inv

\* Every step of the pool keeps its invariant and moves at most one symbol.
LEMMA StepEffect == Inv /\ [PoolNext]_pool => Inv' /\ Effects
<1> SUFFICES ASSUME Inv, [PoolNext]_pool PROVE Inv' /\ Effects
    OBVIOUS
<1>1. ASSUME NEW s \in Sym, NEW m \in Modes, NEW ok \in BOOLEAN, PoolSubscribe(s, m, ok)
      PROVE  Inv' /\ Effects
    BY <1>1, SubscribeEffect DEF Effects
<1>2. ASSUME NEW s \in Sym, NEW m \in Modes, NEW ok \in BOOLEAN, PoolUnsubscribe(s, m, ok)
      PROVE  Inv' /\ Effects
    BY <1>2, UnsubscribeEffect DEF Effects
<1>3. faults \in 0..MaxFaults /\ MaxFaults \in Nat BY PoolAssumption DEF Inv, PoolTypeOK
<1>4. ASSUME NEW ok \in BOOLEAN, PoolOpen(ok) PROVE Inv' /\ Effects
    <2>1. faults' \in 0..MaxFaults
        <3>1. Spend(0) \/ Spend(1) BY <1>4 DEF PoolOpen
        <3> QED BY <1>3, <3>1 DEF Spend
    <2>2. \/ conns' = <<>> /\ counts' = <<>>
          \/ \E link \in {"off", "starting", "open"} :
                 conns' = <<Fresh(link)>> /\ counts' = << 0 >>
        BY <1>4 DEF PoolOpen
    <2>3. tracked' = Untracked BY <1>4 DEF PoolOpen
    <2> QED BY <2>1, <2>2, <2>3, EmptyPool DEF Effects
<1>5. CASE PoolDisconnect BY <1>3, <1>5, EmptyPool DEF PoolDisconnect, Effects
<1>6. CASE AdapterStep
    <2>1. /\ counts' = counts /\ tracked' = tracked /\ faults' \in {faults, faults + 1}
          /\ \E i \in 1..Len(conns) : \E c \in Conn : conns' = [conns EXCEPT ![i] = c]
        BY <1>6, OwnStep DEF Inv
    <2>2. conns' \in Seq(Conn) /\ Len(conns') = Len(conns) BY <2>1 DEF Inv, PoolTypeOK
    <2>3. faults' \in 0..MaxFaults BY <1>3, <1>6, OwnStep DEF Inv
    <2>4. \A t \in Sym : ModesOf(t)' = ModesOf(t) BY <2>1 DEF ModesOf
    <2>5. tracked' \in [Sym -> [Modes -> 0..MaxConnections]] BY <2>1 DEF Inv, PoolTypeOK
    <2>6. \A t \in Sym : \A n \in ModesOf(t)' : tracked'[t][n] = PlaceOf(t)
        BY <2>1, <2>4, PlaceOfTracked
    <2>7. CountsMatch' /\ StaysPut BY <2>1, <2>2, <2>4, <2>5, <2>6, SamePlaces
    <2>8. PoolTypeOK' BY <2>1, <2>2, <2>3, <2>5 DEF Inv, PoolTypeOK
    <2> QED BY <2>7, <2>8 DEF Inv, Effects
<1>7. CASE UNCHANGED pool BY <1>7, RefuseEffect DEF Effects
<1> QED BY <1>1, <1>2, <1>4, <1>5, <1>6, <1>7 DEF PoolNext

\* The pool's bookkeeping is exact for every number of symbols, connections, slots
\* and refused calls: no slot is lost, none is given twice, and the modes of a
\* symbol are never split over connections.
THEOREM CountsStayExact == PoolSpec => [](PoolTypeOK /\ CountsMatch)
<1>1. PoolInit => Inv BY InitHolds
<1>2. Inv /\ [PoolNext]_pool => Inv' BY StepEffect
<1>3. Inv => PoolTypeOK /\ CountsMatch BY DEF Inv
<1> QED BY <1>1, <1>2, <1>3, PTL DEF PoolSpec

\* Every step does to the places of the symbols what Placement allows.
LEMMA PlacementStep ==
    Inv /\ [PoolNext]_pool => [Plan!Next]_([s \in Sym |-> PlaceOf(s)])
<1> SUFFICES ASSUME Inv, [PoolNext]_pool
             PROVE  [Plan!Next]_([s \in Sym |-> PlaceOf(s)])
    OBVIOUS
<1> DEFINE place == [s \in Sym |-> PlaceOf(s)]
<1>1. place' = [s \in Sym |-> PlaceOf(s)'] OBVIOUS
<1>2. CASE StaysPut BY <1>1, <1>2 DEF StaysPut
<1>3. CASE Gains
    <2>1. PICK s \in Sym, i \in 1..MaxConnections :
              /\ PlaceOf(s) = 0
              /\ Cardinality({t \in Sym : PlaceOf(t) = i}) < MaxSymbols
              /\ Moves(s, i)
        BY <1>3 DEF Gains
    <2>2. Plan!Held(i) = {t \in Sym : PlaceOf(t) = i} BY DEF Plan!Held
    <2>3. place' = [place EXCEPT ![s] = i] BY <1>1, <2>1 DEF Moves
    <2>4. Plan!Cardinality(Plan!Held(i)) = Cardinality(Plan!Held(i))
        BY DEF Plan!Cardinality, Cardinality
    <2>5. Plan!Put(s, i) BY <2>1, <2>2, <2>3, <2>4 DEF Plan!Put
    <2> QED BY <2>5 DEF Plan!Next
<1>4. CASE Loses
    <2>1. PICK s \in Sym : PlaceOf(s) # 0 /\ Moves(s, 0) BY <1>4 DEF Loses
    <2>2. place' = [place EXCEPT ![s] = 0] BY <1>1, <2>1 DEF Moves
    <2>3. Plan!Take(s) BY <2>1, <2>2 DEF Plan!Take
    <2> QED BY <2>3 DEF Plan!Next
<1>5. CASE Clears
    <2>1. Plan!Clear BY <1>1, <1>5 DEF Clears, Plan!Clear
    <2> QED BY <2>1 DEF Plan!Next
<1> QED BY <1>2, <1>3, <1>4, <1>5, StepEffect DEF Effects

\* The pool implements Placement: a symbol is put on a connection with room, stays
\* there through every upgrade, downgrade and rollback, and leaves when given up.
THEOREM PoolImplementsPlacement == PoolSpec => PlacementSpec
<1>1. PoolInit => Plan!Init BY InitHolds DEF Plan!Init
<1>2. PoolInit => Inv BY InitHolds
<1>3. Inv /\ [PoolNext]_pool => Inv' BY StepEffect
<1>4. Inv /\ [PoolNext]_pool => [Plan!Next]_([s \in Sym |-> PlaceOf(s)]) BY PlacementStep
<1> QED BY <1>1, <1>2, <1>3, <1>4, PTL DEF PoolSpec, PlacementSpec, Plan!Spec
-----------------------------------------------------------------------------
(* The clients of the pool.                                                  *)

ProxyType ==
    /\ status \in [Client -> {"off", "connected", "mapped"}]
    /\ subs \in [Client -> SUBSET Keys]
    /\ index \in [Keys -> SUBSET Client]
    /\ hasAdapter \in BOOLEAN
    /\ clearing \in [Client -> {"no", "all", "leave"}]
    /\ relogins \in 0..MaxRelogins

\* subscriptions and subscription_index say the same.
IndexAgrees == \A c \in Client : \A k \in Keys : k \in subs[c] <=> c \in index[k]

ProxyInv == ProxyType /\ IndexAgrees

\* A key is struck out of both records, and the pool takes a step at most.
LEMMA DropKeeps ==
    ASSUME ProxyInv, NEW c \in Client, NEW k \in Keys, Drop(c, k)
    PROVE  /\ subs' \in [Client -> SUBSET Keys] /\ index' \in [Keys -> SUBSET Client]
           /\ IndexAgrees'
           /\ [PoolNext]_pool
<1>1. k[1] \in Sym /\ k[2] \in Modes BY DEF Keys
<1>2. subs \in [Client -> SUBSET Keys] /\ index \in [Keys -> SUBSET Client]
    BY DEF ProxyInv, ProxyType
<1>3. subs' = [subs EXCEPT ![c] = @ \ {k}] /\ index' = [index EXCEPT ![k] = @ \ {c}]
    BY DEF Drop
<1>4. Refuse \/ \E ok \in BOOLEAN : PoolUnsubscribe(k[1], k[2], ok) BY DEF Drop
<1>5. [PoolNext]_pool BY <1>1, <1>4 DEF PoolNext, Refuse
<1>6. IndexAgrees' BY <1>2, <1>3 DEF ProxyInv, IndexAgrees
<1> QED BY <1>2, <1>3, <1>5, <1>6

\* The records of the clients stay equal under every step, and the pool takes its own.
LEMMA ProxyStep == ProxyInv /\ [Next]_vars => ProxyInv' /\ [PoolNext]_pool
<1> SUFFICES ASSUME ProxyInv, [Next]_vars PROVE ProxyInv' /\ [PoolNext]_pool
    OBVIOUS
<1>1. ProxyType /\ IndexAgrees BY DEF ProxyInv
<1>2. ASSUME NEW c \in Client, Connect(c) PROVE ProxyInv' /\ [PoolNext]_pool
    BY <1>1, <1>2 DEF Connect, ProxyInv, ProxyType, IndexAgrees
<1>3. ASSUME NEW c \in Client, Authenticate(c) PROVE ProxyInv' /\ [PoolNext]_pool
    <2>1. [PoolNext]_pool BY <1>3 DEF Authenticate, PoolNext, Refuse
    <2>2. hasAdapter' \in BOOLEAN BY <1>1, <1>3 DEF Authenticate, ProxyType
    <2>3. status' = [status EXCEPT ![c] = "mapped"]
          /\ UNCHANGED <<subs, index, clearing, relogins>>
        BY <1>3 DEF Authenticate
    <2> QED BY <1>1, <2>1, <2>2, <2>3 DEF ProxyInv, ProxyType, IndexAgrees
<1>4. ASSUME NEW c \in Client, Disconnect(c) \/ UnsubscribeAll(c)
      PROVE  ProxyInv' /\ [PoolNext]_pool
    BY <1>1, <1>4 DEF Disconnect, UnsubscribeAll, ProxyInv, ProxyType, IndexAgrees
<1>5. ASSUME NEW c \in Client, ClearOne(c) PROVE ProxyInv' /\ [PoolNext]_pool
    <2>1. PICK k \in subs[c] : Drop(c, k) BY <1>5 DEF ClearOne
    <2>2. k \in Keys BY <1>1 DEF ProxyType
    <2>3. UNCHANGED <<status, hasAdapter, clearing, relogins>> BY <1>5 DEF ClearOne
    <2>4. /\ subs' \in [Client -> SUBSET Keys] /\ index' \in [Keys -> SUBSET Client]
          /\ IndexAgrees' /\ [PoolNext]_pool
        BY <2>1, <2>2, DropKeeps
    <2> QED BY <1>1, <2>3, <2>4 DEF ProxyInv, ProxyType
<1>6. ASSUME NEW c \in Client, EndClear(c) PROVE ProxyInv' /\ [PoolNext]_pool
    <2>1. [PoolNext]_pool BY <1>6 DEF EndClear, PoolNext, Refuse
    <2>2. hasAdapter' \in BOOLEAN /\ status' \in {status, [status EXCEPT ![c] = "off"]}
        BY <1>1, <1>6 DEF EndClear, ProxyType
    <2>3. clearing' = [clearing EXCEPT ![c] = "no"] /\ UNCHANGED <<subs, index, relogins>>
        BY <1>6 DEF EndClear
    <2> QED BY <1>1, <2>1, <2>2, <2>3 DEF ProxyInv, ProxyType, IndexAgrees
<1>7. ASSUME NEW c \in Client, NEW s \in Sym, NEW m \in Modes, Subscribe(c, s, m)
      PROVE  ProxyInv' /\ [PoolNext]_pool
    <2>1. PICK ok \in BOOLEAN :
              /\ PoolSubscribe(s, m, ok)
              /\ subs' = IF ok THEN [subs EXCEPT ![c] = @ \cup {<<s, m>>}] ELSE subs
              /\ index' = IF ok THEN [index EXCEPT ![<<s, m>>] = @ \cup {c}] ELSE index
        BY <1>7 DEF Subscribe
    <2>2. [PoolNext]_pool BY <2>1 DEF PoolNext
    <2>3. UNCHANGED <<status, hasAdapter, clearing, relogins>> BY <1>7 DEF Subscribe
    <2>4. PICK k \in Keys : k = <<s, m>> BY DEF Keys
    <2>5. CASE ok
        <3>1. subs' = [subs EXCEPT ![c] = @ \cup {k}] /\ index' = [index EXCEPT ![k] = @ \cup {c}]
            BY <2>1, <2>4, <2>5
        <3>2. subs' \in [Client -> SUBSET Keys] /\ index' \in [Keys -> SUBSET Client]
            BY <1>1, <3>1 DEF ProxyType
        <3>3. IndexAgrees' BY <1>1, <3>1 DEF ProxyType, IndexAgrees
        <3> QED BY <1>1, <2>2, <2>3, <3>2, <3>3 DEF ProxyInv, ProxyType
    <2>6. CASE ~ok
        <3>1. UNCHANGED <<subs, index>> BY <2>1, <2>6
        <3> QED BY <1>1, <2>2, <2>3, <3>1 DEF ProxyInv, ProxyType, IndexAgrees
    <2> QED BY <2>5, <2>6
<1>8. ASSUME NEW c \in Client, NEW s \in Sym, NEW m \in Modes, Unsubscribe(c, s, m)
      PROVE  ProxyInv' /\ [PoolNext]_pool
    <2>1. PICK k \in Keys : k = <<s, ModeTaken(m)>>
        BY ProxyAssumption DEF ModeTaken, Keys
    <2>2. Drop(c, k) BY <1>8, <2>1 DEF Unsubscribe
    <2>3. UNCHANGED <<status, hasAdapter, clearing, relogins>> BY <1>8 DEF Unsubscribe
    <2>4. /\ subs' \in [Client -> SUBSET Keys] /\ index' \in [Keys -> SUBSET Client]
          /\ IndexAgrees' /\ [PoolNext]_pool
        BY <2>2, DropKeeps
    <2> QED BY <1>1, <2>3, <2>4 DEF ProxyInv, ProxyType
<1>9. CASE Relogin
    <2>1. [PoolNext]_pool BY <1>9 DEF Relogin, PoolNext
    <2>2. relogins' \in 0..MaxRelogins /\ hasAdapter' = FALSE
          /\ UNCHANGED <<status, subs, index, clearing>>
        BY <1>1, <1>9, ProxyAssumption DEF Relogin, ProxyType
    <2> QED BY <1>1, <2>1, <2>2 DEF ProxyInv, ProxyType, IndexAgrees
<1>10. CASE AdapterStep /\ UNCHANGED proxy
    BY <1>1, <1>10 DEF PoolNext, proxy, ProxyInv, ProxyType, IndexAgrees
<1>11. CASE UNCHANGED vars
    BY <1>1, <1>11 DEF vars, proxy, ProxyInv, ProxyType, IndexAgrees
<1> QED BY <1>2, <1>3, <1>4, <1>5, <1>6, <1>7, <1>8, <1>9, <1>10, <1>11 DEF Next

\* At first no client is known.
LEMMA ProxyStart == Init => ProxyInv
<1> SUFFICES ASSUME Init PROVE ProxyType /\ IndexAgrees
    BY DEF ProxyInv
<1>1. ProxyType
    <2>1. relogins \in 0..MaxRelogins BY ProxyAssumption DEF Init
    <2>2. status \in [Client -> {"off", "connected", "mapped"}] BY DEF Init
    <2>3. subs \in [Client -> SUBSET Keys] BY DEF Init
    <2>4. index \in [Keys -> SUBSET Client] BY DEF Init
    <2>5. hasAdapter \in BOOLEAN BY DEF Init
    <2>6. clearing \in [Client -> {"no", "all", "leave"}] BY DEF Init
    <2> QED BY <2>1, <2>2, <2>3, <2>4, <2>5, <2>6 DEF ProxyType
<1>2. IndexAgrees BY DEF Init, IndexAgrees
<1> QED BY <1>1, <1>2

\* For any number of clients, whatever they do and whatever fails: the pool's counts
\* are exact and its symbols stay on their connections.
THEOREM ProxyKeepsPool == Spec => [](TypeOK /\ CountsMatch) /\ PlacementSpec
<1>1. Init => ProxyInv /\ PoolInit BY ProxyStart DEF Init
<1>2. ProxyInv /\ [Next]_vars => ProxyInv' /\ [PoolNext]_pool BY ProxyStep
<1>3. Spec => []ProxyInv /\ PoolSpec BY <1>1, <1>2, PTL DEF Spec, PoolSpec
<1>4. ProxyInv /\ PoolTypeOK => TypeOK BY DEF ProxyInv, ProxyType, TypeOK
<1> QED BY <1>3, <1>4, CountsStayExact, PoolImplementsPlacement, PTL

\* Types, whatever the clients do.
THEOREM ProxyTypes == Spec => []TypeOK
BY ProxyKeepsPool, PTL

-----------------------------------------------------------------------------
(* What the connections have waiting for a symbol, and what they have sent.  *)

\* The modes a symbol is tracked in on connection i.
At(i, s) == IF s \in On(i) THEN ModesOf(s) ELSE {}

\* What waits or was sent for a symbol.
Traffic(c, s) == c.unsent[s] \cup ({c.fed[s]} \ {0})

\* A connection has nothing of a symbol that is not tracked on it, or that it does
\* not hold, and nothing above the highest mode: unless requests were overtaken.
Neat(c, s, ms) ==
    s \notin c.hasty =>
        /\ ms = {} \/ s \notin c.held => Traffic(c, s) = {}
        /\ \A n \in Traffic(c, s) : n <= Max(ms)

\* A symbol that is tracked is held, and the last that was asked for waits or was sent.
Owed(c, s, ms) ==
    ms # {} =>
        /\ c.link \in {"open", "lost"} /\ s \in c.held
        /\ s \notin c.hasty => \/ c.unsent[s] = {Max(ms)}
                               \/ c.unsent[s] = {} /\ c.fed[s] = Max(ms)

\* Without a failure no socket is lost, and no request.
Clean(c, s, ms, failures) ==
    failures = 0 => c.link # "lost" /\ (ms # {} => Traffic(c, s) # {})

TidyIn(cs) == \A i \in 1..Len(cs) : \A s \in Sym : Neat(cs[i], s, At(i, s))

FedIn(cs) ==
    \A i \in 1..Len(cs) : \A s \in Sym :
        Owed(cs[i], s, At(i, s)) /\ Clean(cs[i], s, At(i, s), faults)

Tidy == TidyIn(conns)

Fed == FedIn(conns)

\* At most one adapter call of a handler fails of itself.
OneFailure == faults' <= faults + 1

\* The highest mode is the one that is in the set and bounds it.
LEMMA HighestIs ==
    ASSUME NEW S, S \subseteq 1..3, NEW h \in S, \A n \in S : n <= h
    PROVE  Max(S) = h
<1>1. Max(S) \in S /\ \A n \in S : n <= Max(S) BY HighestMode
<1>2. Max(S) \in 1..3 /\ h \in 1..3 BY <1>1
<1>3. h <= Max(S) /\ Max(S) <= h BY <1>1
<1> QED BY <1>2, <1>3

\* A request for a mode that is no lower than those the symbol has.
LEMMA QueuedRight ==
    ASSUME NEW c \in Conn, NEW s \in Sym, NEW m \in Modes, NEW ms \in SUBSET Modes,
           \A n \in ms : n <= m
    PROVE  /\ Neat(c, s, ms) => Neat(Queued(c, s, m), s, ms \cup {m})
           /\ c.link \in {"open", "lost"} => Owed(Queued(c, s, m), s, ms \cup {m})
           /\ \A z : c.link # "lost" \/ z # 0 => Clean(Queued(c, s, m), s, ms \cup {m}, z)
<1> DEFINE d == Queued(c, s, m)
<1>2. /\ d.link = c.link /\ d.fed[s] = c.fed[s] /\ s \in d.held
      /\ d.unsent[s] = c.unsent[s] \cup {m}
      /\ s \in c.hasty => s \in d.hasty
      /\ c.unsent[s] # {} => s \in d.hasty
    BY Queues
<1> HIDE DEF d
<1>3. ms \subseteq 1..3 /\ m \in 1..3 /\ ms \cup {m} # {} BY PoolAssumption
<1>4. Max(ms \cup {m}) = m
    <2>1. ms \cup {m} \subseteq 1..3 /\ m \in ms \cup {m} BY <1>3
    <2>2. \A n \in ms \cup {m} : n <= m BY <1>3
    <2> QED BY <2>1, <2>2, HighestIs
<1>5. ASSUME Neat(c, s, ms), s \notin d.hasty PROVE \A n \in Traffic(d, s) : n <= m
    <2>1. s \notin c.hasty /\ c.unsent[s] = {} BY <1>2, <1>5
    <2>2. Traffic(d, s) = {m} \cup ({c.fed[s]} \ {0}) BY <1>2, <2>1 DEF Traffic
    <2>3. c.fed[s] # 0 => c.fed[s] \in Traffic(c, s) BY DEF Traffic
    <2>4. CASE c.fed[s] = 0 BY <1>3, <2>2, <2>4
    <2>5. CASE c.fed[s] # 0
        <3>1. ms # {} /\ c.fed[s] <= Max(ms) BY <1>5, <2>1, <2>3, <2>5 DEF Neat
        <3>2. Max(ms) \in ms BY <1>3, <3>1, HighestMode
        <3>3. c.fed[s] \in Modes BY <2>5 DEF Conn
        <3>4. c.fed[s] \in 1..3 /\ Max(ms) \in 1..3 /\ Max(ms) <= m
            BY <1>3, <3>2, <3>3, PoolAssumption
        <3>5. c.fed[s] <= m BY <1>3, <3>1, <3>4
        <3> QED BY <1>3, <2>2, <3>5
    <2> QED BY <2>4, <2>5
<1>6. Neat(c, s, ms) => Neat(d, s, ms \cup {m}) BY <1>2, <1>3, <1>4, <1>5 DEF Neat
<1>7. c.link \in {"open", "lost"} => Owed(d, s, ms \cup {m})
    <2>1. s \notin d.hasty => d.unsent[s] = {m} BY <1>2
    <2> QED BY <1>2, <1>4, <2>1 DEF Owed
<1>8. \A z : c.link # "lost" \/ z # 0 => Clean(d, s, ms \cup {m}, z)
    <2>1. Traffic(d, s) # {} BY <1>2 DEF Traffic
    <2> QED BY <1>2, <2>1 DEF Clean
<1> QED BY <1>6, <1>7, <1>8 DEF d

\* After an end nothing is left of the symbol, unless a request was overtaken.
LEMMA EndedRight ==
    ASSUME NEW c \in Conn, NEW s \in Sym, NEW ms, Neat(c, s, ms)
    PROVE  /\ \A ns : Neat(UnsubscribeOutcome(c, s).conn, s, ns)
           /\ UnsubscribeOutcome(c, s).conn.link = c.link
<1>1. PICK d \in Conn : d = UnsubscribeOutcome(c, s).conn BY Agrees
<1>2. CASE s \in c.held
    <2>1. d = Released(c, s) BY <1>1, <1>2, Agrees
    <2>2. /\ Released(c, s).link = c.link
          /\ Released(c, s).unsent[s] = c.unsent[s]
          /\ c.link = "open" => Released(c, s).fed[s] = 0
          /\ s \in Released(c, s).hasty <=>
                 s \in c.hasty \/ c.link # "open" \/ c.unsent[s] # {}
        BY Releases
    <2>3. s \notin d.hasty => d.unsent[s] = {} /\ d.fed[s] = 0 BY <2>1, <2>2
    <2>4. s \notin d.hasty => Traffic(d, s) = {} BY <2>3 DEF Traffic
    <2> QED BY <1>1, <2>1, <2>2, <2>4 DEF Neat
<1>3. CASE s \notin c.held
    <2>1. d = c BY <1>1, <1>3, Agrees
    <2>2. s \notin d.hasty => Traffic(d, s) = {} BY <1>3, <2>1 DEF Neat
    <2> QED BY <1>1, <2>1, <2>2 DEF Neat
<1> QED BY <1>2, <1>3

\* What is said of a symbol depends on the highest of its modes only.
LEMMA OnlyTheHighest ==
    ASSUME NEW c \in Conn, NEW s \in Sym, NEW ms, NEW ns,
           ms = {} <=> ns = {}, ms # {} => Max(ns) = Max(ms)
    PROVE  /\ Neat(c, s, ms) => Neat(c, s, ns)
           /\ Owed(c, s, ms) => Owed(c, s, ns)
           /\ \A y, z : (z = 0 => y = 0) /\ Clean(c, s, ms, y) => Clean(c, s, ns, z)
<1>1. Neat(c, s, ms) => Neat(c, s, ns) BY DEF Neat
<1>2. Owed(c, s, ms) => Owed(c, s, ns) BY DEF Owed
<1>3. \A y, z : (z = 0 => y = 0) /\ Clean(c, s, ms, y) => Clean(c, s, ns, z) BY DEF Clean
<1> QED BY <1>1, <1>2, <1>3

\* A request that is sent.
LEMMA SentRight ==
    ASSUME NEW c \in Conn, NEW s \in Sym, NEW ms, NEW m \in c.unsent[s],
           NEW rest \in {c.unsent[s] \ {m}} \cup {c.unsent[r] : r \in c.hasty \cap {s}}
    PROVE  /\ Sent(c, s, m, rest) \in Conn
           /\ Neat(c, s, ms) => Neat(Sent(c, s, m, rest), s, ms)
           /\ Owed(c, s, ms) => Owed(Sent(c, s, m, rest), s, ms)
           /\ \A z : Clean(c, s, ms, z) => Clean(Sent(c, s, m, rest), s, ms, z)
<1>1. c.unsent[s] \in SUBSET Modes /\ c.fed \in [Sym -> Modes \cup {0}]
      /\ c.unsent \in [Sym -> SUBSET Modes]
    BY DEF Conn
<1>2. m \in Modes /\ rest \subseteq c.unsent[s] BY <1>1
<1>3. rest \in SUBSET Modes BY <1>1, <1>2
<1> DEFINE d == Sent(c, s, m, rest)
<1>4. d \in Conn BY <1>2, <1>3, Sends
<1>5. d.link = c.link /\ d.held = c.held /\ d.hasty = c.hasty
      /\ d.fed[s] = m /\ d.unsent[s] = rest
    BY <1>2, <1>3, Sends
<1> HIDE DEF d
<1>6. s \notin c.hasty => rest = c.unsent[s] \ {m} OBVIOUS
<1>7. Traffic(d, s) # {} /\ Traffic(d, s) \subseteq Traffic(c, s)
    <2>1. m # 0 BY <1>2, PoolAssumption
    <2> QED BY <1>2, <1>5, <2>1 DEF Traffic
<1>8. Neat(c, s, ms) => Neat(d, s, ms) BY <1>5, <1>7 DEF Neat
<1>9. Owed(c, s, ms) => Owed(d, s, ms)
    <2> SUFFICES ASSUME Owed(c, s, ms), ms # {}, s \notin c.hasty
                 PROVE  d.unsent[s] = {} /\ d.fed[s] = Max(ms)
        BY <1>5 DEF Owed
    <2>1. c.unsent[s] = {Max(ms)} BY DEF Owed
    <2> QED BY <1>5, <1>6, <2>1
<1>10. \A z : Clean(c, s, ms, z) => Clean(d, s, ms, z) BY <1>5, <1>7 DEF Clean
<1> QED BY <1>4, <1>8, <1>9, <1>10 DEF d

\* A request that is thrown away, by a connection that lost its socket.
LEMMA DiscardedRight ==
    ASSUME NEW c \in Conn, NEW s \in Sym, NEW ms, NEW m \in c.unsent[s], c.link = "lost"
    PROVE  /\ Discarded(c, s, m) \in Conn
           /\ Neat(Discarded(c, s, m), s, ms)
           /\ Owed(c, s, ms) => Owed(Discarded(c, s, m), s, ms)
           /\ \A z : Clean(c, s, ms, z) => Clean(Discarded(c, s, m), s, ms, z)
<1>1. m \in Modes BY DEF Conn
<1> DEFINE d == Discarded(c, s, m)
<1>2. d \in Conn BY <1>1, Discards
<1>3. d.link = c.link /\ d.held = c.held /\ s \in d.hasty BY <1>1, Discards
<1> HIDE DEF d
<1>4. Neat(d, s, ms) BY <1>3 DEF Neat
<1>5. Owed(c, s, ms) => Owed(d, s, ms) BY <1>3 DEF Owed
<1>6. \A z : Clean(c, s, ms, z) => Clean(d, s, ms, z) BY <1>3 DEF Clean
<1> QED BY <1>2, <1>4, <1>5, <1>6 DEF d

\* Calls only add to the faults.
LEMMA FaultsGrow ==
    ASSUME PoolTypeOK, [PoolNext]_pool
    PROVE  faults \in Nat /\ faults' \in Nat /\ faults <= faults'
<1>1. faults \in Nat BY PoolAssumption DEF PoolTypeOK
<1>2. \A c, s, m : \A r \in SubscribeOutcomes(c, s, m) : r.faults \in {0, 1}
    BY DEF SubscribeOutcomes, Outcome
<1>3. \A n \in {0, 1, 2} : Spend(n) => faults' \in {faults, faults + 1, faults + 2}
    BY <1>1 DEF Spend
<1>4. faults' \in {faults, faults + 1, faults + 2}
    <2>1. ASSUME NEW s \in Sym, NEW m \in Modes, NEW ok \in BOOLEAN, PoolSubscribe(s, m, ok)
          PROVE  faults' \in {faults, faults + 1, faults + 2}
        <3>1. CASE SubscribeCovered(s, m, ok) BY <3>1 DEF SubscribeCovered
        <3>2. CASE SubscribeUpgrade(s, m, ok)
            <4>1. PICK n \in {0, 1} : Spend(n) BY <1>2, <3>2 DEF SubscribeUpgrade
            <4> QED BY <1>3, <4>1
        <3>3. CASE SubscribeNew(s, m, ok)
            <4>1. ASSUME NEW cs, NEW ns, NEW i, NEW spent \in {0, 1},
                         SubscribeOn(cs, ns, i, s, m, ok, spent)
                  PROVE  faults' \in {faults, faults + 1, faults + 2}
                <5>1. PICK r \in SubscribeOutcomes(cs[i], s, m) : Spend(r.faults + spent)
                    BY <4>1 DEF SubscribeOn
                <5>2. r.faults + spent \in {0, 1, 2}
                    <6>1. r.faults \in {0, 1} BY <1>2
                    <6> QED BY <6>1
                <5> QED BY <1>3, <5>1, <5>2
            <4>2. CASE Refuse BY <4>2 DEF Refuse, pool
            <4>3. 0 \in {0, 1} /\ \A link : (IF link = "open" THEN 0 ELSE 1) \in {0, 1} OBVIOUS
            <4> QED BY <3>3, <4>1, <4>2, <4>3 DEF SubscribeNew
        <3> QED BY <2>1, <3>1, <3>2, <3>3 DEF PoolSubscribe
    <2>2. ASSUME NEW s \in Sym, NEW m \in Modes, NEW ok \in BOOLEAN, PoolUnsubscribe(s, m, ok)
          PROVE  faults' \in {faults, faults + 1, faults + 2}
        <3>1. CASE Refuse BY <3>1 DEF Refuse, pool
        <3>2. CASE UnsubscribeLast(s, m, ok) BY <3>2 DEF UnsubscribeLast
        <3>3. CASE UnsubscribeLower(s, m, ok) BY <3>3 DEF UnsubscribeLower
        <3>4. CASE UnsubscribeHighest(s, m, ok)
            <4> DEFINE off == UnsubscribeOutcome(conns[tracked[s][m]], s).conn
                       low == Max(ModesOf(s) \ {m})
            <4>1. PICK d \in SubscribeOutcomes(off, s, low) :
                      \/ Spend(d.faults)
                      \/ \E b \in SubscribeOutcomes(d.conn, s, m) : Spend(d.faults + b.faults)
                BY <3>4 DEF UnsubscribeHighest
            <4>2. d.faults \in {0, 1} BY <1>2
            <4>3. CASE Spend(d.faults) BY <1>3, <4>2, <4>3
            <4>4. ASSUME NEW b \in SubscribeOutcomes(d.conn, s, m), Spend(d.faults + b.faults)
                  PROVE  faults' \in {faults, faults + 1, faults + 2}
                <5>1. b.faults \in {0, 1} BY <1>2
                <5>2. d.faults + b.faults \in {0, 1, 2} BY <4>2, <5>1
                <5> QED BY <1>3, <4>4, <5>2
            <4> QED BY <4>1, <4>3, <4>4
        <3> QED BY <2>2, <3>1, <3>2, <3>3, <3>4 DEF PoolUnsubscribe
    <2>3. ASSUME NEW ok \in BOOLEAN, PoolOpen(ok)
          PROVE  faults' \in {faults, faults + 1, faults + 2}
        <3>1. Spend(0) \/ Spend(1) BY <2>3 DEF PoolOpen
        <3> QED BY <1>3, <3>1
    <2>4. CASE PoolDisconnect BY <2>4 DEF PoolDisconnect
    <2>5. CASE AdapterStep
        <3>1. faults' \in {faults, faults + 1} BY <2>5, OwnStep
        <3> QED BY <3>1
    <2>6. CASE UNCHANGED pool BY <2>6 DEF pool
    <2> QED BY <2>1, <2>2, <2>3, <2>4, <2>5, <2>6 DEF PoolNext
<1> QED BY <1>1, <1>4

\* A symbol is on the connection of its modes and on no other.
LEMMA OnOne ==
    ASSUME Inv, NEW s \in Sym
    PROVE  /\ \A i \in Nat \ {0} : s \in On(i) <=> PlaceOf(s) = i
           /\ ModesOf(s) # {} => PlaceOf(s) \in 1..Len(conns)
           /\ ModesOf(s) = {} => \A i \in Nat \ {0} : s \notin On(i)
<1>1. PlaceOf(s) \in 0..Len(conns) /\ (ModesOf(s) = {} <=> PlaceOf(s) = 0) BY Places
<1>2. Len(conns) \in Nat BY DEF Inv, PoolTypeOK
<1> QED BY <1>1, <1>2, PlaceOfTracked

\* Tracking a symbol in one more mode, at its place.
LEMMA OnAfterTracking ==
    ASSUME Inv, NEW s \in Sym, NEW m \in Modes, NEW i \in 1..MaxConnections,
           Tracks(s, m, i)
    PROVE  /\ s \in On(i)'
           /\ ModesOf(s) = {} \/ PlaceOf(s) = i =>
                  \A j \in Nat \ {0, i} : s \notin On(j) /\ s \notin On(j)'
           /\ ModesOf(s)' = ModesOf(s) \cup {m}
           /\ \A t \in Sym \ {s} : ModesOf(t)' = ModesOf(t) /\ tracked'[t] = tracked[t]
<1>1. PoolTypeOK /\ i \in 0..MaxConnections /\ i # 0 BY DEF Inv
<1>2. /\ \A t \in Sym \ {s} : ModesOf(t)' = ModesOf(t) /\ tracked'[t] = tracked[t]
      /\ i # 0 => ModesOf(s)' = ModesOf(s) \cup {m}
      /\ tracked'[s][m] = i
      /\ \A n \in Modes \ {m} : tracked'[s][n] = tracked[s][n]
    BY <1>1, AfterTracking
<1>3. s \in On(i)' BY <1>2 DEF On
<1>4. ModesOf(s) = {} \/ PlaceOf(s) = i => \A j \in Nat \ {0, i} : s \notin On(j)
    <2>1. \A j \in Nat \ {0} : s \in On(j) <=> PlaceOf(s) = j BY OnOne
    <2>2. ModesOf(s) = {} => PlaceOf(s) = 0 BY DEF PlaceOf
    <2> QED BY <2>1, <2>2
<1>5. \A j \in Nat \ {0, i} : s \in On(j)' => s \in On(j)
    <2>1. \A j \in Nat \ {0, i} : \A n \in Modes : tracked'[s][n] = j => tracked[s][n] = j
        BY <1>2
    <2> QED BY <2>1 DEF On
<1> QED BY <1>1, <1>2, <1>3, <1>4, <1>5

\* Forgetting a mode of a symbol.
LEMMA OnAfterForgetting ==
    ASSUME Inv, NEW s \in Sym, NEW m \in Modes, tracked' = Forget(s, m), m \in ModesOf(s)
    PROVE  /\ \A j \in Nat \ {0} : s \in On(j)' <=> PlaceOf(s) = j /\ ModesOf(s) \ {m} # {}
           /\ ModesOf(s)' = ModesOf(s) \ {m}
           /\ \A t \in Sym \ {s} : ModesOf(t)' = ModesOf(t) /\ tracked'[t] = tracked[t]
<1>1. PoolTypeOK /\ 0 \in 0..MaxConnections BY PoolAssumption DEF Inv
<1>2. Tracks(s, m, 0) BY DEF Forget, Tracks
<1>3. /\ \A t \in Sym \ {s} : ModesOf(t)' = ModesOf(t) /\ tracked'[t] = tracked[t]
      /\ ModesOf(s)' = ModesOf(s) \ {m}
      /\ tracked'[s][m] = 0
      /\ \A n \in Modes \ {m} : tracked'[s][n] = tracked[s][n]
    <2>1. /\ \A t \in Sym \ {s} : ModesOf(t)' = ModesOf(t) /\ tracked'[t] = tracked[t]
          /\ 0 = 0 => ModesOf(s)' = ModesOf(s) \ {m}
          /\ tracked'[s][m] = 0
          /\ \A n \in Modes \ {m} : tracked'[s][n] = tracked[s][n]
        BY <1>1, <1>2, AfterTracking
    <2> QED BY <2>1
<1>4. /\ \A n \in ModesOf(s) : tracked[s][n] = PlaceOf(s)
      /\ \A j \in Nat \ {0} : s \in On(j) <=> PlaceOf(s) = j
      /\ ModesOf(s) \subseteq Modes
    BY PlaceOfTracked
<1>5. PlaceOf(s) \in Nat \ {0}
    <2>1. PlaceOf(s) \in 1..Len(conns) /\ Len(conns) \in Nat BY OnOne DEF Inv, PoolTypeOK
    <2> QED BY <2>1
<1>6. \A j \in Nat \ {0} : s \in On(j)' => PlaceOf(s) = j
    <2>1. \A j \in Nat \ {0} : \A n \in Modes : tracked'[s][n] = j => tracked[s][n] = j
        BY <1>3
    <2> QED BY <1>4, <2>1 DEF On
<1>7. \A j \in Nat \ {0} : s \in On(j)' <=> \E n \in Modes : tracked'[s][n] = j
    BY DEF On
<1>8. ASSUME ModesOf(s) \ {m} # {} PROVE \E n \in Modes : tracked'[s][n] = PlaceOf(s)
    <2>1. PICK n \in ModesOf(s) : n # m BY <1>8
    <2> QED BY <1>3, <1>4, <2>1
<1>9. ASSUME NEW n \in Modes, tracked'[s][n] = PlaceOf(s) PROVE ModesOf(s) \ {m} # {}
    <2>1. n # m BY <1>3, <1>5, <1>9
    <2>2. n \in ModesOf(s) BY <1>3, <1>5, <1>9, <2>1 DEF ModesOf
    <2> QED BY <2>1, <2>2
<1>10. \A j \in Nat \ {0} : s \in On(j)' <=> PlaceOf(s) = j /\ ModesOf(s) \ {m} # {}
    BY <1>6, <1>7, <1>8, <1>9
<1> QED BY <1>3, <1>10

\* The modes of s become ms, and those of the other symbols stay as they are.
ModesAfter(s, ms) == ModesOf(s)' = ms /\ \A t \in Sym \ {s} : ModesOf(t)' = ModesOf(t)

\* A step that makes adapter i of cs into c, which says the same of all symbols but s.
Retold(cs, i, c, s) ==
    /\ conns' = [cs EXCEPT ![i] = c]
    /\ c.link = cs[i].link
    /\ \A t \in Sym \ {s} : Same(cs[i], c, t) /\ tracked'[t] = tracked[t]
    /\ \A j \in (1..Len(cs)) \ {i} : At(j, s)' = At(j, s)

\* Such a step only has to be right about s.
LEMMA After ==
    ASSUME NEW s \in Sym, NEW cs \in Seq(Conn), NEW i \in 1..Len(cs), NEW c \in Conn,
           Retold(cs, i, c, s), faults' = 0 => faults = 0, NEW ms, At(i, s)' = ms
    PROVE  /\ Len(conns') = Len(cs) /\ \A j \in 1..Len(cs) : conns'[j].link = cs[j].link
           /\ TidyIn(cs) /\ Neat(c, s, ms) => Tidy'
           /\ FedIn(cs) /\ Owed(c, s, ms) /\ Clean(c, s, ms, faults') => Fed'
<1>1. /\ Len(conns') = Len(cs) /\ conns'[i] = c
      /\ \A j \in (1..Len(cs)) \ {i} : conns'[j] = cs[j]
    BY DEF Retold
<1>2. \A t \in Sym \ {s} : \A j : At(j, t)' = At(j, t)
    <2>1. \A t \in Sym \ {s} : ModesOf(t)' = ModesOf(t) BY DEF Retold, ModesOf
    <2>2. \A t \in Sym \ {s} : \A j : t \in On(j)' <=> t \in On(j) BY DEF Retold, On
    <2> QED BY <2>1, <2>2 DEF At
<1>3. \A j \in 1..Len(cs) : conns'[j].link = cs[j].link BY <1>1 DEF Retold
<1>4. ASSUME TidyIn(cs), Neat(c, s, ms), NEW j \in 1..Len(cs), NEW t \in Sym
      PROVE  Neat(conns'[j], t, At(j, t)')
    <2>1. Neat(cs[j], t, At(j, t)) BY <1>4 DEF TidyIn
    <2>2. CASE t = s /\ j = i BY <1>1, <1>4, <2>2
    <2>3. CASE t = s /\ j # i
        <3>1. conns'[j] = cs[j] /\ At(j, t)' = At(j, t) BY <1>1, <2>3 DEF Retold
        <3> QED BY <2>1, <3>1
    <2>4. CASE t # s /\ j = i
        <3>1. Same(cs[i], c, t) BY <2>4 DEF Retold
        <3>2. Neat(c, t, At(i, t)) BY <2>1, <2>4, <3>1 DEF Same, Neat, Traffic
        <3> QED BY <1>1, <1>2, <2>4, <3>2
    <2>5. CASE t # s /\ j # i
        <3>1. conns'[j] = cs[j] /\ At(j, t)' = At(j, t) BY <1>1, <1>2, <2>5
        <3> QED BY <2>1, <3>1
    <2> QED BY <2>2, <2>3, <2>4, <2>5
<1>5. ASSUME FedIn(cs), Owed(c, s, ms), Clean(c, s, ms, faults'), NEW j \in 1..Len(cs),
             NEW t \in Sym
      PROVE  Owed(conns'[j], t, At(j, t)') /\ Clean(conns'[j], t, At(j, t)', faults')
    <2>1. Owed(cs[j], t, At(j, t)) /\ Clean(cs[j], t, At(j, t), faults) BY <1>5 DEF FedIn
    <2>2. Clean(cs[j], t, At(j, t), faults') BY <2>1 DEF Clean
    <2>3. CASE t = s /\ j = i BY <1>1, <1>5, <2>3
    <2>4. CASE t = s /\ j # i
        <3>1. conns'[j] = cs[j] /\ At(j, t)' = At(j, t) BY <1>1, <2>4 DEF Retold
        <3> QED BY <2>1, <2>2, <3>1
    <2>5. CASE t # s /\ j = i
        <3>1. Same(cs[i], c, t) /\ c.link = cs[i].link BY <2>5 DEF Retold
        <3>2. Owed(c, t, At(i, t)) BY <2>1, <2>5, <3>1 DEF Same, Owed
        <3>3. Clean(c, t, At(i, t), faults') BY <2>2, <2>5, <3>1 DEF Same, Clean, Traffic
        <3> QED BY <1>1, <1>2, <2>5, <3>2, <3>3
    <2>6. CASE t # s /\ j # i
        <3>1. conns'[j] = cs[j] /\ At(j, t)' = At(j, t) BY <1>1, <1>2, <2>6
        <3> QED BY <2>1, <2>2, <3>1
    <2> QED BY <2>3, <2>4, <2>5, <2>6
<1>6. TidyIn(cs) /\ Neat(c, s, ms) => Tidy' BY <1>1, <1>4 DEF Tidy, TidyIn
<1>7. FedIn(cs) /\ Owed(c, s, ms) /\ Clean(c, s, ms, faults') => Fed'
    BY <1>1, <1>5 DEF Fed, FedIn
<1> QED BY <1>1, <1>3, <1>6, <1>7

\* A step that changes no adapter, and no highest mode.
LEMMA Untold ==
    ASSUME NEW cs \in Seq(Conn), conns' = cs, faults' = 0 => faults = 0,
           \A j \in 1..Len(cs) : \A t \in Sym :
               /\ At(j, t)' = {} <=> At(j, t) = {}
               /\ At(j, t) # {} => Max(At(j, t)') = Max(At(j, t))
    PROVE  (TidyIn(cs) => Tidy') /\ (FedIn(cs) => Fed')
<1>1. ASSUME NEW j \in 1..Len(cs), NEW t \in Sym
      PROVE  /\ Neat(cs[j], t, At(j, t)) => Neat(cs[j], t, At(j, t)')
             /\ Owed(cs[j], t, At(j, t)) => Owed(cs[j], t, At(j, t)')
             /\ Clean(cs[j], t, At(j, t), faults) => Clean(cs[j], t, At(j, t)', faults')
    <2>1. cs[j] \in Conn OBVIOUS
    <2>2. \E ms, ns : ms = At(j, t) /\ ns = At(j, t)' OBVIOUS
    <2>3. PICK ms, ns : ms = At(j, t) /\ ns = At(j, t)' BY <2>2
    <2>4. (ms = {} <=> ns = {}) /\ (ms # {} => Max(ns) = Max(ms)) BY <2>3
    <2>5. /\ Neat(cs[j], t, ms) => Neat(cs[j], t, ns)
          /\ Owed(cs[j], t, ms) => Owed(cs[j], t, ns)
          /\ \A y, z : (z = 0 => y = 0) /\ Clean(cs[j], t, ms, y) => Clean(cs[j], t, ns, z)
        BY <2>1, <2>4, OnlyTheHighest
    <2> QED BY <2>3, <2>5
<1>2. TidyIn(cs) => Tidy' BY <1>1 DEF Tidy, TidyIn
<1>3. FedIn(cs) => Fed' BY <1>1 DEF Fed, FedIn
<1> QED BY <1>2, <1>3

\* A connection of cs that was not in conns has nothing to do.
LEMMA FreshAppended ==
    ASSUME Inv, NEW link \in {"off", "starting", "open"}
    PROVE  /\ Tidy => TidyIn(Append(conns, Fresh(link)))
           /\ Fed => FedIn(Append(conns, Fresh(link)))
<1>1. conns \in Seq(Conn) /\ Len(conns) \in Nat BY DEF Inv, PoolTypeOK
<1> DEFINE cs == Append(conns, Fresh(link))
<1>2. /\ Len(cs) = Len(conns) + 1
      /\ \A j \in 1..Len(conns) : cs[j] = conns[j]
      /\ cs[Len(conns) + 1] = Fresh(link)
    BY <1>1
<1>3. \A s \in Sym : Traffic(Fresh(link), s) = {} /\ Fresh(link).link # "lost"
    BY DEF Fresh, Traffic
<1>4. \A s \in Sym : At(Len(conns) + 1, s) = {}
    <2>1. \A s \in Sym : PlaceOf(s) \in 0..Len(conns) BY Places
    <2>2. \A s \in Sym : s \notin On(Len(conns) + 1) BY <1>1, <2>1, OnOne
    <2> QED BY <2>2 DEF At
<1>5. \A s \in Sym : Neat(Fresh(link), s, {}) BY <1>3 DEF Neat
<1>6. \A s \in Sym : Owed(Fresh(link), s, {}) /\ Clean(Fresh(link), s, {}, faults)
    BY <1>3 DEF Owed, Clean
<1>7. \A j \in 1..Len(cs) : j \in 1..Len(conns) \/ j = Len(conns) + 1 BY <1>1, <1>2
<1> HIDE DEF cs
<1>8. Tidy => TidyIn(cs) BY <1>2, <1>4, <1>5, <1>7 DEF Tidy, TidyIn
<1>9. Fed => FedIn(cs) BY <1>2, <1>4, <1>6, <1>7 DEF Fed, FedIn
<1> QED BY <1>8, <1>9 DEF cs

\* A call for a symbol that connection i of cs holds, or that none holds, accepted or not.
LEMMA SubscribedAt ==
    ASSUME Inv, NEW s \in Sym, NEW m \in Modes, NEW cs \in Seq(Conn),
           Len(cs) <= MaxConnections,
           NEW i \in 1..Len(cs), ModesOf(s) = {} \/ PlaceOf(s) = i,
           \A n \in ModesOf(s) : n <= m,
           NEW r \in SubscribeOutcomes(cs[i], s, m),
           conns' = [cs EXCEPT ![i] = r.conn],
           tracked' = IF r.ok THEN [tracked EXCEPT ![s][m] = i] ELSE tracked,
           faults' = 0 => faults = 0
    PROVE  /\ ModesAfter(s, IF r.ok THEN ModesOf(s) \cup {m} ELSE ModesOf(s))
           /\ Len(conns') = Len(cs)
           /\ \A j \in 1..Len(cs) : conns'[j].link = cs[j].link
           /\ TidyIn(cs) => Tidy'
           /\ FedIn(cs) => Fed'
<1>1. cs[i] \in Conn OBVIOUS
<1>2. /\ r.ok \in BOOLEAN /\ r.conn \in Conn
      /\ r.ok => r.conn = Queued(cs[i], s, m) /\ cs[i].link \in {"open", "lost"}
      /\ ~r.ok => r.conn = cs[i]
    BY <1>1, Answers
<1>4. CASE ~r.ok
    <2>1. tracked' = tracked BY <1>4
    <2>2. conns' = cs BY <1>2, <1>4
    <2>3. \A t \in Sym : ModesOf(t)' = ModesOf(t) BY <2>1 DEF ModesOf
    <2>4. ModesAfter(s, ModesOf(s)) BY <2>3 DEF ModesAfter
    <2>5. \A j : On(j)' = On(j) BY <2>1 DEF On
    <2>6. \A j : \A t \in Sym : At(j, t)' = At(j, t) BY <2>3, <2>5 DEF At
    <2>7. (TidyIn(cs) => Tidy') /\ (FedIn(cs) => Fed') BY <2>2, <2>6, Untold
    <2> QED BY <1>4, <2>2, <2>4, <2>7
<1>5. CASE r.ok
    <2>1. i \in 1..MaxConnections /\ Len(cs) \in Nat BY PoolAssumption
    <2>2. Tracks(s, m, i) BY <1>5 DEF Tracks
    <2>3. /\ s \in On(i)'
          /\ \A j \in Nat \ {0, i} : s \notin On(j) /\ s \notin On(j)'
          /\ ModesOf(s)' = ModesOf(s) \cup {m}
          /\ \A t \in Sym \ {s} : ModesOf(t)' = ModesOf(t) /\ tracked'[t] = tracked[t]
        BY <2>1, <2>2, OnAfterTracking
    <2>4. PICK c \in Conn : c = Queued(cs[i], s, m) BY <1>1, Queues
    <2>5. conns' = [cs EXCEPT ![i] = c] BY <1>2, <1>5, <2>4
    <2>6. c.link = cs[i].link /\ \A t \in Sym \ {s} : Same(cs[i], c, t)
        BY <1>1, <2>4, Queues
    <2>7. \A j \in (1..Len(cs)) \ {i} : At(j, s)' = At(j, s)
        BY <2>1, <2>3 DEF At
    <2>8. Retold(cs, i, c, s) BY <2>3, <2>5, <2>6, <2>7 DEF Retold
    <2>9. PICK ms \in SUBSET Modes : ms = ModesOf(s) BY DEF ModesOf
    <2>10. At(i, s) = ms
        <3>1. PlaceOf(s) = i => s \in On(i) BY <2>1, OnOne
        <3> QED BY <2>9, <3>1 DEF At
    <2>11. At(i, s)' = ms \cup {m} BY <2>3, <2>9 DEF At
    <2>12. /\ Neat(cs[i], s, ms) => Neat(c, s, ms \cup {m})
           /\ cs[i].link \in {"open", "lost"} => Owed(c, s, ms \cup {m})
           /\ \A z : cs[i].link # "lost" \/ z # 0 => Clean(c, s, ms \cup {m}, z)
        <3>1. \A n \in ms : n <= m BY <2>9
        <3>2. /\ Neat(cs[i], s, ms) => Neat(Queued(cs[i], s, m), s, ms \cup {m})
              /\ cs[i].link \in {"open", "lost"} => Owed(Queued(cs[i], s, m), s, ms \cup {m})
              /\ \A z : cs[i].link # "lost" \/ z # 0 =>
                     Clean(Queued(cs[i], s, m), s, ms \cup {m}, z)
            BY <1>1, <3>1, QueuedRight
        <3> QED BY <2>4, <3>2
    <2>13. /\ Len(conns') = Len(cs) /\ \A j \in 1..Len(cs) : conns'[j].link = cs[j].link
           /\ TidyIn(cs) /\ Neat(c, s, ms \cup {m}) => Tidy'
           /\ FedIn(cs) /\ Owed(c, s, ms \cup {m}) /\ Clean(c, s, ms \cup {m}, faults') => Fed'
        BY <2>8, <2>11, After
    <2>14. TidyIn(cs) => Tidy'
        <3>1. TidyIn(cs) => Neat(cs[i], s, ms) BY <2>10 DEF TidyIn
        <3> QED BY <2>12, <2>13, <3>1
    <2>15. FedIn(cs) => Fed'
        <3>1. FedIn(cs) => cs[i].link # "lost" \/ faults' # 0 BY DEF FedIn, Clean
        <3> QED BY <1>2, <1>5, <2>12, <2>13, <3>1
    <2>16. ModesAfter(s, ModesOf(s) \cup {m}) BY <2>3 DEF ModesAfter
    <2> QED BY <1>5, <2>13, <2>14, <2>15, <2>16
<1> QED BY <1>2, <1>4, <1>5

\* When only s was retracked, at its place and below its highest mode, every
\* connection has the same highest mode of every symbol as before.
LEMMA AtLike ==
    ASSUME NEW s \in Sym, ModesOf(s) # {}, ModesOf(s)' # {},
           Max(ModesOf(s)') = Max(ModesOf(s)),
           \A j \in Nat \ {0} : s \in On(j)' <=> s \in On(j),
           \A t \in Sym \ {s} : ModesOf(t)' = ModesOf(t) /\ tracked'[t] = tracked[t]
    PROVE  \A j \in Nat \ {0} : \A t \in Sym :
               /\ At(j, t)' = {} <=> At(j, t) = {}
               /\ At(j, t) # {} => Max(At(j, t)') = Max(At(j, t))
<1>1. ASSUME NEW j \in Nat \ {0}, NEW t \in Sym \ {s} PROVE At(j, t)' = At(j, t)
    <2>1. t \in On(j)' <=> t \in On(j) BY DEF On
    <2> QED BY <2>1 DEF At
<1>2. ASSUME NEW j \in Nat \ {0}
      PROVE  /\ At(j, s)' = {} <=> At(j, s) = {}
             /\ At(j, s) # {} => Max(At(j, s)') = Max(At(j, s))
    <2>1. CASE s \in On(j)
        <3>1. At(j, s) = ModesOf(s) /\ At(j, s)' = ModesOf(s)' BY <2>1 DEF At
        <3> QED BY <3>1
    <2>2. CASE s \notin On(j)
        <3>1. At(j, s) = {} /\ At(j, s)' = {} BY <2>2 DEF At
        <3> QED BY <3>1
    <2> QED BY <2>1, <2>2
<1> QED BY <1>1, <1>2

\* A call says nothing of whether the clients of the broker are started.
LinksGoOn ==
    /\ Len(conns') \in Nat /\ Len(conns) <= Len(conns')
    /\ \A j \in 1..Len(conns) : conns'[j].link = "off" <=> conns[j].link = "off"

\* A step that leaves the pool's tables alone.
LEMMA Alike ==
    ASSUME tracked' = tracked, conns' = conns, faults' = 0 => faults = 0, conns \in Seq(Conn)
    PROVE  /\ \A s \in Sym : ModesAfter(s, ModesOf(s))
           /\ LinksGoOn
           /\ (Tidy => Tidy') /\ (Fed => Fed')
<1>1. (\A t \in Sym : ModesOf(t)' = ModesOf(t)) /\ \A j : On(j)' = On(j)
    BY DEF ModesOf, On
<1>2. \A j : \A t \in Sym : At(j, t)' = At(j, t) BY <1>1 DEF At
<1>3. (TidyIn(conns) => Tidy') /\ (FedIn(conns) => Fed') BY <1>2, Untold
<1>4. LinksGoOn BY DEF LinksGoOn
<1> QED BY <1>1, <1>3, <1>4 DEF ModesAfter, Tidy, Fed

\* subscribe tracks the mode that was accepted, and asks for it where the symbol is.
LEMMA SubscribeStep ==
    ASSUME Inv, NEW s \in Sym, NEW m \in Modes, NEW ok \in BOOLEAN, PoolSubscribe(s, m, ok)
    PROVE  /\ ModesAfter(s, IF ok THEN ModesOf(s) \cup {m} ELSE ModesOf(s))
           /\ LinksGoOn
           /\ (Tidy => Tidy') /\ (Fed => Fed')
<1>1. /\ PoolTypeOK /\ conns \in Seq(Conn) /\ Len(conns) \in Nat /\ Len(conns) <= MaxConnections
      /\ Len(counts) = Len(conns) /\ counts \in Seq(Nat)
    BY DEF Inv, PoolTypeOK, CountsMatch
<1>2. ModesOf(s) \subseteq 1..3 /\ Modes \subseteq 1..3 BY PoolAssumption DEF ModesOf
<1>6. faults' = 0 => faults = 0
    <2>1. [PoolNext]_pool BY DEF PoolNext
    <2> QED BY <1>1, <2>1, FaultsGrow
<1>3. CASE SubscribeCovered(s, m, ok)
    <2>1. ok /\ conns' = conns BY <1>3 DEF SubscribeCovered
    <2>2. PICK n \in ModesOf(s) : m <= n BY <1>3 DEF SubscribeCovered
    <2>3. tracked' = [tracked EXCEPT ![s][m] = PlaceOf(s)]
        BY <1>3, <2>2 DEF SubscribeCovered, PlaceOf
    <2>4. PICK i \in 1..Len(conns) : i = PlaceOf(s) BY <2>2, OnOne
    <2>5. i \in 1..MaxConnections BY <1>1, PoolAssumption
    <2>6. Tracks(s, m, i) BY <2>3, <2>4 DEF Tracks
    <2>7. /\ s \in On(i)'
          /\ \A j \in Nat \ {0, i} : s \notin On(j) /\ s \notin On(j)'
          /\ ModesOf(s)' = ModesOf(s) \cup {m}
          /\ \A t \in Sym \ {s} : ModesOf(t)' = ModesOf(t) /\ tracked'[t] = tracked[t]
        BY <2>4, <2>5, <2>6, OnAfterTracking
    <2>8. Max(ModesOf(s)') = Max(ModesOf(s))
        <3>1. Max(ModesOf(s)) \in ModesOf(s) /\ \A k \in ModesOf(s) : k <= Max(ModesOf(s))
            BY <1>2, <2>2, HighestMode
        <3>2. m <= Max(ModesOf(s)) BY <1>2, <2>2, <3>1
        <3>3. ModesOf(s)' \subseteq 1..3 /\ Max(ModesOf(s)) \in ModesOf(s)'
              /\ \A k \in ModesOf(s)' : k <= Max(ModesOf(s))
            BY <1>2, <2>7, <3>1, <3>2
        <3> QED BY <3>3, HighestIs
    <2>9. \A j \in Nat \ {0} : s \in On(j)' <=> s \in On(j)
        <3>1. s \in On(i) BY <2>4, OnOne
        <3> QED BY <2>7, <3>1
    <2>10. \A j \in 1..Len(conns) : \A t \in Sym :
               /\ At(j, t)' = {} <=> At(j, t) = {}
               /\ At(j, t) # {} => Max(At(j, t)') = Max(At(j, t))
        <3>1. ModesOf(s) # {} /\ ModesOf(s)' # {} BY <2>2, <2>7
        <3>2. \A t \in Sym \ {s} : ModesOf(t)' = ModesOf(t) /\ tracked'[t] = tracked[t]
            BY <2>7
        <3>3. \A j \in Nat \ {0} : \A t \in Sym :
                  /\ At(j, t)' = {} <=> At(j, t) = {}
                  /\ At(j, t) # {} => Max(At(j, t)') = Max(At(j, t))
            BY <2>8, <2>9, <3>1, <3>2, AtLike
        <3>4. \A j \in 1..Len(conns) : j \in Nat \ {0} BY <1>1
        <3> QED BY <3>3, <3>4
    <2>11. (TidyIn(conns) => Tidy') /\ (FedIn(conns) => Fed')
        BY <1>1, <1>6, <2>1, <2>10, Untold
    <2>12. LinksGoOn BY <1>1, <2>1 DEF LinksGoOn
    <2> QED BY <2>1, <2>7, <2>11, <2>12 DEF ModesAfter, Tidy, Fed
<1>4. CASE SubscribeUpgrade(s, m, ok)
    <2>1. ModesOf(s) # {} /\ \A n \in ModesOf(s) : n < m BY <1>4 DEF SubscribeUpgrade
    <2>2. PICK i \in 1..Len(conns) : i = PlaceOf(s) BY <2>1, OnOne
    <2>3. tracked[s][Max(ModesOf(s))] = i BY <2>1, <2>2 DEF PlaceOf
    <2>4. PICK r \in SubscribeOutcomes(conns[i], s, m) :
              /\ r.ok = ok
              /\ conns' = [conns EXCEPT ![i] = r.conn]
              /\ tracked' = IF ok THEN [tracked EXCEPT ![s][m] = i] ELSE tracked
        BY <1>4, <2>3 DEF SubscribeUpgrade
    <2>5. \A n \in ModesOf(s) : n <= m BY <1>2, <2>1
    <2>6. tracked' = IF r.ok THEN [tracked EXCEPT ![s][m] = i] ELSE tracked BY <2>4
    <2>7. /\ ModesAfter(s, IF r.ok THEN ModesOf(s) \cup {m} ELSE ModesOf(s))
          /\ Len(conns') = Len(conns)
          /\ \A j \in 1..Len(conns) : conns'[j].link = conns[j].link
          /\ TidyIn(conns) => Tidy'
          /\ FedIn(conns) => Fed'
        BY <1>1, <1>6, <2>2, <2>4, <2>5, <2>6, SubscribedAt
    <2> QED BY <1>1, <2>4, <2>7 DEF Fed, Tidy, LinksGoOn
<1>5. CASE SubscribeNew(s, m, ok)
    <2>1. ModesOf(s) = {} BY <1>5 DEF SubscribeNew
    <2>2. ASSUME NEW cs \in Seq(Conn), NEW ns, NEW i \in 1..Len(cs), NEW spent,
                 Len(cs) <= MaxConnections, Len(conns) <= Len(cs),
                 \A j \in 1..Len(conns) : cs[j].link = conns[j].link,
                 Tidy => TidyIn(cs), Fed => FedIn(cs),
                 SubscribeOn(cs, ns, i, s, m, ok, spent)
          PROVE  /\ ModesAfter(s, IF ok THEN ModesOf(s) \cup {m} ELSE ModesOf(s))
                 /\ LinksGoOn
                 /\ (Tidy => Tidy') /\ (Fed => Fed')
        <3>1. PICK r \in SubscribeOutcomes(cs[i], s, m) :
                  /\ r.ok = ok
                  /\ conns' = [cs EXCEPT ![i] = r.conn]
                  /\ tracked' = IF ok THEN [tracked EXCEPT ![s][m] = i] ELSE tracked
            BY <2>2 DEF SubscribeOn
        <3>2. tracked' = IF r.ok THEN [tracked EXCEPT ![s][m] = i] ELSE tracked BY <3>1
        <3>3. \A n \in ModesOf(s) : n <= m BY <2>1
        <3>4. /\ ModesAfter(s, IF r.ok THEN ModesOf(s) \cup {m} ELSE ModesOf(s))
              /\ Len(conns') = Len(cs)
              /\ \A j \in 1..Len(cs) : conns'[j].link = cs[j].link
              /\ TidyIn(cs) => Tidy'
              /\ FedIn(cs) => Fed'
            BY <1>6, <2>1, <2>2, <3>1, <3>2, <3>3, SubscribedAt
        <3>5. LinksGoOn BY <1>1, <2>2, <3>4 DEF LinksGoOn
        <3> QED BY <2>2, <3>1, <3>4, <3>5
    <2>3. ASSUME NEW i \in Rooms, SubscribeOn(conns, counts, i, s, m, ok, 0)
          PROVE  /\ ModesAfter(s, IF ok THEN ModesOf(s) \cup {m} ELSE ModesOf(s))
                 /\ LinksGoOn
                 /\ (Tidy => Tidy') /\ (Fed => Fed')
        <3>1. i \in 1..Len(conns) BY <1>1 DEF Rooms
        <3>2. (Tidy => TidyIn(conns)) /\ (Fed => FedIn(conns)) BY DEF Tidy, Fed
        <3>3. Len(conns) <= Len(conns) /\ \A j \in 1..Len(conns) : conns[j].link = conns[j].link
            BY <1>1
        <3> QED BY <1>1, <2>2, <2>3, <3>1, <3>2, <3>3
    <2>4. ASSUME Len(conns) < MaxConnections, NEW link \in {"off", "starting", "open"},
                 SubscribeOn(Append(conns, Fresh(link)), Append(counts, 0), Len(conns) + 1,
                             s, m, ok, IF link = "open" THEN 0 ELSE 1)
          PROVE  /\ ModesAfter(s, IF ok THEN ModesOf(s) \cup {m} ELSE ModesOf(s))
                 /\ LinksGoOn
                 /\ (Tidy => Tidy') /\ (Fed => Fed')
        <3> DEFINE cs == Append(conns, Fresh(link))
                   i == Len(conns) + 1
        <3>1. Fresh(link) \in Conn BY FreshTypes
        <3>2. /\ cs \in Seq(Conn) /\ Len(cs) = i
              /\ \A j \in 1..Len(conns) : cs[j] = conns[j]
            BY <1>1, <3>1
        <3>3. i \in 1..Len(cs) /\ Len(cs) <= MaxConnections /\ Len(conns) <= Len(cs)
            BY <1>1, <2>4, <3>2, PoolAssumption
        <3>4. (Tidy => TidyIn(cs)) /\ (Fed => FedIn(cs)) BY FreshAppended
        <3>5. \A j \in 1..Len(conns) : cs[j].link = conns[j].link BY <3>2
        <3> HIDE DEF cs, i
        <3>6. SubscribeOn(cs, Append(counts, 0), i, s, m, ok, IF link = "open" THEN 0 ELSE 1)
            BY <2>4 DEF cs, i
        <3> QED BY <2>2, <3>2, <3>3, <3>4, <3>5, <3>6
    <2>5. CASE ~ok /\ Refuse
        <3>1. tracked' = tracked /\ conns' = conns BY <2>5 DEF Refuse, pool
        <3> QED BY <1>1, <1>6, <2>5, <3>1, Alike
    <2> QED BY <1>5, <2>3, <2>4, <2>5 DEF SubscribeNew
<1> QED BY <1>3, <1>4, <1>5 DEF PoolSubscribe

\* unsubscribe of a symbol's only mode.
LEMMA LastStep ==
    ASSUME Inv, NEW s \in Sym, NEW m \in Modes, NEW ok \in BOOLEAN, UnsubscribeLast(s, m, ok)
    PROVE  /\ ModesAfter(s, IF ok THEN ModesOf(s) \ {m} ELSE ModesOf(s))
           /\ LinksGoOn
           /\ Tidy => Tidy'
           /\ Fed => Fed' /\ ok
<1>1. conns \in Seq(Conn) /\ Len(conns) \in Nat BY DEF Inv, PoolTypeOK
<1>2. ModesOf(s) = {m} BY DEF UnsubscribeLast
<1>3. PICK i \in 1..Len(conns) : i = PlaceOf(s) BY <1>2, OnOne
<1>4. tracked[s][m] = i BY <1>2, <1>3, PlaceOfTracked
<1>5. conns[i] \in Conn BY <1>1
<1>6. PICK c \in Conn : c = UnsubscribeOutcome(conns[i], s).conn BY <1>5, Agrees
<1>7. /\ ok <=> s \in conns[i].held
      /\ conns' = [conns EXCEPT ![i] = c]
      /\ tracked' = IF ok THEN Forget(s, m) ELSE tracked
      /\ faults' = faults
    <2>1. UnsubscribeOutcome(conns[i], s).ok <=> s \in conns[i].held BY <1>5, Agrees
    <2> QED BY <1>4, <1>6, <2>1 DEF UnsubscribeLast
<1>8. s \in On(i) /\ \A j \in (1..Len(conns)) \ {i} : s \notin On(j) BY <1>3, OnOne
<1>9. At(i, s) = {m} BY <1>2, <1>8 DEF At
<1>10. CASE ok
    <2>1. tracked' = Forget(s, m) /\ m \in ModesOf(s) BY <1>2, <1>7, <1>10
    <2>2. /\ \A j \in Nat \ {0} : s \in On(j)' <=> PlaceOf(s) = j /\ ModesOf(s) \ {m} # {}
          /\ ModesOf(s)' = ModesOf(s) \ {m}
          /\ \A t \in Sym \ {s} : ModesOf(t)' = ModesOf(t) /\ tracked'[t] = tracked[t]
        BY <2>1, OnAfterForgetting
    <2>3. \A j \in Nat \ {0} : s \notin On(j)' BY <1>2, <2>2
    <2>4. \A j \in 1..Len(conns) : At(j, s)' = {}
        <3>1. \A j \in 1..Len(conns) : s \notin On(j)' BY <1>1, <2>3
        <3> QED BY <3>1 DEF At
    <2>5. \A j \in (1..Len(conns)) \ {i} : At(j, s)' = At(j, s) BY <1>8, <2>4 DEF At
    <2>6. c = Released(conns[i], s) BY <1>5, <1>6, <1>7, <1>10, Agrees
    <2>7. c.link = conns[i].link /\ \A t \in Sym \ {s} : Same(conns[i], c, t)
        BY <1>5, <2>6, Releases
    <2>8. Retold(conns, i, c, s) BY <1>7, <2>2, <2>5, <2>7 DEF Retold
    <2>9. /\ Len(conns') = Len(conns) /\ \A j \in 1..Len(conns) : conns'[j].link = conns[j].link
          /\ TidyIn(conns) /\ Neat(c, s, {}) => Tidy'
          /\ FedIn(conns) /\ Owed(c, s, {}) /\ Clean(c, s, {}, faults') => Fed'
        BY <1>1, <1>7, <2>4, <2>8, After
    <2>10. Tidy => Tidy'
        <3> SUFFICES ASSUME Tidy PROVE Neat(c, s, {})
            BY <2>9 DEF Tidy
        <3>1. Neat(conns[i], s, {m}) BY <1>9 DEF Tidy, TidyIn
        <3> QED BY <1>5, <1>6, <3>1, EndedRight
    <2>11. Fed => Fed'
        <3> SUFFICES ASSUME Fed PROVE Owed(c, s, {}) /\ Clean(c, s, {}, faults')
            BY <2>9 DEF Fed
        <3>1. Clean(conns[i], s, {m}, faults) BY <1>9 DEF Fed, FedIn
        <3>2. Clean(c, s, {}, faults') BY <1>7, <2>7, <3>1 DEF Clean
        <3>3. Owed(c, s, {}) BY DEF Owed
        <3> QED BY <3>2, <3>3
    <2>12. LinksGoOn BY <1>1, <2>9 DEF LinksGoOn
    <2> QED BY <1>10, <2>2, <2>10, <2>11, <2>12 DEF ModesAfter
<1>11. CASE ~ok
    <2>1. tracked' = tracked BY <1>7, <1>11
    <2>2. c = conns[i] BY <1>5, <1>6, <1>7, <1>11, Agrees
    <2>3. conns' = conns BY <1>1, <1>7, <2>2
    <2>4. /\ ModesAfter(s, ModesOf(s)) /\ LinksGoOn /\ (Tidy => Tidy')
        BY <1>1, <1>7, <2>1, <2>3, Alike
    <2>5. ~Fed
        <3>1. Fed => Owed(conns[i], s, {m}) BY <1>9 DEF Fed, FedIn
        <3>2. ~Owed(conns[i], s, {m}) BY <1>7, <1>11 DEF Owed
        <3> QED BY <3>1, <3>2
    <2> QED BY <1>11, <2>4, <2>5
<1> QED BY <1>10, <1>11

\* unsubscribe of the highest of several modes: switching down, or back.
LEMMA HighestStep ==
    ASSUME Inv, NEW s \in Sym, NEW m \in Modes, NEW ok \in BOOLEAN, UnsubscribeHighest(s, m, ok)
    PROVE  /\ ModesAfter(s, IF ok THEN ModesOf(s) \ {m} ELSE ModesOf(s))
           /\ LinksGoOn
           /\ Tidy => Tidy'
           /\ Fed /\ OneFailure => Fed'
           /\ Fed /\ faults' = faults => ok
<1>1. /\ PoolTypeOK /\ conns \in Seq(Conn) /\ Len(conns) \in Nat /\ faults \in Nat
    BY PoolAssumption DEF Inv, PoolTypeOK
<1>2. ModesOf(s) \subseteq 1..3 /\ ModesOf(s) \in SUBSET Modes BY PoolAssumption DEF ModesOf
<1>3. m \in ModesOf(s) /\ ModesOf(s) \ {m} # {} /\ \A n \in ModesOf(s) : n <= m
    BY DEF UnsubscribeHighest, Highest
<1>4. PICK i \in 1..Len(conns) : i = PlaceOf(s) BY <1>3, OnOne
<1>5. tracked[s][m] = i BY <1>3, <1>4, PlaceOfTracked
<1>6. PICK ms \in SUBSET Modes : ms = ModesOf(s) \ {m} BY <1>2
<1>7. PICK low \in Modes : low = Max(ms) /\ low \in ms /\ \A n \in ms : n <= low
    <2>1. Max(ms) \in ms /\ \A n \in ms : n <= Max(ms) BY <1>2, <1>3, <1>6, HighestMode
    <2> QED BY <1>6, <2>1
<1>8. conns[i] \in Conn BY <1>1
<1>9. PICK off \in Conn : off = UnsubscribeOutcome(conns[i], s).conn BY <1>8, Agrees
<1>10. off.link = conns[i].link /\ \A t \in Sym \ {s} : Same(conns[i], off, t)
    <2>1. off = Released(conns[i], s) \/ off = conns[i] BY <1>8, <1>9, Agrees
    <2>2. CASE off = Released(conns[i], s) BY <1>8, <2>2, Releases
    <2>3. CASE off = conns[i] BY <2>3 DEF Same
    <2> QED BY <2>1, <2>2, <2>3
<1>11. PICK d \in SubscribeOutcomes(off, s, low) :
          /\ ok = d.ok
          /\ \/ /\ d.ok
                /\ conns' = [conns EXCEPT ![i] = d.conn]
                /\ tracked' = Forget(s, m)
                /\ Spend(d.faults)
             \/ /\ ~d.ok
                /\ \E b \in SubscribeOutcomes(d.conn, s, m) :
                       /\ conns' = [conns EXCEPT ![i] = b.conn]
                       /\ Spend(d.faults + b.faults)
                /\ UNCHANGED tracked
    BY <1>5, <1>6, <1>7, <1>9 DEF UnsubscribeHighest
<1>12. /\ d.ok \in BOOLEAN /\ d.conn \in Conn /\ d.faults \in {0, 1}
       /\ d.ok => d.conn = Queued(off, s, low) /\ off.link \in {"open", "lost"}
       /\ ~d.ok => d.conn = off
       /\ ~d.ok /\ off.link \in {"open", "lost"} => d.faults = 1
    BY Answers
<1>13. s \in On(i) /\ \A j \in (1..Len(conns)) \ {i} : s \notin On(j) BY <1>4, OnOne
<1>14. At(i, s) = ModesOf(s) /\ ModesOf(s) # {} BY <1>3, <1>13 DEF At
<1>15. Tidy => \A ns : Neat(off, s, ns)
    <2>1. Tidy => Neat(conns[i], s, ModesOf(s)) BY <1>14 DEF Tidy, TidyIn
    <2> QED BY <1>8, <1>9, <2>1, EndedRight
<1>16. Fed => conns[i].link \in {"open", "lost"} /\ (conns[i].link = "lost" => faults # 0)
    <2>1. Fed => /\ Owed(conns[i], s, ModesOf(s)) /\ Clean(conns[i], s, ModesOf(s), faults)
        BY <1>14 DEF Fed, FedIn
    <2> QED BY <1>14, <2>1 DEF Owed, Clean
<1>17. CASE d.ok
    <2>1. PICK c \in Conn : c = Queued(off, s, low) BY Queues
    <2>2. conns' = [conns EXCEPT ![i] = c] /\ tracked' = Forget(s, m)
        BY <1>11, <1>12, <1>17, <2>1
    <2>3. /\ \A j \in Nat \ {0} : s \in On(j)' <=> PlaceOf(s) = j /\ ModesOf(s) \ {m} # {}
          /\ ModesOf(s)' = ModesOf(s) \ {m}
          /\ \A t \in Sym \ {s} : ModesOf(t)' = ModesOf(t) /\ tracked'[t] = tracked[t]
        BY <1>3, <2>2, OnAfterForgetting
    <2>4. c.link = off.link /\ \A t \in Sym \ {s} : Same(off, c, t) BY <2>1, Queues
    <2>5. c.link = conns[i].link /\ \A t \in Sym \ {s} : Same(conns[i], c, t)
        BY <1>10, <2>4 DEF Same
    <2>6. s \in On(i)' /\ \A j \in (1..Len(conns)) \ {i} : s \notin On(j)'
        BY <1>3, <1>4, <2>3
    <2>7. \A j \in (1..Len(conns)) \ {i} : At(j, s)' = At(j, s) BY <1>13, <2>6 DEF At
    <2>8. At(i, s)' = ms BY <1>6, <2>3, <2>6 DEF At
    <2>9. Retold(conns, i, c, s) BY <2>2, <2>3, <2>5, <2>7 DEF Retold
    <2>10. faults' = 0 => faults = 0 BY <1>1, <1>11, <1>12, <1>17 DEF Spend
    <2>11. /\ Len(conns') = Len(conns) /\ \A j \in 1..Len(conns) : conns'[j].link = conns[j].link
           /\ TidyIn(conns) /\ Neat(c, s, ms) => Tidy'
           /\ FedIn(conns) /\ Owed(c, s, ms) /\ Clean(c, s, ms, faults') => Fed'
        BY <1>1, <2>8, <2>9, <2>10, After
    <2>12. /\ Neat(off, s, ms) => Neat(c, s, ms)
           /\ off.link \in {"open", "lost"} => Owed(c, s, ms)
           /\ \A z : off.link # "lost" \/ z # 0 => Clean(c, s, ms, z)
        <3>1. /\ Neat(off, s, ms) => Neat(Queued(off, s, low), s, ms \cup {low})
              /\ off.link \in {"open", "lost"} => Owed(Queued(off, s, low), s, ms \cup {low})
              /\ \A z : off.link # "lost" \/ z # 0 =>
                     Clean(Queued(off, s, low), s, ms \cup {low}, z)
            BY <1>7, QueuedRight
        <3>2. ms \cup {low} = ms BY <1>7
        <3> QED BY <2>1, <3>1, <3>2
    <2>13. Tidy => Tidy' BY <1>15, <2>11, <2>12 DEF Tidy
    <2>14. Fed => Fed'
        <3>1. Fed => off.link # "lost" \/ faults' # 0 BY <1>10, <1>16, <2>10
        <3> QED BY <1>12, <1>17, <2>11, <2>12, <3>1 DEF Fed
    <2>15. LinksGoOn BY <1>1, <2>11 DEF LinksGoOn
    <2>16. ok BY <1>11, <1>17
    <2> QED BY <2>3, <2>13, <2>14, <2>15, <2>16 DEF ModesAfter
<1>18. CASE ~d.ok
    <2>1. PICK b \in SubscribeOutcomes(off, s, m) :
              /\ conns' = [conns EXCEPT ![i] = b.conn]
              /\ Spend(d.faults + b.faults)
        BY <1>11, <1>12, <1>18
    <2>2. tracked' = tracked /\ ~ok BY <1>11, <1>18
    <2>3. /\ b.ok \in BOOLEAN /\ b.conn \in Conn /\ b.faults \in {0, 1}
          /\ b.ok => b.conn = Queued(off, s, m) /\ off.link \in {"open", "lost"}
          /\ ~b.ok => b.conn = off
          /\ ~b.ok /\ off.link \in {"open", "lost"} => b.faults = 1
        BY Answers
    <2>4. PICK c \in Conn : c = b.conn BY <2>3
    <2>5. conns' = [conns EXCEPT ![i] = c] BY <2>1, <2>4
    <2>6. c.link = off.link /\ \A t \in Sym \ {s} : Same(off, c, t)
        <3>1. CASE b.ok BY <2>3, <2>4, <3>1, Queues
        <3>2. CASE ~b.ok BY <2>3, <2>4, <3>2 DEF Same
        <3> QED BY <2>3, <3>1, <3>2
    <2>7. c.link = conns[i].link /\ \A t \in Sym \ {s} : Same(conns[i], c, t)
        BY <1>10, <2>6 DEF Same
    <2>8. (\A t \in Sym : ModesOf(t)' = ModesOf(t)) /\ \A j : On(j)' = On(j)
        BY <2>2 DEF ModesOf, On
    <2>9. \A j : At(j, s)' = At(j, s) BY <2>8 DEF At
    <2>10. PICK ns \in SUBSET Modes : ns = ModesOf(s) BY <1>2
    <2>11. At(i, s)' = ns BY <1>14, <2>9, <2>10
    <2>12. Retold(conns, i, c, s) BY <2>2, <2>5, <2>7, <2>9 DEF Retold
    <2>13. faults' = faults + (d.faults + b.faults) BY <2>1 DEF Spend
    <2>14. faults' = 0 => faults = 0 BY <1>1, <1>12, <2>3, <2>13
    <2>15. /\ Len(conns') = Len(conns) /\ \A j \in 1..Len(conns) : conns'[j].link = conns[j].link
           /\ TidyIn(conns) /\ Neat(c, s, ns) => Tidy'
           /\ FedIn(conns) /\ Owed(c, s, ns) /\ Clean(c, s, ns, faults') => Fed'
        BY <1>1, <2>11, <2>12, <2>14, After
    <2>16. b.ok => /\ Neat(off, s, ns) => Neat(c, s, ns)
                   /\ off.link \in {"open", "lost"} => Owed(c, s, ns)
                   /\ \A z : off.link # "lost" \/ z # 0 => Clean(c, s, ns, z)
        <3>1. /\ Neat(off, s, ns) => Neat(Queued(off, s, m), s, ns \cup {m})
              /\ off.link \in {"open", "lost"} => Owed(Queued(off, s, m), s, ns \cup {m})
              /\ \A z : off.link # "lost" \/ z # 0 =>
                     Clean(Queued(off, s, m), s, ns \cup {m}, z)
            BY <1>3, <2>10, QueuedRight
        <3>2. ns \cup {m} = ns BY <1>3, <2>10
        <3> QED BY <2>3, <2>4, <3>1, <3>2
    <2>17. Tidy => Tidy'
        <3>1. Tidy => Neat(c, s, ns)
            <4>1. CASE b.ok BY <1>15, <2>16, <4>1
            <4>2. CASE ~b.ok BY <1>15, <2>3, <2>4, <4>2
            <4> QED BY <2>3, <4>1, <4>2
        <3> QED BY <2>15, <3>1 DEF Tidy
    <2>18. Fed => off.link \in {"open", "lost"} /\ d.faults = 1 BY <1>10, <1>12, <1>16, <1>18
    <2>19. Fed => faults' # faults BY <1>1, <2>3, <2>13, <2>18
    <2>20. ASSUME Fed, OneFailure PROVE Fed'
        <3>1. b.faults = 0
            <4>1. b.faults # 1 BY <1>1, <2>13, <2>18, <2>20 DEF OneFailure
            <4> QED BY <2>3, <4>1
        <3>2. b.ok BY <2>3, <2>18, <2>20, <3>1
        <3>3. faults' # 0 BY <1>1, <2>13, <2>18, <2>20, <3>1
        <3> QED BY <2>15, <2>16, <2>18, <2>20, <3>2, <3>3 DEF Fed
    <2>21. LinksGoOn BY <1>1, <2>15 DEF LinksGoOn
    <2>22. ModesAfter(s, ModesOf(s)) BY <2>8 DEF ModesAfter
    <2> QED BY <2>2, <2>17, <2>19, <2>20, <2>21, <2>22
<1> QED BY <1>12, <1>17, <1>18

\* unsubscribe forgets the mode when the broker agrees, which it does unless a call
\* fails; the symbol is served as it is tracked unless two calls fail.
LEMMA UnsubscribeStep ==
    ASSUME Inv, NEW s \in Sym, NEW m \in Modes, NEW ok \in BOOLEAN, PoolUnsubscribe(s, m, ok)
    PROVE  /\ ModesAfter(s, IF ok THEN ModesOf(s) \ {m} ELSE ModesOf(s))
           /\ LinksGoOn
           /\ Tidy => Tidy'
           /\ Fed /\ OneFailure => Fed'
           /\ Fed /\ m \in ModesOf(s) /\ faults' = faults => ok
<1>1. conns \in Seq(Conn) /\ Len(conns) \in Nat BY DEF Inv, PoolTypeOK
<1>2. CASE m \notin ModesOf(s) /\ ~ok /\ Refuse
    <2>1. tracked' = tracked /\ conns' = conns /\ faults' = faults BY <1>2 DEF Refuse, pool
    <2> QED BY <1>1, <1>2, <2>1, Alike
<1>3. CASE UnsubscribeLast(s, m, ok) BY <1>3, LastStep
<1>4. CASE UnsubscribeHighest(s, m, ok) BY <1>4, HighestStep
<1>5. CASE UnsubscribeLower(s, m, ok)
    <2>1. ok /\ m \in ModesOf(s) /\ tracked' = Forget(s, m) /\ conns' = conns
          /\ faults' = faults
        BY <1>5 DEF UnsubscribeLower
    <2>2. PICK n \in ModesOf(s) : m < n BY <1>5 DEF UnsubscribeLower
    <2>3. ModesOf(s) \subseteq 1..3 BY PoolAssumption DEF ModesOf
    <2>4. n # m /\ ModesOf(s) \ {m} # {} BY <2>1, <2>2, <2>3
    <2>5. /\ \A j \in Nat \ {0} : s \in On(j)' <=> PlaceOf(s) = j /\ ModesOf(s) \ {m} # {}
          /\ ModesOf(s)' = ModesOf(s) \ {m}
          /\ \A t \in Sym \ {s} : ModesOf(t)' = ModesOf(t) /\ tracked'[t] = tracked[t]
        BY <2>1, OnAfterForgetting
    <2>6. \A j \in Nat \ {0} : s \in On(j)' <=> s \in On(j) BY <2>4, <2>5, OnOne
    <2>7. Max(ModesOf(s)') = Max(ModesOf(s))
        <3>1. Max(ModesOf(s)) \in ModesOf(s) /\ \A k \in ModesOf(s) : k <= Max(ModesOf(s))
            BY <2>1, <2>3, HighestMode
        <3>2. Max(ModesOf(s)) # m BY <2>1, <2>2, <2>3, <3>1
        <3>3. ModesOf(s)' \subseteq 1..3 /\ Max(ModesOf(s)) \in ModesOf(s)'
              /\ \A k \in ModesOf(s)' : k <= Max(ModesOf(s))
            BY <2>3, <2>5, <3>1, <3>2
        <3> QED BY <3>3, HighestIs
    <2>8. \A j \in 1..Len(conns) : \A t \in Sym :
              /\ At(j, t)' = {} <=> At(j, t) = {}
              /\ At(j, t) # {} => Max(At(j, t)') = Max(At(j, t))
        <3>1. ModesOf(s) # {} /\ ModesOf(s)' # {} BY <2>1, <2>4, <2>5
        <3>2. \A t \in Sym \ {s} : ModesOf(t)' = ModesOf(t) /\ tracked'[t] = tracked[t]
            BY <2>5
        <3>3. \A j \in Nat \ {0} : \A t \in Sym :
                  /\ At(j, t)' = {} <=> At(j, t) = {}
                  /\ At(j, t) # {} => Max(At(j, t)') = Max(At(j, t))
            BY <2>6, <2>7, <3>1, <3>2, AtLike
        <3>4. \A j \in 1..Len(conns) : j \in Nat \ {0} BY <1>1
        <3> QED BY <3>3, <3>4
    <2>9. (TidyIn(conns) => Tidy') /\ (FedIn(conns) => Fed') BY <1>1, <2>1, <2>8, Untold
    <2>10. LinksGoOn BY <1>1, <2>1 DEF LinksGoOn
    <2> QED BY <2>1, <2>5, <2>9, <2>10 DEF ModesAfter, Tidy, Fed
<1> QED BY <1>2, <1>3, <1>4, <1>5 DEF PoolUnsubscribe

\* A pool that was just opened, or closed, owes nothing to anybody.
LEMMA EmptyFed ==
    ASSUME tracked' = Untracked,
           conns' = <<>> \/ \E link \in {"off", "starting", "open"} : conns' = <<Fresh(link)>>
    PROVE  Tidy' /\ Fed' /\ \A s \in Sym : ModesOf(s)' = {}
<1>1. \A s \in Sym : ModesOf(s)' = {} BY DEF ModesOf, Untracked
<1>2. \A s \in Sym : \A j : At(j, s)' = {} BY <1>1 DEF At
<1>3. \A j \in 1..Len(conns') : \E link \in {"off", "starting", "open"} : conns'[j] = Fresh(link)
    <2>1. CASE conns' = <<>> BY <2>1
    <2>2. ASSUME NEW link \in {"off", "starting", "open"}, conns' = <<Fresh(link)>>
          PROVE  \A j \in 1..Len(conns') : conns'[j] = Fresh(link)
        BY <2>2
    <2> QED BY <2>1, <2>2
<1>4. ASSUME NEW link \in {"off", "starting", "open"}, NEW s \in Sym
      PROVE  /\ Neat(Fresh(link), s, {}) /\ Owed(Fresh(link), s, {})
             /\ \A z : Clean(Fresh(link), s, {}, z)
    <2>1. Traffic(Fresh(link), s) = {} /\ Fresh(link).link # "lost" BY DEF Fresh, Traffic
    <2> QED BY <2>1 DEF Neat, Owed, Clean
<1>5. \A j \in 1..Len(conns') : \A s \in Sym :
          /\ Neat(conns'[j], s, {}) /\ Owed(conns'[j], s, {})
          /\ Clean(conns'[j], s, {}, faults')
    BY <1>3, <1>4
<1>6. Tidy' BY <1>2, <1>5 DEF Tidy, TidyIn
<1>7. Fed' BY <1>2, <1>5 DEF Fed, FedIn
<1> QED BY <1>1, <1>6, <1>7

\* What the adapter's threads do with a connection keeps it right; those that were
\* started stay started.
LEMMA ThreadStep ==
    ASSUME Inv, AdapterStep
    PROVE  /\ \A t \in Sym : ModesOf(t)' = ModesOf(t)
           /\ LinksGoOn
           /\ (Tidy => Tidy') /\ (Fed => Fed')
<1>1. /\ conns \in Seq(Conn) /\ Len(conns) \in Nat /\ faults \in Nat /\ faults' \in Nat
      /\ faults <= faults' /\ tracked' = tracked
    <2>1. [PoolNext]_pool BY DEF PoolNext
    <2>2. faults \in Nat /\ faults' \in Nat /\ faults <= faults' BY <2>1, FaultsGrow DEF Inv
    <2> QED BY <2>2 DEF AdapterStep, Inv, PoolTypeOK
<1>2. (\A t \in Sym : ModesOf(t)' = ModesOf(t)) /\ \A j : On(j)' = On(j)
    BY <1>1 DEF ModesOf, On
<1>3. \A j : \A t \in Sym : At(j, t)' = At(j, t) BY <1>2 DEF At
<1>4. PICK i \in 1..Len(conns) : Link(i) \/ Send(i) \/ GiveUp(i) BY <1>1 DEF AdapterStep
<1>5. conns[i] \in Conn BY <1>1
<1>6. ASSUME NEW s \in Sym, NEW c \in Conn, conns' = [conns EXCEPT ![i] = c],
             c.link = conns[i].link, \A t \in Sym \ {s} : Same(conns[i], c, t),
             \A ms : /\ Neat(conns[i], s, ms) => Neat(c, s, ms)
                     /\ Owed(conns[i], s, ms) => Owed(c, s, ms)
                     /\ \A z : Clean(conns[i], s, ms, z) => Clean(c, s, ms, z)
      PROVE  LinksGoOn /\ (Tidy => Tidy') /\ (Fed => Fed')
    <2>1. Retold(conns, i, c, s) BY <1>1, <1>3, <1>6 DEF Retold
    <2>2. PICK ms : ms = At(i, s) OBVIOUS
    <2>3. At(i, s)' = ms BY <1>3, <2>2
    <2>4. /\ Len(conns') = Len(conns) /\ \A j \in 1..Len(conns) : conns'[j].link = conns[j].link
          /\ TidyIn(conns) /\ Neat(c, s, ms) => Tidy'
          /\ FedIn(conns) /\ Owed(c, s, ms) /\ Clean(c, s, ms, faults') => Fed'
        BY <1>1, <2>1, <2>3, After
    <2>5. Tidy => Tidy'
        <3>1. Tidy => Neat(conns[i], s, ms) BY <2>2 DEF Tidy, TidyIn
        <3> QED BY <1>6, <2>4, <3>1 DEF Tidy
    <2>6. Fed => Fed'
        <3>1. Fed => Owed(conns[i], s, ms) /\ Clean(conns[i], s, ms, faults)
            BY <2>2 DEF Fed, FedIn
        <3>2. Fed => Clean(conns[i], s, ms, faults') BY <1>1, <3>1 DEF Clean
        <3> QED BY <1>6, <2>4, <3>1, <3>2 DEF Fed
    <2>7. LinksGoOn BY <1>1, <2>4 DEF LinksGoOn
    <2> QED BY <2>5, <2>6, <2>7
<1>7. CASE Send(i)
    <2>1. PICK s \in Sym : \E m \in conns[i].unsent[s] :
              \E rest \in {conns[i].unsent[s] \ {m}}
                          \cup {conns[i].unsent[r] : r \in conns[i].hasty \cap {s}} :
                  conns' = [conns EXCEPT ![i] = Sent(conns[i], s, m, rest)]
        BY <1>7 DEF Send
    <2>2. PICK m \in conns[i].unsent[s] :
              \E rest \in {conns[i].unsent[s] \ {m}}
                          \cup {conns[i].unsent[r] : r \in conns[i].hasty \cap {s}} :
                  conns' = [conns EXCEPT ![i] = Sent(conns[i], s, m, rest)]
        BY <2>1
    <2>3. PICK rest \in {conns[i].unsent[s] \ {m}}
                        \cup {conns[i].unsent[r] : r \in conns[i].hasty \cap {s}} :
              conns' = [conns EXCEPT ![i] = Sent(conns[i], s, m, rest)]
        BY <2>2
    <2>4. /\ Sent(conns[i], s, m, rest) \in Conn
          /\ \A ms : /\ Neat(conns[i], s, ms) => Neat(Sent(conns[i], s, m, rest), s, ms)
                     /\ Owed(conns[i], s, ms) => Owed(Sent(conns[i], s, m, rest), s, ms)
                     /\ \A z : Clean(conns[i], s, ms, z) =>
                            Clean(Sent(conns[i], s, m, rest), s, ms, z)
        BY <1>5, SentRight
    <2>5. m \in Modes /\ rest \in SUBSET Modes
        <3>1. conns[i].unsent[s] \in SUBSET Modes BY <1>5 DEF Conn
        <3> QED BY <3>1
    <2>6. /\ Sent(conns[i], s, m, rest).link = conns[i].link
          /\ \A t \in Sym \ {s} : Same(conns[i], Sent(conns[i], s, m, rest), t)
        BY <1>5, <2>5, Sends
    <2>7. PICK c \in Conn : c = Sent(conns[i], s, m, rest) BY <2>4
    <2> QED BY <1>2, <1>6, <2>3, <2>4, <2>6, <2>7
<1>8. CASE GiveUp(i)
    <2>1. PICK s \in Sym : \E m \in conns[i].unsent[s] :
              conns' = [conns EXCEPT ![i] = Discarded(conns[i], s, m)]
        BY <1>8 DEF GiveUp
    <2>2. PICK m \in conns[i].unsent[s] :
              conns' = [conns EXCEPT ![i] = Discarded(conns[i], s, m)]
        BY <2>1
    <2>3. conns[i].link = "lost" BY <1>8 DEF GiveUp
    <2>4. /\ Discarded(conns[i], s, m) \in Conn
          /\ \A ms : /\ Neat(Discarded(conns[i], s, m), s, ms)
                     /\ Owed(conns[i], s, ms) => Owed(Discarded(conns[i], s, m), s, ms)
                     /\ \A z : Clean(conns[i], s, ms, z) =>
                            Clean(Discarded(conns[i], s, m), s, ms, z)
        BY <1>5, <2>3, DiscardedRight
    <2>5. m \in Modes BY <1>5 DEF Conn
    <2>6. /\ Discarded(conns[i], s, m).link = conns[i].link
          /\ \A t \in Sym \ {s} : Same(conns[i], Discarded(conns[i], s, m), t)
        BY <1>5, <2>5, Discards
    <2>7. PICK c \in Conn : c = Discarded(conns[i], s, m) BY <2>4
    <2> QED BY <1>2, <1>6, <2>2, <2>4, <2>6, <2>7
<1>9. CASE Link(i)
    <2>1. PICK link \in {"open", "lost"} :
              /\ conns' = [conns EXCEPT ![i].link = link]
              /\ conns[i].link # "off"
              /\ conns[i].link = "open" => faults' = faults + 1
              /\ link = "lost" => conns[i].link = "open"
              /\ conns[i].link # "open" => link = "open"
        BY <1>9 DEF Link, Spend
    <2>2. PICK c : c = [conns[i] EXCEPT !.link = link] OBVIOUS
    <2>3. /\ c.link = link /\ c.held = conns[i].held /\ c.unsent = conns[i].unsent
          /\ c.fed = conns[i].fed /\ c.hasty = conns[i].hasty
        BY <1>5, <2>2 DEF Conn
    <2>4. /\ Len(conns') = Len(conns) /\ conns'[i] = c
          /\ \A j \in (1..Len(conns)) \ {i} : conns'[j] = conns[j]
        BY <1>1, <2>1, <2>2
    <2>5. \A t \in Sym : Traffic(c, t) = Traffic(conns[i], t) BY <2>3 DEF Traffic
    <2>6. link = "lost" => faults' # 0 BY <1>1, <2>1
    <2>7. ASSUME NEW t \in Sym, NEW ms
          PROVE  /\ Neat(conns[i], t, ms) => Neat(c, t, ms)
                 /\ Owed(conns[i], t, ms) => Owed(c, t, ms)
                 /\ Clean(conns[i], t, ms, faults) => Clean(c, t, ms, faults')
        <3>1. Neat(conns[i], t, ms) => Neat(c, t, ms) BY <2>3, <2>5 DEF Neat
        <3>2. Owed(conns[i], t, ms) => Owed(c, t, ms) BY <2>3 DEF Owed
        <3>3. Clean(conns[i], t, ms, faults) => Clean(c, t, ms, faults')
            <4>1. faults' = 0 => faults = 0 BY <1>1
            <4> QED BY <2>3, <2>5, <2>6, <4>1 DEF Clean
        <3> QED BY <3>1, <3>2, <3>3
    <2>8. ASSUME NEW j \in 1..Len(conns), NEW t \in Sym
          PROVE  /\ Neat(conns[j], t, At(j, t)) => Neat(conns'[j], t, At(j, t)')
                 /\ Owed(conns[j], t, At(j, t)) => Owed(conns'[j], t, At(j, t)')
                 /\ Clean(conns[j], t, At(j, t), faults) => Clean(conns'[j], t, At(j, t)', faults')
        <3>1. CASE j = i BY <1>3, <2>4, <2>7, <3>1
        <3>2. CASE j # i
            <4>1. conns'[j] = conns[j] BY <2>4, <3>2
            <4>2. Clean(conns[j], t, At(j, t), faults) => Clean(conns[j], t, At(j, t), faults')
                BY <1>1 DEF Clean
            <4> QED BY <1>3, <4>1, <4>2
        <3> QED BY <3>1, <3>2
    <2>9. Tidy => Tidy' BY <2>4, <2>8 DEF Tidy, TidyIn
    <2>10. Fed => Fed' BY <2>4, <2>8 DEF Fed, FedIn
    <2>11. LinksGoOn
        <3>1. \A j \in 1..Len(conns) : conns'[j].link = "off" <=> conns[j].link = "off"
            BY <2>1, <2>3, <2>4
        <3> QED BY <1>1, <2>4, <3>1 DEF LinksGoOn
    <2> QED BY <1>2, <2>9, <2>10, <2>11
<1> QED BY <1>4, <1>7, <1>8, <1>9

\* Nothing is left where nothing is tracked, whatever fails; and as long as no handler
\* meets two failures, every symbol that is tracked is served.
LEMMA FedStep ==
    ASSUME Inv, [PoolNext]_pool
    PROVE  (Tidy => Tidy') /\ (Fed /\ OneFailure => Fed')
<1>1. ASSUME NEW s \in Sym, NEW m \in Modes, NEW ok \in BOOLEAN, PoolSubscribe(s, m, ok)
      PROVE  (Tidy => Tidy') /\ (Fed => Fed')
    BY <1>1, SubscribeStep
<1>2. ASSUME NEW s \in Sym, NEW m \in Modes, NEW ok \in BOOLEAN, PoolUnsubscribe(s, m, ok)
      PROVE  (Tidy => Tidy') /\ (Fed /\ OneFailure => Fed')
    BY <1>2, UnsubscribeStep
<1>3. ASSUME NEW ok \in BOOLEAN, PoolOpen(ok) PROVE Tidy' /\ Fed'
    BY <1>3, EmptyFed DEF PoolOpen
<1>4. CASE PoolDisconnect BY <1>4, EmptyFed DEF PoolDisconnect
<1>5. CASE AdapterStep BY <1>5, ThreadStep
<1>6. CASE UNCHANGED pool
    <2>1. tracked' = tracked /\ conns' = conns /\ faults' = faults BY <1>6 DEF pool
    <2>2. conns \in Seq(Conn) BY DEF Inv, PoolTypeOK
    <2> QED BY <2>1, <2>2, Alike
<1> QED BY <1>1, <1>2, <1>3, <1>4, <1>5, <1>6 DEF PoolNext

-----------------------------------------------------------------------------
(* The users of the pool.                                                    *)

\* The part of the invariant about the users of the pool.
NoAdapterNoPool == ~hasAdapter => tracked = Untracked

OnlyMapped == \A c \in Client : status[c] # "mapped" => subs[c] = {}

Wanted(s) == {m \in Modes : index[<<s, m>>] # {}}

WantedTracked == relogins = 0 => \A s \in Sym : Wanted(s) \subseteq ModesOf(s)

TrackedWanted == faults = 0 /\ relogins = 0 => \A s \in Sym : ModesOf(s) \subseteq Wanted(s)

\* Only a client mapped to the user has subscriptions.
LEMMA OnlyMappedStep ==
    ASSUME ProxyInv, OnlyMapped, Next
    PROVE  OnlyMapped'
<1>1. ProxyType BY DEF ProxyInv
<1>2. ASSUME NEW c \in Client, Connect(c) PROVE OnlyMapped'
    BY <1>1, <1>2 DEF Connect, OnlyMapped, ProxyType
<1>3. ASSUME NEW c \in Client, Authenticate(c) PROVE OnlyMapped'
    <2>1. status' = [status EXCEPT ![c] = "mapped"] /\ subs' = subs BY <1>3 DEF Authenticate
    <2> QED BY <1>1, <2>1 DEF OnlyMapped, ProxyType
<1>4. ASSUME NEW c \in Client, Disconnect(c) \/ UnsubscribeAll(c) PROVE OnlyMapped'
    BY <1>4 DEF Disconnect, UnsubscribeAll, OnlyMapped
<1>5. ASSUME NEW c \in Client, NEW k \in Keys, Drop(c, k), status' = status PROVE OnlyMapped'
    <2>1. subs' = [subs EXCEPT ![c] = @ \ {k}] BY <1>5 DEF Drop
    <2> QED BY <1>1, <1>5, <2>1 DEF OnlyMapped, ProxyType
<1>6. ASSUME NEW c \in Client, ClearOne(c) PROVE OnlyMapped'
    <2>1. PICK k \in subs[c] : Drop(c, k) /\ status' = status BY <1>6 DEF ClearOne
    <2>2. k \in Keys BY <1>1 DEF ProxyType
    <2> QED BY <1>5, <2>1, <2>2
<1>7. ASSUME NEW c \in Client, EndClear(c) PROVE OnlyMapped'
    <2>1. subs[c] = {} /\ subs' = subs BY <1>7 DEF EndClear
    <2>2. status' = status \/ status' = [status EXCEPT ![c] = "off"] BY <1>7 DEF EndClear
    <2> QED BY <1>1, <2>1, <2>2 DEF OnlyMapped, ProxyType
<1>8. ASSUME NEW c \in Client, NEW s \in Sym, NEW m \in Modes, Subscribe(c, s, m)
      PROVE  OnlyMapped'
    <2>1. status[c] = "mapped" /\ status' = status
          /\ (subs' = subs \/ subs' = [subs EXCEPT ![c] = @ \cup {<<s, m>>}])
        BY <1>8 DEF Subscribe
    <2> QED BY <1>1, <2>1 DEF OnlyMapped, ProxyType
<1>9. ASSUME NEW c \in Client, NEW s \in Sym, NEW m \in Modes, Unsubscribe(c, s, m)
      PROVE  OnlyMapped'
    <2>1. <<s, ModeTaken(m)>> \in Keys BY ProxyAssumption DEF ModeTaken, Keys
    <2>2. Drop(c, <<s, ModeTaken(m)>>) /\ status' = status BY <1>9 DEF Unsubscribe
    <2> QED BY <1>5, <2>1, <2>2
<1>10. CASE Relogin BY <1>10 DEF Relogin, OnlyMapped
<1>11. CASE AdapterStep /\ UNCHANGED proxy BY <1>11 DEF proxy, OnlyMapped
<1> QED BY <1>2, <1>3, <1>4, <1>6, <1>7, <1>8, <1>9, <1>10, <1>11 DEF Next

\* What a step does to the pool and its adapter.
LEMMA PoolUse ==
    ASSUME ProxyInv, Next
    PROVE  \/ UNCHANGED <<pool, hasAdapter>>
           \/ hasAdapter /\ hasAdapter' = hasAdapter
              /\ \E s \in Sym, m \in Modes, ok \in BOOLEAN :
                     PoolSubscribe(s, m, ok) \/ PoolUnsubscribe(s, m, ok)
           \/ ~hasAdapter /\ \E ok \in BOOLEAN : PoolOpen(ok) /\ hasAdapter' = ok
           \/ PoolDisconnect /\ hasAdapter' = FALSE
           \/ AdapterStep /\ hasAdapter' = hasAdapter
<1> DEFINE Goal ==
        \/ UNCHANGED <<pool, hasAdapter>>
        \/ hasAdapter /\ hasAdapter' = hasAdapter
           /\ \E s \in Sym, m \in Modes, ok \in BOOLEAN :
                  PoolSubscribe(s, m, ok) \/ PoolUnsubscribe(s, m, ok)
        \/ ~hasAdapter /\ \E ok \in BOOLEAN : PoolOpen(ok) /\ hasAdapter' = ok
        \/ PoolDisconnect /\ hasAdapter' = FALSE
        \/ AdapterStep /\ hasAdapter' = hasAdapter
<1>1. ProxyType BY DEF ProxyInv
<1>2. ASSUME NEW c \in Client, NEW k \in Keys, Drop(c, k), hasAdapter' = hasAdapter PROVE Goal
    <2>1. k[1] \in Sym /\ k[2] \in Modes BY DEF Keys
    <2>2. Refuse \/ (hasAdapter /\ \E ok \in BOOLEAN : PoolUnsubscribe(k[1], k[2], ok))
        BY <1>2 DEF Drop
    <2> QED BY <1>2, <2>1, <2>2 DEF Refuse
<1>3. ASSUME NEW c \in Client, Connect(c) \/ Disconnect(c) \/ UnsubscribeAll(c) PROVE Goal
    BY <1>3 DEF Connect, Disconnect, UnsubscribeAll
<1>4. ASSUME NEW c \in Client, Authenticate(c) PROVE Goal
    BY <1>4 DEF Authenticate, Refuse
<1>5. ASSUME NEW c \in Client, ClearOne(c) PROVE Goal
    <2>1. PICK k \in subs[c] : Drop(c, k) /\ hasAdapter' = hasAdapter BY <1>5 DEF ClearOne
    <2>2. k \in Keys BY <1>1 DEF ProxyType
    <2> QED BY <1>2, <2>1, <2>2
<1>6. ASSUME NEW c \in Client, EndClear(c) PROVE Goal
    BY <1>6 DEF EndClear, Refuse
<1>7. ASSUME NEW c \in Client, NEW s \in Sym, NEW m \in Modes, Subscribe(c, s, m) PROVE Goal
    BY <1>7 DEF Subscribe
<1>8. ASSUME NEW c \in Client, NEW s \in Sym, NEW m \in Modes, Unsubscribe(c, s, m) PROVE Goal
    <2>1. <<s, ModeTaken(m)>> \in Keys BY ProxyAssumption DEF ModeTaken, Keys
    <2>2. Drop(c, <<s, ModeTaken(m)>>) /\ hasAdapter' = hasAdapter BY <1>8 DEF Unsubscribe
    <2> QED BY <1>2, <2>1, <2>2
<1>9. CASE Relogin BY <1>9 DEF Relogin
<1>10. CASE AdapterStep /\ UNCHANGED proxy BY <1>10 DEF proxy
<1> QED BY <1>3, <1>4, <1>5, <1>6, <1>7, <1>8, <1>9, <1>10 DEF Next

\* Without an adapter the pool is empty, and with one a client of the broker was started.
LEMMA StartedStep ==
    ASSUME Inv, ProxyInv, NoAdapterNoPool, AdapterIsOpen, Next
    PROVE  NoAdapterNoPool' /\ AdapterIsOpen'
<1>1. hasAdapter \in BOOLEAN BY DEF ProxyInv, ProxyType
<1>2. conns \in Seq(Conn) /\ conns' \in Seq(Conn) /\ DOMAIN conns = 1..Len(conns)
    <2>1. [PoolNext]_pool BY ProxyStep
    <2>2. Inv' BY <2>1, StepEffect
    <2> QED BY <2>2 DEF Inv, PoolTypeOK
<1>3. CASE UNCHANGED <<pool, hasAdapter>>
    BY <1>3 DEF pool, NoAdapterNoPool, AdapterIsOpen
<1>4. ASSUME hasAdapter, hasAdapter' = hasAdapter, LinksGoOn PROVE NoAdapterNoPool' /\ AdapterIsOpen'
    <2>1. PICK i \in 1..Len(conns) : conns[i].link # "off" BY <1>2, <1>4 DEF AdapterIsOpen
    <2>2. i \in DOMAIN conns' /\ conns'[i].link # "off" BY <1>2, <1>4, <2>1 DEF LinksGoOn
    <2> QED BY <1>4, <2>2 DEF NoAdapterNoPool, AdapterIsOpen
<1>5. ASSUME hasAdapter, hasAdapter' = hasAdapter,
             NEW s \in Sym, NEW m \in Modes, NEW ok \in BOOLEAN,
             PoolSubscribe(s, m, ok) \/ PoolUnsubscribe(s, m, ok)
      PROVE  NoAdapterNoPool' /\ AdapterIsOpen'
    <2>1. LinksGoOn BY <1>5, SubscribeStep, UnsubscribeStep
    <2> QED BY <1>4, <1>5, <2>1
<1>6. ASSUME NEW ok \in BOOLEAN, PoolOpen(ok), hasAdapter' = ok
      PROVE  NoAdapterNoPool' /\ AdapterIsOpen'
    <2>1. tracked' = Untracked BY <1>6 DEF PoolOpen
    <2>2. \A link : Fresh(link).link = link BY DEF Fresh
    <2>3. CASE ok
        <3>1. PICK link \in {"starting", "open"} : conns' = <<Fresh(link)>>
            BY <1>6, <2>3 DEF PoolOpen
        <3>2. 1 \in DOMAIN conns' /\ conns'[1] = Fresh(link) BY <3>1
        <3>3. conns'[1].link # "off" BY <2>2, <3>1, <3>2
        <3> QED BY <1>6, <2>1, <2>3, <3>2, <3>3 DEF NoAdapterNoPool, AdapterIsOpen
    <2>4. CASE ~ok
        <3>1. conns' = <<>> \/ conns' = <<Fresh("off")>> BY <1>6, <2>4 DEF PoolOpen
        <3>2. \A i \in DOMAIN conns' : conns'[i] = Fresh("off")
            <4>1. CASE conns' = <<>> BY <4>1
            <4>2. CASE conns' = <<Fresh("off")>>
                <5>1. conns'[1] = Fresh("off") /\ DOMAIN conns' = 1..1 BY <4>2
                <5>2. \A i \in 1..1 : i = 1 OBVIOUS
                <5> QED BY <5>1, <5>2
            <4> QED BY <3>1, <4>1, <4>2
        <3> QED BY <1>6, <2>1, <2>2, <2>4, <3>2 DEF NoAdapterNoPool, AdapterIsOpen
    <2> QED BY <2>3, <2>4
<1>7. CASE PoolDisconnect /\ hasAdapter' = FALSE
    <2>1. tracked' = Untracked /\ conns' = <<>> BY <1>7 DEF PoolDisconnect
    <2>2. DOMAIN conns' = {} BY <2>1
    <2> QED BY <1>7, <2>1, <2>2 DEF NoAdapterNoPool, AdapterIsOpen
<1>8. CASE AdapterStep /\ hasAdapter' = hasAdapter
    <2>1. LinksGoOn BY <1>8, ThreadStep
    <2>2. CASE hasAdapter BY <1>4, <1>8, <2>1, <2>2
    <2>3. CASE ~hasAdapter
        <3>1. \A i \in 1..Len(conns) : conns[i].link = "off" BY <1>2, <2>3 DEF AdapterIsOpen
        <3>2. PICK i \in 1..Len(conns) : Link(i) \/ Send(i) \/ GiveUp(i)
            BY <1>2, <1>8 DEF AdapterStep
        <3>3. conns[i].link # "off" BY <3>2 DEF Link, Send, GiveUp
        <3> QED BY <3>1, <3>3
    <2> QED BY <2>2, <2>3
<1> QED BY <1>3, <1>5, <1>6, <1>7, <1>8, PoolUse

-----------------------------------------------------------------------------
(* What the clients want, and what the pool tracks.                          *)

\* The modes some client wants when a client is entered or struck out at one key.
LEMMA WantedAfter ==
    ASSUME ProxyType, NEW s \in Sym, NEW m \in Modes, NEW X \in SUBSET Client,
           index' = [index EXCEPT ![<<s, m>>] = X]
    PROVE  /\ \A t \in Sym \ {s} : Wanted(t)' = Wanted(t)
           /\ X # {} => Wanted(s)' = Wanted(s) \cup {m}
           /\ X = {} => Wanted(s)' = Wanted(s) \ {m}
<1>1. index \in [Keys -> SUBSET Client] BY DEF ProxyType
<1>2. \A t \in Sym, n \in Modes : <<t, n>> \in Keys BY DEF Keys
<1>3. \A t \in Sym, n \in Modes :
        index'[<<t, n>>] = IF t = s /\ n = m THEN X ELSE index[<<t, n>>]
    BY <1>1, <1>2
<1>4. \A t \in Sym \ {s} : Wanted(t)' = Wanted(t) BY <1>3 DEF Wanted
<1>5. X # {} => Wanted(s)' = Wanted(s) \cup {m} BY <1>3 DEF Wanted
<1>6. X = {} => Wanted(s)' = Wanted(s) \ {m} BY <1>3 DEF Wanted
<1> QED BY <1>4, <1>5, <1>6

\* What the invariant says of the wanted modes and the tracked ones.
Matched ==
    /\ NoAdapterNoPool /\ OnlyMapped
    /\ WantedTracked /\ TrackedWanted
    /\ Tidy /\ (faults = 0 => Fed)

\* A client that gives up a key.
LEMMA DropMatched ==
    ASSUME Inv, ProxyInv, Matched, NEW c \in Client, NEW k \in Keys, Drop(c, k),
           relogins' = relogins
    PROVE  WantedTracked' /\ TrackedWanted'
<1>1. PICK s \in Sym, m \in Modes : k = <<s, m>> BY DEF Keys
<1>2. ProxyType BY DEF ProxyInv
<1>3. index[k] \in SUBSET Client BY <1>2 DEF ProxyType
<1>4. PICK X \in SUBSET Client : X = index[k] \ {c} BY <1>3
<1>5. index' = [index EXCEPT ![<<s, m>>] = X] BY <1>1, <1>4 DEF Drop
<1>6. /\ \A t \in Sym \ {s} : Wanted(t)' = Wanted(t)
      /\ X # {} => Wanted(s)' = Wanted(s) \cup {m}
      /\ X = {} => Wanted(s)' = Wanted(s) \ {m}
    BY <1>2, <1>5, WantedAfter
<1>7. faults \in Nat BY PoolAssumption DEF Inv, PoolTypeOK
<1>8. CASE index[k] = {c} /\ hasAdapter
    <2>1. k[1] = s /\ k[2] = m BY <1>1
    <2>2. PICK ok \in BOOLEAN : PoolUnsubscribe(s, m, ok) BY <1>8, <2>1 DEF Drop
    <2>3. X = {} BY <1>4, <1>8
    <2>4. /\ ModesAfter(s, IF ok THEN ModesOf(s) \ {m} ELSE ModesOf(s))
          /\ Fed /\ m \in ModesOf(s) /\ faults' = faults => ok
        BY <2>2, UnsubscribeStep
    <2>5. WantedTracked'
        BY <1>6, <2>3, <2>4 DEF ModesAfter, Matched, WantedTracked
    <2>6. ASSUME faults' = 0, relogins' = 0 PROVE \A t \in Sym : ModesOf(t)' \subseteq Wanted(t)'
        <3>1. [PoolNext]_pool BY <2>2 DEF PoolNext
        <3>2. faults = 0 BY <2>6, <3>1, FaultsGrow DEF Inv
        <3>3. m \in ModesOf(s) => ok BY <2>4, <2>6, <3>2 DEF Matched
        <3>4. ModesOf(s)' \subseteq ModesOf(s) \ {m} BY <2>4, <3>3 DEF ModesAfter
        <3>5. \A t \in Sym : ModesOf(t) \subseteq Wanted(t)
            BY <2>6, <3>2 DEF Matched, TrackedWanted
        <3> QED BY <1>6, <2>3, <2>4, <3>4, <3>5 DEF ModesAfter
    <2> QED BY <2>5, <2>6 DEF TrackedWanted
<1>9. CASE ~(index[k] = {c} /\ hasAdapter)
    <2>1. tracked' = tracked /\ faults' = faults BY <1>9 DEF Drop, Refuse, pool
    <2>2. \A t \in Sym : ModesOf(t)' = ModesOf(t) BY <2>1 DEF ModesOf
    <2>3. CASE index[k] # {c}
        <3>1. X # {} <=> index[k] # {} BY <1>4, <2>3
        <3>2. m \in Wanted(s) <=> index[k] # {} BY <1>1 DEF Wanted
        <3>3. \A t \in Sym : Wanted(t)' = Wanted(t) BY <1>6, <3>1, <3>2
        <3> QED BY <2>1, <2>2, <3>3 DEF Matched, WantedTracked, TrackedWanted
    <2>4. CASE index[k] = {c} /\ ~hasAdapter
        <3>1. \A t \in Sym : ModesOf(t) = {}
            BY <2>4 DEF Matched, NoAdapterNoPool, ModesOf, Untracked
        <3>2. X = {} BY <1>4, <2>4
        <3>3. WantedTracked' BY <1>6, <2>2, <3>2 DEF Matched, WantedTracked
        <3>4. TrackedWanted' BY <2>2, <3>1 DEF TrackedWanted
        <3> QED BY <3>3, <3>4
    <2> QED BY <1>9, <2>3, <2>4
<1> QED BY <1>8, <1>9

\* A step that takes the pool away: a login, or the last client of the user leaving,
\* after whom nothing is wanted.
LEMMA NobodyWants ==
    ASSUME ProxyInv, OnlyMapped, NEW c \in Client, subs[c] = {}, LastOfUser(c)
    PROVE  \A s \in Sym : Wanted(s) = {}
<1>1. \A d \in Client : subs[d] = {} BY DEF OnlyMapped, LastOfUser
<1>2. ASSUME NEW s \in Sym, NEW m \in Modes PROVE index[<<s, m>>] = {}
    <2>1. <<s, m>> \in Keys BY DEF Keys
    <2>2. index[<<s, m>>] \in SUBSET Client BY <2>1 DEF ProxyInv, ProxyType
    <2>3. \A d \in Client : d \notin index[<<s, m>>] BY <1>1, <2>1 DEF ProxyInv, IndexAgrees
    <2> QED BY <2>2, <2>3
<1> QED BY <1>2 DEF Wanted

\* The tracked modes and the wanted ones stay matched under every step of the proxy.
LEMMA MatchedStep ==
    ASSUME Inv, ProxyInv, Matched, AdapterIsOpen, Next
    PROVE  Matched' /\ AdapterIsOpen'
<1>1. ProxyType BY DEF ProxyInv
<1>2. [PoolNext]_pool BY ProxyStep
<1>3. NoAdapterNoPool' /\ AdapterIsOpen' BY StartedStep DEF Matched
<1>4. OnlyMapped' BY OnlyMappedStep DEF Matched
<1>5. Tidy' /\ (faults' = 0 => Fed')
    <2>1. faults \in Nat /\ faults' \in Nat /\ faults <= faults' BY <1>2, FaultsGrow DEF Inv
    <2>2. faults' = 0 => OneFailure BY <2>1 DEF OneFailure
    <2> QED BY <1>2, <2>1, <2>2, FedStep DEF Matched
<1>6. ASSUME tracked' = tracked, faults' = faults, index' = index, relogins' = relogins
      PROVE  WantedTracked' /\ TrackedWanted'
    <2>1. \A t \in Sym : ModesOf(t)' = ModesOf(t) /\ Wanted(t)' = Wanted(t)
        BY <1>6 DEF ModesOf, Wanted
    <2> QED BY <1>6, <2>1 DEF Matched, WantedTracked, TrackedWanted
<1>7. ASSUME NEW c \in Client, Connect(c) \/ Disconnect(c) \/ UnsubscribeAll(c)
      PROVE  WantedTracked' /\ TrackedWanted'
    BY <1>6, <1>7 DEF Connect, Disconnect, UnsubscribeAll, pool
<1>8. ASSUME NEW c \in Client, Authenticate(c) PROVE WantedTracked' /\ TrackedWanted'
    <2>1. index' = index /\ relogins' = relogins BY <1>8 DEF Authenticate
    <2>2. tracked' = tracked /\ (faults' = faults \/ faults' # 0)
        <3>1. CASE Refuse BY <3>1 DEF Refuse, pool
        <3>2. ASSUME NEW ok \in BOOLEAN, PoolOpen(ok)
              PROVE  tracked' = tracked /\ (faults' = faults \/ faults' # 0)
            <4>1. tracked' = tracked BY <3>2 DEF PoolOpen
            <4>2. Spend(0) \/ Spend(1) BY <3>2 DEF PoolOpen
            <4>3. faults \in Nat BY PoolAssumption DEF Inv, PoolTypeOK
            <4>4. faults' = faults \/ faults' # 0 BY <4>2, <4>3 DEF Spend
            <4>5. tracked' = tracked BY <3>2, <4>1 DEF PoolOpen
            <4> QED BY <4>4, <4>5
        <3> QED BY <1>8, <3>1, <3>2 DEF Authenticate
    <2>3. \A t \in Sym : ModesOf(t)' = ModesOf(t) /\ Wanted(t)' = Wanted(t)
        BY <2>1, <2>2 DEF ModesOf, Wanted
    <2> QED BY <2>1, <2>2, <2>3 DEF Matched, WantedTracked, TrackedWanted
<1>9. ASSUME NEW c \in Client, ClearOne(c) PROVE WantedTracked' /\ TrackedWanted'
    <2>1. PICK k \in subs[c] : Drop(c, k) BY <1>9 DEF ClearOne
    <2>2. k \in Keys /\ relogins' = relogins BY <1>1, <1>9 DEF ProxyType, ClearOne
    <2> QED BY <2>1, <2>2, DropMatched
<1>10. ASSUME NEW c \in Client, EndClear(c) PROVE WantedTracked' /\ TrackedWanted'
    <2>1. subs[c] = {} /\ index' = index /\ relogins' = relogins BY <1>10 DEF EndClear
    <2>2. CASE Refuse BY <1>6, <2>1, <2>2 DEF Refuse, pool
    <2>3. CASE LastOfUser(c) /\ PoolDisconnect
        <3>1. \A t \in Sym : Wanted(t)' = {} BY <2>1, <2>3, NobodyWants DEF Wanted, Matched
        <3>2. \A t \in Sym : ModesOf(t)' = {}
            BY <2>3 DEF PoolDisconnect, ModesOf, Untracked
        <3> QED BY <3>1, <3>2 DEF WantedTracked, TrackedWanted
    <2> QED BY <1>10, <2>2, <2>3 DEF EndClear
<1>11. ASSUME NEW c \in Client, NEW s \in Sym, NEW m \in Modes, Subscribe(c, s, m)
       PROVE  WantedTracked' /\ TrackedWanted'
    <2>1. PICK ok \in BOOLEAN :
              /\ PoolSubscribe(s, m, ok)
              /\ index' = IF ok THEN [index EXCEPT ![<<s, m>>] = @ \cup {c}] ELSE index
        BY <1>11 DEF Subscribe
    <2>2. relogins' = relogins BY <1>11 DEF Subscribe
    <2>3. ModesAfter(s, IF ok THEN ModesOf(s) \cup {m} ELSE ModesOf(s))
        BY <2>1, SubscribeStep
    <2>4. /\ \A t \in Sym \ {s} : Wanted(t)' = Wanted(t)
          /\ Wanted(s)' = IF ok THEN Wanted(s) \cup {m} ELSE Wanted(s)
        <3>1. CASE ok
            <4>1. <<s, m>> \in Keys BY DEF Keys
            <4>2. index[<<s, m>>] \in SUBSET Client BY <1>1, <4>1 DEF ProxyType
            <4>3. PICK X \in SUBSET Client : X = index[<<s, m>>] \cup {c} BY <4>2
            <4>4. index' = [index EXCEPT ![<<s, m>>] = X] /\ X # {} BY <2>1, <3>1, <4>3
            <4> QED BY <1>1, <3>1, <4>4, WantedAfter
        <3>2. CASE ~ok BY <2>1, <3>2 DEF Wanted
        <3> QED BY <3>1, <3>2
    <2>5. WantedTracked' BY <2>2, <2>3, <2>4 DEF Matched, WantedTracked, ModesAfter
    <2>6. faults' = 0 => faults = 0
        BY <1>2, FaultsGrow DEF Inv
    <2>7. TrackedWanted' BY <2>2, <2>3, <2>4, <2>6 DEF Matched, TrackedWanted, ModesAfter
    <2> QED BY <2>5, <2>7
<1>12. ASSUME NEW c \in Client, NEW s \in Sym, NEW m \in Modes, Unsubscribe(c, s, m)
       PROVE  WantedTracked' /\ TrackedWanted'
    <2>1. PICK k \in Keys : k = <<s, ModeTaken(m)>>
        BY ProxyAssumption DEF ModeTaken, Keys
    <2>2. Drop(c, k) /\ relogins' = relogins BY <1>12, <2>1 DEF Unsubscribe
    <2> QED BY <2>2, DropMatched
<1>13. ASSUME Relogin PROVE WantedTracked' /\ TrackedWanted'
    <2>1. relogins' = relogins + 1 BY <1>13 DEF Relogin
    <2>2. relogins' # 0 BY <1>1, <2>1, ProxyAssumption DEF ProxyType
    <2> QED BY <2>2 DEF WantedTracked, TrackedWanted
<1>14. ASSUME AdapterStep, UNCHANGED proxy PROVE WantedTracked' /\ TrackedWanted'
    <2>1. \A t \in Sym : ModesOf(t)' = ModesOf(t) BY <1>14, ThreadStep
    <2>2. index' = index /\ relogins' = relogins BY <1>14 DEF proxy
    <2>3. \A t \in Sym : Wanted(t)' = Wanted(t) BY <2>2 DEF Wanted
    <2>4. faults' = 0 => faults = 0 BY <1>2, FaultsGrow DEF Inv
    <2>5. WantedTracked' BY <2>1, <2>2, <2>3 DEF Matched, WantedTracked
    <2>6. TrackedWanted' BY <2>1, <2>2, <2>3, <2>4 DEF Matched, TrackedWanted
    <2> QED BY <2>5, <2>6
<1>15. WantedTracked' /\ TrackedWanted'
    <2>1. CASE \E c \in Client :
                   Connect(c) \/ Authenticate(c) \/ Disconnect(c)
                   \/ UnsubscribeAll(c) \/ ClearOne(c) \/ EndClear(c)
        BY <1>7, <1>8, <1>9, <1>10, <2>1
    <2>2. CASE \E c \in Client, s \in Sym, m \in Modes : Subscribe(c, s, m) \/ Unsubscribe(c, s, m)
        BY <1>11, <1>12, <2>2
    <2> QED BY <1>13, <1>14, <2>1, <2>2 DEF Next
<1> QED BY <1>3, <1>4, <1>5, <1>15 DEF Matched

\* The inductive invariant of the proxy and the pool under it.
LInv == Inv /\ ProxyInv /\ Matched /\ AdapterIsOpen

\* At first nothing is wanted and nothing tracked.
LEMMA InitMatched == Init => LInv /\ Fed
<1> SUFFICES ASSUME Init PROVE LInv /\ Fed
    OBVIOUS
<1>1. PoolInit /\ ~hasAdapter /\ index = [k \in Keys |-> {}] /\ subs = [c \in Client |-> {}]
    BY DEF Init
<1>2. conns = <<>> /\ tracked = Untracked BY <1>1 DEF PoolInit
<1>3. Inv BY <1>1, InitHolds
<1>4. ProxyInv BY ProxyStart
<1>5. Fed /\ Tidy BY <1>2 DEF Fed, FedIn, Tidy, TidyIn
<1>6. AdapterIsOpen BY <1>1, <1>2 DEF AdapterIsOpen
<1>7. NoAdapterNoPool /\ OnlyMapped BY <1>1, <1>2 DEF NoAdapterNoPool, OnlyMapped
<1>8. \A s \in Sym : ModesOf(s) = {} BY <1>2 DEF ModesOf, Untracked
<1>9. \A s \in Sym : Wanted(s) = {} BY <1>1 DEF Wanted, Keys
<1> QED BY <1>3, <1>4, <1>5, <1>6, <1>7, <1>8, <1>9
        DEF LInv, Matched, WantedTracked, TrackedWanted

\* The whole invariant is inductive.
LEMMA LInvStep == LInv /\ [Next]_vars => LInv' /\ [PoolNext]_pool
<1> SUFFICES ASSUME LInv, [Next]_vars PROVE LInv' /\ [PoolNext]_pool
    OBVIOUS
<1>1. Inv /\ ProxyInv /\ Matched /\ AdapterIsOpen BY DEF LInv
<1>2. ProxyInv' /\ [PoolNext]_pool BY <1>1, ProxyStep
<1>3. Inv' BY <1>1, <1>2, StepEffect
<1>4. CASE Next BY <1>1, <1>2, <1>3, <1>4, MatchedStep DEF LInv
<1>5. CASE UNCHANGED vars
    <2>1. /\ conns' = conns /\ tracked' = tracked /\ faults' = faults
          /\ status' = status /\ subs' = subs /\ index' = index
          /\ hasAdapter' = hasAdapter /\ relogins' = relogins
        BY <1>5 DEF vars, pool, proxy
    <2>2. conns \in Seq(Conn) BY <1>1 DEF Inv, PoolTypeOK
    <2>3. \A t \in Sym : ModesOf(t)' = ModesOf(t) /\ Wanted(t)' = Wanted(t)
        BY <2>1 DEF ModesOf, Wanted
    <2>4. (Fed => Fed') /\ (Tidy => Tidy') BY <2>1, <2>2, Alike
    <2>5. AdapterIsOpen' BY <1>1, <2>1 DEF AdapterIsOpen
    <2>6. NoAdapterNoPool' /\ OnlyMapped' BY <1>1, <2>1 DEF Matched, NoAdapterNoPool, OnlyMapped
    <2>7. WantedTracked' /\ TrackedWanted'
        BY <1>1, <2>1, <2>3 DEF Matched, WantedTracked, TrackedWanted
    <2> QED BY <1>1, <1>2, <1>3, <2>1, <2>4, <2>5, <2>6, <2>7 DEF LInv, Matched
<1> QED BY <1>2, <1>4, <1>5

\* A wanted mode is tracked, and the connection of a symbol owes it the highest.
LEMMA ServedBecauseFed == LInv /\ Fed => EveryoneServed
<1> SUFFICES ASSUME LInv, Fed, relogins = 0, NEW s \in Sym, NEW n \in Modes, index[<<s, n>>] # {}
             PROVE  /\ PlaceOf(s) \in DOMAIN conns
                    /\ faults = 0 \/ s \notin conns[PlaceOf(s)].hasty =>
                           \/ conns[PlaceOf(s)].unsent[s] # {}
                           \/ conns[PlaceOf(s)].fed[s] # 0
                    /\ s \notin conns[PlaceOf(s)].hasty /\ conns[PlaceOf(s)].unsent[s] = {} =>
                           conns[PlaceOf(s)].fed[s] >= n
    BY DEF EveryoneServed, Keys
<1>1. Inv /\ n \in Wanted(s) BY DEF LInv, Wanted
<1>2. n \in ModesOf(s) BY <1>1 DEF LInv, Matched, WantedTracked
<1>3. ModesOf(s) \subseteq 1..3 BY PoolAssumption DEF ModesOf
<1>4. Max(ModesOf(s)) \in 1..3 /\ n <= Max(ModesOf(s)) /\ n \in 1..3
    BY <1>2, <1>3, HighestMode
<1>5. PICK i \in 1..Len(conns) : i = PlaceOf(s) BY <1>1, <1>2, OnOne
<1>6. conns \in Seq(Conn) BY <1>1 DEF Inv, PoolTypeOK
<1>7. At(i, s) = ModesOf(s)
    <2>1. s \in On(i) BY <1>1, <1>5, OnOne
    <2> QED BY <2>1 DEF At
<1>8. PICK c : c = conns[i] OBVIOUS
<1>9. Owed(c, s, ModesOf(s)) /\ Clean(c, s, ModesOf(s), faults) BY <1>7, <1>8 DEF Fed, FedIn
<1>10. s \notin c.hasty =>
           c.unsent[s] = {Max(ModesOf(s))} \/ (c.unsent[s] = {} /\ c.fed[s] = Max(ModesOf(s)))
    <2>1. ModesOf(s) # {} BY <1>2
    <2> QED BY <1>9, <2>1 DEF Owed
<1>11. faults = 0 => c.unsent[s] # {} \/ c.fed[s] # 0 BY <1>2, <1>9 DEF Clean, Traffic
<1>12. s \notin c.hasty => c.unsent[s] # {} \/ c.fed[s] # 0
    <2>1. \A h \in 1..3 : h # 0 /\ {h} # {} OBVIOUS
    <2>2. PICK h \in 1..3 : h = Max(ModesOf(s)) BY <1>4
    <2> QED BY <1>10, <2>1, <2>2
<1>13. s \notin c.hasty /\ c.unsent[s] = {} => c.fed[s] >= n BY <1>4, <1>10
<1> QED BY <1>5, <1>6, <1>8, <1>11, <1>12, <1>13

\* Nothing is tracked that is not wanted, and nothing waits or was sent that is not tracked.
LEMMA NoLeakBecauseMatched == LInv => NothingLeaks
<1> SUFFICES ASSUME LInv PROVE NothingLeaks
    OBVIOUS
<1>1. Inv /\ Tidy BY DEF LInv, Matched
<1>2. faults = 0 /\ relogins = 0 => \A s \in Sym : ModesOf(s) = Wanted(s)
    BY DEF LInv, Matched, WantedTracked, TrackedWanted
<1>3. conns \in Seq(Conn) BY <1>1 DEF Inv, PoolTypeOK
<1>4. ASSUME NEW i \in DOMAIN conns, NEW s \in Sym \ conns[i].hasty,
             NEW m \in conns[i].unsent[s] \cup ({conns[i].fed[s]} \ {0})
      PROVE  PlaceOf(s) = i /\ m <= Max(ModesOf(s))
    <2>1. i \in 1..Len(conns) /\ i \in Nat \ {0} BY <1>3
    <2>2. Neat(conns[i], s, At(i, s)) /\ m \in Traffic(conns[i], s)
        BY <1>1, <2>1 DEF Tidy, TidyIn, Traffic
    <2>3. At(i, s) # {} /\ m <= Max(At(i, s)) BY <2>2 DEF Neat
    <2>4. s \in On(i) /\ At(i, s) = ModesOf(s) BY <2>3 DEF At
    <2>5. PlaceOf(s) = i BY <1>1, <2>1, <2>4, OnOne
    <2> QED BY <2>3, <2>4, <2>5
<1> QED BY <1>2, <1>4 DEF NothingLeaks, Wanted

\* With an adapter in the table a client of the broker was started, and without one
\* none is, for any clients, symbols, capacities and failures.
THEOREM AdapterStarted == Spec => []AdapterIsOpen
<1>1. Init => LInv BY InitMatched
<1>2. LInv /\ [Next]_vars => LInv' BY LInvStep
<1>3. LInv => AdapterIsOpen BY DEF LInv
<1> QED BY <1>1, <1>2, <1>3, PTL DEF Spec

\* The pool tracks what the clients want while no call has failed; and, however many
\* fail, nothing that was not overtaken waits or is fed on a connection it is not on,
\* or above what is wanted.
THEOREM NoLeak == Spec => []NothingLeaks
<1>1. Init => LInv BY InitMatched
<1>2. LInv /\ [Next]_vars => LInv' BY LInvStep
<1>3. LInv => NothingLeaks BY NoLeakBecauseMatched
<1> QED BY <1>1, <1>2, <1>3, PTL DEF Spec

\* However many calls fail and sockets are lost, as long as no handler meets two failures
\* (a downgrade that is refused and then cannot be taken back), a client that was told it
\* is subscribed waits for its request to be sent, or is fed.
THEOREM SubscribersServed == Spec /\ [][OneFailure]_vars => []EveryoneServed
<1>1. Init => LInv /\ Fed BY InitMatched
<1>2. LInv /\ Fed /\ [Next]_vars /\ [OneFailure]_vars => LInv' /\ Fed'
    <2> SUFFICES ASSUME LInv, Fed, [Next]_vars, [OneFailure]_vars PROVE LInv' /\ Fed'
        OBVIOUS
    <2>1. LInv' /\ [PoolNext]_pool BY LInvStep
    <2>2. faults \in Nat BY PoolAssumption DEF LInv, Inv, PoolTypeOK
    <2>3. OneFailure BY <2>2 DEF OneFailure, vars, pool
    <2> QED BY <2>1, <2>3, FedStep DEF LInv
<1>3. LInv /\ Fed => EveryoneServed BY ServedBecauseFed
<1> QED BY <1>1, <1>2, <1>3, PTL DEF Spec
=============================================================================
