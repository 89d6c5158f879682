------------------------- MODULE ActionCenterProofs -------------------------
(***************************************************************************)
(* For every number of request threads, each of which approves, rejects    *)
(* and deletes, and every number of restarts: the types, that an order is  *)
(* sent twice only if it was raced for, and that an order which waits is   *)
(* deleted only then.  What two requests do to an order that none of them  *)
(* shares is what one alone would do.                                      *)
(***************************************************************************)
EXTENDS ActionCenter, TLAPS

\* What a thread is left with after a request, or after a row of its list.
LEMMA IdleTypes ==
    /\ Idle \in [at : {"idle"}, id : {0}, order : {0}, kind : Kind, list : SUBSET Id,
                 fresh : BOOLEAN, result : {"none"}]
    /\ TypeOK => \A w \in Web : Resume(w) \in
           [at : {"batch"}, id : {0}, order : {0}, kind : Kind, list : SUBSET Id,
            fresh : BOOLEAN, result : {"none"}]
<1>1. Idle \in [at : {"idle"}, id : {0}, order : {0}, kind : Kind, list : SUBSET Id,
                fresh : BOOLEAN, result : {"none"}] BY DEF Idle, Kind
<1>2. ASSUME TypeOK, NEW w \in Web
      PROVE  Resume(w) \in [at : {"batch"}, id : {0}, order : {0}, kind : Kind,
                            list : SUBSET Id, fresh : BOOLEAN, result : {"none"}]
    <2>1. web[w].list \in SUBSET Id BY <1>2 DEF TypeOK
    <2>2. [Idle EXCEPT !.at = "batch"] \in
              [at : {"batch"}, id : {0}, order : {0}, kind : Kind, list : SUBSET Id,
               fresh : BOOLEAN, result : {"none"}] BY <1>1
    <2>3. [[Idle EXCEPT !.at = "batch"] EXCEPT !.list = web[w].list] \in
              [at : {"batch"}, id : {0}, order : {0}, kind : Kind, list : SUBSET Id,
               fresh : BOOLEAN, result : {"none"}] BY <2>1, <2>2
    <2> QED BY <2>3 DEF Resume
<1> QED BY <1>1, <1>2

\* What a thread has in hand, and where a thread may stand with it.
Hand ==
    [at : {"idle", "batch", "approve", "reload", "send", "record", "reject", "delete"},
     id : Id \cup {0}, order : Order \cup {0}, kind : Kind, list : SUBSET Id,
     fresh : BOOLEAN, result : {"none", "open", "complete", "rejected"}]

Fits(s) ==
    /\ s \in Hand
    /\ s.at \notin {"idle", "batch"} => s.id \in Id

Row == [status : {"none", "pending", "approved", "rejected"}, kind : Kind,
        broker : {"none", "open", "complete", "rejected"}, order : Order \cup {0}]

\* A row has an order that was queued.
Typed ==
    /\ TypeOK
    /\ \A w \in Web : Fits(web[w])
    /\ \A i \in Id : Exists(i) => rows[i].order \in 1 .. queued

LEMMA TypedParts ==
    Typed <=> /\ rows \in [Id -> Row]
              /\ queued \in 0 .. MaxOrders
              /\ sent \in [Order -> Nat]
              /\ web \in [Web -> Hand]
              /\ raced \subseteq Order
              /\ restarts \in 0 .. MaxRestarts
              /\ \A w \in Web : Fits(web[w])
              /\ \A i \in Id : Exists(i) => rows[i].order \in 1 .. queued
BY DEF Typed, TypeOK, Row, Hand, Fits

LEMMA TypedThen ==
    ASSUME rows' \in [Id -> Row], queued' \in 0 .. MaxOrders, sent' \in [Order -> Nat],
           web' \in [Web -> Hand], raced' \subseteq Order, restarts' \in 0 .. MaxRestarts,
           \A w \in Web : Fits(web'[w]),
           \A i \in Id : rows'[i].status # "none" => rows'[i].order \in 1 .. queued'
    PROVE  Typed'
BY DEF Exists, Typed, TypeOK, Row, Hand, Fits

LEMMA Rests ==
    /\ NoRow \in Row
    /\ Fits(Idle) /\ Idle.at = "idle"
    /\ Typed => \A w \in Web : Fits(Resume(w)) /\ Resume(w).at = "batch"
<1>1. NoRow \in Row BY DEF NoRow, Row, Kind
<1>2. Fits(Idle) /\ Idle.at = "idle" BY IdleTypes DEF Fits, Hand
<1>3. ASSUME Typed, NEW w \in Web
      PROVE  Fits(Resume(w)) /\ Resume(w).at = "batch"
    BY <1>3, IdleTypes DEF Fits, Hand, Typed
<1> QED BY <1>1, <1>2, <1>3

\* What a thread has read before its step.
LEMMA Holds ==
    ASSUME Typed, NEW w \in Web
    PROVE  Fits(web[w]) /\ web[w] \in Hand
BY TypedParts DEF Fits

-----------------------------------------------------------------------------
\* The steps, by what they do to the rows, the broker and what a thread has in
\* hand.  A thread that only reads comes to have nothing in hand that matters, or
\* a decided row to delete, a pending one to approve, or what it takes to the
\* broker.
ReadStep(w, s) ==
    /\ Fits(s) /\ Step(w, s)
    /\ UNCHANGED <<rows, queued, sent, restarts>>
    /\ \/ s.at \notin {"approve", "reload", "send", "delete"} /\ raced' = raced
       \/ s.at = "delete" /\ rows[s.id].status # "pending" /\ raced' = raced
       \/ /\ s.at = "approve" /\ rows[s.id].status = "pending"
          /\ raced' = IF InHand(s.id, {"approve"}) THEN raced \cup {rows[s.id].order} ELSE raced
       \/ /\ s.at = "send" /\ web[w].at = "reload" /\ raced' = raced
          /\ rows[web[w].id].status = "approved" /\ s.order = rows[web[w].id].order

\* A decision, a broker status or a deletion, by id.
EditStep(w, s, i, row) ==
    /\ Fits(s) /\ Step(w, s) /\ s.at \in {"idle", "batch", "reload"}
    /\ row \in Row /\ rows' = [rows EXCEPT ![i] = row]
    /\ row.status = "pending" => rows[i].status = "pending"
    /\ row.status # "none" => Exists(i) /\ row.order = rows[i].order
    /\ row.status = "none" => web[w].at = "delete" /\ web[w].id = i
    /\ s.at = "reload" => /\ web[w].at = "approve" /\ s.id = web[w].id
                          /\ s.id = i /\ row.status = "approved"
    /\ UNCHANGED <<queued, sent, raced, restarts>>

SendStep(w, s) ==
    /\ Fits(s) /\ Step(w, s) /\ s.at \in {"batch", "record"}
    /\ web[w].at = "send"
    /\ sent' = sent \/ sent' = [sent EXCEPT ![web[w].order] = @ + 1]
    /\ UNCHANGED <<rows, queued, raced, restarts>>

\* A step of a thread is of one of the three kinds.
Stepping ==
    \E w \in Web : \E s : \/ ReadStep(w, s) \/ SendStep(w, s)
                         \/ \E i \in Id : \E row : EditStep(w, s, i, row)

LEMMA TakeNextSteps ==
    ASSUME Typed, NEW w \in Web, TakeNext(w)
    PROVE  Stepping
<1> DEFINE me == web[w]
<1>1. Fits(me) /\ me \in Hand /\ me.at = "batch" BY Holds DEF TakeNext, At
<1>2. UNCHANGED <<rows, queued, sent, restarts>> BY DEF TakeNext
<1>3. CASE Step(w, Idle) /\ UNCHANGED raced
    <2>1. ReadStep(w, Idle) BY <1>2, <1>3, Rests DEF ReadStep
    <2> QED BY <2>1 DEF Stepping
<1>4. ASSUME NEW i \in me.list, rows[i].status = "pending",
             Begin(w, i, [me EXCEPT !.at = "approve", !.id = i, !.list = @ \ {i}])
      PROVE  Stepping
    <2> DEFINE s == [me EXCEPT !.at = "approve", !.id = i, !.list = @ \ {i}]
    <2>1. i \in Id BY <1>1 DEF Hand
    <2>2. s \in Hand /\ s.at = "approve" /\ s.id = i BY <1>1, <2>1 DEF Hand
    <2>3. /\ Step(w, s)
          /\ raced' = IF InHand(i, {"approve"}) THEN raced \cup {rows[i].order} ELSE raced
        BY <1>4 DEF Begin
    <2> HIDE DEF s
    <2>4. Fits(s) BY <2>1, <2>2 DEF Fits
    <2>5. ReadStep(w, s) BY <1>2, <1>4, <2>2, <2>3, <2>4 DEF ReadStep
    <2> QED BY <2>5 DEF Stepping
<1>5. ASSUME NEW i \in me.list, Step(w, [me EXCEPT !.list = @ \ {i}]), UNCHANGED raced
      PROVE  Stepping
    <2> DEFINE s == [me EXCEPT !.list = @ \ {i}]
    <2>1. s \in Hand /\ s.at = "batch" BY <1>1 DEF Hand
    <2>2. Step(w, s) BY <1>5
    <2> HIDE DEF s
    <2>3. ReadStep(w, s) BY <1>2, <1>5, <2>1, <2>2 DEF ReadStep, Fits
    <2> QED BY <2>3 DEF Stepping
<1>6. \/ Step(w, Idle) /\ UNCHANGED raced
      \/ \E i \in me.list :
             \/ /\ rows[i].status = "pending"
                /\ Begin(w, i, [me EXCEPT !.at = "approve", !.id = i, !.list = @ \ {i}])
             \/ Step(w, [me EXCEPT !.list = @ \ {i}]) /\ UNCHANGED raced
    BY Zenon DEF TakeNext
<1> QED BY <1>3, <1>4, <1>5, <1>6

LEMMA ReloadSteps ==
    ASSUME Typed, NEW w \in Web, Reload(w)
    PROVE  Stepping
<1> DEFINE me == web[w]
           r  == rows[me.id]
           s  == [me EXCEPT !.at = "send", !.order = r.order, !.kind = r.kind]
           t  == [me EXCEPT !.at = "record", !.result = "rejected"]
<1>1. Fits(me) /\ me \in Hand /\ me.at = "reload" BY Holds DEF Reload, At
<1>2. me.id \in Id /\ r \in Row BY <1>1, TypedParts DEF Fits
<1>3. UNCHANGED <<rows, queued, sent, raced, restarts>> BY DEF Reload
<1>4. s \in Hand /\ s.at = "send" /\ s.id = me.id /\ s.order = r.order
    BY <1>1, <1>2 DEF Hand, Row
<1>5. t \in Hand /\ t.at = "record" /\ t.id = me.id BY <1>1 DEF Hand
<1>6. \/ r.status = "approved" /\ Step(w, s)
      \/ Step(w, t)
      \/ Step(w, Resume(w))
    BY DEF Reload
<1> HIDE DEF s, t
<1>7. CASE r.status = "approved" /\ Step(w, s)
    <2>1. ReadStep(w, s) BY <1>1, <1>2, <1>3, <1>4, <1>7 DEF ReadStep, Fits
    <2> QED BY <2>1 DEF Stepping
<1>8. CASE Step(w, t)
    <2>1. ReadStep(w, t) BY <1>2, <1>3, <1>5, <1>8 DEF ReadStep, Fits
    <2> QED BY <2>1 DEF Stepping
<1>9. CASE Step(w, Resume(w))
    <2>1. ReadStep(w, Resume(w)) BY <1>3, <1>9, Rests DEF ReadStep
    <2> QED BY <2>1 DEF Stepping
<1> QED BY <1>6, <1>7, <1>8, <1>9

LEMMA SendSteps ==
    ASSUME Typed, NEW w \in Web, Send(w)
    PROVE  Stepping
<1> DEFINE me == web[w]
<1>1. Fits(me) /\ me \in Hand /\ me.at = "send" BY Holds DEF Send, At
<1>2. /\ UNCHANGED <<rows, queued, raced, restarts>>
      /\ sent' = sent \/ sent' = [sent EXCEPT ![me.order] = @ + 1]
    BY DEF Send
<1>3. ASSUME NEW result \in {"open", "complete", "rejected"},
             Step(w, [me EXCEPT !.at = "record", !.result = result])
      PROVE  Stepping
    <2> DEFINE s == [me EXCEPT !.at = "record", !.result = result]
    <2>1. s \in Hand /\ s.at = "record" /\ s.id = me.id BY <1>1 DEF Hand
    <2>2. Step(w, s) BY <1>3
    <2> HIDE DEF s
    <2>3. SendStep(w, s) BY <1>1, <1>2, <2>1, <2>2 DEF SendStep, Fits
    <2> QED BY <2>3 DEF Stepping
<1>4. CASE Step(w, Resume(w))
    <2>1. SendStep(w, Resume(w)) BY <1>1, <1>2, <1>4, Rests DEF SendStep
    <2> QED BY <2>1 DEF Stepping
<1>5. \/ Step(w, Resume(w))
      \/ \E result \in {"open", "complete", "rejected"} :
             Step(w, [me EXCEPT !.at = "record", !.result = result])
    BY DEF Send
<1> QED BY <1>3, <1>4, <1>5

\* The commits; the record and the rejection leave alone a row that is gone.
LEMMA CommitSteps ==
    ASSUME Typed, NEW w \in Web, Approve(w) \/ Record(w) \/ Reject(w) \/ Delete(w)
    PROVE  Stepping
<1> DEFINE me == web[w]
           i  == me.id
<1>1. Fits(me) /\ me \in Hand /\ i \in Id /\ me.at \in {"approve", "record", "reject", "delete"}
    BY Holds DEF Approve, Record, Reject, Delete, At, Fits
<1>2. rows[i] \in Row /\ rows \in [Id -> Row] BY <1>1, TypedParts
<1>3. UNCHANGED <<queued, sent, raced, restarts>> BY DEF Approve, Record, Reject, Delete
<1>4. CASE UNCHANGED rows /\ Step(w, Resume(w))
    <2>1. ReadStep(w, Resume(w)) BY <1>3, <1>4, Rests DEF ReadStep
    <2> QED BY <2>1 DEF Stepping
<1>5. CASE UNCHANGED rows /\ Step(w, Idle)
    <2>1. ReadStep(w, Idle) BY <1>3, <1>5, Rests DEF ReadStep
    <2> QED BY <2>1 DEF Stepping
<1>6. CASE Approve(w) /\ Exists(i)
    <2> DEFINE row == [rows[i] EXCEPT !.status = "approved"]
               s   == [me EXCEPT !.at = "reload"]
    <2>1. rows' = [rows EXCEPT ![i] = row] /\ Step(w, s) /\ me.at = "approve"
        BY <1>6 DEF Approve, At
    <2>2. row \in Row /\ row.status = "approved" /\ row.order = rows[i].order BY <1>2 DEF Row
    <2>3. s \in Hand /\ s.at = "reload" /\ s.id = i BY <1>1 DEF Hand
    <2> HIDE DEF row, s
    <2>4. EditStep(w, s, i, row) BY <1>1, <1>3, <1>6, <2>1, <2>2, <2>3 DEF EditStep, Fits
    <2> QED BY <1>1, <2>4 DEF Stepping
<1>7. CASE Record(w) /\ Exists(i)
    <2> DEFINE row == [rows[i] EXCEPT !.broker = me.result]
    <2>1. rows' = [rows EXCEPT ![i] = row] /\ Step(w, Resume(w)) BY <1>7 DEF Record
    <2>2. row \in Row /\ row.status = rows[i].status /\ row.order = rows[i].order
        BY <1>1, <1>2 DEF Row, Hand
    <2> HIDE DEF row
    <2>3. EditStep(w, Resume(w), i, row)
        BY <1>1, <1>3, <1>7, <2>1, <2>2, Rests DEF EditStep, Exists
    <2> QED BY <1>1, <2>3 DEF Stepping
<1>8. CASE Reject(w) /\ Exists(i)
    <2> DEFINE row == [rows[i] EXCEPT !.status = "rejected"]
    <2>1. rows' = [rows EXCEPT ![i] = row] /\ Step(w, Idle) BY <1>8 DEF Reject
    <2>2. row \in Row /\ row.status = "rejected" /\ row.order = rows[i].order BY <1>2 DEF Row
    <2> HIDE DEF row
    <2>3. EditStep(w, Idle, i, row) BY <1>1, <1>3, <1>8, <2>1, <2>2, Rests DEF EditStep
    <2> QED BY <1>1, <2>3 DEF Stepping
<1>9. CASE Delete(w)
    <2>1. rows' = [rows EXCEPT ![i] = NoRow] /\ Step(w, Idle) /\ me.at = "delete"
        BY <1>9 DEF Delete, At
    <2>2. NoRow \in Row /\ NoRow.status = "none" BY Rests DEF NoRow
    <2>3. EditStep(w, Idle, i, NoRow) BY <1>1, <1>3, <2>1, <2>2, Rests DEF EditStep
    <2> QED BY <1>1, <2>3 DEF Stepping
<1> QED BY <1>4, <1>5, <1>6, <1>7, <1>8, <1>9 DEF Approve, Record, Reject

LEMMA AskSteps ==
    ASSUME Typed, Ask
    PROVE  Stepping
<1>1. ASSUME NEW w \in Web, AskApproveAll(w) PROVE Stepping
    <2> DEFINE s == [Idle EXCEPT !.at = "batch", !.list = {i \in Id : rows[i].status = "pending"}]
    <2>1. Step(w, s) /\ UNCHANGED <<rows, queued, sent, raced, restarts>>
        BY <1>1 DEF AskApproveAll
    <2>2. s \in Hand /\ s.at = "batch" BY DEF Idle, Hand, Kind
    <2> HIDE DEF s
    <2>3. ReadStep(w, s) BY <2>1, <2>2 DEF ReadStep, Fits
    <2> QED BY <2>3 DEF Stepping
<1>2. ASSUME NEW w \in Web, NEW i \in Id,
             AskApprove(w, i) \/ AskReject(w, i) \/ AskDelete(w, i)
      PROVE  Stepping
    <2> DEFINE s(place) == [Idle EXCEPT !.at = place, !.id = i]
    <2>1. \A place \in {"approve", "reject", "delete"} :
              s(place) \in Hand /\ s(place).at = place /\ s(place).id = i
        BY DEF Idle, Hand, Kind
    <2>2. UNCHANGED <<rows, queued, sent, restarts>>
        BY <1>2 DEF AskApprove, AskReject, AskDelete
    <2>3. \/ /\ Step(w, s("approve")) /\ rows[i].status = "pending"
             /\ raced' = IF InHand(i, {"approve"}) THEN raced \cup {rows[i].order} ELSE raced
          \/ Step(w, s("reject")) /\ raced' = raced
          \/ Step(w, s("delete")) /\ rows[i].status # "pending" /\ raced' = raced
        BY <1>2 DEF AskApprove, AskReject, AskDelete, Begin
    <2> HIDE DEF s
    <2>4. \E place \in {"approve", "reject", "delete"} : ReadStep(w, s(place))
        BY <2>1, <2>2, <2>3 DEF ReadStep, Fits
    <2> QED BY <2>4 DEF Stepping
<1> QED BY <1>1, <1>2 DEF Ask

LEMMA NextSteps ==
    ASSUME Typed, Next
    PROVE  Stepping \/ Restart \/ \E kind \in Kinds : Queue(kind)
BY TakeNextSteps, ReloadSteps, SendSteps, CommitSteps, AskSteps DEF Next, Proceed

\* Where the threads are after the step of one.
LEMMA Stepped ==
    ASSUME Typed, NEW w \in Web, NEW s, Fits(s), Step(w, s)
    PROVE  /\ web' \in [Web -> Hand]
           /\ \A v \in Web : web'[v] = (IF v = w THEN s ELSE web[v]) /\ Fits(web'[v])
<1>1. web \in [Web -> Hand] /\ s \in Hand BY TypedParts DEF Fits
<1>2. \A v \in Web : web'[v] = IF v = w THEN s ELSE web[v] BY <1>1 DEF Step
<1> QED BY <1>1, <1>2, TypedParts DEF Step

\* What a queued order does to the rows, and to the races.
LEMMA Queued ==
    ASSUME Typed, NEW kind \in Kinds, Queue(kind)
    PROVE  /\ queued \in Nat /\ queued' = queued + 1 /\ queued + 1 \in Order
           /\ queued' \in 0 .. MaxOrders /\ UNCHANGED <<sent, web, restarts>>
           /\ \E k : \E row \in Row :
                  /\ row.status = "pending" /\ row.order = queued + 1
                  /\ rows' = [rows EXCEPT ![k] = row]
                  /\ raced' = IF InHand(k, {"approve", "reload", "delete"})
                              THEN raced \cup {queued + 1} ELSE raced
<1>1. queued < MaxOrders /\ queued' = queued + 1 /\ UNCHANGED <<sent, web, restarts>> BY DEF Queue
<1>2. queued \in Nat /\ queued + 1 \in Order /\ queued' \in 0 .. MaxOrders /\ kind \in Kind
    BY <1>1, TypedParts, ActionCenterAssumption DEF Order
<1> DEFINE row == [status |-> "pending", kind |-> kind, broker |-> "none", order |-> queued + 1]
<1>3. \E k : /\ rows' = [rows EXCEPT ![k] = row]
             /\ raced' = IF InHand(k, {"approve", "reload", "delete"})
                         THEN raced \cup {queued + 1} ELSE raced
    BY DEF Queue
<1>4. row \in Row /\ row.status = "pending" /\ row.order = queued + 1 BY <1>2 DEF Row
<1> HIDE DEF row
<1> QED BY <1>1, <1>2, <1>3, <1>4

-----------------------------------------------------------------------------
LEMMA TypedFirst == Init => Typed
<1> SUFFICES ASSUME Init PROVE Typed OBVIOUS
<1>1. rows \in [Id -> Row] /\ \A i \in Id : rows[i].status = "none"
    BY Rests DEF Init, NoRow
<1>2. web \in [Web -> Hand] /\ \A w \in Web : Fits(web[w]) BY Rests DEF Init, Fits
<1>3. queued \in 0 .. MaxOrders /\ restarts \in 0 .. MaxRestarts /\ raced \subseteq Order
    BY ActionCenterAssumption DEF Init
<1>4. sent \in [Order -> Nat] BY DEF Init
<1> QED BY <1>1, <1>2, <1>3, <1>4, TypedParts DEF Exists

LEMMA ReadTyped ==
    ASSUME Typed, NEW w \in Web, NEW s, ReadStep(w, s)
    PROVE  Typed'
<1>1. /\ web' \in [Web -> Hand] /\ \A v \in Web : Fits(web'[v])
      /\ UNCHANGED <<rows, queued, sent, restarts>>
    BY Stepped DEF ReadStep
<1>2. raced' \subseteq Order
    <2>1. raced \subseteq Order BY TypedParts
    <2>2. CASE raced' = raced BY <2>1, <2>2
    <2>3. CASE s.at = "approve" /\ rows[s.id].status = "pending"
               /\ raced' = IF InHand(s.id, {"approve"}) THEN raced \cup {rows[s.id].order} ELSE raced
        <3>1. s.id \in Id BY <2>3 DEF ReadStep, Fits
        <3>2. rows[s.id].order \in 1 .. queued BY <2>3, <3>1, TypedParts DEF Exists
        <3>3. rows[s.id].order \in Order BY <3>2, TypedParts, ActionCenterAssumption DEF Order
        <3> QED BY <2>1, <2>3, <3>3
    <2> QED BY <2>2, <2>3 DEF ReadStep
<1> QED BY <1>1, <1>2, TypedParts, TypedThen DEF Exists

LEMMA EditTyped ==
    ASSUME Typed, NEW w \in Web, NEW s, NEW i \in Id, NEW row, EditStep(w, s, i, row)
    PROVE  Typed'
<1>1. /\ web' \in [Web -> Hand] /\ \A v \in Web : Fits(web'[v])
      /\ UNCHANGED <<queued, sent, raced, restarts>>
    BY Stepped DEF EditStep
<1>2. /\ rows' \in [Id -> Row]
      /\ \A j \in Id : rows'[j] = IF j = i THEN row ELSE rows[j]
    BY TypedParts DEF EditStep
<1>3. \A j \in Id : rows'[j].status # "none" => rows'[j].order \in 1 .. queued
    BY <1>2, TypedParts DEF EditStep, Exists
<1> QED BY <1>1, <1>2, <1>3, TypedParts, TypedThen

LEMMA SendTyped ==
    ASSUME Typed, NEW w \in Web, NEW s, SendStep(w, s)
    PROVE  Typed'
<1>1. /\ web' \in [Web -> Hand] /\ \A v \in Web : Fits(web'[v])
      /\ UNCHANGED <<rows, queued, raced, restarts>>
    BY Stepped DEF SendStep
<1>2. sent' \in [Order -> Nat] BY TypedParts DEF SendStep
<1> QED BY <1>1, <1>2, TypedParts, TypedThen DEF Exists

LEMMA QueueTyped ==
    ASSUME Typed, NEW kind \in Kinds, Queue(kind)
    PROVE  Typed'
<1>1. /\ queued \in Nat /\ queued' = queued + 1 /\ queued + 1 \in Order
      /\ queued' \in 0 .. MaxOrders /\ UNCHANGED <<sent, web, restarts>>
    BY Queued
<1> PICK k : \E row \in Row :
        /\ row.status = "pending" /\ row.order = queued + 1
        /\ rows' = [rows EXCEPT ![k] = row]
        /\ raced' = IF InHand(k, {"approve", "reload", "delete"})
                    THEN raced \cup {queued + 1} ELSE raced
    BY Queued
<1>2. PICK row \in Row :
          /\ row.status = "pending" /\ row.order = queued + 1
          /\ rows' = [rows EXCEPT ![k] = row]
          /\ raced' = IF InHand(k, {"approve", "reload", "delete"})
                      THEN raced \cup {queued + 1} ELSE raced
    OBVIOUS
<1>3. /\ rows' \in [Id -> Row]
      /\ \A j \in Id : rows'[j] = IF j = k THEN row ELSE rows[j]
    BY <1>2, TypedParts
<1>4. \A j \in Id : rows'[j].status # "none" => rows'[j].order \in 1 .. queued'
    <2> SUFFICES ASSUME NEW j \in Id, rows'[j].status # "none"
                 PROVE  rows'[j].order \in 1 .. queued'
        OBVIOUS
    <2>1. CASE j = k BY <1>1, <1>2, <1>3, <2>1
    <2>2. CASE j # k
        <3>1. rows[j].order \in 1 .. queued BY <1>3, <2>2, TypedParts DEF Exists
        <3> QED BY <1>1, <1>3, <2>2, <3>1
    <2> QED BY <2>1, <2>2
<1>5. raced' \subseteq Order BY <1>1, <1>2, TypedParts
<1> QED BY <1>1, <1>3, <1>4, <1>5, TypedParts, TypedThen

LEMMA RestartTyped ==
    ASSUME Typed, Restart
    PROVE  Typed' /\ \A w \in Web : web'[w] = Idle
<1>1. /\ web' = [w \in Web |-> Idle] /\ UNCHANGED <<rows, queued, sent, raced>>
      /\ restarts' \in 0 .. MaxRestarts
    BY TypedParts, ActionCenterAssumption DEF Restart
<1>2. web' \in [Web -> Hand] /\ \A w \in Web : web'[w] = Idle /\ Fits(web'[w])
    BY <1>1, Rests DEF Fits
<1> QED BY <1>1, <1>2, TypedParts, TypedThen DEF Exists

LEMMA TypedKept ==
    ASSUME Typed, [Next]_vars
    PROVE  Typed'
<1>1. CASE UNCHANGED vars BY <1>1 DEF vars, Typed, TypeOK, Exists
<1>2. CASE Stepping BY <1>2, ReadTyped, EditTyped, SendTyped DEF Stepping
<1>3. CASE Restart BY <1>3, RestartTyped
<1>4. CASE \E kind \in Kinds : Queue(kind) BY <1>4, QueueTyped
<1> QED BY <1>1, <1>2, <1>3, <1>4, NextSteps

\* Whatever the requests do to the table between one another's reads and
\* commits, a row and what a thread has read of one keep their form
\* (action_center_db.py, pending_order_execution_service.py).
THEOREM Types == Spec => []TypeOK
<1>1. Typed => TypeOK BY DEF Typed
<1> QED BY TypedFirst, TypedKept, <1>1, PTL DEF Spec

-----------------------------------------------------------------------------
\* A thread is on its way to the broker with an order: it has the id of the
\* order's row in hand, or the order itself.
Takes(w, o) ==
    \/ /\ web[w].at \in {"approve", "reload"}
       /\ Exists(web[w].id) /\ rows[web[w].id].order = o
    \/ web[w].at = "send" /\ web[w].order = o

Waits(o) == \E i \in Id : rows[i].status = "pending" /\ rows[i].order = o

\* Only one takes an order nobody raced for, and the broker does not have it
\* then, nor while it waits; once it has been taken it does not wait again.
SendInv ==
    /\ \A i, j \in Id : Exists(i) /\ Exists(j) /\ rows[i].order = rows[j].order => i = j
    /\ \A o \in Order : o > queued => sent[o] = 0
    /\ \A w \in Web : web[w].at = "send" => web[w].order \in 1 .. queued /\ ~Waits(web[w].order)
    /\ \A w \in Web : web[w].at = "reload" /\ rows[web[w].id].order \notin raced =>
                          rows[web[w].id].status # "pending"
    /\ \A o \in Order \ raced :
           /\ \A v, w \in Web : Takes(v, o) /\ Takes(w, o) => v = w
           /\ Waits(o) \/ (\E w \in Web : Takes(w, o)) => sent[o] = 0
    /\ SentOnceUnlessRaced

\* A thread that reads takes nothing it did not take, but what waits and nobody
\* else has in hand.
LEMMA ReadKeepsSend ==
    ASSUME Typed, SendInv, NEW w \in Web, NEW s, ReadStep(w, s)
    PROVE  SendInv'
<1>1. /\ \A v \in Web : web'[v] = (IF v = w THEN s ELSE web[v]) /\ Fits(web'[v]) /\ Fits(web[v])
      /\ UNCHANGED <<rows, queued, sent>>
    BY Stepped, TypedParts DEF ReadStep
<1>2. raced \subseteq raced' BY DEF ReadStep
<1>3. \A o : Waits(o)' <=> Waits(o) BY <1>1 DEF Waits
<1>4. \A v \in Web \ {w} : \A o : Takes(v, o)' <=> Takes(v, o) BY <1>1 DEF Takes, Exists
<1>5. ASSUME NEW o \in Order \ raced', Takes(w, o)'
      PROVE  \/ Takes(w, o)
             \/ Waits(o) /\ \A v \in Web : ~Takes(v, o)
    <2>1. CASE s.at = "send"
        <3>1. /\ web[w].at = "reload" /\ rows[web[w].id].status = "approved"
              /\ s.order = rows[web[w].id].order
            BY <2>1 DEF ReadStep
        <3>2. o = s.order BY <1>1, <1>5, <2>1 DEF Takes
        <3> QED BY <3>1, <3>2 DEF Takes, Exists
    <2>2. CASE s.at # "send"
        <3>1. s.at \in {"approve", "reload"} /\ rows[s.id].order = o
            BY <1>1, <1>5, <2>2 DEF Takes
        <3>2. /\ s.at = "approve" /\ rows[s.id].status = "pending"
              /\ raced' = IF InHand(s.id, {"approve"}) THEN raced \cup {rows[s.id].order} ELSE raced
            BY <3>1 DEF ReadStep
        <3>3. s.id \in Id BY <3>2 DEF ReadStep, Fits
        <3>4. Waits(o) BY <3>1, <3>2, <3>3 DEF Waits
        <3>5. ~InHand(s.id, {"approve"}) BY <3>1, <3>2
        <3>6. ASSUME NEW v \in Web, Takes(v, o) PROVE FALSE
            <4>1. CASE web[v].at = "send" BY <3>4, <3>6, <4>1 DEF SendInv, Takes
            <4>2. CASE web[v].at # "send"
                <5>1. /\ web[v].at \in {"approve", "reload"} /\ Exists(web[v].id)
                      /\ rows[web[v].id].order = o /\ web[v].id \in Id
                    BY <1>1, <3>6, <4>2 DEF Takes, Fits
                <5>2. web[v].id = s.id BY <3>1, <3>2, <3>3, <5>1 DEF SendInv, Exists
                <5>3. web[v].at = "reload" BY <3>5, <5>1, <5>2 DEF InHand
                <5>4. o \notin raced BY <1>2
                <5> QED BY <3>2, <5>1, <5>2, <5>3, <5>4 DEF SendInv
            <4> QED BY <4>1, <4>2
        <3> QED BY <3>4, <3>6
    <2> QED BY <2>1, <2>2
<1>6. \A o \in Order \ raced' :
          /\ \A u, v \in Web : Takes(u, o)' /\ Takes(v, o)' => u = v
          /\ Waits(o) \/ (\E v \in Web : Takes(v, o)') => sent[o] = 0
    <2> SUFFICES ASSUME NEW o \in Order \ raced'
                 PROVE  /\ \A u, v \in Web : Takes(u, o)' /\ Takes(v, o)' => u = v
                        /\ Waits(o) \/ (\E v \in Web : Takes(v, o)') => sent[o] = 0
        OBVIOUS
    <2>1. o \in Order \ raced BY <1>2
    <2>2. /\ \A u, v \in Web : Takes(u, o) /\ Takes(v, o) => u = v
          /\ Waits(o) \/ (\E v \in Web : Takes(v, o)) => sent[o] = 0
        BY <2>1 DEF SendInv
    <2> QED BY <1>4, <1>5, <2>2
<1>7. \A v \in Web : web'[v].at = "send" => web'[v].order \in 1 .. queued /\ ~Waits(web'[v].order)
    <2> SUFFICES ASSUME NEW v \in Web, web'[v].at = "send"
                 PROVE  web'[v].order \in 1 .. queued /\ ~Waits(web'[v].order)
        OBVIOUS
    <2>1. CASE v # w BY <1>1, <2>1 DEF SendInv
    <2>2. CASE v = w
        <3>1. /\ web[w].at = "reload" /\ rows[web[w].id].status = "approved"
              /\ s.order = rows[web[w].id].order /\ web[w].id \in Id
            BY <1>1, <2>2 DEF ReadStep, Fits
        <3>2. s.order \in 1 .. queued BY <3>1, TypedParts DEF Exists
        <3>3. ~Waits(s.order) BY <3>1 DEF SendInv, Waits, Exists
        <3> QED BY <1>1, <2>2, <3>2, <3>3
    <2> QED BY <2>1, <2>2
<1>8. \A v \in Web : web'[v].at = "reload" /\ rows[web'[v].id].order \notin raced' =>
                         rows[web'[v].id].status # "pending"
    <2>1. s.at # "reload" BY DEF ReadStep
    <2> QED BY <1>1, <1>2, <2>1 DEF SendInv
<1>9. SentOnceUnlessRaced' BY <1>1, <1>2 DEF SendInv, SentOnceUnlessRaced
<1> QED BY <1>1, <1>3, <1>6, <1>7, <1>8, <1>9 DEF SendInv, Exists

\* A change by id gives no row another order and makes none wait.
LEMMA EditKeepsSend ==
    ASSUME Typed, SendInv, NEW w \in Web, NEW s, NEW i \in Id, NEW row, EditStep(w, s, i, row)
    PROVE  SendInv'
<1>1. /\ \A v \in Web : web'[v] = (IF v = w THEN s ELSE web[v]) /\ Fits(web'[v]) /\ Fits(web[v])
      /\ UNCHANGED <<queued, sent, raced>>
    BY Stepped, TypedParts DEF EditStep
<1>2. \A j \in Id : rows'[j] = IF j = i THEN row ELSE rows[j]
    BY TypedParts DEF EditStep
<1>3. \A j \in Id : rows'[j].status # "none" => Exists(j) /\ rows'[j].order = rows[j].order
    BY <1>2 DEF EditStep, Exists
<1>4. \A j \in Id : rows'[j].status = "pending" =>
                        rows[j].status = "pending" /\ rows'[j].order = rows[j].order
    BY <1>2, <1>3 DEF EditStep
<1>5. \A o : Waits(o)' => Waits(o) BY <1>4 DEF Waits
<1>6. \A v \in Web : web'[v].at \in {"approve", "reload"} =>
          web[v].at \in {"approve", "reload"} /\ web'[v].id = web[v].id /\ web[v].id \in Id
    BY <1>1 DEF EditStep, Fits
<1>7. \A v \in Web : \A o : Takes(v, o)' => Takes(v, o)
    <2> SUFFICES ASSUME NEW v \in Web, NEW o, Takes(v, o)' PROVE Takes(v, o) OBVIOUS
    <2>1. CASE web'[v].at = "send"
        <3>1. s.at # "send" BY DEF EditStep
        <3>2. web'[v] = web[v] BY <1>1, <2>1, <3>1
        <3> QED BY <2>1, <3>2 DEF Takes
    <2>2. CASE web'[v].at # "send"
        <3>1. /\ web'[v].at \in {"approve", "reload"} /\ rows'[web'[v].id].status # "none"
              /\ rows'[web'[v].id].order = o
            BY <2>2 DEF Takes, Exists
        <3> QED BY <1>3, <1>6, <3>1 DEF Takes
    <2> QED BY <2>1, <2>2
<1>8. \A o \in Order \ raced :
          /\ \A u, v \in Web : Takes(u, o)' /\ Takes(v, o)' => u = v
          /\ Waits(o)' \/ (\E v \in Web : Takes(v, o)') => sent[o] = 0
    BY <1>5, <1>7 DEF SendInv
<1>9. \A v \in Web : web'[v].at = "send" =>
                         web'[v].order \in 1 .. queued /\ ~Waits(web[v].order)'
    <2> SUFFICES ASSUME NEW v \in Web, web'[v].at = "send"
                 PROVE  web'[v].order \in 1 .. queued /\ ~Waits(web[v].order)'
        OBVIOUS
    <2>1. v # w /\ web'[v] = web[v]
        <3>1. s.at # "send" BY DEF EditStep
        <3> QED BY <1>1, <3>1
    <2>2. web[v].order \in 1 .. queued /\ ~Waits(web[v].order) BY <2>1 DEF SendInv
    <2>3. \A j \in Id : rows'[j].status = "pending" => rows'[j].order # web[v].order
        BY <1>4, <2>2 DEF Waits
    <2> QED BY <2>1, <2>2, <2>3 DEF Waits
<1>10. \A v \in Web : web'[v].at = "reload" /\ rows'[web'[v].id].order \notin raced =>
                          rows'[web'[v].id].status # "pending"
    <2> SUFFICES ASSUME NEW v \in Web, web'[v].at = "reload",
                        rows'[web'[v].id].order \notin raced,
                        rows'[web'[v].id].status = "pending"
                 PROVE  FALSE
        OBVIOUS
    <2>1. web'[v].id = web[v].id /\ web[v].id \in Id BY <1>6
    <2>2. CASE v = w
        <3>1. s.at = "reload" BY <1>1, <2>2
        <3>2. s.id = i /\ row.status = "approved" BY <3>1 DEF EditStep
        <3> QED BY <1>1, <1>2, <2>2, <3>2
    <2>3. CASE v # w BY <1>1, <1>4, <2>1, <2>3 DEF SendInv
    <2> QED BY <2>2, <2>3
<1>11. \A j, k \in Id : rows'[j].status # "none" /\ rows'[k].status # "none"
                        /\ rows'[j].order = rows'[k].order => j = k
    BY <1>3 DEF SendInv
<1>12. SentOnceUnlessRaced' BY <1>1 DEF SendInv, SentOnceUnlessRaced
<1>13. \A o \in Order : o > queued => sent[o] = 0 BY DEF SendInv
<1> QED BY <1>1, <1>8, <1>9, <1>10, <1>11, <1>12, <1>13 DEF SendInv, Exists

LEMMA SendKeepsSend ==
    ASSUME Typed, SendInv, NEW w \in Web, NEW s, SendStep(w, s)
    PROVE  SendInv'
<1> DEFINE mine == web[w].order
<1>1. /\ \A v \in Web : web'[v] = (IF v = w THEN s ELSE web[v])
      /\ UNCHANGED <<rows, queued, raced>>
    BY Stepped DEF SendStep
<1>2. web[w].at = "send" /\ s.at \in {"batch", "record"} BY DEF SendStep
<1>3. mine \in 1 .. queued /\ ~Waits(mine) /\ mine \in Order
    <2>1. mine \in 1 .. queued /\ ~Waits(mine) BY <1>2 DEF SendInv
    <2> QED BY <2>1, TypedParts, ActionCenterAssumption DEF Order
<1>4. \A o \in Order : /\ o # mine => sent'[o] = sent[o]
                       /\ sent[o] = 0 => sent'[o] <= 1
    BY TypedParts DEF SendStep
<1>5. \A o : Waits(o)' <=> Waits(o) BY <1>1 DEF Waits
<1>6. \A v \in Web : \A o : Takes(v, o)' => v # w /\ Takes(v, o) BY <1>1, <1>2 DEF Takes, Exists
<1>7. \A o \in Order \ raced :
          /\ \A u, v \in Web : Takes(u, o)' /\ Takes(v, o)' => u = v
          /\ Waits(o) \/ (\E v \in Web : Takes(v, o)') => sent'[o] = 0
    <2> SUFFICES ASSUME NEW o \in Order \ raced
                 PROVE  /\ \A u, v \in Web : Takes(u, o)' /\ Takes(v, o)' => u = v
                        /\ Waits(o) \/ (\E v \in Web : Takes(v, o)') => sent'[o] = 0
        OBVIOUS
    <2>1. /\ \A u, v \in Web : Takes(u, o) /\ Takes(v, o) => u = v
          /\ Waits(o) \/ (\E v \in Web : Takes(v, o)) => sent[o] = 0
        BY DEF SendInv
    <2>2. CASE o # mine BY <1>4, <1>6, <2>1, <2>2
    <2>3. CASE o = mine
        <3>1. Takes(w, o) BY <1>2, <2>3 DEF Takes
        <3> QED BY <1>3, <1>6, <2>1, <2>3, <3>1
    <2> QED BY <2>2, <2>3
<1>8. SentOnceUnlessRaced'
    <2> SUFFICES ASSUME NEW o \in Order, o \notin raced PROVE ~(sent'[o] > 1)
        BY <1>1 DEF SentOnceUnlessRaced
    <2>1. CASE o # mine BY <1>4, <2>1 DEF SendInv, SentOnceUnlessRaced
    <2>2. CASE o = mine
        <3>1. Takes(w, o) BY <1>2, <2>2 DEF Takes
        <3>2. sent[o] = 0 BY <3>1 DEF SendInv
        <3>3. sent'[o] \in Nat BY TypedParts DEF SendStep
        <3> QED BY <1>4, <3>2, <3>3
    <2> QED BY <2>1, <2>2
<1>9. \A o \in Order : o > queued => sent'[o] = 0
    <2>1. queued \in Nat BY TypedParts
    <2> QED BY <1>3, <1>4, <2>1 DEF SendInv
<1>10. \A v \in Web : web'[v].at \in {"send", "reload"} => web'[v] = web[v] BY <1>1, <1>2
<1> HIDE DEF mine
<1> QED BY <1>1, <1>5, <1>7, <1>8, <1>9, <1>10 DEF SendInv, Exists

\* A new order is nobody's, unless a request had its id in hand.
LEMMA QueueKeepsSend ==
    ASSUME Typed, SendInv, NEW kind \in Kinds, Queue(kind)
    PROVE  SendInv'
<1> DEFINE new == queued + 1
<1>1. /\ queued \in Nat /\ queued' = new /\ new \in Order /\ UNCHANGED <<sent, web, restarts>>
    BY Queued
<1> PICK k : \E row \in Row :
        /\ row.status = "pending" /\ row.order = new
        /\ rows' = [rows EXCEPT ![k] = row]
        /\ raced' = IF InHand(k, {"approve", "reload", "delete"})
                    THEN raced \cup {new} ELSE raced
    BY Queued
<1>2. PICK row \in Row :
          /\ row.status = "pending" /\ row.order = new
          /\ rows' = [rows EXCEPT ![k] = row]
          /\ raced' = IF InHand(k, {"approve", "reload", "delete"})
                      THEN raced \cup {new} ELSE raced
    OBVIOUS
<1>3. \A j \in Id : rows'[j] = IF j = k THEN row ELSE rows[j] BY <1>2, TypedParts
<1>4. \A j \in Id : Exists(j) => rows[j].order \in 1 .. queued /\ rows[j].order # new
    BY <1>1, TypedParts
<1>5. \A o : Waits(o)' => o = new \/ Waits(o) BY <1>2, <1>3 DEF Waits
<1>6. \A v \in Web : web[v].at \in {"approve", "reload"} => web[v].id \in Id
    BY TypedParts DEF Fits
<1>7. ASSUME NEW v \in Web, NEW o \in Order \ raced', Takes(v, o)'
      PROVE  o # new /\ Takes(v, o)
    <2>1. CASE web[v].at = "send"
        <3>1. web[v].order = o BY <1>1, <1>7, <2>1 DEF Takes
        <3>2. web[v].order \in 1 .. queued BY <2>1 DEF SendInv
        <3> QED BY <1>1, <2>1, <3>1, <3>2 DEF Takes
    <2>2. CASE web[v].at # "send"
        <3>1. /\ web[v].at \in {"approve", "reload"} /\ rows'[web[v].id].status # "none"
              /\ rows'[web[v].id].order = o
            BY <1>1, <1>7, <2>2 DEF Takes, Exists
        <3>2. CASE web[v].id = k
            <4>1. InHand(k, {"approve", "reload", "delete"}) BY <3>1, <3>2 DEF InHand
            <4> QED BY <1>2, <1>3, <1>6, <3>1, <3>2, <4>1
        <3>3. CASE web[v].id # k BY <1>3, <1>4, <1>6, <3>1, <3>3 DEF Takes, Exists
        <3> QED BY <3>2, <3>3
    <2> QED BY <2>1, <2>2
<1>8. raced \subseteq raced' BY <1>2
<1>9. sent[new] = 0 BY <1>1 DEF SendInv
<1>10. \A o \in Order \ raced' :
          /\ \A u, v \in Web : Takes(u, o)' /\ Takes(v, o)' => u = v
          /\ Waits(o)' \/ (\E v \in Web : Takes(v, o)') => sent[o] = 0
    <2> SUFFICES ASSUME NEW o \in Order \ raced'
                 PROVE  /\ \A u, v \in Web : Takes(u, o)' /\ Takes(v, o)' => u = v
                        /\ Waits(o)' \/ (\E v \in Web : Takes(v, o)') => sent[o] = 0
        OBVIOUS
    <2>1. /\ \A u, v \in Web : Takes(u, o) /\ Takes(v, o) => u = v
          /\ Waits(o) \/ (\E v \in Web : Takes(v, o)) => sent[o] = 0
        BY <1>8 DEF SendInv
    <2> QED BY <1>5, <1>7, <1>9, <2>1
<1>11. \A v \in Web : web[v].at = "send" => web[v].order \in 1 .. new /\ ~Waits(web[v].order)'
    BY <1>1, <1>5 DEF SendInv
<1>12. \A v \in Web : web[v].at = "reload" /\ rows'[web[v].id].order \notin raced' =>
                          rows'[web[v].id].status # "pending"
    <2> SUFFICES ASSUME NEW v \in Web, web[v].at = "reload",
                        rows'[web[v].id].order \notin raced'
                 PROVE  rows'[web[v].id].status # "pending"
        OBVIOUS
    <2>1. CASE web[v].id = k
        <3>1. InHand(k, {"approve", "reload", "delete"}) BY <2>1 DEF InHand
        <3> QED BY <1>2, <1>3, <1>6, <2>1, <3>1
    <2>2. CASE web[v].id # k BY <1>3, <1>6, <1>8, <2>2 DEF SendInv
    <2> QED BY <2>1, <2>2
<1>13. \A i, j \in Id : rows'[i].status # "none" /\ rows'[j].status # "none"
                        /\ rows'[i].order = rows'[j].order => i = j
    BY <1>2, <1>3, <1>4 DEF SendInv, Exists
<1>14. \A o \in Order : o > new => sent[o] = 0 BY <1>1 DEF SendInv, Order
<1>15. SentOnceUnlessRaced' BY <1>1, <1>8 DEF SendInv, SentOnceUnlessRaced
<1> QED BY <1>1, <1>10, <1>11, <1>12, <1>13, <1>14, <1>15 DEF SendInv, Exists

LEMMA SendKept ==
    ASSUME Typed, SendInv, [Next]_vars
    PROVE  SendInv'
<1>1. CASE UNCHANGED vars BY <1>1 DEF vars, SendInv, Takes, Waits, Exists, SentOnceUnlessRaced
<1>2. CASE Stepping BY <1>2, ReadKeepsSend, EditKeepsSend, SendKeepsSend DEF Stepping
<1>3. CASE Restart
    <2>1. UNCHANGED <<rows, queued, sent, raced>> BY <1>3 DEF Restart
    <2>2. \A w \in Web : web'[w].at = "idle" BY <1>3, RestartTyped, Rests
    <2>3. \A w \in Web : \A o : ~Takes(w, o)' BY <2>2 DEF Takes
    <2> QED BY <2>1, <2>2, <2>3 DEF SendInv, Waits, Exists, SentOnceUnlessRaced
<1>4. CASE \E kind \in Kinds : Queue(kind) BY <1>4, QueueKeepsSend
<1> QED BY <1>1, <1>2, <1>3, <1>4, NextSteps

LEMMA SendFirst == Init => SendInv
<1> SUFFICES ASSUME Init PROVE SendInv OBVIOUS
<1>1. /\ \A i \in Id : rows[i].status = "none"
      /\ \A o \in Order : sent[o] = 0
    BY DEF Init, NoRow
<1>2. \A w \in Web : web[w].at = "idle" BY Rests DEF Init
<1>3. \A w \in Web : \A o : ~Takes(w, o) BY <1>2 DEF Takes
<1>4. \A o : ~Waits(o) BY <1>1 DEF Waits
<1> QED BY <1>1, <1>2, <1>3, <1>4 DEF SendInv, Exists, SentOnceUnlessRaced

\* However many requests approve, reject and delete beside one another, an
\* order is sent again only if two of them had it in hand at once or it was
\* queued under an id in hand (action_center_db.py approve_pending_order,
\* pending_order_execution_service.py execute_approved_order).
THEOREM SentAgainOnlyIfRaced == Spec => []SentOnceUnlessRaced
<1> DEFINE Inv == Typed /\ SendInv
<1>1. Init => Inv BY TypedFirst, SendFirst
<1>2. Inv /\ [Next]_vars => Inv' BY TypedKept, SendKept
<1>3. Inv => SentOnceUnlessRaced BY DEF SendInv
<1> QED BY <1>1, <1>2, <1>3, PTL DEF Spec

-----------------------------------------------------------------------------
\* A row about to be deleted is decided, or has an order that was raced for.
DeleteHeld ==
    \A w \in Web : web[w].at = "delete" /\ rows[web[w].id].status = "pending" =>
                       rows[web[w].id].order \in raced

LEMMA DeletesKeep ==
    ASSUME Typed, DeleteHeld, [Next]_vars
    PROVE  /\ DeleteHeld'
           /\ \A i \in Id : rows[i].status = "pending" /\ rows'[i].status = "none" =>
                                rows[i].order \in raced
<1> DEFINE Kept == \A i \in Id : rows[i].status = "pending" /\ rows'[i].status = "none" =>
                                     rows[i].order \in raced
<1>1. CASE UNCHANGED vars BY <1>1 DEF vars, DeleteHeld
<1>2. ASSUME NEW w \in Web, NEW s, ReadStep(w, s) PROVE DeleteHeld' /\ Kept
    <2>1. /\ \A v \in Web : web'[v] = IF v = w THEN s ELSE web[v]
          /\ rows' = rows /\ raced \subseteq raced'
        BY <1>2, Stepped DEF ReadStep
    <2>2. s.at = "delete" => rows[s.id].status # "pending" BY <1>2 DEF ReadStep
    <2> QED BY <2>1, <2>2 DEF DeleteHeld
<1>3. ASSUME NEW w \in Web, NEW s, SendStep(w, s) PROVE DeleteHeld' /\ Kept
    <2>1. /\ \A v \in Web : web'[v] = IF v = w THEN s ELSE web[v]
          /\ rows' = rows /\ raced' = raced /\ s.at # "delete"
        BY <1>3, Stepped DEF SendStep
    <2> QED BY <2>1 DEF DeleteHeld
<1>4. ASSUME NEW w \in Web, NEW s, NEW i \in Id, NEW row, EditStep(w, s, i, row)
      PROVE  DeleteHeld' /\ Kept
    <2>1. /\ \A v \in Web : web'[v] = IF v = w THEN s ELSE web[v]
          /\ raced' = raced /\ s.at # "delete"
        BY <1>4, Stepped DEF EditStep
    <2>2. \A j \in Id : rows'[j] = IF j = i THEN row ELSE rows[j]
        BY <1>4, TypedParts DEF EditStep
    <2>3. \A v \in Web : web[v].at = "delete" => web[v].id \in Id BY TypedParts DEF Fits
    <2>4. \A j \in Id : rows'[j].status = "pending" =>
                            rows[j].status = "pending" /\ rows'[j].order = rows[j].order
        BY <1>4, <2>2 DEF EditStep
    <2>5. DeleteHeld' BY <2>1, <2>3, <2>4 DEF DeleteHeld
    <2>6. row.status = "none" => web[w].at = "delete" /\ web[w].id = i BY <1>4 DEF EditStep
    <2>7. Kept BY <2>2, <2>6 DEF DeleteHeld
    <2> QED BY <2>5, <2>7
<1>5. CASE Restart
    <2>1. rows' = rows BY <1>5 DEF Restart
    <2>2. \A w \in Web : web'[w].at = "idle" BY <1>5, RestartTyped, Rests
    <2> QED BY <2>1, <2>2 DEF DeleteHeld
<1>6. ASSUME NEW kind \in Kinds, Queue(kind) PROVE DeleteHeld' /\ Kept
    <2>1. web' = web BY <1>6, Queued
    <2> PICK k : \E row \in Row :
            /\ row.status = "pending" /\ row.order = queued + 1
            /\ rows' = [rows EXCEPT ![k] = row]
            /\ raced' = IF InHand(k, {"approve", "reload", "delete"})
                        THEN raced \cup {queued + 1} ELSE raced
        BY <1>6, Queued
    <2>2. PICK row \in Row :
              /\ row.status = "pending" /\ row.order = queued + 1
              /\ rows' = [rows EXCEPT ![k] = row]
              /\ raced' = IF InHand(k, {"approve", "reload", "delete"})
                          THEN raced \cup {queued + 1} ELSE raced
        OBVIOUS
    <2>3. \A j \in Id : rows'[j] = IF j = k THEN row ELSE rows[j] BY <2>2, TypedParts
    <2>4. \A v \in Web : web[v].at = "delete" => web[v].id \in Id BY TypedParts DEF Fits
    <2>5. \A v \in Web : web[v].at = "delete" /\ web[v].id = k => queued + 1 \in raced'
        BY <2>2 DEF InHand
    <2>6. DeleteHeld' BY <2>1, <2>2, <2>3, <2>4, <2>5 DEF DeleteHeld
    <2> QED BY <2>2, <2>3, <2>6
<1>7. CASE Stepping BY <1>2, <1>3, <1>4, <1>7 DEF Stepping
<1> QED BY <1>1, <1>5, <1>6, <1>7, NextSteps

\* However many requests reject and delete beside one another, no order that
\* waits for a decision is deleted, but one that took the id of a row in the
\* hand of a deletion (action_center_db.py delete_pending_order).
THEOREM WaitingDeletedOnlyIfRaced == Spec => DeletesOnlyDecided
<1> DEFINE Inv == Typed /\ DeleteHeld
           Kept == \A i \in Id : rows[i].status = "pending" /\ rows'[i].status = "none" =>
                                     rows[i].order \in raced
<1>1. Init => Inv
    <2>1. Init => DeleteHeld BY Rests DEF Init, DeleteHeld
    <2> QED BY <2>1, TypedFirst
<1>2. Inv /\ [Next]_vars => Inv' BY TypedKept, DeletesKeep
<1>3. Inv /\ [Next]_vars => [Kept]_vars BY DeletesKeep
<1>4. Spec => [][Kept]_vars BY <1>1, <1>2, <1>3, PTL DEF Spec
<1> QED BY <1>4 DEF DeletesOnlyDecided
=============================================================================
