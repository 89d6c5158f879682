---------------------------- MODULE ActionCenter ----------------------------
(***************************************************************************)
(* Semi-automatic trading: orders wait in a table until the user approves  *)
(* or rejects them, and an approved order is sent to the broker once       *)
(* (services/order_router_service.py, database/action_center_db.py,        *)
(* services/pending_order_execution_service.py, blueprints/orders.py).     *)
(* Every request thread reads a row, and commits or calls the broker       *)
(* later; other requests and a restart may come in between.                *)
(***************************************************************************)
EXTENDS Naturals, FiniteSetsExt

CONSTANTS
    Web,          \* request threads
    Kinds,        \* bound: the kinds of order that are queued
    MaxOrders,    \* bound: orders queued
    MaxRestarts   \* bound: restarts of the process

\* What the executor makes of an api_type: an answer with an order id, an
\* answer with a list of results, or no branch for it (optionsmultiorder).
Kind == {"single", "batch", "multileg"}

ASSUME ActionCenterAssumption ==
    /\ Kinds \subseteq Kind
    /\ MaxOrders \in Nat
    /\ MaxRestarts \in Nat

Id    == 1 .. MaxOrders      \* row ids
Order == 1 .. MaxOrders      \* the orders themselves, in the order of queueing

VARIABLES
    rows,      \* the pending_orders table, by id
    queued,    \* number of orders queued so far
    sent,      \* how often the broker has accepted each order
    web,       \* what each request thread is doing and what it has read
    raced,     \* history: the orders that two requests had in hand at once
    restarts

vars == <<rows, queued, sent, web, raced, restarts>>

NoRow == [status |-> "none", kind |-> "single", broker |-> "none", order |-> 0]

\* id, order, kind: the row in hand; list: the rows approve-all has still to do;
\* fresh: the session has not committed since it listed them.
Idle == [at |-> "idle", id |-> 0, order |-> 0, kind |-> "single", list |-> {},
         fresh |-> TRUE, result |-> "none"]

Init ==
    /\ rows = [i \in Id |-> NoRow]
    /\ queued = 0
    /\ sent = [o \in Order |-> 0]
    /\ web = [w \in Web |-> Idle]
    /\ raced = {}
    /\ restarts = 0

-----------------------------------------------------------------------------
Exists(i) == rows[i].status # "none"
At(w, place) == web[w].at = place
Step(w, s) == web' = [web EXCEPT ![w] = s]

\* Whether a request at one of these places has the row in hand.
InHand(i, places) == \E w \in Web : web[w].id = i /\ web[w].at \in places

\* A request is to approve a row, which another may be about to approve as well.
Begin(w, i, s) ==
    /\ Step(w, s)
    /\ raced' = IF InHand(i, {"approve"}) THEN raced \cup {rows[i].order} ELSE raced

\* The thread is done with a row: on to the next of its list.
Resume(w) == [Idle EXCEPT !.at = "batch", !.list = web[w].list, !.fresh = FALSE]

\* queue_order. SQLite gives a row the id after the largest in the table, so an
\* id can come back.
Queue(kind) ==
    LET i == Max({j \in Id : Exists(j)} \cup {0}) + 1
    IN  /\ queued < MaxOrders
        /\ queued' = queued + 1
        /\ rows' = [rows EXCEPT ![i] = [status |-> "pending", kind |-> kind,
                                        broker |-> "none", order |-> queued + 1]]
        /\ raced' = IF InHand(i, {"approve", "reload", "delete"})
                    THEN raced \cup {queued + 1} ELSE raced
        /\ UNCHANGED <<sent, web, restarts>>

\* Mutant of AskApprove: the status filter is gone.
AskApproveAny(w, i) ==
    /\ At(w, "idle")
    /\ Exists(i)
    /\ Begin(w, i, [Idle EXCEPT !.at = "approve", !.id = i])
    /\ UNCHANGED <<rows, queued, sent, restarts>>

\* approve_pending_order finds the row pending ...
AskApprove(w, i) ==
    /\ At(w, "idle")
    /\ rows[i].status = "pending"
    /\ Begin(w, i, [Idle EXCEPT !.at = "approve", !.id = i])
    /\ UNCHANGED <<rows, queued, sent, restarts>>

\* approve-all lists the pending rows and takes them one by one.
AskApproveAll(w) ==
    /\ At(w, "idle")
    /\ \E i \in Id : rows[i].status = "pending"
    /\ Step(w, [Idle EXCEPT !.at = "batch", !.list = {i \in Id : rows[i].status = "pending"}])
    /\ UNCHANGED <<rows, queued, sent, raced, restarts>>

\* After a commit the session reads a listed row again, and the request fails
\* when it is gone.
TakeNext(w) ==
    LET me == web[w]
    IN  /\ At(w, "batch")
        /\ \/ me.list = {} /\ Step(w, Idle) /\ UNCHANGED raced
           \/ \E i \in me.list :
                  \/ /\ rows[i].status = "pending"
                     /\ Begin(w, i, [me EXCEPT !.at = "approve", !.id = i, !.list = @ \ {i}])
                  \/ /\ rows[i].status # "pending"
                     /\ Exists(i) \/ me.fresh
                     /\ Step(w, [me EXCEPT !.list = @ \ {i}])
                     /\ UNCHANGED raced
                  \/ ~Exists(i) /\ ~me.fresh /\ Step(w, Idle) /\ UNCHANGED raced
        /\ UNCHANGED <<rows, queued, sent, restarts>>

\* ... and commits it approved, by its id alone; a row that is gone is an error.
Approve(w) ==
    LET i == web[w].id
    IN  /\ At(w, "approve")
        /\ \/ /\ Exists(i)
              /\ rows' = [rows EXCEPT ![i].status = "approved"]
              /\ Step(w, [web[w] EXCEPT !.at = "reload"])
           \/ /\ ~Exists(i)
              /\ Step(w, Resume(w))
              /\ UNCHANGED rows
        /\ UNCHANGED <<queued, sent, raced, restarts>>

\* Mutant of Reload: an order type without a branch is left as it is.
ReloadSilently(w) ==
    LET r == rows[web[w].id]
    IN  /\ At(w, "reload")
        /\ \/ /\ r.status = "approved"
              /\ r.kind # "multileg"
              /\ Step(w, [web[w] EXCEPT !.at = "send", !.order = r.order, !.kind = r.kind])
           \/ r.status # "approved" /\ Step(w, Resume(w))
           \/ r.kind = "multileg" /\ Step(w, Resume(w))
        /\ UNCHANGED <<rows, queued, sent, raced, restarts>>

\* execute_approved_order reads the row again; without credentials, or a branch
\* for the order's type, it goes straight to the record.
Reload(w) ==
    LET r == rows[web[w].id]
    IN  /\ At(w, "reload")
        /\ \/ /\ r.status = "approved"
              /\ r.kind # "multileg"
              /\ Step(w, [web[w] EXCEPT !.at = "send", !.order = r.order, !.kind = r.kind])
           \/ /\ r.status = "approved"
              /\ Step(w, [web[w] EXCEPT !.at = "record", !.result = "rejected"])
           \/ r.status # "approved" /\ Step(w, Resume(w))
        /\ UNCHANGED <<rows, queued, sent, raced, restarts>>

\* The broker accepts and tells the order's status, accepts without an order id
\* in the answer, refuses, or accepts while the answer is lost.
Send(w) ==
    LET me       == web[w]
        Accepted == sent' = [sent EXCEPT ![me.order] = @ + 1]
        Report(result) == Step(w, [me EXCEPT !.at = "record", !.result = result])
    IN  /\ At(w, "send")
        /\ \/ me.kind = "single" /\ Accepted /\ (Report("open") \/ Report("complete"))
           \/ me.kind = "batch" /\ Accepted /\ Step(w, Resume(w))
           \/ UNCHANGED sent /\ Report("rejected")
           \/ Accepted /\ Report("rejected")
        /\ UNCHANGED <<rows, queued, raced, restarts>>

\* update_broker_status, on the row that has the id now.
Record(w) ==
    LET me == web[w]
    IN  /\ At(w, "record")
        /\ rows' = IF Exists(me.id) THEN [rows EXCEPT ![me.id].broker = me.result] ELSE rows
        /\ Step(w, Resume(w))
        /\ UNCHANGED <<queued, sent, raced, restarts>>

AskReject(w, i) ==
    /\ At(w, "idle")
    /\ rows[i].status = "pending"
    /\ Step(w, [Idle EXCEPT !.at = "reject", !.id = i])
    /\ UNCHANGED <<rows, queued, sent, raced, restarts>>

Reject(w) ==
    LET i == web[w].id
    IN  /\ At(w, "reject")
        /\ rows' = IF Exists(i) THEN [rows EXCEPT ![i].status = "rejected"] ELSE rows
        /\ Step(w, Idle)
        /\ UNCHANGED <<queued, sent, raced, restarts>>

\* Mutant of AskDelete: without the status check.
AskDeleteAny(w, i) ==
    /\ At(w, "idle")
    /\ Exists(i)
    /\ Step(w, [Idle EXCEPT !.at = "delete", !.id = i])
    /\ UNCHANGED <<rows, queued, sent, raced, restarts>>

AskDelete(w, i) ==
    /\ At(w, "idle")
    /\ Exists(i)
    /\ rows[i].status # "pending"
    /\ Step(w, [Idle EXCEPT !.at = "delete", !.id = i])
    /\ UNCHANGED <<rows, queued, sent, raced, restarts>>

\* Mutant of Delete: the row is kept and marked.
DeleteSoftly(w) ==
    /\ At(w, "delete")
    /\ rows' = [rows EXCEPT ![web[w].id].status = "deleted"]
    /\ Step(w, Idle)
    /\ UNCHANGED <<queued, sent, raced, restarts>>

Delete(w) ==
    /\ At(w, "delete")
    /\ rows' = [rows EXCEPT ![web[w].id] = NoRow]
    /\ Step(w, Idle)
    /\ UNCHANGED <<queued, sent, raced, restarts>>

\* The process stops anywhere. Nothing looks for approved orders afterwards.
Restart ==
    /\ restarts < MaxRestarts
    /\ restarts' = restarts + 1
    /\ web' = [w \in Web |-> Idle]
    /\ UNCHANGED <<rows, queued, sent, raced>>

Ask ==
    \/ \E w \in Web : AskApproveAll(w)
    \/ \E w \in Web, i \in Id : AskApprove(w, i) \/ AskReject(w, i) \/ AskDelete(w, i)

\* What a request that has begun does next.
Proceed(w) ==
    \/ TakeNext(w)
    \/ Approve(w)
    \/ Reload(w)
    \/ Send(w)
    \/ Record(w)
    \/ Reject(w)
    \/ Delete(w)

Next ==
    \/ \E kind \in Kinds : Queue(kind)
    \/ Ask
    \/ \E w \in Web : Proceed(w)
    \/ Restart

Spec == Init /\ [][Next]_vars

\* A request that has begun is carried on: broker calls return or time out.
FairSpec == Spec /\ \A w \in Web : WF_vars(Proceed(w))
-----------------------------------------------------------------------------
TypeOK ==
    /\ rows \in [Id -> [status : {"none", "pending", "approved", "rejected"}, kind : Kind,
                        broker : {"none", "open", "complete", "rejected"},
                        order : Order \cup {0}]]
    /\ queued \in 0 .. MaxOrders
    /\ sent \in [Order -> Nat]
    /\ web \in [Web ->
           [at : {"idle", "batch", "approve", "reload", "send", "record", "reject", "delete"},
            id : Id \cup {0}, order : Order \cup {0}, kind : Kind, list : SUBSET Id,
            fresh : BOOLEAN, result : {"none", "open", "complete", "rejected"}]]
    /\ raced \subseteq Order
    /\ restarts \in 0 .. MaxRestarts

\* The broker gets an order twice only when two approvals had it in hand at
\* once, both having found it pending, or when it was queued under an id that a
\* request still had in hand; whatever rejections, deletions, reused ids and
\* restarts meet its approval, nothing else sends it again
\* (action_center_db.py:198 "Cannot approve order {order_id}: not found or not
\* pending").
SentOnceUnlessRaced == \A o \in Order : sent[o] > 1 => o \in raced

\* Only a decided order is deleted, also when the row is deleted in a later step
\* than the one that read its status, unless the order took the id that the
\* deletion had in hand (action_center_db.py delete_pending_order,
\* docs/design/42-action-center/README.md:282).
DeletesOnlyDecided ==
    [][\A i \in Id : rows[i].status = "pending" /\ rows'[i].status = "none" =>
           rows[i].order \in raced]_vars

\* Without a restart an approved order gets a broker status, whether it was
\* sent, refused, lost, of an unknown type or without credentials; a basket or
\* a split order, whose answer has no order id, gets none
\* (pending_order_execution_service.py execute_approved_order).
ApprovedIsRecorded ==
    \A i \in Id :
        (rows[i].status = "approved" /\ rows[i].kind # "batch") ~>
            \/ rows[i].broker # "none"
            \/ rows[i].status # "approved"
            \/ restarts > 0
=============================================================================
