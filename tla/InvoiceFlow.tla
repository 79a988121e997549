----------------------------- MODULE InvoiceFlow -----------------------------
(***************************************************************************)
(* The workflow of supplier invoices (reference/finance-mvp): people       *)
(* create, submit, approve, reject and post them.  Every request runs on a *)
(* thread with a session of its own: it reads the invoice, checks its      *)
(* status, calls the ERP when it posts, and commits the columns it changed *)
(* together with a row of the audit trail.  Nothing holds the row between  *)
(* the reading and the commit, so another request may commit in between.   *)
(***************************************************************************)
EXTENDS Naturals, FiniteSets

CONSTANTS
    Users,        \* people with their roles
    Invoices,     \* invoices with their [key, amount]: vendor reference and number, and the worth
    Requests,     \* the threads that serve, 1 .. n: the first that is free takes the next request
    MaxRows,      \* bound: rows of the trail that differ, those of the requests in flight with them
    MaxDeaths     \* bound

VARIABLES
    row,       \* the table of invoices
    trail,     \* audit_logs, of each invoice: its rows, and the one committed last
    call,      \* the requests
    erp,       \* _ERP_DOCUMENTS: in memory
    made,      \* the documents the ERP was ever given, and for what: history
    deaths

invoiceVars == <<row, trail, call, erp, made, deaths>>

NoDocument == [key |-> "none", amount |-> 0]
NoTrail == [rows |-> {}, last |-> "none"]
NoRow == [status |-> "absent", created_by |-> "nobody", document |-> NoDocument]
Idle == [at |-> "idle", action |-> "none", invoice |-> 0, actor |-> "nobody", document |-> NoDocument]

Init ==
    /\ row = [i \in DOMAIN Invoices |-> NoRow]
    /\ trail = [i \in DOMAIN Invoices |-> NoTrail]
    /\ call = [c \in Requests |-> Idle]
    /\ erp = [k \in {} |-> NoDocument]
    /\ made = {}
    /\ deaths = 0

-----------------------------------------------------------------------------
(* Who may do what, and when.                                              *)

Actions == {"submit", "approve", "reject", "post"}

ROLE_PERMISSIONS ==
    [ADMIN |-> Actions \cup {"create"}, AP_CLERK |-> {"create", "submit"},
     AP_MANAGER |-> {"approve", "reject", "post"}, AUDITOR |-> {}]

has_permission(user, action) == action \in ROLE_PERMISSIONS[Users[user]]

From == [submit |-> "DRAFT", approve |-> "SUBMITTED", reject |-> "SUBMITTED", post |-> "APPROVED"]
To == [create |-> "DRAFT", submit |-> "SUBMITTED", approve |-> "APPROVED", reject |-> "REJECTED", post |-> "POSTED"]

\* Against who submitted it.
NotTheSubmitter(user, i) == [action |-> "submit", actor |-> user] \notin trail[i].rows

\* Segregation of duties.
Segregated(user, i) == row[i].created_by # user

Allowed(user, action, i) ==
    /\ has_permission(user, action)
    /\ row[i].status = From[action]
    /\ action = "approve" => Segregated(user, i)

-----------------------------------------------------------------------------
(* The requests.                                                           *)

Audited(i, action, actor) ==
    trail' = [trail EXCEPT ![i] = [rows |-> @.rows \cup {[action |-> action, actor |-> actor]}, last |-> action]]

Create(user, i) ==
    /\ row[i] = NoRow /\ has_permission(user, "create")
    /\ row' = [row EXCEPT ![i].status = To["create"], ![i].created_by = user]
    /\ Audited(i, "create", user)
    /\ UNCHANGED <<call, erp, made, deaths>>

\* The bound.
RowsAhead == Cardinality(UNION {{<<i, t>> : t \in trail[i].rows} : i \in DOMAIN Invoices})
             + Cardinality({c \in Requests : call[c] # Idle})

\* The permission, the invoice as it is, and the guards; a refusal leaves nothing behind.
Begin(c, user, action, i) ==
    /\ call[c] = Idle /\ (\A d \in Requests : call[d] = Idle => c <= d)
    /\ row[i] # NoRow
    /\ Allowed(user, action, i)
    /\ RowsAhead < MaxRows
    /\ call' = [call EXCEPT ![c] = [at |-> IF action = "post" THEN "look" ELSE "commit", action |-> action,
                                    invoice |-> i, actor |-> user, document |-> NoDocument]]
    /\ UNCHANGED <<row, trail, erp, made, deaths>>

KeyOf(c) == Invoices[call[c].invoice].key

\* The id of a document is a hash of the key and the amount.
DocumentOf(c) == [key |-> KeyOf(c), amount |-> Invoices[call[c].invoice].amount]

Look(c) ==
    /\ call[c].at = "look"
    /\ call' = [call EXCEPT ![c] = IF KeyOf(c) \in DOMAIN erp
                                   THEN [call[c] EXCEPT !.at = "commit", !.document = erp[KeyOf(c)]]
                                   ELSE [call[c] EXCEPT !.at = "give"]]
    /\ UNCHANGED <<row, trail, erp, made, deaths>>

Give(c) ==
    /\ call[c].at = "give"
    /\ LET document == DocumentOf(c)
       IN  /\ erp' = [k \in DOMAIN erp \cup {KeyOf(c)} |-> IF k = KeyOf(c) THEN document ELSE erp[k]]
           /\ made' = made \cup {[invoice |-> call[c].invoice, document |-> document]}
           /\ call' = [call EXCEPT ![c].at = "commit", ![c].document = document]
    /\ UNCHANGED <<row, trail, deaths>>

\* The columns that changed, whatever the row is by now, and the audit row with them.
Commit(c) ==
    /\ call[c].at = "commit"
    /\ LET its == call[c]
           kept == row[its.invoice]
       IN  /\ row' = [row EXCEPT ![its.invoice] =
                         [kept EXCEPT !.status = To[its.action],
                                      !.document = IF its.action = "post" THEN its.document ELSE @]]
           /\ Audited(its.invoice, its.action, its.actor)
    /\ call' = [call EXCEPT ![c] = Idle]
    /\ UNCHANGED <<erp, made, deaths>>

\* The database is locked for too long, or gone: everything of the session is rolled back.
CommitFails(c) ==
    /\ call[c].at = "commit"
    /\ call' = [call EXCEPT ![c] = Idle]
    /\ UNCHANGED <<row, trail, erp, made, deaths>>

Crash ==
    /\ deaths < MaxDeaths /\ deaths' = deaths + 1
    /\ DOMAIN erp # {} \/ (\E c \in Requests : call[c] # Idle)
    /\ call' = [c \in Requests |-> Idle]
    /\ erp' = [k \in {} |-> NoDocument]
    /\ UNCHANGED <<row, trail, made>>

Next ==
    \/ \E user \in DOMAIN Users : \E i \in DOMAIN Invoices : Create(user, i)
    \/ \E c \in Requests : \E user \in DOMAIN Users : \E action \in Actions :
          \E i \in DOMAIN Invoices : Begin(c, user, action, i)
    \/ \E c \in Requests : Look(c) \/ Give(c) \/ Commit(c) \/ CommitFails(c)
    \/ Crash

-----------------------------------------------------------------------------
(* Properties.                                                             *)

\* Whatever was given to the ERP is accounted for: somebody other than its creator approved the
\* invoice, of which the trail still tells; posting it again after a crash, a failed commit or
\* beside another request gave the ERP no second document of it; the status of every invoice is
\* the one its trail ends with, and an invoice that was posted names a document of its own vendor
\* and number.
TrailAccountsForTheErp ==
    /\ \A m \in made : \E t \in trail[m.invoice].rows :
          t.action = "approve" /\ t.actor # row[m.invoice].created_by
    /\ \A m, o \in made : m.invoice = o.invoice => m.document = o.document
    /\ \A i \in DOMAIN Invoices :
          row[i].status = IF trail[i] = NoTrail THEN "absent" ELSE To[trail[i].last]
    /\ \A i \in DOMAIN Invoices : row[i].status = "POSTED" =>
          \E m \in made : m.document = row[i].document /\ m.document.key = Invoices[i].key
=============================================================================
