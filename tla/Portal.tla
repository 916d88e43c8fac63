------------------------------- MODULE Portal -------------------------------
(***************************************************************************)
(* The mirror portal (mirror-portal/): operators sign in, administrators   *)
(* create organisations and users and assign Boxes, operators queue        *)
(* commands for a Box, everybody reads the mirrored state.  The routes are *)
(* stateless, so all order between them comes from the database: every     *)
(* query is a step of its own, a transaction writes when it commits, a     *)
(* SELECT ... FOR UPDATE or a write of a row waits for the row's lock, and *)
(* any query may fail, a COMMIT also after it took effect.                 *)
(***************************************************************************)
EXTENDS Integers, Sequences, FiniteSets, SequencesExt

CONSTANTS Browsers,     \* browsers, each with at most one request under way
          Orgs,         \* organisation ids
          Emails,       \* e-mail addresses of users
          Root,         \* the administrator created by the setup script
          Boxes,        \* Box addresses (node_url)
          Ids,          \* mesh identities a Box may have
          FixedRelays,  \* the identities registered as fixed relays
          None,         \* absence of a row or a value
          MaxAudit,     \* bound on the audit log
          MaxCommands,  \* bound on the queued commands
          MaxFailures   \* MAX_LOGIN_FAILURES_IN_WINDOW

VARIABLES db,       \* committed rows: orgs, users, nodes, commands
          audit,    \* audit_logs in commit order
          lock,     \* row -> the browser whose transaction holds it
          failures, \* failed sign-ins inside the window, by address
          status,   \* node_status_snapshots: the Box's latest identity
          session,  \* claims of the signed token each browser holds
          req,      \* the request each browser waits for
          panel     \* what each browser's admin panel lists, and its forms

vars == <<db, audit, lock, failures, status, session, req, panel>>

Admin == [role |-> "admin", org |-> None]
Signed == {"drop", "append", "reboot"}
Queued == Signed \cup {"delivery"}

Idle == [op |-> "none", step |-> "none"]

Rows == Boxes \cup Emails

NoPanel == [orgs |-> {}, busy |-> FALSE, fresh |-> FALSE]

Init ==
    /\ \E before \in {{}, Orgs} :      \* organisations created earlier
       db = [orgs |-> before,
             users |-> [e \in Emails |-> IF e = Root THEN [role |-> "admin", org |-> None, key |-> 0] ELSE None],
             nodes |-> [u \in Boxes |-> None],
             commands |-> {}]
    /\ audit = <<>>
    /\ lock = [r \in Rows |-> None]
    /\ failures = [e \in Emails |-> 0]
    /\ status = [u \in Boxes |-> None]
    /\ session = [b \in Browsers |-> None]
    /\ req = [b \in Browsers |-> Idle]
    /\ panel = [b \in Browsers |-> NoPanel]

At(b, op, step) == req[b].op = op /\ req[b].step = step

Goto(b, step) == req' = [req EXCEPT ![b].step = step]

Free(row, b) == lock[row] \in {None, b}

Hold(row, b) == lock' = [lock EXCEPT ![row] = b]

Release(b) == lock' = [r \in Rows |-> IF lock[r] = b THEN None ELSE lock[r]]

Reply(b, what) == req' = [req EXCEPT ![b] = [op |-> req[b].op, step |-> "reply", status |-> what]]

insertAuditLog(entry) == Append(audit, entry)

InFlight == {b \in Browsers : req[b].step \notin {"none", "reply"}}

Room == Len(audit) + Cardinality(InFlight) < MaxAudit

-----------------------------------------------------------------------------
(* Signing in.                                                             *)

SignIn(b, e, right) ==
    /\ session[b] = None /\ req[b] = Idle
    /\ req' = [req EXCEPT ![b] = [op |-> "login", step |-> "count", email |-> e, right |-> right]]
    /\ UNCHANGED <<db, audit, lock, failures, status, session, panel>>

countRecentLoginFailures(b) ==
    /\ At(b, "login", "count")
    /\ IF failures[req[b].email] >= MaxFailures THEN Reply(b, "error") ELSE Goto(b, "find")
    /\ UNCHANGED <<db, audit, lock, failures, status, session, panel>>

findUserByEmail(b) ==
    /\ At(b, "login", "find")
    /\ IF db.users[req[b].email] # None /\ req[b].right THEN Goto(b, "success") ELSE Goto(b, "failure")
    /\ UNCHANGED <<db, audit, lock, failures, status, session, panel>>

logLoginFailure(b) ==
    /\ At(b, "login", "failure")
    /\ failures' = [failures EXCEPT ![req[b].email] = @ + 1]
    /\ Reply(b, "error")
    /\ UNCHANGED <<db, audit, lock, status, session, panel>>

issueToken(b) ==
    LET u == db.users[req[b].email] IN
    /\ At(b, "login", "success")
    /\ session' = [session EXCEPT ![b] = [email |-> req[b].email, role |-> u.role, org |-> u.org]]
    /\ Reply(b, "ok")
    /\ UNCHANGED <<db, audit, lock, failures, status, panel>>

WindowPasses(e) ==
    /\ failures[e] > 0
    /\ failures' = [failures EXCEPT ![e] = @ - 1]
    /\ UNCHANGED <<db, audit, lock, status, session, req, panel>>

-----------------------------------------------------------------------------
(* The admin panel's three forms and the transactions behind them.         *)

requireAdminSession(b) == session[b] # None /\ session[b].role = "admin"

(* What each route asks for before it touches the database.                *)
organizationsRoute(b) == requireAdminSession(b)

usersRoute(b, role, o) == requireAdminSession(b) /\ (role = "operatore" => o # None)

nodesRoute(b, o) == requireAdminSession(b) /\ o # None

CreateOrganizationForm(b, o) ==
    /\ organizationsRoute(b) /\ req[b] = Idle /\ ~panel[b].busy /\ Room
    /\ o \notin db.orgs
    /\ o \notin {req[c].org : c \in {d \in InFlight : req[d].op = "org"}}
    /\ req' = [req EXCEPT ![b] = [op |-> "org", step |-> "write", org |-> o]]
    /\ panel' = [panel EXCEPT ![b].busy = TRUE]
    /\ UNCHANGED <<db, audit, lock, failures, status, session>>

CreateUserForm(b, e, role, o) ==
    /\ usersRoute(b, role, o) /\ req[b] = Idle /\ ~panel[b].busy /\ Room
    /\ role = "operatore" => o \in panel[b].orgs
    /\ role = "admin" => o = None
    /\ req' = [req EXCEPT ![b] = [op |-> "user", step |-> "write", email |-> e, role |-> role, org |-> o]]
    /\ panel' = [panel EXCEPT ![b].busy = TRUE]
    /\ UNCHANGED <<db, audit, lock, failures, status, session>>

AssignNodeForm(b, u, o) ==
    /\ nodesRoute(b, o) /\ req[b] = Idle /\ ~panel[b].busy /\ Room
    /\ o \in panel[b].orgs
    /\ req' = [req EXCEPT ![b] = [op |-> "node", step |-> "select", box |-> u, org |-> o, prev |-> None, seen |-> 0]]
    /\ panel' = [panel EXCEPT ![b].busy = TRUE]
    /\ UNCHANGED <<db, audit, lock, failures, status, session>>

(* The INSERT of a user waits for another one with the same address and    *)
(* then meets its row, or inserts.                                         *)
insertUser(b) ==
    /\ At(b, "user", "write") /\ Free(req[b].email, b)
    /\ IF db.users[req[b].email] # None
       THEN Release(b) /\ Reply(b, "error")
       ELSE Hold(req[b].email, b) /\ Goto(b, "log")
    /\ UNCHANGED <<db, audit, failures, status, session, panel>>

insertOrganization(b) ==
    /\ At(b, "org", "write")
    /\ Goto(b, "log")
    /\ UNCHANGED <<db, audit, lock, failures, status, session, panel>>

Assigned(u) == SelectSeq(audit, LAMBDA a : a.action = "node_assigned" /\ a.box = u)

selectPreviousUnlocked(b) ==
    LET u == req[b].box IN
    /\ At(b, "node", "select")
    /\ req' = [req EXCEPT ![b].step = "write", ![b].prev = db.nodes[u], ![b].seen = Len(Assigned(u))]
    /\ UNCHANGED <<db, audit, lock, failures, status, session, panel>>

(* SELECT ... FOR UPDATE: a row that does not exist yet is not locked.  A  *)
(* ghost, "seen", keeps how many assignments had been committed.           *)
selectPrevious(b) ==
    LET u == req[b].box IN
    /\ At(b, "node", "select") /\ (db.nodes[u] = None \/ Free(u, b))
    /\ req' = [req EXCEPT ![b].step = "write", ![b].prev = db.nodes[u], ![b].seen = Len(Assigned(u))]
    /\ IF db.nodes[u] = None THEN UNCHANGED lock ELSE Hold(u, b)
    /\ UNCHANGED <<db, audit, failures, status, session, panel>>

upsertNode(b) ==
    /\ At(b, "node", "write") /\ Free(req[b].box, b)
    /\ Hold(req[b].box, b)
    /\ Goto(b, "log")
    /\ UNCHANGED <<db, audit, failures, status, session, panel>>

logChange(b) ==
    /\ req[b].op \in {"org", "user", "node"} /\ req[b].step = "log"
    /\ Goto(b, "commit")
    /\ UNCHANGED <<db, audit, lock, failures, status, session, panel>>

Written(b) ==
    LET r == req[b] IN
    CASE r.op = "org"  -> [db EXCEPT !.orgs = @ \cup {r.org}]
      [] r.op = "user" -> [db EXCEPT !.users[r.email] =
                              [role |-> r.role, org |-> IF r.role = "admin" THEN None ELSE r.org, key |-> 0]]
      [] r.op = "node" -> [db EXCEPT !.nodes[r.box] = r.org]

Entry(b) ==
    LET r == req[b] IN
    CASE r.op = "org"  -> [action |-> "organization_created", org |-> r.org]
      [] r.op = "user" -> [action |-> "user_created", email |-> r.email]
      [] r.op = "node" -> [action |-> "node_assigned", box |-> r.box, org |-> r.org,
                           prev |-> r.prev, seen |-> r.seen]

CommitUnaudited(b, heard) ==
    /\ req[b].op \in {"org", "user", "node"} /\ req[b].step = "commit"
    /\ db' = Written(b)
    /\ audit' = IF heard THEN insertAuditLog(Entry(b)) ELSE audit
    /\ Release(b)
    /\ Reply(b, IF heard THEN "ok" ELSE "error")
    /\ UNCHANGED <<failures, status, session, panel>>

(* COMMIT makes the change and its audit row visible together; when its    *)
(* answer is lost the caller reports an error for a change that was made.  *)
Commit(b, heard) ==
    /\ req[b].op \in {"org", "user", "node"} /\ req[b].step = "commit"
    /\ db' = Written(b)
    /\ audit' = insertAuditLog(Entry(b))
    /\ Release(b)
    /\ Reply(b, IF heard THEN "ok" ELSE "error")
    /\ UNCHANGED <<failures, status, session, panel>>

(* ROLLBACK, and a request that fails outside a transaction.               *)
QueryFails(b) ==
    /\ req[b].step \notin {"none", "reply"}
    /\ Release(b)
    /\ Reply(b, "error")
    /\ UNCHANGED <<db, audit, failures, status, session, panel>>

-----------------------------------------------------------------------------
(* The command routes: the Box's organisation, its identity, the check of  *)
(* the kind, the operator's own mesh identity, the INSERT, the audit row.  *)

requireSession(b) == session[b] # None

RemoteForm(b, kind, u) ==
    /\ requireSession(b) /\ req[b] = Idle /\ Room
    /\ Cardinality(db.commands) + Cardinality({c \in Browsers : req[c].op \in Queued}) < MaxCommands
    /\ req' = [req EXCEPT ![b] = [op |-> kind, step |-> "owner", box |-> u, org |-> None, id |-> None, key |-> 0]]
    /\ UNCHANGED <<db, audit, lock, failures, status, session, panel>>

RemoteDropForm(b, u) == RemoteForm(b, "drop", u)

RemoteNodeAppendForm(b, u) == RemoteForm(b, "append", u)

RemoteExternalDeliveryForm(b, u) == RemoteForm(b, "delivery", u)

(* Offered to administrators, after the name of the relay is typed.        *)
RemoteRelayCommandForm(b, u) == requireAdminSession(b) /\ RemoteForm(b, "reboot", u)

mayCommand(s, o) == s.role = "admin" \/ s.org = o

getNodeOrganization(b) ==
    LET o == db.nodes[req[b].box] IN
    /\ req[b].op \in Queued /\ req[b].step = "owner"
    /\ IF o = None THEN Reply(b, "error")
       ELSE IF ~mayCommand(session[b], o) THEN Reply(b, "error")
       ELSE req' = [req EXCEPT ![b].org = o, ![b].step = IF req[b].op = "drop" THEN "identity" ELSE "nodeid"]
    /\ UNCHANGED <<db, audit, lock, failures, status, session, panel>>

getLatestNodeId(b) ==
    LET id == status[req[b].box] IN
    /\ req[b].op \in Queued \ {"drop"} /\ req[b].step = "nodeid"
    /\ IF id = None THEN Reply(b, "error")
       ELSE req' = [req EXCEPT ![b].id = id, ![b].step = CASE req[b].op = "append" -> "identity"
                                                            [] req[b].op = "reboot" -> "relay"
                                                            [] req[b].op = "delivery" -> "destination"]
    /\ UNCHANGED <<db, audit, lock, failures, status, session, panel>>

isRegisteredFixedRelay(b) ==
    /\ At(b, "reboot", "relay")
    /\ IF req[b].id \in FixedRelays THEN Goto(b, "identity") ELSE Reply(b, "error")
    /\ UNCHANGED <<db, audit, lock, failures, status, session, panel>>

(* An unknown destination, one that wants a password, or one to seal for.  *)
getExternalDeliveryDestination(b, open) ==
    /\ At(b, "delivery", "destination")
    /\ IF open THEN Goto(b, "queue") ELSE Reply(b, "error")
    /\ UNCHANGED <<db, audit, lock, failures, status, session, panel>>

(* getOrCreateMeshIdentity: SELECT ... FOR UPDATE of the operator's row,   *)
(* then the stored identity, or a new one stored before COMMIT.            *)
UnusedKey ==
    Min(1 .. Cardinality(Browsers) + MaxCommands + 1
          \ ({db.users[e].key : e \in {f \in Emails : db.users[f] # None}}
             \cup {c.what.key : c \in db.commands}
             \cup {req[c].key : c \in {d \in InFlight : req[d].op \in Queued}}))

lockIdentityUnlocked(b) ==
    LET e == session[b].email IN
    /\ req[b].op \in Signed /\ req[b].step = "identity"
    /\ IF db.users[e].key # 0
       THEN req' = [req EXCEPT ![b].key = db.users[e].key, ![b].step = "queue"]
       ELSE req' = [req EXCEPT ![b].key = UnusedKey, ![b].step = "store"]
    /\ UNCHANGED <<db, audit, lock, failures, status, session, panel>>

lockIdentity(b) ==
    LET e == session[b].email IN
    /\ req[b].op \in Signed /\ req[b].step = "identity" /\ Free(e, b)
    /\ IF db.users[e].key # 0
       THEN /\ req' = [req EXCEPT ![b].key = db.users[e].key, ![b].step = "queue"]
            /\ UNCHANGED lock
       ELSE /\ req' = [req EXCEPT ![b].key = UnusedKey, ![b].step = "store"]
            /\ Hold(e, b)
    /\ UNCHANGED <<db, audit, failures, status, session, panel>>

storeIdentity(b, heard) ==
    LET e == session[b].email IN
    /\ req[b].op \in Signed /\ req[b].step = "store" /\ Free(e, b)
    /\ db' = [db EXCEPT !.users[e].key = req[b].key]
    /\ Release(b)
    /\ IF heard THEN Goto(b, "queue") ELSE Reply(b, "error")
    /\ UNCHANGED <<audit, failures, status, session, panel>>

(* What is signed: the operator's key over the content, and for a note or  *)
(* a reboot over the identity of the Box it is meant for.                  *)
signDrop(b) == [kind |-> "drop", key |-> req[b].key, target |-> None]

signNodeAppend(b) == [kind |-> "append", key |-> req[b].key, target |-> req[b].id]

signRelayCommand(b) == [kind |-> "reboot", key |-> req[b].key, target |-> req[b].id]

buildExternalDeliverySubmission(b) == [kind |-> "delivery", key |-> 0, target |-> None]

Payload(b) ==
    CASE req[b].op = "drop" -> signDrop(b)
      [] req[b].op = "append" -> signNodeAppend(b)
      [] req[b].op = "reboot" -> signRelayCommand(b)
      [] req[b].op = "delivery" -> buildExternalDeliverySubmission(b)

queueCommand(b) ==
    /\ req[b].op \in Queued /\ req[b].step = "queue"
    /\ db' = [db EXCEPT !.commands = @ \cup {[n |-> Cardinality(@) + 1, box |-> req[b].box, org |-> req[b].org,
                                              by |-> session[b].email, what |-> Payload(b)]}]
    /\ Goto(b, "note")
    /\ UNCHANGED <<audit, lock, failures, status, session, panel>>

logAudit(b) ==
    /\ req[b].op \in Queued /\ req[b].step = "note"
    /\ audit' = insertAuditLog([action |-> "queued", kind |-> req[b].op])
    /\ Reply(b, "ok")
    /\ UNCHANGED <<db, lock, failures, status, session, panel>>

-----------------------------------------------------------------------------
(* The answer, the panel's lists and the Box's own reports.                *)

(* A success clears the form and refreshes the page; an error is shown.    *)
handleSubmit(b) ==
    /\ req[b].step = "reply"
    /\ req' = [req EXCEPT ![b] = Idle]
    /\ panel' = [panel EXCEPT ![b].busy = FALSE,
                              ![b].fresh = req[b].status # "ok" /\ panel[b].fresh]
    /\ UNCHANGED <<db, audit, lock, failures, status, session>>

(* fetch() rejects: a command form shows the failure, the login and admin  *)
(* forms, which do not catch it, stay disabled until the page is reloaded. *)
AnswerLost(b) ==
    /\ req[b].step = "reply"
    /\ req' = [req EXCEPT ![b] = Idle]
    /\ panel' = IF req[b].op \in Queued THEN panel ELSE [panel EXCEPT ![b].busy = TRUE]
    /\ UNCHANGED <<db, audit, lock, failures, status, session>>

Reload(b) ==
    /\ req[b] = Idle
    /\ panel' = [panel EXCEPT ![b] = NoPanel]
    /\ UNCHANGED <<db, audit, lock, failures, status, session, req>>

listOrganizations == db.orgs

AdminPage(b) ==
    /\ requireAdminSession(b) /\ req[b] = Idle /\ ~panel[b].fresh
    /\ panel' = [panel EXCEPT ![b].orgs = listOrganizations, ![b].fresh = TRUE]
    /\ UNCHANGED <<db, audit, lock, failures, status, session, req>>

BoxSyncs(u, id) ==
    /\ status' = [status EXCEPT ![u] = id]
    /\ UNCHANGED <<db, audit, lock, failures, session, req, panel>>

Steps(b) ==
    \/ countRecentLoginFailures(b) \/ findUserByEmail(b) \/ logLoginFailure(b) \/ issueToken(b)
    \/ insertUser(b) \/ insertOrganization(b) \/ selectPrevious(b) \/ upsertNode(b) \/ logChange(b)
    \/ \E heard \in BOOLEAN : Commit(b, heard) \/ storeIdentity(b, heard)
    \/ getNodeOrganization(b) \/ getLatestNodeId(b) \/ isRegisteredFixedRelay(b)
    \/ \E open \in BOOLEAN : getExternalDeliveryDestination(b, open)
    \/ lockIdentity(b) \/ queueCommand(b) \/ logAudit(b)
    \/ QueryFails(b)

Next ==
    \/ \E b \in Browsers :
          \/ \E e \in Emails, right \in BOOLEAN : SignIn(b, e, right)
          \/ \E o \in Orgs : CreateOrganizationForm(b, o)
          \/ \E e \in Emails, role \in {"admin", "operatore"}, o \in Orgs \cup {None} : CreateUserForm(b, e, role, o)
          \/ \E u \in Boxes, o \in Orgs : AssignNodeForm(b, u, o)
          \/ \E u \in Boxes : RemoteDropForm(b, u) \/ RemoteNodeAppendForm(b, u)
                                \/ RemoteExternalDeliveryForm(b, u) \/ RemoteRelayCommandForm(b, u)
          \/ Steps(b) \/ handleSubmit(b) \/ AnswerLost(b) \/ Reload(b) \/ AdminPage(b)
    \/ \E e \in Emails : WindowPasses(e)
    \/ \E u \in Boxes, id \in Ids : BoxSyncs(u, id)

Spec == Init /\ [][Next]_vars

-----------------------------------------------------------------------------
TypeOK ==
    /\ db.orgs \subseteq Orgs
    /\ db.nodes \in [Boxes -> Orgs \cup {None}]
    /\ lock \in [Rows -> Browsers \cup {None}]
    /\ DOMAIN req = Browsers /\ DOMAIN panel = Browsers

(* The last assignment logged is the one in force, and a reassignment      *)
(* names the organisation that lost the Box, whatever two administrators   *)
(* do at once and whichever answers are lost (assignNode,                  *)
(* withTransaction).  The one exception is a call that read the row while  *)
(* nobody had been assigned: with no row to lock it waits for nobody, and  *)
(* its entry names no previous organisation even when it commits second.   *)
HistoryHolds ==
    \A u \in Boxes :
       LET h == Assigned(u) IN
       /\ db.nodes[u] = IF h = <<>> THEN None ELSE h[Len(h)].org
       /\ \A i \in DOMAIN h : h[i].prev = IF h[i].seen = 0 THEN None ELSE h[i - 1].org

(* An operator is known to the mesh by one identity: whatever is queued    *)
(* was signed with the key stored for that operator, even when the first   *)
(* two commands are sent at the same time (getOrCreateMeshIdentity).       *)
OneIdentityEach ==
    \A c \in db.commands :
       c.what.kind \in Signed => c.what.key = db.users[c.by].key
=============================================================================
