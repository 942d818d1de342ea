----------------------------- MODULE Enrolment -----------------------------
(***************************************************************************)
(* How a worker host gets, keeps and loses its access token: enrolment     *)
(* codes and token rotation and revocation by the administrator            *)
(* (admin_worker_service.py), registration and authentication at the       *)
(* portal (worker_service.py, worker_repository.py), and the credential    *)
(* the agent keeps and may lose (worker_agent.py).                         *)
(*                                                                         *)
(* Every statement of the repository commits by itself, so a request is a  *)
(* row that takes one step per UPDATE or INSERT; the reads a registration  *)
(* starts with are one step, since nothing it writes is conditional on     *)
(* what it read.  The agent gives up on an answer after 30 seconds and     *)
(* asks again, while the portal is still at work.                          *)
(*                                                                         *)
(* Abstracted: a machine stands for its fingerprint, the right host name   *)
(* and the right paths; a request with wrong ones is refused and changes   *)
(* nothing.                                                                *)
(***************************************************************************)
EXTENDS Integers, FiniteSets

CONSTANTS
    Nodes,      \* worker_node rows
    Machines,   \* hosts set up with an agent
    Codes,      \* bound: enrolment codes
    Tokens,     \* bound: access tokens
    Handlers,   \* bound: requests under way at once
    None

VARIABLES
    node,       \* worker_node
    code,       \* worker_enrollment
    token,      \* worker_auth_token
    credential, \* the access token each machine's agent holds
    handler,    \* requests under way
    mixed,      \* history: nodes whose tokens two requests changed at once
    contested,  \* history: nodes two machines are registering for the first time at once
    reused,     \* history: codes two registrations used at once
    withdrawn   \* history: nodes revoked while nothing else was under way on them

enrolVars == <<node, code, token, credential, handler, mixed, contested, reused, withdrawn>>
histories == <<mixed, contested, reused, withdrawn>>

Statuses == {"pending_enrollment", "active", "offline", "revoked"}
Node == [status : Statuses, fingerprint : Machines \cup {None}]
Code == [node : Nodes, status : {"issued", "consumed"}, expired : BOOLEAN]
Token == [node : Nodes, status : {"active", "rotated", "revoked"}, code : Codes \cup {None}]
Row ==
    [op : {"register"}, pc : {"activate", "consume", "retire", "insert"}, node : Nodes,
     machine : Machines, code : Codes, awaited : BOOLEAN]
    \cup [op : {"rotate"}, pc : {"retire", "insert"}, node : Nodes, machine : {None},
          code : {None}, awaited : {FALSE}]
    \cup [op : {"revoke"}, pc : {"node", "tokens"}, node : Nodes, machine : {None},
          code : {None}, awaited : {FALSE}]

ASSUME EnrolmentAssumption ==
    /\ None \notin Nodes \cup Machines \cup Codes \cup Tokens \cup Handlers
    /\ None \notin Node \cup Code \cup Token \cup Row

---------------------------------------------------------------------------
At(h, pc) == handler[h] # None /\ handler[h].pc = pc
Goto(h, pc) == handler' = [handler EXCEPT ![h].pc = pc]
End(h) == handler' = [handler EXCEPT ![h] = None]
Free(h) == handler[h] = None
Start(h, row) == handler' = [handler EXCEPT ![h] = row]

Others(h, n) == {g \in Handlers \ {h} : handler[g] # None /\ handler[g].node = n}
Registering(h, n) == {g \in Others(h, n) : handler[g].op = "register"}

ActiveTokens(n) == {t \in Tokens : token[t] # None /\ token[t].node = n /\ token[t].status = "active"}

\* The row a bearer token finds.
Known(t) == token[t] # None /\ token[t].status = "active"

\* _authenticate_worker
Serves(t) ==
    /\ Known(t)
    /\ node[token[t].node].status # "revoked"

---------------------------------------------------------------------------
(* The administrator: POST /nodes, /enrollment, /rotate-token, /revoke.    *)

NewNode == [status |-> "pending_enrollment", fingerprint |-> None]

CreateNode(n) ==
    /\ node[n] = None
    /\ node' = [node EXCEPT ![n] = NewNode]
    /\ UNCHANGED <<code, token, credential, handler, histories>>

NewCode(n) == [node |-> n, status |-> "issued", expired |-> FALSE]

\* Whatever the node's status, and with its earlier codes still good.
IssueEnrolment(n, e) ==
    /\ node[n] # None
    /\ code[e] = None
    /\ code' = [code EXCEPT ![e] = NewCode(n)]
    /\ UNCHANGED <<node, token, credential, handler, histories>>

Expire(e) ==
    /\ code[e] # None /\ code[e].status = "issued" /\ ~code[e].expired
    /\ code' = [code EXCEPT ![e].expired = TRUE]
    /\ UNCHANGED <<node, token, credential, handler, histories>>

Mix(h, n) == mixed' = IF Others(h, n) # {} THEN mixed \cup {n} ELSE mixed

AdminStart(h, n, op, pc) ==
    /\ Free(h) /\ node[n] # None
    /\ Start(h, [op |-> op, pc |-> pc, node |-> n, machine |-> None,
                 code |-> None, awaited |-> FALSE])
    /\ Mix(h, n)
    /\ UNCHANGED <<node, code, token, credential, contested, reused, withdrawn>>

Rotate(h, n) == AdminStart(h, n, "rotate", "retire")
Revoke(h, n) == AdminStart(h, n, "revoke", "node")

RevokeNode(h) ==
    /\ At(h, "node")
    /\ LET n == handler[h].node IN
        /\ node' = [node EXCEPT ![n].status = "revoked"]
        /\ withdrawn' = IF Others(h, n) = {} THEN withdrawn \cup {n} ELSE withdrawn
    /\ Goto(h, "tokens")
    /\ UNCHANGED <<code, token, credential, mixed, contested, reused>>

\* Seeded fault of Ended: the tokens stay.
NothingEnded(n, status) == token

Ended(n, status) ==
    [t \in Tokens |-> IF t \in ActiveTokens(n) THEN [token[t] EXCEPT !.status = status] ELSE token[t]]

RevokeTokens(h) ==
    /\ At(h, "tokens")
    /\ token' = Ended(handler[h].node, "revoked")
    /\ End(h)
    /\ UNCHANGED <<node, code, credential, histories>>

---------------------------------------------------------------------------
(* POST /api/worker/register                                               *)

\* Seeded fault of SameIdentity: no check.
AnyIdentity(n, m) == TRUE

SameIdentity(n, m) == node[n].fingerprint \in {None, m}

\* Seeded fault of Enrollable: no check.
AnyStatus(n) == TRUE

Enrollable(n) == node[n].status \in {"pending_enrollment", "active"}

\* Registrations by other machines that have still to write their fingerprint.
Rivals(h, n, m) ==
    {g \in Handlers \ {h} : At(g, "activate") /\ handler[g].node = n /\ handler[g].machine # m}

GoodCode(e) == code[e] # None /\ ~code[e].expired /\ code[e].status = "issued"

NewToken(n, e) == [node |-> n, status |-> "active", code |-> e]

\* A consumed code is answered without a token, any other refusal with an error.
Register(h, m, e) ==
    /\ Free(h)
    /\ credential[m] = None
    /\ ~\E g \in Handlers : handler[g] # None /\ handler[g].machine = m /\ handler[g].awaited
    /\ GoodCode(e)
    /\ LET n == code[e].node IN
        /\ SameIdentity(n, m) /\ Enrollable(n)
        /\ Start(h, [op |-> "register", pc |-> "activate", node |-> n, machine |-> m,
                     code |-> e, awaited |-> TRUE])
        /\ Mix(h, n)
        /\ contested' = IF Rivals(h, n, m) # {} THEN contested \cup {n} ELSE contested
        /\ reused' = IF \E g \in Registering(h, n) : handler[g].code = e
                     THEN reused \cup {e} ELSE reused
    /\ UNCHANGED <<node, code, token, credential, withdrawn>>

\* activate_worker_node looks at neither status nor fingerprint.  The contest is
\* over with the last machine's write.
Activate(h) ==
    /\ At(h, "activate")
    /\ LET n == handler[h].node
           m == handler[h].machine
       IN
        /\ node' = [node EXCEPT ![n] = [status |-> "active", fingerprint |-> m]]
        /\ contested' = IF Rivals(h, n, m) = {} THEN contested \ {n} ELSE contested
    /\ Goto(h, "consume")
    /\ UNCHANGED <<code, token, credential, mixed, reused, withdrawn>>

\* Seeded fault of Consumed: the code stays issued.
LeftIssued(e) == code

Consumed(e) == [code EXCEPT ![e].status = "consumed"]

Consume(h) ==
    /\ At(h, "consume")
    /\ code' = Consumed(handler[h].code)
    /\ Goto(h, "retire")
    /\ UNCHANGED <<node, token, credential, histories>>

(* rotate_worker_token: the node's tokens are rotated away, whichever      *)
(* request put them there, and the new one comes in a statement of its own.*)
RetireTokens(h) ==
    /\ At(h, "retire")
    /\ LET n == handler[h].node IN
        /\ token' = Ended(n, "rotated")
        /\ mixed' = IF Others(h, n) = {} THEN mixed \ {n} ELSE mixed
    /\ Goto(h, "insert")
    /\ UNCHANGED <<node, code, credential, contested, reused, withdrawn>>

InsertToken(h, t) ==
    /\ At(h, "insert")
    /\ token[t] = None
    /\ LET row == handler[h] IN
        /\ token' = [token EXCEPT ![t] = NewToken(row.node, row.code)]
        /\ credential' = IF row.awaited THEN [credential EXCEPT ![row.machine] = t]
                          ELSE credential
    /\ End(h)
    /\ UNCHANGED <<node, code, histories>>

---------------------------------------------------------------------------
(* The agent and the monitor.                                              *)

\* The agent's request times out, or the agent restarts: the answer is lost.
GiveUp(h) ==
    /\ handler[h] # None /\ handler[h].awaited
    /\ handler' = [handler EXCEPT ![h].awaited = FALSE]
    /\ UNCHANGED <<node, code, token, credential, histories>>

\* An upgrade removes the state directory, or the agent stops after a save that failed.
LoseCredential(m) ==
    /\ credential[m] # None
    /\ credential' = [credential EXCEPT ![m] = None]
    /\ UNCHANGED <<node, code, token, handler, histories>>

Beaten(status) == IF status \in {"offline", "pending_enrollment"} THEN "active" ELSE status

\* Authenticated; the update of a node revoked meanwhile leaves its status alone.
Heartbeat(m) ==
    /\ credential[m] # None /\ Serves(credential[m])
    /\ LET n == token[credential[m]].node IN
        /\ Beaten(node[n].status) # node[n].status
        /\ node' = [node EXCEPT ![n].status = Beaten(@)]
    /\ UNCHANGED <<code, token, credential, handler, histories>>

\* reconcile_offline_workers: no heartbeat for 45 seconds.
MarkOffline(n) ==
    /\ node[n] # None /\ node[n].status = "active"
    /\ node' = [node EXCEPT ![n].status = "offline"]
    /\ UNCHANGED <<code, token, credential, handler, histories>>

\* The portal stops: what a request had still to write is never written.
PortalCrash ==
    /\ \E h \in Handlers : handler[h] # None
    /\ handler' = [h \in Handlers |-> None]
    /\ contested' = {}
    /\ UNCHANGED <<node, code, token, credential, mixed, reused, withdrawn>>

---------------------------------------------------------------------------
EnrolInit ==
    /\ node = [n \in Nodes |-> None]
    /\ code = [e \in Codes |-> None]
    /\ token = [t \in Tokens |-> None]
    /\ credential = [m \in Machines |-> None]
    /\ handler = [h \in Handlers |-> None]
    /\ mixed = {} /\ contested = {} /\ reused = {} /\ withdrawn = {}

AdminStep ==
    \E n \in Nodes :
        \/ CreateNode(n)
        \/ \E e \in Codes : IssueEnrolment(n, e)
        \/ \E h \in Handlers : Rotate(h, n) \/ Revoke(h, n)

HandlerStep(h) ==
    \/ Activate(h) \/ Consume(h) \/ RetireTokens(h) \/ RevokeNode(h) \/ RevokeTokens(h)
    \/ \E t \in Tokens : InsertToken(h, t)

AgentStep(m) ==
    \/ \E h \in Handlers, e \in Codes : Register(h, m, e)
    \/ LoseCredential(m) \/ Heartbeat(m)

EnrolNext ==
    \/ AdminStep
    \/ \E h \in Handlers : HandlerStep(h) \/ GiveUp(h)
    \/ \E m \in Machines : AgentStep(m)
    \/ \E n \in Nodes : MarkOffline(n)
    \/ \E e \in Codes : Expire(e)
    \/ PortalCrash

EnrolSpec == EnrolInit /\ [][EnrolNext]_enrolVars

---------------------------------------------------------------------------
\* Every table, store and request has its shape.
TypeOK ==
    /\ node \in [Nodes -> Node \cup {None}]
    /\ code \in [Codes -> Code \cup {None}]
    /\ token \in [Tokens -> Token \cup {None}]
    /\ credential \in [Machines -> Tokens \cup {None}]
    /\ handler \in [Handlers -> Row \cup {None}]
    /\ mixed \subseteq Nodes /\ contested \subseteq Nodes /\ withdrawn \subseteq Nodes
    /\ reused \subseteq Codes

(* A node has one active token at most, across rotations, registrations    *)
(* again and crashes of the portal: two come only of requests that met,    *)
(* and the next rotation alone puts that right (rotate_worker_token).      *)
(* Tables and requests keep their types.                                   *)
OneActiveToken ==
    TypeOK /\ \A n \in Nodes : Cardinality(ActiveTokens(n)) > 1 => n \in mixed

(* Once a node is revoked, with no other request for it under way, no      *)
(* token of it is ever served again: neither an older one whose own        *)
(* revocation a crash prevented, nor one rotated in or registered later.   *)
RevokedNotServed ==
    \A t \in Tokens : Serves(t) => token[t].node \notin withdrawn

(* A code is good for one token, however often its registration is         *)
(* retried and wherever the portal stopped, unless two registrations       *)
(* with it were under way at once.                                         *)
OneTokenPerCode ==
    \A e \in Codes :
        Cardinality({t \in Tokens : token[t] # None /\ token[t].code = e}) > 1 => e \in reused

KeepsMachine(n) ==
    node[n] # None /\ node[n].fingerprint # None =>
        \/ node'[n].fingerprint = node[n].fingerprint
        \/ n \in contested

(* A node stays with the machine that first registered it, through codes   *)
(* issued again, retries of that machine, crashes and revocations.  Only   *)
(* while the first registrations of two machines are under way at once,    *)
(* both admitted before either wrote its fingerprint, may the later one    *)
(* take the node; from the last one's write on, it is kept again.          *)
FingerprintKept == [][\A n \in Nodes : KeepsMachine(n)]_enrolVars
=============================================================================
