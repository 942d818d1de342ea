--------------------------- MODULE EnrolmentProofs ---------------------------
(***************************************************************************)
(* Theorems about Enrolment, for every set of nodes, machines, codes,      *)
(* tokens and requests: who may act as a node.                             *)
(***************************************************************************)
EXTENDS Enrolment, FiniteSetTheorems, TLAPS

\* A set with no two members has at most one.
LEMMA OneOrNone ==
    ASSUME NEW S, \A x, y \in S : x = y
    PROVE  ~(Cardinality(S) > 1)
<1>1. CASE S = {}
    BY <1>1, FS_EmptySet
<1>2. CASE S # {}
    <2>1. PICK x \in S : TRUE
        BY <1>2
    <2>2. S = {x}
        BY <2>1
    <2> QED
        BY <2>2, FS_Singleton
<1> QED
    BY <1>1, <1>2

-----------------------------------------------------------------------------
(* The inductive invariant.  Each history variable says of a node, or of a *)
(* code, that requests for it met; where it does not, there is one request *)
(* at most, and what that request has read is still so when it writes.     *)

\* Requests under way for one node, or with one code, unless they met.
LoneRequest ==
    \A g, h \in Handlers :
        handler[g] # None /\ handler[h] # None /\ handler[g].node = handler[h].node =>
            \/ g = h
            \/ /\ handler[g].node \in mixed
               /\ (/\ handler[g].op = "register" /\ handler[h].op = "register"
                   /\ handler[g].code = handler[h].code) => handler[g].code \in reused

\* A node's tokens, and those it has when the next one is inserted.
LoneToken ==
    \A n \in Nodes \ mixed :
        /\ \A s, t \in ActiveTokens(n) : s = t
        /\ \A h \in Handlers : At(h, "insert") /\ handler[h].node = n => ActiveTokens(n) = {}

\* Nothing is left under way that could bring a withdrawn node back.
WithdrawnStays ==
    \A n \in withdrawn :
        /\ node[n] # None /\ node[n].status = "revoked"
        /\ \A h \in Handlers : At(h, "activate") => handler[h].node # n

\* A request's node and code exist and belong together.
RowsExist ==
    /\ \A e \in Codes : code[e] # None => node[code[e].node] # None
    /\ \A t \in Tokens : token[t] # None => node[token[t].node] # None
    /\ \A h \in Handlers : handler[h] # None =>
        /\ node[handler[h].node] # None
        /\ handler[h].op = "register" =>
            /\ code[handler[h].code] # None
            /\ code[handler[h].code].node = handler[h].node

\* A code with a token is consumed, and so is that of a registration about to
\* insert one; a registration with a code of one use finds no token of it.
CodeUsed ==
    /\ \A t \in Tokens : token[t] # None /\ token[t].code # None =>
        code[token[t].code] # None /\ code[token[t].code].status = "consumed"
    /\ \A h \in Handlers :
        handler[h] # None /\ handler[h].op = "register" /\ handler[h].pc \in {"retire", "insert"} =>
            code[handler[h].code].status = "consumed"
    /\ \A s, t \in Tokens :
        token[s] # None /\ token[t] # None /\ token[s].code = token[t].code /\ token[s].code # None =>
            s = t \/ token[s].code \in reused
    /\ \A h \in Handlers, t \in Tokens :
        (/\ handler[h] # None /\ handler[h].op = "register"
         /\ token[t] # None /\ token[t].code = handler[h].code) => token[t].code \in reused

\* Two machines that are still to write their fingerprints contest the node.
Contest ==
    \A g, h \in Handlers :
        (/\ At(g, "activate") /\ At(h, "activate") /\ handler[g].node = handler[h].node
         /\ handler[g].machine # handler[h].machine) => handler[g].node \in contested

\* A registration found the node free, or its own, and it still is.
SameMachine ==
    \A h \in Handlers : At(h, "activate") =>
        \/ handler[h].node \in contested
        \/ SameIdentity(handler[h].node, handler[h].machine)

EnrolInv ==
    /\ TypeOK /\ LoneRequest /\ LoneToken /\ WithdrawnStays
    /\ RowsExist /\ CodeUsed /\ Contest /\ SameMachine

-----------------------------------------------------------------------------
\* The tables start empty.
LEMMA InitEnrolInv == EnrolInit => EnrolInv
BY DEF EnrolInit, EnrolInv, TypeOK, LoneRequest, LoneToken, WithdrawnStays, RowsExist,
       CodeUsed, Contest, SameMachine, At, ActiveTokens

\* A request's next statement says what the request is.
LEMMA RowShape ==
    ASSUME TypeOK, NEW h \in Handlers, handler[h] # None
    PROVE  /\ handler[h] \in Row /\ handler[h].node \in Nodes
           /\ handler[h].pc \in {"activate", "consume"} => handler[h].op = "register"
           /\ handler[h].pc = "node" => handler[h].op = "revoke"
           /\ handler[h].op = "register" =>
                handler[h].code \in Codes /\ handler[h].code # None /\ handler[h].machine \in Machines
           /\ handler[h].op # "register" => handler[h].code = None
BY EnrolmentAssumption DEF TypeOK, Row

\* What a statement of request h leaves of it and of the others.
Continues(h, pc) ==
    /\ handler' \in [Handlers -> Row \cup {None}]
    /\ handler'[h] # None /\ handler'[h].pc = pc
    /\ handler'[h].op = handler[h].op /\ handler'[h].node = handler[h].node
    /\ handler'[h].code = handler[h].code /\ handler'[h].machine = handler[h].machine
    /\ \A g \in Handlers \ {h} : handler'[g] = handler[g]

Finishes(h) ==
    /\ handler' \in [Handlers -> Row \cup {None}]
    /\ handler'[h] = None
    /\ \A g \in Handlers \ {h} : handler'[g] = handler[g]

\* A request that goes on to its next statement changes nothing else of itself.
LEMMA GotoShape ==
    ASSUME TypeOK, NEW h \in Handlers, handler[h] # None, NEW pc, Goto(h, pc),
           \/ handler[h].op = "register" /\ pc \in {"activate", "consume", "retire", "insert"}
           \/ handler[h].op = "rotate" /\ pc \in {"retire", "insert"}
           \/ handler[h].op = "revoke" /\ pc \in {"node", "tokens"}
    PROVE  Continues(h, pc)
<1>1. /\ handler \in [Handlers -> Row \cup {None}]
      /\ handler[h] \in Row
    BY RowShape DEF TypeOK
<1>2. handler' = [handler EXCEPT ![h] = [handler[h] EXCEPT !.pc = pc]]
    BY <1>1 DEF Goto
<1>3. /\ [handler[h] EXCEPT !.pc = pc] \in Row
      /\ [handler[h] EXCEPT !.pc = pc].pc = pc
      /\ [handler[h] EXCEPT !.pc = pc].op = handler[h].op
      /\ [handler[h] EXCEPT !.pc = pc].node = handler[h].node
      /\ [handler[h] EXCEPT !.pc = pc].code = handler[h].code
      /\ [handler[h] EXCEPT !.pc = pc].machine = handler[h].machine
    BY <1>1 DEF Row
<1> QED
    BY <1>1, <1>2, <1>3, EnrolmentAssumption DEF Continues

\* A request that starts is a row, and the others stay.
LEMMA StartShape ==
    ASSUME TypeOK, NEW h \in Handlers, NEW row \in Row, Start(h, row)
    PROVE  /\ handler' \in [Handlers -> Row \cup {None}]
           /\ handler'[h] = row
           /\ \A g \in Handlers \ {h} : handler'[g] = handler[g]
BY DEF Start, TypeOK

\* A request of an administrator.
LEMMA AdminRow ==
    ASSUME NEW n \in Nodes, NEW op, NEW pc,
           \/ op = "rotate" /\ pc = "retire"
           \/ op = "revoke" /\ pc = "node"
    PROVE  [op |-> op, pc |-> pc, node |-> n, machine |-> None, code |-> None,
            awaited |-> FALSE] \in Row
BY DEF Row

\* An update of a node's status.
LEMMA NodeUpdate ==
    ASSUME TypeOK, NEW n \in Nodes, node[n] # None, NEW s \in Statuses,
           node' = [node EXCEPT ![n].status = s]
    PROVE  /\ node' \in [Nodes -> Node \cup {None}]
           /\ \A m \in Nodes \ {n} : node'[m] = node[m]
           /\ node'[n] # None /\ node'[n].status = s /\ node'[n].fingerprint = node[n].fingerprint
<1>1. node[n] \in Node /\ node \in [Nodes -> Node \cup {None}]
    BY DEF TypeOK
<1>2. node' = [node EXCEPT ![n] = [node[n] EXCEPT !.status = s]]
    BY <1>1
<1>3. /\ [node[n] EXCEPT !.status = s] \in Node
      /\ [node[n] EXCEPT !.status = s].status = s
      /\ [node[n] EXCEPT !.status = s].fingerprint = node[n].fingerprint
    BY <1>1 DEF Node
<1> QED
    BY <1>1, <1>2, <1>3, EnrolmentAssumption

\* Updates of a code: it is consumed, or it expires.
LEMMA CodeUpdate ==
    ASSUME TypeOK, NEW e \in Codes, code[e] # None,
           code' = Consumed(e) \/ code' = [code EXCEPT ![e].expired = TRUE]
    PROVE  /\ code' \in [Codes -> Code \cup {None}]
           /\ \A f \in Codes \ {e} : code'[f] = code[f]
           /\ code'[e] # None /\ code'[e].node = code[e].node
           /\ code'[e].status \in {code[e].status, "consumed"}
           /\ code' = Consumed(e) => code'[e].status = "consumed"
<1>1. code[e] \in Code /\ code \in [Codes -> Code \cup {None}]
    BY DEF TypeOK
<1>2. CASE code' = Consumed(e)
    <2>1. code' = [code EXCEPT ![e] = [code[e] EXCEPT !.status = "consumed"]]
        BY <1>1, <1>2 DEF Consumed
    <2>2. /\ [code[e] EXCEPT !.status = "consumed"] \in Code
          /\ [code[e] EXCEPT !.status = "consumed"].status = "consumed"
          /\ [code[e] EXCEPT !.status = "consumed"].node = code[e].node
        BY <1>1 DEF Code
    <2> QED
        BY <1>1, <2>1, <2>2, EnrolmentAssumption
<1>3. CASE code' = [code EXCEPT ![e].expired = TRUE] /\ code' # Consumed(e)
    <2>1. code' = [code EXCEPT ![e] = [code[e] EXCEPT !.expired = TRUE]]
        BY <1>1, <1>3
    <2>2. /\ [code[e] EXCEPT !.expired = TRUE] \in Code
          /\ [code[e] EXCEPT !.expired = TRUE].status = code[e].status
          /\ [code[e] EXCEPT !.expired = TRUE].node = code[e].node
        BY <1>1 DEF Code
    <2> QED
        BY <1>1, <1>3, <2>1, <2>2, EnrolmentAssumption
<1> QED
    BY <1>2, <1>3

\* A node's active tokens end, and nothing else of any token changes.
LEMMA TokensEnded ==
    ASSUME TypeOK, NEW n \in Nodes, NEW s \in {"rotated", "revoked"}, token' = Ended(n, s)
    PROVE  /\ token' \in [Tokens -> Token \cup {None}]
           /\ \A t \in Tokens :
                /\ token'[t] = None <=> token[t] = None
                /\ token[t] # None =>
                    /\ token'[t].node = token[t].node /\ token'[t].code = token[t].code
                    /\ token'[t].status = "active" =>
                        token[t].status = "active" /\ token[t].node # n
<1>1. token \in [Tokens -> Token \cup {None}]
    BY DEF TypeOK
<1>2. ASSUME NEW t \in ActiveTokens(n)
      PROVE  /\ [token[t] EXCEPT !.status = s] \in Token
             /\ [token[t] EXCEPT !.status = s].status = s
             /\ [token[t] EXCEPT !.status = s].node = token[t].node
             /\ [token[t] EXCEPT !.status = s].code = token[t].code
    BY <1>1 DEF ActiveTokens, Token
<1>3. ASSUME NEW t \in Tokens
      PROVE  token'[t] = IF t \in ActiveTokens(n) THEN [token[t] EXCEPT !.status = s] ELSE token[t]
    BY DEF Ended
<1>4. token' \in [Tokens -> Token \cup {None}]
    BY <1>1, <1>2 DEF Ended
<1>5. ASSUME NEW t \in Tokens
      PROVE  /\ token'[t] = None <=> token[t] = None
             /\ token[t] # None =>
                    /\ token'[t].node = token[t].node /\ token'[t].code = token[t].code
                    /\ token'[t].status = "active" =>
                        token[t].status = "active" /\ token[t].node # n
    <2>1. CASE t \in ActiveTokens(n)
        <3>1. token'[t] = [token[t] EXCEPT !.status = s]
            BY <1>3, <2>1
        <3>2. token[t] # None /\ token'[t] # None
            BY <1>2, <2>1, <3>1, EnrolmentAssumption DEF ActiveTokens
        <3> QED
            BY <1>2, <2>1, <3>1, <3>2
    <2>2. CASE t \notin ActiveTokens(n)
        BY <1>3, <2>2 DEF ActiveTokens
    <2> QED
        BY <2>1, <2>2
<1> QED
    BY <1>4, <1>5

\* A heartbeat brings a node back, unless it was revoked.
LEMMA HeartbeatShape ==
    ASSUME TypeOK, RowsExist, NEW m \in Machines, Heartbeat(m)
    PROVE  /\ node' \in [Nodes -> Node \cup {None}]
           /\ \A n \in Nodes : node[n] # None =>
                /\ node'[n] # None /\ node'[n].fingerprint = node[n].fingerprint
                /\ node[n].status = "revoked" => node'[n].status = "revoked"
<1> DEFINE n == token[credential[m]].node  s == Beaten(node[n].status)
<1>1. credential[m] \in Tokens /\ token[credential[m]] \in Token /\ n \in Nodes
    BY DEF Heartbeat, Serves, Known, TypeOK, Token
<1>2. node[n] # None /\ node[n] \in Node
    BY <1>1, EnrolmentAssumption DEF TypeOK, RowsExist
<1>3. s \in Statuses /\ (node[n].status = "revoked" => s = "revoked")
    BY <1>2 DEF Beaten, Node, Statuses
<1>4. node' = [node EXCEPT ![n].status = s]
    BY <1>1, <1>2 DEF Heartbeat, TypeOK
<1> QED
    BY <1>1, <1>2, <1>3, <1>4, NodeUpdate

\* The statements of a registration, a rotation and a revocation.
LEMMA ActivateEffect ==
    ASSUME TypeOK, NEW h \in Handlers, Activate(h)
    PROVE  /\ At(h, "activate") /\ handler[h].op = "register" /\ handler[h].node \in Nodes
           /\ Continues(h, "consume")
           /\ node' \in [Nodes -> Node \cup {None}]
           /\ node'[handler[h].node] # None
           /\ node'[handler[h].node].status = "active"
           /\ node'[handler[h].node].fingerprint = handler[h].machine
           /\ \A n \in Nodes \ {handler[h].node} : node'[n] = node[n]
           /\ contested' = IF Rivals(h, handler[h].node, handler[h].machine) = {}
                           THEN contested \ {handler[h].node} ELSE contested
           /\ UNCHANGED <<code, token, credential, mixed, reused, withdrawn>>
<1>1. /\ At(h, "activate") /\ Goto(h, "consume")
      /\ UNCHANGED <<code, token, credential, mixed, reused, withdrawn>>
    BY DEF Activate
<1>2. handler[h].op = "register" /\ handler[h].node \in Nodes /\ handler[h].machine \in Machines
    BY <1>1, RowShape DEF At
<1>3. [status |-> "active", fingerprint |-> handler[h].machine] \in Node
    BY <1>2 DEF Node, Statuses
<1>4. Continues(h, "consume")
    BY <1>1, <1>2, GotoShape DEF At
<1> QED
    BY <1>1, <1>2, <1>3, <1>4, EnrolmentAssumption DEF Activate, TypeOK

LEMMA ConsumeEffect ==
    ASSUME TypeOK, RowsExist, NEW h \in Handlers, Consume(h)
    PROVE  /\ At(h, "consume") /\ handler[h].op = "register" /\ handler[h].code \in Codes
           /\ Continues(h, "retire")
           /\ code' = Consumed(handler[h].code)
           /\ UNCHANGED <<node, token, credential, histories>>
<1>1. At(h, "consume") /\ Goto(h, "retire")
    BY DEF Consume
<1> QED
    BY <1>1, RowShape, GotoShape DEF At, Consume

LEMMA RetireEffect ==
    ASSUME TypeOK, NEW h \in Handlers, RetireTokens(h)
    PROVE  /\ At(h, "retire") /\ handler[h].node \in Nodes
           /\ Continues(h, "insert")
           /\ token' = Ended(handler[h].node, "rotated")
           /\ mixed' = IF Others(h, handler[h].node) = {} THEN mixed \ {handler[h].node} ELSE mixed
           /\ UNCHANGED <<node, code, credential, contested, reused, withdrawn>>
<1>1. At(h, "retire") /\ Goto(h, "insert")
    BY DEF RetireTokens
<1>2. handler[h].op \in {"register", "rotate"}
    BY <1>1 DEF TypeOK, Row, At
<1> QED
    BY <1>1, <1>2, RowShape, GotoShape DEF At, RetireTokens

LEMMA RevokeNodeEffect ==
    ASSUME TypeOK, RowsExist, NEW h \in Handlers, RevokeNode(h)
    PROVE  /\ At(h, "node") /\ handler[h].op = "revoke" /\ handler[h].node \in Nodes
           /\ Continues(h, "tokens")
           /\ node' \in [Nodes -> Node \cup {None}]
           /\ node'[handler[h].node] # None
           /\ node'[handler[h].node].status = "revoked"
           /\ node'[handler[h].node].fingerprint = node[handler[h].node].fingerprint
           /\ \A n \in Nodes \ {handler[h].node} : node'[n] = node[n]
           /\ withdrawn' = IF Others(h, handler[h].node) = {}
                           THEN withdrawn \cup {handler[h].node} ELSE withdrawn
           /\ UNCHANGED <<code, token, credential, mixed, contested, reused>>
<1>1. At(h, "node") /\ Goto(h, "tokens")
    BY DEF RevokeNode
<1>2. handler[h].op = "revoke" /\ handler[h].node \in Nodes
    BY <1>1, RowShape DEF At
<1>3. Continues(h, "tokens")
    BY <1>1, <1>2, GotoShape DEF At
<1>4. node[handler[h].node] # None /\ "revoked" \in Statuses
    BY <1>1 DEF RowsExist, At, Statuses
<1> QED
    BY <1>1, <1>2, <1>3, <1>4, NodeUpdate DEF RevokeNode

LEMMA RevokeTokensEffect ==
    ASSUME TypeOK, NEW h \in Handlers, RevokeTokens(h)
    PROVE  /\ At(h, "tokens") /\ handler[h].node \in Nodes
           /\ Finishes(h)
           /\ token' = Ended(handler[h].node, "revoked")
           /\ UNCHANGED <<node, code, credential, histories>>
<1>1. At(h, "tokens") /\ handler' = [handler EXCEPT ![h] = None]
    BY DEF RevokeTokens, End
<1> QED
    BY <1>1, RowShape DEF At, RevokeTokens, Finishes, TypeOK

LEMMA InsertEffect ==
    ASSUME TypeOK, NEW h \in Handlers, NEW t \in Tokens, InsertToken(h, t)
    PROVE  /\ At(h, "insert") /\ handler[h].node \in Nodes
           /\ Finishes(h)
           /\ token[t] = None
           /\ token' = [token EXCEPT ![t] = NewToken(handler[h].node, handler[h].code)]
           /\ NewToken(handler[h].node, handler[h].code) \in Token
           /\ credential' \in [Machines -> Tokens \cup {None}]
           /\ UNCHANGED <<node, code, histories>>
<1>1. At(h, "insert") /\ handler' = [handler EXCEPT ![h] = None]
    BY DEF InsertToken, End
<1>2. handler[h] \in Row /\ handler[h].node \in Nodes /\ handler[h].code \in Codes \cup {None}
    BY <1>1, RowShape DEF At
<1>3. NewToken(handler[h].node, handler[h].code) \in Token
    BY <1>2 DEF NewToken, Token
<1>4. credential' \in [Machines -> Tokens \cup {None}]
    BY <1>2 DEF InsertToken, TypeOK, Row
<1> QED
    BY <1>1, <1>2, <1>3, <1>4 DEF InsertToken, Finishes, TypeOK

LEMMA GiveUpEffect ==
    ASSUME TypeOK, NEW h \in Handlers, GiveUp(h)
    PROVE  /\ handler[h] # None
           /\ Continues(h, handler[h].pc)
           /\ UNCHANGED <<node, code, token, credential, histories>>
<1>1. handler \in [Handlers -> Row \cup {None}] /\ handler[h] # None /\ handler[h] \in Row
    BY DEF TypeOK, GiveUp
<1>2. handler' = [handler EXCEPT ![h] = [handler[h] EXCEPT !.awaited = FALSE]]
    BY <1>1 DEF GiveUp
<1>3. /\ [handler[h] EXCEPT !.awaited = FALSE] \in Row
      /\ [handler[h] EXCEPT !.awaited = FALSE].pc = handler[h].pc
      /\ [handler[h] EXCEPT !.awaited = FALSE].op = handler[h].op
      /\ [handler[h] EXCEPT !.awaited = FALSE].node = handler[h].node
      /\ [handler[h] EXCEPT !.awaited = FALSE].code = handler[h].code
      /\ [handler[h] EXCEPT !.awaited = FALSE].machine = handler[h].machine
    BY <1>1 DEF Row
<1> QED
    BY <1>1, <1>2, <1>3, EnrolmentAssumption DEF GiveUp, Continues

\* Requests that start.
LEMMA AdminStartEffect ==
    ASSUME TypeOK, NEW h \in Handlers, NEW n \in Nodes, Rotate(h, n) \/ Revoke(h, n)
    PROVE  /\ handler[h] = None /\ node[n] # None
           /\ handler' \in [Handlers -> Row \cup {None}]
           /\ handler'[h] # None /\ handler'[h].node = n /\ handler'[h].op # "register"
           /\ handler'[h].pc \in {"retire", "node"}
           /\ \A g \in Handlers \ {h} : handler'[g] = handler[g]
           /\ mixed' = IF Others(h, n) # {} THEN mixed \cup {n} ELSE mixed
           /\ UNCHANGED <<node, code, token, credential, contested, reused, withdrawn>>
<1>1. PICK op \in {"rotate", "revoke"}, pc \in {"retire", "node"} :
        AdminStart(h, n, op, pc) /\ (op = "rotate" <=> pc = "retire")
    BY DEF Rotate, Revoke
<1> DEFINE row == [op |-> op, pc |-> pc, node |-> n, machine |-> None, code |-> None,
                   awaited |-> FALSE]
<1>2. row \in Row /\ row.node = n /\ row.op = op /\ row.pc = pc
    BY <1>1 DEF Row
<1>3. handler' = [handler EXCEPT ![h] = row]
    BY <1>1 DEF AdminStart, Start
<1> HIDE DEF row
<1> QED
    BY <1>1, <1>2, <1>3, EnrolmentAssumption DEF AdminStart, Free, Mix, TypeOK

LEMMA RegisterEffect ==
    ASSUME TypeOK, NEW m \in Machines, NEW h \in Handlers, NEW e \in Codes, Register(h, m, e)
    PROVE  /\ handler[h] = None
           /\ code[e] # None /\ code[e].status = "issued" /\ code[e].node \in Nodes
           /\ SameIdentity(code[e].node, m) /\ Enrollable(code[e].node)
           /\ handler' \in [Handlers -> Row \cup {None}]
           /\ handler'[h] # None /\ handler'[h].node = code[e].node /\ handler'[h].code = e
           /\ handler'[h].op = "register" /\ handler'[h].pc = "activate"
           /\ handler'[h].machine = m
           /\ \A g \in Handlers \ {h} : handler'[g] = handler[g]
           /\ mixed' = IF Others(h, code[e].node) # {} THEN mixed \cup {code[e].node} ELSE mixed
           /\ contested' = IF Rivals(h, code[e].node, m) # {}
                           THEN contested \cup {code[e].node} ELSE contested
           /\ reused' = IF \E g \in Registering(h, code[e].node) : handler[g].code = e
                        THEN reused \cup {e} ELSE reused
           /\ UNCHANGED <<node, code, token, credential, withdrawn>>
<1> DEFINE n == code[e].node
           row == [op |-> "register", pc |-> "activate", node |-> n, machine |-> m,
                   code |-> e, awaited |-> TRUE]
<1>1. code[e] # None /\ code[e].status = "issued" /\ n \in Nodes
    BY DEF Register, GoodCode, TypeOK, Code
<1>2. /\ row \in Row /\ row.node = n /\ row.code = e /\ row.op = "register"
      /\ row.pc = "activate" /\ row.machine = m
    BY <1>1 DEF Row
<1>3. handler' = [handler EXCEPT ![h] = row]
    BY DEF Register, Start
<1> HIDE DEF row
<1> QED
    BY <1>1, <1>2, <1>3, EnrolmentAssumption DEF Register, Free, Mix, TypeOK

-----------------------------------------------------------------------------
(* Each part of the invariant, step by step.                               *)

\* A request only goes on or ends.
GoesOn(h) ==
    /\ handler' \in [Handlers -> Row \cup {None}]
    /\ \A g \in Handlers : handler'[g] # None =>
        /\ handler[g] # None
        /\ handler'[g].op = handler[g].op /\ handler'[g].node = handler[g].node
        /\ handler'[g].code = handler[g].code /\ handler'[g].machine = handler[g].machine
        /\ g # h => handler'[g] = handler[g]

LEMMA ContinuesGoesOn ==
    ASSUME NEW h \in Handlers, handler[h] # None, NEW pc, Continues(h, pc) \/ Finishes(h)
    PROVE  GoesOn(h)
BY DEF Continues, Finishes, GoesOn

\* The statement of a request: it goes on or ends.
Statement(h) ==
    \/ Activate(h) \/ Consume(h) \/ RetireTokens(h) \/ RevokeNode(h) \/ RevokeTokens(h)
    \/ \E t \in Tokens : InsertToken(h, t)
    \/ GiveUp(h)

LEMMA StatementGoesOn ==
    ASSUME TypeOK, RowsExist, NEW h \in Handlers, Statement(h)
    PROVE  handler[h] # None /\ GoesOn(h)
<1>1. CASE Activate(h)
    BY <1>1, ActivateEffect, ContinuesGoesOn DEF At
<1>2. CASE Consume(h)
    BY <1>2, ConsumeEffect, ContinuesGoesOn DEF At
<1>3. CASE RetireTokens(h)
    BY <1>3, RetireEffect, ContinuesGoesOn DEF At
<1>4. CASE RevokeNode(h)
    BY <1>4, RevokeNodeEffect, ContinuesGoesOn DEF At
<1>5. CASE RevokeTokens(h)
    BY <1>5, RevokeTokensEffect, ContinuesGoesOn DEF At
<1>6. ASSUME NEW t \in Tokens, InsertToken(h, t)
      PROVE  handler[h] # None /\ GoesOn(h)
    BY <1>6, InsertEffect, ContinuesGoesOn DEF At
<1>7. CASE GiveUp(h)
    BY <1>7, GiveUpEffect, ContinuesGoesOn
<1> QED
    BY <1>1, <1>2, <1>3, <1>4, <1>5, <1>6, <1>7 DEF Statement

\* The steps of the tables alone.
LEMMA TableSteps ==
    ASSUME EnrolNext
    PROVE  \/ \E n \in Nodes : CreateNode(n) \/ MarkOffline(n)
           \/ \E n \in Nodes, e \in Codes : IssueEnrolment(n, e)
           \/ \E e \in Codes : Expire(e)
           \/ \E m \in Machines : LoseCredential(m) \/ Heartbeat(m)
           \/ \E n \in Nodes, h \in Handlers : Rotate(h, n) \/ Revoke(h, n)
           \/ \E m \in Machines, h \in Handlers, e \in Codes : Register(h, m, e)
           \/ \E h \in Handlers : Statement(h)
           \/ PortalCrash
BY DEF EnrolNext, AdminStep, HandlerStep, AgentStep, Statement

LEMMA StepLoneRequest ==
    ASSUME TypeOK, RowsExist, LoneRequest, EnrolNext
    PROVE  LoneRequest'
<1>1. ASSUME UNCHANGED <<handler, mixed, reused>>
      PROVE  LoneRequest'
    BY <1>1 DEF LoneRequest
<1>2. ASSUME NEW h \in Handlers, Statement(h)
      PROVE  LoneRequest'
    <2>1. handler[h] # None /\ GoesOn(h)
        BY <1>2, StatementGoesOn
    <2>2. /\ reused' = reused
          /\ \/ mixed' = mixed
             \/ mixed' = mixed \ {handler[h].node} /\ Others(h, handler[h].node) = {}
        BY <1>2 DEF Statement, Activate, Consume, RetireTokens, RevokeNode, RevokeTokens,
                    InsertToken, GiveUp, histories
    <2> QED
        BY <2>1, <2>2 DEF LoneRequest, GoesOn, Others
<1>3. ASSUME NEW h \in Handlers, NEW n \in Nodes, Rotate(h, n) \/ Revoke(h, n)
      PROVE  LoneRequest'
    BY <1>3, AdminStartEffect DEF LoneRequest, Others
<1>4. ASSUME NEW h \in Handlers, NEW m \in Machines, NEW e \in Codes, Register(h, m, e)
      PROVE  LoneRequest'
    BY <1>4, RegisterEffect DEF LoneRequest, Others, Registering
<1>5. CASE PortalCrash
    BY <1>5 DEF PortalCrash, LoneRequest
<1> QED
    BY <1>1, <1>2, <1>3, <1>4, <1>5, TableSteps
       DEF CreateNode, MarkOffline, IssueEnrolment, Expire, LoseCredential, Heartbeat, histories

\* A row of the tables that the administrator adds.
LEMMA NewRows ==
    ASSUME TypeOK
    PROVE  /\ \A n \in Nodes : CreateNode(n) => node' \in [Nodes -> Node \cup {None}]
           /\ \A n \in Nodes, e \in Codes : IssueEnrolment(n, e) =>
                code' \in [Codes -> Code \cup {None}]
<1>1. NewNode \in Node /\ \A n \in Nodes : NewCode(n) \in Code
    BY DEF NewNode, Node, Statuses, NewCode, Code
<1> QED
    BY <1>1 DEF CreateNode, IssueEnrolment, TypeOK

\* A node that a heartbeat does not reach for too long.
LEMMA OfflineShape ==
    ASSUME TypeOK, NEW n \in Nodes, MarkOffline(n)
    PROVE  /\ node' \in [Nodes -> Node \cup {None}]
           /\ \A m \in Nodes \ {n} : node'[m] = node[m]
           /\ node[n].status = "active"
           /\ node'[n] # None /\ node'[n].fingerprint = node[n].fingerprint
<1>1. node[n] # None /\ "offline" \in Statuses
    BY DEF MarkOffline, Statuses
<1> QED
    BY <1>1, NodeUpdate DEF MarkOffline

\* The statements of a request keep the types of what they write.
LEMMA StatementTypes ==
    ASSUME TypeOK, RowsExist, NEW h \in Handlers, Statement(h)
    PROVE  TypeOK'
<1>0. handler' \in [Handlers -> Row \cup {None}]
    BY StatementGoesOn DEF GoesOn
<1>1. CASE Activate(h)
    BY <1>0, <1>1, ActivateEffect DEF TypeOK, histories
<1>2. CASE Consume(h)
    <2>1. /\ code[handler[h].code] # None /\ handler[h].code \in Codes
          /\ code' = Consumed(handler[h].code) /\ UNCHANGED <<node, token, credential, histories>>
        BY <1>2, ConsumeEffect DEF At, RowsExist
    <2> QED
        BY <1>0, <2>1, CodeUpdate DEF TypeOK, histories
<1>3. CASE RetireTokens(h)
    BY <1>0, <1>3, RetireEffect, TokensEnded DEF TypeOK
<1>4. CASE RevokeNode(h)
    BY <1>0, <1>4, RevokeNodeEffect DEF TypeOK
<1>5. CASE RevokeTokens(h)
    BY <1>0, <1>5, RevokeTokensEffect, TokensEnded DEF TypeOK, histories
<1>6. ASSUME NEW t \in Tokens, InsertToken(h, t)
      PROVE  TypeOK'
    BY <1>0, <1>6, InsertEffect DEF TypeOK, histories
<1>7. CASE GiveUp(h)
    BY <1>0, <1>7, GiveUpEffect DEF TypeOK, histories
<1> QED
    BY <1>1, <1>2, <1>3, <1>4, <1>5, <1>6, <1>7 DEF Statement

LEMMA StepTypes ==
    ASSUME TypeOK, RowsExist, EnrolNext
    PROVE  TypeOK'
<1>1. ASSUME NEW n \in Nodes, CreateNode(n)
      PROVE  TypeOK'
    BY <1>1, NewRows DEF CreateNode, TypeOK, histories
<1>2. ASSUME NEW n \in Nodes, MarkOffline(n)
      PROVE  TypeOK'
    BY <1>2, OfflineShape DEF MarkOffline, TypeOK, histories
<1>3. ASSUME NEW n \in Nodes, NEW e \in Codes, IssueEnrolment(n, e)
      PROVE  TypeOK'
    BY <1>3, NewRows DEF IssueEnrolment, TypeOK, histories
<1>4. ASSUME NEW e \in Codes, Expire(e)
      PROVE  TypeOK'
    BY <1>4, CodeUpdate DEF Expire, TypeOK, histories
<1>5. ASSUME NEW m \in Machines, LoseCredential(m)
      PROVE  TypeOK'
    BY <1>5 DEF LoseCredential, TypeOK, histories
<1>6. ASSUME NEW m \in Machines, Heartbeat(m)
      PROVE  TypeOK'
    BY <1>6, HeartbeatShape DEF Heartbeat, TypeOK, histories
<1>7. ASSUME NEW n \in Nodes, NEW h \in Handlers, Rotate(h, n) \/ Revoke(h, n)
      PROVE  TypeOK'
    BY <1>7, AdminStartEffect DEF TypeOK
<1>8. ASSUME NEW m \in Machines, NEW h \in Handlers, NEW e \in Codes, Register(h, m, e)
      PROVE  TypeOK'
    <2>1. /\ code[e].node \in Nodes
          /\ handler' \in [Handlers -> Row \cup {None}]
          /\ mixed' \in {mixed, mixed \cup {code[e].node}}
          /\ contested' \in {contested, contested \cup {code[e].node}}
          /\ reused' \in {reused, reused \cup {e}}
        BY <1>8, RegisterEffect
    <2>2. UNCHANGED <<node, code, token, credential, withdrawn>>
        BY <1>8, RegisterEffect
    <2> QED
        BY <2>1, <2>2 DEF TypeOK
<1>9. CASE PortalCrash
    BY <1>9 DEF PortalCrash, TypeOK, histories
<1> QED
    BY <1>1, <1>2, <1>3, <1>4, <1>5, <1>6, <1>7, <1>8, <1>9, StatementTypes, TableSteps

\* Tokens: only an insertion makes an active one.
LEMMA StepLoneToken ==
    ASSUME TypeOK, RowsExist, LoneRequest, LoneToken, EnrolNext
    PROVE  LoneToken'
<1>1. ASSUME NEW h \in Handlers, RetireTokens(h)
      PROVE  LoneToken'
    <2> DEFINE k == handler[h].node
    <2>0. k \in Nodes /\ token' = Ended(k, "rotated") /\ Continues(h, "insert")
        BY <1>1, RetireEffect
    <2> HIDE DEF k
    <2>1. \A n \in Nodes : ActiveTokens(n)' \subseteq ActiveTokens(n) \ ActiveTokens(k)
        <3>1. \A t \in Tokens :
                /\ token'[t] = None <=> token[t] = None
                /\ token[t] # None =>
                    /\ token'[t].node = token[t].node
                    /\ token'[t].status = "active" =>
                        token[t].status = "active" /\ token[t].node # k
            BY <2>0, TokensEnded
        <3> QED
            BY <3>1 DEF ActiveTokens
    <2>2. \A g \in Handlers : At(g, "insert")' =>
            \/ g = h
            \/ At(g, "insert") /\ handler'[g] = handler[g]
        BY <2>0 DEF Continues, At
    <2>3. handler'[h].node = k /\ (mixed' = mixed \/ mixed' = mixed \ {k})
        BY <1>1, RetireEffect DEF Continues, k
    <2> QED
        BY <2>1, <2>2, <2>3 DEF LoneToken
<1>2. ASSUME NEW h \in Handlers, RevokeTokens(h)
      PROVE  LoneToken'
    <2>1. \A n \in Nodes : ActiveTokens(n)' \subseteq ActiveTokens(n)
        BY <1>2, RevokeTokensEffect, TokensEnded DEF ActiveTokens
    <2>2. \A g \in Handlers : At(g, "insert")' => At(g, "insert") /\ handler'[g] = handler[g]
        BY <1>2, RevokeTokensEffect DEF Finishes, At
    <2> QED
        BY <1>2, <2>1, <2>2, RevokeTokensEffect DEF LoneToken, histories
<1>3. ASSUME NEW h \in Handlers, NEW t \in Tokens, InsertToken(h, t)
      PROVE  LoneToken'
    <2> DEFINE k == handler[h].node
               new == NewToken(k, handler[h].code)
    <2>1. /\ At(h, "insert") /\ k \in Nodes /\ mixed' = mixed /\ token[t] = None
          /\ token' = [token EXCEPT ![t] = new] /\ new.node = k
          /\ token \in [Tokens -> Token \cup {None}]
        BY <1>3, InsertEffect DEF histories, NewToken, TypeOK
    <2> HIDE DEF new
    <2>2. \A n \in Nodes : ActiveTokens(n)' \subseteq ActiveTokens(n) \cup (IF n = k THEN {t} ELSE {})
        BY <2>1 DEF ActiveTokens
    <2>3. \A g \in Handlers : At(g, "insert")' =>
            g # h /\ At(g, "insert") /\ handler'[g] = handler[g]
        BY <1>3, InsertEffect DEF Finishes, At
    <2>4. k \in mixed \/ ActiveTokens(k) = {}
        BY <2>1 DEF LoneToken
    <2>5. k \in mixed \/ \A g \in Handlers \ {h} : handler[g] = None \/ handler[g].node # k
        BY <2>1 DEF LoneRequest, At
    <2>6. ASSUME NEW n \in Nodes \ mixed
          PROVE  /\ \A a, b \in ActiveTokens(n)' : a = b
                 /\ \A g \in Handlers :
                        At(g, "insert")' /\ handler'[g].node = n => ActiveTokens(n)' = {}
        <3>1. CASE n = k
            BY <2>1, <2>2, <2>3, <2>4, <2>5, <3>1 DEF At
        <3>2. CASE n # k
            BY <2>2, <2>3, <3>2 DEF LoneToken
        <3> QED
            BY <3>1, <3>2
    <2> QED
        BY <2>1, <2>6 DEF LoneToken
<1>4. ASSUME token' = token, mixed \subseteq mixed',
             \A g \in Handlers : At(g, "insert")' =>
                At(g, "insert") /\ handler'[g].node = handler[g].node
      PROVE  LoneToken'
    BY <1>4 DEF LoneToken, ActiveTokens
<1>5. ASSUME NEW h \in Handlers,
             Activate(h) \/ Consume(h) \/ RevokeNode(h) \/ GiveUp(h)
      PROVE  LoneToken'
    <2>1. /\ token' = token /\ mixed' = mixed
          /\ \E pc : Continues(h, pc) /\ (pc = "insert" => At(h, "insert"))
        BY <1>5, ActivateEffect, ConsumeEffect, RevokeNodeEffect, GiveUpEffect DEF histories, At
    <2> QED
        BY <1>4, <2>1 DEF Continues, At
<1>6. ASSUME NEW n \in Nodes, NEW h \in Handlers, Rotate(h, n) \/ Revoke(h, n)
      PROVE  LoneToken'
    BY <1>4, <1>6, AdminStartEffect DEF At
<1>7. ASSUME NEW m \in Machines, NEW h \in Handlers, NEW e \in Codes, Register(h, m, e)
      PROVE  LoneToken'
    BY <1>4, <1>7, RegisterEffect DEF At
<1>8. CASE PortalCrash
    BY <1>4, <1>8 DEF PortalCrash, At, histories
<1>9. ASSUME UNCHANGED <<handler, token, mixed>>
      PROVE  LoneToken'
    BY <1>4, <1>9 DEF At
<1> QED
    BY <1>1, <1>2, <1>3, <1>5, <1>6, <1>7, <1>8, <1>9, TableSteps
       DEF Statement, CreateNode, MarkOffline, IssueEnrolment, Expire, LoseCredential, Heartbeat,
           histories

\* No step removes a node; only an activation gives it another machine or ends
\* its revocation.  No step takes back what a code was used for.
LEMMA NodesKept ==
    ASSUME TypeOK, RowsExist, EnrolNext, NEW n \in Nodes, node[n] # None
    PROVE  /\ node'[n] # None
           /\ \/ /\ node'[n].fingerprint = node[n].fingerprint
                 /\ node[n].status = "revoked" => node'[n].status = "revoked"
              \/ \E h \in Handlers :
                    /\ Activate(h) /\ handler[h].node = n
                    /\ node'[n].fingerprint = handler[h].machine
<1>1. ASSUME NEW h \in Handlers, Activate(h)
      PROVE  /\ node'[n] # None
             /\ \/ node'[n] = node[n]
                \/ handler[h].node = n /\ node'[n].fingerprint = handler[h].machine
    BY <1>1, ActivateEffect
<1>2. ASSUME NEW h \in Handlers, RevokeNode(h)
      PROVE  /\ node'[n] # None
             /\ node'[n].fingerprint = node[n].fingerprint
             /\ node[n].status = "revoked" => node'[n].status = "revoked"
    BY <1>2, RevokeNodeEffect
<1>3. CASE node' = node
    BY <1>3
<1>4. CASE \E h \in Handlers : Activate(h)
    BY <1>1, <1>4
<1>5. CASE \E h \in Handlers : RevokeNode(h)
    BY <1>2, <1>5
<1>6. ASSUME NEW m \in Nodes, CreateNode(m)
      PROVE  node'[n] = node[n]
    BY <1>6 DEF CreateNode, TypeOK
<1>7. ASSUME NEW m \in Nodes, MarkOffline(m)
      PROVE  /\ node'[n] # None
             /\ node'[n].fingerprint = node[n].fingerprint
             /\ node[n].status = "revoked" => node'[n].status = "revoked"
    BY <1>7, OfflineShape
<1>8. ASSUME NEW m \in Machines, Heartbeat(m)
      PROVE  /\ node'[n] # None
             /\ node'[n].fingerprint = node[n].fingerprint
             /\ node[n].status = "revoked" => node'[n].status = "revoked"
    BY <1>8, HeartbeatShape
<1> QED
    BY <1>3, <1>4, <1>5, <1>6, <1>7, <1>8, TableSteps
       DEF Statement, Consume, RetireTokens, RevokeTokens, InsertToken, GiveUp, IssueEnrolment,
           Expire, LoseCredential, Rotate, Revoke, AdminStart, Register, PortalCrash

LEMMA CodesKept ==
    ASSUME TypeOK, RowsExist, EnrolNext, NEW e \in Codes
    PROVE  /\ code[e] # None =>
                /\ code'[e] # None /\ code'[e].node = code[e].node
                /\ code[e].status = "consumed" => code'[e].status = "consumed"
           /\ code[e] = None /\ code'[e] # None =>
                code'[e].node \in Nodes /\ node[code'[e].node] # None
<1>1. ASSUME NEW n \in Nodes, NEW f \in Codes, IssueEnrolment(n, f)
      PROVE  /\ code[f] = None /\ node[n] # None
             /\ code'[f].node = n /\ \A g \in Codes \ {f} : code'[g] = code[g]
    <2>1. code' = [code EXCEPT ![f] = NewCode(n)] /\ NewCode(n).node = n
        BY <1>1 DEF IssueEnrolment, NewCode
    <2> QED
        BY <1>1, <2>1 DEF IssueEnrolment, TypeOK
<1>2. ASSUME NEW f \in Codes, Expire(f)
      PROVE  /\ code'[f] # None /\ code'[f].node = code[f].node
             /\ code'[f].status \in {code[f].status, "consumed"} /\ code[f] # None
             /\ \A g \in Codes \ {f} : code'[g] = code[g]
    BY <1>2, CodeUpdate DEF Expire
<1>3. ASSUME NEW h \in Handlers, Consume(h)
      PROVE  \E f \in Codes :
                /\ code'[f] # None /\ code'[f].node = code[f].node
                /\ code'[f].status \in {code[f].status, "consumed"} /\ code[f] # None
                /\ \A g \in Codes \ {f} : code'[g] = code[g]
    <2>1. /\ handler[h].code \in Codes /\ code[handler[h].code] # None
          /\ code' = Consumed(handler[h].code)
        BY <1>3, ConsumeEffect DEF At, RowsExist
    <2> QED
        BY <2>1, CodeUpdate
<1>4. CASE code' = code
    BY <1>4
<1>5. CASE \E n \in Nodes, f \in Codes : IssueEnrolment(n, f)
    BY <1>1, <1>5
<1>6. CASE \E f \in Codes : Expire(f)
    BY <1>2, <1>6
<1>7. CASE \E h \in Handlers : Consume(h)
    BY <1>3, <1>7
<1> QED
    BY <1>4, <1>5, <1>6, <1>7, TableSteps
       DEF Statement, Activate, RetireTokens, RevokeNode, RevokeTokens, InsertToken, GiveUp,
           CreateNode, MarkOffline, LoseCredential, Heartbeat, Rotate, Revoke, AdminStart, Register,
           PortalCrash

LEMMA InsertedOne ==
    ASSUME TypeOK, NEW h \in Handlers, NEW t \in Tokens, InsertToken(h, t)
    PROVE  /\ token[t] = None /\ \A s \in Tokens \ {t} : token'[s] = token[s]
           /\ token'[t].node = handler[h].node /\ token'[t].code = handler[h].code
<1> DEFINE new == NewToken(handler[h].node, handler[h].code)
<1>1. token[t] = None /\ token' = [token EXCEPT ![t] = new]
    BY InsertEffect
<1>2. new.node = handler[h].node /\ new.code = handler[h].code
    BY DEF NewToken
<1> HIDE DEF new
<1> QED
    BY <1>1, <1>2 DEF TypeOK

\* Tokens keep their node and their code, and a new one takes them from its request.
LEMMA TokensKept ==
    ASSUME TypeOK, RowsExist, EnrolNext, NEW t \in Tokens
    PROVE  /\ token[t] # None =>
                token'[t] # None /\ token'[t].node = token[t].node /\ token'[t].code = token[t].code
           /\ token[t] = None /\ token'[t] # None =>
                \E h \in Handlers :
                    /\ InsertToken(h, t)
                    /\ token'[t].node = handler[h].node /\ token'[t].code = handler[h].code
<1>1. CASE token' = token
    BY <1>1
<1>2. ASSUME NEW h \in Handlers, RetireTokens(h) \/ RevokeTokens(h)
      PROVE  /\ token'[t] = None <=> token[t] = None
             /\ token[t] # None => token'[t].node = token[t].node /\ token'[t].code = token[t].code
    <2>1. handler[h].node \in Nodes /\ \E s \in {"rotated", "revoked"} : token' = Ended(handler[h].node, s)
        BY <1>2, RetireEffect, RevokeTokensEffect
    <2> QED
        BY <2>1, TokensEnded
<1>3. ASSUME NEW h \in Handlers, NEW u \in Tokens, InsertToken(h, u)
      PROVE  /\ token[u] = None /\ \A s \in Tokens \ {u} : token'[s] = token[s]
             /\ token'[u].node = handler[h].node /\ token'[u].code = handler[h].code
    BY <1>3, InsertedOne
<1>4. CASE \E h \in Handlers : RetireTokens(h) \/ RevokeTokens(h)
    BY <1>2, <1>4
<1>5. CASE \E h \in Handlers, u \in Tokens : InsertToken(h, u)
    BY <1>3, <1>5
<1> QED
    BY <1>1, <1>4, <1>5, TableSteps
       DEF Statement, Activate, Consume, RevokeNode, GiveUp, CreateNode, MarkOffline,
           IssueEnrolment, Expire, LoseCredential, Heartbeat, Rotate, Revoke, AdminStart, Register,
           PortalCrash

\* Requests keep what they are about, and a new one starts on rows that exist.
LEMMA RequestsKept ==
    ASSUME TypeOK, RowsExist, EnrolNext, NEW h \in Handlers, handler'[h] # None
    PROVE  \/ /\ handler[h] # None
              /\ handler'[h].op = handler[h].op /\ handler'[h].node = handler[h].node
              /\ handler'[h].code = handler[h].code /\ handler'[h].machine = handler[h].machine
              /\ \/ handler'[h].pc = handler[h].pc
                 \/ Activate(h) /\ handler'[h].pc = "consume"
                 \/ Consume(h) /\ handler'[h].pc = "retire"
                 \/ RetireTokens(h) /\ handler'[h].pc = "insert"
                 \/ RevokeNode(h) /\ handler'[h].pc = "tokens"
           \/ \E n \in Nodes :
                /\ Rotate(h, n) \/ Revoke(h, n)
                /\ handler'[h].op # "register" /\ handler'[h].node = n
                /\ handler'[h].pc \in {"retire", "node"}
           \/ \E m \in Machines, e \in Codes :
                /\ Register(h, m, e)
                /\ handler'[h].op = "register" /\ handler'[h].node = code[e].node
                /\ handler'[h].pc = "activate"
                /\ handler'[h].code = e /\ handler'[h].machine = m
<1>1. ASSUME NEW g \in Handlers, Statement(g)
      PROVE  /\ handler[h] # None
             /\ handler'[h].op = handler[h].op /\ handler'[h].node = handler[h].node
             /\ handler'[h].code = handler[h].code /\ handler'[h].machine = handler[h].machine
             /\ h # g => handler'[h] = handler[h]
    BY <1>1, StatementGoesOn DEF GoesOn
<1>2. ASSUME Statement(h)
      PROVE  \/ handler'[h].pc = handler[h].pc
             \/ Activate(h) /\ handler'[h].pc = "consume"
             \/ Consume(h) /\ handler'[h].pc = "retire"
             \/ RetireTokens(h) /\ handler'[h].pc = "insert"
             \/ RevokeNode(h) /\ handler'[h].pc = "tokens"
    BY <1>2, ActivateEffect, ConsumeEffect, RetireEffect, RevokeNodeEffect, RevokeTokensEffect,
       InsertEffect, GiveUpEffect DEF Statement, Continues, Finishes
<1>3. CASE \E g \in Handlers : Statement(g)
    BY <1>1, <1>2, <1>3
<1>4. ASSUME NEW n \in Nodes, NEW g \in Handlers, Rotate(g, n) \/ Revoke(g, n)
      PROVE  \/ handler'[h] = handler[h]
             \/ h = g /\ handler'[h].op # "register" /\ handler'[h].node = n
                /\ handler'[h].pc \in {"retire", "node"}
    BY <1>4, AdminStartEffect
<1>5. ASSUME NEW m \in Machines, NEW g \in Handlers, NEW e \in Codes, Register(g, m, e)
      PROVE  \/ handler'[h] = handler[h]
             \/ /\ h = g /\ handler'[h].op = "register" /\ handler'[h].node = code[e].node
                /\ handler'[h].pc = "activate"
                /\ handler'[h].code = e /\ handler'[h].machine = m
    BY <1>5, RegisterEffect
<1>6. CASE handler' = handler
    BY <1>6
<1>7. CASE \E n \in Nodes, g \in Handlers : Rotate(g, n) \/ Revoke(g, n)
    BY <1>4, <1>7
<1>8. CASE \E m \in Machines, g \in Handlers, e \in Codes : Register(g, m, e)
    BY <1>5, <1>8
<1>9. CASE PortalCrash
    BY <1>9 DEF PortalCrash
<1> QED
    BY <1>3, <1>6, <1>7, <1>8, <1>9, TableSteps
       DEF CreateNode, MarkOffline, IssueEnrolment, Expire, LoseCredential, Heartbeat

\* The codes used twice at once only grow in number; so does what is withdrawn.
LEMMA HistoriesGrow ==
    ASSUME EnrolNext
    PROVE  reused \subseteq reused' /\ withdrawn \subseteq withdrawn'
BY DEF EnrolNext, AdminStep, HandlerStep, AgentStep, CreateNode, MarkOffline, IssueEnrolment, Expire,
       LoseCredential, Heartbeat, Rotate, Revoke, AdminStart, Register, PortalCrash, Activate, Consume,
       RetireTokens, RevokeNode, RevokeTokens, InsertToken, GiveUp, histories

LEMMA StepRowsExist ==
    ASSUME TypeOK, RowsExist, EnrolNext
    PROVE  RowsExist'
<1>1. ASSUME NEW e \in Codes, code'[e] # None
      PROVE  node'[code'[e].node] # None
    <2>1. code[e] # None => code[e].node \in Nodes
        BY EnrolmentAssumption DEF TypeOK, Code
    <2> QED
        BY <1>1, <2>1, NodesKept, CodesKept DEF RowsExist
<1>2. ASSUME NEW t \in Tokens, token'[t] # None
      PROVE  node'[token'[t].node] # None
    <2>1. token[t] # None => token[t].node \in Nodes
        BY EnrolmentAssumption DEF TypeOK, Token
    <2>2. \A h \in Handlers : InsertToken(h, t) => handler[h] # None /\ handler[h].node \in Nodes
        BY InsertEffect DEF At
    <2> QED
        BY <1>2, <2>1, <2>2, NodesKept, TokensKept DEF RowsExist
<1>3. ASSUME NEW h \in Handlers, handler'[h] # None
      PROVE  /\ node'[handler'[h].node] # None
             /\ handler'[h].op = "register" =>
                    /\ code'[handler'[h].code] # None
                    /\ code'[handler'[h].code].node = handler'[h].node
    <2>1. CASE /\ handler[h] # None
               /\ handler'[h].op = handler[h].op /\ handler'[h].node = handler[h].node
               /\ handler'[h].code = handler[h].code
        <3>1. /\ handler[h].node \in Nodes /\ node[handler[h].node] # None
              /\ handler[h].op = "register" => handler[h].code \in Codes
            BY <2>1, RowShape DEF RowsExist
        <3> QED
            BY <2>1, <3>1, NodesKept, CodesKept DEF RowsExist
    <2>2. ASSUME NEW n \in Nodes, Rotate(h, n) \/ Revoke(h, n), handler'[h].op # "register",
                 handler'[h].node = n
          PROVE  node'[n] # None
        BY <2>2, AdminStartEffect
    <2>3. ASSUME NEW m \in Machines, NEW e \in Codes, Register(h, m, e),
                 handler'[h].node = code[e].node, handler'[h].code = e
          PROVE  /\ node'[handler'[h].node] # None
                 /\ code'[e] # None /\ code'[e].node = handler'[h].node
        BY <2>3, RegisterEffect DEF RowsExist
    <2> QED
        BY <1>3, <2>1, <2>2, <2>3, RequestsKept
<1> QED
    BY <1>1, <1>2, <1>3 DEF RowsExist

LEMMA StepWithdrawn ==
    ASSUME TypeOK, RowsExist, WithdrawnStays, EnrolNext
    PROVE  WithdrawnStays'
<1>1. ASSUME NEW n \in withdrawn
      PROVE  /\ node'[n] # None /\ node'[n].status = "revoked"
             /\ \A h \in Handlers : At(h, "activate")' => handler'[h].node # n
    <2>1. n \in Nodes /\ node[n] # None /\ node[n].status = "revoked"
        BY DEF WithdrawnStays, TypeOK
    <2>2. \A h \in Handlers : Activate(h) => handler[h].node # n
        BY DEF WithdrawnStays, Activate
    <2>3. ASSUME NEW h \in Handlers, At(h, "activate")'
          PROVE  handler'[h].node # n
        <3>1. ASSUME NEW m \in Machines, NEW e \in Codes, Register(h, m, e)
              PROVE  code[e].node # n
            BY <2>1, <3>1, RegisterEffect DEF Enrollable
        <3> QED
            BY <2>3, <3>1, RequestsKept DEF WithdrawnStays, At
    <2> QED
        BY <2>1, <2>2, <2>3, NodesKept
<1>2. ASSUME NEW n \in withdrawn', n \notin withdrawn
      PROVE  /\ node'[n] # None /\ node'[n].status = "revoked"
             /\ \A h \in Handlers : At(h, "activate")' => handler'[h].node # n
    <2>1. PICK h \in Handlers : RevokeNode(h)
        BY <1>2 DEF EnrolNext, AdminStep, HandlerStep, AgentStep, CreateNode, MarkOffline,
                    IssueEnrolment, Expire, LoseCredential, Heartbeat, Rotate, Revoke, AdminStart,
                    Register, PortalCrash, Activate, Consume, RetireTokens, RevokeTokens,
                    InsertToken, GiveUp, histories
    <2>2. n = handler[h].node /\ Others(h, n) = {}
        BY <1>2, <2>1, RevokeNodeEffect
    <2>3. \A g \in Handlers : At(g, "activate")' => g # h /\ handler'[g] = handler[g]
        BY <2>1, RevokeNodeEffect DEF Continues, At
    <2> QED
        BY <2>1, <2>2, <2>3, RevokeNodeEffect DEF Others, At
<1> QED
    BY <1>1, <1>2 DEF WithdrawnStays

\* A contest ends with the last write of a fingerprint, or with every request.
LEMMA ContestStays ==
    ASSUME EnrolNext, NEW n \in contested, n \notin contested'
    PROVE  \/ PortalCrash
           \/ \E g \in Handlers :
                /\ Activate(g) /\ handler[g].node = n
                /\ Rivals(g, n, handler[g].machine) = {}
BY DEF EnrolNext, AdminStep, HandlerStep, AgentStep, CreateNode, MarkOffline, IssueEnrolment, Expire,
       LoseCredential, Heartbeat, Rotate, Revoke, AdminStart, Register, Activate, Consume,
       RetireTokens, RevokeNode, RevokeTokens, InsertToken, GiveUp, histories

\* A registration about to write its fingerprint has just been admitted, or
\* was there before.
LEMMA ActivateKept ==
    ASSUME TypeOK, RowsExist, EnrolNext, NEW h \in Handlers, At(h, "activate")'
    PROVE  \/ /\ At(h, "activate") /\ handler'[h].node = handler[h].node
              /\ handler'[h].machine = handler[h].machine
              /\ ~Activate(h)
           \/ \E m \in Machines, e \in Codes :
                Register(h, m, e) /\ handler'[h].node = code[e].node /\ handler'[h].machine = m
<1>1. ~Activate(h)
    BY ActivateEffect DEF Continues, At
<1>2. ASSUME NEW m \in Machines, NEW e \in Codes, Register(h, m, e)
      PROVE  handler'[h].node = code[e].node /\ handler'[h].machine = m
    BY <1>2, RegisterEffect
<1> QED
    BY <1>1, <1>2, RequestsKept DEF At

LEMMA StepContest ==
    ASSUME TypeOK, RowsExist, Contest, EnrolNext
    PROVE  Contest'
<1> SUFFICES ASSUME NEW g \in Handlers, NEW h \in Handlers, At(g, "activate")', At(h, "activate")',
                    handler'[g].node = handler'[h].node, handler'[g].machine # handler'[h].machine,
                    handler'[g].node \notin contested'
             PROVE  FALSE
    BY DEF Contest
<1>1. ASSUME NEW k \in Handlers, NEW l \in Handlers, NEW m \in Machines, NEW e \in Codes,
             Register(k, m, e), At(l, "activate")', handler'[l].node = handler'[k].node,
             handler'[l].machine # handler'[k].machine
      PROVE  handler'[k].node \in contested'
    <2>1. /\ handler'[k].node = code[e].node /\ handler'[k].machine = m
          /\ l # k /\ handler'[l] = handler[l]
        BY <1>1, RegisterEffect
    <2>2. l \in Rivals(k, code[e].node, m)
        BY <1>1, <2>1 DEF Rivals, At
    <2> QED
        BY <1>1, <2>1, <2>2, RegisterEffect
<1>2. CASE /\ At(g, "activate") /\ handler'[g].node = handler[g].node
           /\ handler'[g].machine = handler[g].machine /\ ~Activate(g)
           /\ At(h, "activate") /\ handler'[h].node = handler[h].node
           /\ handler'[h].machine = handler[h].machine /\ ~Activate(h)
    <2>1. handler[g].node \in contested
        BY <1>2 DEF Contest
    <2>2. ~PortalCrash
        BY DEF PortalCrash, At
    <2>3. PICK k \in Handlers : /\ Activate(k) /\ handler[k].node = handler[g].node
                                /\ Rivals(k, handler[g].node, handler[k].machine) = {}
        BY <1>2, <2>1, <2>2, ContestStays
    <2> QED
        BY <1>2, <2>3 DEF Rivals
<1> QED
    BY <1>1, <1>2, ActivateKept

LEMMA StepSameMachine ==
    ASSUME TypeOK, RowsExist, Contest, SameMachine, EnrolNext
    PROVE  SameMachine'
<1> SUFFICES ASSUME NEW h \in Handlers, At(h, "activate")', handler'[h].node \notin contested'
             PROVE  node'[handler'[h].node].fingerprint \in {None, handler'[h].machine}
    BY DEF SameMachine, SameIdentity, At
<1>1. ASSUME NEW m \in Machines, NEW e \in Codes, Register(h, m, e)
      PROVE  SameIdentity(code[e].node, m) /\ node' = node
    BY <1>1, RegisterEffect
<1>2. CASE /\ At(h, "activate") /\ handler'[h].node = handler[h].node
           /\ handler'[h].machine = handler[h].machine /\ ~Activate(h)
    <2> DEFINE n == handler[h].node
    <2>1. n \in Nodes /\ node[n] # None
        BY <1>2, RowShape DEF At, RowsExist
    <2>2. ASSUME NEW g \in Handlers, Activate(g), handler[g].node = n
          PROVE  node'[n].fingerprint = handler[h].machine
        <3>1. At(g, "activate") /\ node'[n].fingerprint = handler[g].machine /\ g # h
            BY <1>2, <2>2, ActivateEffect
        <3>2. CASE n \in contested
            <4>1. ~PortalCrash
                BY DEF PortalCrash, At
            <4>2. PICK k \in Handlers : /\ Activate(k) /\ handler[k].node = n
                                        /\ Rivals(k, n, handler[k].machine) = {}
                BY <1>2, <3>2, <4>1, ContestStays
            <4>3. node'[n].fingerprint = handler[k].machine /\ k # h
                BY <1>2, <4>2, ActivateEffect
            <4> QED
                BY <1>2, <4>2, <4>3 DEF Rivals
        <3>3. CASE n \notin contested
            BY <1>2, <2>2, <3>1, <3>3 DEF Contest
        <3> QED
            BY <3>2, <3>3
    <2>3. ASSUME \A g \in Handlers : Activate(g) => handler[g].node # n
          PROVE  n \notin contested /\ node'[n].fingerprint = node[n].fingerprint
        <3>1. ~PortalCrash
            BY DEF PortalCrash, At
        <3> QED
            BY <1>2, <2>1, <2>3, <3>1, ContestStays, NodesKept
    <2> QED
        BY <1>2, <2>2, <2>3 DEF SameMachine, SameIdentity
<1> QED
    BY <1>1, <1>2, ActivateKept DEF SameIdentity

LEMMA StepCodeUsed ==
    ASSUME TypeOK, LoneRequest, RowsExist, CodeUsed, EnrolNext
    PROVE  CodeUsed'
<1>1. ASSUME NEW h \in Handlers, NEW t \in Tokens, InsertToken(h, t)
      PROVE  /\ handler[h] # None /\ handler[h].pc = "insert" /\ handler'[h] = None
             /\ handler[h].code # None => handler[h].op = "register" /\ handler[h].code \in Codes
    BY <1>1, InsertEffect, RowShape DEF At, Finishes
<1>2. ASSUME NEW t \in Tokens, token[t] # None, token[t].code # None
      PROVE  token[t].code \in Codes
    BY <1>2, EnrolmentAssumption DEF TypeOK, Token
<1>3. ASSUME NEW t \in Tokens, token'[t] # None, token'[t].code # None
      PROVE  code'[token'[t].code] # None /\ code'[token'[t].code].status = "consumed"
    <2>1. CASE token[t] # None
        BY <1>2, <1>3, <2>1, TokensKept, CodesKept DEF CodeUsed
    <2>2. ASSUME NEW h \in Handlers, InsertToken(h, t), token'[t].code = handler[h].code
          PROVE  code'[token'[t].code] # None /\ code'[token'[t].code].status = "consumed"
        BY <1>1, <1>3, <2>2, CodesKept DEF CodeUsed, RowsExist
    <2> QED
        BY <1>3, <2>1, <2>2, TokensKept
<1>4. ASSUME NEW h \in Handlers, handler'[h] # None, handler'[h].op = "register",
             handler'[h].pc \in {"retire", "insert"}
      PROVE  code'[handler'[h].code].status = "consumed"
    <2>1. /\ handler[h] # None /\ handler[h].op = "register" /\ handler'[h].code = handler[h].code
          /\ \/ handler[h].pc \in {"retire", "insert"}
             \/ Consume(h)
        BY <1>4, RequestsKept, RetireEffect DEF At
    <2>2. handler[h].code \in Codes /\ code[handler[h].code] # None
        BY <2>1, RowShape DEF RowsExist
    <2>3. Consume(h) => code'[handler[h].code].status = "consumed"
        BY <2>2, ConsumeEffect, CodeUpdate
    <2> QED
        BY <2>1, <2>2, <2>3, CodesKept DEF CodeUsed
<1>5. ASSUME NEW h \in Handlers, handler'[h] # None, handler'[h].op = "register",
             NEW t \in Tokens, token'[t] # None, token'[t].code = handler'[h].code
      PROVE  token'[t].code \in reused'
    <2>1. ASSUME NEW m \in Machines, NEW e \in Codes, Register(h, m, e), handler'[h].code = e
          PROVE  FALSE
        <3>1. token' = token /\ code[e].status = "issued" /\ e # None
            BY <2>1, RegisterEffect, EnrolmentAssumption
        <3> QED
            BY <1>5, <2>1, <3>1 DEF CodeUsed
    <2>2. /\ handler[h] # None /\ handler[h].op = "register" /\ handler'[h].code = handler[h].code
          /\ handler[h].code # None /\ handler[h].code \in Codes
        BY <1>5, <2>1, RequestsKept, RowShape
    <2>3. CASE token[t] # None
        BY <1>5, <2>2, <2>3, TokensKept, HistoriesGrow DEF CodeUsed
    <2>4. ASSUME NEW g \in Handlers, InsertToken(g, t), token'[t].code = handler[g].code
          PROVE  token'[t].code \in reused
        <3>1. /\ g # h /\ handler[g] # None /\ handler[g].op = "register"
              /\ handler[g].code = handler[h].code
            BY <1>1, <1>5, <2>2, <2>4
        <3> QED
            BY <2>2, <2>4, <3>1 DEF LoneRequest, RowsExist
    <2> QED
        BY <1>5, <2>3, <2>4, TokensKept, HistoriesGrow
<1>6. ASSUME NEW s \in Tokens, NEW t \in Tokens, token'[s] # None, token'[t] # None,
             token'[s].code = token'[t].code, token'[s].code # None, s # t
      PROVE  token'[s].code \in reused'
    <2>1. CASE token[s] # None /\ token[t] # None
        BY <1>6, <2>1, TokensKept, HistoriesGrow DEF CodeUsed
    <2>2. ASSUME NEW a \in Tokens, NEW b \in Tokens, token[a] # None, token[b] = None,
                 token'[b] # None, token'[a].code = token'[b].code, token'[a].code # None
          PROVE  token'[a].code \in reused'
        <3>1. PICK h \in Handlers : InsertToken(h, b) /\ token'[b].code = handler[h].code
            BY <2>2, TokensKept
        <3>2. token'[a].code = token[a].code
            BY <2>2, TokensKept
        <3> QED
            BY <1>1, <2>2, <3>1, <3>2, HistoriesGrow DEF CodeUsed
    <2>3. token[s] # None \/ token[t] # None
        <3>1. ASSUME NEW h \in Handlers, InsertToken(h, s)
              PROVE  token'[t] = token[t]
            BY <1>6, <3>1, InsertedOne
        <3> QED
            BY <1>6, <3>1, TokensKept
    <2> QED
        BY <1>6, <2>1, <2>2, <2>3
<1> QED
    BY <1>3, <1>4, <1>5, <1>6 DEF CodeUsed

\* EnrolInv is an invariant.
LEMMA EnrolInvariant == EnrolSpec => []EnrolInv
<1>1. ASSUME EnrolInv, [EnrolNext]_enrolVars
      PROVE  EnrolInv'
    <2>1. CASE UNCHANGED enrolVars
        BY <1>1, <2>1
           DEF enrolVars, EnrolInv, TypeOK, LoneRequest, LoneToken, WithdrawnStays, RowsExist,
               CodeUsed, Contest, SameMachine, SameIdentity, At, ActiveTokens
    <2>2. CASE EnrolNext
        BY <1>1, <2>2, StepTypes, StepLoneRequest, StepLoneToken, StepWithdrawn, StepRowsExist,
           StepCodeUsed, StepContest, StepSameMachine
           DEF EnrolInv
    <2> QED
        BY <1>1, <2>1, <2>2
<1> QED
    BY <1>1, InitEnrolInv, PTL DEF EnrolSpec

-----------------------------------------------------------------------------
\* A node has one active token at most, for any number of machines, codes and
\* requests, unless two requests for it met and no rotation alone came since.
THEOREM NodesHaveOneToken == EnrolSpec => []OneActiveToken
<1>1. EnrolInv => OneActiveToken
    <2> SUFFICES ASSUME EnrolInv, NEW n \in Nodes \ mixed
                 PROVE  ~(Cardinality(ActiveTokens(n)) > 1)
        BY DEF EnrolInv, OneActiveToken
    <2> QED
        BY OneOrNone DEF EnrolInv, LoneToken
<1> QED
    BY <1>1, EnrolInvariant, PTL

\* No token of a node revoked while nothing else was under way on it is ever
\* served again, though its tokens may never have been revoked.
THEOREM RevokedNodesAreOut == EnrolSpec => []RevokedNotServed
<1>1. EnrolInv => RevokedNotServed
    BY DEF EnrolInv, RevokedNotServed, WithdrawnStays, Serves
<1> QED
    BY <1>1, EnrolInvariant, PTL

\* A code yields one token at most, wherever the portal stopped, unless two
\* registrations with it were under way at once.
THEOREM CodesYieldOneToken == EnrolSpec => []OneTokenPerCode
<1>1. EnrolInv => OneTokenPerCode
    <2> SUFFICES ASSUME EnrolInv, NEW e \in Codes, e \notin reused
                 PROVE  ~(Cardinality({t \in Tokens : token[t] # None /\ token[t].code = e}) > 1)
        BY DEF OneTokenPerCode
    <2>1. \A s, t \in {u \in Tokens : token[u] # None /\ token[u].code = e} : s = t
        BY EnrolmentAssumption DEF EnrolInv, CodeUsed
    <2> QED
        BY <2>1, OneOrNone
<1> QED
    BY <1>1, EnrolInvariant, PTL

\* A node stays with the machine that registered it first, from the moment the
\* first registrations under way at once have all written their fingerprint.
THEOREM NodesKeepTheirMachine == EnrolSpec => FingerprintKept
<1>1. ASSUME EnrolInv, EnrolNext, NEW n \in Nodes, node[n] # None, node[n].fingerprint # None
      PROVE  node'[n].fingerprint = node[n].fingerprint \/ n \in contested
    <2>1. \A h \in Handlers : Activate(h) /\ handler[h].node = n =>
            n \in contested \/ node[n].fingerprint = handler[h].machine
        BY <1>1, ActivateEffect DEF EnrolInv, SameMachine, SameIdentity
    <2> QED
        BY <1>1, <2>1, NodesKept DEF EnrolInv
<1>2. ASSUME EnrolInv, [EnrolNext]_enrolVars
      PROVE  [\A n \in Nodes : KeepsMachine(n)]_enrolVars
    BY <1>1, <1>2 DEF KeepsMachine
<1> QED
    BY <1>2, EnrolInvariant, PTL DEF EnrolSpec, FingerprintKept
=============================================================================
