---------------------------- MODULE GrpcGrouping ----------------------------
(***************************************************************************)
(* addGrpcClients, getPortFromNodeDefs and GroupGrpcClientsByHostPort      *)
(* (src/grpc_client.go, lines 357-478): which remote pindexes get a gRPC   *)
(* client, on which port, and how clients of one node are merged.  One     *)
(* step is one call, over all inputs of a small range.                     *)
(*                                                                         *)
(* Strings are abstracted: a node's host is the node itself, HostPort is   *)
(* well-formed ("ok") or has no port after its last colon ("noPort"); a    *)
(* bindGRPC / bindGRPCSSL extra is missing ("err"), has no port after its  *)
(* last colon or is not a string ("noPort"), or carries a port ("port").   *)
(* The index name and UUID are the same for every client of one call, so   *)
(* the grouping key host/index/uuid reduces to the HostPort.               *)
(***************************************************************************)
EXTENDS Integers, Sequences, FiniteSets, SequencesExt

CONSTANTS
    Nodes,         \* the NodeDefs of the remote plan pindexes
    MaxEntries,    \* longest remotePlanPIndexes
    OnlyChoices    \* values of onlyPIndexes: <<>> for nil, <<S>> for a map of S

BindForms == {"port", "err", "noPort"}

\* A remote plan pindex is its position i in remotePlanPIndexes, named i.
PIndexes == 1..MaxEntries

NodeDefs == [hostPort : {"ok", "noPort"}, bindGRPC : BindForms,
             bindGRPCSSL : BindForms]

Inputs == [entries : UNION {[1..k -> Nodes] : k \in 0..MaxEntries},
           nodeDef : [Nodes -> NodeDefs],
           only : OnlyChoices,
           encryption : BOOLEAN,        \* ss.EncryptionEnabled
           rpcFails : SUBSET Nodes,     \* getRpcClient errors for the node
           groupByNode : BOOLEAN]

\* A client: HostPort is <<node, port>>, tls says certInBytes was passed.
Client == [hostPort : Nodes \X {"grpc", "grpcSSL"},
           pindexes : Seq(PIndexes), tls : BOOLEAN]

\* What addGrpcClients returns: an error, or the clients in order.
Result == [err : BOOLEAN, clients : Seq(Client)]

NoClients == [err |-> FALSE, clients |-> <<>>]

VARIABLES
    input,   \* the arguments of the call
    called,  \* addGrpcClients has returned
    result,  \* what it returned
    counted  \* what a DocCount on a returned client did: "none" (not yet
             \* called), "returned" (the RPC's count or error) or "panic"

vars == <<input, called, result, counted>>

-----------------------------------------------------------------------------
\* getPortFromNodeDefs: the port after the extra's last colon, or "".
PortFrom(form, port) == IF form = "port" THEN port ELSE ""

\* The port addGrpcClients settles on for a node (lines 380-395): bindGRPC
\* when it is present, overridden by bindGRPCSSL when encryption is on and
\* that extra is present, even when it carries no port.
ChosenPort(in, n) ==
    LET d == in.nodeDef[n] IN
    IF in.encryption /\ d.bindGRPCSSL # "err"
    THEN PortFrom(d.bindGRPCSSL, "grpcSSL")
    ELSE IF d.bindGRPC # "err" THEN PortFrom(d.bindGRPC, "grpc") ELSE ""

UsesCert(in, n) == in.encryption /\ in.nodeDef[n].bindGRPCSSL # "err"

\* Mutant: a missing port is not an error; the client gets an empty port.
EmptyPortAccepted(in, n) == FALSE

\* port == "": addGrpcClients returns nil and an error.
NoPort(in, n) == ChosenPort(in, n) = ""

\* The loop body of addGrpcClients for the i-th remote plan pindex, applied
\* to the clients built so far.  An empty port ends the call.
AddOne(in, acc, i) ==
    LET n == in.entries[i] IN
    CASE acc.err -> acc
      [] in.only # <<>> /\ i \notin in.only[1] -> acc
      [] in.nodeDef[n].hostPort # "ok" -> acc
      [] NoPort(in, n) -> [err |-> TRUE, clients |-> <<>>]
      [] n \in in.rpcFails -> acc
      [] OTHER -> [acc EXCEPT !.clients =
                      Append(@, [hostPort |-> <<n, ChosenPort(in, n)>>,
                                 pindexes |-> <<i>>, tls |-> UsesCert(in, n)])]

RECURSIVE Build(_, _, _)
Build(in, acc, i) ==
    IF i > Len(in.entries) THEN acc ELSE Build(in, AddOne(in, acc, i), i + 1)

\* Mutant: the group is not remembered in m, so no client is merged.
GroupNoRemember(rv, c) ==
    Append(rv, [hostPort |-> c.hostPort, pindexes |-> c.pindexes, tls |-> c.tls])

\* Mutant: a merged client's pindex names replace the group's.
GroupOneOverwrites(rv, c) ==
    LET at == {j \in 1..Len(rv) : rv[j].hostPort = c.hostPort} IN
    IF at = {}
    THEN Append(rv, [hostPort |-> c.hostPort, pindexes |-> c.pindexes,
                     tls |-> c.tls])
    ELSE LET j == CHOOSE j \in at : TRUE IN
         [rv EXCEPT ![j].pindexes = c.pindexes]

\* Mutant: the pindex names appended only when the group already existed.
GroupOneElse(rv, c) ==
    LET at == {j \in 1..Len(rv) : rv[j].hostPort = c.hostPort} IN
    IF at = {}
    THEN Append(rv, [hostPort |-> c.hostPort, pindexes |-> <<>>, tls |-> c.tls])
    ELSE LET j == CHOOSE j \in at : TRUE IN
         [rv EXCEPT ![j].pindexes = @ \o c.pindexes]

\* One iteration of GroupGrpcClientsByHostPort: the first client of a key
\* makes the group (keeping its GrpcCli); every client's pindex names are
\* appended to its group.
GroupOne(rv, c) ==
    LET at == {j \in 1..Len(rv) : rv[j].hostPort = c.hostPort} IN
    IF at = {}
    THEN Append(rv, [hostPort |-> c.hostPort, pindexes |-> c.pindexes,
                     tls |-> c.tls])
    ELSE LET j == CHOOSE j \in at : TRUE IN
         [rv EXCEPT ![j].pindexes = @ \o c.pindexes]

RECURSIVE Group(_, _)
Group(rv, cs) == IF cs = <<>> THEN rv ELSE Group(GroupOne(rv, Head(cs)), Tail(cs))

\* addGrpcClients: the clients of the loop, grouped if asked, as returned.
AddGrpcClients(in) ==
    LET r == Build(in, NoClients, 1) IN
    IF r.err \/ ~in.groupByNode THEN r ELSE [r EXCEPT !.clients = Group(<<>>, @)]

-----------------------------------------------------------------------------
Init ==
    /\ input \in Inputs /\ called = FALSE /\ result = NoClients
    /\ counted = "none"

Call ==
    /\ ~called
    /\ called' = TRUE
    /\ result' = AddGrpcClients(input)
    /\ UNCHANGED <<input, counted>>

\* DocCount on the k-th returned client: the request names
\* g.PIndexNames[0], which panics with an index out of range on a client
\* with no pindex names; otherwise one DocCount RPC, whose count or error
\* is returned and changes no state.
DocCount(k) ==
    /\ called /\ ~result.err /\ counted = "none"
    /\ k \in DOMAIN result.clients
    /\ counted' = IF result.clients[k].pindexes = <<>> THEN "panic" ELSE "returned"
    /\ UNCHANGED <<input, called, result>>

\* Count is DocCount.
Count(k) == DocCount(k)

Next ==
    \/ Call
    \/ \E k \in 1..MaxEntries : DocCount(k) \/ Count(k)
    \/ called /\ UNCHANGED vars

Spec == Init /\ [][Next]_vars

-----------------------------------------------------------------------------
(* The reference: which pindexes the call must serve and where, stated as  *)
(* sets over the input rather than as a loop.                              *)

Selected(in) == {i \in DOMAIN in.entries :
                    /\ in.only = <<>> \/ i \in in.only[1]
                    /\ in.nodeDef[in.entries[i]].hostPort = "ok"}

RefError(in) == \E i \in Selected(in) : NoPort(in, in.entries[i])

RefServed(in) == {<<i, in.entries[i]>> : i \in {i \in Selected(in) :
                                           in.entries[i] \notin in.rpcFails}}

Served(cs) == UNION {{<<i, cs[k].hostPort[1]>> : i \in ToSet(cs[k].pindexes)} :
                     k \in DOMAIN cs}

NumServed(cs) == FoldSeq(LAMBDA c, s : s + Len(c.pindexes), 0, cs)

TypeOK ==
    /\ input \in Inputs
    /\ called \in BOOLEAN
    /\ result \in Result
    /\ counted \in {"none", "returned", "panic"}

\* addGrpcClients fails exactly when a selected pindex's node has no usable
\* port; otherwise every selected pindex whose node got a client is served
\* exactly once, by a client of its own node, and no other pindex is.
ClientsServeSelectedOnce ==
    called =>
        IF RefError(input) THEN result.err
        ELSE /\ ~result.err
             /\ Served(result.clients) = RefServed(input)
             /\ NumServed(result.clients) = Cardinality(RefServed(input))

\* With groupByNode, GroupGrpcClientsByHostPort leaves one client per
\* host/index/uuid and keeps the order in which the keys were first seen;
\* without it each client serves one pindex, in plan order.
GroupsDistinctAndOrdered ==
    LET cs == result.clients IN
    called /\ ~result.err =>
        \A k, l \in DOMAIN cs : k < l =>
            /\ input.groupByNode => cs[k].hostPort # cs[l].hostPort
            /\ ~input.groupByNode => Len(cs[k].pindexes) = 1
            /\ cs[k].pindexes[1] < cs[l].pindexes[1]

\* DocCount and Count never panic on a client that addGrpcClients returned:
\* grouped or not, every client names at least one pindex, so
\* g.PIndexNames[0] (line 100) is in range.
DocCountNeverPanics == counted # "panic"
=============================================================================
