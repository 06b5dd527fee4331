----------------------------- MODULE GrpcSearch -----------------------------
(***************************************************************************)
(* One scatter-gather search through GrpcClient (src/grpc_client.go):      *)
(* SearchInContext, the goroutine it spawns to run Query and SearchRPC,    *)
(* and the context the caller passed.  The remote server's answer is a     *)
(* finite stream of response kinds chosen in Init; Recv after the last    *)
(* one returns io.EOF.  JSON marshalling and the protobuf payloads are     *)
(* abstracted to whether they succeed.                                     *)
(***************************************************************************)
EXTENDS Integers, Sequences, FiniteSets

CONSTANTS
    MaxStream,        \* longest response stream the server sends
    DeadlineLeft,     \* values of deadline.Sub(time.Now()), in ticks
    Overhead,         \* RemoteRequestOverhead, in ticks
    TicksPerMs,       \* ticks per time.Millisecond
    HasStreamHandler, \* g.sc holds a streamHandler
    MarshalMayFail,   \* MarshalJSON of the request may fail
    RpcMayFail        \* GrpcCli.Search may fail without the context

ASSUME /\ MaxStream \in Nat /\ Overhead \in Nat /\ TicksPerMs \in Nat \ {0}
       /\ DeadlineLeft \subseteq Int
       /\ {HasStreamHandler, MarshalMayFail, RpcMayFail} \subseteq BOOLEAN

\* What pb.StreamSearchResults can carry, and Recv's non-EOF error.
Responses == {"hits", "result", "badResult", "recvErr"}

VARIABLES
    cpc,       \* program point of the caller of SearchInContext
    gpc,       \* program point of the spawned goroutine
    ctxDone,   \* ctx.Done() is closed (cancelled or deadline reached)
    stream,    \* responses the server has yet to deliver
    err,       \* SearchRPC's loop variable err: "nil" or the failure it holds
    failed,    \* failures SearchRPC has met so far
    gres,      \* what the goroutine sends on resultCh
    outcome,   \* what SearchInContext returned
    timeout    \* queryCtlParams.Ctl.Timeout sent to the remote, or -1 if none

vars == <<cpc, gpc, ctxDone, stream, err, failed, gres, outcome, timeout>>

NoTimeout == -1

-----------------------------------------------------------------------------
(* The caller: SearchInContext.                                            *)

\* Remaining time check of lines 130-142: hasDeadline is ctx.Deadline()'s
\* ok and left is deadline.Sub(time.Now()).  Too little time left once the
\* overhead is taken off refuses the request.
DeadlineExceeded(hasDeadline, left) == hasDeadline /\ left - Overhead < 0

\* The Ctl.Timeout sent to the remote, in whole milliseconds.
RemoteTimeout(hasDeadline, left) ==
    IF hasDeadline THEN (left - Overhead) \div TicksPerMs ELSE NoTimeout

\* SearchInContext up to the go statement: reject a nil request, refuse an
\* expired deadline, otherwise start the goroutine and select.
SearchInContext(nilReq, hasDeadline, left) ==
    /\ cpc = "start"
    /\ \/ /\ nilReq
          /\ cpc' = "returned" /\ outcome' = "noReq"
          /\ UNCHANGED <<gpc, timeout>>
       \/ /\ ~nilReq /\ DeadlineExceeded(hasDeadline, left)
          /\ cpc' = "returned" /\ outcome' = "deadlineExceeded"
          /\ UNCHANGED <<gpc, timeout>>
       \/ /\ ~nilReq /\ ~DeadlineExceeded(hasDeadline, left)
          /\ timeout' = RemoteTimeout(hasDeadline, left)
          /\ gpc' = "query" /\ cpc' = "select"
          /\ UNCHANGED outcome
    /\ UNCHANGED <<ctxDone, stream, err, failed, gres>>

\* select: the ctx.Done() case.
SelectCtxDone ==
    /\ cpc = "select" /\ ctxDone
    /\ cpc' = "returned" /\ outcome' = "ctxErr"
    /\ UNCHANGED <<gpc, ctxDone, stream, err, failed, gres, timeout>>

\* select: the resultCh case; resultCh is unbuffered, so the goroutine's
\* send and this receive are one step.
SelectResult ==
    /\ cpc = "select" /\ gpc = "send"
    /\ cpc' = "returned" /\ outcome' = gres
    /\ gpc' = "done"
    /\ UNCHANGED <<ctxDone, stream, err, failed, gres, timeout>>

-----------------------------------------------------------------------------
(* The goroutine: g.Query, then g.SearchRPC, then the send on resultCh.    *)

\* Mutant: the error path returns without sending on resultCh.
QueryFailsNoSend(why) ==
    /\ gpc' = "done" /\ gres' = "none"
    /\ failed' = failed \cup {why}

\* Query returned an error: the goroutine will send makeSearchResultErr.
QueryFails(why) ==
    /\ gpc' = "send" /\ gres' = "queryErr"
    /\ failed' = failed \cup {why}

\* Query: the three MarshalJSON calls, the stream flag, the metadata; then
\* SearchRPC's GrpcCli.Search call, which fails once ctx is done.
QueryAndSearch ==
    /\ gpc = "query"
    /\ \/ MarshalMayFail /\ QueryFails("marshal")
       \/ (ctxDone \/ RpcMayFail) /\ QueryFails("rpc")
       \/ /\ ~ctxDone
          /\ gpc' = "recv"
          /\ UNCHANGED <<gres, failed>>
    /\ UNCHANGED <<cpc, ctxDone, stream, err, outcome, timeout>>

\* Mutant: every Recv error is taken for io.EOF.
RecvErrorEOFOnly(done, s) == "nil"

\* Mutant: io.EOF is kept as err instead of being reset to nil.
RecvErrorKeepsEOF(done, s) == IF ~done /\ s = <<>> THEN "eof" ELSE "recv"

\* What the loop makes of Recv's error (lines 257-265): io.EOF, once the
\* stream is exhausted, becomes err = nil; any other error, among them the
\* one Recv returns after ctx is done, is kept.
RecvError(done, s) == IF ~done /\ s = <<>> THEN "nil" ELSE "recv"

\* One iteration of SearchRPC's receive loop (lines 256-285).  The set
\* failed records every failure met, whatever the code then does with it.
RecvLoop ==
    /\ gpc = "recv"
    /\ IF ctxDone \/ stream = <<>> \/ Head(stream) = "recvErr"
       THEN \* either break leaves the loop: return searchResult, err
            LET e == RecvError(ctxDone, stream) IN
            /\ err' = e
            /\ gpc' = "send"
            /\ gres' = IF e = "nil" THEN "result" ELSE "queryErr"
            /\ failed' = IF ~ctxDone /\ stream = <<>> THEN failed
                                                     ELSE failed \cup {"recv"}
            /\ stream' = IF stream = <<>> THEN stream ELSE Tail(stream)
       ELSE \* a successful Recv sets err = nil before the switch
            CASE Head(stream) = "hits" ->
                   \* sw.write; on error the break leaves only the switch
                   /\ \/ HasStreamHandler /\ err' = "write"
                                          /\ failed' = failed \cup {"write"}
                      \/ err' = "nil" /\ UNCHANGED failed
                   /\ stream' = Tail(stream)
                   /\ UNCHANGED <<gpc, gres>>
              [] Head(stream) = "result" ->
                   /\ err' = "nil" /\ stream' = Tail(stream)
                   /\ UNCHANGED <<gpc, gres, failed>>
              [] Head(stream) = "badResult" ->
                   \* UnmarshalJSON fails: return searchResult, err
                   /\ err' = "unmarshal" /\ stream' = Tail(stream)
                   /\ gpc' = "send" /\ gres' = "queryErr"
                   /\ failed' = failed \cup {"unmarshal"}
    /\ UNCHANGED <<cpc, ctxDone, outcome, timeout>>

-----------------------------------------------------------------------------
(* The context: cancelled by the caller's caller, or its deadline passes.  *)

CtxDone ==
    /\ ~ctxDone /\ cpc # "start"
    /\ ctxDone' = TRUE
    /\ UNCHANGED <<cpc, gpc, stream, err, failed, gres, outcome, timeout>>

-----------------------------------------------------------------------------
Init ==
    /\ cpc = "start"
    /\ gpc = "none"
    /\ ctxDone = FALSE
    /\ stream \in UNION {[1..n -> Responses] : n \in 0..MaxStream}
    /\ err = "nil"
    /\ failed = {}
    /\ gres = "none"
    /\ outcome = "none"
    /\ timeout = NoTimeout

\* The search is over when the caller has returned and the goroutine has
\* either finished or never started.
Finished == cpc = "returned" /\ gpc \in {"none", "done"}

Next ==
    \/ \E nilReq, hasDeadline \in BOOLEAN, left \in DeadlineLeft :
          SearchInContext(nilReq, hasDeadline, left)
    \/ SelectCtxDone \/ SelectResult
    \/ QueryAndSearch \/ RecvLoop
    \/ CtxDone
    \/ Finished /\ UNCHANGED vars

\* Goroutines that can run keep running, and a ready select case is taken.
\* The context gets no fairness: it may never be cancelled.
Spec == Init /\ [][Next]_vars
             /\ WF_vars(\E nilReq, hasDeadline \in BOOLEAN, left \in DeadlineLeft :
                          SearchInContext(nilReq, hasDeadline, left))
             /\ WF_vars(SelectCtxDone \/ SelectResult)
             /\ WF_vars(QueryAndSearch) /\ WF_vars(RecvLoop)

-----------------------------------------------------------------------------
(* Properties.                                                             *)

TypeOK ==
    /\ cpc \in {"start", "select", "returned"}
    /\ gpc \in {"none", "query", "recv", "send", "done"}
    /\ ctxDone \in BOOLEAN
    /\ stream \in Seq(Responses) /\ Len(stream) <= MaxStream
    /\ err \in {"nil", "recv", "write", "unmarshal"}
    /\ failed \subseteq {"marshal", "rpc", "recv", "write", "unmarshal"}
    /\ gres \in {"none", "result", "queryErr"}
    /\ outcome \in {"none", "noReq", "deadlineExceeded", "ctxErr",
                    "result", "queryErr"}
    /\ timeout \in Int

\* SearchInContext never hands back a successful search result when Query,
\* the Search RPC, a Recv or the unmarshalling of the final result failed
\* on the way (the error paths of Query and SearchRPC, lines 244-287).
ReadFailureReported == outcome = "result" => failed \subseteq {"write"}

\* Nor when the stream handler failed to take a batch of hits (the error
\* check after sw.write, lines 270-274).
WriteFailureReported == outcome = "result" => "write" \notin failed

\* Every call of SearchInContext that is made returns, whether or not the
\* context is ever cancelled (the select of lines 162-167).
CallerReturns == (cpc = "start") ~> (cpc = "returned")

\* The goroutine SearchInContext spawns (lines 152-160) eventually ends;
\* its send on the unbuffered resultCh needs a receiver.
GoroutineTerminates == <>[](gpc \in {"none", "done"})

=============================================================================
