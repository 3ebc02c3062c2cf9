------------------------------ MODULE RPCPool ------------------------------
(***************************************************************************)
(* The Hub's connection pool to one node (cmd/fleetty/rpc_pool.go) with    *)
(* the client half of the node RPC (cmd/fleetty/rpc.go).                   *)
(*                                                                         *)
(* A call of rpcClientPool.call runs under a context deadline.  It takes   *)
(* the one token of the channel `gate', reuses or dials the pooled SSH     *)
(* connection, opens a session on it in a helper goroutine, and reads the  *)
(* answer in a second one.  A transport failure drops the connection and   *)
(* the round trip is tried once more.  The SSH library, the network and    *)
(* the node are external: they are modelled from what the pool sees.       *)
(***************************************************************************)
EXTENDS Naturals

CONSTANTS
    Calls,    \* calls of rpcClientPool.call, each made once
    Conns,    \* identities of SSH connections; their number bounds the dials
    None      \* a nil client

ASSUME NoneAssumption == None \notin Conns \cup Calls

VARIABLES
    pc,       \* where each call is
    attempt,  \* 1, or 2 once the round trip is being retried
    expired,  \* whether the call's context is done
    result,   \* what the call returned
    gate,     \* whether the token is in the gate channel
    client,   \* p.client
    idle,     \* time.Since(p.lastUsed) > rpcPoolIdleTime
    conn,     \* this side of each connection
    peer,     \* the far side: answering, silently unreachable, or known gone
    via,      \* the client a round trip was given
    opener,   \* the goroutine of newRPCSession
    sess,     \* the session it obtained
    reader,   \* the goroutine that runs session.Output
    served    \* what the node did with the request of a round trip

vars == <<pc, attempt, expired, result, gate, client, idle, conn, peer,
          via, opener, sess, reader, served>>

(***************************************************************************)
(* A round trip is one execution of callWithClient; a call has at most two.*)
(***************************************************************************)
Trips == Calls \X {1, 2}
Trip(c) == <<c, attempt[c]>>

\* The steps between receiving the gate token and giving it back.
Critical == {"gated", "ensure", "open", "session", "output", "drop"}
Steps == {"start", "wait", "done"} \cup Critical
\* What comes back: a response, a response that carries an error or another RPC
\* version, or something callWithClient cannot use (an exit status, no JSON).
Replies == {"ok", "rpcerror", "unusable"}

TypeOK ==
    /\ pc \in [Calls -> Steps]
    /\ attempt \in [Calls -> {1, 2}]
    /\ expired \in [Calls -> BOOLEAN]
    /\ result \in [Calls -> {"none", "ok", "error"}]
    /\ gate \in BOOLEAN
    /\ client \in Conns \cup {None}
    /\ idle \in BOOLEAN
    /\ conn \in [Conns -> {"unused", "open", "closed"}]
    /\ peer \in [Conns -> {"live", "silent", "gone"}]
    /\ via \in [Trips -> Conns \cup {None}]
    /\ opener \in [Trips -> {"none", "opening", "session", "error", "ended"}]
    /\ sess \in [Trips -> {"none", "open", "closed"}]
    /\ reader \in [Trips -> {"none", "reading", "reply", "error"}]
    /\ served \in [Trips -> {"none", "sent", "lost"} \cup Replies]

\* newRPCPool: the token is put in the gate, nothing is dialed yet.
Init ==
    /\ pc = [c \in Calls |-> "start"]
    /\ attempt = [c \in Calls |-> 1]
    /\ expired = [c \in Calls |-> FALSE]
    /\ result = [c \in Calls |-> "none"]
    /\ gate = TRUE
    /\ client = None
    /\ idle = FALSE
    /\ conn = [n \in Conns |-> "unused"]
    /\ peer = [n \in Conns |-> "live"]
    /\ via = [t \in Trips |-> None]
    /\ opener = [t \in Trips |-> "none"]
    /\ sess = [t \in Trips |-> "none"]
    /\ reader = [t \in Trips |-> "none"]
    /\ served = [t \in Trips |-> "none"]

Goto(c, step) == pc' = [pc EXCEPT ![c] = step]
Answer(c, res) == Goto(c, "done") /\ result' = [result EXCEPT ![c] = res]
\* Returning after the gate was taken: the deferred send gives the token back.
Return(c, res) == Answer(c, res) /\ gate' = TRUE
Close(n) == conn' = [conn EXCEPT ![n] = "closed"]
CloseSession(t) ==
    sess' = [sess EXCEPT ![t] = IF @ = "open" THEN "closed" ELSE @]

-----------------------------------------------------------------------------
(***************************************************************************)
(* rpcClientPool.call                                                      *)
(***************************************************************************)

\* The first test of ctx.Err().
Begin(c) ==
    /\ pc[c] = "start"
    /\ \/ ~expired[c] /\ Goto(c, "wait") /\ UNCHANGED result
       \/ expired[c] /\ Answer(c, "error")
    /\ UNCHANGED <<attempt, expired, gate, client, idle, conn, peer,
                   via, opener, sess, reader, served>>

\* Mutant: the gate is tested but its token is not taken.
AcquireGateShared(c) ==
    /\ pc[c] = "wait"
    /\ gate
    /\ Goto(c, "gated")
    /\ UNCHANGED <<attempt, expired, result, gate, client, idle, conn, peer,
                   via, opener, sess, reader, served>>

\* The select on ctx.Done() and the gate: either branch when both are ready.
AcquireGate(c) ==
    /\ pc[c] = "wait"
    /\ gate
    /\ gate' = FALSE
    /\ Goto(c, "gated")
    /\ UNCHANGED <<attempt, expired, result, client, idle, conn, peer,
                   via, opener, sess, reader, served>>

GiveUpWaiting(c) ==
    /\ pc[c] = "wait"
    /\ expired[c]
    /\ Answer(c, "error")
    /\ UNCHANGED <<attempt, expired, gate, client, idle, conn, peer,
                   via, opener, sess, reader, served>>

\* Mutant: an idle client is forgotten and not closed.
RetireIdleClientLeaks(c) ==
    /\ pc[c] = "gated"
    /\ client' = IF idle THEN None ELSE client
    /\ idle' = FALSE
    /\ Goto(c, "ensure")
    /\ UNCHANGED <<attempt, expired, result, gate, conn, peer,
                   via, opener, sess, reader, served>>

\* The second test of ctx.Err(), then the idle rule and the new lastUsed.
RetireIdleClient(c) ==
    /\ pc[c] = "gated"
    /\ \/ /\ expired[c]
          /\ Return(c, "error")
          /\ UNCHANGED <<client, idle, conn>>
       \/ /\ ~expired[c]
          /\ IF client # None /\ idle
             THEN Close(client) /\ client' = None
             ELSE UNCHANGED <<client, conn>>
          /\ idle' = FALSE
          /\ Goto(c, "ensure")
          /\ UNCHANGED <<result, gate>>
    /\ UNCHANGED <<attempt, expired, peer, via, opener, sess, reader, served>>

\* ensureClient with a pooled client.
ReuseClient(c) ==
    /\ pc[c] = "ensure"
    /\ client # None
    /\ via' = [via EXCEPT ![Trip(c)] = client]
    /\ Goto(c, "open")
    /\ UNCHANGED <<attempt, expired, result, gate, client, idle, conn, peer,
                   opener, sess, reader, served>>

\* ensureClient without one: dialLocked connects within the context's deadline.
DialClient(c) ==
    /\ pc[c] = "ensure"
    /\ client = None
    /\ ~expired[c]
    /\ \E n \in Conns :
          /\ conn[n] = "unused"
          /\ conn' = [conn EXCEPT ![n] = "open"]
          /\ client' = n
          /\ via' = [via EXCEPT ![Trip(c)] = n]
    /\ Goto(c, "open")
    /\ UNCHANGED <<attempt, expired, result, gate, idle, peer,
                   opener, sess, reader, served>>

\* dialLocked fails: no key, refused, unreachable, handshake or deadline error.
DialFails(c) ==
    /\ pc[c] = "ensure"
    /\ client = None
    /\ Return(c, "error")
    /\ UNCHANGED <<attempt, expired, client, idle, conn, peer,
                   via, opener, sess, reader, served>>

\* The end of a failed round trip in call: drop the client, retry once.
DropClient(c) ==
    /\ pc[c] = "drop"
    /\ Close(via[Trip(c)])
    /\ client' = None
    /\ IF attempt[c] = 1 /\ ~expired[c]
       THEN /\ attempt' = [attempt EXCEPT ![c] = 2]
            /\ Goto(c, "ensure")
            /\ UNCHANGED <<result, gate>>
       ELSE Return(c, "error") /\ UNCHANGED attempt
    /\ UNCHANGED <<expired, idle, peer, via, opener, sess, reader, served>>

-----------------------------------------------------------------------------
(***************************************************************************)
(* callWithClient and newRPCSession                                        *)
(***************************************************************************)

\* newRPCSession starts the goroutine that calls client.NewSession.
StartSession(c) ==
    /\ pc[c] = "open"
    /\ opener' = [opener EXCEPT ![Trip(c)] = "opening"]
    /\ Goto(c, "session")
    /\ UNCHANGED <<attempt, expired, result, gate, client, idle, conn, peer,
                   via, sess, reader, served>>

\* That goroutine: NewSession comes back, then the select between the buffered
\* channel `ready' and ctx.Done(), which closes the session it got.  On a
\* half-open transport NewSession does not come back, and a node that can be
\* reached accepts the channel.
OpenerReturns(t) ==
    /\ opener[t] = "opening"
    /\ \/ /\ conn[via[t]] = "open" /\ peer[via[t]] = "live"
          /\ \/ /\ opener' = [opener EXCEPT ![t] = "session"]
                /\ sess' = [sess EXCEPT ![t] = "open"]
             \/ /\ expired[t[1]]
                /\ opener' = [opener EXCEPT ![t] = "ended"]
                /\ sess' = [sess EXCEPT ![t] = "closed"]
       \/ /\ conn[via[t]] = "closed" \/ peer[via[t]] = "gone"
          /\ \/ opener' = [opener EXCEPT ![t] = "error"]
             \/ expired[t[1]] /\ opener' = [opener EXCEPT ![t] = "ended"]
          /\ UNCHANGED sess
    /\ UNCHANGED <<pc, attempt, expired, result, gate, client, idle, conn,
                   peer, via, reader, served>>

\* Mutant: newRPCSession waits for NewSession only.
SessionTimeoutIgnored(c) == FALSE /\ pc[c] = "session" /\ UNCHANGED vars

\* newRPCSession sees ctx.Done() first and closes the whole client.
SessionTimeout(c) ==
    /\ pc[c] = "session"
    /\ expired[c]
    /\ Close(via[Trip(c)])
    /\ Goto(c, "drop")
    /\ UNCHANGED <<attempt, expired, result, gate, client, idle, peer,
                   via, opener, sess, reader, served>>

\* newRPCSession sees `ready'.  A session that came with an expired context is
\* closed together with the client; otherwise callWithClient starts reading.
SessionReady(c) ==
    LET t == Trip(c) IN
    /\ pc[c] = "session"
    /\ opener[t] \in {"session", "error"}
    /\ \/ /\ expired[c]
          /\ CloseSession(t)
          /\ Close(via[t])
          /\ Goto(c, "drop")
          /\ UNCHANGED reader
       \/ /\ ~expired[c] /\ opener[t] = "session"
          /\ reader' = [reader EXCEPT ![t] = "reading"]
          /\ Goto(c, "output")
          /\ UNCHANGED <<sess, conn>>
       \/ /\ ~expired[c] /\ opener[t] = "error"
          /\ Goto(c, "drop")
          /\ UNCHANGED <<sess, conn, reader>>
    /\ UNCHANGED <<attempt, expired, result, gate, client, idle, peer,
                   via, opener, served>>

\* session.Output returns into the buffered channel `done'.
ReaderReturns(t) ==
    /\ reader[t] = "reading"
    /\ \/ /\ served[t] \in Replies
          /\ conn[via[t]] = "open" /\ peer[via[t]] = "live"
          /\ reader' = [reader EXCEPT ![t] = "reply"]
       \/ /\ conn[via[t]] = "closed" \/ peer[via[t]] = "gone"
          /\ reader' = [reader EXCEPT ![t] = "error"]
    /\ UNCHANGED <<pc, attempt, expired, result, gate, client, idle, conn,
                   peer, via, opener, sess, served>>

\* callWithClient sees ctx.Done() first: session and client are closed.
OutputTimeout(c) ==
    /\ pc[c] = "output"
    /\ expired[c]
    /\ CloseSession(Trip(c))
    /\ Close(via[Trip(c)])
    /\ Goto(c, "drop")
    /\ UNCHANGED <<attempt, expired, result, gate, client, idle, peer,
                   via, opener, reader, served>>

\* Mutant: an RPC-level error is treated like a transport failure.
OutputDoneRetries(c) ==
    LET t == Trip(c) IN
    /\ pc[c] = "output"
    /\ reader[t] \in {"reply", "error"}
    /\ CloseSession(t)
    /\ \/ /\ reader[t] = "reply" /\ served[t] = "ok"
          /\ Return(c, "ok")
       \/ /\ ~(reader[t] = "reply" /\ served[t] = "ok")
          /\ Goto(c, "drop") /\ UNCHANGED <<result, gate>>
    /\ UNCHANGED <<attempt, expired, client, idle, conn, peer,
                   via, opener, reader, served>>

\* callWithClient sees the output.  Only an answer that decodes keeps the
\* connection; an RPC-level error is returned without a retry.
OutputDone(c) ==
    LET t == Trip(c)
        decoded == reader[t] = "reply" /\ served[t] # "unusable"
    IN  /\ pc[c] = "output"
        /\ reader[t] \in {"reply", "error"}
        /\ CloseSession(t)
        /\ \/ /\ decoded
              /\ Return(c, IF served[t] = "ok" THEN "ok" ELSE "error")
           \/ ~decoded /\ Goto(c, "drop") /\ UNCHANGED <<result, gate>>
        /\ UNCHANGED <<attempt, expired, client, idle, conn, peer,
                       via, opener, reader, served>>

-----------------------------------------------------------------------------
(***************************************************************************)
(* Context deadlines, the network and the node.                            *)
(***************************************************************************)

\* The deadline of CallWithTimeout passes.
Expire(c) ==
    /\ pc[c] # "done" /\ ~expired[c]
    /\ expired' = [expired EXCEPT ![c] = TRUE]
    /\ UNCHANGED <<pc, attempt, result, gate, client, idle, conn, peer,
                   via, opener, sess, reader, served>>

\* More than rpcPoolIdleTime since the last call took the gate.  Every call
\* ends long before that, so the gate is free.
IdleElapses ==
    /\ gate /\ client # None /\ ~idle
    /\ idle' = TRUE
    /\ UNCHANGED <<pc, attempt, expired, result, gate, client, conn, peer,
                   via, opener, sess, reader, served>>

\* The path to the node fails without a trace: a half-open connection.
PeerVanishes(n) ==
    /\ conn[n] = "open" /\ peer[n] = "live"
    /\ peer' = [peer EXCEPT ![n] = "silent"]
    /\ UNCHANGED <<pc, attempt, expired, result, gate, client, idle, conn,
                   via, opener, sess, reader, served>>

\* TCP keep-alive, or a reset, tells this side that the connection is gone.
PeerLost(n) ==
    /\ conn[n] = "open" /\ peer[n] # "gone"
    /\ peer' = [peer EXCEPT ![n] = "gone"]
    /\ UNCHANGED <<pc, attempt, expired, result, gate, client, idle, conn,
                   via, opener, sess, reader, served>>

\* The node process restarts: its connections end and requests that it has
\* received but not handled are lost.
NodeRestarts ==
    /\ \E n \in Conns : conn[n] = "open" /\ peer[n] = "live"
    /\ peer' = [n \in Conns |->
                  IF conn[n] = "open" /\ peer[n] = "live" THEN "gone" ELSE peer[n]]
    /\ served' = [t \in Trips |-> IF served[t] = "sent" THEN "lost" ELSE served[t]]
    /\ UNCHANGED <<pc, attempt, expired, result, gate, client, idle, conn,
                   via, opener, sess, reader>>

\* The request of a round trip reaches the node.
Deliver(t) ==
    /\ reader[t] = "reading" /\ served[t] = "none"
    /\ conn[via[t]] = "open" /\ peer[via[t]] = "live"
    /\ served' = [served EXCEPT ![t] = "sent"]
    /\ UNCHANGED <<pc, attempt, expired, result, gate, client, idle, conn,
                   peer, via, opener, sess, reader>>

\* nodeRPCMiddleware decodes and handles a request it has received, also when
\* the caller has stopped waiting for it.
Serve(t) ==
    /\ served[t] = "sent"
    /\ \E r \in Replies : served' = [served EXCEPT ![t] = r]
    /\ UNCHANGED <<pc, attempt, expired, result, gate, client, idle, conn,
                   peer, via, opener, sess, reader>>

CallStep(c) ==
    \/ AcquireGate(c) \/ GiveUpWaiting(c) \/ RetireIdleClient(c)
    \/ ReuseClient(c) \/ DialClient(c) \/ DialFails(c) \/ DropClient(c)
    \/ StartSession(c) \/ SessionTimeout(c) \/ SessionReady(c)
    \/ OutputTimeout(c) \/ OutputDone(c)

Next ==
    \/ \E c \in Calls : Begin(c) \/ CallStep(c) \/ Expire(c)
    \/ \E t \in Trips : OpenerReturns(t) \/ ReaderReturns(t) \/ Deliver(t) \/ Serve(t)
    \/ \E n \in Conns : PeerVanishes(n) \/ PeerLost(n)
    \/ IdleElapses
    \/ NodeRestarts

Spec == Init /\ [][Next]_vars

(***************************************************************************)
(* While a goroutine can run or a deadline is ahead, one goroutine runs or *)
(* one deadline passes: no call loops, so no more than that is asked of    *)
(* the scheduler.  Nothing is assumed of the node or the network: a        *)
(* half-open peer may stay silent for ever.                                *)
(***************************************************************************)
Progress ==
    \/ \E c \in Calls : CallStep(c) \/ Expire(c)
    \/ \E t \in Trips : OpenerReturns(t) \/ ReaderReturns(t)

FairSpec == Spec /\ WF_vars(Progress)

-----------------------------------------------------------------------------
(***************************************************************************)
(* Properties                                                              *)
(***************************************************************************)

\* Whenever the gate is free the pooled client is one the pool has not closed:
\* every path that closes the connection (idle rule, deadline, transport
\* failure) also forgets it before the next call can take it; and no other
\* connection is open, none is just forgotten (rpc_pool.go, call and
\* callWithClient).
PoolClean ==
    gate => /\ client # None => conn[client] = "open"
            /\ \A n \in Conns : conn[n] = "open" => n = client

\* Sessions never overlap: a session that is open on an open connection belongs
\* to the call that holds the gate, and there is no other one ("RPC calls are
\* serialized per node", rpc_pool.go:34-35).  A session opened late by a helper
\* goroutine of a call that timed out does not count: its connection is closed.
Usable(t) == sess[t] = "open" /\ conn[via[t]] = "open"
SessionsSerialized ==
    \A t \in Trips : Usable(t) =>
        /\ pc[t[1]] \in Critical
        /\ \A u \in Trips : Usable(u) => u = t

\* A deadline closes only its own call's connection: a call that waits for a
\* session or an answer never has its connection closed under it by another
\* call's deadline, idle rule or failure ("request deadlines can interrupt session
\* reads without racing concurrent use of the same connection", rpc_pool.go:34-37).
DeadlineClosesOwnConnection ==
    \A c \in Calls : pc[c] \in {"session", "output"} => conn[via[Trip(c)]] = "open"

\* A request is sent a second time only if the first round trip brought no
\* answer that decodes: an operation that the node answered, with success or
\* with an RPC error, is never repeated (callWithClient's third result).
RetryOnlyWithoutAnswer ==
    \A c \in Calls : attempt[c] = 2 =>
        ~(reader[<<c, 1>>] = "reply" /\ served[<<c, 1>>] # "unusable")

\* A call that has begun returns, and its helper goroutines end with it or
\* after it, whatever the node and the network do: the wait for the gate,
\* NewSession on a half-open transport and a stalled read are all ended by the
\* deadline, which closes the client under them (rpc_pool.go:194-200 and 147-153).
HelpersEnded(c) ==
    \A a \in {1, 2} : opener[<<c, a>>] # "opening" /\ reader[<<c, a>>] # "reading"
CallsReturn == \A c \in Calls : pc[c] = "wait" ~> pc[c] = "done" /\ HelpersEnded(c)

\* The pool implements an exclusive link (module ExclusiveLink): only the call
\* that holds the gate connects or disconnects, and the others see the link
\* only as that call left it.
Holder == IF \E c \in Calls : pc[c] \in Critical
          THEN CHOOSE c \in Calls : pc[c] \in Critical ELSE None
LinkUp == client # None /\ conn[client] = "open"
Link == INSTANCE ExclusiveLink WITH Users <- Calls, Nobody <- None,
                                    holder <- Holder, up <- LinkUp
ImplementsExclusiveLink == Link!Spec
=============================================================================
