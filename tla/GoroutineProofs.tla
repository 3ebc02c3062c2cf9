-------------------------- MODULE GoroutineProofs --------------------------
(***************************************************************************)
(* Proofs about RPCPool, for any number of calls and of connections, and    *)
(* about DuplicateSearch, for any number of paths, kinds of files, workers  *)
(* and writes: a search that returns groups has hashed every candidate, and *)
(* a group has the content that its files still hold.                       *)
(***************************************************************************)
EXTENDS MCGoroutines, TLAPS

\* The gate's token is in one place: in the channel, or with one call.
GateInv ==
    /\ \A c \in Calls : pc[c] \in Critical => ~gate
    /\ \A c, d \in Calls : pc[c] \in Critical /\ pc[d] \in Critical => c = d

\* A round trip uses the pooled client, which is the only connection that can be
\* open; it is closed only when its call is about to drop it.
ClientInv ==
    /\ \A c \in Calls : pc[c] \in {"open", "session", "output", "drop"} =>
          via[Trip(c)] = client /\ client # None
    /\ \A n \in Conns : conn[n] = "open" => n = client
    /\ client # None => \/ conn[client] = "open"
                        \/ conn[client] = "closed" /\ \E c \in Calls : pc[c] = "drop"

\* What has not been started yet.
FreshInv ==
    /\ \A t \in Trips : attempt[t[1]] = 1 /\ t[2] = 2 =>
          opener[t] = "none" /\ sess[t] = "none" /\ reader[t] = "none"
    /\ \A t \in Trips :
          /\ attempt[t[1]] = t[2]
          /\ pc[t[1]] \in {"start", "wait", "gated", "ensure", "open"}
          => opener[t] = "none" /\ sess[t] = "none" /\ reader[t] = "none"
    /\ \A t \in Trips : attempt[t[1]] = t[2] /\ pc[t[1]] = "session" => reader[t] = "none"
    /\ \A t \in Trips : opener[t] = "none" => sess[t] = "none" /\ reader[t] = "none"

\* What a started round trip was given.
OriginInv ==
    /\ \A t \in Trips : sess[t] = "open" => opener[t] = "session"
    /\ \A t \in Trips : opener[t] # "none" => via[t] \in Conns
    /\ \A t \in Trips : via[t] \in Conns => conn[via[t]] # "unused"

\* Goroutines that use an open connection belong to the call that waits for them.
HelperInv ==
    /\ \A t \in Trips : opener[t] = "opening" /\ conn[via[t]] = "open" =>
          pc[t[1]] = "session" /\ attempt[t[1]] = t[2]
    /\ \A t \in Trips : sess[t] = "open" /\ conn[via[t]] = "open" =>
          pc[t[1]] \in {"session", "output"} /\ attempt[t[1]] = t[2]
    /\ \A t \in Trips : reader[t] = "reading" /\ conn[via[t]] = "open" =>
          pc[t[1]] = "output" /\ attempt[t[1]] = t[2]

\* An answer that decodes is never followed by a retry.
Answered(t) == reader[t] = "reply" /\ served[t] # "unusable"
AnswerInv ==
    /\ \A t \in Trips : reader[t] = "reply" => served[t] \in Replies
    /\ \A t \in Trips :
          attempt[t[1]] = t[2] /\ pc[t[1]] = "drop" /\ ~expired[t[1]] => ~Answered(t)
    /\ \A t \in Trips : attempt[t[1]] = 2 /\ t[2] = 1 => ~Answered(t)

\* The inductive invariant: none of its parts is inductive without the others.
Inv == TypeOK /\ GateInv /\ ClientInv /\ FreshInv /\ OriginInv /\ HelperInv /\ AnswerInv

\* The current round trip of a call is the trip with its number.
LEMMA TripOfCall ==
    ASSUME TypeOK, NEW c \in Calls
    PROVE  /\ Trip(c) \in Trips /\ Trip(c)[1] = c /\ Trip(c)[2] = attempt[c]
           /\ \A u \in Trips : u[1] = c /\ u[2] = attempt[c] => u = Trip(c)
BY DEF TypeOK, Trip, Trips

\* The parts of a trip.
LEMMA TripParts == \A t \in Trips : t[1] \in Calls /\ t[2] \in {1, 2}
BY DEF Trips

\* Closing a session opens none, and starts none that was never started.
LEMMA ClosingSessions ==
    ASSUME TypeOK, NEW t \in Trips, CloseSession(t)
    PROVE  /\ sess' \in [Trips -> {"none", "open", "closed"}]
           /\ \A u \in Trips : /\ sess[u] = "none" => sess'[u] = "none"
                               /\ sess'[u] = "open" => sess[u] = "open"
BY DEF TypeOK, CloseSession

\* Every step keeps the state within its types.
LEMMA TypeStep == ASSUME TypeOK, Next PROVE TypeOK'
<1> USE NoneAssumption DEF TypeOK, Steps, Critical, Replies
<1>1. ASSUME NEW c \in Calls, Begin(c) PROVE TypeOK'
  BY <1>1 DEF Begin, Goto, Answer
<1>2. ASSUME NEW c \in Calls, AcquireGate(c) PROVE TypeOK'
  BY <1>2 DEF AcquireGate, Goto
<1>3. ASSUME NEW c \in Calls, GiveUpWaiting(c) PROVE TypeOK'
  BY <1>3 DEF GiveUpWaiting, Goto, Answer
<1>4. ASSUME NEW c \in Calls, RetireIdleClient(c) PROVE TypeOK'
  <2>1. CASE expired[c]
    BY <1>4, <2>1 DEF RetireIdleClient, Goto, Answer, Return, Close
  <2>2. CASE ~expired[c] /\ client # None /\ idle
    BY <1>4, <2>2 DEF RetireIdleClient, Goto, Answer, Return, Close
  <2>3. CASE ~expired[c] /\ ~(client # None /\ idle)
    BY <1>4, <2>3 DEF RetireIdleClient, Goto, Answer, Return, Close
  <2> QED BY <2>1, <2>2, <2>3
<1>5. ASSUME NEW c \in Calls, ReuseClient(c) PROVE TypeOK'
  BY <1>5 DEF ReuseClient, Goto, Trip, Trips
<1>6. ASSUME NEW c \in Calls, DialClient(c) PROVE TypeOK'
  BY <1>6 DEF DialClient, Goto, Trip, Trips
<1>7. ASSUME NEW c \in Calls, DialFails(c) PROVE TypeOK'
  BY <1>7 DEF DialFails, Goto, Answer, Return
<1>8. ASSUME NEW c \in Calls, DropClient(c) PROVE TypeOK'
  <2>1. CASE attempt[c] = 1 /\ ~expired[c]
    BY <1>8, <2>1 DEF DropClient, Goto, Answer, Return, Close, Trip, Trips
  <2>2. CASE ~(attempt[c] = 1 /\ ~expired[c])
    BY <1>8, <2>2 DEF DropClient, Goto, Answer, Return, Close, Trip, Trips
  <2> QED BY <2>1, <2>2
<1>9. ASSUME NEW c \in Calls, StartSession(c) PROVE TypeOK'
  BY <1>9 DEF StartSession, Goto, Trip, Trips
<1>10. ASSUME NEW c \in Calls, SessionTimeout(c) PROVE TypeOK'
  BY <1>10 DEF SessionTimeout, Goto, Close, Trip, Trips
<1>11. ASSUME NEW c \in Calls, SessionReady(c) PROVE TypeOK'
  <2>1. Trip(c) \in Trips
    BY TripOfCall
  <2>2. sess' \in [Trips -> {"none", "open", "closed"}]
    BY <1>11, <2>1, ClosingSessions DEF SessionReady
  <2>3. reader' \in [Trips -> {"none", "reading", "reply", "error"}]
    BY <1>11, <2>1 DEF SessionReady
  <2>4. conn' \in [Conns -> {"unused", "open", "closed"}]
    BY <1>11 DEF SessionReady, Close
  <2>5. pc' \in [Calls -> Steps]
    BY <1>11 DEF SessionReady, Goto
  <2> QED BY <1>11, <2>2, <2>3, <2>4, <2>5 DEF SessionReady
<1>12. ASSUME NEW c \in Calls, OutputTimeout(c) PROVE TypeOK'
  BY <1>12 DEF OutputTimeout, Goto, Close, CloseSession, Trip, Trips
<1>13. ASSUME NEW c \in Calls, OutputDone(c) PROVE TypeOK'
  BY <1>13 DEF OutputDone, Goto, Answer, Return, CloseSession, Trip, Trips
<1>14. ASSUME NEW c \in Calls, Expire(c) PROVE TypeOK'
  BY <1>14 DEF Expire
<1>15. ASSUME NEW t \in Trips, OpenerReturns(t) PROVE TypeOK'
  <2>1. opener' \in [Trips -> {"none", "opening", "session", "error", "ended"}]
    BY <1>15 DEF OpenerReturns
  <2>2. sess' \in [Trips -> {"none", "open", "closed"}]
    BY <1>15 DEF OpenerReturns
  <2> QED BY <1>15, <2>1, <2>2 DEF OpenerReturns
<1>16. ASSUME NEW t \in Trips, ReaderReturns(t) PROVE TypeOK'
  BY <1>16 DEF ReaderReturns, Trips
<1>17. ASSUME NEW t \in Trips, Deliver(t) PROVE TypeOK'
  BY <1>17 DEF Deliver, Trips
<1>18. ASSUME NEW t \in Trips, Serve(t) PROVE TypeOK'
  BY <1>18 DEF Serve, Trips
<1>19. ASSUME NEW n \in Conns, PeerVanishes(n) PROVE TypeOK'
  BY <1>19 DEF PeerVanishes
<1>20. ASSUME NEW n \in Conns, PeerLost(n) PROVE TypeOK'
  BY <1>20 DEF PeerLost
<1>21. ASSUME IdleElapses PROVE TypeOK'
  BY <1>21 DEF IdleElapses
<1>22. ASSUME NodeRestarts PROVE TypeOK'
  BY <1>22 DEF NodeRestarts
<1> QED BY <1>1, <1>2, <1>3, <1>4, <1>5, <1>6, <1>7, <1>8, <1>9, <1>10, <1>11, <1>12, <1>13, <1>14, <1>15, <1>16, <1>17, <1>18, <1>19, <1>20, <1>21, <1>22 DEF Next, CallStep

\* Every step of rpcClientPool.call keeps the gate's token in one place: only
\* AcquireGate takes it, and every return after it gives it back.
LEMMA GateStep ==
    ASSUME TypeOK, GateInv, TypeOK', Next PROVE GateInv'
<1> USE NoneAssumption DEF TypeOK, GateInv, Steps, Critical
<1>1. ASSUME NEW c \in Calls, Begin(c) PROVE GateInv'
  <2>1. CASE expired[c]
    BY <1>1, <2>1 DEF Begin, Goto, Answer
  <2>2. CASE ~expired[c]
    BY <1>1, <2>2 DEF Begin, Goto, Answer
  <2> QED BY <2>1, <2>2
<1>2. ASSUME NEW c \in Calls, AcquireGate(c) PROVE GateInv'
  BY <1>2 DEF AcquireGate, Goto
<1>3. ASSUME NEW c \in Calls, GiveUpWaiting(c) PROVE GateInv'
  BY <1>3 DEF GiveUpWaiting, Goto, Answer
<1>4. ASSUME NEW c \in Calls, RetireIdleClient(c) PROVE GateInv'
  <2>1. CASE expired[c]
    <3>1. pc[c] = "gated" /\ pc' = [pc EXCEPT ![c] = "done"] /\ gate' = TRUE
      BY <1>4, <2>1 DEF RetireIdleClient, Goto, Answer, Return
    <3> QED BY <3>1
  <2>2. CASE ~expired[c]
    <3>1. pc[c] = "gated" /\ pc' = [pc EXCEPT ![c] = "ensure"] /\ gate' = gate
      BY <1>4, <2>2 DEF RetireIdleClient, Goto
    <3> QED BY <3>1
  <2> QED BY <2>1, <2>2
<1>5. ASSUME NEW c \in Calls, ReuseClient(c) PROVE GateInv'
  BY <1>5 DEF ReuseClient, Goto, Trip, Trips
<1>6. ASSUME NEW c \in Calls, DialClient(c) PROVE GateInv'
  BY <1>6 DEF DialClient, Goto, Trip, Trips
<1>7. ASSUME NEW c \in Calls, DialFails(c) PROVE GateInv'
  BY <1>7 DEF DialFails, Goto, Answer, Return
<1>8. ASSUME NEW c \in Calls, DropClient(c) PROVE GateInv'
  <2>1. pc[c] = "drop"
    BY <1>8 DEF DropClient
  <2>2. CASE pc' = [pc EXCEPT ![c] = "ensure"] /\ gate' = gate
    BY <2>1, <2>2
  <2>3. CASE pc' = [pc EXCEPT ![c] = "done"] /\ gate' = TRUE
    BY <2>1, <2>3
  <2> QED BY <1>8, <2>2, <2>3 DEF DropClient, Goto, Answer, Return
<1>9. ASSUME NEW c \in Calls, StartSession(c) PROVE GateInv'
  BY <1>9 DEF StartSession, Goto, Trip, Trips
<1>10. ASSUME NEW c \in Calls, SessionTimeout(c) PROVE GateInv'
  BY <1>10 DEF SessionTimeout, Goto, Close, Trip, Trips
<1>11. ASSUME NEW c \in Calls, SessionReady(c) PROVE GateInv'
  BY <1>11 DEF SessionReady, Goto, Close, CloseSession, Trip, Trips
<1>12. ASSUME NEW c \in Calls, OutputTimeout(c) PROVE GateInv'
  BY <1>12 DEF OutputTimeout, Goto, Close, CloseSession, Trip, Trips
<1>13. ASSUME NEW c \in Calls, OutputDone(c) PROVE GateInv'
  <2>1. pc[c] = "output"
    BY <1>13 DEF OutputDone
  <2>2. CASE pc' = [pc EXCEPT ![c] = "drop"] /\ gate' = gate
    BY <2>1, <2>2
  <2>3. CASE pc' = [pc EXCEPT ![c] = "done"] /\ gate' = TRUE
    BY <2>1, <2>3
  <2> QED BY <1>13, <2>2, <2>3 DEF OutputDone, Goto, Answer, Return
<1>14. ASSUME NEW c \in Calls, Expire(c) PROVE GateInv'
  BY <1>14 DEF Expire
<1>15. ASSUME NEW t \in Trips, OpenerReturns(t) PROVE GateInv'
  BY <1>15 DEF OpenerReturns, Trips
<1>16. ASSUME NEW t \in Trips, ReaderReturns(t) PROVE GateInv'
  BY <1>16 DEF ReaderReturns, Trips
<1>17. ASSUME NEW t \in Trips, Deliver(t) PROVE GateInv'
  BY <1>17 DEF Deliver, Trips
<1>18. ASSUME NEW t \in Trips, Serve(t) PROVE GateInv'
  BY <1>18 DEF Serve, Trips
<1>19. ASSUME NEW n \in Conns, PeerVanishes(n) PROVE GateInv'
  BY <1>19 DEF PeerVanishes
<1>20. ASSUME NEW n \in Conns, PeerLost(n) PROVE GateInv'
  BY <1>20 DEF PeerLost
<1>21. ASSUME IdleElapses PROVE GateInv'
  BY <1>21 DEF IdleElapses
<1>22. ASSUME NodeRestarts PROVE GateInv'
  BY <1>22 DEF NodeRestarts
<1> QED BY <1>1, <1>2, <1>3, <1>4, <1>5, <1>6, <1>7, <1>8, <1>9, <1>10, <1>11, <1>12, <1>13, <1>14, <1>15, <1>16, <1>17, <1>18, <1>19, <1>20, <1>21, <1>22 DEF Next, CallStep

\* Every step keeps p.client the only open connection: whatever closes a
\* connection is the holder's step, on the way to forgetting it.
LEMMA ClientStep ==
    ASSUME TypeOK, GateInv, ClientInv, TypeOK', Next PROVE ClientInv'
<1> USE NoneAssumption DEF TypeOK, GateInv, ClientInv, Steps, Critical, Trip, Trips
<1>1. ASSUME NEW c \in Calls, Begin(c) PROVE ClientInv'
  BY <1>1 DEF Begin, Goto, Answer
<1>2. ASSUME NEW c \in Calls, AcquireGate(c) PROVE ClientInv'
  BY <1>2 DEF AcquireGate, Goto
<1>3. ASSUME NEW c \in Calls, GiveUpWaiting(c) PROVE ClientInv'
  BY <1>3 DEF GiveUpWaiting, Goto, Answer
<1>4. ASSUME NEW c \in Calls, RetireIdleClient(c) PROVE ClientInv'
  BY <1>4 DEF RetireIdleClient, Goto, Answer, Return, Close
<1>5. ASSUME NEW c \in Calls, ReuseClient(c) PROVE ClientInv'
  BY <1>5 DEF ReuseClient, Goto, Trip, Trips
<1>6. ASSUME NEW c \in Calls, DialClient(c) PROVE ClientInv'
  BY <1>6 DEF DialClient, Goto, Trip, Trips
<1>7. ASSUME NEW c \in Calls, DialFails(c) PROVE ClientInv'
  BY <1>7 DEF DialFails, Goto, Answer, Return
<1>8. ASSUME NEW c \in Calls, DropClient(c) PROVE ClientInv'
  <2>1. /\ pc[c] = "drop" /\ client' = None /\ via' = via
        /\ conn' = [conn EXCEPT ![client] = "closed"]
    BY <1>8 DEF DropClient, Close
  <2>2. \E s \in {"ensure", "done"} : pc' = [pc EXCEPT ![c] = s]
    BY <1>8 DEF DropClient, Goto, Answer, Return
  <2>3. \A d \in Calls : pc'[d] \notin {"open", "session", "output", "drop"}
    BY <2>1, <2>2
  <2>4. \A n \in Conns : conn'[n] # "open"
    BY <2>1
  <2> QED BY <2>1, <2>3, <2>4
<1>9. ASSUME NEW c \in Calls, StartSession(c) PROVE ClientInv'
  BY <1>9 DEF StartSession, Goto, Trip, Trips
<1>10. ASSUME NEW c \in Calls, SessionTimeout(c) PROVE ClientInv'
  BY <1>10 DEF SessionTimeout, Goto, Close, Trip, Trips
<1>11. ASSUME NEW c \in Calls, SessionReady(c) PROVE ClientInv'
  BY <1>11 DEF SessionReady, Goto, Close, CloseSession, Trip, Trips
<1>12. ASSUME NEW c \in Calls, OutputTimeout(c) PROVE ClientInv'
  BY <1>12 DEF OutputTimeout, Goto, Close, CloseSession, Trip, Trips
<1>13. ASSUME NEW c \in Calls, OutputDone(c) PROVE ClientInv'
  BY <1>13 DEF OutputDone, Goto, Answer, Return, CloseSession, Trip, Trips
<1>14. ASSUME NEW c \in Calls, Expire(c) PROVE ClientInv'
  BY <1>14 DEF Expire
<1>15. ASSUME NEW t \in Trips, OpenerReturns(t) PROVE ClientInv'
  BY <1>15 DEF OpenerReturns, Trips
<1>16. ASSUME NEW t \in Trips, ReaderReturns(t) PROVE ClientInv'
  BY <1>16 DEF ReaderReturns, Trips
<1>17. ASSUME NEW t \in Trips, Deliver(t) PROVE ClientInv'
  BY <1>17 DEF Deliver, Trips
<1>18. ASSUME NEW t \in Trips, Serve(t) PROVE ClientInv'
  BY <1>18 DEF Serve, Trips
<1>19. ASSUME NEW n \in Conns, PeerVanishes(n) PROVE ClientInv'
  BY <1>19 DEF PeerVanishes
<1>20. ASSUME NEW n \in Conns, PeerLost(n) PROVE ClientInv'
  BY <1>20 DEF PeerLost
<1>21. ASSUME IdleElapses PROVE ClientInv'
  BY <1>21 DEF IdleElapses
<1>22. ASSUME NodeRestarts PROVE ClientInv'
  BY <1>22 DEF NodeRestarts
<1> QED BY <1>1, <1>2, <1>3, <1>4, <1>5, <1>6, <1>7, <1>8, <1>9, <1>10, <1>11, <1>12, <1>13, <1>14, <1>15, <1>16, <1>17, <1>18, <1>19, <1>20, <1>21, <1>22 DEF Next, CallStep

\* No helper goroutine exists for a round trip that has not started it.
LEMMA FreshStep ==
    ASSUME TypeOK, FreshInv, TypeOK', Next PROVE FreshInv'
<1> USE NoneAssumption DEF TypeOK, FreshInv, Steps, Critical, Trip, Trips
<1>1. ASSUME NEW c \in Calls, Begin(c) PROVE FreshInv'
  BY <1>1 DEF Begin, Goto, Answer
<1>2. ASSUME NEW c \in Calls, AcquireGate(c) PROVE FreshInv'
  BY <1>2 DEF AcquireGate, Goto
<1>3. ASSUME NEW c \in Calls, GiveUpWaiting(c) PROVE FreshInv'
  BY <1>3 DEF GiveUpWaiting, Goto, Answer
<1>4. ASSUME NEW c \in Calls, RetireIdleClient(c) PROVE FreshInv'
  BY <1>4 DEF RetireIdleClient, Goto, Answer, Return, Close
<1>5. ASSUME NEW c \in Calls, ReuseClient(c) PROVE FreshInv'
  BY <1>5 DEF ReuseClient, Goto, Trip, Trips
<1>6. ASSUME NEW c \in Calls, DialClient(c) PROVE FreshInv'
  BY <1>6 DEF DialClient, Goto, Trip, Trips
<1>7. ASSUME NEW c \in Calls, DialFails(c) PROVE FreshInv'
  BY <1>7 DEF DialFails, Goto, Answer, Return
<1>8. ASSUME NEW c \in Calls, DropClient(c) PROVE FreshInv'
  <2> HIDE DEF Trip, Trips
  <2> USE TripParts
  <2>1. UNCHANGED <<opener, sess, reader>> /\ pc[c] = "drop"
    BY <1>8 DEF DropClient
  <2>2. CASE attempt[c] = 1 /\ ~expired[c] \* the second round trip begins
    <3>1. attempt' = [attempt EXCEPT ![c] = 2] /\ pc' = [pc EXCEPT ![c] = "ensure"]
      BY <1>8, <2>2 DEF DropClient, Goto
    <3> QED BY <2>1, <2>2, <3>1
  <2>3. CASE ~(attempt[c] = 1 /\ ~expired[c])
    <3>1. attempt' = attempt /\ pc' = [pc EXCEPT ![c] = "done"]
      BY <1>8, <2>3 DEF DropClient, Goto, Answer, Return
    <3> QED BY <2>1, <3>1
  <2> QED BY <2>2, <2>3
<1>9. ASSUME NEW c \in Calls, StartSession(c) PROVE FreshInv'
  BY <1>9 DEF StartSession, Goto, Trip, Trips
<1>10. ASSUME NEW c \in Calls, SessionTimeout(c) PROVE FreshInv'
  BY <1>10 DEF SessionTimeout, Goto, Close, Trip, Trips
<1>11. ASSUME NEW c \in Calls, SessionReady(c) PROVE FreshInv'
  <2> HIDE DEF Trip, Trips
  <2> DEFINE t == Trip(c)
  <2> USE TripParts
  <2>1. t \in Trips /\ t[1] = c /\ t[2] = attempt[c]
    BY TripOfCall
  <2>2. \A u \in Trips : sess[u] = "none" => sess'[u] = "none"
    BY <1>11, <2>1, ClosingSessions DEF SessionReady
  <2>3. \A u \in Trips : u # t => reader'[u] = reader[u]
    BY <1>11, <2>1 DEF SessionReady
  <2>4. opener[t] # "none"
    BY <1>11 DEF SessionReady
  <2>5. \E s \in {"output", "drop"} : pc' = [pc EXCEPT ![c] = s]
    BY <1>11 DEF SessionReady, Goto
  <2>6. UNCHANGED <<attempt, opener>>
    BY <1>11 DEF SessionReady
  <2> HIDE DEF t
  <2> QED BY <2>1, <2>2, <2>3, <2>4, <2>5, <2>6
<1>12. ASSUME NEW c \in Calls, OutputTimeout(c) PROVE FreshInv'
  <2> HIDE DEF Trip, Trips
  <2>1. \A u \in Trips : sess[u] = "none" => sess'[u] = "none"
    BY <1>12, TripOfCall, ClosingSessions DEF OutputTimeout
  <2>2. pc' = [pc EXCEPT ![c] = "drop"] /\ UNCHANGED <<attempt, opener, reader>>
    BY <1>12 DEF OutputTimeout, Goto
  <2> QED BY <2>1, <2>2, TripParts
<1>13. ASSUME NEW c \in Calls, OutputDone(c) PROVE FreshInv'
  <2> HIDE DEF Trip, Trips
  <2>1. \A u \in Trips : sess[u] = "none" => sess'[u] = "none"
    BY <1>13, TripOfCall, ClosingSessions DEF OutputDone
  <2>2. \E s \in {"done", "drop"} : pc' = [pc EXCEPT ![c] = s]
    BY <1>13 DEF OutputDone, Goto, Answer, Return
  <2>3. UNCHANGED <<attempt, opener, reader>>
    BY <1>13 DEF OutputDone
  <2> QED BY <2>1, <2>2, <2>3, TripParts
<1>14. ASSUME NEW c \in Calls, Expire(c) PROVE FreshInv'
  BY <1>14 DEF Expire
<1>15. ASSUME NEW t \in Trips, OpenerReturns(t) PROVE FreshInv'
  BY <1>15 DEF OpenerReturns, Trips
<1>16. ASSUME NEW t \in Trips, ReaderReturns(t) PROVE FreshInv'
  BY <1>16 DEF ReaderReturns, Trips
<1>17. ASSUME NEW t \in Trips, Deliver(t) PROVE FreshInv'
  BY <1>17 DEF Deliver, Trips
<1>18. ASSUME NEW t \in Trips, Serve(t) PROVE FreshInv'
  BY <1>18 DEF Serve, Trips
<1>19. ASSUME NEW n \in Conns, PeerVanishes(n) PROVE FreshInv'
  BY <1>19 DEF PeerVanishes
<1>20. ASSUME NEW n \in Conns, PeerLost(n) PROVE FreshInv'
  BY <1>20 DEF PeerLost
<1>21. ASSUME IdleElapses PROVE FreshInv'
  BY <1>21 DEF IdleElapses
<1>22. ASSUME NodeRestarts PROVE FreshInv'
  BY <1>22 DEF NodeRestarts
<1> QED BY <1>1, <1>2, <1>3, <1>4, <1>5, <1>6, <1>7, <1>8, <1>9, <1>10, <1>11, <1>12, <1>13, <1>14, <1>15, <1>16, <1>17, <1>18, <1>19, <1>20, <1>21, <1>22 DEF Next, CallStep

\* A helper goroutine works on a connection that has been dialed.
LEMMA OriginStep ==
    ASSUME TypeOK, ClientInv, FreshInv, OriginInv, TypeOK', Next PROVE OriginInv'
<1> USE NoneAssumption DEF TypeOK, ClientInv, FreshInv, OriginInv, Steps, Critical, Trip, Trips
<1>1. ASSUME NEW c \in Calls, Begin(c) PROVE OriginInv'
  BY <1>1 DEF Begin, Goto, Answer
<1>2. ASSUME NEW c \in Calls, AcquireGate(c) PROVE OriginInv'
  BY <1>2 DEF AcquireGate, Goto
<1>3. ASSUME NEW c \in Calls, GiveUpWaiting(c) PROVE OriginInv'
  BY <1>3 DEF GiveUpWaiting, Goto, Answer
<1>4. ASSUME NEW c \in Calls, RetireIdleClient(c) PROVE OriginInv'
  BY <1>4 DEF RetireIdleClient, Goto, Answer, Return, Close
<1>5. ASSUME NEW c \in Calls, ReuseClient(c) PROVE OriginInv'
  BY <1>5 DEF ReuseClient, Goto, Trip, Trips
<1>6. ASSUME NEW c \in Calls, DialClient(c) PROVE OriginInv'
  BY <1>6 DEF DialClient, Goto, Trip, Trips
<1>7. ASSUME NEW c \in Calls, DialFails(c) PROVE OriginInv'
  BY <1>7 DEF DialFails, Goto, Answer, Return
<1>8. ASSUME NEW c \in Calls, DropClient(c) PROVE OriginInv'
  <2>1. CASE attempt[c] = 1 /\ ~expired[c]
    BY <1>8, <2>1 DEF DropClient, Goto, Answer, Return, Close, Trip, Trips
  <2>2. CASE ~(attempt[c] = 1 /\ ~expired[c])
    BY <1>8, <2>2 DEF DropClient, Goto, Answer, Return, Close, Trip, Trips
  <2> QED BY <2>1, <2>2
<1>9. ASSUME NEW c \in Calls, StartSession(c) PROVE OriginInv'
  BY <1>9 DEF StartSession, Goto, Trip, Trips
<1>10. ASSUME NEW c \in Calls, SessionTimeout(c) PROVE OriginInv'
  BY <1>10 DEF SessionTimeout, Goto, Close, Trip, Trips
<1>11. ASSUME NEW c \in Calls, SessionReady(c) PROVE OriginInv'
  <2> HIDE DEF Trip, Trips
  <2>1. \A u \in Trips : sess'[u] = "open" => sess[u] = "open"
    BY <1>11, TripOfCall, ClosingSessions DEF SessionReady
  <2>2. UNCHANGED <<via, opener>>
    BY <1>11 DEF SessionReady
  <2>3. \A n \in Conns : conn[n] # "unused" => conn'[n] # "unused"
    BY <1>11 DEF SessionReady, Close
  <2> QED BY <2>1, <2>2, <2>3
<1>12. ASSUME NEW c \in Calls, OutputTimeout(c) PROVE OriginInv'
  <2> HIDE DEF Trip, Trips
  <2>1. \A u \in Trips : sess'[u] = "open" => sess[u] = "open"
    BY <1>12, TripOfCall, ClosingSessions DEF OutputTimeout
  <2>2. UNCHANGED <<via, opener>>
    BY <1>12 DEF OutputTimeout
  <2>3. \A n \in Conns : conn[n] # "unused" => conn'[n] # "unused"
    BY <1>12 DEF OutputTimeout, Close
  <2> QED BY <2>1, <2>2, <2>3
<1>13. ASSUME NEW c \in Calls, OutputDone(c) PROVE OriginInv'
  <2> HIDE DEF Trip, Trips
  <2>1. \A u \in Trips : sess'[u] = "open" => sess[u] = "open"
    BY <1>13, TripOfCall, ClosingSessions DEF OutputDone
  <2>2. UNCHANGED <<via, opener>>
    BY <1>13 DEF OutputDone
  <2>3. \A n \in Conns : conn[n] # "unused" => conn'[n] # "unused"
    BY <1>13 DEF OutputDone
  <2> QED BY <2>1, <2>2, <2>3
<1>14. ASSUME NEW c \in Calls, Expire(c) PROVE OriginInv'
  BY <1>14 DEF Expire
<1>15. ASSUME NEW t \in Trips, OpenerReturns(t) PROVE OriginInv'
  <2>1. CASE conn[via[t]] = "open" /\ peer[via[t]] = "live"
    BY <1>15, <2>1 DEF OpenerReturns, Trips
  <2>2. CASE ~(conn[via[t]] = "open" /\ peer[via[t]] = "live")
    BY <1>15, <2>2 DEF OpenerReturns, Trips
  <2> QED BY <2>1, <2>2
<1>16. ASSUME NEW t \in Trips, ReaderReturns(t) PROVE OriginInv'
  BY <1>16 DEF ReaderReturns, Trips
<1>17. ASSUME NEW t \in Trips, Deliver(t) PROVE OriginInv'
  BY <1>17 DEF Deliver, Trips
<1>18. ASSUME NEW t \in Trips, Serve(t) PROVE OriginInv'
  BY <1>18 DEF Serve, Trips
<1>19. ASSUME NEW n \in Conns, PeerVanishes(n) PROVE OriginInv'
  BY <1>19 DEF PeerVanishes
<1>20. ASSUME NEW n \in Conns, PeerLost(n) PROVE OriginInv'
  BY <1>20 DEF PeerLost
<1>21. ASSUME IdleElapses PROVE OriginInv'
  BY <1>21 DEF IdleElapses
<1>22. ASSUME NodeRestarts PROVE OriginInv'
  BY <1>22 DEF NodeRestarts
<1> QED BY <1>1, <1>2, <1>3, <1>4, <1>5, <1>6, <1>7, <1>8, <1>9, <1>10, <1>11, <1>12, <1>13, <1>14, <1>15, <1>16, <1>17, <1>18, <1>19, <1>20, <1>21, <1>22 DEF Next, CallStep

\* A helper goroutine on an open connection is one its call still waits for.
LEMMA HelperStep ==
    ASSUME TypeOK, GateInv, ClientInv, FreshInv, OriginInv, HelperInv, TypeOK', Next PROVE HelperInv'
<1> USE NoneAssumption DEF TypeOK, GateInv, ClientInv, FreshInv, OriginInv, HelperInv, Steps, Critical, Trip, Trips
<1>1. ASSUME NEW c \in Calls, Begin(c) PROVE HelperInv'
  BY <1>1 DEF Begin, Goto, Answer
<1>2. ASSUME NEW c \in Calls, AcquireGate(c) PROVE HelperInv'
  BY <1>2 DEF AcquireGate, Goto
<1>3. ASSUME NEW c \in Calls, GiveUpWaiting(c) PROVE HelperInv'
  BY <1>3 DEF GiveUpWaiting, Goto, Answer
<1>4. ASSUME NEW c \in Calls, RetireIdleClient(c) PROVE HelperInv'
  BY <1>4 DEF RetireIdleClient, Goto, Answer, Return, Close
<1>5. ASSUME NEW c \in Calls, ReuseClient(c) PROVE HelperInv'
  BY <1>5 DEF ReuseClient, Goto, Trip, Trips
<1>6. ASSUME NEW c \in Calls, DialClient(c) PROVE HelperInv'
  BY <1>6 DEF DialClient, Goto, Trip, Trips
<1>7. ASSUME NEW c \in Calls, DialFails(c) PROVE HelperInv'
  BY <1>7 DEF DialFails, Goto, Answer, Return
<1>8. ASSUME NEW c \in Calls, DropClient(c) PROVE HelperInv'
  BY <1>8 DEF DropClient, Goto, Answer, Return, Close, Trip, Trips
<1>9. ASSUME NEW c \in Calls, StartSession(c) PROVE HelperInv'
  BY <1>9 DEF StartSession, Goto, Trip, Trips
<1>10. ASSUME NEW c \in Calls, SessionTimeout(c) PROVE HelperInv'
  BY <1>10 DEF SessionTimeout, Goto, Close, Trip, Trips
<1>11. ASSUME NEW c \in Calls, SessionReady(c) PROVE HelperInv'
  <2> HIDE DEF Trip, Trips
  <2> DEFINE t == Trip(c)
  <2> USE TripParts
  <2>1. /\ t \in Trips /\ t[1] = c /\ t[2] = attempt[c]
        /\ \A u \in Trips : u[1] = c /\ u[2] = attempt[c] => u = t
    BY TripOfCall
  <2>2. /\ pc[c] = "session" /\ opener[t] \in {"session", "error"}
        /\ via[t] = client /\ client \in Conns
    BY <1>11 DEF SessionReady
  <2>3. UNCHANGED <<attempt, via, opener>>
    BY <1>11 DEF SessionReady
  <2>4. CASE expired[c] \* the connection is closed: no premise holds afterwards
    <3>1. conn' = [conn EXCEPT ![client] = "closed"] /\ reader' = reader
      BY <1>11, <2>2, <2>4 DEF SessionReady, Close
    <3>2. \A n \in Conns : conn'[n] # "open"
      BY <3>1
    <3>3. \A u \in Trips : sess'[u] = "open" => sess[u] = "open"
      BY <1>11, <2>1, ClosingSessions DEF SessionReady
    <3> QED BY <2>3, <3>1, <3>2, <3>3
  <2>5. CASE ~expired[c] /\ opener[t] = "session"
    <3>1. /\ pc' = [pc EXCEPT ![c] = "output"] /\ reader' = [reader EXCEPT ![t] = "reading"]
          /\ UNCHANGED <<sess, conn>>
      BY <1>11, <2>5 DEF SessionReady, Goto
    <3> HIDE DEF t
    <3> QED BY <2>1, <2>2, <2>3, <2>5, <3>1
  <2>6. CASE ~expired[c] /\ opener[t] = "error"
    <3>1. pc' = [pc EXCEPT ![c] = "drop"] /\ UNCHANGED <<sess, conn, reader>>
      BY <1>11, <2>6 DEF SessionReady, Goto
    <3> HIDE DEF t
    <3> QED BY <2>1, <2>2, <2>3, <2>6, <3>1
  <2> QED BY <1>11, <2>4, <2>5, <2>6 DEF SessionReady
<1>12. ASSUME NEW c \in Calls, OutputTimeout(c) PROVE HelperInv'
  BY <1>12 DEF OutputTimeout, Goto, Close, CloseSession, Trip, Trips
<1>13. ASSUME NEW c \in Calls, OutputDone(c) PROVE HelperInv'
  <2> HIDE DEF Trip, Trips
  <2> DEFINE t == Trip(c)
  <2> USE TripParts
  <2>1. /\ t \in Trips /\ t[1] = c /\ t[2] = attempt[c]
        /\ \A u \in Trips : u[1] = c /\ u[2] = attempt[c] => u = t
    BY TripOfCall
  <2>2. pc[c] = "output" /\ reader[t] # "reading"
    BY <1>13 DEF OutputDone
  <2>3. \E s \in {"done", "drop"} : pc' = [pc EXCEPT ![c] = s]
    BY <1>13 DEF OutputDone, Goto, Answer, Return
  <2>4. UNCHANGED <<attempt, via, opener, reader, conn>>
    BY <1>13 DEF OutputDone
  <2>5. sess'[t] # "open" /\ \A u \in Trips : sess'[u] = "open" => sess[u] = "open"
    BY <1>13, <2>1 DEF OutputDone, CloseSession
  <2> HIDE DEF t
  <2> QED BY <2>1, <2>2, <2>3, <2>4, <2>5
<1>14. ASSUME NEW c \in Calls, Expire(c) PROVE HelperInv'
  BY <1>14 DEF Expire
<1>15. ASSUME NEW t \in Trips, OpenerReturns(t) PROVE HelperInv'
  BY <1>15 DEF OpenerReturns, Trips
<1>16. ASSUME NEW t \in Trips, ReaderReturns(t) PROVE HelperInv'
  BY <1>16 DEF ReaderReturns, Trips
<1>17. ASSUME NEW t \in Trips, Deliver(t) PROVE HelperInv'
  BY <1>17 DEF Deliver, Trips
<1>18. ASSUME NEW t \in Trips, Serve(t) PROVE HelperInv'
  BY <1>18 DEF Serve, Trips
<1>19. ASSUME NEW n \in Conns, PeerVanishes(n) PROVE HelperInv'
  BY <1>19 DEF PeerVanishes
<1>20. ASSUME NEW n \in Conns, PeerLost(n) PROVE HelperInv'
  BY <1>20 DEF PeerLost
<1>21. ASSUME IdleElapses PROVE HelperInv'
  BY <1>21 DEF IdleElapses
<1>22. ASSUME NodeRestarts PROVE HelperInv'
  BY <1>22 DEF NodeRestarts
<1> QED BY <1>1, <1>2, <1>3, <1>4, <1>5, <1>6, <1>7, <1>8, <1>9, <1>10, <1>11, <1>12, <1>13, <1>14, <1>15, <1>16, <1>17, <1>18, <1>19, <1>20, <1>21, <1>22 DEF Next, CallStep

\* A call that goes on to drop its connection in time has no decoded answer.
LEMMA AnswerStep ==
    ASSUME TypeOK, ClientInv, FreshInv, OriginInv, HelperInv, AnswerInv, TypeOK', Next PROVE AnswerInv'
<1> USE NoneAssumption DEF TypeOK, ClientInv, FreshInv, OriginInv, HelperInv, AnswerInv, Trip, Trips, Replies, Answered
<1>1. ASSUME NEW c \in Calls, Begin(c) PROVE AnswerInv'
  BY <1>1 DEF Begin, Goto, Answer
<1>2. ASSUME NEW c \in Calls, AcquireGate(c) PROVE AnswerInv'
  BY <1>2 DEF AcquireGate, Goto
<1>3. ASSUME NEW c \in Calls, GiveUpWaiting(c) PROVE AnswerInv'
  BY <1>3 DEF GiveUpWaiting, Goto, Answer
<1>4. ASSUME NEW c \in Calls, RetireIdleClient(c) PROVE AnswerInv'
  BY <1>4 DEF RetireIdleClient, Goto, Answer, Return, Close
<1>5. ASSUME NEW c \in Calls, ReuseClient(c) PROVE AnswerInv'
  BY <1>5 DEF ReuseClient, Goto, Trip, Trips
<1>6. ASSUME NEW c \in Calls, DialClient(c) PROVE AnswerInv'
  BY <1>6 DEF DialClient, Goto, Trip, Trips
<1>7. ASSUME NEW c \in Calls, DialFails(c) PROVE AnswerInv'
  BY <1>7 DEF DialFails, Goto, Answer, Return
<1>8. ASSUME NEW c \in Calls, DropClient(c) PROVE AnswerInv'
  <2>1. CASE attempt[c] = 1 /\ ~expired[c]
    BY <1>8, <2>1 DEF DropClient, Goto, Answer, Return, Close, Trip, Trips
  <2>2. CASE ~(attempt[c] = 1 /\ ~expired[c])
    BY <1>8, <2>2 DEF DropClient, Goto, Answer, Return, Close, Trip, Trips
  <2> QED BY <2>1, <2>2
<1>9. ASSUME NEW c \in Calls, StartSession(c) PROVE AnswerInv'
  BY <1>9 DEF StartSession, Goto, Trip, Trips
<1>10. ASSUME NEW c \in Calls, SessionTimeout(c) PROVE AnswerInv'
  BY <1>10 DEF SessionTimeout, Goto, Close, Trip, Trips
<1>11. ASSUME NEW c \in Calls, SessionReady(c) PROVE AnswerInv'
  <2> HIDE DEF Trip, Trips
  <2> DEFINE t == Trip(c)
  <2> USE TripParts
  <2>1. /\ t \in Trips /\ t[1] = c /\ t[2] = attempt[c]
        /\ \A u \in Trips : u[1] = c /\ u[2] = attempt[c] => u = t
    BY TripOfCall
  <2>2. pc[c] = "session" /\ reader[t] = "none"
    BY <1>11, <2>1 DEF SessionReady
  <2>3. /\ reader'[t] # "reply" /\ \A u \in Trips : u # t => reader'[u] = reader[u]
        /\ UNCHANGED <<attempt, expired, served>>
    BY <1>11, <2>1, <2>2 DEF SessionReady
  <2>4. \E s \in {"output", "drop"} : pc' = [pc EXCEPT ![c] = s]
    BY <1>11 DEF SessionReady, Goto
  <2> HIDE DEF t
  <2> QED BY <2>1, <2>3, <2>4
<1>12. ASSUME NEW c \in Calls, OutputTimeout(c) PROVE AnswerInv'
  BY <1>12 DEF OutputTimeout, Goto, Close, CloseSession, Trip, Trips
<1>13. ASSUME NEW c \in Calls, OutputDone(c) PROVE AnswerInv'
  <2>1. CASE reader[Trip(c)] = "reply" /\ served[Trip(c)] # "unusable"
    BY <1>13, <2>1 DEF OutputDone, Goto, Answer, Return, CloseSession, Trip, Trips
  <2>2. CASE ~(reader[Trip(c)] = "reply" /\ served[Trip(c)] # "unusable")
    BY <1>13, <2>2 DEF OutputDone, Goto, Answer, Return, CloseSession, Trip, Trips
  <2> QED BY <2>1, <2>2
<1>14. ASSUME NEW c \in Calls, Expire(c) PROVE AnswerInv'
  BY <1>14 DEF Expire
<1>15. ASSUME NEW t \in Trips, OpenerReturns(t) PROVE AnswerInv'
  BY <1>15 DEF OpenerReturns, Trips
<1>16. ASSUME NEW t \in Trips, ReaderReturns(t) PROVE AnswerInv'
  BY <1>16 DEF ReaderReturns, Trips
<1>17. ASSUME NEW t \in Trips, Deliver(t) PROVE AnswerInv'
  BY <1>17 DEF Deliver, Trips
<1>18. ASSUME NEW t \in Trips, Serve(t) PROVE AnswerInv'
  BY <1>18 DEF Serve, Trips
<1>19. ASSUME NEW n \in Conns, PeerVanishes(n) PROVE AnswerInv'
  BY <1>19 DEF PeerVanishes
<1>20. ASSUME NEW n \in Conns, PeerLost(n) PROVE AnswerInv'
  BY <1>20 DEF PeerLost
<1>21. ASSUME IdleElapses PROVE AnswerInv'
  BY <1>21 DEF IdleElapses
<1>22. ASSUME NodeRestarts PROVE AnswerInv'
  BY <1>22 DEF NodeRestarts
<1> QED BY <1>1, <1>2, <1>3, <1>4, <1>5, <1>6, <1>7, <1>8, <1>9, <1>10, <1>11, <1>12, <1>13, <1>14, <1>15, <1>16, <1>17, <1>18, <1>19, <1>20, <1>21, <1>22 DEF Next, CallStep

-----------------------------------------------------------------------------
(***************************************************************************)
(* The theorems                                                            *)
(***************************************************************************)

\* The invariant holds when newRPCPool returns.
LEMMA InitInv == Init => Inv
<1> SUFFICES ASSUME Init PROVE Inv
  OBVIOUS
<1> USE DEF Init
<1>1. TypeOK
  BY DEF TypeOK, Steps, Trips
<1>2. GateInv
  BY DEF GateInv, Critical
<1>3. ClientInv
  BY NoneAssumption DEF ClientInv
<1>4. FreshInv
  BY DEF FreshInv
<1>5. OriginInv
  BY NoneAssumption DEF OriginInv
<1>6. HelperInv
  BY DEF HelperInv
<1>7. AnswerInv
  BY TripParts DEF AnswerInv, Answered
<1> QED BY <1>1, <1>2, <1>3, <1>4, <1>5, <1>6, <1>7 DEF Inv

\* Every step of a call, a helper goroutine, the network or the node keeps it.
LEMMA NextInv == ASSUME Inv, [Next]_vars PROVE Inv'
<1>1. CASE Next
  <2>1. TypeOK'
    BY <1>1, TypeStep DEF Inv
  <2> QED
    BY <1>1, <2>1, GateStep, ClientStep, FreshStep, OriginStep, HelperStep, AnswerStep
    DEF Inv
<1>2. CASE UNCHANGED vars
  BY <1>2 DEF vars, Inv, TypeOK, GateInv, ClientInv, FreshInv, OriginInv, HelperInv,
              AnswerInv, Trip, Answered
<1> QED BY <1>1, <1>2

\* Inv holds throughout, for any set of calls and of connections.
THEOREM Invariance == Spec => []Inv
BY InitInv, NextInv, PTL DEF Spec

\* Type correctness of the pool.
THEOREM PoolTypes == Spec => []TypeOK
<1>1. Inv => TypeOK
  BY DEF Inv
<1> QED BY <1>1, Invariance, PTL

\* Whenever the gate is free the pooled client is absent or open, and no other
\* connection is open: no path through call leaves a closed client in the pool
\* or loses an open one.
THEOREM PoolIsClean == Spec => []PoolClean
<1>1. Inv => PoolClean
  BY DEF Inv, GateInv, ClientInv, PoolClean, Critical
<1> QED BY <1>1, Invariance, PTL

\* At most one session is usable, and it is the gate holder's.
THEOREM Serialization == Spec => []SessionsSerialized
<1>1. ASSUME Inv PROVE SessionsSerialized
  <2>1. SUFFICES ASSUME NEW t \in Trips, Usable(t)
                 PROVE  /\ pc[t[1]] \in Critical
                        /\ \A u \in Trips : Usable(u) => u = t
    BY DEF SessionsSerialized
  <2>2. \A u \in Trips : Usable(u) => pc[u[1]] \in Critical /\ attempt[u[1]] = u[2]
    BY <1>1 DEF Inv, HelperInv, Usable, Critical
  <2>3. \A u \in Trips : Usable(u) => u[1] = t[1] /\ u[2] = t[2]
    BY <1>1, <2>1, <2>2, TripParts DEF Inv, GateInv
  <2> QED BY <2>1, <2>2, <2>3 DEF Trips
<1> QED BY <1>1, Invariance, PTL

\* No call's connection is closed under it while it waits.
THEOREM NoForeignClose == Spec => []DeadlineClosesOwnConnection
<1>1. ASSUME Inv PROVE DeadlineClosesOwnConnection
  BY <1>1 DEF Inv, GateInv, ClientInv, DeadlineClosesOwnConnection, Critical
<1> QED BY <1>1, Invariance, PTL

\* A request that was answered, with success or with an RPC error, is not sent
\* again.
THEOREM NoRepeatedAnswer == Spec => []RetryOnlyWithoutAnswer
<1>1. ASSUME Inv PROVE RetryOnlyWithoutAnswer
  <2>1. \A c \in Calls : <<c, 1>> \in Trips /\ <<c, 1>>[1] = c /\ <<c, 1>>[2] = 1
    BY DEF Trips
  <2>2. \A c \in Calls : attempt[c] = 2 => ~Answered(<<c, 1>>)
    BY <1>1, <2>1 DEF Inv, AnswerInv
  <2> QED BY <2>2 DEF RetryOnlyWithoutAnswer, Answered
<1> QED BY <1>1, Invariance, PTL

\* A step of the pool is a step of the exclusive link, or leaves the link alone.
LEMMA LinkStep ==
    ASSUME Inv, Inv', [Next]_vars PROVE [Link!Next]_(Link!linkVars)
<1> USE DEF Link!linkVars
<1>1. /\ \A c \in Calls : pc[c] \in Critical => Holder = c
      /\ (\A c \in Calls : pc[c] \notin Critical) => Holder = None
  BY DEF Inv, GateInv, Holder
<1>2. /\ \A c \in Calls : pc'[c] \in Critical => Holder' = c
      /\ (\A c \in Calls : pc'[c] \notin Critical) => Holder' = None
  BY DEF Inv, GateInv, Holder
<1>3. (\A c \in Calls : pc'[c] \in Critical <=> pc[c] \in Critical) => Holder' = Holder
  BY <1>1, <1>2
<1>4. client' = client /\ conn' = conn => LinkUp' = LinkUp
  BY DEF LinkUp
<1>5. LinkUp \in BOOLEAN /\ LinkUp' \in BOOLEAN
  BY DEF LinkUp
<1>6. ASSUME NEW c \in Calls, pc[c] \in Critical, pc'[c] \in Critical,
             \A d \in Calls : d # c => pc'[d] = pc[d]
      PROVE  [Link!Next]_(Link!linkVars) \* the holder may connect or disconnect
  <2>1. Holder = c /\ Holder' = c
    BY <1>1, <1>2, <1>6
  <2> QED BY <2>1, <1>5 DEF Link!Next, Link!Connect, Link!Disconnect
<1>7. ASSUME NEW c \in Calls, pc[c] \in Critical, pc' = [pc EXCEPT ![c] = "done"],
             LinkUp' \in {LinkUp, FALSE}
      PROVE  Link!Next \* the holder gives the link back
  <2>1. \A d \in Calls : d # c => pc[d] \notin Critical
    BY <1>7 DEF Inv, GateInv
  <2>2. Holder = c /\ Holder' = None
    BY <1>1, <1>2, <1>7, <2>1 DEF Inv, TypeOK, Critical
  <2> QED BY <2>2, <1>7 DEF Link!Next, Link!Release
<1>8. ASSUME UNCHANGED <<pc, client, conn>> PROVE UNCHANGED Link!linkVars
  BY <1>3, <1>4, <1>8
<1> USE DEF Inv, TypeOK, Critical, Steps
<1>9. ASSUME NEW c \in Calls, Begin(c) PROVE UNCHANGED Link!linkVars
  BY <1>3, <1>4, <1>9 DEF Begin, Goto, Answer
<1>10. ASSUME NEW c \in Calls, AcquireGate(c) PROVE Link!Next
  <2>1. \A d \in Calls : pc[d] \notin Critical
    BY <1>10 DEF AcquireGate, GateInv
  <2>2. Holder = None /\ Holder' = c
    BY <1>1, <1>2, <1>10, <2>1 DEF AcquireGate, Goto
  <2>3. LinkUp' = LinkUp
    BY <1>4, <1>10 DEF AcquireGate
  <2> QED BY <2>2, <2>3 DEF Link!Next, Link!Acquire
<1>11. ASSUME NEW c \in Calls, GiveUpWaiting(c) PROVE UNCHANGED Link!linkVars
  BY <1>3, <1>4, <1>11 DEF GiveUpWaiting, Goto, Answer
<1>12. ASSUME NEW c \in Calls, RetireIdleClient(c) PROVE [Link!Next]_(Link!linkVars)
  <2>1. CASE expired[c]
    BY <1>4, <1>7, <1>12, <2>1 DEF RetireIdleClient, Goto, Answer, Return
  <2>2. CASE ~expired[c]
    BY <1>6, <1>12, <2>2 DEF RetireIdleClient, Goto
  <2> QED BY <2>1, <2>2
<1>13. ASSUME NEW c \in Calls, ReuseClient(c) PROVE [Link!Next]_(Link!linkVars)
  BY <1>6, <1>13 DEF ReuseClient, Goto
<1>14. ASSUME NEW c \in Calls, DialClient(c) PROVE [Link!Next]_(Link!linkVars)
  BY <1>6, <1>14 DEF DialClient, Goto
<1>15. ASSUME NEW c \in Calls, DialFails(c) PROVE [Link!Next]_(Link!linkVars)
  BY <1>4, <1>7, <1>15 DEF DialFails, Goto, Answer, Return
<1>16. ASSUME NEW c \in Calls, DropClient(c) PROVE [Link!Next]_(Link!linkVars)
  <2>1. CASE attempt[c] = 1 /\ ~expired[c]
    BY <1>6, <1>16, <2>1 DEF DropClient, Goto
  <2>2. CASE ~(attempt[c] = 1 /\ ~expired[c])
    <3>1. LinkUp' = FALSE
      BY <1>16 DEF DropClient, LinkUp
    <3> QED BY <1>7, <1>16, <2>2, <3>1 DEF DropClient, Goto, Answer, Return
  <2> QED BY <2>1, <2>2
<1>17. ASSUME NEW c \in Calls, StartSession(c) PROVE [Link!Next]_(Link!linkVars)
  BY <1>6, <1>17 DEF StartSession, Goto
<1>18. ASSUME NEW c \in Calls, SessionTimeout(c) PROVE [Link!Next]_(Link!linkVars)
  BY <1>6, <1>18 DEF SessionTimeout, Goto
<1>19. ASSUME NEW c \in Calls, SessionReady(c) PROVE [Link!Next]_(Link!linkVars)
  BY <1>6, <1>19 DEF SessionReady, Goto
<1>20. ASSUME NEW c \in Calls, OutputTimeout(c) PROVE [Link!Next]_(Link!linkVars)
  BY <1>6, <1>20 DEF OutputTimeout, Goto
<1>21. ASSUME NEW c \in Calls, OutputDone(c) PROVE [Link!Next]_(Link!linkVars)
  <2>1. pc[c] = "output" /\ LinkUp' = LinkUp
    BY <1>4, <1>21 DEF OutputDone
  <2>2. CASE pc' = [pc EXCEPT ![c] = "drop"]
    BY <1>6, <2>1, <2>2
  <2>3. CASE pc' = [pc EXCEPT ![c] = "done"]
    BY <1>7, <2>1, <2>3
  <2> QED BY <1>21, <2>2, <2>3 DEF OutputDone, Goto, Answer, Return
<1>22. ASSUME \/ \E c \in Calls : Expire(c)
              \/ \E t \in Trips : OpenerReturns(t) \/ ReaderReturns(t) \/ Deliver(t) \/ Serve(t)
              \/ \E n \in Conns : PeerVanishes(n) \/ PeerLost(n)
              \/ IdleElapses \/ NodeRestarts
       PROVE  UNCHANGED <<pc, client, conn>>
  BY <1>22 DEF Expire, OpenerReturns, ReaderReturns, Deliver, Serve, PeerVanishes, PeerLost,
               IdleElapses, NodeRestarts
<1>23. CASE UNCHANGED vars
  BY <1>8, <1>23 DEF vars
<1> QED
  BY <1>8, <1>9, <1>10, <1>11, <1>12, <1>13, <1>14, <1>15, <1>16, <1>17, <1>18, <1>19,
     <1>20, <1>21, <1>22, <1>23 DEF Next, CallStep

\* The pool implements an exclusive link: one call at a time holds it, and only
\* the holder connects or disconnects.
THEOREM LinkRefinement == Spec => ImplementsExclusiveLink
<1>1. Init => Link!Init
  BY DEF Init, Link!Init, Holder, LinkUp, Critical
<1>2. Inv /\ Inv' /\ [Next]_vars => [Link!Next]_(Link!linkVars)
  BY LinkStep
<1> QED BY <1>1, <1>2, Invariance, PTL DEF Spec, ImplementsExclusiveLink, Link!Spec

-----------------------------------------------------------------------------
(* The search for duplicate files. *)

Files == [ino : Nat, size : Nat, stamp : Nat, content : Contents]
Noted == [size : Nat, id : Nat \X Nat]
Holding == {"opening", "hashing", "sending"}

SearchTypes ==
    /\ disk \in [Search!Names -> Files] /\ changes \in Nat /\ walked \in Nat
    /\ candidate \in [Search!Names -> Noted \cup {None}]
    /\ phase \in {"walk", "hash", "ok", "canceled"} /\ cancelled \in BOOLEAN /\ stopped \in BOOLEAN
    /\ todo \subseteq Search!Names /\ producer \in {"none", "sending", "ended"} /\ closed \in BOOLEAN
    /\ holds \in [Workers -> Search!Names \cup {None}] /\ worker \in [Workers -> {"none", "idle", "ended"} \cup Holding]
    /\ hashed = [w \in Workers |-> hashed[w]] /\ grouped = [p \in Search!Names |-> grouped[p]]

\* Of the links to one inode only the first is a candidate, and what the walk noted is not newer than the last write.
CandidateInv ==
    /\ \A p \in Search!Names : candidate[p] # None =>
          p <= walked /\ candidate[p].id[1] \in seen /\ candidate[p].id[2] <= changes
    /\ \A p, q \in Search!Names :
          p # q /\ candidate[p] # None /\ candidate[q] # None => candidate[p].id[1] # candidate[q].id[1]
    /\ \A p \in Search!Names : disk[p].stamp <= changes

\* Who has ended, and why: as long as nobody cancels, the producer ends with nothing left to hand out, the workers
\* after it and the channel of results after them.
EndInv ==
    /\ phase = "walk" => /\ todo = {} /\ hashes = {} /\ ~closed
                         /\ \A w \in Workers : worker[w] = "none"
                         /\ \A p \in Search!Names : grouped[p] = None
    /\ phase \in {"walk", "hash"} => ~stopped
    /\ phase = "hash" => producer # "none" /\ \A w \in Workers : worker[w] # "none"
    /\ phase = "hash" /\ producer = "ended" => todo = {} \/ cancelled
    /\ phase = "hash" /\ ~cancelled => \A w \in Workers : worker[w] = "ended" => producer = "ended"
    /\ \A w \in Workers : worker[w] \notin Holding => holds[w] = None
    /\ closed => \A w \in Workers : worker[w] = "ended"
    /\ phase = "ok" => todo = {} /\ \A w \in Workers : worker[w] \in {"none", "ended"}

\* A hash is that of the candidate, as long as nobody wrote to the file since the walk saw it.
Exact(p, h) ==
    /\ candidate[p] # None /\ h # Search!Torn
    /\ candidate[p].id = <<disk[p].ino, disk[p].stamp>> => h = disk[p].content

\* What is in the pipeline belongs to candidates.
HashInv ==
    /\ \A p \in todo : candidate[p] # None
    /\ \A w \in Workers : worker[w] \in Holding => holds[w] \in Search!Names /\ candidate[holds[w]] # None
    /\ \A w \in Workers : worker[w] = "sending" => hashed[w] \in {"error", "canceled"} \/ Exact(holds[w], hashed[w])
    /\ \A h \in hashes : h[1] \in Search!Names /\ (h[2] \in {"error", "canceled"} \/ Exact(h[1], h[2]))
    /\ \A p \in Search!Names : grouped[p] # None => Exact(p, grouped[p])

SearchInv == SearchTypes /\ CandidateInv /\ EndInv /\ HashInv

\* A search begins with nothing in its channels.
LEMMA SearchInit == SaneSearch /\ Search!Init => SearchInv
<1> SUFFICES ASSUME SaneSearch, Search!Init PROVE SearchInv
  OBVIOUS
<1>1. SearchTypes
  <2>1. \A k \in Kinds : k \in Files
    BY DEF SaneSearch, Files
  <2>2. disk \in [Search!Names -> Files]
    BY <2>1 DEF Search!Init
  <2>. QED
    BY <2>2 DEF Search!Init, SearchTypes
<1>2. CandidateInv
  BY DEF SaneSearch, Search!Init, CandidateInv
<1>3. EndInv /\ HashInv
  BY DEF Search!Init, EndInv, HashInv, Holding
<1>. QED
  BY <1>1, <1>2, <1>3 DEF SearchInv

\* Steps that only move the goroutines.
PipelineStep ==
    \/ Search!EndProducer \/ Search!CloseHashes \/ Search!Collect \/ Search!Finish \/ Search!Cancel
    \/ Search!WalkCancelled \/ Search!StartHashing \/ \E w \in Workers : Search!Pipeline(w)

\* The walk, the producer, the workers and the collector leave the files alone, and all but the walk the candidates.
LEMMA PipelineLeaves ==
    PipelineStep => UNCHANGED <<disk, changes, walked, seen, candidate>>
  BY DEF PipelineStep, Search!EndProducer, Search!CloseHashes, Search!Collect, Search!Finish, Search!Cancel,
     Search!WalkCancelled, Search!StartHashing, Search!Pipeline, Search!HandOut, Search!openStorageCandidate,
     Search!hashStorageCandidate, Search!HashFails, Search!SendHash, Search!DropHash, Search!EndWorker,
     Search!search, Search!pipeline

LEMMA PipelineTypes == ASSUME SearchTypes, HashInv, PipelineStep PROVE SearchTypes'
<1> USE DEF SearchTypes, Holding, Search!search, Search!pipeline
<1>1. CASE Search!EndProducer \/ Search!CloseHashes \/ Search!Finish \/ Search!Cancel \/ Search!WalkCancelled
  BY <1>1 DEF Search!EndProducer, Search!CloseHashes, Search!Finish, Search!Cancel, Search!WalkCancelled
<1>2. CASE Search!Collect
  BY <1>2 DEF Search!Collect
<1>3. CASE Search!StartHashing
  BY <1>3 DEF Search!StartHashing, Search!Sized
<1>4. ASSUME NEW w \in Workers, Search!Pipeline(w) PROVE SearchTypes'
  <2>1. CASE Search!HandOut(w)
    BY <2>1 DEF Search!HandOut
  <2>2. CASE Search!openStorageCandidate(w)
    BY <2>2 DEF Search!openStorageCandidate
  <2>3. CASE Search!hashStorageCandidate(w)
    BY <2>3 DEF Search!hashStorageCandidate
  <2>4. CASE Search!HashFails(w)
    BY <2>4 DEF Search!HashFails
  <2>5. CASE Search!SendHash(w) \/ Search!DropHash(w) \/ Search!EndWorker(w)
    BY <2>5 DEF Search!SendHash, Search!DropHash, Search!EndWorker
  <2>. QED
    BY <1>4, <2>1, <2>2, <2>3, <2>4, <2>5 DEF Search!Pipeline
<1>. QED
  BY <1>1, <1>2, <1>3, <1>4 DEF PipelineStep

LEMMA PipelineEnd == ASSUME SaneSearch, SearchTypes, EndInv, PipelineStep PROVE EndInv'
<1> USE DEF SearchTypes, EndInv, Holding, Search!search, Search!pipeline, Search!Done
<1>1. CASE Search!EndProducer
  BY <1>1 DEF Search!EndProducer
<1>2. CASE Search!CloseHashes \/ Search!Cancel \/ Search!WalkCancelled
  BY <1>2 DEF Search!CloseHashes, Search!Cancel, Search!WalkCancelled
<1>3. CASE Search!Finish
  BY <1>3 DEF Search!Finish, SaneSearch
<1>4. CASE Search!Collect
  BY <1>4 DEF Search!Collect
<1>5. CASE Search!StartHashing
  BY <1>5 DEF Search!StartHashing
<1>6. ASSUME NEW w \in Workers, Search!Pipeline(w) PROVE EndInv'
  <2>1. CASE Search!HandOut(w)
    BY <2>1 DEF Search!HandOut
  <2>2. CASE Search!openStorageCandidate(w) \/ Search!hashStorageCandidate(w) \/ Search!HashFails(w)
    BY <2>2 DEF Search!openStorageCandidate, Search!hashStorageCandidate, Search!HashFails
  <2>3. CASE Search!SendHash(w) \/ Search!DropHash(w)
    BY <2>3 DEF Search!SendHash, Search!DropHash
  <2>4. CASE Search!EndWorker(w)
    BY <2>4 DEF Search!EndWorker
  <2>. QED
    BY <1>6, <2>1, <2>2, <2>3, <2>4 DEF Search!Pipeline
<1>. QED
  BY <1>1, <1>2, <1>3, <1>4, <1>5, <1>6 DEF PipelineStep

LEMMA PipelineHashes == ASSUME SaneSearch, SearchTypes, HashInv, PipelineStep PROVE HashInv'
<1> USE PipelineLeaves DEF SearchTypes, HashInv, Holding, Exact, Search!search, Search!pipeline
<1>1. CASE Search!EndProducer \/ Search!CloseHashes \/ Search!Finish \/ Search!Cancel \/ Search!WalkCancelled
  BY <1>1 DEF Search!EndProducer, Search!CloseHashes, Search!Finish, Search!Cancel, Search!WalkCancelled
<1>2. CASE Search!Collect
  BY <1>2 DEF Search!Collect
<1>3. CASE Search!StartHashing
  BY <1>3 DEF Search!StartHashing, Search!Sized
<1>4. ASSUME NEW w \in Workers, Search!Pipeline(w) PROVE HashInv'
  <2>1. CASE Search!HandOut(w)
    BY <2>1 DEF Search!HandOut
  <2>2. CASE Search!openStorageCandidate(w)
    BY <2>2 DEF Search!openStorageCandidate
  <2>3. CASE Search!hashStorageCandidate(w)
    <3>1. disk[holds[w]].content \in Contents
      BY <2>3 DEF Search!hashStorageCandidate, Files
    <3>. QED
      BY <2>3, <3>1 DEF Search!hashStorageCandidate, SaneSearch
  <2>4. CASE Search!HashFails(w)
    BY <2>4 DEF Search!HashFails
  <2>5. CASE Search!SendHash(w)
    BY <2>5 DEF Search!SendHash
  <2>6. CASE Search!DropHash(w) \/ Search!EndWorker(w)
    BY <2>6 DEF Search!DropHash, Search!EndWorker
  <2>. QED
    BY <1>4, <2>1, <2>2, <2>3, <2>4, <2>5, <2>6 DEF Search!Pipeline
<1>. QED
  BY <1>1, <1>2, <1>3, <1>4 DEF PipelineStep

LEMMA PipelineKeeps == ASSUME SaneSearch, SearchInv, PipelineStep PROVE SearchInv'
<1>1. CandidateInv'
  BY PipelineLeaves DEF SearchInv, CandidateInv
<1>. QED
  BY <1>1, PipelineTypes, PipelineEnd, PipelineHashes DEF SearchInv

\* A path is visited while there is nothing in the pipeline.
LEMMA VisitKeeps == ASSUME SearchInv, NEW p \in Search!Names, Search!Visit(p) PROVE SearchInv'
<1> USE DEF Search!Visit, Search!pipeline
<1>1. SearchTypes'
  <2>1. [size |-> disk[p].size, id |-> <<disk[p].ino, disk[p].stamp>>] \in Noted /\ p \in Nat
    <3>1. disk[p] \in Files
      BY DEF SearchInv, SearchTypes
    <3>. QED
      BY <3>1 DEF Files, Noted, Search!Names
  <2>2. candidate' \in [Search!Names -> Noted \cup {None}]
    BY <2>1 DEF SearchInv, SearchTypes
  <2>. QED
    BY <2>1, <2>2 DEF SearchInv, SearchTypes
<1>2. CandidateInv'
  <2>1. CASE UNCHANGED <<seen, candidate>>
    BY <2>1 DEF SearchInv, SearchTypes, CandidateInv, Search!Names
  <2>2. CASE disk[p].ino \notin seen /\ seen' = seen \cup {disk[p].ino}
        /\ candidate' = [candidate EXCEPT ![p] = [size |-> disk[p].size, id |-> <<disk[p].ino, disk[p].stamp>>]]
    <3>1. candidate'[p].id = <<disk[p].ino, disk[p].stamp>>
      BY <2>2 DEF SearchInv, SearchTypes
    <3>2. \A q \in Search!Names : q # p => candidate'[q] = candidate[q]
      BY <2>2 DEF SearchInv, SearchTypes
    <3>3. \A q \in Search!Names : q <= walked => q <= walked'
      BY DEF SearchInv, SearchTypes, Search!Names
    <3>. QED
      BY <2>2, <3>1, <3>2, <3>3 DEF SearchInv, SearchTypes, CandidateInv, Search!Names
  <2>. QED
    BY <2>1, <2>2
<1>3. EndInv' /\ HashInv'
  BY DEF SearchInv, EndInv, HashInv, SearchTypes, Holding
<1>. QED
  BY <1>1, <1>2, <1>3 DEF SearchInv

\* A file that is written to.
Rewritten(f, c, n) == [f EXCEPT !.content = c, !.stamp = n]
LEMMA Written ==
    ASSUME NEW f \in Files, NEW c \in Contents, NEW n \in Nat
    PROVE  Rewritten(f, c, n) \in Files /\ Rewritten(f, c, n).stamp = n
  BY DEF Files, Rewritten

\* After a write the file is not what the walk noted.
LEMMA WriteKeeps == ASSUME SearchInv, SaneSearch, NEW p \in Search!Names, Search!Write(p) PROVE SearchInv'
<1>0. PICK c \in Contents :
        disk' = [q \in Search!Names |-> IF disk[q].ino = disk[p].ino
                                        THEN Rewritten(disk[q], c, changes + 1) ELSE disk[q]]
  BY DEF Search!Write, Contents, Rewritten
<1>1. /\ changes' = changes + 1
      /\ UNCHANGED <<walked, seen, candidate, phase, cancelled, stopped, todo, producer, holds, worker, opened,
                     hashed, hashes, closed, grouped>>
  BY DEF Search!Write, Search!search, Search!pipeline
<1>2. ASSUME NEW q \in Search!Names
      PROVE /\ disk'[q] \in Files /\ disk'[q].stamp <= changes'
            /\ disk'[q] = disk[q] \/ disk'[q].stamp = changes + 1
  <2>1. disk[q] \in Files /\ disk[q].stamp \in Nat /\ disk[q].stamp <= changes /\ changes \in Nat
    BY DEF SearchInv, SearchTypes, CandidateInv, Files
  <2>2. CASE disk[q].ino = disk[p].ino
    <3>1. disk'[q] = Rewritten(disk[q], c, changes + 1)
      BY <1>0, <2>2
    <3>2. disk'[q] \in Files /\ disk'[q].stamp = changes + 1
      BY <2>1, <3>1, Written
    <3>. QED
      BY <1>1, <2>1, <3>2
  <2>3. CASE disk[q].ino # disk[p].ino
    <3>1. disk'[q] = disk[q]
      BY <1>0, <2>3
    <3>. QED
      BY <1>1, <2>1, <3>1
  <2>. QED
    BY <2>2, <2>3
<1>3. SearchTypes'
  <2>1. disk' = [q \in Search!Names |-> disk'[q]]
    BY <1>0, Zenon
  <2>2. disk' \in [Search!Names -> Files]
    BY <1>2, <2>1
  <2>. QED
    BY <1>1, <2>2 DEF SearchInv, SearchTypes
<1>4. CandidateInv'
  BY <1>1, <1>2 DEF SearchInv, SearchTypes, CandidateInv, Noted
<1>5. EndInv'
  BY <1>1 DEF SearchInv, EndInv
<1>6. ASSUME NEW q \in Search!Names, candidate[q] # None
      PROVE disk'[q] = disk[q] \/ candidate[q].id # <<disk'[q].ino, disk'[q].stamp>>
  BY <1>2, <1>6 DEF SearchInv, SearchTypes, CandidateInv, Noted
<1>7. HashInv'
  BY <1>1, <1>6 DEF SearchInv, SearchTypes, HashInv, Exact, Holding
<1>. QED
  BY <1>3, <1>4, <1>5, <1>7 DEF SearchInv

\* Every reachable state of a search satisfies the inductive invariant.
THEOREM SearchInvariant == Search!Init /\ [][Search!Next]_(Search!vars) => []SearchInv
<1> SUFFICES ASSUME SaneSearch PROVE Search!Init /\ [][Search!Next]_(Search!vars) => []SearchInv
  BY SearchAssumption
<1>1. Search!Init => SearchInv
  BY SearchInit
<1>2. SearchInv /\ [Search!Next]_(Search!vars) => SearchInv'
  <2> SUFFICES ASSUME SearchInv, [Search!Next]_(Search!vars) PROVE SearchInv'
    OBVIOUS
  <2>1. CASE PipelineStep
    BY <2>1, PipelineKeeps
  <2>2. ASSUME NEW p \in Search!Names, Search!Visit(p) PROVE SearchInv'
    BY <2>2, VisitKeeps
  <2>3. ASSUME NEW p \in Search!Names, Search!Write(p) PROVE SearchInv'
    BY <2>3, WriteKeeps
  <2>4. CASE UNCHANGED Search!vars
    BY <2>4 DEF Search!vars, Search!search, Search!pipeline, SearchInv, SearchTypes, CandidateInv, EndInv, HashInv, Exact
  <2>. QED
    BY <2>1, <2>2, <2>3, <2>4 DEF Search!Next, PipelineStep
<1>. QED
  BY <1>1, <1>2, PTL

\* The searches of the run: behaviours of DuplicateSearch, whatever the calls do.
LEMMA SearchOfRun == GoroutinesSpec => Search!Init /\ [][Search!Next]_(Search!vars)
<1>1. GoroutinesInit => Search!Init
  BY DEF GoroutinesInit
<1>2. [GoroutinesNext]_allVars => [Search!Next]_(Search!vars)
  BY DEF GoroutinesNext, OfCalls, OfSearch, allVars, searchVars, Search!vars, Search!search, Search!pipeline
<1>. QED
  BY <1>1, <1>2, PTL DEF GoroutinesSpec

\* Whatever the order of producer, workers and collector, and whatever other programs write meanwhile: a search that
\* returns groups has accounted for every candidate, never groups two links to one inode or a file that was read
\* while it was written, and a grouped file that nobody wrote to holds the content of its group - for any number of
\* paths, workers and writes and any files (scanStorageDuplicatesWithPolicy, hashStorageCandidate).
THEOREM GroupsExact == GoroutinesSpec => []GroupsAreExact
<1> SUFFICES ASSUME SaneSearch PROVE GoroutinesSpec => []GroupsAreExact
  BY SearchAssumption
<1>1. SearchInv => GroupsAreExact
  BY DEF SearchInv, SearchTypes, CandidateInv, EndInv, HashInv, Exact, Holding, GroupsAreExact, Search!GroupsAreExact,
     Search!Untouched
<1>. QED
  BY <1>1, SearchOfRun, SearchInvariant, PTL
=============================================================================
