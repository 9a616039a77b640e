------------------------- MODULE MarkReadPoolProofs -------------------------
(***************************************************************************)
(* For any number of goroutines, connections and attempts: the pool leaks  *)
(* no connection, and the adapter never closes one under a live request.   *)
(***************************************************************************)
EXTENDS MarkReadPool, TLAPS

USE DEF Goto, Hold

\* The initial state is typed.
LEMMA TypeInit == Init => TypeOK
<1>1. 1 \in 1 .. MaxAttempts
  BY PoolAssumption
<1>2. QED
  BY <1>1 DEF Init, TypeOK, Ended

\* Every step keeps the types.
LEMMA TypeNext == TypeOK /\ [Next]_vars => TypeOK'
<1> SUFFICES ASSUME TypeOK, [Next]_vars PROVE TypeOK'
  OBVIOUS
<1> USE DEF TypeOK, Ended
<1>1. ASSUME NEW g \in Goroutines, Request(g) PROVE TypeOK'
  BY <1>1, PoolAssumption DEF Request
<1>2. ASSUME NEW g \in Goroutines, ReadPool(g) \/ CheckConn(g) PROVE TypeOK'
  BY <1>2 DEF ReadPool, CheckConn
<1>3. ASSUME NEW g \in Goroutines, Dial(g) \/ DialFails(g) PROVE TypeOK'
  BY <1>3 DEF Dial, DialFails
<1>4. ASSUME NEW g \in Goroutines, StoreConn(g) PROVE TypeOK'
  BY <1>4 DEF StoreConn
<1>5. ASSUME NEW g \in Goroutines, Answered(g) \/ RequestFails(g) PROVE TypeOK'
  BY <1>5 DEF Answered, RequestFails
<1>6. ASSUME NEW g \in Goroutines, RemoveConn(g) \/ GiveUp(g) PROVE TypeOK'
  BY <1>6 DEF RemoveConn, GiveUp
<1>7. ASSUME NEW g \in Goroutines, Retry(g) PROVE TypeOK'
  BY <1>7, PoolAssumption DEF Retry
<1>8. ASSUME NEW c \in Conns, Break(c) \/ Expire(c) PROVE TypeOK'
  BY <1>8 DEF Break, Expire
<1>9. CASE Heal \/ Close \/ Exited \/ UNCHANGED vars
  BY <1>9 DEF Heal, Close, Exited, vars
<1>10. QED
  BY <1>1, <1>2, <1>3, <1>4, <1>5, <1>6, <1>7, <1>8, <1>9 DEF Next, Step

\* No connection is open at first.
LEMMA IInvInit == Init => IInv
  BY TypeInit DEF Init, IInv, NoLeak, Holding, Alive

\* Every step keeps the invariant.
LEMMA IInvNext == IInv /\ [Next]_vars => IInv'
<1> SUFFICES ASSUME IInv, [Next]_vars PROVE IInv'
  OBVIOUS
<1>1. TypeOK'
  BY TypeNext DEF IInv
<1> USE DEF IInv, TypeOK, Alive
<1>2. ASSUME NEW g \in Goroutines, Request(g) PROVE NoLeak' /\ Holding'
  BY <1>2 DEF Request, NoLeak, Holding, Ended
<1>3. ASSUME NEW g \in Goroutines, ReadPool(g) PROVE NoLeak' /\ Holding'
  BY <1>3 DEF ReadPool, NoLeak, Holding
<1>4. ASSUME NEW g \in Goroutines, CheckConn(g) PROVE NoLeak' /\ Holding'
  BY <1>4 DEF CheckConn, NoLeak, Holding
<1>5. ASSUME NEW g \in Goroutines, Dial(g) PROVE NoLeak' /\ Holding'
  <2>1. PICK c \in Conns : Forgotten(c) /\ state' = [state EXCEPT ![c] = "live"]
                           /\ conn' = [conn EXCEPT ![g] = c]
    BY <1>5 DEF Dial
  <2>2. pc[g] = "dial" /\ pc' = [pc EXCEPT ![g] = "store"] /\ pool' = pool
    BY <1>5 DEF Dial
  <2>3. NoLeak'
    BY <2>1, <2>2 DEF NoLeak, Forgotten
  <2>4. ASSUME NEW h \in Goroutines
        PROVE  /\ pc'[h] \in {"store", "request", "remove"} => conn'[h] \in Conns
               /\ pc'[h] = "remove" => ~Alive(conn[h])'
               /\ pc'[h] = "store" =>
                     /\ pool' # conn'[h]
                     /\ \A k \in Goroutines \ {h} : conn'[k] # conn'[h]
    BY <2>1, <2>2 DEF Holding, Forgotten
  <2>5. QED
    BY <2>3, <2>4 DEF Holding
<1>6. ASSUME NEW g \in Goroutines, DialFails(g) PROVE NoLeak' /\ Holding'
  BY <1>6, PoolAssumption DEF DialFails, NoLeak, Holding
<1>7. ASSUME NEW g \in Goroutines, StoreConn(g) PROVE NoLeak' /\ Holding'
  <2>1. pc[g] = "store" /\ conn[g] \in Conns /\ pool # conn[g]
        /\ \A h \in Goroutines \ {g} : conn[h] # conn[g]
    BY <1>7 DEF StoreConn, Holding
  <2>2. CASE Alive(pool)
    BY <1>7, <2>1, <2>2 DEF StoreConn, NoLeak, Holding
  <2>3. CASE ~Alive(pool)
    BY <1>7, <2>1, <2>3 DEF StoreConn, NoLeak, Holding
  <2>4. QED
    BY <2>2, <2>3
<1>8. ASSUME NEW g \in Goroutines, Answered(g) PROVE NoLeak' /\ Holding'
  BY <1>8, PoolAssumption DEF Answered, NoLeak, Holding
<1>9. ASSUME NEW g \in Goroutines, RequestFails(g) PROVE NoLeak' /\ Holding'
  BY <1>9 DEF RequestFails, NoLeak, Holding
<1>10. ASSUME NEW g \in Goroutines, RemoveConn(g) PROVE NoLeak' /\ Holding'
  BY <1>10, PoolAssumption DEF RemoveConn, NoLeak, Holding
<1>11. ASSUME NEW g \in Goroutines, Retry(g) \/ GiveUp(g) PROVE NoLeak' /\ Holding'
  BY <1>11, PoolAssumption DEF Retry, GiveUp, NoLeak, Holding
<1>12. ASSUME NEW c \in Conns, Break(c) \/ Expire(c) PROVE NoLeak' /\ Holding'
  BY <1>12 DEF Break, Expire, NoLeak, Holding
<1>13. CASE Heal \/ UNCHANGED vars
  BY <1>13 DEF Heal, vars, NoLeak, Holding
<1>14. CASE Close \/ Exited
  BY <1>14, PoolAssumption DEF Close, Exited, vars, NoLeak, Holding, Ended
<1>15. QED
  BY <1>1, <1>2, <1>3, <1>4, <1>5, <1>6, <1>7, <1>8, <1>9, <1>10, <1>11, <1>12,
     <1>13, <1>14 DEF Next, Step

\* Every variable keeps its type: attempts stay within markMaxAttempts.
THEOREM PoolTypeCorrect == Spec => []TypeOK
  BY TypeInit, TypeNext, PTL DEF Spec

\* The inductive invariant holds: a connection that was dialed and not stored
\* yet is its dialer's alone.
THEOREM PoolInvariant == Spec => []IInv
  BY IInvInit, IInvNext, PTL DEF Spec

\* A connection that has not ended is pooled or about to be.
THEOREM PoolLeaksNothing == Spec => []NoLeak
<1>1. IInv => NoLeak
  BY DEF IInv
<1>2. QED
  BY <1>1, PoolInvariant, PTL

\* No request loses its live connection to the adapter itself.
THEOREM NobodyIsCut == Spec => NoSelfCut
<1>1. ASSUME IInv, [Next]_vars, NEW c \in Conns, state[c] = "live", state'[c] = "closed",
             NEW g \in Goroutines, pc[g] = "request"
      PROVE  conn[g] # c
  <2>1. PICK h \in Goroutines :
           (StoreConn(h) /\ conn[h] = c) \/ (RemoveConn(h) /\ conn[h] = c) \/ Close
    BY <1>1
    DEF Next, Step, Request, ReadPool, CheckConn, Dial, DialFails, StoreConn, Answered,
        RequestFails, RemoveConn, Retry, GiveUp, Break, Expire, Heal, Close, Exited,
        vars, IInv, TypeOK
  <2>2. QED
    BY <1>1, <2>1 DEF StoreConn, RemoveConn, Close, Ended, IInv, Holding, Alive
<1>2. IInv /\ [Next]_vars => [\A c \in Conns : state[c] = "live" /\ state'[c] = "closed" =>
          \A g \in Goroutines : pc[g] = "request" => conn[g] # c]_vars
  BY <1>1
<1>3. QED
  BY <1>2, IInvInit, IInvNext, PTL DEF Spec, NoSelfCut
=============================================================================
