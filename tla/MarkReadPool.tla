---------------------------- MODULE MarkReadPool ----------------------------
(***************************************************************************)
(* markReadClient: requests of any number of goroutines over the one QUIC  *)
(* connection it pools for the demarkus host.  getConn takes the pooled    *)
(* connection if it is live and dials otherwise, without the lock;         *)
(* removeConn drops a connection that a request found dead; retryMarkRead  *)
(* makes up to MaxAttempts attempts.  The steps are the code's critical    *)
(* sections and what it does between them.                                 *)
(*                                                                         *)
(* QUIC is external: a connection is live, stale (the peer is gone and the *)
(* client does not know yet), dead (its context has ended), or closed by   *)
(* the adapter.                                                            *)
(***************************************************************************)
EXTENDS Naturals

CONSTANTS
    Goroutines,  \* goroutines that call Request
    Conns,       \* identities of connections; a forgotten one is used again
    NoConn,
    MaxAttempts  \* markMaxAttempts

ASSUME PoolAssumption ==
    /\ NoConn \notin Conns
    /\ MaxAttempts \in Nat \ {0}

VARIABLES
    pool,     \* conns[host], NoConn when the map has no entry
    state,    \* state[c]: what became of connection c
    pc,       \* pc[g]: where g is in Request, or how its request ended
    conn,     \* conn[g]: the connection g holds
    attempt,  \* attempt[g]: the attempt under way
    faulty,   \* the network and the callers may misbehave
    down      \* the server has shut down

vars == <<pool, state, pc, conn, attempt, faulty, down>>

\* conn.Context().Err() == nil
Alive(c) == c \in Conns /\ state[c] \in {"live", "stale"}

Ended == {"idle", "ok", "error"}

Init ==
    /\ pool = NoConn
    /\ state = [c \in Conns |-> "dead"]
    /\ pc = [g \in Goroutines |-> "idle"]
    /\ conn = [g \in Goroutines |-> NoConn]
    /\ attempt = [g \in Goroutines |-> 1]
    /\ faulty = TRUE
    /\ down = FALSE

Goto(g, step) == pc' = [pc EXCEPT ![g] = step]
Hold(g, c) == conn' = [conn EXCEPT ![g] = c]

Request(g) ==
    /\ ~down /\ pc[g] \in Ended
    /\ Goto(g, "read")
    /\ attempt' = [attempt EXCEPT ![g] = 1]
    /\ UNCHANGED <<pool, state, conn, faulty, down>>

-----------------------------------------------------------------------------
(* getConn.                                                                *)

\* conn := c.conns[host], under the lock
ReadPool(g) ==
    /\ pc[g] = "read"
    /\ Hold(g, pool)
    /\ Goto(g, "check")
    /\ UNCHANGED <<pool, state, attempt, faulty, down>>

\* A bug of this step: the pooled connection is used unchecked.
CheckConnUnchecked(g) ==
    /\ pc[g] = "check"
    /\ Goto(g, IF conn[g] # NoConn THEN "request" ELSE "dial")
    /\ UNCHANGED <<pool, state, conn, attempt, faulty, down>>

CheckConn(g) ==
    /\ pc[g] = "check"
    /\ Goto(g, IF Alive(conn[g]) THEN "request" ELSE "dial")
    /\ UNCHANGED <<pool, state, conn, attempt, faulty, down>>

\* A connection that nothing refers to any more stands for a new one.
Forgotten(c) ==
    ~Alive(c) /\ pool # c /\ \A g \in Goroutines : conn[g] # c

Dial(g) ==
    /\ pc[g] = "dial"
    /\ \E c \in Conns :
          /\ Forgotten(c)
          /\ state' = [state EXCEPT ![c] = "live"]
          /\ Hold(g, c)
    /\ Goto(g, "store")
    /\ UNCHANGED <<pool, attempt, faulty, down>>

DialFails(g) ==
    /\ faulty
    /\ pc[g] = "dial"
    /\ Hold(g, NoConn)
    /\ Goto(g, "failed")
    /\ UNCHANGED <<pool, state, attempt, faulty, down>>

\* Bugs of the second critical section: the entry is not looked at again; the
\* connection another goroutine stored is closed instead of the own one.
StoreConnBlind(g) ==
    /\ pc[g] = "store"
    /\ pool' = conn[g]
    /\ Goto(g, "request")
    /\ UNCHANGED <<state, conn, attempt, faulty, down>>

StoreConnTheOther(g) ==
    /\ pc[g] = "store"
    /\ IF Alive(pool)
       THEN state' = [state EXCEPT ![pool] = "closed"]
       ELSE UNCHANGED state
    /\ pool' = conn[g]
    /\ Goto(g, "request")
    /\ UNCHANGED <<conn, attempt, faulty, down>>

\* Under the lock: another goroutine's live connection wins over the own one,
\* which is closed.
StoreConn(g) ==
    /\ pc[g] = "store"
    /\ IF Alive(pool)
       THEN /\ state' = [state EXCEPT ![conn[g]] = "closed"]
            /\ Hold(g, pool)
            /\ UNCHANGED pool
       ELSE /\ pool' = conn[g]
            /\ UNCHANGED <<state, conn>>
    /\ Goto(g, "request")
    /\ UNCHANGED <<attempt, faulty, down>>

-----------------------------------------------------------------------------
(* requestOnConn, removeConn, retryMarkRead.                               *)

Answered(g) ==
    /\ pc[g] = "request" /\ state[conn[g]] = "live"
    /\ Goto(g, "ok")
    /\ Hold(g, NoConn)
    /\ UNCHANGED <<pool, state, attempt, faulty, down>>

\* A live connection fails a request only in trouble: a timeout, a reset
\* stream, a caller that left.
RequestFails(g) ==
    /\ pc[g] = "request"
    /\ faulty \/ state[conn[g]] # "live"
    /\ Goto(g, IF Alive(conn[g]) THEN "failed" ELSE "remove")
    /\ UNCHANGED <<pool, state, conn, attempt, faulty, down>>

\* A bug of removeConn: whatever is pooled is dropped.
RemoveConnAny(g) ==
    /\ pc[g] = "remove"
    /\ pool' = NoConn
    /\ state' = [state EXCEPT ![conn[g]] = "closed"]
    /\ Goto(g, "failed")
    /\ UNCHANGED <<conn, attempt, faulty, down>>

RemoveConn(g) ==
    /\ pc[g] = "remove"
    /\ pool' = IF pool = conn[g] THEN NoConn ELSE pool
    /\ state' = [state EXCEPT ![conn[g]] = "closed"]
    /\ Goto(g, "failed")
    /\ UNCHANGED <<conn, attempt, faulty, down>>

\* A bug of the retry loop: the attempts are not counted.
RetryUncounted(g) ==
    /\ pc[g] = "failed"
    /\ Hold(g, NoConn)
    /\ Goto(g, "read")
    /\ UNCHANGED <<pool, state, attempt, faulty, down>>

\* Another: one attempt too many.
RetryOnceMore(g) ==
    /\ pc[g] = "failed" /\ attempt[g] <= MaxAttempts
    /\ Hold(g, NoConn)
    /\ attempt' = [attempt EXCEPT ![g] = @ + 1]
    /\ Goto(g, "read")
    /\ UNCHANGED <<pool, state, faulty, down>>

\* After a transient error and the retry delay.
Retry(g) ==
    /\ pc[g] = "failed" /\ attempt[g] < MaxAttempts
    /\ Hold(g, NoConn)
    /\ attempt' = [attempt EXCEPT ![g] = @ + 1]
    /\ Goto(g, "read")
    /\ UNCHANGED <<pool, state, faulty, down>>

\* The last attempt, an error that is not transient, or a caller that left.
GiveUp(g) ==
    /\ pc[g] = "failed"
    /\ attempt[g] = MaxAttempts \/ faulty
    /\ Hold(g, NoConn)
    /\ Goto(g, "error")
    /\ UNCHANGED <<pool, state, attempt, faulty, down>>

-----------------------------------------------------------------------------
(* QUIC and the process.                                                   *)

\* The peer goes away without a word, or closes the connection.
Break(c) ==
    /\ faulty
    /\ state[c] = "live"
    /\ \E s \in {"stale", "dead"} : state' = [state EXCEPT ![c] = s]
    /\ UNCHANGED <<pool, pc, conn, attempt, faulty, down>>

\* The idle timeout ends the context of a connection whose peer is gone.
Expire(c) ==
    /\ state[c] = "stale"
    /\ state' = [state EXCEPT ![c] = "dead"]
    /\ UNCHANGED <<pool, pc, conn, attempt, faulty, down>>

Heal ==
    /\ faulty
    /\ faulty' = FALSE
    /\ UNCHANGED <<pool, state, pc, conn, attempt, down>>

\* Shutdown returned without error, so no handler runs: the deferred Close.
Close ==
    /\ ~down /\ \A g \in Goroutines : pc[g] \in Ended
    /\ down' = TRUE
    /\ pool' = NoConn
    /\ state' = IF pool = NoConn THEN state ELSE [state EXCEPT ![pool] = "closed"]
    /\ UNCHANGED <<pc, conn, attempt, faulty>>

\* main returns.
Exited == down /\ UNCHANGED vars

Step(g) ==
    \/ ReadPool(g) \/ CheckConn(g) \/ Dial(g) \/ DialFails(g) \/ StoreConn(g)
    \/ Answered(g) \/ RequestFails(g) \/ RemoveConn(g) \/ Retry(g) \/ GiveUp(g)

Next ==
    \/ \E g \in Goroutines : Request(g) \/ Step(g)
    \/ \E c \in Conns : Break(c) \/ Expire(c)
    \/ Heal \/ Close \/ Exited

Spec == Init /\ [][Next]_vars

\* Every attempt has a deadline, so a goroutine does not stay in a step, and
\* the idle timeout runs out.  The trouble may last for ever.
Fairness ==
    /\ \A g \in Goroutines : WF_vars(Step(g))
    /\ \A c \in Conns : WF_vars(Expire(c))

FairSpec == Spec /\ Fairness

-----------------------------------------------------------------------------
\* Every variable has its type.
TypeOK ==
    /\ pool \in Conns \cup {NoConn}
    /\ state \in [Conns -> {"live", "stale", "dead", "closed"}]
    /\ pc \in [Goroutines ->
          Ended \cup {"read", "check", "dial", "store", "request", "remove", "failed"}]
    /\ conn \in [Goroutines -> Conns \cup {NoConn}]
    /\ attempt \in [Goroutines -> 1 .. MaxAttempts]
    /\ faulty \in BOOLEAN
    /\ down \in BOOLEAN

\* No connection leaks: one that has not ended is the pooled one, or was just
\* dialed by a goroutine that is about to store or close it.  So requests in
\* flight never keep two connections to the host (mark_read.go:27), and none
\* is left open after Close.
NoLeak ==
    \A c \in Conns : Alive(c) =>
       pool = c \/ \E g \in Goroutines : pc[g] = "store" /\ conn[g] = c

\* The adapter never closes a live connection under a request that uses it.
NoSelfCut ==
    [][\A c \in Conns : state[c] = "live" /\ state'[c] = "closed" =>
          \A g \in Goroutines : pc[g] = "request" => conn[g] # c]_vars

\* Every request ends, though the trouble never does: attempts are bounded
\* (mark_read.go:86).
RequestEnds == \A g \in Goroutines : pc[g] \notin Ended ~> pc[g] \in Ended

\* Once the trouble is over and dead peers have been noticed, an attempt that
\* starts succeeds, whatever connection the pool was left with.
Healthy == ~faulty /\ \A c \in Conns : state[c] # "stale"
Recovers == \A g \in Goroutines : Healthy /\ pc[g] = "read" ~> pc[g] = "ok"

-----------------------------------------------------------------------------
\* What a goroutine holds, by where it is: the inductive part of NoLeak.
Holding ==
    \A g \in Goroutines :
       /\ pc[g] \in {"store", "request", "remove"} => conn[g] \in Conns
       /\ pc[g] = "remove" => ~Alive(conn[g])
       /\ pc[g] = "store" =>
             /\ pool # conn[g]
             /\ \A h \in Goroutines \ {g} : conn[h] # conn[g]

\* The inductive strengthening of NoLeak, and what NoSelfCut follows from: a
\* connection that was dialed and not stored yet is its dialer's alone, and one
\* that is about to be removed has ended (mark_read.go:148-188).
IInv == TypeOK /\ NoLeak /\ Holding
=============================================================================
