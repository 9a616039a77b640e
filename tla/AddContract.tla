---------------------------- MODULE AddContract ----------------------------
(***************************************************************************)
(* What POST /add promises, with nothing said of how it is kept: no        *)
(* documents, replies, hashes, attempts or models.  A path remembers the   *)
(* set of message lists that the memory stored there answers for, empty    *)
(* while nothing is stored.  A call is answered                            *)
(*   "ok"          200: the path answers for the caller's messages;        *)
(*   "conflict"    409: the path answers for other messages only;          *)
(*   "unavailable" 503, or "lost" when no answer reached the caller: the   *)
(*                 memory may or may not have been written, and may still  *)
(*                 be written later.                                       *)
(* MemoryAdd implements this specification.                                *)
(***************************************************************************)
CONSTANTS
    Workers,   \* concurrent callers of Add
    Requests,  \* what a caller may ask to remember: records with a msgs field
    Paths,     \* where a memory is kept
    PathOf(_), \* the path of a request
    Payloads   \* lists of messages

VARIABLES
    memory,  \* memory[p]: the message lists that p answers for
    call,    \* call[w]: the state of worker w's call
    asked,   \* asked[w]: the request of worker w's latest call
    pending  \* requests nobody waits for whose write may still land

vars == <<memory, call, asked, pending>>

Answers == {"ok", "conflict", "unavailable", "lost"}

Init ==
    /\ memory \in [Paths -> SUBSET Payloads]
    /\ call = [w \in Workers |-> "idle"]
    /\ asked \in [Workers -> Requests]
    /\ pending = {}

Call(w, r) ==
    /\ call[w] # "open"
    /\ call' = [call EXCEPT ![w] = "open"]
    /\ asked' = [asked EXCEPT ![w] = r]
    /\ UNCHANGED <<memory, pending>>

\* The write of an outstanding request takes effect, on an empty path only.
Remember(r) ==
    /\ r \in pending \/ \E w \in Workers : call[w] = "open" /\ asked[w] = r
    /\ memory[PathOf(r)] = {}
    /\ memory' = [memory EXCEPT ![PathOf(r)] = {r.msgs}]
    /\ pending' \in {pending, pending \ {r}}
    /\ UNCHANGED <<call, asked>>

Settle(w) ==
    LET held == memory[PathOf(asked[w])] IN
    /\ call[w] = "open"
    /\ \/ /\ asked[w].msgs \in held
          /\ call' = [call EXCEPT ![w] = "ok"]
       \/ /\ held # {} /\ asked[w].msgs \notin held
          /\ call' = [call EXCEPT ![w] = "conflict"]
    /\ UNCHANGED <<memory, asked, pending>>

\* The call fails; its write may be left behind.
Fail(w) ==
    /\ call[w] = "open"
    /\ \E a \in {"unavailable", "lost"} : call' = [call EXCEPT ![w] = a]
    /\ pending' \in {pending, pending \cup {asked[w]}}
    /\ UNCHANGED <<memory, asked>>

\* A write is left behind by a call that goes on.
Abandon(w) ==
    /\ call[w] = "open"
    /\ pending' = pending \cup {asked[w]}
    /\ UNCHANGED <<memory, call, asked>>

Discard(r) ==
    /\ r \in pending
    /\ pending' = pending \ {r}
    /\ UNCHANGED <<memory, call, asked>>

\* An operator removes a memory, with no call open and no write left behind.
Forget(p) ==
    /\ pending = {} /\ \A w \in Workers : call[w] # "open"
    /\ memory' = [memory EXCEPT ![p] = {}]
    /\ UNCHANGED <<call, asked, pending>>

Next ==
    \/ \E w \in Workers :
          \/ \E r \in Requests : Call(w, r)
          \/ Settle(w) \/ Fail(w) \/ Abandon(w)
    \/ \E r \in Requests : Remember(r) \/ Discard(r)
    \/ \E p \in Paths : Forget(p)

Spec == Init /\ [][Next]_vars
=============================================================================
