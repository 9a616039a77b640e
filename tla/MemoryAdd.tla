----------------------------- MODULE MemoryAdd -----------------------------
(***************************************************************************)
(* POST /add from the handler to the stored document, for any number of    *)
(* concurrent calls.  DemarkusStore.Add reads the document (when a         *)
(* distiller is configured), calls the model, publishes with               *)
(* expected-version 0 and, told of a conflict, reads again.  Each of those *)
(* requests is sent up to MaxAttempts times by retryMarkRead; an attempt   *)
(* that is given up may already have been served, or may be served later.  *)
(* The harness sends a call again after 503 or no answer.                  *)
(*                                                                         *)
(* The demarkus server is external: it is modelled by the statuses Add     *)
(* switches on.  A message list is a payload, equal to another exactly     *)
(* when the source hashes are equal.                                       *)
(***************************************************************************)
EXTENDS Naturals

CONSTANTS
    Workers,         \* goroutines serving POST /add
    Users, Sessions, RequestIDs,
    Payloads,        \* lists of messages, named by their source-hash
    NoHash,          \* the empty source-hash of a document written before hashes
    Bodies,          \* markdown bodies
    LegacyBody,      \* the body renderLegacyMemory gives a list; may collide
    CurrentBody,     \* the body renderMemory gives a list
    NoDoc,           \* no document at a path
    DistillEnabled,  \* ADAPTER_DISTILL: a distiller is configured
    MaxAttempts      \* markMaxAttempts

ASSUME ConstantsAssumption ==
    /\ Users # {} /\ Sessions # {} /\ RequestIDs # {} /\ Payloads # {}
    /\ NoHash \notin Payloads
    /\ LegacyBody \in [Payloads -> Bodies]
    /\ CurrentBody \in [Payloads -> Bodies]
    /\ NoDoc \notin [hash : Payloads \cup {NoHash}, body : Bodies]
    /\ DistillEnabled \in BOOLEAN
    /\ MaxAttempts \in Nat \ {0}

VARIABLES
    docs,     \* docs[p]: the document demarkus holds at path p
    pc,       \* pc[w]: where worker w's call is, or how it was answered
    req,      \* req[w]: the request of w's latest call
    attempt,  \* attempt[w]: the attempt under way of the current request
    reply,    \* reply[w]: what the server answered to that attempt
    orphans,  \* requests whose PUBLISH was given up but may still be served
    faulty,   \* demarkus, the network and the callers may misbehave
    acked,    \* history: requests answered 200, while their path is not purged
    fresh     \* history: fresh[w] iff nothing was stored when w's call began

vars == <<docs, pc, req, attempt, reply, orphans, faulty, acked, fresh>>

Requests == [user : Users, session : Sessions, id : RequestIDs, msgs : Payloads]
Paths == Users \X Sessions \X RequestIDs
Docs == [hash : Payloads \cup {NoHash}, body : Bodies]

\* sanitize is injective, so the three ids stand for their segments.
docPath(r) == <<r.user, r.session, r.id>>

renderMemory(m) == [hash |-> m, body |-> CurrentBody[m]]
renderLegacyMemory(m) == [hash |-> NoHash, body |-> LegacyBody[m]]

\* The document is taken for the memory of m.
Matches(doc, m) ==
    \/ doc.hash = m
    \/ doc.hash = NoHash /\ doc.body = LegacyBody[m]

NoReply == [status |-> "none", doc |-> NoDoc]
Reply(status) == [status |-> status, doc |-> NoDoc]

Reading == {"precheck", "recheck"}
Requesting == Reading \cup {"publish"}
Open == Requesting \cup {"distill"}
Retryable == {"unavailable", "lost"}
Answers == {"ok", "conflict"} \cup Retryable

Init ==
    /\ docs \in [Paths -> {NoDoc} \cup {renderLegacyMemory(m) : m \in Payloads}]
    /\ pc = [w \in Workers |-> "idle"]
    /\ req = [w \in Workers |-> CHOOSE r \in Requests : TRUE]
    /\ attempt = [w \in Workers |-> 1]
    /\ reply = [w \in Workers |-> NoReply]
    /\ orphans = {}
    /\ faulty = TRUE
    /\ acked = {}
    /\ fresh = [w \in Workers |-> TRUE]

-----------------------------------------------------------------------------
(* The steps every call is made of.                                        *)

\* The next request of the call, or its first attempt.
Goto(w, step) ==
    /\ pc' = [pc EXCEPT ![w] = step]
    /\ attempt' = [attempt EXCEPT ![w] = 1]
    /\ reply' = [reply EXCEPT ![w] = NoReply]

\* The handler turns Add's result into a status for the caller.
Answer(w, a) ==
    /\ Goto(w, a)
    /\ acked' = IF a = "ok" THEN acked \cup {req[w]} ELSE acked

\* A publish given up before the server answered it may still be served.
Abandon(w) ==
    orphans' = IF pc[w] = "publish" /\ reply[w].status = "none"
               THEN orphans \cup {req[w]} ELSE orphans

\* A bug of this step: the stored document is not looked for.
BeginUnchecked(w, r) ==
    /\ pc[w] \notin Open
    /\ req' = [req EXCEPT ![w] = r]
    /\ fresh' = [fresh EXCEPT ![w] = docs[docPath(r)] = NoDoc]
    /\ Goto(w, IF DistillEnabled THEN "distill" ELSE "publish")
    /\ UNCHANGED <<docs, orphans, faulty, acked>>

Begin(w, r) ==
    /\ pc[w] \notin Open
    /\ req' = [req EXCEPT ![w] = r]
    /\ fresh' = [fresh EXCEPT ![w] = docs[docPath(r)] = NoDoc]
    /\ Goto(w, IF DistillEnabled THEN "precheck" ELSE "publish")
    /\ UNCHANGED <<docs, orphans, faulty, acked>>

\* The harness repeats a call that got 503 or no answer.
Retry(w) == pc[w] \in Retryable /\ Begin(w, req[w])

-----------------------------------------------------------------------------
(* The demarkus server.                                                    *)

ServeFetch(w) ==
    LET doc == docs[docPath(req[w])] IN
    /\ pc[w] \in Reading /\ reply[w].status = "none"
    /\ reply' = [reply EXCEPT ![w] =
          IF doc = NoDoc THEN Reply("not-found") ELSE [status |-> "ok", doc |-> doc]]
    /\ UNCHANGED <<docs, pc, req, attempt, orphans, faulty, acked, fresh>>

\* A bug of the request: published with no expected version, it replaces.
PublishBlind(r) == docs' = [docs EXCEPT ![docPath(r)] = renderMemory(r.msgs)]

\* expected-version 0 creates and never replaces.
Publish(r) ==
    LET p == docPath(r) IN
    docs' = IF docs[p] = NoDoc
            THEN [docs EXCEPT ![p] = renderMemory(r.msgs)] ELSE docs

ServePublish(w) ==
    /\ pc[w] = "publish" /\ reply[w].status = "none"
    /\ Publish(req[w])
    /\ reply' = [reply EXCEPT ![w] =
          IF docs[docPath(req[w])] = NoDoc THEN Reply("created") ELSE Reply("conflict")]
    /\ UNCHANGED <<pc, req, attempt, orphans, faulty, acked, fresh>>

\* Any other status: unauthorized, server error.
Refuse(w) ==
    /\ faulty
    /\ pc[w] \in Requesting /\ reply[w].status = "none"
    /\ reply' = [reply EXCEPT ![w] = Reply("error")]
    /\ UNCHANGED <<docs, pc, req, attempt, orphans, faulty, acked, fresh>>

Deliver(r) ==
    /\ r \in orphans
    /\ Publish(r)
    /\ orphans' = orphans \ {r}
    /\ UNCHANGED <<pc, req, attempt, reply, faulty, acked, fresh>>

Drop(r) ==
    /\ r \in orphans
    /\ orphans' = orphans \ {r}
    /\ UNCHANGED <<docs, pc, req, attempt, reply, faulty, acked, fresh>>

-----------------------------------------------------------------------------
(* DemarkusStore.Add.                                                      *)

\* checkExisting and the returns its caller takes from it.  A bug of this
\* function: a stored document is taken for the caller's, whatever it holds.
CheckExistingUnread(w, absent) ==
    \/ /\ reply[w].status = "ok"
       /\ Answer(w, "ok")
    \/ /\ reply[w].status = "not-found" /\ absent \in Answers
       /\ Answer(w, absent)
    \/ /\ reply[w].status = "not-found" /\ absent \notin Answers
       /\ Goto(w, absent) /\ UNCHANGED acked
    \/ /\ reply[w].status = "error"
       /\ Answer(w, "unavailable")

CheckExisting(w, absent) ==
    \/ /\ reply[w].status = "ok"
       /\ Answer(w, IF Matches(reply[w].doc, req[w].msgs) THEN "ok" ELSE "conflict")
    \/ /\ reply[w].status = "not-found" /\ absent \in Answers
       /\ Answer(w, absent)
    \/ /\ reply[w].status = "not-found" /\ absent \notin Answers
       /\ Goto(w, absent) /\ UNCHANGED acked
    \/ /\ reply[w].status = "error"
       /\ Answer(w, "unavailable")

Precheck(w) ==
    /\ pc[w] = "precheck"
    /\ CheckExisting(w, "distill")
    /\ UNCHANGED <<docs, req, orphans, faulty, fresh>>

\* The model's metadata or the deterministic ones: Add goes on with either.
Distill(w) ==
    /\ pc[w] = "distill"
    /\ Goto(w, "publish")
    /\ UNCHANGED <<docs, req, orphans, faulty, acked, fresh>>

\* Bugs of this switch: a conflict is taken for an earlier publish of the same
\* call, is answered without a look at the document, or is answered with 503.
PublishReplyTrusting(w) ==
    /\ pc[w] = "publish"
    /\ \/ reply[w].status \in {"created", "conflict"} /\ Answer(w, "ok")
       \/ reply[w].status = "error" /\ Answer(w, "unavailable")
    /\ UNCHANGED <<docs, req, orphans, faulty, fresh>>

PublishReplyFinal(w) ==
    /\ pc[w] = "publish"
    /\ \/ reply[w].status = "created" /\ Answer(w, "ok")
       \/ reply[w].status = "conflict" /\ Answer(w, "conflict")
       \/ reply[w].status = "error" /\ Answer(w, "unavailable")
    /\ UNCHANGED <<docs, req, orphans, faulty, fresh>>

PublishReplyUnsure(w) ==
    /\ pc[w] = "publish"
    /\ \/ reply[w].status = "created" /\ Answer(w, "ok")
       \/ reply[w].status \in {"conflict", "error"} /\ Answer(w, "unavailable")
    /\ UNCHANGED <<docs, req, orphans, faulty, fresh>>

PublishReply(w) ==
    /\ pc[w] = "publish"
    /\ \/ reply[w].status = "created" /\ Answer(w, "ok")
       \/ reply[w].status = "conflict" /\ Goto(w, "recheck") /\ UNCHANGED acked
       \/ reply[w].status = "error" /\ Answer(w, "unavailable")
    /\ UNCHANGED <<docs, req, orphans, faulty, fresh>>

\* Nothing found after a conflict: the publish status is the error.
Recheck(w) ==
    /\ pc[w] = "recheck"
    /\ CheckExisting(w, "unavailable")
    /\ UNCHANGED <<docs, req, orphans, faulty, fresh>>

-----------------------------------------------------------------------------
(* Attempts that fail, callers that leave, operators, repair.              *)

\* Bugs of the retry loop: the attempts are not counted; one too many.
ResendUncounted(w) ==
    /\ faulty
    /\ pc[w] \in Requesting
    /\ Abandon(w)
    /\ reply' = [reply EXCEPT ![w] = NoReply]
    /\ UNCHANGED <<docs, pc, req, attempt, faulty, acked, fresh>>

ResendOnceMore(w) ==
    /\ faulty
    /\ pc[w] \in Requesting /\ attempt[w] <= MaxAttempts
    /\ Abandon(w)
    /\ attempt' = [attempt EXCEPT ![w] = @ + 1]
    /\ reply' = [reply EXCEPT ![w] = NoReply]
    /\ UNCHANGED <<docs, pc, req, faulty, acked, fresh>>

\* A transient error or the attempt's timeout: the request is sent again.
Resend(w) ==
    /\ faulty
    /\ pc[w] \in Requesting /\ attempt[w] < MaxAttempts
    /\ Abandon(w)
    /\ attempt' = [attempt EXCEPT ![w] = @ + 1]
    /\ reply' = [reply EXCEPT ![w] = NoReply]
    /\ UNCHANGED <<docs, pc, req, faulty, acked, fresh>>

\* The last attempt failed, or the error is not a transient one.
GiveUp(w) ==
    /\ faulty
    /\ pc[w] \in Requesting
    /\ Abandon(w)
    /\ Answer(w, "unavailable")
    /\ UNCHANGED <<docs, req, faulty, fresh>>

\* The caller's connection, or the adapter itself, goes away.
Cancel(w) ==
    /\ faulty
    /\ pc[w] \in Open
    /\ Abandon(w)
    /\ Answer(w, "lost")
    /\ UNCHANGED <<docs, req, faulty, fresh>>

\* purge-expired.sh removes a document while both services are stopped.
Purge(p) ==
    /\ docs[p] # NoDoc
    /\ orphans = {} /\ \A w \in Workers : pc[w] \notin Open
    /\ docs' = [docs EXCEPT ![p] = NoDoc]
    /\ acked' = {r \in acked : docPath(r) # p}
    /\ UNCHANGED <<pc, req, attempt, reply, orphans, faulty, fresh>>

Heal ==
    /\ faulty
    /\ faulty' = FALSE
    /\ UNCHANGED <<docs, pc, req, attempt, reply, orphans, acked, fresh>>

Step(w) ==
    \/ ServeFetch(w) \/ ServePublish(w) \/ Refuse(w)
    \/ Precheck(w) \/ Distill(w) \/ PublishReply(w) \/ Recheck(w)
    \/ Resend(w) \/ GiveUp(w) \/ Cancel(w)

Next ==
    \/ \E w \in Workers : Step(w) \/ \E r \in Requests : Begin(w, r)
    \/ \E r \in Requests : Deliver(r) \/ Drop(r)
    \/ \E p \in Paths : Purge(p)
    \/ Heal

Spec == Init /\ [][Next]_vars

\* A request is answered or its attempt times out after ten seconds, a model
\* call ends by its budget, and the harness retries.  The trouble may last.
Fairness == \A w \in Workers : WF_vars(Step(w)) /\ WF_vars(Retry(w))

FairSpec == Spec /\ Fairness

-----------------------------------------------------------------------------
\* Every variable has its type.
TypeOK ==
    /\ docs \in [Paths -> Docs \cup {NoDoc}]
    /\ pc \in [Workers -> {"idle"} \cup Open \cup Answers]
    /\ req \in [Workers -> Requests]
    /\ attempt \in [Workers -> 1 .. MaxAttempts]
    /\ reply \in [Workers ->
          [status : {"none", "ok", "not-found", "created", "conflict", "error"},
           doc : Docs \cup {NoDoc}]]
    /\ orphans \subseteq Requests
    /\ faulty \in BOOLEAN
    /\ acked \subseteq Requests
    /\ fresh \in [Workers -> BOOLEAN]

Stored(r) == docs[docPath(r)] # NoDoc
Kept(r) == Stored(r) /\ Matches(docs[docPath(r)], r.msgs)

\* A memory acknowledged with 200 stays stored under its path and still
\* answers for the caller's messages, whatever races, repeats or arrives late
\* (server.go:115, "data must be searchable on return").
AckDurable == \A r \in acked : Kept(r)

\* 409 is answered only while the path really holds a memory of other
\* messages: never to the winner of a race, nor to a call repeated after its
\* own publish was served but its answer lost (demarkus.go:199-204).
ConflictIsReal ==
    [][\A w \in Workers :
          pc[w] # "conflict" /\ pc'[w] = "conflict"
             => Stored(req[w]) /\ ~Kept(req[w])]_vars

\* A call that begins when its path already holds a document never pays for a
\* model call (demarkus.go:156).
RetryPaysNoModel == \A w \in Workers : pc[w] = "distill" => fresh[w]

\* Every call is answered, though the trouble never ends (mark_read.go:86).
Answered == \A w \in Workers : pc[w] \in Open ~> pc[w] \notin Open

\* Once the trouble is over, a call that is open or that the harness repeats
\* ends in 200 or 409: no path is left in a state where every retry gets 503.
Settles ==
    \A w \in Workers :
       ~faulty /\ pc[w] \in Open \cup Retryable ~> pc[w] \in {"ok", "conflict"}

\* Whatever races, a document acknowledges one list of messages, if no two
\* lists have one legacy body (demarkus.go:211).  The path is made of user,
\* session and request id: the same id in two sessions is two documents.
PathBindsMessages ==
    \A r, s \in acked : docPath(r) = docPath(s) => r.msgs = s.msgs

-----------------------------------------------------------------------------
(* What relates a worker's place in Add to the documents.                  *)

\* An answer not yet acted upon still describes the document.
RepliesHold ==
    \A w \in Workers :
       LET s == reply[w].status IN
       /\ pc[w] \in Reading /\ s = "ok" =>
             Stored(req[w]) /\ reply[w].doc = docs[docPath(req[w])]
       /\ pc[w] = "publish" /\ s = "created" => Kept(req[w])
       /\ pc[w] = "publish" /\ s = "conflict" => Stored(req[w])
       /\ pc[w] = "precheck" /\ s = "not-found" => fresh[w]

\* A document seen, or known to the server, during a call is there until the
\* call ends.
SeenIsStored ==
    \A w \in Workers :
       /\ pc[w] \in Open /\ ~fresh[w] => Stored(req[w])
       /\ pc[w] = "recheck" => Stored(req[w])

\* The inductive strengthening of AckDurable and RetryPaysNoModel: what a call
\* has learnt of its document, in a reply or by where it is, stays true until
\* it acts on it (demarkus.go:199-204, the read after a conflict).
IInv == TypeOK /\ AckDurable /\ RepliesHold /\ SeenIsStored /\ RetryPaysNoModel

-----------------------------------------------------------------------------
(* The contract this module keeps.                                         *)

Contract == INSTANCE AddContract WITH
    PathOf <- docPath,
    memory <- [p \in Paths |-> IF docs[p] = NoDoc THEN {}
                               ELSE {m \in Payloads : Matches(docs[p], m)}],
    call <- [w \in Workers |-> IF pc[w] \in Open THEN "open" ELSE pc[w]],
    asked <- req,
    pending <- orphans

\* Every behaviour is one the contract allows.
ImplementsContract == Contract!Spec
=============================================================================
