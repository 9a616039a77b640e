-------------------------- MODULE MemoryAddProofs --------------------------
(***************************************************************************)
(* For every value of the constants of MemoryAdd: its variables keep their *)
(* types, what was acknowledged stays stored, a conflict is answered only  *)
(* when there is one, a call on a stored path pays for no model call, and  *)
(* every behaviour is one that AddContract allows.                         *)
(***************************************************************************)
EXTENDS MemoryAdd, TLAPS

\* There is a request to start from (the CHOOSE of Init).
LEMMA SomeRequest == (CHOOSE r \in Requests : TRUE) \in Requests
<1>1. PICK u \in Users, s \in Sessions, i \in RequestIDs, m \in Payloads : TRUE
  BY ConstantsAssumption
<1>2. [user |-> u, session |-> s, id |-> i, msgs |-> m] \in Requests
  BY DEF Requests
<1>3. QED
  BY <1>2

\* A request names a path, and its document is one of Docs.
LEMMA RequestPath ==
  ASSUME NEW r \in Requests
  PROVE  /\ docPath(r) \in Paths
         /\ r.msgs \in Payloads
         /\ renderMemory(r.msgs) \in Docs
         /\ renderMemory(r.msgs) # NoDoc
         /\ Matches(renderMemory(r.msgs), r.msgs)
  BY ConstantsAssumption
  DEF Requests, Paths, docPath, renderMemory, Docs, Matches

\* The answers a reply record may carry.
LEMMA ReplyType ==
  LET RType == [status : {"none", "ok", "not-found", "created", "conflict", "error"},
                doc : Docs \cup {NoDoc}]
  IN  /\ NoReply \in RType
      /\ \A s \in {"not-found", "created", "conflict", "error"} : Reply(s) \in RType
      /\ \A d \in Docs : [status |-> "ok", doc |-> d] \in RType
  BY DEF NoReply, Reply

-----------------------------------------------------------------------------
\* The initial state is typed.
LEMMA TypeInit == Init => TypeOK
<1> SUFFICES ASSUME Init PROVE TypeOK
  OBVIOUS
<1> USE DEF Init
<1>1. docs \in [Paths -> Docs \cup {NoDoc}]
  BY ConstantsAssumption DEF renderLegacyMemory, Docs
<1>2. req \in [Workers -> Requests]
  BY SomeRequest
<1>3. reply \in [Workers ->
          [status : {"none", "ok", "not-found", "created", "conflict", "error"},
           doc : Docs \cup {NoDoc}]]
  BY ReplyType
<1>4. attempt \in [Workers -> 1 .. MaxAttempts]
  BY ConstantsAssumption
<1>5. QED
  BY <1>1, <1>2, <1>3, <1>4 DEF TypeOK

\* Going to another step of the call keeps the types of what it changes.
LEMMA TypeGoto ==
  ASSUME TypeOK, NEW w \in Workers,
         NEW step \in {"idle"} \cup Open \cup Answers, Goto(w, step)
  PROVE  /\ pc' \in [Workers -> {"idle"} \cup Open \cup Answers]
         /\ attempt' \in [Workers -> 1 .. MaxAttempts]
         /\ reply' \in [Workers ->
              [status : {"none", "ok", "not-found", "created", "conflict", "error"},
               doc : Docs \cup {NoDoc}]]
<1>1. 1 \in 1 .. MaxAttempts
  BY ConstantsAssumption
<1>2. QED
  BY <1>1, ReplyType DEF TypeOK, Goto

\* An answer is a step of the call and acknowledges a request only.
LEMMA TypeAnswer ==
  ASSUME TypeOK, NEW w \in Workers, NEW a \in Answers, Answer(w, a)
  PROVE  Goto(w, a) /\ acked' \subseteq Requests
  BY DEF TypeOK, Answer

\* A publish stores a document of the right type.
LEMMA TypePublish ==
  ASSUME TypeOK, NEW r \in Requests, Publish(r)
  PROVE  docs' \in [Paths -> Docs \cup {NoDoc}]
  BY RequestPath DEF TypeOK, Publish

\* Every step keeps the types.
LEMMA TypeNext == TypeOK /\ [Next]_vars => TypeOK'
<1> SUFFICES ASSUME TypeOK, [Next]_vars PROVE TypeOK'
  OBVIOUS
<1>1. ASSUME NEW w \in Workers, NEW r \in Requests, Begin(w, r) PROVE TypeOK'
  <2>1. \E step \in Open : Goto(w, step)
    BY <1>1 DEF Begin, Open, Requesting, Reading
  <2>2. QED
    BY <1>1, <2>1, TypeGoto DEF Begin, TypeOK
<1>2. ASSUME NEW w \in Workers, ServeFetch(w) PROVE TypeOK'
  BY <1>2, ReplyType, RequestPath DEF ServeFetch, TypeOK
<1>3. ASSUME NEW w \in Workers, ServePublish(w) PROVE TypeOK'
  BY <1>3, ReplyType, TypePublish DEF ServePublish, TypeOK
<1>4. ASSUME NEW w \in Workers, Refuse(w) PROVE TypeOK'
  BY <1>4, ReplyType DEF Refuse, TypeOK
<1>5. ASSUME NEW w \in Workers, NEW absent \in {"distill", "unavailable"},
             CheckExisting(w, absent),
             UNCHANGED <<docs, req, orphans, faulty, fresh>>
      PROVE  TypeOK'
  <2>1. \E step \in {"idle"} \cup Open \cup Answers : Goto(w, step)
    BY <1>5 DEF CheckExisting, Answer, Open, Answers, Retryable
  <2>2. acked' \subseteq Requests
    BY <1>5 DEF CheckExisting, Answer, TypeOK
  <2>3. QED
    BY <1>5, <2>1, <2>2, TypeGoto DEF TypeOK
<1>6. ASSUME NEW w \in Workers, Precheck(w) \/ Recheck(w) PROVE TypeOK'
  BY <1>5, <1>6 DEF Precheck, Recheck
<1>7. ASSUME NEW w \in Workers, Distill(w) PROVE TypeOK'
  <2>1. Goto(w, "publish") /\ "publish" \in Open
    BY <1>7 DEF Distill, Open, Requesting
  <2>2. QED
    BY <1>7, <2>1, TypeGoto DEF Distill, TypeOK
<1>8. ASSUME NEW w \in Workers, PublishReply(w) PROVE TypeOK'
  <2>1. \E step \in {"idle"} \cup Open \cup Answers : Goto(w, step)
    BY <1>8 DEF PublishReply, Answer, Open, Requesting, Reading, Answers, Retryable
  <2>2. acked' \subseteq Requests
    BY <1>8 DEF PublishReply, Answer, TypeOK
  <2>3. QED
    BY <1>8, <2>1, <2>2, TypeGoto DEF PublishReply, TypeOK
<1>9. ASSUME NEW w \in Workers, Resend(w) PROVE TypeOK'
  <2>1. attempt' \in [Workers -> 1 .. MaxAttempts]
    BY <1>9, ConstantsAssumption DEF Resend, TypeOK
  <2>2. QED
    BY <1>9, <2>1, ReplyType DEF Resend, Abandon, TypeOK
<1>10. ASSUME NEW w \in Workers, GiveUp(w) PROVE TypeOK'
  <2>1. Goto(w, "unavailable") /\ acked' \subseteq Requests
    BY <1>10, TypeAnswer DEF GiveUp, Answers, Retryable
  <2>2. QED
    BY <1>10, <2>1, TypeGoto DEF GiveUp, Abandon, Answers, Retryable, TypeOK
<1>11. ASSUME NEW w \in Workers, Cancel(w) PROVE TypeOK'
  <2>1. Goto(w, "lost") /\ acked' \subseteq Requests
    BY <1>11, TypeAnswer DEF Cancel, Answers, Retryable
  <2>2. QED
    BY <1>11, <2>1, TypeGoto DEF Cancel, Abandon, Answers, Retryable, TypeOK
<1>12. ASSUME NEW r \in Requests, Deliver(r) PROVE TypeOK'
  BY <1>12, TypePublish DEF Deliver, TypeOK
<1>13. ASSUME NEW r \in Requests, Drop(r) PROVE TypeOK'
  BY <1>13 DEF Drop, TypeOK
<1>14. ASSUME NEW p \in Paths, Purge(p) PROVE TypeOK'
  BY <1>14 DEF Purge, TypeOK
<1>15. CASE Heal
  BY <1>15 DEF Heal, TypeOK
<1>16. CASE UNCHANGED vars
  BY <1>16 DEF vars, TypeOK
<1>17. QED
  BY <1>1, <1>2, <1>3, <1>4, <1>6, <1>7, <1>8, <1>9, <1>10, <1>11, <1>12,
     <1>13, <1>14, <1>15, <1>16 DEF Next, Step

\* Every variable keeps its type.
THEOREM TypeCorrect == Spec => []TypeOK
  BY TypeInit, TypeNext, PTL DEF Spec

-----------------------------------------------------------------------------
(* The inductive invariant.  Only Purge removes a document, and it waits   *)
(* for every call to end: while a call is open what it has seen stays.     *)

DocsStay == \A p \in Paths : docs[p] # NoDoc => docs'[p] = docs[p]

\* A publish changes no document that is there, and leaves one behind.
LEMMA PublishKeeps ==
  ASSUME TypeOK, NEW r \in Requests, Publish(r)
  PROVE  /\ DocsStay
         /\ docs[docPath(r)] = NoDoc => docs'[docPath(r)] = renderMemory(r.msgs)
         /\ docs'[docPath(r)] # NoDoc
  BY RequestPath DEF Publish, TypeOK, DocsStay

\* What the invariant says of one worker.
SeenBy(w) ==
    /\ pc[w] \in Reading /\ reply[w].status = "ok" =>
          Stored(req[w]) /\ reply[w].doc = docs[docPath(req[w])]
    /\ pc[w] = "publish" /\ reply[w].status = "created" => Kept(req[w])
    /\ pc[w] = "publish" /\ reply[w].status = "conflict" => Stored(req[w])
    /\ pc[w] = "precheck" /\ reply[w].status = "not-found" => fresh[w]
    /\ pc[w] \in Open /\ ~fresh[w] => Stored(req[w])
    /\ pc[w] = "recheck" => Stored(req[w])
    /\ pc[w] = "distill" => fresh[w]

\* The invariant, one worker at a time.
LEMMA IInvByWorker == IInv <=> TypeOK /\ AckDurable /\ \A w \in Workers : SeenBy(w)
  BY DEF IInv, RepliesHold, SeenIsStored, RetryPaysNoModel, SeenBy

\* Nothing is known and nothing acknowledged at first.
LEMMA IInvInit == Init => IInv
<1> SUFFICES ASSUME Init PROVE IInv
  OBVIOUS
<1>1. TypeOK
  BY TypeInit
<1>2. AckDurable
  BY DEF Init, AckDurable
<1>3. ASSUME NEW w \in Workers PROVE SeenBy(w)
  BY DEF Init, SeenBy, Open, Requesting, Reading
<1>4. QED
  BY <1>1, <1>2, <1>3, IInvByWorker

\* A worker that stays where it is keeps what it has seen while documents stay.
LEMMA SeenStays ==
  ASSUME TypeOK, NEW w \in Workers, SeenBy(w), DocsStay,
         pc'[w] = pc[w], reply'[w] = reply[w], req'[w] = req[w], fresh'[w] = fresh[w]
  PROVE  SeenBy(w)'
<1>1. docPath(req[w]) \in Paths
  BY RequestPath DEF TypeOK
<1>2. Stored(req[w]) => Stored(req[w])' /\ docs'[docPath(req[w])] = docs[docPath(req[w])]
  BY <1>1 DEF Stored, DocsStay
<1>3. Kept(req[w]) => Kept(req[w])'
  BY <1>2 DEF Kept, Stored
<1>4. QED
  BY <1>2, <1>3 DEF SeenBy, Stored, Kept

\* Nothing acknowledged is lost while documents stay.
LEMMA AckStays ==
  ASSUME TypeOK, AckDurable, DocsStay, acked' \subseteq Requests,
         \A r \in acked' : r \in acked \/ Kept(r)'
  PROVE  AckDurable'
<1> SUFFICES ASSUME NEW r \in acked' PROVE Kept(r)'
  BY DEF AckDurable
<1>1. docPath(r) \in Paths
  BY RequestPath
<1>2. CASE r \in acked
  BY <1>1, <1>2 DEF AckDurable, Kept, Stored, DocsStay
<1>3. QED
  BY <1>2

\* A worker that leaves the call, or moves on with no answer yet, has to
\* know only what its new place claims.
LEMMA SeenAfterGoto ==
  ASSUME TypeOK, NEW w \in Workers, SeenBy(w),
         NEW step \in {"idle"} \cup Open \cup Answers, Goto(w, step),
         pc[w] \in Open,
         UNCHANGED <<docs, req, fresh>>,
         step = "recheck" => Stored(req[w]),
         step = "distill" => fresh[w]
  PROVE  /\ SeenBy(w)'
         /\ \A v \in Workers \ {w} : pc'[v] = pc[v] /\ reply'[v] = reply[v]
  BY DEF TypeOK, Goto, SeenBy, NoReply, Stored, Kept

\* checkExisting answers "ok" only for a memory that is kept.
LEMMA CheckIsTrue ==
  ASSUME TypeOK, NEW w \in Workers, SeenBy(w), pc[w] \in Reading,
         NEW absent \in {"distill", "unavailable"}, CheckExisting(w, absent)
  PROVE  /\ \E step \in {"ok", "conflict", "unavailable", "distill"} :
                Goto(w, step) /\ (step = "distill" => absent = "distill"
                                     /\ reply[w].status = "not-found")
         /\ acked' = acked \/ (acked' = acked \cup {req[w]} /\ Kept(req[w]))
         /\ pc'[w] = "conflict" => Stored(req[w]) /\ ~Kept(req[w])
<1>1. CASE reply[w].status = "ok" /\ Matches(reply[w].doc, req[w].msgs)
  BY <1>1 DEF CheckExisting, Answer, Goto, SeenBy, Kept, TypeOK
<1>2. CASE reply[w].status = "ok" /\ ~Matches(reply[w].doc, req[w].msgs)
  BY <1>2 DEF CheckExisting, Answer, Goto, SeenBy, Kept, TypeOK
<1>3. CASE reply[w].status # "ok"
  <2>1. absent = "distill" => absent \notin Answers
    BY DEF Answers, Retryable
  <2>2. absent = "unavailable" => absent \in Answers
    BY DEF Answers, Retryable
  <2>3. QED
    BY <1>3, <2>1, <2>2 DEF CheckExisting, Answer, Goto, TypeOK
<1>4. QED
  BY <1>1, <1>2, <1>3

\* A step of one worker that leaves the documents in place preserves the
\* invariant when the worker's own part of it and the acknowledgements hold.
LEMMA WorkerStep ==
  ASSUME IInv, TypeOK', NEW w \in Workers, DocsStay,
         \A v \in Workers \ {w} : /\ pc'[v] = pc[v] /\ reply'[v] = reply[v]
                                  /\ req'[v] = req[v] /\ fresh'[v] = fresh[v],
         SeenBy(w)',
         \A r \in acked' : r \in acked \/ Kept(r)'
  PROVE  IInv'
<1>1. TypeOK /\ AckDurable /\ \A v \in Workers : SeenBy(v)
  BY IInvByWorker
<1>2. acked' \subseteq Requests
  BY DEF TypeOK
<1>3. AckDurable'
  BY <1>1, <1>2, AckStays
<1>4. ASSUME NEW v \in Workers PROVE SeenBy(v)'
  BY <1>1, <1>4, SeenStays
<1>5. QED
  BY <1>3, <1>4 DEF IInv, RepliesHold, SeenIsStored, RetryPaysNoModel, SeenBy

\* Every step keeps the invariant.
LEMMA IInvNext == IInv /\ [Next]_vars => IInv'
<1> SUFFICES ASSUME IInv, [Next]_vars PROVE IInv'
  OBVIOUS
<1>1. TypeOK /\ AckDurable /\ \A w \in Workers : SeenBy(w)
  BY IInvByWorker
<1>2. TypeOK'
  BY <1>1, TypeNext
<1>3. \A w \in Workers : req[w] \in Requests /\ docPath(req[w]) \in Paths
  BY <1>1, RequestPath DEF TypeOK
<1>4. ASSUME NEW w \in Workers, NEW r \in Requests, Begin(w, r) PROVE IInv'
  <2>1. DocsStay
    BY <1>4 DEF Begin, DocsStay
  <2>2. /\ pc'[w] \in {"precheck", "publish"} /\ reply'[w] = NoReply
        /\ req'[w] = r /\ docs' = docs
        /\ ~fresh'[w] => docs[docPath(r)] # NoDoc
    BY <1>1, <1>4 DEF Begin, Goto, TypeOK
  <2>3. SeenBy(w)'
    BY <2>2 DEF SeenBy, NoReply, Stored
  <2>4. QED
    BY <1>1, <1>2, <1>4, <2>1, <2>3, WorkerStep DEF Begin, Goto, TypeOK
<1>5. ASSUME NEW w \in Workers, ServeFetch(w) PROVE IInv'
  <2>1. DocsStay
    BY <1>5 DEF ServeFetch, DocsStay
  <2>2. reply'[w] = IF docs[docPath(req[w])] = NoDoc THEN Reply("not-found")
                    ELSE [status |-> "ok", doc |-> docs[docPath(req[w])]]
    BY <1>1, <1>5 DEF ServeFetch, TypeOK
  <2>3. SeenBy(w)'
    BY <1>1, <1>5, <2>2
    DEF ServeFetch, SeenBy, Reading, Open, Requesting, Reply, Stored, Kept
  <2>4. QED
    BY <1>1, <1>2, <1>5, <2>1, <2>3, WorkerStep DEF ServeFetch, TypeOK
<1>6. ASSUME NEW w \in Workers, ServePublish(w) PROVE IInv'
  <2>1. req[w] \in Requests
    BY <1>3
  <2>2. /\ DocsStay
        /\ docs[docPath(req[w])] = NoDoc =>
              docs'[docPath(req[w])] = renderMemory(req[w].msgs)
        /\ docs'[docPath(req[w])] # NoDoc
    BY <1>1, <1>6, <2>1, PublishKeeps DEF ServePublish
  <2>3. reply'[w] = IF docs[docPath(req[w])] = NoDoc THEN Reply("created")
                    ELSE Reply("conflict")
    BY <1>1, <1>6 DEF ServePublish, TypeOK
  <2>4. Stored(req[w])' /\ (reply'[w].status = "created" => Kept(req[w])')
    BY <1>6, <2>1, <2>2, <2>3, RequestPath
    DEF ServePublish, Stored, Kept, Matches, Reply
  <2>5. SeenBy(w)'
    BY <1>6, <2>3, <2>4 DEF ServePublish, SeenBy, Reading, Stored, Kept
  <2>6. QED
    BY <1>1, <1>2, <1>6, <2>2, <2>5, WorkerStep DEF ServePublish, TypeOK
<1>7. ASSUME NEW w \in Workers, Refuse(w) PROVE IInv'
  <2>1. DocsStay
    BY <1>7 DEF Refuse, DocsStay
  <2>2. reply'[w] = Reply("error")
    BY <1>1, <1>7 DEF Refuse, TypeOK
  <2>3. SeenBy(w)'
    BY <1>1, <1>7, <2>2 DEF Refuse, SeenBy, Reply, Stored, Kept
  <2>4. QED
    BY <1>1, <1>2, <1>7, <2>1, <2>3, WorkerStep DEF Refuse, TypeOK
<1>8. ASSUME NEW w \in Workers, Precheck(w) \/ Recheck(w) PROVE IInv'
  <2>1. PICK absent \in {"distill", "unavailable"} :
           /\ CheckExisting(w, absent)
           /\ absent = "distill" => pc[w] = "precheck"
    BY <1>8 DEF Precheck, Recheck
  <2>2. pc[w] \in Reading /\ UNCHANGED <<docs, req, orphans, faulty, fresh>>
    BY <1>8 DEF Precheck, Recheck, Reading
  <2>3. PICK step \in {"ok", "conflict", "unavailable", "distill"} :
           Goto(w, step) /\ (step = "distill" => absent = "distill"
                                /\ reply[w].status = "not-found")
    BY <1>1, <2>1, <2>2, CheckIsTrue
  <2>4. step = "distill" => fresh[w]
    BY <1>1, <2>1, <2>3 DEF SeenBy
  <2>5. step \in {"idle"} \cup Open \cup Answers /\ pc[w] \in Open /\ step # "recheck"
    BY <2>2 DEF Open, Requesting, Reading, Answers, Retryable
  <2>6. SeenBy(w)' /\ \A v \in Workers \ {w} : pc'[v] = pc[v] /\ reply'[v] = reply[v]
    BY <1>1, <2>2, <2>3, <2>4, <2>5, SeenAfterGoto
  <2>7. \A r \in acked' : r \in acked \/ Kept(r)'
    BY <1>1, <2>1, <2>2, CheckIsTrue DEF Kept, Stored
  <2>8. DocsStay
    BY <2>2 DEF DocsStay
  <2>9. QED
    BY <1>2, <2>2, <2>6, <2>7, <2>8, WorkerStep
<1>9. ASSUME NEW w \in Workers, NEW step \in {"idle"} \cup Open \cup Answers,
             pc[w] \in Open, Goto(w, step), UNCHANGED <<docs, req, fresh>>,
             step = "recheck" => Stored(req[w]),
             step = "distill" => fresh[w],
             acked' = acked \/ (acked' = acked \cup {req[w]} /\ Kept(req[w]))
      PROVE  IInv'
  <2>1. SeenBy(w)' /\ \A v \in Workers \ {w} : pc'[v] = pc[v] /\ reply'[v] = reply[v]
    BY <1>1, <1>9, SeenAfterGoto
  <2>2. \A r \in acked' : r \in acked \/ Kept(r)'
    BY <1>9 DEF Kept, Stored
  <2>3. DocsStay
    BY <1>9 DEF DocsStay
  <2>4. QED
    BY <1>2, <1>9, <2>1, <2>2, <2>3, WorkerStep
<1>10. ASSUME NEW w \in Workers, Distill(w) PROVE IInv'
  BY <1>9, <1>10 DEF Distill, Open, Requesting
<1>11. ASSUME NEW w \in Workers, PublishReply(w) PROVE IInv'
  <2>1. pc[w] = "publish" /\ pc[w] \in Open /\ UNCHANGED <<docs, req, fresh>>
    BY <1>11 DEF PublishReply, Open, Requesting
  <2>2. CASE reply[w].status = "created" /\ Answer(w, "ok")
    BY <1>1, <1>9, <2>1, <2>2 DEF SeenBy, Answer, Answers
  <2>3. CASE reply[w].status = "conflict" /\ Goto(w, "recheck") /\ UNCHANGED acked
    BY <1>1, <1>9, <2>1, <2>3 DEF SeenBy, Open, Requesting, Reading
  <2>4. CASE reply[w].status = "error" /\ Answer(w, "unavailable")
    BY <1>9, <2>1, <2>4 DEF Answer, Answers, Retryable
  <2>5. QED
    BY <1>11, <2>2, <2>3, <2>4 DEF PublishReply
<1>12. ASSUME NEW w \in Workers, Resend(w) PROVE IInv'
  <2>1. DocsStay
    BY <1>12 DEF Resend, DocsStay
  <2>2. reply'[w] = NoReply
    BY <1>1, <1>12 DEF Resend, TypeOK
  <2>3. SeenBy(w)'
    BY <1>1, <1>12, <2>2 DEF Resend, SeenBy, NoReply, Stored, Kept
  <2>4. QED
    BY <1>1, <1>2, <1>12, <2>1, <2>3, WorkerStep DEF Resend, TypeOK
<1>13. ASSUME NEW w \in Workers, GiveUp(w) PROVE IInv'
  BY <1>9, <1>13 DEF GiveUp, Answer, Open, Answers, Retryable
<1>14. ASSUME NEW w \in Workers, Cancel(w) PROVE IInv'
  BY <1>9, <1>14 DEF Cancel, Answer, Answers, Retryable
<1>15. ASSUME DocsStay, UNCHANGED <<pc, req, reply, acked, fresh>> PROVE IInv'
  <2>1. AckDurable'
    BY <1>1, <1>15, AckStays DEF TypeOK
  <2>2. ASSUME NEW w \in Workers PROVE SeenBy(w)'
    BY <1>1, <1>15, SeenStays
  <2>3. QED
    BY <1>2, <2>1, <2>2
    DEF IInv, RepliesHold, SeenIsStored, RetryPaysNoModel, SeenBy
<1>16. ASSUME NEW r \in Requests, Deliver(r) PROVE IInv'
  BY <1>1, <1>15, <1>16, PublishKeeps DEF Deliver
<1>17. ASSUME NEW r \in Requests, Drop(r) PROVE IInv'
  BY <1>15, <1>17 DEF Drop, DocsStay
<1>18. ASSUME NEW p \in Paths, Purge(p) PROVE IInv'
  <2>1. AckDurable'
    BY <1>1, <1>18, RequestPath DEF Purge, AckDurable, Kept, Stored, TypeOK
  <2>2. ASSUME NEW w \in Workers PROVE SeenBy(w)'
    BY <1>18 DEF Purge, SeenBy, Open, Requesting, Reading
  <2>3. QED
    BY <1>2, <2>1, <2>2
    DEF IInv, RepliesHold, SeenIsStored, RetryPaysNoModel, SeenBy
<1>19. CASE Heal \/ UNCHANGED vars
  BY <1>15, <1>19 DEF Heal, vars, DocsStay
<1>20. QED
  BY <1>4, <1>5, <1>6, <1>7, <1>8, <1>10, <1>11, <1>12, <1>13, <1>14, <1>16,
     <1>17, <1>18, <1>19 DEF Next, Step

\* The inductive invariant holds: what a call has learnt of its document stays
\* true until it acts on it.
THEOREM AddInvariant == Spec => []IInv
  BY IInvInit, IInvNext, PTL DEF Spec

\* What was acknowledged with 200 and not purged is stored, for any number of
\* calls, repeats, late publishes and lost answers.
THEOREM Durability == Spec => []AckDurable
<1>1. IInv => AckDurable
  BY DEF IInv
<1>2. QED
  BY <1>1, AddInvariant, PTL

\* One path acknowledges one list of messages ("Reusing a request ID with
\* different messages returns 409"), wherever the bodies written before hashes
\* tell message lists apart: checkExisting compares nothing else there.
THEOREM OnePathOneList ==
  ASSUME \A m, n \in Payloads : LegacyBody[m] = LegacyBody[n] => m = n
  PROVE  Spec => []PathBindsMessages
<1>1. IInv => PathBindsMessages
  <2> SUFFICES ASSUME IInv, NEW r \in acked, NEW s \in acked, docPath(r) = docPath(s)
               PROVE  r.msgs = s.msgs
    BY DEF PathBindsMessages
  <2>1. r.msgs \in Payloads /\ s.msgs \in Payloads
    BY RequestPath DEF IInv, TypeOK
  <2>2. Matches(docs[docPath(r)], r.msgs) /\ Matches(docs[docPath(r)], s.msgs)
    BY DEF IInv, AckDurable, Kept
  <2>3. QED
    BY <2>1, <2>2, ConstantsAssumption DEF Matches
<1>2. QED
  BY <1>1, AddInvariant, PTL

\* A call on a stored path never reaches the model.
THEOREM NoModelForStored == Spec => []RetryPaysNoModel
<1>1. IInv => RetryPaysNoModel
  BY DEF IInv
<1>2. QED
  BY <1>1, AddInvariant, PTL

-----------------------------------------------------------------------------
\* Only checkExisting answers "conflict".
LEMMA ConflictStep ==
  ASSUME IInv, [Next]_vars, NEW w \in Workers, pc[w] # "conflict", pc'[w] = "conflict"
  PROVE  Stored(req[w]) /\ ~Kept(req[w])
<1>1. TypeOK /\ SeenBy(w)
  BY IInvByWorker
<1>2. ASSUME NEW v \in Workers, NEW r \in Requests, Begin(v, r) PROVE FALSE
  BY <1>1, <1>2 DEF Begin, Goto, TypeOK
<1>3. ASSUME NEW v \in Workers, Step(v) PROVE v = w /\ (Precheck(w) \/ Recheck(w))
  BY <1>1, <1>3
  DEF Step, ServeFetch, ServePublish, Refuse, Precheck, Distill, PublishReply,
      Recheck, Resend, GiveUp, Cancel, CheckExisting, Answer, Goto, TypeOK
<1>4. Precheck(w) \/ Recheck(w)
  BY <1>2, <1>3 DEF Next, Deliver, Drop, Purge, Heal, vars
<1>5. \E absent \in {"distill", "unavailable"} : pc[w] \in Reading /\ CheckExisting(w, absent)
  BY <1>4 DEF Precheck, Recheck, Reading
<1>6. QED
  BY <1>1, <1>5, CheckIsTrue

\* 409 is answered only over a memory of other messages.
THEOREM ConflictsAreReal == Spec => ConflictIsReal
<1>1. IInv /\ [Next]_vars => [\A w \in Workers :
          pc[w] # "conflict" /\ pc'[w] = "conflict"
             => Stored(req[w]) /\ ~Kept(req[w])]_vars
  BY ConflictStep
<1>2. Spec => []IInv
  BY IInvInit, IInvNext, PTL DEF Spec
<1>3. QED
  BY <1>1, <1>2, PTL DEF Spec, ConflictIsReal

-----------------------------------------------------------------------------
(* The refinement: what AddContract sees of a state, and of a step.        *)

Memory == [p \in Paths |-> IF docs[p] = NoDoc THEN {}
                           ELSE {m \in Payloads : Matches(docs[p], m)}]
CallState == [w \in Workers |-> IF pc[w] \in Open THEN "open" ELSE pc[w]]

\* A document just rendered answers for its own messages only.
LEMMA RenderedIsExact ==
  ASSUME NEW m \in Payloads
  PROVE  {n \in Payloads : Matches(renderMemory(m), n)} = {m}
  BY ConstantsAssumption DEF Matches, renderMemory

\* The contract sees one call change.
LEMMA CallChanges ==
  ASSUME TypeOK, NEW w \in Workers,
         NEW step \in {"idle"} \cup Open \cup Answers, Goto(w, step)
  PROVE  CallState' = [CallState EXCEPT ![w] = IF step \in Open THEN "open" ELSE step]
  BY DEF TypeOK, Goto, CallState

\* A publish that finds its path empty is the contract's Remember.
LEMMA PublishRemembers ==
  ASSUME TypeOK, NEW r \in Requests, Publish(r)
  PROVE  IF docs[docPath(r)] = NoDoc
         THEN /\ Memory[docPath(r)] = {}
              /\ Memory' = [Memory EXCEPT ![docPath(r)] = {r.msgs}]
         ELSE Memory' = Memory
<1>1. docPath(r) \in Paths /\ r.msgs \in Payloads /\ renderMemory(r.msgs) # NoDoc
  BY RequestPath
<1>2. CASE docs[docPath(r)] = NoDoc
  <2>1. docs' = [docs EXCEPT ![docPath(r)] = renderMemory(r.msgs)]
    BY <1>2 DEF Publish
  <2>2. \A p \in Paths : Memory'[p] = IF p = docPath(r) THEN {r.msgs} ELSE Memory[p]
    BY <1>1, <2>1, RenderedIsExact DEF Memory, TypeOK
  <2>3. Memory' = [Memory EXCEPT ![docPath(r)] = {r.msgs}]
    BY <2>2 DEF Memory
  <2>4. QED
    BY <1>1, <1>2, <2>3 DEF Memory
<1>3. CASE docs[docPath(r)] # NoDoc
  BY <1>3 DEF Publish, Memory
<1>4. QED
  BY <1>2, <1>3

\* What the contract holds for the path of a stored request.
LEMMA MemoryOf ==
  ASSUME TypeOK, NEW r \in Requests
  PROVE  /\ Stored(r) /\ Kept(r) => r.msgs \in Memory[docPath(r)]
         /\ Stored(r) /\ ~Kept(r) => r.msgs \notin Memory[docPath(r)]
  BY RequestPath DEF Stored, Kept, Memory

\* Every stored document was written for some list of messages.
Written == \A p \in Paths :
    docs[p] # NoDoc => \E m \in Payloads : Matches(docs[p], m)

\* The documents there at first are those of some list of messages.
LEMMA WrittenInit == Init => Written
  BY ConstantsAssumption DEF Init, Written, renderLegacyMemory, Matches

\* Every document written is the memory of some list of messages.
LEMMA WrittenNext == TypeOK /\ Written /\ [Next]_vars => Written'
<1> SUFFICES ASSUME TypeOK, Written, [Next]_vars PROVE Written'
  OBVIOUS
<1>1. ASSUME NEW r \in Requests, Publish(r) PROVE Written'
  BY <1>1, RequestPath DEF Publish, Written, TypeOK
<1>2. CASE docs' = docs
  BY <1>2 DEF Written, Matches
<1>3. ASSUME NEW p \in Paths, Purge(p) PROVE Written'
  BY <1>3 DEF Purge, Written, TypeOK
<1>4. ASSUME NEW w \in Workers, Step(w) PROVE Written'
  BY <1>1, <1>2, <1>4
  DEF Step, ServeFetch, ServePublish, Refuse, Precheck, Distill, PublishReply,
      Recheck, Resend, GiveUp, Cancel, TypeOK
<1>5. QED
  BY <1>1, <1>2, <1>3, <1>4 DEF Next, Begin, Deliver, Drop, Heal, vars

\* The contract starts where Add starts.
LEMMA RefineInit == Init => Contract!Init
<1> SUFFICES ASSUME Init PROVE Contract!Init
  OBVIOUS
<1>1. req \in [Workers -> Requests]
  BY SomeRequest DEF Init
<1>2. QED
  BY <1>1 DEF Contract!Init, Init, Open, Requesting, Reading

\* A call that ends in 200 or 409, over a document that says so.
LEMMA RefineSettle ==
  ASSUME TypeOK, Written, NEW w \in Workers, pc[w] \in Open,
         UNCHANGED <<docs, req, orphans>>,
         \/ Goto(w, "ok") /\ Kept(req[w])
         \/ Goto(w, "conflict") /\ Stored(req[w]) /\ ~Kept(req[w])
  PROVE  Contract!Settle(w)
<1>1. req[w] \in Requests /\ docPath(req[w]) \in Paths
  BY RequestPath DEF TypeOK
<1>2. CallState[w] = "open" /\ Memory' = Memory
  BY DEF CallState, Memory
<1>3. "ok" \notin Open /\ "conflict" \notin Open /\ {"ok", "conflict"} \subseteq Answers
  BY DEF Open, Requesting, Reading, Answers
<1>4. CASE Goto(w, "ok") /\ Kept(req[w])
  <2>1. req[w].msgs \in Memory[docPath(req[w])]
    BY <1>1, <1>4, MemoryOf DEF Kept
  <2>2. CallState' = [CallState EXCEPT ![w] = "ok"]
    BY <1>3, <1>4, CallChanges
  <2>3. QED
    BY <1>2, <2>1, <2>2 DEF Contract!Settle, Memory, CallState
<1>5. CASE Goto(w, "conflict") /\ Stored(req[w]) /\ ~Kept(req[w])
  <2>1. req[w].msgs \notin Memory[docPath(req[w])]
    BY <1>1, <1>5, MemoryOf
  <2>2. Memory[docPath(req[w])] # {}
    BY <1>1, <1>5 DEF Memory, Stored, Written
  <2>3. CallState' = [CallState EXCEPT ![w] = "conflict"]
    BY <1>3, <1>5, CallChanges
  <2>4. QED
    BY <1>2, <2>1, <2>2, <2>3 DEF Contract!Settle, Memory, CallState
<1>6. QED
  BY <1>4, <1>5

\* A call that ends in 503 or without an answer.
LEMMA RefineFail ==
  ASSUME TypeOK, NEW w \in Workers, pc[w] \in Open, UNCHANGED <<docs, req>>,
         orphans' \in {orphans, orphans \cup {req[w]}},
         Goto(w, "unavailable") \/ Goto(w, "lost")
  PROVE  Contract!Fail(w)
<1>1. {"unavailable", "lost"} \subseteq Answers \ Open
  BY DEF Open, Requesting, Reading, Answers, Retryable
<1>2. \E a \in {"unavailable", "lost"} : CallState' = [CallState EXCEPT ![w] = a]
  BY <1>1, CallChanges
<1>3. QED
  BY <1>2 DEF Contract!Fail, CallState

\* A step within a call that writes nothing shows nothing.
LEMMA RefineStutter ==
  ASSUME TypeOK, CallState' = CallState, UNCHANGED <<docs, req, orphans>>
  PROVE  UNCHANGED Contract!vars
  BY DEF Contract!vars, CallState

\* Going on within a call shows nothing either.
LEMMA RefineGoto ==
  ASSUME TypeOK, NEW w \in Workers, pc[w] \in Open, NEW step \in Open, Goto(w, step),
         UNCHANGED <<docs, req, orphans>>
  PROVE  UNCHANGED Contract!vars
<1>1. CallState' = CallState
  BY DEF Goto, TypeOK, CallState
<1>2. QED
  BY <1>1, RefineStutter

\* Every step of Add is a step of the contract or shows nothing.
LEMMA RefineNext == IInv /\ Written /\ [Next]_vars => [Contract!Next]_(Contract!vars)
<1> SUFFICES ASSUME IInv, Written, [Next]_vars PROVE [Contract!Next]_(Contract!vars)
  OBVIOUS
<1>1. TypeOK /\ \A w \in Workers : SeenBy(w)
  BY IInvByWorker
<1>2. \A w \in Workers : req[w] \in Requests
  BY <1>1 DEF TypeOK
<1>3. ASSUME NEW w \in Workers, NEW r \in Requests, Begin(w, r) PROVE Contract!Call(w, r)
  <2>1. PICK step \in Open : Goto(w, step)
    BY <1>3 DEF Begin, Open, Requesting, Reading
  <2>2. CallState' = [CallState EXCEPT ![w] = "open"]
    BY <1>1, <2>1, CallChanges
  <2>3. CallState[w] # "open"
    BY <1>1, <1>3 DEF Begin, CallState, TypeOK, Open, Requesting, Reading, Answers, Retryable
  <2>4. QED
    BY <1>3, <2>2, <2>3 DEF Begin, Contract!Call, CallState
<1>4. ASSUME NEW w \in Workers, ServeFetch(w) \/ Refuse(w) PROVE UNCHANGED Contract!vars
  BY <1>1, <1>4, RefineStutter DEF ServeFetch, Refuse, CallState
<1>5. ASSUME NEW w \in Workers, ServePublish(w) PROVE [Contract!Next]_(Contract!vars)
  <2>1. pc[w] \in Open /\ CallState[w] = "open" /\ UNCHANGED <<pc, req, orphans>>
    BY <1>5 DEF ServePublish, Open, Requesting, CallState
  <2>2. CASE docs[docPath(req[w])] = NoDoc
    <3>1. PICK r \in Requests : r = req[w]
      BY <1>2
    <3>2. Publish(r) /\ docs[docPath(r)] = NoDoc
      BY <1>5, <2>2, <3>1 DEF ServePublish, Publish
    <3>3. Contract!Remember(r)
      BY <1>1, <2>1, <3>1, <3>2, PublishRemembers
      DEF Contract!Remember, Memory, CallState
    <3>4. QED
      BY <3>3 DEF Contract!Next
  <2>3. CASE docs[docPath(req[w])] # NoDoc
    BY <1>1, <1>5, <2>1, <2>3, RefineStutter DEF ServePublish, Publish, CallState
  <2>4. QED
    BY <2>2, <2>3
<1>6. ASSUME NEW w \in Workers, Precheck(w) \/ Recheck(w)
      PROVE  Contract!Settle(w) \/ Contract!Fail(w) \/ UNCHANGED Contract!vars
  <2>1. PICK absent \in {"distill", "unavailable"} : CheckExisting(w, absent)
    BY <1>6 DEF Precheck, Recheck
  <2>2. pc[w] \in Reading /\ pc[w] \in Open /\ UNCHANGED <<docs, req, orphans, faulty, fresh>>
    BY <1>6 DEF Precheck, Recheck, Reading, Open, Requesting
  <2>3. CASE reply[w].status = "ok"
    <3>1. Stored(req[w]) /\ (Kept(req[w]) <=> Matches(reply[w].doc, req[w].msgs))
      BY <1>1, <2>2, <2>3 DEF SeenBy, Kept
    <3>2. Goto(w, IF Matches(reply[w].doc, req[w].msgs) THEN "ok" ELSE "conflict")
      BY <2>1, <2>3 DEF CheckExisting, Answer
    <3>3. QED
      BY <1>1, <2>2, <3>1, <3>2, RefineSettle
  <2>4. CASE reply[w].status # "ok"
    <3>1. Goto(w, "unavailable") \/ Goto(w, "distill")
      BY <2>1, <2>4 DEF CheckExisting, Answer
    <3>2. "distill" \in Open
      BY DEF Open
    <3>3. QED
      BY <1>1, <2>2, <3>1, <3>2, RefineFail, RefineGoto
  <2>5. QED
    BY <2>3, <2>4
<1>7. ASSUME NEW w \in Workers, Distill(w) PROVE UNCHANGED Contract!vars
  BY <1>1, <1>7, RefineGoto DEF Distill, Open, Requesting
<1>8. ASSUME NEW w \in Workers, PublishReply(w)
      PROVE  Contract!Settle(w) \/ Contract!Fail(w) \/ UNCHANGED Contract!vars
  <2>1. pc[w] = "publish" /\ pc[w] \in Open /\ "recheck" \in Open
        /\ UNCHANGED <<docs, req, orphans>>
    BY <1>8 DEF PublishReply, Open, Requesting, Reading
  <2>2. CASE reply[w].status = "created" /\ Answer(w, "ok")
    BY <1>1, <2>1, <2>2, RefineSettle DEF SeenBy, Answer
  <2>3. CASE reply[w].status = "conflict" /\ Goto(w, "recheck")
    BY <1>1, <2>1, <2>3, RefineGoto
  <2>4. CASE reply[w].status = "error" /\ Answer(w, "unavailable")
    BY <1>1, <2>1, <2>4, RefineFail DEF Answer
  <2>5. QED
    BY <1>8, <2>2, <2>3, <2>4 DEF PublishReply
<1>9. ASSUME NEW w \in Workers, Resend(w)
      PROVE  Contract!Abandon(w) \/ UNCHANGED Contract!vars
  <2>1. CallState' = CallState /\ CallState[w] = "open" /\ UNCHANGED <<docs, req>>
    BY <1>9 DEF Resend, CallState, Open
  <2>2. CASE orphans' = orphans
    BY <1>1, <2>1, <2>2, RefineStutter
  <2>3. CASE orphans' = orphans \cup {req[w]}
    BY <2>1, <2>3 DEF Contract!Abandon, CallState
  <2>4. QED
    BY <1>9, <2>2, <2>3 DEF Resend, Abandon
<1>10. ASSUME NEW w \in Workers, GiveUp(w) \/ Cancel(w) PROVE Contract!Fail(w)
  BY <1>1, <1>10, RefineFail DEF GiveUp, Cancel, Abandon, Answer, Open
<1>11. ASSUME NEW r \in Requests, Deliver(r)
       PROVE  Contract!Remember(r) \/ Contract!Discard(r)
  <2>1. r \in orphans /\ orphans' = orphans \ {r} /\ UNCHANGED <<pc, req>>
    BY <1>11 DEF Deliver
  <2>2. CASE docs[docPath(r)] = NoDoc
    BY <1>1, <1>11, <2>1, <2>2, PublishRemembers DEF Deliver, Contract!Remember, Memory
  <2>3. CASE docs[docPath(r)] # NoDoc
    BY <1>11, <2>1, <2>3 DEF Deliver, Publish, Contract!Discard
  <2>4. QED
    BY <2>2, <2>3
<1>12. ASSUME NEW r \in Requests, Drop(r) PROVE Contract!Discard(r)
  BY <1>12 DEF Drop, Contract!Discard
<1>13. ASSUME NEW p \in Paths, Purge(p) PROVE Contract!Forget(p)
  <2>1. Memory' = [Memory EXCEPT ![p] = {}]
    BY <1>1, <1>13 DEF Purge, Memory, TypeOK
  <2>2. \A w \in Workers : CallState[w] # "open"
    BY <1>1, <1>13 DEF Purge, CallState, TypeOK, Answers, Retryable
  <2>3. QED
    BY <1>13, <2>1, <2>2 DEF Purge, Contract!Forget, Memory, CallState
<1>14. CASE Heal \/ UNCHANGED vars
  BY <1>1, <1>14, RefineStutter DEF Heal, vars, CallState
<1>15. QED
  BY <1>3, <1>4, <1>5, <1>6, <1>7, <1>8, <1>9, <1>10, <1>11, <1>12, <1>13, <1>14
  DEF Next, Step, Contract!Next

\* Add keeps the contract: every step is one it allows, or shows nothing.
THEOREM AddImplementsContract == Spec => ImplementsContract
<1>1. Init => IInv /\ Written
  BY IInvInit, WrittenInit
<1>2. IInv /\ Written /\ [Next]_vars => (IInv /\ Written)'
  BY IInvNext, WrittenNext DEF IInv
<1>3. QED
  BY <1>1, <1>2, RefineInit, RefineNext, PTL DEF Spec, ImplementsContract, Contract!Spec
=============================================================================
