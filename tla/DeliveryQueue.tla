----------------------------- MODULE DeliveryQueue ---------------------------
(***************************************************************************)
(* The write-ahead queue of outbound messages of the gateway daemon        *)
(* (infra/outbound/delivery-queue.ts, deliverOutboundPayloads).  A message *)
(* is a file while it is on its way: {id}.json, renamed to {id}.delivered  *)
(* and unlinked when it has been sent, rewritten when it could not be, and *)
(* moved to failed/ at last.  Its own delivery and the recovery of what is *)
(* left in the directory, one after every start, work on it side by side;  *)
(* a restart that keeps the process starts a recovery beside the earlier   *)
(* one and ends nothing (cli/gateway-cli/run-loop.ts).                     *)
(***************************************************************************)
EXTENDS Naturals, FiniteSets

CONSTANTS DeliveryCount, \* the messages, numbered as they are enqueued
          PayloadCount,
          MaxRetries,    \* MAX_RETRIES
          MaxFailures,   \* bound: crashes, restarts and file operations that fail
          Recoveries     \* bound: the recoveries that run at once

Deliveries == 1..DeliveryCount
Payloads == 1..PayloadCount

ASSUME DeliveryAssumption ==
  /\ DeliveryCount \in Nat /\ PayloadCount \in Nat \ {0}
  /\ MaxRetries \in Nat \ {0} /\ MaxFailures \in Nat
  /\ IsFiniteSet(Recoveries) /\ Recoveries # {} /\ Recoveries \cap Deliveries = {}

\* A best-effort message is sent on in spite of a payload that fails, and its
\* sender may listen to such errors (onError) or not.
MessageKinds == {"strict", "heard", "unheard"}

VARIABLES
  kind,        \* of each message
  files,       \* of each message: which of "json", "delivered", "failed" exist
  entry,       \* what its json says: retryCount, and whether lastAttemptAt is set
  worker,      \* the delivery of each message, and the recoveries
  pending,     \* the entries a recovery has loaded and still has to do
  failures,
  sent,        \* how often the channel took each payload of each message
  accepted,    \* history: the messages that have been written to the queue
  acked,       \* history: those whose json was renamed
  excused,     \* history: those given up on the way: aborted, cancelled, or not listened to
  unrecorded,  \* history: of each message, the attempts whose end was not written
  contended    \* history: those a recovery loaded while somebody was at work on them

deliveryVars == <<kind, files, entry, worker, pending, failures, sent, accepted, acked, excused, unrecorded, contended>>

Workers == Deliveries \cup Recoveries

\* A worker that has done nothing yet for the message.
Begins(at, message) ==
  [at |-> at, message |-> message, payload |-> 1, partial |-> FALSE, retries |-> 0]

DeliveryInit ==
  /\ kind \in [Deliveries -> MessageKinds]
  /\ files = [d \in Deliveries |-> {}]
  /\ entry = [d \in Deliveries |-> [retries |-> 0, tried |-> FALSE]]
  /\ \E first \in Recoveries :
       worker = [w \in Workers |-> Begins(IF w \in Deliveries THEN "new"
                                          ELSE IF w = first THEN "load" ELSE "idle", w)]
  /\ pending = {} /\ failures = 0
  /\ sent = [d \in Deliveries |-> [p \in Payloads |-> 0]]
  /\ accepted = {} /\ acked = {} /\ excused = {} /\ contended = {}
  /\ unrecorded = [d \in Deliveries |-> 0]

Message(w) == worker[w].message
MovesTo(w, to) == worker' = [worker EXCEPT ![w].at = to]
Failure == failures < MaxFailures /\ failures' = failures + 1
Unrecorded(d) == unrecorded' = [unrecorded EXCEPT ![d] = @ + 1]

\* Where a worker goes when it has finished with a message.
Through(w) == IF w \in Recoveries THEN "next" ELSE "done"
Working(w) == worker[w].at \notin {"new", "done", "dead", "load", "next", "idle"}

deliveryHistory == <<accepted, acked, excused, unrecorded, contended>>

-----------------------------------------------------------------------------
(* Writing ahead and sending *)

\* The temporary file is renamed; if that fails the message is sent all the same.
EnqueueDelivery(d) ==
  /\ worker[d].at = "new" /\ \A c \in Deliveries : c < d => worker[c].at # "new"
  /\ MovesTo(d, "send")
  /\ \/ /\ files' = [files EXCEPT ![d] = {"json"}]
        /\ accepted' = accepted \cup {d}
        /\ UNCHANGED failures
     \/ Failure /\ UNCHANGED <<files, accepted>>
  /\ UNCHANGED <<entry, pending, sent, acked, excused, unrecorded, contended>>

\* A variant with a bug: a message sent in part counts as sent.
AfterLastIgnorant(w, partial) == IF w \in Deliveries \ accepted THEN "done" ELSE "ack"

\* After the last payload: a message that is not in the queue is done with.
AfterLast(w, partial) ==
  IF w \in Deliveries \ accepted THEN "done" ELSE IF partial THEN "failRead" ELSE "ack"

GoesOn(w, partial) ==
  worker' = [worker EXCEPT ![w].partial = partial,
                           ![w].payload = IF @ < PayloadCount THEN @ + 1 ELSE @,
                           ![w].at = IF worker[w].payload < PayloadCount THEN @ ELSE AfterLast(w, partial)]

\* The attempt ends with an error, which the recovery may find permanent.
Throws(w) ==
  \/ MovesTo(w, IF w \in Deliveries \ accepted THEN "done" ELSE "failRead")
  \/ w \in Recoveries /\ MovesTo(w, "move")

\* After the last payload the transcript may refuse the mirrored text.
SendOk(w) ==
  /\ worker[w].at = "send"
  /\ sent' = [sent EXCEPT ![Message(w)][worker[w].payload] = @ + 1]
  /\ \/ GoesOn(w, worker[w].partial)
     \/ worker[w].payload = PayloadCount /\ Throws(w)
  /\ UNCHANGED <<files, entry, pending, failures, deliveryHistory>>

\* A best-effort message goes on, and only a live sender with an onError
\* notices, which may throw; any other ends, and each does so when there is no
\* handler of the channel to begin with.
SendFails(w) ==
  /\ worker[w].at = "send"
  /\ LET d == Message(w) noticed == w \in Deliveries /\ kind[d] = "heard" IN
     \/ /\ kind[d] # "strict"
        /\ GoesOn(w, worker[w].partial \/ noticed)
        /\ excused' = IF noticed THEN excused ELSE excused \cup {d}
     \/ /\ kind[d] = "strict" \/ noticed \/ worker[w].payload = 1
        /\ Throws(w)
        /\ UNCHANGED excused
  /\ UNCHANGED <<files, entry, pending, failures, sent, accepted, acked, unrecorded, contended>>

\* A message_sending hook cancels the payload, which counts as done.
SendCancelled(w) ==
  /\ worker[w].at = "send"
  /\ GoesOn(w, worker[w].partial)
  /\ excused' = excused \cup {Message(w)}
  /\ UNCHANGED <<files, entry, pending, failures, sent, accepted, acked, unrecorded, contended>>

\* The sender aborts: the message counts as done.
SendAborted(d) ==
  /\ worker[d].at = "send" /\ kind[d] = "strict"
  /\ MovesTo(d, IF d \in accepted THEN "ack" ELSE "done")
  /\ excused' = excused \cup {d}
  /\ UNCHANGED <<files, entry, pending, failures, sent, accepted, acked, unrecorded, contended>>

-----------------------------------------------------------------------------
(* ackDelivery, failDelivery, moveToFailed *)

Marked(f) == (f \ {"json"}) \cup {"delivered"}

\* The first phase renames the file; without one the marker is tidied away.  A
\* rename that fails is ignored by the sender, and a failed retry to recovery.
AckRenames(w) ==
  /\ worker[w].at = "ack"
  /\ LET d == Message(w) IN
     \/ /\ "json" \in files[d]
        /\ files' = [files EXCEPT ![d] = Marked(@)]
        /\ acked' = acked \cup {d}
        /\ MovesTo(w, "unlink")
        /\ UNCHANGED <<failures, unrecorded>>
     \/ /\ "json" \notin files[d]
        /\ files' = [files EXCEPT ![d] = @ \ {"delivered"}]
        /\ MovesTo(w, Through(w))
        /\ UNCHANGED <<acked, failures, unrecorded>>
     \/ /\ Failure
        /\ \/ w \in Recoveries /\ MovesTo(w, "failRead") /\ UNCHANGED unrecorded
           \/ w \in Deliveries /\ MovesTo(w, "done") /\ Unrecorded(d)
        /\ UNCHANGED <<files, acked>>
  /\ UNCHANGED <<entry, pending, sent, accepted, excused, contended>>

AckUnlinks(w) ==
  /\ worker[w].at = "unlink"
  /\ files' = [files EXCEPT ![Message(w)] = @ \ {"delivered"}]
  /\ MovesTo(w, Through(w))
  /\ UNCHANGED <<entry, pending, failures, sent, deliveryHistory>>

\* The entry is read and, an await later, written back; errors are ignored.
FailReads(w) ==
  /\ worker[w].at = "failRead"
  /\ LET d == Message(w) IN
     \/ /\ "json" \in files[d]
        /\ worker' = [worker EXCEPT ![w].at = "failWrite", ![w].retries = entry[d].retries]
        /\ UNCHANGED <<failures, unrecorded>>
     \/ /\ "json" \notin files[d]
        /\ MovesTo(w, Through(w))
        /\ UNCHANGED <<failures, unrecorded>>
     \/ Failure /\ Unrecorded(d) /\ MovesTo(w, Through(w))
  /\ UNCHANGED <<files, entry, pending, sent, accepted, acked, excused, contended>>

\* A variant with a bug: the attempt is stamped and not counted.
CountedNot(n) == n

Counted(n) == n + 1

FailWrites(w) ==
  /\ worker[w].at = "failWrite"
  /\ MovesTo(w, Through(w))
  /\ LET d == Message(w) IN
     \/ /\ files' = [files EXCEPT ![d] = @ \cup {"json"}]
        /\ entry' = [entry EXCEPT ![d] = [retries |-> Counted(worker[w].retries), tried |-> TRUE]]
        /\ UNCHANGED <<failures, unrecorded>>
     \/ Failure /\ Unrecorded(d) /\ UNCHANGED <<files, entry>>
  /\ UNCHANGED <<pending, sent, accepted, acked, excused, contended>>

\* A rename that fails leaves the message for the next recovery.
MoveToFailed(w) ==
  /\ worker[w].at = "move"
  /\ MovesTo(w, "next")
  /\ \/ /\ files' = [files EXCEPT ![Message(w)] =
                      IF "json" \in @ THEN (@ \ {"json"}) \cup {"failed"} ELSE @]
        /\ UNCHANGED <<failures, unrecorded>>
     \/ Failure /\ Unrecorded(Message(w)) /\ UNCHANGED files
  /\ UNCHANGED <<entry, pending, sent, accepted, acked, excused, contended>>

-----------------------------------------------------------------------------
(* The recoveries, one after every start *)

\* A variant with a bug: the markers are taken for messages to be sent.
RecoverableMarked(d) == files[d] \cap {"json", "delivered"} # {}

Recoverable(d) == "json" \in files[d]

\* The message's own delivery or a recovery is at work on it, or about to be.
UnderWay(d) ==
  \/ \E w \in Workers : Message(w) = d /\ Working(w)
  \/ \E e \in pending : e.message = d

\* The markers are tidied away and the entries loaded.
RecoveryLoads(r) ==
  /\ worker[r].at = "load"
  /\ MovesTo(r, "next")
  /\ files' = [d \in Deliveries |-> files[d] \ {"delivered"}]
  /\ LET loaded == {d \in Deliveries : Recoverable(d)} IN
     /\ pending' = pending \cup {[by |-> r, message |-> d, known |-> entry[d]] : d \in loaded}
     /\ contended' = contended \cup {d \in loaded : UnderWay(d)}
  /\ UNCHANGED <<entry, failures, sent, accepted, acked, excused, unrecorded>>

\* The next entry is the oldest: given up, skipped because its backoff is not
\* over (never on the first replay), or sent again.
Takes(r, e) ==
  LET takes(at) == worker' = [worker EXCEPT ![r] = Begins(at, e.message)]
  IN  /\ pending' = pending \ {e}
      /\ \/ e.known.retries >= MaxRetries /\ takes("move")
         \/ e.known.retries < MaxRetries /\ e.known.tried /\ UNCHANGED worker
         \/ e.known.retries < MaxRetries /\ takes("send")

RecoveryTakes(r) ==
  /\ worker[r].at = "next"
  /\ \E e \in pending : /\ e.by = r
                        /\ \A f \in pending : f.by = r => e.message <= f.message
                        /\ Takes(r, e)
  /\ UNCHANGED <<files, entry, failures, sent, deliveryHistory>>

\* There is nothing left, or the time budget is over.
RecoveryEnds(r) ==
  /\ worker[r].at = "next"
  /\ MovesTo(r, "idle")
  /\ pending' = {e \in pending : e.by # r}
  /\ UNCHANGED <<files, entry, failures, sent, deliveryHistory>>

\* The gateway restarts inside its process: one more recovery, beside all others.
GatewayRestarts(r) ==
  /\ worker[r].at = "idle" /\ MovesTo(r, "load")
  /\ Failure
  /\ UNCHANGED <<files, entry, pending, sent, deliveryHistory>>

\* The process dies, or is replaced by a new one, and the gateway comes up again.
GatewayDies ==
  /\ Failure
  /\ \E first \in Recoveries :
       worker' = [w \in Workers |->
         [worker[w] EXCEPT !.at = IF w \in Recoveries THEN IF w = first THEN "load" ELSE "idle"
                                  ELSE IF Working(w) THEN "dead" ELSE @]]
  /\ pending' = {}
  /\ unrecorded' = [d \in Deliveries |-> unrecorded[d] +
                     Cardinality({w \in Workers : Working(w) /\ worker[w].at # "unlink" /\ Message(w) = d})]
  /\ UNCHANGED <<files, entry, sent, accepted, acked, excused, contended>>

DeliveryStep ==
  \/ \E d \in Deliveries : EnqueueDelivery(d) \/ SendAborted(d)
  \/ \E w \in Workers : \/ SendOk(w) \/ SendFails(w) \/ SendCancelled(w)
                        \/ AckRenames(w) \/ AckUnlinks(w)
                        \/ FailReads(w) \/ FailWrites(w) \/ MoveToFailed(w)
  \/ \E r \in Recoveries : RecoveryLoads(r) \/ RecoveryTakes(r) \/ RecoveryEnds(r) \/ GatewayRestarts(r)
  \/ GatewayDies

DeliveryNext == DeliveryStep /\ UNCHANGED kind

DeliverySpec == DeliveryInit /\ [][DeliveryNext]_deliveryVars

-----------------------------------------------------------------------------
(* Properties *)

\* The type invariant of the queue.  A message has its json and its marker at
\* once, and more attempts recorded than there may be, only if two workers were at
\* work on it.
DeliveryTypeOK ==
  /\ files \in [Deliveries -> SUBSET {"json", "delivered", "failed"}]
  /\ entry \in [Deliveries -> [retries : Nat, tried : BOOLEAN]]
  /\ worker \in [Workers -> [at : {"new", "send", "ack", "unlink", "failRead", "failWrite", "move",
                                   "done", "dead", "load", "next", "idle"},
                             message : Workers, payload : Payloads, partial : BOOLEAN, retries : Nat]]
  /\ \A e \in pending : e.message \in accepted
  /\ \A d \in Deliveries \ contended : Cardinality(files[d]) <= 1 /\ entry[d].retries <= MaxRetries

\* A message that was written to the queue is never lost: while the channel has
\* not taken every payload of it its file is there, or in failed/, through
\* crashes, failing files and concurrent recoveries; unless its sender aborted
\* it, a hook cancelled a payload, or nobody listened to an error of a
\* best-effort message.
NoMessageLost ==
  \A d \in accepted \ excused :
    (\E p \in Payloads : sent[d][p] = 0) => files[d] \cap {"json", "failed"} # {}

\* A message whose file was renamed is not sent again by a later recovery, even
\* if the marker was still there at the crash (the comment of ackDelivery,
\* delivery-queue.ts 132-140), unless a recovery had loaded it while its own
\* delivery or another recovery was at work on it.
NoReplayAfterAck ==
  [][\A d \in acked \ contended : sent'[d] = sent[d]]_deliveryVars

\* A message is sent again and again only so often: MAX_RETRIES attempts, and
\* one for each attempt whose end a crash or a failing file kept from the
\* queue (delivery-queue.ts 12, 349-360).
SendsBounded ==
  \A d \in Deliveries \ contended : \A p \in Payloads :
    sent[d][p] <= MaxRetries + unrecorded[d]

\* Where a message is for its sender; without a file it is lost.
Status(d) ==
  CASE d \in contended -> "contended"
    [] d \in acked \ contended -> "settled"
    [] d \notin accepted \cup acked \cup contended -> "new"
    [] OTHER -> IF "json" \in files[d] THEN "queued"
                ELSE IF "failed" \in files[d] THEN "parked" ELSE "lost"

\* The files, the deliveries and the recoveries implement Outbox: a message that
\* was written ahead stays in the queue until the channel has taken all of it or
\* it is in failed/, and after that no delivery and no recovery sends it, whatever
\* crashes or fails in between (delivery-queue.ts 132-215, 256-366), unless two of
\* them were at work on it at once.
Promise == INSTANCE Outbox
  WITH status <- [d \in Deliveries |-> Status(d)], waived <- excused

ImplementsOutbox == Promise!Spec
=============================================================================
