--------------------------- MODULE DeliveryProofs ----------------------------
(***************************************************************************)
(* The queue of outbound messages, for any number of messages and          *)
(* payloads, any limit of retries, any crashes, restarts and failing file  *)
(* operations, and any finite number of recoveries side by side.           *)
(*                                                                         *)
(* The inductive invariant, DeliveryInv, has a part per worker and a part  *)
(* per message. A worker that is sending has sent the payloads before, if  *)
(* nothing failed (WorkerOK). A message that is accepted, not excused and  *)
(* not sent has its file (Kept). For a message that no recovery loaded     *)
(* while somebody was at work on it, no two workers are ever at work on it *)
(* together (Alone), and its attempts add up (Tallied): what was sent of a *)
(* payload is at most the recorded retries, the attempts whose end was not *)
(* recorded, and the attempt under way. When it is acknowledged nobody     *)
(* will send it again (Finished). FilesOK adds that it has one file only.  *)
(* QueuedOK and Filed say where the file of a message under way is; with   *)
(* them every step of the queue is one of module Outbox.                   *)
(***************************************************************************)
EXTENDS DeliveryQueue, FiniteSetTheorems, TLAPS

Places == {"new", "send", "ack", "unlink", "failRead", "failWrite", "move", "done", "dead",
           "load", "next", "idle"}
Entries == [retries : Nat, tried : BOOLEAN]

DeliveryTypes ==
  /\ files \in [Deliveries -> SUBSET {"json", "delivered", "failed"}]
  /\ entry \in [Deliveries -> Entries]
  /\ worker \in [Workers -> [at : Places, message : Workers, payload : Payloads,
                             partial : BOOLEAN, retries : Nat]]
  /\ pending \in SUBSET [by : Recoveries, message : Deliveries, known : Entries]
  /\ failures \in Nat
  /\ sent \in [Deliveries -> [Payloads -> Nat]]
  /\ unrecorded \in [Deliveries -> Nat]
  /\ accepted \subseteq Deliveries /\ acked \subseteq Deliveries

Busy == {"send", "ack", "failRead", "failWrite"}
IsPending(d) == \E e \in pending : e.message = d

\* What a worker has behind it: it works on messages that are in the queue, and
\* if nothing has failed it has sent what comes before its payload.
WorkerOK(w) ==
  /\ w \in Deliveries => Message(w) = w /\ worker[w].at \notin {"load", "next", "idle", "move"}
  /\ w \in Recoveries => worker[w].at \notin {"new", "done", "dead"}
  /\ worker[w].at = "new" => worker[w].payload = 1 /\ ~worker[w].partial
  /\ worker[w].at \in {"ack", "unlink", "failRead", "failWrite", "move"} => Message(w) \in accepted
  /\ w \in Recoveries /\ worker[w].at = "send" => Message(w) \in accepted
  /\ worker[w].at = "unlink" => Message(w) \in acked
  /\ Message(w) \in Deliveries \ excused =>
       /\ worker[w].at = "send" /\ ~worker[w].partial =>
            \A p \in Payloads : p < worker[w].payload => sent[Message(w)][p] > 0
       /\ worker[w].at = "ack" => \A p \in Payloads : sent[Message(w)][p] > 0

\* Nobody will send the message again.
Finished(d) ==
  /\ "json" \notin files[d] /\ ~IsPending(d)
  /\ \A w \in Workers : Message(w) = d => worker[w].at \notin Busy \cup {"new"}

\* No two workers are at work on the message together, or one of them while
\* another is about to be.
Alone(d) ==
  /\ \A v, w \in Workers :
       Message(v) = d /\ Message(w) = d /\ Working(v) /\ Working(w) => v = w
  /\ IsPending(d) => \A w \in Workers : Message(w) = d => ~Working(w)
  /\ \A e, f \in pending : e.message = d /\ f.message = d => e = f
  /\ \A e \in pending : e.message = d => e.known = entry[d]
  /\ d \in acked => Finished(d)

\* The attempt worker w makes may have sent the payload.
AttemptedBy(w, p) ==
  \/ worker[w].at \in {"ack", "failRead", "failWrite", "move"}
  \/ worker[w].at = "send" /\ p < worker[w].payload
Attempted(d, p) == \E w \in Workers : Message(w) = d /\ AttemptedBy(w, p)

\* How the attempts add up.
Tallied(d) ==
  /\ entry[d].retries <= MaxRetries
  /\ \A w \in Workers : Message(w) = d =>
       /\ worker[w].at \in Busy \cup {"new"} => entry[d].retries < MaxRetries
       /\ worker[w].at = "failWrite" => worker[w].retries = entry[d].retries
  /\ \A p \in Payloads :
       sent[d][p] <= entry[d].retries + unrecorded[d] + (IF Attempted(d, p) THEN 1 ELSE 0)

Bounded(d) == \A p \in Payloads : sent[d][p] <= MaxRetries + unrecorded[d]

Kept(d) ==
  d \in accepted \ excused /\ (\E p \in Payloads : sent[d][p] = 0) =>
    files[d] \cap {"json", "failed"} # {}

MessageOK(d) ==
  /\ worker[d].at = "new" => d \notin accepted
  /\ d \notin accepted => "json" \notin files[d]
  /\ d \in acked => d \in accepted
  /\ Kept(d)
  /\ d \notin contended => Alone(d) /\ (Finished(d) \/ Tallied(d)) /\ Bounded(d)

PendingOK == \A e \in pending : e.message \in accepted

DeliveryInv ==
  /\ DeliveryTypes /\ PendingOK
  /\ \A w \in Workers : WorkerOK(w)
  /\ \A d \in Deliveries : MessageOK(d)

-----------------------------------------------------------------------------
\* The actions of one worker, and where each of them starts.
LEMMA WorkerFacts ==
  /\ Deliveries \subseteq Workers /\ Recoveries \subseteq Workers /\ Recoveries # {}
  /\ \A w \in Workers : w \in Deliveries <=> w \notin Recoveries
  /\ 1 \in Payloads /\ PayloadCount \in Payloads
BY DeliveryAssumption DEF Deliveries, Workers, Payloads

LEMMA AfterLastType ==
  ASSUME NEW w, NEW partial
  PROVE  /\ AfterLast(w, partial) \in {"done", "failRead", "ack"}
         /\ AfterLast(w, partial) = "done" <=> w \in Deliveries \ accepted
         /\ AfterLast(w, partial) = "ack" <=> ~(w \in Deliveries \ accepted) /\ ~partial
BY DEF AfterLast

\* What a move and a step to the next payload do to the workers.
LEMMA MovesToFacts ==
  ASSUME DeliveryTypes, NEW w \in Workers, NEW to \in Places, MovesTo(w, to)
  PROVE  /\ worker' \in [Workers -> [at : Places, message : Workers, payload : Payloads,
                                     partial : BOOLEAN, retries : Nat]]
         /\ \A v \in Workers : v # w => worker'[v] = worker[v]
         /\ worker'[w].at = to /\ worker'[w].message = worker[w].message
         /\ worker'[w].payload = worker[w].payload /\ worker'[w].partial = worker[w].partial
         /\ worker'[w].retries = worker[w].retries
<1>1. worker \in [Workers -> [at : Places, message : Workers, payload : Payloads,
                              partial : BOOLEAN, retries : Nat]]
  BY DEF DeliveryTypes
<1>2. worker' = [worker EXCEPT ![w].at = to]
  BY DEF MovesTo
<1>3. QED
  BY <1>1, <1>2

LEMMA ThrowsFacts ==
  ASSUME DeliveryTypes, NEW w \in Workers, Throws(w)
  PROVE  /\ worker' \in [Workers -> [at : Places, message : Workers, payload : Payloads,
                                     partial : BOOLEAN, retries : Nat]]
         /\ \A v \in Workers : v # w => worker'[v] = worker[v]
         /\ worker'[w].message = worker[w].message /\ worker'[w].partial = worker[w].partial
         /\ worker'[w].at \in {"done", "failRead", "move"}
         /\ worker'[w].at = "done" => w \in Deliveries \ accepted
         /\ worker'[w].at = "failRead" => ~(w \in Deliveries \ accepted)
         /\ worker'[w].at = "move" => w \in Recoveries
<1>1. {"done", "failRead", "move"} \subseteq Places
  BY DEF Places
<1>2. CASE MovesTo(w, IF w \in Deliveries \ accepted THEN "done" ELSE "failRead")
  <2>1. (IF w \in Deliveries \ accepted THEN "done" ELSE "failRead") \in Places
    BY <1>1
  <2>2. QED
    BY <1>2, <2>1, MovesToFacts
<1>3. CASE w \in Recoveries /\ MovesTo(w, "move")
  BY <1>1, <1>3, MovesToFacts
<1>4. QED
  BY <1>2, <1>3 DEF Throws

LEMMA GoesOnFacts ==
  ASSUME DeliveryTypes, NEW w \in Workers, NEW partial \in BOOLEAN, worker[w].at = "send",
         GoesOn(w, partial)
  PROVE  /\ worker' \in [Workers -> [at : Places, message : Workers, payload : Payloads,
                                     partial : BOOLEAN, retries : Nat]]
         /\ \A v \in Workers : v # w => worker'[v] = worker[v]
         /\ worker'[w].message = worker[w].message /\ worker'[w].partial = partial
         /\ \/ /\ worker[w].payload < PayloadCount /\ worker'[w].at = "send"
               /\ worker'[w].payload = worker[w].payload + 1
            \/ worker[w].payload = PayloadCount /\ worker'[w].at = AfterLast(w, partial)
<1>1. worker \in [Workers -> [at : Places, message : Workers, payload : Payloads,
                              partial : BOOLEAN, retries : Nat]]
  BY DEF DeliveryTypes
<1> DEFINE to == IF worker[w].payload < PayloadCount THEN "send" ELSE AfterLast(w, partial)
           pl == IF worker[w].payload < PayloadCount THEN worker[w].payload + 1 ELSE worker[w].payload
<1>2. worker' = [worker EXCEPT ![w].partial = partial, ![w].payload = pl, ![w].at = to]
  BY <1>1 DEF GoesOn
<1>3. worker[w].payload \in Payloads /\ PayloadCount \in Nat
  BY <1>1, DeliveryAssumption
<1>4. pl \in Payloads /\ to \in Places
  BY <1>3, AfterLastType DEF Payloads, Places
<1>5. worker[w].payload < PayloadCount \/ worker[w].payload = PayloadCount
  BY <1>3 DEF Payloads
<1> HIDE DEF to, pl
<1> DEFINE W1 == [worker EXCEPT ![w].partial = partial]
           W2 == [W1 EXCEPT ![w].payload = pl]
<1>8. /\ W1 \in [Workers -> [at : Places, message : Workers, payload : Payloads,
                              partial : BOOLEAN, retries : Nat]]
      /\ \A v \in Workers : v # w => W1[v] = worker[v]
      /\ W1[w].message = worker[w].message /\ W1[w].partial = partial
  BY <1>1
<1> HIDE DEF W1
<1>9. /\ W2 \in [Workers -> [at : Places, message : Workers, payload : Payloads,
                              partial : BOOLEAN, retries : Nat]]
      /\ \A v \in Workers : v # w => W2[v] = W1[v]
      /\ W2[w].message = W1[w].message /\ W2[w].partial = W1[w].partial
      /\ W2[w].payload = pl
  BY <1>8, <1>4
<1>10. worker' = [W2 EXCEPT ![w].at = to]
  BY <1>2 DEF W1
<1> HIDE DEF W2
<1>6. /\ worker' \in [Workers -> [at : Places, message : Workers, payload : Payloads,
                                     partial : BOOLEAN, retries : Nat]]
      /\ \A v \in Workers : v # w => worker'[v] = worker[v]
      /\ worker'[w].message = worker[w].message /\ worker'[w].partial = partial
      /\ worker'[w].at = to /\ worker'[w].payload = pl
  BY <1>8, <1>9, <1>10, <1>4
<1>7. QED
  BY <1>3, <1>5, <1>6 DEF to, pl, Payloads

-----------------------------------------------------------------------------
\* A step of one worker, which touches nothing but its own message.
OneWorker(w) ==
  /\ \A v \in Workers : v # w => worker'[v] = worker[v]
  /\ worker'[w].message = worker[w].message
  /\ \A c \in Deliveries : c # Message(w) =>
       /\ files'[c] = files[c] /\ entry'[c] = entry[c]
       /\ sent'[c] = sent[c] /\ unrecorded'[c] = unrecorded[c]
       /\ c \in accepted' <=> c \in accepted
       /\ c \in acked' <=> c \in acked
       /\ c \in excused' <=> c \in excused
  /\ pending' = pending /\ contended' = contended
  /\ accepted \subseteq accepted' /\ acked \subseteq acked' /\ excused \subseteq excused'
  /\ \A p \in Payloads : sent'[Message(w)][p] >= sent[Message(w)][p]

LEMMA OthersKept ==
  ASSUME DeliveryInv, NEW w \in Workers, NEW d \in Deliveries, Message(w) = d, OneWorker(w),
         DeliveryTypes', WorkerOK(w)', MessageOK(d)'
  PROVE  DeliveryInv'
<1>1. \A v \in Workers : v # w => worker'[v] = worker[v] /\ Message(v)' = Message(v)
  BY DEF OneWorker, Message
<1>2. Message(w)' = d
  BY DEF OneWorker, Message
<1>3. ASSUME NEW v \in Workers, v # w
      PROVE  WorkerOK(v)'
  <2>1. WorkerOK(v)
    BY DEF DeliveryInv
  <2>2. worker'[v] = worker[v] /\ Message(v)' = Message(v)
    BY <1>1, <1>3
  <2>3. \A c \in Deliveries : \A p \in Payloads : sent[c][p] > 0 => sent'[c][p] > 0
    <3> SUFFICES ASSUME NEW c \in Deliveries, NEW p \in Payloads, sent[c][p] > 0
                 PROVE  sent'[c][p] > 0
      OBVIOUS
    <3>1. sent[c][p] \in Nat /\ sent'[c][p] \in Nat
      BY DEF DeliveryInv, DeliveryTypes
    <3>2. c = Message(w) => sent'[c][p] >= sent[c][p]
      BY DEF OneWorker
    <3>3. c # Message(w) => sent'[c] = sent[c]
      BY DEF OneWorker
    <3>4. QED
      BY <3>1, <3>2, <3>3
  <2>4. accepted \subseteq accepted' /\ acked \subseteq acked' /\ excused \subseteq excused'
    BY DEF OneWorker
  <2>5. QED
    BY <2>1, <2>2, <2>3, <2>4 DEF WorkerOK
<1>4. ASSUME NEW c \in Deliveries, c # d
      PROVE  MessageOK(c)'
  <2>1. MessageOK(c)
    BY DEF DeliveryInv
  <2>2. /\ files'[c] = files[c] /\ entry'[c] = entry[c]
        /\ sent'[c] = sent[c] /\ unrecorded'[c] = unrecorded[c]
        /\ c \in accepted' <=> c \in accepted
        /\ c \in acked' <=> c \in acked
        /\ c \in excused' <=> c \in excused
        /\ pending' = pending /\ contended' = contended
    BY <1>4 DEF OneWorker
  <2>3. \A v \in Workers : Message(v)' = c <=> Message(v) = c
    BY <1>1, <1>2, <1>4
  <2>4. \A v \in Workers : Message(v) = c => worker'[v] = worker[v] /\ Working(v)' = Working(v)
    <3> SUFFICES ASSUME NEW v \in Workers, Message(v) = c
                 PROVE  worker'[v] = worker[v] /\ Working(v)' = Working(v)
      OBVIOUS
    <3>1. worker'[v] = worker[v]
      BY <1>1, <1>4
    <3>2. QED
      BY <3>1 DEF Working
  <2>5. Message(c) = c /\ c \in Workers
    BY WorkerFacts DEF DeliveryInv, WorkerOK
  <2>6. worker'[c] = worker[c]
    BY <2>4, <2>5
  <2>8. Finished(c)' <=> Finished(c)
    BY <2>2, <2>3, <2>4 DEF Finished, IsPending
  <2>9. Alone(c) => Alone(c)'
    BY <2>2, <2>3, <2>4, <2>8 DEF Alone, IsPending
  <2>10. \A p \in Payloads : Attempted(c, p)' <=> Attempted(c, p)
    BY <2>3, <2>4 DEF Attempted, AttemptedBy
  <2>11. Tallied(c) => Tallied(c)'
    BY <2>2, <2>3, <2>4, <2>10 DEF Tallied
  <2>12. Kept(c)' /\ (Bounded(c) => Bounded(c)')
    BY <2>1, <2>2 DEF Kept, Bounded, MessageOK
  <2>13. QED
    BY <2>1, <2>2, <2>6, <2>8, <2>9, <2>11, <2>12 DEF MessageOK
<1>5. PendingOK'
  BY DEF DeliveryInv, PendingOK, OneWorker
<1>6. QED
  BY <1>3, <1>4, <1>5 DEF DeliveryInv

\* While a worker is at a message that is not contended, nobody else is.
LEMMA SoleWorker ==
  ASSUME DeliveryInv, NEW w \in Workers, NEW d \in Deliveries, Message(w) = d, d \notin contended,
         worker[w].at = "new" \/ Working(w)
  PROVE  /\ \A v \in Workers : v # w /\ Message(v) = d => ~Working(v) /\ worker[v].at # "new"
         /\ ~IsPending(d)
         /\ worker[w].at \in Busy \cup {"new"} => ~Finished(d) /\ Tallied(d)
<1>1. MessageOK(d) /\ Alone(d) /\ (Finished(d) \/ Tallied(d)) /\ \A v \in Workers : WorkerOK(v)
  BY DEF DeliveryInv, MessageOK
<1>2. /\ \A v \in Workers : v \in Deliveries <=> v \notin Recoveries
      /\ d \in Workers /\ Message(d) = d
  BY <1>1, WorkerFacts DEF WorkerOK
<1>3. \A v \in Workers : v \in Recoveries /\ Working(v) => Message(v) \in accepted
  <2>1. ASSUME NEW v \in Workers, v \in Recoveries, Working(v)
        PROVE  Message(v) \in accepted
    BY <1>1, <2>1 DEF WorkerOK, Working, DeliveryInv, DeliveryTypes, Places
  <2>2. QED
    BY <2>1
<1>4. CASE Working(w)
  <2>1. \A v \in Workers : v # w /\ Message(v) = d => ~Working(v)
    BY <1>1, <1>4 DEF Alone
  <2>2. ~IsPending(d)
    BY <1>1, <1>4 DEF Alone
  <2>3. ASSUME NEW v \in Workers, v # w, Message(v) = d
        PROVE  worker[v].at # "new"
    <3>1. CASE v \in Recoveries
      BY <1>1, <3>1 DEF WorkerOK
    <3>2. CASE v \in Deliveries
      <4>1. v = d /\ w \in Recoveries
        BY <1>1, <1>2, <2>3, <3>2 DEF WorkerOK
      <4>2. d \in accepted
        BY <1>3, <1>4, <4>1
      <4>3. QED
        BY <1>1, <4>1, <4>2 DEF MessageOK
    <3>3. QED
      BY <1>2, <3>1, <3>2
  <2>4. QED
    BY <1>1, <2>1, <2>2, <2>3 DEF Finished
<1>5. CASE worker[w].at = "new"
  <2>1. w = d
    BY <1>1, <1>2, <1>5 DEF WorkerOK
  <2>2. d \notin accepted
    BY <1>1, <1>5, <2>1 DEF MessageOK
  <2>3. ASSUME NEW v \in Workers, v # w, Message(v) = d
        PROVE  v \in Recoveries /\ ~Working(v) /\ worker[v].at # "new"
    BY <1>1, <1>2, <1>3, <2>1, <2>2, <2>3 DEF WorkerOK
  <2>4. ~IsPending(d)
    BY <2>2 DEF DeliveryInv, PendingOK, IsPending
  <2>5. QED
    BY <1>1, <1>5, <2>3, <2>4 DEF Finished
<1>6. QED
  BY <1>4, <1>5

\* What has to be looked at when such a worker makes a step.
LEMMA SoleStep ==
  ASSUME DeliveryInv, NEW w \in Workers, NEW d \in Deliveries, Message(w) = d, d \notin contended,
         worker[w].at = "new" \/ Working(w), OneWorker(w)
  PROVE  /\ \A p \in Payloads : Attempted(d, p) <=> AttemptedBy(w, p)
         /\ \A p \in Payloads : Attempted(d, p)' <=> AttemptedBy(w, p)'
         /\ Finished(d)' <=> "json" \notin files'[d] /\ worker'[w].at \notin Busy \cup {"new"}
         /\ Alone(d)' <=> (d \in acked' => Finished(d)')
         /\ /\ entry'[d].retries <= MaxRetries
            /\ worker'[w].at \in Busy \cup {"new"} => entry'[d].retries < MaxRetries
            /\ worker'[w].at = "failWrite" => worker'[w].retries = entry'[d].retries
            /\ \A p \in Payloads : sent'[d][p] <= entry'[d].retries + unrecorded'[d] +
                                                   (IF AttemptedBy(w, p)' THEN 1 ELSE 0)
            => Tallied(d)'
<1>1. /\ \A v \in Workers : v # w /\ Message(v) = d => ~Working(v) /\ worker[v].at # "new"
      /\ ~IsPending(d)
  BY SoleWorker
<1>2. \A v \in Workers : v # w => worker'[v] = worker[v] /\ Message(v)' = Message(v)
  BY DEF OneWorker, Message
<1>3. Message(w)' = d /\ pending' = pending
  BY DEF OneWorker, Message
<1>4. \A v \in Workers : v # w /\ Message(v)' = d => ~Working(v)' /\ worker'[v].at # "new"
  BY <1>1, <1>2 DEF Working
<1>5. ~IsPending(d)'
  BY <1>1, <1>3 DEF IsPending
<1>6. \A p \in Payloads : Attempted(d, p) <=> AttemptedBy(w, p)
  BY <1>1 DEF Attempted, AttemptedBy, Working
<1>7. \A p \in Payloads : Attempted(d, p)' <=> AttemptedBy(w, p)'
  BY <1>3, <1>4 DEF Attempted, AttemptedBy, Working
<1>8. Finished(d)' <=> "json" \notin files'[d] /\ worker'[w].at \notin Busy \cup {"new"}
  BY <1>3, <1>4, <1>5 DEF Finished, Working, Busy
<1>9. Alone(d)' <=> (d \in acked' => Finished(d)')
  <2>1. \A e \in pending' : e.message # d
    BY <1>5 DEF IsPending
  <2>2. \A u, v \in Workers :
          Message(u)' = d /\ Message(v)' = d /\ Working(u)' /\ Working(v)' => u = v
    BY <1>4
  <2>3. QED
    BY <1>5, <2>1, <2>2 DEF Alone
<1>10. /\ entry'[d].retries <= MaxRetries
       /\ worker'[w].at \in Busy \cup {"new"} => entry'[d].retries < MaxRetries
       /\ worker'[w].at = "failWrite" => worker'[w].retries = entry'[d].retries
       /\ \A p \in Payloads : sent'[d][p] <= entry'[d].retries + unrecorded'[d] +
                                              (IF AttemptedBy(w, p)' THEN 1 ELSE 0)
       => Tallied(d)'
  <2>1. \A v \in Workers : v # w /\ Message(v)' = d => worker'[v].at \notin Busy \cup {"new"}
    BY <1>4 DEF Working, Busy
  <2>2. QED
    BY <1>7, <2>1 DEF Tallied, Busy
<1>11. QED
  BY <1>6, <1>7, <1>8, <1>9, <1>10

LEMMA WorkingMessage ==
  ASSUME DeliveryInv, NEW w \in Workers,
         worker[w].at \in {"new", "send", "ack", "unlink", "failRead", "failWrite", "move"}
  PROVE  /\ Message(w) \in Deliveries
         /\ worker[w].at = "new" \/ Working(w)
         /\ w \in Deliveries => Message(w) = w
         /\ WorkerOK(w)
<1>1. WorkerOK(w)
  BY DEF DeliveryInv
<1>2. accepted \subseteq Deliveries
  BY DEF DeliveryInv, DeliveryTypes
<1>3. Message(w) \in Deliveries
  BY <1>1, <1>2, WorkerFacts DEF WorkerOK
<1>4. QED
  BY <1>1, <1>3 DEF Working, WorkerOK

LEMMA SendOkKept ==
  ASSUME DeliveryInv, NEW w \in Workers, SendOk(w)
  PROVE  DeliveryInv'
<1>1. /\ worker[w].at = "send"
      /\ GoesOn(w, worker[w].partial) \/ (worker[w].payload = PayloadCount /\ Throws(w))
  BY DEF SendOk
<1>2. PICK d \in Deliveries : Message(w) = d
  BY <1>1, WorkingMessage
<1>3. Working(w) /\ WorkerOK(w) /\ (w \in Deliveries => w = d) /\ DeliveryTypes /\ MessageOK(d)
  BY <1>1, <1>2, WorkingMessage DEF DeliveryInv
<1>4. PICK q \in Payloads : worker[w].payload = q
  BY <1>3 DEF DeliveryTypes
<1>5. /\ sent' = [sent EXCEPT ![d][q] = @ + 1]
      /\ UNCHANGED <<files, entry, pending, failures, accepted, acked, excused, unrecorded, contended>>
  BY <1>2, <1>4 DEF SendOk, deliveryHistory
<1>6. /\ sent' \in [Deliveries -> [Payloads -> Nat]]
      /\ \A c \in Deliveries : c # d => sent'[c] = sent[c]
      /\ \A p \in Payloads : sent'[d][p] = IF p = q THEN sent[d][p] + 1 ELSE sent[d][p]
  BY <1>3, <1>5 DEF DeliveryTypes
<1>7. \A p \in Payloads : sent[d][p] \in Nat /\ sent'[d][p] \in Nat
  BY <1>3, <1>6 DEF DeliveryTypes
<1>8. worker[w].partial \in BOOLEAN
  BY <1>3 DEF DeliveryTypes
<1>9. /\ worker' \in [Workers -> [at : Places, message : Workers, payload : Payloads,
                                   partial : BOOLEAN, retries : Nat]]
      /\ \A v \in Workers : v # w => worker'[v] = worker[v]
      /\ worker'[w].message = worker[w].message /\ worker'[w].partial = worker[w].partial
      /\ \/ q < PayloadCount /\ worker'[w].at = "send" /\ worker'[w].payload = q + 1
         \/ q = PayloadCount /\ worker'[w].at \in {"done", "failRead", "ack", "move"}
      /\ worker'[w].at = "done" => w \in Deliveries \ accepted
      /\ worker'[w].at \in {"failRead", "ack"} => ~(w \in Deliveries \ accepted)
      /\ worker'[w].at = "ack" => ~worker[w].partial
      /\ worker'[w].at = "move" => w \in Recoveries
  <2>1. CASE GoesOn(w, worker[w].partial)
    <3>1. /\ worker' \in [Workers -> [at : Places, message : Workers, payload : Payloads,
                                   partial : BOOLEAN, retries : Nat]]
          /\ \A v \in Workers : v # w => worker'[v] = worker[v]
          /\ worker'[w].message = worker[w].message /\ worker'[w].partial = worker[w].partial
          /\ \/ q < PayloadCount /\ worker'[w].at = "send" /\ worker'[w].payload = q + 1
             \/ q = PayloadCount /\ worker'[w].at = AfterLast(w, worker[w].partial)
      BY <1>1, <1>3, <1>4, <1>8, <2>1, GoesOnFacts
    <3>2. QED
      BY <3>1, AfterLastType
  <2>2. CASE worker[w].payload = PayloadCount /\ Throws(w)
    BY <1>3, <1>4, <2>2, ThrowsFacts
  <2>3. QED
    BY <1>1, <2>1, <2>2
<1>10. DeliveryTypes'
  BY <1>3, <1>5, <1>6, <1>9 DEF DeliveryTypes
<1>11. OneWorker(w)
  BY <1>2, <1>5, <1>6, <1>7, <1>9 DEF OneWorker
<1>12. \A p \in Payloads : p \in Nat /\ (p < q + 1 <=> p < q \/ p = q) /\ (q = PayloadCount => p < q \/ p = q)
  BY DeliveryAssumption DEF Payloads
<1>13. WorkerOK(w)'
  <2>1. Message(w)' = d
    BY <1>2, <1>9 DEF Message
  <2>2. d \in Deliveries \ excused /\ ~worker[w].partial =>
          \A p \in Payloads : p < q \/ p = q => sent'[d][p] > 0
    BY <1>1, <1>2, <1>3, <1>4, <1>6, <1>7, <1>12 DEF WorkerOK
  <2>3. worker'[w].at \in {"send", "failRead", "ack", "done", "move"}
    BY <1>9
  <2>4. w \in Recoveries => d \in accepted /\ worker'[w].at # "done"
    BY <1>1, <1>2, <1>3, <1>9, WorkerFacts DEF WorkerOK
  <2>5. /\ worker'[w].at \in {"failRead", "ack", "move"} => d \in accepted
        /\ w \in Deliveries => worker'[w].at # "move"
    BY <1>3, <1>9, <2>4, WorkerFacts
  <2>6. worker'[w].at = "ack" => ~worker[w].partial /\ q = PayloadCount
    BY <1>9
  <2>7. worker'[w].at = "send" => worker'[w].payload = q + 1
    BY <1>9
  <2>8. d \in Deliveries \ excused =>
          /\ worker'[w].at = "send" /\ ~worker[w].partial =>
               \A p \in Payloads : p < worker'[w].payload => sent'[d][p] > 0
          /\ worker'[w].at = "ack" => \A p \in Payloads : sent'[d][p] > 0
    BY <1>12, <2>2, <2>6, <2>7
  <2>9. QED
    BY <1>2, <1>3, <1>5, <1>9, <2>1, <2>3, <2>4, <2>5, <2>8 DEF WorkerOK
<1>14. ASSUME d \notin contended
       PROVE  Alone(d)' /\ (Finished(d)' \/ Tallied(d)') /\ Bounded(d)'
  <2>1. ~Finished(d) /\ Tallied(d) /\ Alone(d)
    BY <1>1, <1>2, <1>3, <1>14, SoleWorker DEF Busy, MessageOK
  <2>2. d \notin acked
    BY <2>1 DEF Alone
  <2>3. entry[d].retries \in Nat /\ unrecorded[d] \in Nat /\ MaxRetries \in Nat
    BY <1>3, DeliveryAssumption DEF DeliveryTypes, Entries
  <2>4. entry[d].retries < MaxRetries
    BY <1>1, <1>2, <2>1 DEF Tallied, Busy
  <2>5. \A p \in Payloads : AttemptedBy(w, p) <=> p < q
    BY <1>1, <1>4 DEF AttemptedBy
  <2>6. \A p \in Payloads :
          sent[d][p] <= entry[d].retries + unrecorded[d] + (IF p < q THEN 1 ELSE 0)
    BY <1>1, <1>2, <1>3, <1>11, <1>14, <2>1, <2>5, SoleStep DEF Tallied
  <2>7. \A p \in Payloads : sent'[d][p] <= entry[d].retries + unrecorded[d] + 1
    BY <1>6, <1>7, <1>12, <2>3, <2>6
  <2>8. \A p \in Payloads : ~(p < q \/ p = q) => sent'[d][p] <= entry[d].retries + unrecorded[d]
    BY <1>6, <1>7, <1>12, <2>3, <2>6
  <2>9. Alone(d)'
    BY <1>2, <1>3, <1>5, <1>11, <1>14, <2>2, SoleStep
  <2>10. CASE worker'[w].at = "done"
    <3>1. d \notin accepted
      BY <1>2, <1>3, <1>9, <2>10, WorkerFacts
    <3>2. "json" \notin files'[d]
      BY <1>3, <1>5, <3>1 DEF MessageOK
    <3>3. Finished(d)'
      BY <1>2, <1>3, <1>11, <1>14, <2>10, <3>2, SoleStep DEF Busy
    <3>4. QED
      BY <1>5, <1>7, <2>3, <2>4, <2>7, <2>9, <3>3 DEF Bounded
  <2>11. CASE worker'[w].at # "done"
    <3>1. worker'[w].at \in {"send", "failRead", "ack", "move"} /\ (worker'[w].at = "send" => worker'[w].payload = q + 1)
      BY <1>9, <2>11
    <3>2. \A p \in Payloads : p < q \/ p = q => AttemptedBy(w, p)'
      BY <1>12, <3>1 DEF AttemptedBy
    <3>3. \A p \in Payloads : sent'[d][p] <= entry'[d].retries + unrecorded'[d] +
                                              (IF AttemptedBy(w, p)' THEN 1 ELSE 0)
      BY <1>5, <1>7, <2>3, <2>7, <2>8, <3>2
    <3>4. Tallied(d)'
      BY <1>2, <1>3, <1>5, <1>11, <1>14, <2>3, <2>4, <3>1, <3>3, SoleStep
    <3>5. QED
      BY <1>5, <1>7, <2>3, <2>4, <2>7, <2>9, <3>4 DEF Bounded
  <2>12. QED
    BY <2>10, <2>11
<1>15. MessageOK(d)'
  <2>1. Kept(d)'
    BY <1>3, <1>5, <1>6, <1>7 DEF Kept, MessageOK
  <2>2. worker'[d].at = "new" => worker[d].at = "new"
    <3>1. worker'[w].at # "new"
      BY <1>9
    <3>2. d \in Workers
      BY WorkerFacts
    <3>3. QED
      BY <1>9, <3>1, <3>2
  <2>3. QED
    BY <1>3, <1>5, <1>14, <2>1, <2>2 DEF MessageOK
<1>16. QED
  BY <1>2, <1>10, <1>11, <1>13, <1>15, OthersKept

\* A step that sends nothing: what is left to show of it.
LEMMA QuietKept ==
  ASSUME DeliveryInv, NEW w \in Workers, NEW d \in Deliveries, Message(w) = d,
         worker[w].at = "new" \/ Working(w), OneWorker(w), DeliveryTypes', sent' = sent,
         NEW to \in Places, worker'[w].at = to, to \notin {"new", "load", "idle"},
         w \in Deliveries => to \notin {"next", "move"},
         w \in Recoveries => to \notin {"done", "dead"},
         to \in {"ack", "unlink", "failRead", "failWrite", "move"} \/ (w \in Recoveries /\ to = "send") => d \in accepted',
         to = "unlink" => d \in acked',
         d \notin excused' /\ to = "send" /\ ~worker'[w].partial =>
           \A p \in Payloads : p < worker'[w].payload => sent[d][p] > 0,
         d \notin excused' /\ to = "ack" => \A p \in Payloads : sent[d][p] > 0,
         "json" \in files'[d] => d \in accepted',
         d \in acked' => d \in accepted',
         Kept(d)',
         d \notin contended =>
           (d \in acked' => Finished(d)') /\ (Finished(d)' \/ Tallied(d)') /\ Bounded(d)'
  PROVE  DeliveryInv'
<1>1. WorkerOK(w)'
  <2>1. Message(w)' = d
    BY DEF OneWorker, Message
  <2>2. w \in Deliveries => w = d
    BY DEF DeliveryInv, WorkerOK
  <2>3. QED
    BY <2>1, <2>2 DEF WorkerOK
<1>2. worker'[d].at # "new" \/ d \notin accepted'
  <2>1. d \in Workers /\ MessageOK(d)
    BY WorkerFacts DEF DeliveryInv
  <2>2. CASE d = w
    BY <2>2
  <2>3. CASE d # w
    <3>1. worker'[d] = worker[d] /\ w \in Recoveries
      BY <2>1, <2>3, WorkerFacts DEF OneWorker, DeliveryInv, WorkerOK
    <3>2. d \in accepted
      BY <2>1, <3>1, WorkerFacts DEF DeliveryInv, WorkerOK, Working, DeliveryTypes, Places
    <3>3. QED
      BY <2>1, <3>1, <3>2 DEF MessageOK
  <2>4. QED
    BY <2>2, <2>3
<1>3. d \notin contended' => Alone(d)'
  BY SoleStep DEF OneWorker
<1>4. MessageOK(d)'
  BY <1>2, <1>3 DEF MessageOK, OneWorker
<1>5. QED
  BY <1>1, <1>4, OthersKept

LEMMA EnqueueKept ==
  ASSUME DeliveryInv, NEW d \in Deliveries, EnqueueDelivery(d)
  PROVE  DeliveryInv'
<1>1. worker[d].at = "new" /\ MovesTo(d, "send") /\ d \in Workers
  BY WorkerFacts DEF EnqueueDelivery
<1>2. Message(d) = d /\ DeliveryTypes /\ MessageOK(d) /\ WorkerOK(d) /\ "send" \in Places
  BY <1>1, WorkerFacts DEF DeliveryInv, WorkerOK, Places
<1>3. /\ worker' \in [Workers -> [at : Places, message : Workers, payload : Payloads,
                                   partial : BOOLEAN, retries : Nat]]
      /\ \A v \in Workers : v # d => worker'[v] = worker[v]
      /\ worker'[d].at = "send" /\ worker'[d].message = worker[d].message
      /\ worker'[d].payload = worker[d].payload /\ worker'[d].partial = worker[d].partial
  BY <1>1, <1>2, MovesToFacts
<1>4. UNCHANGED <<entry, pending, sent, acked, excused, unrecorded, contended>>
  BY DEF EnqueueDelivery
<1>5. /\ failures' \in Nat
      /\ \/ files' = [files EXCEPT ![d] = {"json"}] /\ accepted' = accepted \cup {d}
         \/ files' = files /\ accepted' = accepted
  BY <1>2 DEF EnqueueDelivery, Failure, DeliveryTypes
<1>6. /\ files' \in [Deliveries -> SUBSET {"json", "delivered", "failed"}]
      /\ \A c \in Deliveries : c # d => files'[c] = files[c]
      /\ \/ files'[d] = {"json"} /\ d \in accepted'
         \/ files'[d] = files[d] /\ accepted' = accepted
  BY <1>2, <1>5 DEF DeliveryTypes
<1>7. DeliveryTypes'
  BY <1>2, <1>3, <1>4, <1>5, <1>6 DEF DeliveryTypes
<1>8. OneWorker(d)
  <2>1. \A p \in Payloads : sent[d][p] \in Nat
    BY <1>2 DEF DeliveryTypes
  <2>2. QED
    BY <1>2, <1>3, <1>4, <1>5, <1>6, <2>1 DEF OneWorker
<1>9. worker'[d].payload = 1 /\ \A p \in Payloads : ~(p < 1)
  BY <1>1, <1>2, <1>3 DEF WorkerOK, Payloads
<1>10. "json" \in files'[d] => d \in accepted'
  BY <1>2, <1>6 DEF MessageOK
<1>11. d \notin acked /\ Kept(d)'
  BY <1>1, <1>2, <1>4, <1>6 DEF MessageOK, Kept
<1>12. ASSUME d \notin contended
       PROVE  Tallied(d)' /\ Bounded(d)'
  <2>1. Tallied(d)
    BY <1>1, <1>2, <1>12, SoleWorker
  <2>2. \A p \in Payloads : ~AttemptedBy(d, p)
    BY <1>1 DEF AttemptedBy
  <2>3. \A p \in Payloads : sent[d][p] <= entry[d].retries + unrecorded[d] + 0
    BY <1>1, <1>2, <1>8, <1>12, <2>1, <2>2, SoleStep DEF Tallied
  <2>4. \A p \in Payloads : ~AttemptedBy(d, p)'
    BY <1>3, <1>9 DEF AttemptedBy
  <2>5. entry[d].retries < MaxRetries /\ entry[d].retries \in Nat /\ MaxRetries \in Nat
    BY <1>1, <1>2, <2>1, DeliveryAssumption DEF Tallied, DeliveryTypes, Entries
  <2>6. Tallied(d)'
    BY <1>1, <1>2, <1>3, <1>4, <1>8, <1>12, <2>3, <2>4, <2>5, SoleStep
  <2>7. \A p \in Payloads : sent[d][p] \in Nat /\ unrecorded[d] \in Nat
    BY <1>2 DEF DeliveryTypes
  <2>8. QED
    BY <1>4, <2>3, <2>5, <2>6, <2>7 DEF Bounded
<1>13. QED
  BY <1>1, <1>2, <1>3, <1>4, <1>7, <1>8, <1>9, <1>10, <1>11, <1>12, WorkerFacts, QuietKept

\* What is known of the attempts while a worker is busy with a message.
LEMMA BusyTally ==
  ASSUME DeliveryInv, NEW w \in Workers, NEW d \in Deliveries, Message(w) = d, d \notin contended,
         worker[w].at \in Busy
  PROVE  /\ d \notin acked
         /\ entry[d].retries \in Nat /\ MaxRetries \in Nat /\ entry[d].retries < MaxRetries
         /\ unrecorded[d] \in Nat
         /\ worker[w].at = "failWrite" => worker[w].retries = entry[d].retries
         /\ \A p \in Payloads :
              /\ sent[d][p] \in Nat /\ sent[d][p] <= entry[d].retries + unrecorded[d] + 1
              /\ AttemptedBy(w, p) \/ sent[d][p] <= entry[d].retries + unrecorded[d]
<1>1. Working(w) /\ DeliveryTypes /\ MessageOK(d)
  BY DEF Busy, Working, DeliveryInv
<1>2. /\ \A v \in Workers : v # w /\ Message(v) = d => ~Working(v) /\ worker[v].at # "new"
      /\ ~Finished(d) /\ Tallied(d)
  BY <1>1, SoleWorker
<1>3. d \notin acked
  BY <1>1, <1>2 DEF MessageOK, Alone
<1>4. \A p \in Payloads : Attempted(d, p) => AttemptedBy(w, p)
  BY <1>2 DEF Attempted, AttemptedBy, Working
<1>5. entry[d].retries \in Nat /\ MaxRetries \in Nat /\ unrecorded[d] \in Nat
  BY <1>1, DeliveryAssumption DEF DeliveryTypes, Entries
<1>6. \A p \in Payloads : sent[d][p] \in Nat
  BY <1>1 DEF DeliveryTypes
<1>7. \A p \in Payloads :
        sent[d][p] <= entry[d].retries + unrecorded[d] + (IF Attempted(d, p) THEN 1 ELSE 0)
  BY <1>2 DEF Tallied
<1>8. \A p \in Payloads :
        /\ sent[d][p] <= entry[d].retries + unrecorded[d] + 1
        /\ AttemptedBy(w, p) \/ sent[d][p] <= entry[d].retries + unrecorded[d]
  BY <1>4, <1>5, <1>6, <1>7
<1>9. /\ entry[d].retries < MaxRetries
      /\ worker[w].at = "failWrite" => worker[w].retries = entry[d].retries
  BY <1>2 DEF Tallied
<1>10. QED
  BY <1>3, <1>5, <1>6, <1>8, <1>9

\* A busy worker that sends nothing keeps its attempt, or has it recorded as one
\* whose end was not written, or leaves a message that nobody will find again.
LEMMA QuietTally ==
  ASSUME DeliveryInv, NEW w \in Workers, NEW d \in Deliveries, Message(w) = d, d \notin contended,
         worker[w].at \in Busy, OneWorker(w), sent' = sent, entry'[d] = entry[d],
         unrecorded'[d] \in {unrecorded[d], unrecorded[d] + 1},
         worker'[w].at # "new",
         worker'[w].at = "failWrite" => worker'[w].retries = entry[d].retries,
         \/ \A p \in Payloads : AttemptedBy(w, p) => AttemptedBy(w, p)'
         \/ unrecorded'[d] = unrecorded[d] + 1
         \/ "json" \notin files'[d] /\ worker'[w].at \notin Busy
  PROVE  (Finished(d)' \/ Tallied(d)') /\ Bounded(d)'
<1>1. /\ entry[d].retries \in Nat /\ MaxRetries \in Nat /\ entry[d].retries < MaxRetries
      /\ unrecorded[d] \in Nat
      /\ \A p \in Payloads :
           /\ sent[d][p] \in Nat /\ sent[d][p] <= entry[d].retries + unrecorded[d] + 1
           /\ AttemptedBy(w, p) \/ sent[d][p] <= entry[d].retries + unrecorded[d]
  BY BusyTally
<1>2. Bounded(d)'
  BY <1>1 DEF Bounded
<1>3. Working(w)
  BY DEF Busy, Working
<1>4. CASE "json" \notin files'[d] /\ worker'[w].at \notin Busy
  BY <1>2, <1>3, <1>4, SoleStep
<1>5. CASE unrecorded'[d] = unrecorded[d] + 1 \/ \A p \in Payloads : AttemptedBy(w, p) => AttemptedBy(w, p)'
  <2>1. \A p \in Payloads : sent'[d][p] <= entry'[d].retries + unrecorded'[d] +
                                           (IF AttemptedBy(w, p)' THEN 1 ELSE 0)
    BY <1>1, <1>5
  <2>2. entry'[d].retries <= MaxRetries /\ entry'[d].retries < MaxRetries
    BY <1>1
  <2>3. Tallied(d)'
    BY <1>3, <2>1, <2>2, SoleStep
  <2>4. QED
    BY <1>2, <2>3
<1>6. QED
  BY <1>4, <1>5

LEMMA SendFailsKept ==
  ASSUME DeliveryInv, NEW w \in Workers, SendFails(w) \/ SendCancelled(w)
  PROVE  DeliveryInv'
<1>1. worker[w].at = "send"
  BY DEF SendFails, SendCancelled
<1>2. PICK d \in Deliveries : Message(w) = d
  BY <1>1, WorkingMessage
<1>3. Working(w) /\ WorkerOK(w) /\ (w \in Deliveries => w = d) /\ DeliveryTypes /\ MessageOK(d) /\ worker[w].at \in Busy
  BY <1>1, <1>2, WorkingMessage DEF DeliveryInv, Busy
<1>4. PICK q \in Payloads : worker[w].payload = q
  BY <1>3 DEF DeliveryTypes
<1>5. UNCHANGED <<files, entry, pending, failures, sent, accepted, acked, unrecorded, contended>>
  BY DEF SendFails, SendCancelled
<1>6. w \in Recoveries => d \in accepted
  BY <1>1, <1>2, <1>3 DEF WorkerOK
<1>7. PICK partial \in BOOLEAN :
        \/ /\ GoesOn(w, partial)
           /\ excused \subseteq excused' /\ excused' \subseteq excused \cup {d} /\ (d \notin excused' => partial)
        \/ Throws(w) /\ excused' = excused
  <2>1. worker[w].partial \in BOOLEAN /\ (worker[w].partial \/ (w \in Deliveries /\ kind[d] = "heard")) \in BOOLEAN
    BY <1>3 DEF DeliveryTypes
  <2>2. QED
    BY <1>2, <2>1 DEF SendFails, SendCancelled
<1> DEFINE to == worker'[w].at
<1>8. /\ worker' \in [Workers -> [at : Places, message : Workers, payload : Payloads,
                                   partial : BOOLEAN, retries : Nat]]
      /\ \A v \in Workers : v # w => worker'[v] = worker[v]
      /\ worker'[w].message = worker[w].message
      /\ excused \subseteq excused' /\ excused' \subseteq excused \cup {d}
      /\ to \in {"send", "ack", "failRead", "done", "move"}
      /\ to = "done" => w \in Deliveries \ accepted
      /\ to \in {"ack", "failRead"} => ~(w \in Deliveries \ accepted)
      /\ to = "send" => worker'[w].payload = q + 1
      /\ to = "move" => w \in Recoveries
      /\ to \in {"send", "ack"} /\ d \notin excused' => partial /\ worker'[w].partial = partial /\ to # "ack"
  <2>1. CASE GoesOn(w, partial) /\ excused \subseteq excused' /\ excused' \subseteq excused \cup {d}
             /\ (d \notin excused' => partial)
    <3>1. /\ worker' \in [Workers -> [at : Places, message : Workers, payload : Payloads,
                                       partial : BOOLEAN, retries : Nat]]
          /\ \A v \in Workers : v # w => worker'[v] = worker[v]
          /\ worker'[w].message = worker[w].message /\ worker'[w].partial = partial
          /\ \/ q < PayloadCount /\ to = "send" /\ worker'[w].payload = q + 1
             \/ q = PayloadCount /\ to = AfterLast(w, partial)
      BY <1>1, <1>3, <1>4, <2>1, GoesOnFacts
    <3>2. /\ AfterLast(w, partial) \in {"done", "failRead", "ack"}
          /\ AfterLast(w, partial) = "done" <=> w \in Deliveries \ accepted
          /\ AfterLast(w, partial) = "ack" <=> ~(w \in Deliveries \ accepted) /\ ~partial
      BY AfterLastType
    <3>3. QED
      BY <2>1, <3>1, <3>2
  <2>2. CASE Throws(w) /\ excused' = excused
    BY <1>3, <2>2, ThrowsFacts
  <2>3. QED
    BY <1>7, <2>1, <2>2
<1> HIDE DEF to
<1>9. DeliveryTypes'
  BY <1>3, <1>5, <1>8 DEF DeliveryTypes
<1>10. OneWorker(w)
  <2>1. \A p \in Payloads : sent[d][p] \in Nat
    BY <1>3 DEF DeliveryTypes
  <2>2. QED
    BY <1>2, <1>5, <1>8, <2>1 DEF OneWorker
<1>11. to \in {"ack", "failRead", "move"} \/ (w \in Recoveries /\ to = "send") => d \in accepted
  BY <1>3, <1>6, <1>8, WorkerFacts
<1>12. to = "done" => d \notin accepted /\ w \in Deliveries
  BY <1>3, <1>8, WorkerFacts
<1>13. "json" \in files[d] => d \in accepted
  BY <1>3 DEF MessageOK
<1>14. Kept(d)'
  BY <1>3, <1>5, <1>8 DEF MessageOK, Kept
<1>15. ASSUME d \notin contended
       PROVE  d \notin acked' /\ (Finished(d)' \/ Tallied(d)') /\ Bounded(d)'
  <2>1. d \notin acked
    BY <1>2, <1>3, <1>15, BusyTally
  <2>2. \/ \A p \in Payloads : AttemptedBy(w, p) => AttemptedBy(w, p)'
        \/ "json" \notin files'[d] /\ worker'[w].at \notin Busy
    <3>1. CASE to = "done"
      BY <1>5, <1>12, <1>13, <3>1 DEF to, Busy
    <3>2. CASE to # "done"
      <4>1. \A p \in Payloads : p < q => p < q + 1
        BY DeliveryAssumption DEF Payloads
      <4>2. QED
        BY <1>1, <1>4, <1>8, <3>2, <4>1 DEF to, AttemptedBy
    <3>3. QED
      BY <3>1, <3>2
  <2>3. to \notin {"new", "failWrite"} /\ entry'[d] = entry[d] /\ unrecorded'[d] = unrecorded[d]
    BY <1>5, <1>8
  <2>4. QED
    BY <1>2, <1>3, <1>5, <1>10, <1>15, <2>1, <2>2, <2>3, QuietTally DEF to
<1>16. to \in Places /\ to \notin {"new", "load", "idle", "next", "unlink"}
  BY <1>8 DEF Places
<1>17. d \in acked' => d \in accepted'
  BY <1>3, <1>5 DEF MessageOK
<1>18. QED
  BY <1>2, <1>3, <1>5, <1>8, <1>9, <1>10, <1>11, <1>12, <1>13, <1>14, <1>15, <1>16, <1>17, WorkerFacts, QuietKept DEF to

LEMMA SendAbortedKept ==
  ASSUME DeliveryInv, NEW w \in Deliveries, SendAborted(w)
  PROVE  DeliveryInv'
<1>1. worker[w].at = "send" /\ w \in Workers
  BY WorkerFacts DEF SendAborted
<1>2. PICK d \in Deliveries : Message(w) = d
  BY <1>1, WorkingMessage
<1>3. /\ Working(w) /\ WorkerOK(w) /\ (w \in Deliveries => w = d) /\ DeliveryTypes /\ MessageOK(d)
      /\ \A p \in Payloads : sent[d][p] \in Nat
      /\ unrecorded[d] \in Nat
  BY <1>1, <1>2, WorkingMessage DEF DeliveryInv, DeliveryTypes
<1>4. /\ UNCHANGED <<files, entry, pending, failures, sent, accepted, acked, unrecorded, contended>>
      /\ excused' = excused \cup {d}
  BY <1>1, <1>3 DEF SendAborted
<1>5. /\ worker' \in [Workers -> [at : Places, message : Workers, payload : Payloads,
                                   partial : BOOLEAN, retries : Nat]]
      /\ \A v \in Workers : v # w => worker'[v] = worker[v]
      /\ worker'[w].message = worker[w].message
      /\ worker'[w].at = IF d \in accepted THEN "ack" ELSE "done"
  <2>1. (IF w \in accepted THEN "ack" ELSE "done") \in Places
    BY DEF Places
  <2>2. MovesTo(w, IF w \in accepted THEN "ack" ELSE "done")
    BY DEF SendAborted
  <2>3. QED
    BY <1>1, <1>3, <2>1, <2>2, MovesToFacts
<1>6. DeliveryTypes'
  BY <1>3, <1>4, <1>5 DEF DeliveryTypes
<1>7. OneWorker(w)
  BY <1>2, <1>3, <1>4, <1>5 DEF OneWorker
<1>8. "json" \in files[d] => d \in accepted
  BY <1>3 DEF MessageOK
<1>9. ASSUME d \notin contended
      PROVE  d \notin acked' /\ (Finished(d)' \/ Tallied(d)') /\ Bounded(d)'
  <2>1. worker[w].at \in Busy
    BY <1>1 DEF Busy
  <2>2. d \notin acked
    BY <1>1, <1>2, <1>9, <2>1, BusyTally
  <2>3. \/ \A p \in Payloads : AttemptedBy(w, p) => AttemptedBy(w, p)'
        \/ "json" \notin files'[d] /\ worker'[w].at \notin Busy
    BY <1>4, <1>5, <1>8 DEF AttemptedBy, Busy
  <2>4. QED
    BY <1>1, <1>2, <1>4, <1>5, <1>7, <1>9, <2>1, <2>2, <2>3, QuietTally
<1>10. Kept(d)' /\ d \in excused' /\ (d \in acked' => d \in accepted')
  BY <1>3, <1>4 DEF Kept, MessageOK
<1>11. worker'[w].at \in Places
  BY <1>5 DEF Places
<1>12. QED
  BY <1>1, <1>2, <1>3, <1>4, <1>5, <1>6, <1>7, <1>8, <1>9, <1>10, <1>11, WorkerFacts, QuietKept

LEMMA ThroughFacts ==
  ASSUME NEW w \in Workers
  PROVE  /\ Through(w) \in Places /\ Through(w) \in {"next", "done"}
         /\ w \in Recoveries <=> Through(w) = "next"
BY DEF Through, Places

LEMMA AckRenamesKept ==
  ASSUME DeliveryInv, NEW w \in Workers, AckRenames(w)
  PROVE  DeliveryInv'
<1>1. worker[w].at = "ack"
  BY DEF AckRenames
<1>2. PICK d \in Deliveries : Message(w) = d
  BY <1>1, WorkingMessage
<1>3. /\ Working(w) /\ WorkerOK(w) /\ (w \in Deliveries => w = d) /\ DeliveryTypes /\ MessageOK(d)
      /\ \A p \in Payloads : sent[d][p] \in Nat
      /\ unrecorded[d] \in Nat
  BY <1>1, <1>2, WorkingMessage DEF DeliveryInv, DeliveryTypes
<1>4. UNCHANGED <<entry, pending, sent, accepted, excused, contended>> /\ d \in accepted
  BY <1>1, <1>2, <1>3 DEF AckRenames, WorkerOK
<1>5. PICK to \in Places :
        /\ MovesTo(w, to)
        /\ \/ /\ "json" \in files[d] /\ to = "unlink"
              /\ files' = [files EXCEPT ![d] = Marked(@)] /\ acked' = acked \cup {d}
              /\ unrecorded' = unrecorded /\ failures' = failures
           \/ /\ "json" \notin files[d] /\ to = Through(w)
              /\ files' = [files EXCEPT ![d] = @ \ {"delivered"}] /\ acked' = acked
              /\ unrecorded' = unrecorded /\ failures' = failures
           \/ /\ files' = files /\ acked' = acked /\ failures' = failures + 1
              /\ \/ w \in Recoveries /\ to = "failRead" /\ unrecorded' = unrecorded
                 \/ w \in Deliveries /\ to = "done" /\ unrecorded' = [unrecorded EXCEPT ![d] = @ + 1]
  <2>1. Through(w) \in Places /\ {"unlink", "failRead", "done"} \subseteq Places
    BY ThroughFacts DEF Places
  <2>2. QED
    BY <1>2, <2>1 DEF AckRenames, Failure, Unrecorded
<1>6. /\ worker' \in [Workers -> [at : Places, message : Workers, payload : Payloads,
                                   partial : BOOLEAN, retries : Nat]]
      /\ \A v \in Workers : v # w => worker'[v] = worker[v]
      /\ worker'[w].message = worker[w].message /\ worker'[w].at = to
  BY <1>3, <1>5, MovesToFacts
<1>7. /\ files' \in [Deliveries -> SUBSET {"json", "delivered", "failed"}]
      /\ \A c \in Deliveries : c # d => files'[c] = files[c]
      /\ to = "unlink" => "json" \notin files'[d]
      /\ to \in {"next", "done"} /\ unrecorded' = unrecorded => "json" \notin files'[d]
      /\ to # "unlink" => files'[d] \cap {"json", "failed"} = files[d] \cap {"json", "failed"}
  BY <1>3, <1>5, ThroughFacts DEF DeliveryTypes, Marked
<1>8. /\ unrecorded' \in [Deliveries -> Nat] /\ failures' \in Nat
      /\ \A c \in Deliveries : c # d => unrecorded'[c] = unrecorded[c]
      /\ \/ unrecorded' = unrecorded
         \/ unrecorded'[d] = unrecorded[d] + 1
  BY <1>3, <1>5 DEF DeliveryTypes
<1>9. /\ acked \subseteq acked' /\ acked' \subseteq acked \cup {d} /\ (to = "unlink" => d \in acked')
      /\ (to # "unlink" => acked' = acked)
      /\ to \in {"unlink", "next", "done", "failRead"} /\ (to = "next" => w \in Recoveries)
      /\ (to = "done" => w \in Deliveries) /\ (to = "failRead" => w \in Recoveries)
  BY <1>5, ThroughFacts, WorkerFacts
<1>10. DeliveryTypes'
  BY <1>3, <1>4, <1>6, <1>7, <1>8, <1>9 DEF DeliveryTypes
<1>11. OneWorker(w)
  BY <1>2, <1>3, <1>4, <1>6, <1>7, <1>8, <1>9 DEF OneWorker
<1>12. ASSUME d \notin contended
       PROVE  (d \in acked' => Finished(d)') /\ (Finished(d)' \/ Tallied(d)') /\ Bounded(d)'
  <2>1. worker[w].at \in Busy
    BY <1>1 DEF Busy
  <2>2. d \notin acked
    BY <1>2, <1>12, <2>1, BusyTally
  <2>3. \/ \A p \in Payloads : AttemptedBy(w, p) => AttemptedBy(w, p)'
        \/ unrecorded'[d] = unrecorded[d] + 1
        \/ "json" \notin files'[d] /\ worker'[w].at \notin Busy
    BY <1>6, <1>7, <1>8, <1>9 DEF AttemptedBy, Busy
  <2>4. (Finished(d)' \/ Tallied(d)') /\ Bounded(d)'
    BY <1>2, <1>4, <1>6, <1>8, <1>9, <1>11, <1>12, <2>1, <2>3, QuietTally
  <2>5. to = "unlink" => Finished(d)'
    BY <1>2, <1>3, <1>6, <1>7, <1>11, <1>12, SoleStep DEF Busy
  <2>6. QED
    BY <1>9, <2>2, <2>4, <2>5
<1>13. Kept(d)'
  <2>1. CASE to = "unlink"
    <3>1. d \notin excused => \A p \in Payloads : sent[d][p] > 0
      BY <1>1, <1>2, <1>3 DEF WorkerOK
    <3>2. QED
      BY <1>3, <1>4, <3>1 DEF Kept
  <2>2. CASE to # "unlink"
    BY <1>3, <1>4, <1>7, <2>2 DEF Kept, MessageOK
  <2>3. QED
    BY <2>1, <2>2
<1>14. worker[w].at = "new" \/ Working(w)
  BY <1>3
<1>15. QED
  BY <1>2, <1>4, <1>6, <1>9, <1>10, <1>11, <1>12, <1>13, <1>14, WorkerFacts, QuietKept

LEMMA AckUnlinksKept ==
  ASSUME DeliveryInv, NEW w \in Workers, AckUnlinks(w)
  PROVE  DeliveryInv'
<1>1. worker[w].at = "unlink"
  BY DEF AckUnlinks
<1>2. PICK d \in Deliveries : Message(w) = d
  BY <1>1, WorkingMessage
<1>3. /\ Working(w) /\ WorkerOK(w) /\ (w \in Deliveries => w = d) /\ DeliveryTypes /\ MessageOK(d)
      /\ \A p \in Payloads : sent[d][p] \in Nat
      /\ unrecorded[d] \in Nat
  BY <1>1, <1>2, WorkingMessage DEF DeliveryInv, DeliveryTypes
<1>4. /\ UNCHANGED <<entry, pending, failures, sent, accepted, acked, excused, unrecorded, contended>>
      /\ files' = [files EXCEPT ![d] = @ \ {"delivered"}]
      /\ d \in accepted /\ d \in acked
  BY <1>1, <1>2, <1>3 DEF AckUnlinks, WorkerOK, deliveryHistory
<1>5. /\ worker' \in [Workers -> [at : Places, message : Workers, payload : Payloads,
                                   partial : BOOLEAN, retries : Nat]]
      /\ \A v \in Workers : v # w => worker'[v] = worker[v]
      /\ worker'[w].message = worker[w].message /\ worker'[w].at = Through(w)
  BY <1>3, ThroughFacts, MovesToFacts DEF AckUnlinks
<1>6. /\ files' \in [Deliveries -> SUBSET {"json", "delivered", "failed"}]
      /\ \A c \in Deliveries : c # d => files'[c] = files[c]
      /\ files'[d] \cap {"json", "failed"} = files[d] \cap {"json", "failed"}
  BY <1>3, <1>4 DEF DeliveryTypes
<1>7. DeliveryTypes'
  BY <1>3, <1>4, <1>5, <1>6 DEF DeliveryTypes
<1>8. OneWorker(w)
  BY <1>2, <1>3, <1>4, <1>5, <1>6 DEF OneWorker
<1>9. ASSUME d \notin contended
      PROVE  Finished(d)' /\ Bounded(d)'
  <2>1. Finished(d) /\ Bounded(d)
    BY <1>3, <1>4, <1>9 DEF MessageOK, Alone
  <2>2. "json" \notin files'[d] /\ worker'[w].at \notin Busy \cup {"new"}
    BY <1>5, <1>6, <2>1, ThroughFacts DEF Finished, Busy
  <2>3. Finished(d)'
    BY <1>2, <1>3, <1>8, <1>9, <2>2, SoleStep
  <2>4. QED
    BY <1>4, <2>1, <2>3 DEF Bounded
<1>10. Kept(d)'
  BY <1>3, <1>4, <1>6 DEF Kept, MessageOK
<1>11. QED
  BY <1>2, <1>3, <1>4, <1>5, <1>7, <1>8, <1>9, <1>10, ThroughFacts, WorkerFacts, QuietKept

LEMMA FailReadsKept ==
  ASSUME DeliveryInv, NEW w \in Workers, FailReads(w)
  PROVE  DeliveryInv'
<1>1. worker[w].at = "failRead"
  BY DEF FailReads
<1>2. PICK d \in Deliveries : Message(w) = d
  BY <1>1, WorkingMessage
<1>3. /\ Working(w) /\ WorkerOK(w) /\ (w \in Deliveries => w = d) /\ DeliveryTypes /\ MessageOK(d)
      /\ \A p \in Payloads : sent[d][p] \in Nat
      /\ unrecorded[d] \in Nat /\ entry[d].retries \in Nat /\ worker[w].retries \in Nat
  BY <1>1, <1>2, WorkingMessage DEF DeliveryInv, DeliveryTypes, Entries
<1>4. /\ UNCHANGED <<files, entry, pending, sent, accepted, acked, excused, contended>>
      /\ d \in accepted
  BY <1>1, <1>2, <1>3 DEF FailReads, WorkerOK
<1>5. /\ worker' \in [Workers -> [at : Places, message : Workers, payload : Payloads,
                                   partial : BOOLEAN, retries : Nat]]
      /\ \A v \in Workers : v # w => worker'[v] = worker[v]
      /\ worker'[w].message = worker[w].message
      /\ worker'[w].at \in {"failWrite", Through(w)}
      /\ worker'[w].at = "failWrite" => worker'[w].retries = entry[d].retries
      /\ unrecorded' \in [Deliveries -> Nat] /\ failures' \in Nat
      /\ \A c \in Deliveries : c # d => unrecorded'[c] = unrecorded[c]
      /\ \/ unrecorded'[d] = unrecorded[d] + 1
         \/ unrecorded'[d] = unrecorded[d] /\ (worker'[w].at = "failWrite" \/ "json" \notin files[d])
  <2>1. CASE /\ worker' = [worker EXCEPT ![w].at = "failWrite", ![w].retries = entry[d].retries]
             /\ UNCHANGED <<failures, unrecorded>>
    <3> DEFINE W == [worker EXCEPT ![w].at = "failWrite"]
    <3>1. /\ W \in [Workers -> [at : Places, message : Workers, payload : Payloads,
                                   partial : BOOLEAN, retries : Nat]]
          /\ \A v \in Workers : v # w => W[v] = worker[v]
          /\ W[w].message = worker[w].message /\ W[w].at = "failWrite"
      BY <1>3 DEF DeliveryTypes, Places
    <3>2. worker' = [W EXCEPT ![w].retries = entry[d].retries]
      BY <1>3, <2>1 DEF DeliveryTypes
    <3> HIDE DEF W
    <3>3. /\ worker' \in [Workers -> [at : Places, message : Workers, payload : Payloads,
                                   partial : BOOLEAN, retries : Nat]]
          /\ \A v \in Workers : v # w => worker'[v] = W[v]
          /\ worker'[w].message = W[w].message /\ worker'[w].at = W[w].at
          /\ worker'[w].retries = entry[d].retries
      BY <1>3, <3>1, <3>2
    <3>4. QED
      BY <1>3, <2>1, <3>1, <3>3 DEF DeliveryTypes
  <2>2. CASE "json" \notin files[d] /\ MovesTo(w, Through(w)) /\ UNCHANGED <<failures, unrecorded>>
    BY <1>3, <2>2, ThroughFacts, MovesToFacts DEF DeliveryTypes
  <2>3. CASE failures' = failures + 1 /\ Unrecorded(d) /\ MovesTo(w, Through(w))
    <3>1. /\ worker' \in [Workers -> [at : Places, message : Workers, payload : Payloads,
                                   partial : BOOLEAN, retries : Nat]]
          /\ \A v \in Workers : v # w => worker'[v] = worker[v]
          /\ worker'[w].message = worker[w].message /\ worker'[w].at = Through(w)
      BY <1>3, <2>3, ThroughFacts, MovesToFacts
    <3>2. /\ unrecorded' \in [Deliveries -> Nat] /\ failures' \in Nat
          /\ \A c \in Deliveries : c # d => unrecorded'[c] = unrecorded[c]
          /\ unrecorded'[d] = unrecorded[d] + 1
      BY <1>3, <2>3 DEF DeliveryTypes, Unrecorded
    <3>3. Through(w) # "failWrite"
      BY ThroughFacts
    <3>4. QED
      BY <3>1, <3>2, <3>3
  <2>4. QED
    BY <1>2, <2>1, <2>2, <2>3 DEF FailReads, Failure
<1>6. DeliveryTypes'
  BY <1>3, <1>4, <1>5 DEF DeliveryTypes
<1>7. OneWorker(w)
  BY <1>2, <1>3, <1>4, <1>5 DEF OneWorker
<1>8. worker'[w].at \in {"failWrite", "next", "done"} /\ worker'[w].at \in Places
  BY <1>5, ThroughFacts DEF Places
<1>9. ASSUME d \notin contended
      PROVE  d \notin acked' /\ (Finished(d)' \/ Tallied(d)') /\ Bounded(d)'
  <2>1. worker[w].at \in Busy
    BY <1>1 DEF Busy
  <2>2. d \notin acked
    BY <1>2, <1>9, <2>1, BusyTally
  <2>3. \/ \A p \in Payloads : AttemptedBy(w, p) => AttemptedBy(w, p)'
        \/ unrecorded'[d] = unrecorded[d] + 1
        \/ "json" \notin files'[d] /\ worker'[w].at \notin Busy
    BY <1>4, <1>5, <1>8 DEF AttemptedBy, Busy
  <2>4. QED
    BY <1>2, <1>4, <1>5, <1>7, <1>8, <1>9, <2>1, <2>2, <2>3, QuietTally
<1>10. Kept(d)'
  BY <1>3, <1>4 DEF Kept, MessageOK
<1>11. (w \in Deliveries => worker'[w].at # "next") /\ (w \in Recoveries => worker'[w].at # "done")
  BY <1>5, ThroughFacts, WorkerFacts
<1>12. worker[w].at = "new" \/ Working(w)
  BY <1>3
<1>13. QED
  BY <1>2, <1>4, <1>6, <1>7, <1>8, <1>9, <1>10, <1>11, <1>12, QuietKept

LEMMA FailWritesKept ==
  ASSUME DeliveryInv, NEW w \in Workers, FailWrites(w)
  PROVE  DeliveryInv'
<1>1. worker[w].at = "failWrite"
  BY DEF FailWrites
<1>2. PICK d \in Deliveries : Message(w) = d
  BY <1>1, WorkingMessage
<1>3. /\ Working(w) /\ WorkerOK(w) /\ (w \in Deliveries => w = d) /\ DeliveryTypes /\ MessageOK(d)
      /\ \A p \in Payloads : sent[d][p] \in Nat
      /\ unrecorded[d] \in Nat /\ entry[d].retries \in Nat /\ worker[w].retries \in Nat
  BY <1>1, <1>2, WorkingMessage DEF DeliveryInv, DeliveryTypes, Entries
<1>4. /\ UNCHANGED <<pending, sent, accepted, acked, excused, contended>>
      /\ d \in accepted
  BY <1>1, <1>2, <1>3 DEF FailWrites, WorkerOK
<1>5. /\ worker' \in [Workers -> [at : Places, message : Workers, payload : Payloads,
                                   partial : BOOLEAN, retries : Nat]]
      /\ \A v \in Workers : v # w => worker'[v] = worker[v]
      /\ worker'[w].message = worker[w].message /\ worker'[w].at = Through(w)
  BY <1>3, ThroughFacts, MovesToFacts DEF FailWrites
<1>6. \/ /\ files' = [files EXCEPT ![d] = @ \cup {"json"}]
         /\ entry' = [entry EXCEPT ![d] = [retries |-> worker[w].retries + 1, tried |-> TRUE]]
         /\ UNCHANGED <<failures, unrecorded>>
      \/ /\ failures' = failures + 1 /\ unrecorded' = [unrecorded EXCEPT ![d] = @ + 1]
         /\ UNCHANGED <<files, entry>>
  BY <1>2 DEF FailWrites, Counted, Failure, Unrecorded
<1>7. /\ files' \in [Deliveries -> SUBSET {"json", "delivered", "failed"}]
      /\ entry' \in [Deliveries -> Entries]
      /\ unrecorded' \in [Deliveries -> Nat] /\ failures' \in Nat
      /\ \A c \in Deliveries : c # d => files'[c] = files[c] /\ entry'[c] = entry[c] /\ unrecorded'[c] = unrecorded[c]
      /\ files'[d] \in {files[d], files[d] \cup {"json"}}
      /\ \/ entry'[d].retries = worker[w].retries + 1 /\ unrecorded'[d] = unrecorded[d]
         \/ entry'[d] = entry[d] /\ unrecorded'[d] = unrecorded[d] + 1
  <2>1. [retries |-> worker[w].retries + 1, tried |-> TRUE] \in Entries
    BY <1>3 DEF Entries
  <2>2. CASE /\ files' = [files EXCEPT ![d] = @ \cup {"json"}]
             /\ entry' = [entry EXCEPT ![d] = [retries |-> worker[w].retries + 1, tried |-> TRUE]]
             /\ UNCHANGED <<failures, unrecorded>>
    <3> DEFINE e == [retries |-> worker[w].retries + 1, tried |-> TRUE]
    <3>1. e.retries = worker[w].retries + 1
      OBVIOUS
    <3> HIDE DEF e
    <3>2. entry' = [entry EXCEPT ![d] = e] /\ e \in Entries
      BY <2>1, <2>2 DEF e
    <3>3. entry' \in [Deliveries -> Entries] /\ entry'[d] = e /\ \A c \in Deliveries : c # d => entry'[c] = entry[c]
      BY <1>3, <3>2 DEF DeliveryTypes
    <3>4. /\ files' \in [Deliveries -> SUBSET {"json", "delivered", "failed"}]
          /\ files'[d] = files[d] \cup {"json"}
          /\ \A c \in Deliveries : c # d => files'[c] = files[c]
      BY <1>3, <2>2 DEF DeliveryTypes
    <3>5. QED
      BY <1>3, <2>2, <3>1, <3>3, <3>4 DEF DeliveryTypes
  <2>3. CASE /\ failures' = failures + 1 /\ unrecorded' = [unrecorded EXCEPT ![d] = @ + 1]
             /\ UNCHANGED <<files, entry>>
    BY <1>3, <2>3 DEF DeliveryTypes
  <2>4. QED
    BY <1>6, <2>2, <2>3
<1>8. DeliveryTypes'
  BY <1>3, <1>4, <1>5, <1>7 DEF DeliveryTypes
<1>9. OneWorker(w)
  BY <1>2, <1>3, <1>4, <1>5, <1>7 DEF OneWorker
<1>10. worker'[w].at \in {"next", "done"} /\ worker'[w].at \in Places
  BY <1>5, ThroughFacts DEF Places
<1>11. ASSUME d \notin contended
       PROVE  d \notin acked' /\ (Finished(d)' \/ Tallied(d)') /\ Bounded(d)'
  <2>1. worker[w].at \in Busy
    BY <1>1 DEF Busy
  <2>2. /\ d \notin acked
        /\ entry[d].retries \in Nat /\ MaxRetries \in Nat /\ entry[d].retries < MaxRetries
        /\ worker[w].retries = entry[d].retries
        /\ \A p \in Payloads : sent[d][p] <= entry[d].retries + unrecorded[d] + 1
    BY <1>1, <1>2, <1>11, <2>1, BusyTally
  <2>3. /\ \A p \in Payloads : sent'[d][p] <= entry'[d].retries + unrecorded'[d] + 0
        /\ entry'[d].retries <= MaxRetries
    BY <1>3, <1>4, <1>7, <2>2
  <2>4. \A p \in Payloads : ~AttemptedBy(w, p)'
    BY <1>10 DEF AttemptedBy
  <2>5. worker'[w].at \notin Busy \cup {"new"} /\ worker'[w].at # "failWrite"
    BY <1>10 DEF Busy
  <2>6. Tallied(d)'
    BY <1>2, <1>3, <1>9, <1>11, <2>3, <2>4, <2>5, SoleStep
  <2>7. \A p \in Payloads : sent'[d][p] <= MaxRetries + unrecorded'[d]
    BY <1>3, <1>4, <1>7, <2>2
  <2>8. QED
    BY <1>4, <2>2, <2>6, <2>7 DEF Bounded
<1>12. Kept(d)'
  BY <1>3, <1>4, <1>7 DEF Kept, MessageOK
<1>13. (w \in Deliveries => worker'[w].at # "next") /\ (w \in Recoveries => worker'[w].at # "done")
  BY <1>5, ThroughFacts, WorkerFacts
<1>14. worker[w].at = "new" \/ Working(w)
  BY <1>3
<1>15. QED
  BY <1>2, <1>4, <1>8, <1>9, <1>10, <1>11, <1>12, <1>13, <1>14, QuietKept

LEMMA MoveToFailedKept ==
  ASSUME DeliveryInv, NEW w \in Workers, MoveToFailed(w)
  PROVE  DeliveryInv'
<1>1. worker[w].at = "move"
  BY DEF MoveToFailed
<1>2. PICK d \in Deliveries : Message(w) = d
  BY <1>1, WorkingMessage
<1>3. /\ Working(w) /\ WorkerOK(w) /\ (w \in Deliveries => w = d) /\ DeliveryTypes /\ MessageOK(d)
      /\ \A p \in Payloads : sent[d][p] \in Nat
      /\ unrecorded[d] \in Nat /\ entry[d].retries \in Nat /\ worker[w].retries \in Nat
  BY <1>1, <1>2, WorkingMessage DEF DeliveryInv, DeliveryTypes, Entries
<1>4. /\ UNCHANGED <<entry, pending, sent, accepted, acked, excused, contended>>
      /\ d \in accepted /\ w \in Recoveries
  BY <1>1, <1>2, <1>3, WorkerFacts DEF MoveToFailed, WorkerOK
<1>5. /\ worker' \in [Workers -> [at : Places, message : Workers, payload : Payloads,
                                   partial : BOOLEAN, retries : Nat]]
      /\ \A v \in Workers : v # w => worker'[v] = worker[v]
      /\ worker'[w].message = worker[w].message /\ worker'[w].at = "next"
  <2>1. "next" \in Places
    BY DEF Places
  <2>2. QED
    BY <1>3, <2>1, MovesToFacts DEF MoveToFailed
<1>6. /\ files' \in [Deliveries -> SUBSET {"json", "delivered", "failed"}]
      /\ unrecorded' \in [Deliveries -> Nat] /\ failures' \in Nat
      /\ \A c \in Deliveries : c # d => files'[c] = files[c] /\ unrecorded'[c] = unrecorded[c]
      /\ files'[d] = files[d] \/ "failed" \in files'[d]
      /\ \/ unrecorded'[d] = unrecorded[d] /\ "json" \notin files'[d]
         \/ unrecorded'[d] = unrecorded[d] + 1 /\ files' = files
  <2>1. CASE /\ files' = [files EXCEPT ![d] = IF "json" \in @ THEN (@ \ {"json"}) \cup {"failed"} ELSE @]
             /\ UNCHANGED <<failures, unrecorded>>
    BY <1>3, <2>1 DEF DeliveryTypes
  <2>2. CASE failures' = failures + 1 /\ unrecorded' = [unrecorded EXCEPT ![d] = @ + 1] /\ files' = files
    BY <1>3, <2>2 DEF DeliveryTypes
  <2>3. QED
    BY <1>2, <2>1, <2>2 DEF MoveToFailed, Failure, Unrecorded
<1>7. DeliveryTypes'
  BY <1>3, <1>4, <1>5, <1>6 DEF DeliveryTypes
<1>8. OneWorker(w)
  BY <1>2, <1>3, <1>4, <1>5, <1>6 DEF OneWorker
<1>9. ASSUME d \notin contended
      PROVE  (d \in acked' => Finished(d)') /\ (Finished(d)' \/ Tallied(d)') /\ Bounded(d)'
  <2>1. Alone(d) /\ (Finished(d) \/ Tallied(d)) /\ Bounded(d)
    BY <1>3, <1>9 DEF MessageOK
  <2>2. Bounded(d)'
    BY <1>3, <1>4, <1>6, <2>1, DeliveryAssumption DEF Bounded
  <2>3. worker'[w].at \notin Busy \cup {"new"}
    BY <1>5 DEF Busy
  <2>4. "json" \notin files'[d] => Finished(d)'
    BY <1>2, <1>3, <1>8, <1>9, <2>3, SoleStep
  <2>5. CASE "json" \notin files'[d]
    BY <2>2, <2>4, <2>5
  <2>6. CASE "json" \in files'[d]
    <3>1. files' = files /\ unrecorded'[d] = unrecorded[d] + 1
      BY <1>6, <2>6
    <3>2. ~Finished(d)
      BY <2>6, <3>1 DEF Finished
    <3>3. Tallied(d) /\ d \notin acked
      BY <2>1, <3>2 DEF Alone
    <3>4. \A p \in Payloads : sent'[d][p] <= entry'[d].retries + unrecorded'[d]
      <4> SUFFICES ASSUME NEW p \in Payloads
                   PROVE  sent[d][p] <= entry[d].retries + (unrecorded[d] + 1)
        BY <1>4, <3>1
      <4>1. sent[d][p] <= entry[d].retries + unrecorded[d] + (IF Attempted(d, p) THEN 1 ELSE 0)
        BY <3>3 DEF Tallied
      <4>2. QED
        BY <1>3, <4>1
    <3>5. \A p \in Payloads : sent'[d][p] <= entry'[d].retries + unrecorded'[d] + 0
      BY <1>3, <1>4, <3>1, <3>4
    <3>6. \A p \in Payloads : ~AttemptedBy(w, p)'
      BY <1>5 DEF AttemptedBy
    <3>7. entry'[d].retries <= MaxRetries /\ worker'[w].at # "failWrite"
      BY <1>4, <1>5, <3>3 DEF Tallied
    <3>8. Tallied(d)'
      BY <1>2, <1>3, <1>8, <1>9, <2>3, <3>5, <3>6, <3>7, SoleStep
    <3>9. QED
      BY <1>4, <2>2, <3>3, <3>8
  <2>7. QED
    BY <2>5, <2>6
<1>10. Kept(d)'
  BY <1>3, <1>4, <1>6 DEF Kept, MessageOK
<1>11. worker'[w].at \in Places
  BY <1>5 DEF Places
<1>12. worker[w].at = "new" \/ Working(w)
  BY <1>3
<1>13. QED
  BY <1>2, <1>4, <1>5, <1>7, <1>8, <1>9, <1>10, <1>11, <1>12, WorkerFacts, QuietKept

-----------------------------------------------------------------------------
\* The steps of a recovery between two messages.
LEMMA RecoveryLoadsKept ==
  ASSUME DeliveryInv, NEW r \in Recoveries, RecoveryLoads(r)
  PROVE  DeliveryInv'
<1>1. /\ DeliveryTypes /\ PendingOK /\ worker[r].at = "load" /\ r \in Workers /\ r \notin Deliveries
      /\ \A w \in Workers : WorkerOK(w)
      /\ \A d \in Deliveries : MessageOK(d)
  BY WorkerFacts DEF DeliveryInv, RecoveryLoads
<1>2. /\ UNCHANGED <<entry, failures, sent, accepted, acked, excused, unrecorded>>
      /\ files' = [d \in Deliveries |-> files[d] \ {"delivered"}]
      /\ pending' = pending \cup
           {[by |-> r, message |-> d, known |-> entry[d]] : d \in {c \in Deliveries : "json" \in files[c]}}
      /\ contended' = contended \cup {d \in {c \in Deliveries : "json" \in files[c]} : UnderWay(d)}
  BY DEF RecoveryLoads, Recoverable
<1>3. /\ worker' \in [Workers -> [at : Places, message : Workers, payload : Payloads,
                                   partial : BOOLEAN, retries : Nat]]
      /\ \A v \in Workers : v # r => worker'[v] = worker[v]
      /\ worker'[r].at = "next" /\ worker'[r].message = worker[r].message
  <2>1. "next" \in Places
    BY DEF Places
  <2>2. QED
    BY <1>1, <2>1, MovesToFacts DEF RecoveryLoads
<1>4. /\ files' \in [Deliveries -> SUBSET {"json", "delivered", "failed"}]
      /\ \A d \in Deliveries : files'[d] \cap {"json", "failed"} = files[d] \cap {"json", "failed"}
  BY <1>1, <1>2 DEF DeliveryTypes
<1>5. \A e \in pending' :
        \/ e \in pending
        \/ /\ e.message \in Deliveries /\ "json" \in files[e.message]
           /\ e.known = entry[e.message]
           /\ e = [by |-> r, message |-> e.message, known |-> entry[e.message]]
  BY <1>2
<1>6. DeliveryTypes'
  <2>1. pending' \in SUBSET [by : Recoveries, message : Deliveries, known : Entries]
    BY <1>1, <1>5 DEF DeliveryTypes
  <2>2. QED
    BY <1>1, <1>2, <1>3, <1>4, <2>1 DEF DeliveryTypes
<1>7. PendingOK'
  BY <1>1, <1>2, <1>5 DEF PendingOK, MessageOK
<1>8. ASSUME NEW v \in Workers
      PROVE  WorkerOK(v)'
  <2>1. CASE v = r
    BY <1>1, <1>3, <2>1 DEF WorkerOK
  <2>2. CASE v # r
    BY <1>1, <1>2, <1>3, <2>2 DEF WorkerOK, Message
  <2>3. QED
    BY <2>1, <2>2
<1>9. ASSUME NEW d \in Deliveries
      PROVE  MessageOK(d)'
  <2>1. d \in Workers /\ worker'[d] = worker[d]
    BY <1>1, <1>3, WorkerFacts
  <2>2. Kept(d)'
    BY <1>1, <1>2, <1>4 DEF MessageOK, Kept
  <2>3. ASSUME d \notin contended'
        PROVE  Alone(d)' /\ (Finished(d)' \/ Tallied(d)') /\ Bounded(d)'
    <3>1. /\ d \notin contended
          /\ "json" \in files[d] =>
               ~IsPending(d) /\ \A v \in Workers : Message(v) = d => ~Working(v)
      BY <1>2, <2>3 DEF UnderWay, IsPending
    <3>2. Alone(d) /\ (Finished(d) \/ Tallied(d)) /\ Bounded(d)
      BY <1>1, <3>1 DEF MessageOK
    <3>3. IsPending(d)' => "json" \in files[d] \/ IsPending(d)
      BY <1>5 DEF IsPending
    <3>4. \A v \in Workers : /\ Message(v)' = Message(v)
                             /\ worker'[v].at = worker[v].at \/ (v = r /\ worker'[v].at = "next" /\ worker[v].at = "load")
                             /\ worker'[v] = worker[v] \/ v = r
      BY <1>1, <1>3 DEF Message
    <3>5. Finished(d) => Finished(d)'
      BY <1>4, <3>3, <3>4 DEF Finished, Busy
    <3>6. \A v \in Workers : Working(v)' => v # r /\ Working(v)
      <4> SUFFICES ASSUME NEW v \in Workers, Working(v)'
                   PROVE  v # r /\ Working(v)
        OBVIOUS
      <4>1. v # r
        BY <1>3 DEF Working
      <4>2. QED
        BY <1>3, <4>1 DEF Working
    <3>7. Alone(d)'
      <4>1. \A u, v \in Workers :
              Message(u)' = d /\ Message(v)' = d /\ Working(u)' /\ Working(v)' => u = v
        BY <3>2, <3>4, <3>6 DEF Alone
      <4>2. IsPending(d)' => \A v \in Workers : Message(v)' = d => ~Working(v)'
        BY <3>1, <3>2, <3>3, <3>4, <3>6 DEF Alone
      <4>3. /\ \A e, f \in pending' : e.message = d /\ f.message = d => e = f
            /\ \A e \in pending' : e.message = d => e.known = entry[d]
        <5>1. CASE "json" \in files[d]
          BY <1>5, <3>1, <5>1 DEF IsPending
        <5>2. CASE "json" \notin files[d]
          BY <1>5, <3>2, <5>2 DEF Alone
        <5>3. QED
          BY <5>1, <5>2
      <4>4. d \in acked => Finished(d)'
        BY <3>2, <3>5 DEF Alone
      <4>5. QED
        BY <1>2, <4>1, <4>2, <4>3, <4>4 DEF Alone
    <3>8. ASSUME NEW p \in Payloads
          PROVE  Attempted(d, p)' <=> Attempted(d, p)
      <4>1. ASSUME NEW v \in Workers
            PROVE  AttemptedBy(v, p)' <=> AttemptedBy(v, p)
        <5>1. CASE v = r
          BY <1>1, <1>3, <5>1 DEF AttemptedBy
        <5>2. CASE v # r
          BY <1>3, <5>2 DEF AttemptedBy
        <5>3. QED
          BY <5>1, <5>2
      <4>2. \A v \in Workers : Message(v)' = Message(v)
        BY <3>4
      <4>3. QED
        BY <4>1, <4>2 DEF Attempted
    <3>9. ASSUME Tallied(d)
          PROVE  Tallied(d)'
      <4>1. \A v \in Workers : Message(v)' = d =>
              /\ worker'[v].at \in Busy \cup {"new"} => entry[d].retries < MaxRetries
              /\ worker'[v].at = "failWrite" => worker'[v].retries = entry[d].retries
        <5> SUFFICES ASSUME NEW v \in Workers, Message(v)' = d
                     PROVE  /\ worker'[v].at \in Busy \cup {"new"} => entry[d].retries < MaxRetries
                            /\ worker'[v].at = "failWrite" => worker'[v].retries = entry[d].retries
          OBVIOUS
        <5>1. Message(v) = d
          BY <3>4
        <5>2. CASE v = r
          BY <1>3, <5>2 DEF Busy
        <5>3. CASE v # r
          BY <1>3, <3>9, <5>1, <5>3 DEF Tallied
        <5>4. QED
          BY <5>2, <5>3
      <4>2. ASSUME NEW p \in Payloads
            PROVE  sent[d][p] <= entry[d].retries + unrecorded[d] + (IF Attempted(d, p)' THEN 1 ELSE 0)
        <5>1. sent[d][p] <= entry[d].retries + unrecorded[d] + (IF Attempted(d, p) THEN 1 ELSE 0)
          BY <3>9 DEF Tallied
        <5>2. QED
          BY <3>8, <5>1
      <4>3. entry[d].retries <= MaxRetries
        BY <3>9 DEF Tallied
      <4>4. UNCHANGED <<entry, sent, unrecorded>>
        BY <1>2
      <4>5. QED
        BY <4>1, <4>2, <4>3, <4>4 DEF Tallied
    <3>10. QED
      BY <1>2, <3>2, <3>5, <3>7, <3>9 DEF Bounded
  <2>4. QED
    BY <1>1, <1>2, <1>4, <2>1, <2>2, <2>3 DEF MessageOK
<1>10. QED
  BY <1>6, <1>7, <1>8, <1>9 DEF DeliveryInv

\* A recovery takes an entry, leaves them or starts: it works on at most the
\* message it has taken, which nobody else is at unless it is contended.
LEMMA RecoveryTurns ==
  ASSUME DeliveryInv, NEW r \in Recoveries, worker[r].at \in {"next", "idle"}, failures' \in Nat,
         UNCHANGED <<files, entry, sent, accepted, acked, excused, unrecorded, contended>>,
         worker' \in [Workers -> [at : Places, message : Workers, payload : Payloads,
                                   partial : BOOLEAN, retries : Nat]],
         \A v \in Workers : v # r => worker'[v] = worker[v],
         pending' \subseteq pending,
         \/ worker'[r].at \in {"next", "idle", "load"}
         \/ \E e \in pending :
              /\ pending' = pending \ {e} /\ worker'[r].message = e.message
              /\ \/ worker'[r].at = "move"
                 \/ worker'[r].at = "send" /\ worker'[r].payload = 1 /\ e.known.retries < MaxRetries
  PROVE  DeliveryInv'
<1>1. /\ DeliveryTypes /\ PendingOK /\ r \in Workers /\ r \notin Deliveries
      /\ \A w \in Workers : WorkerOK(w)
      /\ \A d \in Deliveries : MessageOK(d)
  BY WorkerFacts DEF DeliveryInv
<1>2. DeliveryTypes' /\ PendingOK'
  BY <1>1 DEF DeliveryTypes, PendingOK
<1>3. worker'[r].at \in {"next", "idle", "load", "move", "send"}
  OBVIOUS
<1>4. worker'[r].at \in {"move", "send"} =>
        /\ Message(r)' \in accepted /\ Message(r)' \in Deliveries
        /\ worker'[r].at = "send" => worker'[r].payload = 1
  BY <1>1 DEF PendingOK, Message, DeliveryTypes
<1>5. ASSUME NEW v \in Workers
      PROVE  WorkerOK(v)'
  <2>1. CASE v = r
    <3>1. \A p \in Payloads : ~(p < 1)
      BY DEF Payloads
    <3>2. QED
      BY WorkerFacts, <1>3, <1>4, <2>1, <3>1 DEF WorkerOK
  <2>2. CASE v # r
    BY <1>1, <2>2 DEF WorkerOK, Message
  <2>3. QED
    BY <2>1, <2>2
<1>6. ASSUME NEW d \in Deliveries
      PROVE  MessageOK(d)'
  <2>1. d \in Workers /\ worker'[d] = worker[d] /\ MessageOK(d)
    BY <1>1, WorkerFacts
  <2>2. Kept(d)'
    BY <2>1 DEF MessageOK, Kept
  <2>3. \A v \in Workers : v # r => worker'[v] = worker[v] /\ Message(v)' = Message(v) /\ Working(v)' = Working(v)
    BY DEF Message, Working
  <2>4. ASSUME d \notin contended
        PROVE  Alone(d)' /\ (Finished(d)' \/ Tallied(d)') /\ Bounded(d)'
    <3>1. Alone(d) /\ (Finished(d) \/ Tallied(d)) /\ Bounded(d)
      BY <2>1, <2>4 DEF MessageOK
    <3>2. IsPending(d)' => IsPending(d)
      BY DEF IsPending
    <3>3. \A v \in Workers : v # r => worker'[v] = worker[v] /\ Message(v)' = Message(v)
      BY <2>3
    <3>4. \A p \in Payloads : Attempted(d, p) => \E v \in Workers : v # r /\ Message(v) = d /\ AttemptedBy(v, p)
      BY DEF Attempted, AttemptedBy
    <3>5. CASE worker'[r].at \in {"next", "idle", "load"} \/ Message(r)' # d
      <4>1. ~(Message(r) = d /\ Working(r))'
        BY <3>5 DEF Working
      <4>2. worker'[r].at \notin Busy \cup {"new"} \/ Message(r)' # d
        BY <3>5 DEF Busy
      <4>3. Finished(d) => Finished(d)'
        BY <3>2, <3>3, <4>2 DEF Finished
      <4>4. Alone(d)'
        <5>1. \A v \in Workers : Message(v)' = d /\ Working(v)' => Message(v) = d /\ Working(v)
          BY <2>3, <4>1
        <5>2. QED
          BY <3>1, <3>2, <4>3, <5>1 DEF Alone
      <4>5. \A p \in Payloads : Attempted(d, p) => Attempted(d, p)'
        BY <3>3, <3>4 DEF Attempted, AttemptedBy
      <4>6. ASSUME Tallied(d)
            PROVE  Tallied(d)'
        <5>1. \A w \in Workers : Message(w)' = d =>
                /\ worker'[w].at \in Busy \cup {"new"} => entry[d].retries < MaxRetries
                /\ worker'[w].at = "failWrite" => worker'[w].retries = entry[d].retries
          BY <3>3, <4>2, <4>6 DEF Tallied, Busy
        <5>2. ASSUME NEW p \in Payloads
              PROVE  sent[d][p] <= entry[d].retries + unrecorded[d] + (IF Attempted(d, p)' THEN 1 ELSE 0)
          <6>1. sent[d][p] \in Nat /\ entry[d].retries \in Nat /\ unrecorded[d] \in Nat
            BY <1>1 DEF DeliveryTypes, Entries
          <6>2. sent[d][p] <= entry[d].retries + unrecorded[d] + (IF Attempted(d, p) THEN 1 ELSE 0)
            BY <4>6 DEF Tallied
          <6>3. QED
            BY <4>5, <6>1, <6>2
        <5>3. QED
          BY <4>6, <5>1, <5>2 DEF Tallied
      <4>7. QED
        BY <3>1, <4>3, <4>4, <4>6 DEF Bounded
    <3>6. CASE worker'[r].at \in {"move", "send"} /\ Message(r)' = d
      <4>1. PICK e \in pending :
              /\ pending' = pending \ {e} /\ worker'[r].message = e.message
              /\ \/ worker'[r].at = "move"
                 \/ worker'[r].at = "send" /\ worker'[r].payload = 1 /\ e.known.retries < MaxRetries
        BY <3>6
      <4>2. e.message = d /\ IsPending(d) /\ ~IsPending(d)'
        BY <3>1, <3>6, <4>1 DEF Message, IsPending, Alone
      <4>3. ~Finished(d) /\ (\A v \in Workers : Message(v) = d => ~Working(v)) /\ e.known = entry[d] /\ d \notin acked /\ Tallied(d)
        BY <3>1, <4>2 DEF Alone, Finished
      <4>4. Alone(d)'
        <5>1. \A v \in Workers : Message(v)' = d /\ Working(v)' => v = r
          BY <2>3, <4>3
        <5>2. QED
          BY <4>2, <4>3, <5>1 DEF Alone, IsPending
      <4>5. \A v \in Workers : v # r /\ Message(v) = d => ~Working(v) /\ worker[v].at # "new"
        <5>1. \A v \in Workers : Message(v) = d => v = d \/ worker[v].at # "new"
          BY <1>1, WorkerFacts DEF WorkerOK
        <5>2. d \in accepted
          BY <1>1, <4>1, <4>2 DEF PendingOK
        <5>3. QED
          BY <2>1, <4>3, <5>1, <5>2 DEF MessageOK
      <4>6. \A p \in Payloads : ~Attempted(d, p)
        BY <3>4, <4>5 DEF AttemptedBy, Working
      <4>7. \A p \in Payloads :
              /\ sent[d][p] \in Nat /\ entry[d].retries \in Nat /\ unrecorded[d] \in Nat
              /\ sent[d][p] <= entry[d].retries + unrecorded[d] + 0
        BY <1>1, <4>3, <4>6 DEF DeliveryTypes, Entries, Tallied
      <4>8. \A w \in Workers : Message(w)' = d =>
              /\ worker'[w].at \in Busy \cup {"new"} => entry[d].retries < MaxRetries
              /\ worker'[w].at = "failWrite" => worker'[w].retries = entry[d].retries
        BY <3>3, <4>1, <4>3, <4>5 DEF Busy, Working
      <4>9. Tallied(d)'
        <5>1. \A p \in Payloads :
                sent[d][p] <= entry[d].retries + unrecorded[d] + (IF Attempted(d, p)' THEN 1 ELSE 0)
          BY <4>7
        <5>2. QED
          BY <4>3, <4>8, <5>1 DEF Tallied
      <4>10. QED
        BY <3>1, <4>4, <4>9 DEF Bounded
    <3>7. QED
      BY <1>3, <3>5, <3>6
  <2>5. QED
    BY <2>1, <2>2, <2>4 DEF MessageOK
<1>7. QED
  BY <1>2, <1>5, <1>6 DEF DeliveryInv

LEMMA RecoveryTakesKept ==
  ASSUME DeliveryInv, NEW r \in Recoveries, RecoveryTakes(r)
  PROVE  DeliveryInv'
<1>1. DeliveryTypes /\ r \in Workers /\ 1 \in Payloads /\ Deliveries \subseteq Workers
  BY WorkerFacts DEF DeliveryInv
<1>2. /\ worker[r].at = "next"
      /\ UNCHANGED <<files, entry, failures, sent, accepted, acked, excused, unrecorded, contended>>
      /\ failures \in Nat
  BY <1>1 DEF RecoveryTakes, deliveryHistory, DeliveryTypes
<1>3. PICK e \in pending : Takes(r, e)
  BY DEF RecoveryTakes
<1>4. pending' = pending \ {e} /\ e.message \in Workers
  BY <1>1, <1>3 DEF Takes, DeliveryTypes
<1>5. CASE worker' = worker
  BY <1>1, <1>2, <1>4, <1>5, RecoveryTurns DEF DeliveryTypes
<1>6. ASSUME NEW at \in {"send", "move"}, at = "send" => e.known.retries < MaxRetries,
             worker' = [worker EXCEPT ![r] = Begins(at, e.message)]
      PROVE  DeliveryInv'
  <2> DEFINE x == Begins(at, e.message)
  <2>1. x.at = at /\ x.message = e.message /\ x.payload = 1
    BY DEF Begins
  <2>2. x \in [at : Places, message : Workers, payload : Payloads,
                                   partial : BOOLEAN, retries : Nat]
    BY <1>1, <1>4, <1>6 DEF Places, Begins
  <2> HIDE DEF x
  <2>3. worker' = [worker EXCEPT ![r] = x]
    BY <1>6 DEF x
  <2>4. /\ worker' \in [Workers -> [at : Places, message : Workers, payload : Payloads,
                                   partial : BOOLEAN, retries : Nat]]
        /\ \A v \in Workers : v # r => worker'[v] = worker[v]
        /\ worker'[r] = x
    BY <1>1, <2>2, <2>3 DEF DeliveryTypes
  <2>5. \/ worker'[r].at = "move"
        \/ worker'[r].at = "send" /\ worker'[r].payload = 1 /\ e.known.retries < MaxRetries
    BY <1>6, <2>1, <2>4
  <2>6. QED
    BY <1>2, <1>4, <2>1, <2>4, <2>5, RecoveryTurns
<1>7. QED
  BY <1>3, <1>5, <1>6 DEF Takes

\* The recovery is through, or another one starts in the same process.
LEMMA RecoveryEndsKept ==
  ASSUME DeliveryInv, NEW r \in Recoveries, RecoveryEnds(r) \/ GatewayRestarts(r)
  PROVE  DeliveryInv'
<1>1. DeliveryTypes /\ r \in Workers /\ "idle" \in Places /\ "load" \in Places
  BY WorkerFacts DEF DeliveryInv, Places
<1>2. /\ worker' \in [Workers -> [at : Places, message : Workers, payload : Payloads,
                                   partial : BOOLEAN, retries : Nat]]
      /\ \A v \in Workers : v # r => worker'[v] = worker[v]
      /\ worker'[r].at \in {"idle", "load"}
  BY <1>1, MovesToFacts DEF RecoveryEnds, GatewayRestarts
<1>3. /\ worker[r].at \in {"next", "idle"} /\ pending' \subseteq pending
      /\ UNCHANGED <<files, entry, sent, accepted, acked, excused, unrecorded, contended>>
      /\ failures' \in Nat
  BY <1>1 DEF RecoveryEnds, GatewayRestarts, Failure, deliveryHistory, DeliveryTypes
<1>4. QED
  BY <1>2, <1>3, RecoveryTurns

\* A crash stops whoever is at work, and writes down none of their attempts.
LEMMA GatewayDiesKept ==
  ASSUME DeliveryInv, GatewayDies
  PROVE  DeliveryInv'
<1> DEFINE Stopped(d) == {w \in Workers : Working(w) /\ worker[w].at # "unlink" /\ Message(w) = d}
<1>1. /\ DeliveryTypes /\ PendingOK
      /\ \A w \in Workers : WorkerOK(w)
      /\ \A d \in Deliveries : MessageOK(d)
  BY DEF DeliveryInv
<1>2. /\ UNCHANGED <<files, entry, sent, accepted, acked, excused, contended>>
      /\ pending' = {} /\ failures' = failures + 1
      /\ unrecorded' = [d \in Deliveries |-> unrecorded[d] + Cardinality(Stopped(d))]
  BY DEF GatewayDies, Failure
<1>3. ASSUME NEW d \in Deliveries
      PROVE  IsFiniteSet(Stopped(d)) /\ Cardinality(Stopped(d)) \in Nat
  <2>1. IsFiniteSet(Workers)
    <3>1. IsFiniteSet(Deliveries) /\ IsFiniteSet(Recoveries)
      BY DeliveryAssumption, FS_Interval DEF Deliveries
    <3>2. QED
      BY <3>1, FS_Union DEF Workers
  <2>2. IsFiniteSet(Stopped(d))
    BY <2>1, FS_Subset
  <2>3. QED
    BY <2>2, FS_CardinalityType
<1>4. \A d \in Deliveries : unrecorded'[d] = unrecorded[d] + Cardinality(Stopped(d))
  BY <1>2
<1> HIDE DEF Stopped
<1>5. ASSUME NEW w \in Workers
      PROVE  /\ worker'[w] \in [at : Places, message : Workers, payload : Payloads,
                                 partial : BOOLEAN, retries : Nat]
             /\ Message(w)' = Message(w)
             /\ w \in Recoveries => worker'[w].at \in {"load", "idle"}
             /\ w \in Deliveries /\ Working(w) => worker'[w].at = "dead"
             /\ w \in Deliveries /\ ~Working(w) => worker'[w] = worker[w]
  <2>1. worker[w] \in [at : Places, message : Workers, payload : Payloads,
                       partial : BOOLEAN, retries : Nat]
    BY <1>1 DEF DeliveryTypes
  <2>2. PICK to \in {"load", "idle", "dead", worker[w].at} :
          /\ worker'[w] = [worker[w] EXCEPT !.at = to]
          /\ w \in Recoveries => to \in {"load", "idle"}
          /\ w \in Deliveries => to = IF Working(w) THEN "dead" ELSE worker[w].at
    BY WorkerFacts DEF GatewayDies
  <2>3. to \in Places
    BY <2>1 DEF Places
  <2>4. /\ worker'[w] \in [at : Places, message : Workers, payload : Payloads,
                             partial : BOOLEAN, retries : Nat]
        /\ worker'[w].message = worker[w].message /\ worker'[w].at = to
        /\ to = worker[w].at => worker'[w] = worker[w]
    BY <2>1, <2>2, <2>3
  <2>5. QED
    BY <2>2, <2>4 DEF Message
<1>6. /\ worker' \in [Workers -> [at : Places, message : Workers, payload : Payloads,
                                   partial : BOOLEAN, retries : Nat]]
      /\ unrecorded' \in [Deliveries -> Nat]
      /\ \A d \in Deliveries : unrecorded'[d] >= unrecorded[d]
  <2>1. worker' = [w \in Workers |-> worker'[w]]
    BY DEF GatewayDies
  <2>3. worker' \in [Workers -> [at : Places, message : Workers, payload : Payloads,
                                 partial : BOOLEAN, retries : Nat]]
    BY <1>5, <2>1
  <2>4. \A d \in Deliveries : unrecorded[d] \in Nat
    BY <1>1 DEF DeliveryTypes
  <2>5. QED
    BY <1>2, <1>3, <1>4, <2>3, <2>4
<1>7. DeliveryTypes' /\ PendingOK'
  BY <1>1, <1>2, <1>6 DEF DeliveryTypes, PendingOK
<1>8. ASSUME NEW w \in Workers
      PROVE  WorkerOK(w)'
  <2>1. CASE w \in Recoveries
    BY <1>5, <2>1, WorkerFacts DEF WorkerOK
  <2>2. CASE w \in Deliveries /\ Working(w)
    BY <1>1, <1>5, <2>2 DEF WorkerOK
  <2>3. CASE w \in Deliveries /\ ~Working(w)
    <3>1. worker'[w] = worker[w] /\ Message(w)' = Message(w) /\ WorkerOK(w)
      BY <1>1, <1>5, <2>3
    <3>2. QED
      BY <1>2, <3>1 DEF WorkerOK
  <2>4. QED
    BY <2>1, <2>2, <2>3, WorkerFacts
<1>9. \A w \in Workers : /\ worker'[w].at \notin Busy /\ ~Working(w)'
                         /\ worker'[w].at = "new" => worker[w].at = "new"
  <2> SUFFICES ASSUME NEW w \in Workers
               PROVE  /\ worker'[w].at \notin Busy /\ ~Working(w)'
                      /\ worker'[w].at = "new" => worker[w].at = "new"
    OBVIOUS
  <2>1. CASE w \in Recoveries
    BY <1>5, <2>1 DEF Busy, Working
  <2>2. CASE w \in Deliveries /\ Working(w)
    BY <1>5, <2>2 DEF Busy, Working
  <2>3. CASE w \in Deliveries /\ ~Working(w)
    BY <1>5, <2>3 DEF Busy, Working
  <2>4. QED
    BY <2>1, <2>2, <2>3, WorkerFacts
<1>10. ASSUME NEW d \in Deliveries
       PROVE  MessageOK(d)'
  <2>1. d \in Workers /\ MessageOK(d) /\ ~IsPending(d)'
    BY <1>1, <1>2, WorkerFacts DEF IsPending
  <2>2. Kept(d)'
    BY <1>2, <2>1 DEF MessageOK, Kept
  <2>3. ASSUME d \notin contended
        PROVE  Alone(d)' /\ (Finished(d)' \/ Tallied(d)') /\ Bounded(d)'
    <3>1. Alone(d) /\ (Finished(d) \/ Tallied(d)) /\ Bounded(d)
      BY <2>1, <2>3 DEF MessageOK
    <3>2. Finished(d) => Finished(d)'
      <4> SUFFICES ASSUME Finished(d), NEW w \in Workers, Message(w)' = d
                   PROVE  worker'[w].at \notin Busy \cup {"new"}
        BY <1>2, <2>1 DEF Finished
      <4>1. Message(w) = d
        BY <1>5
      <4>2. QED
        BY <1>9, <4>1 DEF Finished
    <3>3. Alone(d)'
      BY <1>2, <1>9, <2>1, <3>1, <3>2 DEF Alone, IsPending
    <3>4. \A p \in Payloads : /\ sent[d][p] \in Nat /\ entry[d].retries \in Nat
                              /\ unrecorded[d] \in Nat /\ unrecorded'[d] \in Nat /\ MaxRetries \in Nat
      BY <1>1, <1>6, DeliveryAssumption DEF DeliveryTypes, Entries
    <3>5. Bounded(d)'
      BY <1>2, <1>6, <3>1, <3>4 DEF Bounded
    <3>6. ASSUME NEW p \in Payloads, Attempted(d, p)
          PROVE  unrecorded'[d] >= unrecorded[d] + 1
      <4>1. PICK w \in Workers : Message(w) = d /\ AttemptedBy(w, p)
        BY <3>6 DEF Attempted
      <4>2. w \in Stopped(d)
        BY <4>1 DEF Stopped, AttemptedBy, Working
      <4>3. Cardinality(Stopped(d)) # 0
        BY <1>3, <4>2, FS_EmptySet
      <4>4. QED
        BY <1>3, <1>4, <3>4, <4>3
    <3>7. ASSUME Tallied(d)
          PROVE  Tallied(d)'
      <4>1. ASSUME NEW p \in Payloads
            PROVE  sent[d][p] <= entry[d].retries + unrecorded'[d]
        <5>1. sent[d][p] <= entry[d].retries + unrecorded[d] + (IF Attempted(d, p) THEN 1 ELSE 0)
          BY <3>7 DEF Tallied
        <5>2. unrecorded'[d] >= unrecorded[d]
          BY <1>6
        <5>3. QED
          BY <3>4, <3>6, <5>1, <5>2
      <4>2. \A p \in Payloads : sent[d][p] <= entry[d].retries + unrecorded'[d] +
                                                (IF Attempted(d, p)' THEN 1 ELSE 0)
        BY <3>4, <4>1
      <4>3. \A w \in Workers : Message(w)' = d =>
              /\ worker'[w].at \in Busy \cup {"new"} => entry[d].retries < MaxRetries
              /\ worker'[w].at = "failWrite" => worker'[w].retries = entry[d].retries
        <5> SUFFICES ASSUME NEW w \in Workers, Message(w)' = d
                     PROVE  /\ worker'[w].at \in Busy \cup {"new"} => entry[d].retries < MaxRetries
                            /\ worker'[w].at = "failWrite" => worker'[w].retries = entry[d].retries
          OBVIOUS
        <5>1. Message(w) = d
          BY <1>5
        <5>2. worker'[w].at # "failWrite"
          BY <1>9 DEF Busy
        <5>3. worker'[w].at \in Busy \cup {"new"} => worker[w].at \in Busy \cup {"new"}
          BY <1>9
        <5>4. QED
          BY <3>7, <5>1, <5>2, <5>3 DEF Tallied
      <4>4. entry[d].retries <= MaxRetries
        BY <3>7 DEF Tallied
      <4>5. UNCHANGED <<entry, sent>>
        BY <1>2
      <4>6. QED
        BY <4>2, <4>3, <4>4, <4>5 DEF Tallied
    <3>8. QED
      BY <3>1, <3>2, <3>3, <3>5, <3>7
  <2>4. worker'[d].at = "new" => worker[d].at = "new"
    BY <1>9, <2>1
  <2>5. QED
    BY <1>2, <2>1, <2>2, <2>3, <2>4 DEF MessageOK
<1>11. QED
  BY <1>7, <1>8, <1>10 DEF DeliveryInv

-----------------------------------------------------------------------------
LEMMA DeliveryInitInv ==
  ASSUME DeliveryInit
  PROVE  DeliveryInv
<1> PICK r \in Recoveries :
      worker = [w \in Workers |-> Begins(IF w \in Deliveries THEN "new"
                                         ELSE IF w = r THEN "load" ELSE "idle", w)]
  BY DEF DeliveryInit
<1> DEFINE at(w) == IF w \in Deliveries THEN "new" ELSE IF w = r THEN "load" ELSE "idle"
           first(w) == Begins(at(w), w)
<1>1. /\ files = [d \in Deliveries |-> {}]
      /\ entry = [d \in Deliveries |-> [retries |-> 0, tried |-> FALSE]]
      /\ worker = [w \in Workers |-> first(w)]
      /\ pending = {} /\ failures = 0
      /\ sent = [d \in Deliveries |-> [p \in Payloads |-> 0]]
      /\ accepted = {} /\ acked = {} /\ excused = {} /\ contended = {}
      /\ unrecorded = [d \in Deliveries |-> 0]
  BY DEF DeliveryInit
<1>2. \A w \in Workers : /\ first(w) \in [at : Places, message : Workers, payload : Payloads,
                                           partial : BOOLEAN, retries : Nat]
                         /\ first(w).at = at(w) /\ first(w).message = w
                         /\ first(w).payload = 1 /\ first(w).partial = FALSE
  BY WorkerFacts DEF Places, Begins
<1> HIDE DEF first
<1>3. \A w \in Workers : /\ Message(w) = w /\ worker[w].at = at(w)
                         /\ worker[w].payload = 1 /\ worker[w].partial = FALSE
  BY <1>1, <1>2 DEF Message
<1>4. [retries |-> 0, tried |-> FALSE] \in Entries
  BY DEF Entries
<1>5. DeliveryTypes
  <2>1. worker \in [Workers -> [at : Places, message : Workers, payload : Payloads,
                                 partial : BOOLEAN, retries : Nat]]
    BY <1>1, <1>2
  <2>2. entry \in [Deliveries -> Entries]
    BY <1>1, <1>4
  <2>3. QED
    BY <1>1, <2>1, <2>2 DEF DeliveryTypes
<1>6. PendingOK
  BY <1>1 DEF PendingOK
<1>7. ASSUME NEW w \in Workers
      PROVE  WorkerOK(w)
  BY <1>1, <1>3, WorkerFacts DEF WorkerOK
<1>8. ASSUME NEW d \in Deliveries
      PROVE  MessageOK(d)
  <2>1. d \in Workers /\ files[d] = {} /\ ~IsPending(d)
    BY <1>1, WorkerFacts DEF IsPending
  <2>2. entry[d].retries = 0 /\ unrecorded[d] = 0 /\ \A p \in Payloads : sent[d][p] = 0
    BY <1>1
  <2>3. Alone(d)
    BY <1>1, <1>3, <2>1, WorkerFacts DEF Alone, IsPending, Working
  <2>4. \A p \in Payloads : ~Attempted(d, p)
    <3>1. \A p \in Payloads : ~(p < 1)
      BY DEF Payloads
    <3>2. QED
      BY <1>3, <3>1 DEF Attempted, AttemptedBy
  <2>5. Tallied(d)
    <3>1. \A w \in Workers : worker[w].at # "failWrite"
      BY <1>3
    <3>2. entry[d].retries < MaxRetries /\ entry[d].retries <= MaxRetries
      BY <2>2, DeliveryAssumption
    <3>3. \A p \in Payloads :
            sent[d][p] <= entry[d].retries + unrecorded[d] + (IF Attempted(d, p) THEN 1 ELSE 0)
      BY <2>2, <2>4
    <3>4. QED
      BY <3>1, <3>2, <3>3 DEF Tallied
  <2>6. Bounded(d)
    BY <2>2, DeliveryAssumption DEF Bounded
  <2>7. QED
    BY <1>1, <2>1, <2>3, <2>5, <2>6 DEF MessageOK, Kept
<1>9. QED
  BY <1>5, <1>6, <1>7, <1>8 DEF DeliveryInv

LEMMA DeliveryStepKept ==
  ASSUME DeliveryInv, [DeliveryNext]_deliveryVars
  PROVE  DeliveryInv'
<1>1. CASE UNCHANGED deliveryVars
  <2>1. UNCHANGED <<files, entry, worker, pending, failures, sent, accepted, acked, excused, unrecorded, contended>>
    BY <1>1 DEF deliveryVars
  <2>2. DeliveryTypes' /\ PendingOK'
    BY <2>1 DEF DeliveryInv, DeliveryTypes, PendingOK
  <2>3. ASSUME NEW w \in Workers
        PROVE  WorkerOK(w)'
    BY <2>1 DEF DeliveryInv, WorkerOK, Message
  <2>4. ASSUME NEW d \in Deliveries
        PROVE  MessageOK(d)'
    <3>1. MessageOK(d)
      BY DEF DeliveryInv
    <3>2. Finished(d)' <=> Finished(d)
      BY <2>1 DEF Finished, IsPending, Message
    <3>3. Alone(d)' <=> Alone(d)
      BY <2>1, <3>2 DEF Alone, IsPending, Message, Working
    <3>4. \A p \in Payloads : Attempted(d, p)' <=> Attempted(d, p)
      BY <2>1 DEF Attempted, AttemptedBy, Message
    <3>5. Tallied(d) => Tallied(d)'
      BY <2>1, <3>4 DEF Tallied, Message
    <3>6. Kept(d)' /\ (Bounded(d) => Bounded(d)')
      BY <2>1, <3>1 DEF Kept, Bounded, MessageOK
    <3>7. QED
      BY <2>1, <3>1, <3>2, <3>3, <3>5, <3>6 DEF MessageOK
  <2>5. QED
    BY <2>2, <2>3, <2>4 DEF DeliveryInv
<1>2. CASE DeliveryStep
  <2>1. ASSUME NEW d \in Deliveries, EnqueueDelivery(d)
        PROVE  DeliveryInv'
    BY <2>1, EnqueueKept
  <2>2. ASSUME NEW d \in Deliveries, SendAborted(d)
        PROVE  DeliveryInv'
    BY <2>2, SendAbortedKept
  <2>3. ASSUME NEW w \in Workers,
               \/ SendOk(w) \/ SendFails(w) \/ SendCancelled(w) \/ AckRenames(w) \/ AckUnlinks(w)
               \/ FailReads(w) \/ FailWrites(w) \/ MoveToFailed(w)
        PROVE  DeliveryInv'
    BY <2>3, SendOkKept, SendFailsKept, AckRenamesKept, AckUnlinksKept, FailReadsKept,
       FailWritesKept, MoveToFailedKept
  <2>4. ASSUME NEW r \in Recoveries,
               RecoveryLoads(r) \/ RecoveryTakes(r) \/ RecoveryEnds(r) \/ GatewayRestarts(r)
        PROVE  DeliveryInv'
    BY <2>4, RecoveryLoadsKept, RecoveryTakesKept, RecoveryEndsKept
  <2>5. QED
    BY <1>2, <2>1, <2>2, <2>3, <2>4, GatewayDiesKept DEF DeliveryStep
<1>3. QED
  BY <1>1, <1>2 DEF DeliveryNext

\* Nobody sends a message that has been renamed, unless a recovery had loaded
\* it while somebody was at work on it.
LEMMA NoReplayStep ==
  ASSUME DeliveryInv, [DeliveryNext]_deliveryVars, NEW d \in acked \ contended
  PROVE  sent'[d] = sent[d]
<1>1. /\ d \in Deliveries /\ DeliveryTypes
      /\ \A w \in Workers : Message(w) = d => worker[w].at # "send"
  BY DEF DeliveryInv, DeliveryTypes, MessageOK, Alone, Finished, Busy
<1>2. ASSUME NEW w \in Workers, SendOk(w)
      PROVE  sent'[d] = sent[d]
  <2>1. worker[w].at = "send" /\ Message(w) # d
    BY <1>1, <1>2 DEF SendOk
  <2>2. sent' = [sent EXCEPT ![Message(w)][worker[w].payload] = @ + 1]
    BY <1>2 DEF SendOk
  <2>3. QED
    BY <1>1, <2>1, <2>2 DEF DeliveryTypes
<1>3. CASE sent' = sent
  BY <1>3
<1>4. (\E w \in Workers : SendOk(w)) \/ sent' = sent
  BY DEF DeliveryNext, DeliveryStep, deliveryVars, deliveryHistory, EnqueueDelivery, SendAborted,
         SendFails, SendCancelled, AckRenames, AckUnlinks, FailReads, FailWrites, MoveToFailed,
         RecoveryLoads, RecoveryTakes, RecoveryEnds, GatewayRestarts, GatewayDies
<1>5. QED
  BY <1>2, <1>3, <1>4

\* The inductive invariant holds in every behaviour of the queue
\* (outbound/delivery-queue.ts, outbound/deliver.ts).
THEOREM DeliveryInvariant == DeliverySpec => []DeliveryInv
<1>1. DeliveryInit => DeliveryInv
  BY DeliveryInitInv
<1>2. DeliveryInv /\ [DeliveryNext]_deliveryVars => DeliveryInv'
  BY DeliveryStepKept
<1>3. QED
  BY <1>1, <1>2, PTL DEF DeliverySpec

\* For any number of messages and payloads, through crashes, failing file
\* operations and concurrent recoveries: while the channel has not taken every
\* payload of a message its file is in the queue or in failed/, unless its
\* sender aborted it, a hook cancelled a payload, or nobody listened to an error
\* of a best-effort message (delivery-queue.ts, deliver.ts 465-510, 697-711).
THEOREM MessagesAreKept == DeliverySpec => []NoMessageLost
<1>1. DeliveryInv => NoMessageLost
  BY DEF DeliveryInv, DeliveryTypes, MessageOK, Kept, NoMessageLost
<1>2. QED
  BY <1>1, DeliveryInvariant, PTL

\* For any number of messages and payloads: a payload is sent at most
\* MAX_RETRIES times, and once more for each attempt whose end a crash or a
\* failing file kept from the queue (delivery-queue.ts 12, 349-360), unless a
\* recovery had loaded the message while somebody was at work on it.
THEOREM SendsAreBounded == DeliverySpec => []SendsBounded
<1>1. DeliveryInv => SendsBounded
  BY DEF DeliveryInv, MessageOK, Bounded, SendsBounded
<1>2. QED
  BY <1>1, DeliveryInvariant, PTL

\* For any number of messages: one whose file was renamed by ackDelivery
\* (delivery-queue.ts 132-150) is not sent again, whatever crashes and
\* recovers, unless a recovery had loaded it while its own delivery or another
\* recovery was at work on it.
THEOREM AckedIsNotReplayed == DeliverySpec => NoReplayAfterAck
<1>1. DeliveryInv /\ [DeliveryNext]_deliveryVars =>
        [\A d \in acked \ contended : sent'[d] = sent[d]]_deliveryVars
  BY NoReplayStep
<1>2. QED
  BY <1>1, DeliveryInvariant, PTL DEF DeliverySpec, NoReplayAfterAck

\* A message that is not contended has one file at most, its json while its
\* retries are being written, and its retries never pass the limit.
OneFile(d) ==
  /\ files[d] \in {{}, {"json"}, {"delivered"}, {"failed"}}
  /\ \A w \in Workers : Message(w) = d /\ worker[w].at = "failWrite" => files[d] = {"json"}
  /\ entry[d].retries <= MaxRetries

FilesOK == \A d \in Deliveries \ contended : OneFile(d)

\* It is enough to look at the message that a worker is at.
LEMMA OneWorkerFiles ==
  ASSUME DeliveryInv, FilesOK, NEW w \in Workers, NEW d \in Deliveries, Message(w) = d,
         worker[w].at = "new" \/ Working(w),
         \A v \in Workers : v # w => worker'[v] = worker[v],
         worker'[w].message = worker[w].message, contended' = contended,
         \A c \in Deliveries : c # d => files'[c] = files[c] /\ entry'[c] = entry[c],
         d \notin contended =>
           /\ files'[d] \in {{}, {"json"}, {"delivered"}, {"failed"}}
           /\ worker'[w].at = "failWrite" => files'[d] = {"json"}
           /\ entry'[d].retries <= MaxRetries
  PROVE  FilesOK'
<1>1. \A v \in Workers : v # w => worker'[v] = worker[v] /\ Message(v)' = Message(v)
  BY DEF Message
<1>2. Message(w)' = d
  BY DEF Message
<1>3. ASSUME NEW c \in Deliveries \ contended, c # d
      PROVE  OneFile(c)'
  BY <1>1, <1>2, <1>3 DEF FilesOK, OneFile
<1>4. ASSUME d \notin contended
      PROVE  OneFile(d)'
  <2>1. \A v \in Workers : v # w /\ Message(v) = d => ~Working(v)
    BY <1>4, SoleWorker
  <2>2. \A v \in Workers : v # w /\ Message(v)' = d => worker'[v].at # "failWrite"
    BY <1>1, <2>1 DEF Working
  <2>3. QED
    BY <1>4, <2>2 DEF OneFile
<1>5. QED
  BY <1>3, <1>4 DEF FilesOK

\* The steps that leave the files and their entries alone, and begin no write.
LEMMA SameFiles ==
  ASSUME FilesOK, files' = files, entry' = entry, contended' = contended,
         \A w \in Workers : worker'[w].at = "failWrite" => worker'[w] = worker[w]
  PROVE  FilesOK'
BY DEF FilesOK, OneFile, Message

LEMMA WorkerFilesKept ==
  ASSUME DeliveryInv, FilesOK, NEW w \in Workers,
         \/ w \in Deliveries /\ EnqueueDelivery(w)
         \/ AckRenames(w) \/ AckUnlinks(w) \/ FailReads(w) \/ FailWrites(w) \/ MoveToFailed(w)
  PROVE  FilesOK'
<1>1. worker[w].at \in {"new", "ack", "unlink", "failRead", "failWrite", "move"}
  BY DEF EnqueueDelivery, AckRenames, AckUnlinks, FailReads, FailWrites, MoveToFailed
<1>2. PICK d \in Deliveries : Message(w) = d
  BY <1>1, WorkingMessage
<1>3. /\ worker[w].at = "new" \/ Working(w)
      /\ w \in Deliveries => w = d
  BY <1>1, <1>2, WorkingMessage
<1>4. DeliveryTypes /\ contended' = contended
  BY DEF DeliveryInv, EnqueueDelivery, AckRenames, AckUnlinks, FailReads, FailWrites, MoveToFailed,
         deliveryHistory
<1>5. \/ \E to \in Places \ {"failWrite"} : MovesTo(w, to)
      \/ /\ FailReads(w) /\ "json" \in files[d]
         /\ worker' = [worker EXCEPT ![w].at = "failWrite", ![w].retries = entry[d].retries]
  <2>1. {"send", "unlink", "failRead", "done", "next", Through(w)} \subseteq Places \ {"failWrite"}
    BY ThroughFacts DEF Places
  <2>2. QED
    BY <1>2, <2>1, WorkerFacts DEF EnqueueDelivery, AckRenames, AckUnlinks, FailReads, FailWrites, MoveToFailed
<1>6. /\ \A v \in Workers : v # w => worker'[v] = worker[v]
      /\ worker'[w].message = worker[w].message
      /\ worker'[w].at = "failWrite" => FailReads(w) /\ "json" \in files[d]
  <2>1. CASE \E to \in Places \ {"failWrite"} : MovesTo(w, to)
    BY <1>4, <2>1, MovesToFacts
  <2>2. CASE /\ FailReads(w) /\ "json" \in files[d]
             /\ worker' = [worker EXCEPT ![w].at = "failWrite", ![w].retries = entry[d].retries]
    BY <1>4, <2>2 DEF DeliveryTypes
  <2>3. QED
    BY <1>5, <2>1, <2>2
<1>7. /\ files \in [Deliveries -> SUBSET {"json", "delivered", "failed"}]
      /\ entry \in [Deliveries -> Entries] /\ worker[w].retries \in Nat /\ MaxRetries \in Nat
  BY <1>4, DeliveryAssumption DEF DeliveryTypes
<1>8. \/ files' = files
      \/ worker[w].at = "new" /\ files' = [files EXCEPT ![d] = {"json"}]
      \/ "json" \in files[d] /\ files' = [files EXCEPT ![d] = Marked(@)]
      \/ files' = [files EXCEPT ![d] = @ \ {"delivered"}]
      \/ worker[w].at = "failWrite" /\ files' = [files EXCEPT ![d] = @ \cup {"json"}]
      \/ files' = [files EXCEPT ![d] = IF "json" \in @ THEN (@ \ {"json"}) \cup {"failed"} ELSE @]
  BY <1>2, <1>3 DEF EnqueueDelivery, AckRenames, AckUnlinks, FailReads, FailWrites, MoveToFailed
<1>9. \/ entry' = entry
      \/ /\ worker[w].at = "failWrite"
         /\ entry' = [entry EXCEPT ![d] = [retries |-> worker[w].retries + 1, tried |-> TRUE]]
  BY <1>2 DEF EnqueueDelivery, AckRenames, AckUnlinks, FailReads, FailWrites, MoveToFailed, Counted,
     deliveryHistory
<1>10. \A c \in Deliveries : c # d => files'[c] = files[c] /\ entry'[c] = entry[c]
  BY <1>7, <1>8, <1>9
<1>11. ASSUME d \notin contended
       PROVE  /\ files'[d] \in {{}, {"json"}, {"delivered"}, {"failed"}}
              /\ worker'[w].at = "failWrite" => files'[d] = {"json"}
              /\ entry'[d].retries <= MaxRetries
  <2>1. /\ files[d] \in {{}, {"json"}, {"delivered"}, {"failed"}}
        /\ worker[w].at = "failWrite" => files[d] = {"json"}
        /\ entry[d].retries <= MaxRetries
    BY <1>2, <1>11 DEF FilesOK, OneFile
  <2>2. worker[w].at = "failWrite" => worker[w].retries = entry[d].retries /\ entry[d].retries < MaxRetries
    BY <1>2, <1>3, <1>11, SoleWorker DEF Tallied, Busy
  <2>3. files'[d] \in {{}, {"json"}, {"delivered"}, {"failed"}}
    BY <1>7, <1>8, <2>1 DEF Marked
  <2>4. FailReads(w) => files' = files
    BY DEF FailReads
  <2>5. entry[d].retries \in Nat
    BY <1>7 DEF Entries
  <2>6. entry'[d].retries <= MaxRetries
    BY <1>7, <1>9, <2>1, <2>2, <2>5
  <2>7. QED
    BY <1>6, <2>1, <2>3, <2>4, <2>6
<1>12. QED
  BY <1>2, <1>3, <1>4, <1>6, <1>10, <1>11, OneWorkerFiles

\* The steps of the senders and of the recoveries that neither write nor begin to.
LEMMA OtherFilesKept ==
  ASSUME DeliveryInv, FilesOK,
         \/ \E w \in Workers : SendOk(w) \/ SendFails(w) \/ SendCancelled(w)
         \/ \E d \in Deliveries : SendAborted(d)
         \/ \E r \in Recoveries : RecoveryTakes(r) \/ RecoveryEnds(r) \/ GatewayRestarts(r)
         \/ GatewayDies
  PROVE  FilesOK'
<1>1. DeliveryTypes /\ Recoveries \subseteq Workers /\ Deliveries \subseteq Workers
  BY WorkerFacts DEF DeliveryInv
<1>2. files' = files /\ entry' = entry /\ contended' = contended
  BY DEF SendOk, SendFails, SendCancelled, SendAborted, RecoveryTakes, RecoveryEnds, GatewayRestarts,
         GatewayDies, deliveryHistory
<1>3. ASSUME NEW w \in Workers, NEW to \in Places \ {"failWrite"}, MovesTo(w, to)
      PROVE  \A v \in Workers : worker'[v].at = "failWrite" => worker'[v] = worker[v]
  BY <1>1, <1>3, MovesToFacts
<1>4. ASSUME NEW w \in Workers, NEW partial \in BOOLEAN, worker[w].at = "send", GoesOn(w, partial)
      PROVE  \A v \in Workers : worker'[v].at = "failWrite" => worker'[v] = worker[v]
  <2>1. /\ \A v \in Workers : v # w => worker'[v] = worker[v]
        /\ worker'[w].at \in {"send", AfterLast(w, partial)}
    BY <1>1, <1>4, GoesOnFacts
  <2>2. QED
    BY <2>1, AfterLastType
<1>5. ASSUME NEW w \in Workers, SendOk(w) \/ SendFails(w) \/ SendCancelled(w)
      PROVE  \A v \in Workers : worker'[v].at = "failWrite" => worker'[v] = worker[v]
  <2>1. worker[w].at = "send" /\ worker[w].partial \in BOOLEAN
    BY <1>1, <1>5 DEF SendOk, SendFails, SendCancelled, DeliveryTypes
  <2>2. \/ \E partial \in BOOLEAN : GoesOn(w, partial)
        \/ \E to \in {"done", "failRead", "move"} : MovesTo(w, to)
    BY <1>5, <2>1 DEF SendOk, SendFails, SendCancelled, Throws
  <2>3. {"done", "failRead", "move"} \subseteq Places \ {"failWrite"}
    BY DEF Places
  <2>4. QED
    BY <1>3, <1>4, <2>1, <2>2, <2>3
<1>6. ASSUME NEW d \in Deliveries, SendAborted(d)
      PROVE  \A v \in Workers : worker'[v].at = "failWrite" => worker'[v] = worker[v]
  <2>1. {"ack", "done"} \subseteq Places \ {"failWrite"}
    BY DEF Places
  <2>2. QED
    BY <1>1, <1>3, <1>6, <2>1 DEF SendAborted
<1>7. ASSUME NEW r \in Recoveries, RecoveryTakes(r)
      PROVE  FilesOK'
  <2>1. \/ worker' = worker
        \/ \E m, at : at \in {"move", "send"} /\ worker' = [worker EXCEPT ![r] = Begins(at, m)]
    BY <1>7 DEF RecoveryTakes, Takes
  <2>2. \A v \in Workers : worker'[v].at = "failWrite" => worker'[v] = worker[v]
    BY <1>1, <2>1 DEF DeliveryTypes, Begins
  <2>3. QED
    BY <1>2, <2>2, SameFiles
<1>8. ASSUME NEW r \in Recoveries, RecoveryEnds(r) \/ GatewayRestarts(r)
      PROVE  FilesOK'
  <2>1. \E to \in Places \ {"failWrite"} : MovesTo(r, to)
    BY <1>8 DEF RecoveryEnds, GatewayRestarts, Places
  <2>2. QED
    BY <1>1, <1>2, <1>3, <2>1, SameFiles
<1>9. CASE GatewayDies
  <2>1. \A v \in Workers : worker'[v] = worker[v] \/ worker'[v].at \in {"load", "idle", "dead"}
    BY <1>1, <1>9, WorkerFacts DEF GatewayDies, DeliveryTypes
  <2>2. QED
    BY <1>2, <2>1, SameFiles
<1>10. QED
  BY <1>2, <1>5, <1>6, <1>7, <1>8, <1>9, SameFiles

LEMMA LoadsFiles ==
  ASSUME DeliveryInv, FilesOK, NEW r \in Recoveries, RecoveryLoads(r)
  PROVE  FilesOK'
<1>1. DeliveryTypes /\ r \in Workers /\ "next" \in Places
  BY WorkerFacts DEF DeliveryInv, Places
<1>2. /\ files' = [d \in Deliveries |-> files[d] \ {"delivered"}]
      /\ entry' = entry /\ contended \subseteq contended' /\ MovesTo(r, "next")
  BY DEF RecoveryLoads
<1>3. \A w \in Workers : worker'[w].at = "failWrite" => worker'[w] = worker[w]
  BY <1>1, <1>2, MovesToFacts
<1>4. ASSUME NEW d \in Deliveries \ contended'
      PROVE  OneFile(d)'
  <2>1. OneFile(d)
    BY <1>2, <1>4 DEF FilesOK
  <2>2. QED
    BY <1>2, <1>3, <1>4, <2>1 DEF OneFile, Message
<1>5. QED
  BY <1>4 DEF FilesOK

LEMMA FilesStepKept ==
  ASSUME DeliveryInv, FilesOK, [DeliveryNext]_deliveryVars
  PROVE  FilesOK'
<1>1. CASE UNCHANGED deliveryVars
  BY <1>1, SameFiles DEF deliveryVars
<1>2. CASE DeliveryStep
  <2>1. ASSUME NEW d \in Deliveries, EnqueueDelivery(d)
        PROVE  FilesOK'
    <3>1. d \in Workers
      BY WorkerFacts
    <3>2. QED
      BY <2>1, <3>1, WorkerFilesKept
  <2>2. ASSUME NEW w \in Workers,
               AckRenames(w) \/ AckUnlinks(w) \/ FailReads(w) \/ FailWrites(w) \/ MoveToFailed(w)
        PROVE  FilesOK'
    BY <2>2, WorkerFilesKept
  <2>3. QED
    BY <1>2, <2>1, <2>2, OtherFilesKept, LoadsFiles DEF DeliveryStep
<1>3. QED
  BY <1>1, <1>2 DEF DeliveryNext

LEMMA DeliveryInitFiles == DeliveryInit => FilesOK
<1>1. DeliveryInit => \A w \in Workers : worker[w].at # "failWrite"
  BY DEF DeliveryInit, Begins
<1>2. QED
  BY <1>1, DeliveryAssumption DEF DeliveryInit, FilesOK, OneFile

\* Type correctness of the queue, for any number of messages and payloads: but
\* for a message that a recovery loaded while its own delivery or another recovery
\* was at work on it, a message has one file at most and its retries never pass MAX_RETRIES.
THEOREM DeliveryTyped == DeliverySpec => []DeliveryTypeOK
<1>1. DeliveryInit => DeliveryInv /\ FilesOK
  BY DeliveryInitInv, DeliveryInitFiles
<1>2. DeliveryInv /\ FilesOK /\ [DeliveryNext]_deliveryVars => (DeliveryInv /\ FilesOK)'
  BY DeliveryStepKept, FilesStepKept
<1>3. ASSUME DeliveryInv, FilesOK
      PROVE  DeliveryTypeOK
  <2>1. \A f \in {{}, {"json"}, {"delivered"}, {"failed"}} : Cardinality(f) <= 1
    <3>1. Cardinality({}) = 0
      BY FS_EmptySet
    <3>2. Cardinality({"json"}) = 1 /\ Cardinality({"delivered"}) = 1 /\ Cardinality({"failed"}) = 1
      BY FS_Singleton, Zenon
    <3>3. \A f \in {{}, {"json"}, {"delivered"}, {"failed"}} : Cardinality(f) = 0 \/ Cardinality(f) = 1
      BY <3>1, <3>2, Zenon
    <3>4. QED
      BY <3>3
  <2>2. \A d \in Deliveries \ contended : Cardinality(files[d]) <= 1 /\ entry[d].retries <= MaxRetries
    BY <1>3, <2>1 DEF FilesOK, OneFile
  <2>3. QED
    BY <1>3, <2>2 DEF DeliveryInv, DeliveryTypes, PendingOK, Places, Entries, DeliveryTypeOK
<1>4. QED
  BY <1>1, <1>2, <1>3, PTL DEF DeliverySpec

-----------------------------------------------------------------------------
(* The promise to the senders *)

\* A message that is in the queue and under way has its json, and until it is
\* acknowledged it has that or is in failed/.
Treated == {"send", "ack", "failRead", "failWrite", "move"}

Treating(d) == IsPending(d) \/ \E w \in Workers : Message(w) = d /\ worker[w].at \in Treated

Queued(d) == d \in accepted /\ Treating(d) => "json" \in files[d]
QueuedOK == \A d \in Deliveries \ contended : Queued(d)

Filed == \A d \in accepted \ acked : files[d] \cap {"json", "failed"} # {}

PromiseInv == DeliveryInv /\ FilesOK /\ QueuedOK /\ Filed

\* What happens to a message that a worker is at.
LEMMA SoleQueued ==
  ASSUME DeliveryInv, QueuedOK, NEW w \in Workers, NEW d \in Deliveries, Message(w) = d,
         worker[w].at = "new" \/ Working(w),
         \A v \in Workers : v # w => worker'[v] = worker[v],
         worker'[w].message = worker[w].message, contended' = contended, pending' = pending,
         \A c \in Deliveries : c # d => /\ files'[c] = files[c]
                                        /\ c \in accepted' => c \in accepted,
         d \in accepted' \ contended /\ worker'[w].at \in Treated => "json" \in files'[d]
  PROVE  QueuedOK'
<1>1. \A v \in Workers : v # w => worker'[v] = worker[v] /\ Message(v)' = Message(v)
  BY DEF Message
<1>2. Message(w)' = d
  BY DEF Message
<1>3. ASSUME NEW c \in Deliveries \ contended, c # d
      PROVE  Queued(c)'
  BY <1>1, <1>2, <1>3 DEF QueuedOK, Queued, Treating, IsPending
<1>4. ASSUME d \notin contended
      PROVE  Queued(d)'
  <2>1. ~IsPending(d) /\ \A v \in Workers : v # w /\ Message(v) = d => ~Working(v) /\ worker[v].at # "new"
    BY <1>4, SoleWorker
  <2>2. \A v \in Workers : v # w /\ Message(v)' = d => worker'[v].at \notin Treated
    BY <1>1, <2>1 DEF Working, Treated
  <2>3. QED
    BY <1>4, <2>1, <2>2 DEF Queued, Treating, IsPending
<1>5. QED
  BY <1>3, <1>4 DEF QueuedOK

\* A message that is being sent, acknowledged, failed or moved is not settled, and
\* has its json if it is in the queue.
LEMMA AtWork ==
  ASSUME DeliveryInv, QueuedOK, NEW w \in Workers, NEW d \in Deliveries \ contended,
         Message(w) = d, worker[w].at \in Treated
  PROVE  /\ d \notin acked
         /\ d \in accepted => "json" \in files[d]
<1>1. d \in accepted => "json" \in files[d]
  BY DEF QueuedOK, Queued, Treating
<1>2. d \in acked => d \in accepted /\ "json" \notin files[d]
  BY DEF DeliveryInv, MessageOK, Alone, Finished
<1>3. QED
  BY <1>1, <1>2

LEMMA WorkerQueued ==
  ASSUME DeliveryInv, QueuedOK, NEW w \in Workers,
         \/ w \in Deliveries /\ (EnqueueDelivery(w) \/ SendAborted(w))
         \/ SendOk(w) \/ SendFails(w) \/ SendCancelled(w) \/ AckRenames(w) \/ AckUnlinks(w)
         \/ FailReads(w) \/ FailWrites(w) \/ MoveToFailed(w)
  PROVE  QueuedOK'
<1>1. /\ worker[w].at \in Treated \cup {"new", "unlink"}
      /\ contended' = contended /\ pending' = pending
  BY DEF EnqueueDelivery, SendAborted, SendOk, SendFails, SendCancelled, AckRenames, AckUnlinks, FailReads,
         FailWrites, MoveToFailed, Treated, deliveryHistory
<1>2. PICK d \in Deliveries : Message(w) = d
  BY <1>1, WorkingMessage DEF Treated
<1>3. /\ worker[w].at = "new" \/ Working(w)
      /\ w \in Deliveries => w = d
      /\ DeliveryTypes
  BY <1>1, <1>2, WorkingMessage DEF Treated, Working, DeliveryInv
<1>4. /\ Through(w) \in {"next", "done"}
      /\ \A x : AfterLast(w, x) \in {"done", "failRead", "ack"}
  BY AfterLastType DEF Through
<1>5. \/ \E to \in Places : MovesTo(w, to)
      \/ \E partial \in BOOLEAN : worker[w].at = "send" /\ GoesOn(w, partial)
      \/ \E n : worker' = [worker EXCEPT ![w].at = "failWrite", ![w].retries = n]
  <2>1. {"send", "done", "failRead", "move", "ack", "unlink", "next", Through(w)} \subseteq Places
    BY <1>4 DEF Places
  <2>2. worker[w].partial \in BOOLEAN
    BY <1>3 DEF DeliveryTypes
  <2>3. QED
    BY <2>1, <2>2 DEF EnqueueDelivery, SendAborted, SendOk, SendFails, SendCancelled, Throws, AckRenames,
       AckUnlinks, FailReads, FailWrites, MoveToFailed
<1>6. /\ \A v \in Workers : v # w => worker'[v] = worker[v]
      /\ worker'[w].message = worker[w].message
  <2>1. CASE \E to \in Places : MovesTo(w, to)
    BY <1>3, <2>1, MovesToFacts
  <2>2. CASE \E partial \in BOOLEAN : worker[w].at = "send" /\ GoesOn(w, partial)
    BY <1>3, <2>2, GoesOnFacts
  <2>3. CASE \E n : worker' = [worker EXCEPT ![w].at = "failWrite", ![w].retries = n]
    BY <1>3, <2>3 DEF DeliveryTypes
  <2>4. QED
    BY <1>5, <2>1, <2>2, <2>3
<1>7. \A c \in Deliveries : c # d => files'[c] = files[c] /\ (c \in accepted' => c \in accepted)
  <2>1. files \in [Deliveries -> SUBSET {"json", "delivered", "failed"}]
    BY <1>3 DEF DeliveryTypes
  <2>2. accepted' \subseteq accepted \cup {d}
    BY <1>2, <1>3 DEF EnqueueDelivery, SendAborted, SendOk, SendFails, SendCancelled, AckRenames, AckUnlinks,
       FailReads, FailWrites, MoveToFailed, deliveryHistory
  <2>3. files' = files \/ \E f : files' = [files EXCEPT ![d] = f]
    BY <1>2, <1>3 DEF EnqueueDelivery, SendAborted, SendOk, SendFails, SendCancelled, AckRenames, AckUnlinks,
       FailReads, FailWrites, MoveToFailed, Message
  <2>4. QED
    BY <2>1, <2>2, <2>3
<1>8. ASSUME d \in accepted' \ contended, worker'[w].at \in Treated
      PROVE  "json" \in files'[d]
  <2>1. files \in [Deliveries -> SUBSET {"json", "delivered", "failed"}]
    BY <1>3 DEF DeliveryTypes
  <2>2. CASE w \in Deliveries /\ EnqueueDelivery(w)
    <3>1. d \notin accepted /\ w = d
      BY <1>3, <2>2 DEF EnqueueDelivery, DeliveryInv, MessageOK
    <3>2. QED
      BY <1>8, <2>1, <2>2, <3>1 DEF EnqueueDelivery
  <2>3. CASE SendOk(w) \/ SendFails(w) \/ SendCancelled(w) \/ (w \in Deliveries /\ SendAborted(w))
    <3>1. worker[w].at = "send" /\ files' = files /\ accepted' = accepted
      BY <2>3 DEF SendOk, SendFails, SendCancelled, SendAborted, deliveryHistory
    <3>2. QED
      BY <1>2, <1>8, <3>1, AtWork DEF Treated
  <2>4. CASE AckRenames(w) \/ AckUnlinks(w) \/ FailReads(w) \/ FailWrites(w) \/ MoveToFailed(w)
    <3>1. accepted' = accepted /\ worker[w] \in [at : Places, message : Workers, payload : Payloads,
                                                 partial : BOOLEAN, retries : Nat]
      BY <1>3, <2>4 DEF AckRenames, AckUnlinks, FailReads, FailWrites, MoveToFailed, deliveryHistory,
         DeliveryTypes
    <3>2. (\E to \in {"unlink", "done", "next"} : MovesTo(w, to)) \/ files' = files
      BY <1>4, <2>4 DEF AckRenames, AckUnlinks, FailReads, FailWrites, MoveToFailed
    <3>3. \A to \in {"unlink", "done", "next"} : to \in Places /\ to \notin Treated
      BY DEF Places, Treated
    <3>4. files' = files
      BY <1>3, <1>8, <3>2, <3>3, MovesToFacts
    <3>5. CASE worker[w].at \in Treated
      BY <1>2, <1>8, <3>1, <3>4, <3>5, AtWork
    <3>6. CASE worker[w].at = "unlink"
      <4>1. MovesTo(w, Through(w))
        BY <2>4, <3>6 DEF AckRenames, AckUnlinks, FailReads, FailWrites, MoveToFailed
      <4>2. QED
        BY <1>3, <1>4, <1>8, <3>3, <4>1, MovesToFacts
    <3>7. QED
      BY <1>1, <2>4, <3>5, <3>6 DEF AckRenames, AckUnlinks, FailReads, FailWrites, MoveToFailed, Treated
  <2>5. QED
    BY <2>2, <2>3, <2>4
<1>9. QED
  BY <1>2, <1>3, <1>1, <1>6, <1>7, <1>8, SoleQueued

\* A message that has its json keeps it through the steps of the recovery.
LEMMA RecoveryQueued ==
  ASSUME DeliveryInv, QueuedOK, NEW r \in Recoveries,
         RecoveryLoads(r) \/ RecoveryTakes(r) \/ RecoveryEnds(r) \/ GatewayRestarts(r) \/ GatewayDies
  PROVE  QueuedOK'
<1>1. /\ DeliveryTypes /\ PendingOK /\ r \in Workers /\ "next" \in Places /\ "idle" \in Places
      /\ "load" \in Places
      /\ accepted' = accepted
  BY WorkerFacts DEF DeliveryInv, Places, RecoveryLoads, RecoveryTakes, RecoveryEnds, GatewayRestarts, GatewayDies,
     deliveryHistory
<1>2. CASE RecoveryLoads(r)
  <2>1. /\ files' = [d \in Deliveries |-> files[d] \ {"delivered"}]
        /\ contended \subseteq contended' /\ MovesTo(r, "next")
        /\ \A d : IsPending(d)' => IsPending(d) \/ (d \in Deliveries /\ "json" \in files[d])
    BY <1>2 DEF RecoveryLoads, Recoverable, IsPending
  <2>2. \A w \in Workers : worker'[w].at \in Treated => worker'[w] = worker[w]
    BY <1>1, <2>1, MovesToFacts DEF Treated
  <2>3. ASSUME NEW d \in Deliveries \ contended'
        PROVE  Queued(d)'
    <3>1. Queued(d)
      BY <2>1, <2>3 DEF QueuedOK
    <3>2. "json" \in files[d] => "json" \in files'[d]
      BY <2>1, <2>3
    <3>3. Treating(d)' => Treating(d) \/ "json" \in files[d]
      BY <2>1, <2>2 DEF Treating, Message
    <3>4. QED
      BY <1>1, <3>1, <3>2, <3>3 DEF Queued
  <2>4. QED
    BY <2>3 DEF QueuedOK
<1>3. CASE RecoveryTakes(r)
  <2>1. /\ files' = files /\ contended' = contended /\ pending' \subseteq pending
    BY <1>3 DEF RecoveryTakes, Takes, deliveryHistory
  <2>2. PICK e \in pending :
          \/ worker' = worker
          \/ \E at : worker' = [worker EXCEPT ![r] = Begins(at, e.message)]
    BY <1>3 DEF RecoveryTakes, Takes
  <2>3. \A w \in Workers : worker'[w] = worker[w] \/ Message(w)' = e.message
    BY <1>1, <2>2 DEF DeliveryTypes, Message, Begins
  <2>4. ASSUME NEW d \in Deliveries
        PROVE  Treating(d)' => Treating(d)
    <3>1. IsPending(d)' => IsPending(d)
      BY <2>1 DEF IsPending
    <3>2. \A w \in Workers : Message(w)' = d => (worker'[w] = worker[w] /\ Message(w) = d) \/ IsPending(d)
      BY <2>2, <2>3 DEF IsPending, Message
    <3>3. QED
      BY <3>1, <3>2 DEF Treating
  <2>5. QED
    BY <1>1, <2>1, <2>4 DEF QueuedOK, Queued
<1>4. CASE RecoveryEnds(r) \/ GatewayRestarts(r) \/ GatewayDies
  <2>1. files' = files /\ contended' = contended /\ pending' \subseteq pending
    BY <1>4 DEF RecoveryEnds, GatewayRestarts, GatewayDies, deliveryHistory
  <2>2. \A w \in Workers : worker'[w] = worker[w] \/ worker'[w].at \in {"load", "dead", "idle"}
    <3>1. CASE RecoveryEnds(r) \/ GatewayRestarts(r)
      BY <1>1, <3>1, MovesToFacts DEF RecoveryEnds, GatewayRestarts
    <3>2. CASE GatewayDies
      BY <1>1, <3>2, WorkerFacts DEF GatewayDies, DeliveryTypes
    <3>3. QED
      BY <1>4, <3>1, <3>2
  <2>3. \A d : Treating(d)' => Treating(d)
    BY <2>1, <2>2 DEF Treating, IsPending, Message, Treated
  <2>4. QED
    BY <1>1, <2>1, <2>3 DEF QueuedOK, Queued
<1>5. QED
  BY <1>2, <1>3, <1>4

LEMMA FiledKept ==
  ASSUME DeliveryTypes, Filed, DeliveryStep
  PROVE  Filed'
<1>1. files \in [Deliveries -> SUBSET {"json", "delivered", "failed"}] /\ accepted \subseteq Deliveries
  BY DEF DeliveryTypes
<1>2. ASSUME accepted' = accepted, acked \subseteq acked',
             \A d \in Deliveries \ acked' : files[d] \ {"delivered"} \subseteq files'[d]
      PROVE  Filed'
  BY <1>1, <1>2 DEF Filed
<1>3. ASSUME NEW d \in Deliveries, EnqueueDelivery(d)
      PROVE  Filed'
  BY <1>1, <1>3 DEF EnqueueDelivery, Filed
<1>4. ASSUME NEW w \in Workers, MoveToFailed(w)
      PROVE  Filed'
  <2>1. accepted' = accepted /\ acked' = acked
    BY <1>4 DEF MoveToFailed
  <2>2. \A d \in Deliveries : files'[d] = files[d] \/ "failed" \in files'[d]
    BY <1>1, <1>4 DEF MoveToFailed
  <2>3. QED
    BY <1>1, <2>1, <2>2 DEF Filed
<1>5. ASSUME NEW w \in Workers, AckRenames(w)
      PROVE  Filed'
  <2>1. accepted' = accepted /\ acked \subseteq acked'
    BY <1>5 DEF AckRenames
  <2>2. \A d \in Deliveries \ acked' : files[d] \ {"delivered"} \subseteq files'[d]
    BY <1>1, <1>5 DEF AckRenames
  <2>3. QED
    BY <1>2, <2>1, <2>2
<1>6. ASSUME NEW w \in Workers, AckUnlinks(w) \/ FailReads(w) \/ FailWrites(w) \/ SendOk(w) \/ SendFails(w) \/ SendCancelled(w)
      PROVE  Filed'
  <2>1. accepted' = accepted /\ acked' = acked
    BY <1>6 DEF AckUnlinks, FailReads, FailWrites, SendOk, SendFails, SendCancelled, deliveryHistory
  <2>2. \A d \in Deliveries : files[d] \ {"delivered"} \subseteq files'[d]
    BY <1>1, <1>6 DEF AckUnlinks, FailReads, FailWrites, SendOk, SendFails, SendCancelled
  <2>3. QED
    BY <1>2, <2>1, <2>2
<1>7. ASSUME NEW d \in Deliveries, SendAborted(d)
      PROVE  Filed'
  BY <1>2, <1>7 DEF SendAborted
<1>8. ASSUME \/ \E r \in Recoveries :
                  RecoveryLoads(r) \/ RecoveryTakes(r) \/ RecoveryEnds(r) \/ GatewayRestarts(r)
             \/ GatewayDies
      PROVE  Filed'
  <2>1. accepted' = accepted /\ acked' = acked
    BY <1>8 DEF RecoveryLoads, RecoveryTakes, RecoveryEnds, GatewayRestarts, GatewayDies, deliveryHistory
  <2>2. \A d \in Deliveries : files[d] \ {"delivered"} \subseteq files'[d]
    BY <1>1, <1>8 DEF RecoveryLoads, RecoveryTakes, RecoveryEnds, GatewayRestarts, GatewayDies
  <2>3. QED
    BY <1>2, <2>1, <2>2
<1>9. QED
  BY <1>3, <1>4, <1>5, <1>6, <1>7, <1>8 DEF DeliveryStep

LEMMA PromiseInvKept ==
  ASSUME PromiseInv, [DeliveryNext]_deliveryVars
  PROVE  PromiseInv'
<1>1. DeliveryInv' /\ FilesOK'
  BY DeliveryStepKept, FilesStepKept DEF PromiseInv
<1>2. CASE UNCHANGED deliveryVars
  BY <1>1, <1>2 DEF PromiseInv, deliveryVars, QueuedOK, Queued, Treating, IsPending, Message, Filed
<1>3. CASE DeliveryStep
  <2>1. DeliveryInv /\ QueuedOK /\ Filed /\ DeliveryTypes
    BY DEF PromiseInv, DeliveryInv
  <2>2. ASSUME NEW d \in Deliveries, EnqueueDelivery(d) \/ SendAborted(d)
        PROVE  QueuedOK'
    BY <2>1, <2>2, WorkerFacts, WorkerQueued
  <2>3. ASSUME NEW w \in Workers,
               \/ SendOk(w) \/ SendFails(w) \/ SendCancelled(w) \/ AckRenames(w) \/ AckUnlinks(w)
               \/ FailReads(w) \/ FailWrites(w) \/ MoveToFailed(w)
        PROVE  QueuedOK'
    BY <2>1, <2>3, WorkerQueued
  <2>4. QueuedOK'
    BY <1>3, <2>1, <2>2, <2>3, RecoveryQueued, WorkerFacts DEF DeliveryStep
  <2>5. Filed'
    BY <1>3, <2>1, FiledKept
  <2>6. QED
    BY <1>1, <2>4, <2>5 DEF PromiseInv
<1>4. QED
  BY <1>2, <1>3 DEF DeliveryNext

outbox == <<[d \in Deliveries |-> Status(d)], sent, excused>>

\* Where a message is, by its parts.
LEMMA StatusOf ==
  ASSUME PromiseInv, NEW d \in Deliveries \ contended
  PROVE  /\ d \in acked => Status(d) = "settled"
         /\ d \notin acked /\ d \notin accepted => Status(d) = "new"
         /\ d \notin acked /\ "json" \in files[d] => Status(d) = "queued"
         /\ d \in accepted \ acked /\ "json" \notin files[d] => Status(d) = "parked"
<1>1. /\ d \notin accepted => "json" \notin files[d] /\ d \notin acked
      /\ d \in accepted \ acked => files[d] \cap {"json", "failed"} # {}
  BY DEF PromiseInv, DeliveryInv, MessageOK, Filed
<1>2. QED
  BY <1>1 DEF Status

\* A step that changes no file, or only markers, moves no message.
LEMMA StatusSame ==
  ASSUME UNCHANGED <<accepted, acked, contended>>,
         \A d \in Deliveries \ contended :
           ("json" \in files'[d] <=> "json" \in files[d]) /\ ("failed" \in files'[d] <=> "failed" \in files[d])
  PROVE  [d \in Deliveries |-> Status(d)]' = [d \in Deliveries |-> Status(d)]
<1>1. ASSUME NEW d \in Deliveries
      PROVE  Status(d)' = Status(d)
  <2>1. CASE d \in contended
    BY <2>1 DEF Status
  <2>2. CASE d \notin contended
    BY <2>2 DEF Status
  <2>3. QED
    BY <2>1, <2>2
<1>2. QED
  BY <1>1

\* One message turns and the others stay.
LEMMA Turned ==
  ASSUME NEW d \in Deliveries, NEW s, Status(d)' = s,
         \A c \in Deliveries : c # d => Status(c)' = Status(c)
  PROVE  [c \in Deliveries |-> Status(c)]' = [[c \in Deliveries |-> Status(c)] EXCEPT ![d] = s]
OBVIOUS

LEMMA EnqueueAccepts ==
  ASSUME PromiseInv, PromiseInv', NEW d \in Deliveries, EnqueueDelivery(d)
  PROVE  Promise!Accept(d) \/ UNCHANGED outbox
<1>1. /\ DeliveryTypes /\ worker[d].at = "new" /\ d \notin accepted /\ d \notin acked
      /\ UNCHANGED <<sent, acked, excused, contended>>
  BY DEF PromiseInv, DeliveryInv, MessageOK, EnqueueDelivery
<1>2. CASE files' = [files EXCEPT ![d] = {"json"}] /\ accepted' = accepted \cup {d}
  <2>1. \A c \in Deliveries : c # d => Status(c)' = Status(c)
    BY <1>1, <1>2 DEF Status, DeliveryTypes
  <2>2. CASE d \in contended
    BY <1>1, <2>1, <2>2, Turned DEF Status, outbox
  <2>3. CASE d \notin contended
    <3>1. Status(d) = "new" /\ Status(d)' = "queued"
      BY <1>1, <1>2, <2>3 DEF Status, DeliveryTypes
    <3>2. QED
      BY <1>1, <2>1, <3>1, Turned DEF Promise!Accept, Promise!Turns
  <2>4. QED
    BY <2>2, <2>3
<1>3. CASE UNCHANGED <<files, accepted>>
  BY <1>1, <1>3, StatusSame DEF outbox
<1>4. QED
  BY <1>2, <1>3 DEF EnqueueDelivery

\* A message that a worker sends may be sent.
LEMMA SendingStatus ==
  ASSUME PromiseInv, NEW w \in Workers, NEW d \in Deliveries, Message(w) = d, worker[w].at = "send"
  PROVE  Status(d) \in {"new", "queued", "contended"}
<1>1. CASE d \in contended
  BY <1>1 DEF Status
<1>2. CASE d \notin contended
  <2>1. d \notin acked /\ (d \in accepted => "json" \in files[d])
    BY <1>2, AtWork DEF PromiseInv, Treated
  <2>2. QED
    BY <1>2, <2>1, StatusOf
<1>3. QED
  BY <1>1, <1>2

LEMMA SendOkSends ==
  ASSUME PromiseInv, NEW w \in Workers, SendOk(w)
  PROVE  \E d \in Deliveries : \E p \in Payloads : Promise!Send(d, p)
<1>1. DeliveryInv /\ DeliveryTypes /\ worker[w].at = "send" /\ worker[w].payload \in Payloads
  BY DEF PromiseInv, DeliveryInv, DeliveryTypes, SendOk
<1>2. PICK d \in Deliveries : Message(w) = d
  BY <1>1, WorkingMessage
<1>3. PICK p \in Payloads : p = worker[w].payload
  BY <1>1
<1>4. sent' = [sent EXCEPT ![d][p] = @ + 1]
  BY <1>2, <1>3 DEF SendOk
<1>5. [c \in Deliveries |-> Status(c)]' = [c \in Deliveries |-> Status(c)]
  BY StatusSame DEF SendOk, deliveryHistory
<1>6. Status(d) \in {"new", "queued", "contended"}
  BY <1>1, <1>2, SendingStatus
<1>7. Promise!Send(d, p)
  BY <1>4, <1>5, <1>6 DEF Promise!Send, SendOk, deliveryHistory
<1>8. QED
  BY <1>7

LEMMA SendFailsWaives ==
  ASSUME PromiseInv, NEW w \in Workers,
         SendFails(w) \/ SendCancelled(w) \/ (w \in Deliveries /\ SendAborted(w))
  PROVE  (\E d \in Deliveries : Promise!Waive(d)) \/ UNCHANGED outbox
<1>1. /\ DeliveryInv /\ worker[w].at = "send"
      /\ UNCHANGED <<files, sent, accepted, acked, contended>>
  BY DEF PromiseInv, SendFails, SendCancelled, SendAborted
<1>2. PICK d \in Deliveries : Message(w) = d
  BY <1>1, WorkingMessage
<1>3. w \in Deliveries => w = d
  BY <1>1, <1>2, WorkerFacts DEF DeliveryInv, WorkerOK
<1>4. excused' = excused \/ excused' = excused \cup {d}
  BY <1>2, <1>3 DEF SendFails, SendCancelled, SendAborted
<1>5. [c \in Deliveries |-> Status(c)]' = [c \in Deliveries |-> Status(c)]
  BY <1>1, StatusSame
<1>6. Status(d) \in {"new", "queued", "contended"}
  BY <1>1, <1>2, SendingStatus
<1>7. QED
  BY <1>1, <1>4, <1>5, <1>6 DEF Promise!Waive, outbox

LEMMA AckRenamesSettles ==
  ASSUME PromiseInv, NEW w \in Workers, AckRenames(w)
  PROVE  (\E d \in Deliveries : Promise!Settle(d)) \/ UNCHANGED outbox
<1>1. /\ DeliveryInv /\ DeliveryTypes /\ worker[w].at = "ack"
      /\ UNCHANGED <<sent, accepted, excused, contended>>
  BY DEF PromiseInv, DeliveryInv, AckRenames
<1>2. PICK d \in Deliveries : Message(w) = d
  BY <1>1, WorkingMessage
<1>3. CASE /\ "json" \in files[d] /\ files' = [files EXCEPT ![d] = Marked(@)]
           /\ acked' = acked \cup {d}
  <2>1. \A c \in Deliveries : c # d => Status(c)' = Status(c)
    BY <1>1, <1>3 DEF Status, DeliveryTypes
  <2>2. CASE d \in contended
    <3>1. Status(d)' = Status(d)
      BY <1>1, <2>2 DEF Status
    <3>2. [c \in Deliveries |-> Status(c)]' = [c \in Deliveries |-> Status(c)]
      BY <2>1, <3>1
    <3>3. QED
      BY <1>1, <3>2 DEF outbox
  <2>3. CASE d \notin contended
    <3>1. Status(d) = "queued"
      BY <1>1, <1>2, <1>3, <2>3, AtWork, StatusOf DEF PromiseInv, Treated
    <3>2. Status(d)' = "settled"
      BY <1>1, <1>3, <2>3 DEF Status
    <3>3. d \in excused \/ \A p \in Payloads : sent[d][p] > 0
      BY <1>1, <1>2 DEF DeliveryInv, WorkerOK
    <3>4. QED
      BY <1>1, <2>1, <3>1, <3>2, <3>3, Turned DEF Promise!Settle, Promise!Turns
  <2>4. QED
    BY <2>2, <2>3
<1>4. CASE acked' = acked /\ (files' = files \/ files' = [files EXCEPT ![d] = @ \ {"delivered"}])
  <2>1. \A c \in Deliveries : /\ "json" \in files'[c] <=> "json" \in files[c]
                              /\ "failed" \in files'[c] <=> "failed" \in files[c]
    BY <1>1, <1>4 DEF DeliveryTypes
  <2>2. QED
    BY <1>1, <1>4, <2>1, StatusSame DEF outbox
<1>5. QED
  BY <1>2, <1>3, <1>4 DEF AckRenames

LEMMA MoveToFailedParks ==
  ASSUME PromiseInv, NEW w \in Workers, MoveToFailed(w)
  PROVE  (\E d \in Deliveries : Promise!Park(d)) \/ UNCHANGED outbox
<1>1. /\ DeliveryInv /\ DeliveryTypes /\ FilesOK /\ worker[w].at = "move"
      /\ UNCHANGED <<sent, accepted, acked, excused, contended>>
  BY DEF PromiseInv, DeliveryInv, MoveToFailed
<1>2. PICK d \in Deliveries : Message(w) = d
  BY <1>1, WorkingMessage
<1>3. CASE files' = files
  BY <1>1, <1>3, StatusSame DEF outbox
<1>4. CASE /\ d \notin contended
           /\ files' = [files EXCEPT ![d] = IF "json" \in @ THEN (@ \ {"json"}) \cup {"failed"} ELSE @]
  <2>1. d \notin acked /\ d \in accepted /\ "json" \in files[d]
    BY <1>1, <1>2, <1>4, AtWork DEF PromiseInv, Treated, DeliveryInv, WorkerOK
  <2>2. Status(d) = "queued"
    BY <1>4, <2>1, StatusOf
  <2>3. Status(d)' = "parked"
    BY <1>1, <1>4, <2>1 DEF Status, DeliveryTypes
  <2>4. \A c \in Deliveries : c # d => Status(c)' = Status(c)
    BY <1>1, <1>4 DEF Status, DeliveryTypes
  <2>5. QED
    BY <1>1, <2>2, <2>3, <2>4, Turned DEF Promise!Park, Promise!Turns
<1>5. CASE /\ d \in contended
           /\ files' = [files EXCEPT ![d] = IF "json" \in @ THEN (@ \ {"json"}) \cup {"failed"} ELSE @]
  BY <1>1, <1>5, StatusSame DEF outbox, DeliveryTypes
<1>6. QED
  BY <1>2, <1>3, <1>4, <1>5 DEF MoveToFailed

\* The other steps of a worker rewrite the json or unlink the marker.
LEMMA RewriteStays ==
  ASSUME PromiseInv, NEW w \in Workers, AckUnlinks(w) \/ FailReads(w) \/ FailWrites(w)
  PROVE  UNCHANGED outbox
<1>1. /\ DeliveryInv /\ DeliveryTypes /\ FilesOK
      /\ worker[w].at \in {"unlink", "failRead", "failWrite"}
      /\ UNCHANGED <<sent, accepted, acked, excused, contended>>
  BY DEF PromiseInv, DeliveryInv, AckUnlinks, FailReads, FailWrites, deliveryHistory
<1>2. PICK d \in Deliveries : Message(w) = d
  BY <1>1, WorkingMessage
<1>3. CASE files' = files \/ files' = [files EXCEPT ![d] = @ \ {"delivered"}]
  BY <1>1, <1>3, StatusSame DEF outbox, DeliveryTypes
<1>4. CASE FailWrites(w) /\ files' = [files EXCEPT ![d] = @ \cup {"json"}]
  <2>1. d \notin contended => "json" \in files[d]
    BY <1>1, <1>2, <1>4 DEF FailWrites, FilesOK, OneFile
  <2>2. QED
    BY <1>1, <1>4, <2>1, StatusSame DEF outbox, DeliveryTypes
<1>5. QED
  BY <1>2, <1>3, <1>4 DEF AckUnlinks, FailReads, FailWrites

LEMMA RecoveryLoadsContends ==
  ASSUME PromiseInv, NEW r \in Recoveries, RecoveryLoads(r)
  PROVE  Promise!Contend(contended' \ contended)
<1>1. /\ DeliveryInv /\ DeliveryTypes
      /\ UNCHANGED <<sent, accepted, acked, excused>>
      /\ files' = [d \in Deliveries |-> files[d] \ {"delivered"}]
      /\ contended \subseteq contended'
      /\ \A d \in contended' \ contended : d \in Deliveries /\ "json" \in files[d]
  BY DEF PromiseInv, DeliveryInv, RecoveryLoads, Recoverable
<1>2. ASSUME NEW d \in contended' \ contended
      PROVE  d \in Deliveries /\ Status(d) = "queued"
  <2>1. d \notin acked
    BY <1>1, <1>2 DEF DeliveryInv, MessageOK, Alone, Finished
  <2>2. QED
    BY <1>1, <1>2, <2>1, StatusOf
<1>3. ASSUME NEW d \in Deliveries
      PROVE  Status(d)' = IF d \in contended' \ contended THEN "contended" ELSE Status(d)
  <2>1. CASE d \in contended'
    BY <1>1, <2>1 DEF Status
  <2>2. CASE d \notin contended'
    BY <1>1, <2>2 DEF Status
  <2>3. QED
    BY <2>1, <2>2
<1>4. QED
  BY <1>1, <1>2, <1>3 DEF Promise!Contend

\* Every step of the queue is one of the outbox, or none.
LEMMA PromiseStep ==
  ASSUME PromiseInv, PromiseInv', [DeliveryNext]_deliveryVars
  PROVE  Promise!Next \/ UNCHANGED outbox
<1>1. ASSUME UNCHANGED <<files, sent, accepted, acked, excused, contended>>
      PROVE  UNCHANGED outbox
  BY <1>1, StatusSame DEF outbox
<1>2. ASSUME NEW d \in Deliveries, EnqueueDelivery(d)
      PROVE  Promise!Next \/ UNCHANGED outbox
  BY <1>2, EnqueueAccepts DEF Promise!Next
<1>3. ASSUME NEW w \in Workers, SendOk(w)
      PROVE  Promise!Next
  BY <1>3, SendOkSends DEF Promise!Next
<1>4. ASSUME NEW w \in Workers, SendFails(w) \/ SendCancelled(w) \/ (w \in Deliveries /\ SendAborted(w))
      PROVE  Promise!Next \/ UNCHANGED outbox
  BY <1>4, SendFailsWaives DEF Promise!Next
<1>5. ASSUME NEW w \in Workers, AckRenames(w)
      PROVE  Promise!Next \/ UNCHANGED outbox
  BY <1>5, AckRenamesSettles DEF Promise!Next
<1>6. ASSUME NEW w \in Workers, MoveToFailed(w)
      PROVE  Promise!Next \/ UNCHANGED outbox
  BY <1>6, MoveToFailedParks DEF Promise!Next
<1>7. ASSUME NEW w \in Workers, AckUnlinks(w) \/ FailReads(w) \/ FailWrites(w)
      PROVE  UNCHANGED outbox
  BY <1>7, RewriteStays
<1>8. ASSUME NEW r \in Recoveries, RecoveryLoads(r)
      PROVE  Promise!Next
  <2>1. contended' \ contended \in SUBSET Deliveries
    BY <1>8 DEF RecoveryLoads
  <2>2. QED
    BY <1>8, <2>1, RecoveryLoadsContends DEF Promise!Next
<1>9. ASSUME \/ \E r \in Recoveries : RecoveryTakes(r) \/ RecoveryEnds(r) \/ GatewayRestarts(r)
             \/ GatewayDies
      PROVE  UNCHANGED outbox
  BY <1>1, <1>9 DEF RecoveryTakes, RecoveryEnds, GatewayRestarts, GatewayDies, deliveryHistory
<1>10. CASE UNCHANGED deliveryVars
  BY <1>1, <1>10 DEF deliveryVars
<1>11. QED
  BY <1>2, <1>3, <1>4, <1>5, <1>6, <1>7, <1>8, <1>9, <1>10, WorkerFacts DEF DeliveryNext, DeliveryStep

\* For any number of messages and payloads, crashes, failing files and limits of
\* retries the queue refines Outbox: what was written ahead is settled only when
\* the channel took all of it or its sender waived that, or is parked in failed/,
\* and is not sent after either (delivery-queue.ts 132-215, 256-366, deliver.ts
\* 465-510).
THEOREM QueueImplementsOutbox == DeliverySpec => ImplementsOutbox
<1>1. DeliveryInit => PromiseInv
  <2> SUFFICES ASSUME DeliveryInit PROVE PromiseInv
    OBVIOUS
  <2>1. DeliveryInv /\ FilesOK
    BY DeliveryInitInv, DeliveryInitFiles
  <2>2. accepted = {}
    BY DEF DeliveryInit
  <2>3. QED
    BY <2>1, <2>2 DEF PromiseInv, QueuedOK, Queued, Filed
<1>2. DeliveryInit => Promise!Init
  BY DEF DeliveryInit, Promise!Init, Status
<1>3. PromiseInv /\ [DeliveryNext]_deliveryVars => PromiseInv'
  BY PromiseInvKept
<1>4. PromiseInv /\ PromiseInv' /\ [DeliveryNext]_deliveryVars => [Promise!Next]_outbox
  BY PromiseStep
<1>5. QED
  BY <1>1, <1>2, <1>3, <1>4, PTL DEF DeliverySpec, ImplementsOutbox, Promise!Spec, outbox
=============================================================================
