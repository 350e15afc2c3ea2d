---- MODULE ResourceStoreProofs ----
(***************************************************************************)
(* Updates arrive once and in order, and a call that returned was          *)
(* delivered, for any number of threads, subscriptions, documents and      *)
(* changes: by the invariant that the job being drained and the queue      *)
(* behind it hold the updates not yet done, without a gap, and that a job  *)
(* is still owed to exactly the open subscriptions that have not seen it.  *)
(***************************************************************************)
EXTENDS ResourceStore, TLAPS

\* Type: the part of the state that reading and writing the file changes.
FileTyped ==
    /\ disk \in Contents /\ cache \in Contents /\ changes \in 0..MaxChanges
    /\ mutator \in Threads \cup {Nobody}

\* Type: the part of the state that publication and subscriptions change.
PublicationTyped ==
    /\ drainer \in Threads \cup {Nobody}
    /\ queue \in Seq(Jobs) /\ job \in Jobs \cup {NoJob}
    /\ inside \in Subscribers \cup {NoSubscriber}
    /\ slot \in [Subscribers -> {"new", "open", "closing", "closed", "self_closed"}]
    /\ caller \in [Threads -> [at : {"idle", "waiting", "draining"}, update : Nat]]
    /\ published \in Nat /\ delivered \in 0..published
    /\ seen \in [Subscribers -> 0..published]
    /\ replay \in [Subscribers -> Contents]

\* The last update that was taken off the queue.
Taken == IF job = NoJob THEN delivered ELSE job.update

\* What is queued follows what is being delivered, and that follows what is done.
JobsInOrder ==
    /\ job # NoJob => job.update = delivered + 1
    /\ \A n \in 1..Len(queue) : queue[n].update = Taken + n
    /\ published = Taken + Len(queue)

\* A job is owed to exactly the open subscriptions that have not seen it, and to no
\* subscription that is still to come.
Owed(j, s) ==
    /\ slot[s] = "open" => (s \in j.slots <=> seen[s] < j.update)
    /\ slot[s] = "new" => s \notin j.slots
JobsOwed ==
    \A s \in Subscribers :
        /\ slot[s] = "open" => seen[s] >= delivered
        /\ job # NoJob => Owed(job, s)
        /\ \A n \in 1..Len(queue) : Owed(queue[n], s)

\* Nobody is outside while his own update is under way.
CallersServed ==
    \A t \in Threads : /\ caller[t].update <= published
                       /\ caller[t].at = "idle" => caller[t].update <= delivered

\* A callback runs for the job being drained, and its subscriber has seen that.
CallbackOfJob ==
    \A s \in Subscribers : inside = s =>
        /\ job # NoJob
        /\ slot[s] \in {"open", "closing", "self_closed"}
        /\ slot[s] = "open" => seen[s] >= job.update

PublicationSound == PublicationTyped /\ JobsInOrder /\ JobsOwed /\ CallersServed /\ CallbackOfJob
StoreInv == FileTyped /\ PublicationSound

-----------------------------------------------------------------------------
(* The facts about sequences that the steps rest on *)

LEMMA Appended ==
    ASSUME NEW S, NEW q \in Seq(S), NEW e \in S
    PROVE  /\ Append(q, e) \in Seq(S)
           /\ Len(Append(q, e)) = Len(q) + 1
           /\ \A n \in 1..Len(q) : Append(q, e)[n] = q[n]
           /\ Append(q, e)[Len(q) + 1] = e
  OBVIOUS

LEMMA Removed ==
    ASSUME NEW S, NEW q \in Seq(S), q # <<>>
    PROVE  /\ Len(q) \in Nat \ {0}
           /\ Head(q) \in S /\ Head(q) = q[1]
           /\ Tail(q) \in Seq(S)
           /\ Len(Tail(q)) = Len(q) - 1
           /\ \A n \in 1..Len(Tail(q)) : Tail(q)[n] = q[n + 1]
  OBVIOUS

-----------------------------------------------------------------------------
(* Publication: the new job is owed to all that are open. *)

LEMMA PublishSound ==
    ASSUME PublicationSound, NEW t \in Threads, NEW doc \in Contents,
           Publish(t, doc), UNCHANGED <<draining, slot>>
    PROVE  PublicationSound'
  <1> USE DEF draining
  <1> DEFINE new == [update |-> published + 1, doc |-> doc,
                     slots |-> {s \in Subscribers : slot[s] = "open"}]
  <1>a. PublicationTyped
    BY DEF PublicationSound
  <1>b. new \in Jobs
    <2>1. published + 1 \in Nat
      BY <1>a DEF PublicationTyped
    <2>2. QED
      BY <2>1 DEF Jobs
  <1>c. new.update = published + 1 /\ new.slots = {s \in Subscribers : slot[s] = "open"}
    OBVIOUS
  <1>d. queue' = Append(queue, new) /\ published' = published + 1
    BY DEF Publish
  <1>e. \/ drainer' = t /\ caller' = [caller EXCEPT ![t] = [at |-> "draining", update |-> published + 1]]
        \/ UNCHANGED <<drainer, caller>>
        \/ caller' = [caller EXCEPT ![t] = [at |-> "waiting", update |-> published + 1]] /\ drainer' = drainer
    BY DEF Publish
  <1>1. /\ new \in Jobs
        /\ queue' = Append(queue, new) /\ published' = published + 1
    BY <1>b, <1>d
  <1> HIDE DEF new
  <1>2. /\ queue' \in Seq(Jobs) /\ Len(queue') = Len(queue) + 1 /\ Len(queue) \in Nat
        /\ \A n \in 1..Len(queue) : queue'[n] = queue[n]
        /\ queue'[Len(queue) + 1] = new
    <2>1. queue \in Seq(Jobs) /\ Len(queue) \in Nat
      BY <1>a DEF PublicationTyped
    <2>2. QED
      BY <1>1, <2>1, Appended
  <1>3. PublicationTyped'
    <2>1. drainer' \in Threads \cup {Nobody}
      BY <1>a, <1>e DEF PublicationTyped
    <2>2. caller' \in [Threads -> [at : {"idle", "waiting", "draining"}, update : Nat]]
      <3>1. published + 1 \in Nat
        BY <1>a DEF PublicationTyped
      <3>2. QED
        BY <1>a, <1>e, <3>1 DEF PublicationTyped
    <2>3. published' \in Nat /\ delivered' \in 0..published' /\ seen' \in [Subscribers -> 0..published']
      <3>1. 0..published \subseteq 0..(published + 1) /\ published + 1 \in Nat
        BY <1>a DEF PublicationTyped
      <3>2. QED
        BY <1>1, <1>a, <3>1 DEF PublicationTyped
    <2>4. QED
      BY <1>2, <2>1, <2>2, <2>3 DEF PublicationSound, PublicationTyped
  <1>4. JobsInOrder'
    <2>1. Taken' = Taken /\ Taken \in Nat
      BY <1>a DEF Taken, PublicationTyped, Jobs
    <2>2. ASSUME NEW n \in 1..Len(queue')
          PROVE  queue'[n].update = Taken' + n
      <3>1. CASE n \in 1..Len(queue)
        BY <1>2, <2>1, <3>1 DEF PublicationSound, JobsInOrder
      <3>2. CASE n = Len(queue) + 1
        BY <1>2, <1>c, <2>1, <3>2 DEF PublicationSound, JobsInOrder
      <3>3. QED
        BY <1>2, <3>1, <3>2
    <2>3. published' = Taken' + Len(queue')
      BY <1>1, <1>2, <2>1 DEF PublicationSound, JobsInOrder
    <2>4. QED
      BY <2>2, <2>3 DEF PublicationSound, JobsInOrder
  <1>5. JobsOwed'
    <2> SUFFICES ASSUME NEW s \in Subscribers
                 PROVE  /\ slot[s] = "open" => seen[s] >= delivered
                        /\ job # NoJob => Owed(job, s)'
                        /\ \A n \in 1..Len(queue') : Owed(queue'[n], s)
      BY DEF JobsOwed, Owed
    <2>1. Owed(new, s)
      <3>1. seen[s] \in 0..published /\ published \in Nat
        BY <1>a DEF PublicationTyped
      <3>2. QED
        BY <1>c, <3>1 DEF Owed
    <2>2. \A n \in 1..Len(queue') : Owed(queue'[n], s)
      BY <1>2, <2>1 DEF PublicationSound, JobsOwed
    <2>3. QED
      BY <2>2 DEF PublicationSound, JobsOwed, Owed
  <1>6. CallersServed'
    <2>1. ASSUME NEW u \in Threads
          PROVE  /\ caller'[u].update <= published'
                 /\ caller'[u].at = "idle" => caller'[u].update <= delivered'
      <3>1. caller'[u] = caller[u] \/ (caller'[u].update = published + 1 /\ caller'[u].at # "idle")
        BY <1>a, <1>e, <2>1 DEF PublicationTyped
      <3>2. caller[u] \in [at : {"idle", "waiting", "draining"}, update : Nat] /\ published \in Nat
        BY <2>1 DEF PublicationSound, PublicationTyped
      <3>3. QED
        BY <1>1, <2>1, <3>1, <3>2 DEF PublicationSound, CallersServed
    <2>2. QED
      BY <2>1 DEF CallersServed
  <1>7. CallbackOfJob'
    BY DEF PublicationSound, CallbackOfJob
  <1>8. QED
    BY <1>3, <1>4, <1>5, <1>6, <1>7 DEF PublicationSound

-----------------------------------------------------------------------------
(* Draining *)

LEMMA TakeJobSound ==
    ASSUME PublicationSound, NEW t \in Threads, TakeJob(t)
    PROVE  PublicationSound'
  <1>1. PublicationTyped /\ JobsInOrder /\ JobsOwed /\ CallersServed /\ CallbackOfJob
    BY DEF PublicationSound
  <1>2. /\ job = NoJob /\ queue # <<>> /\ job' = Head(queue) /\ queue' = Tail(queue)
        /\ UNCHANGED <<drainer, caller, published, inside, delivered, seen, replay, slot>>
    BY DEF TakeJob
  <1>3. queue \in Seq(Jobs)
    BY <1>1 DEF PublicationTyped
  <1>4. /\ Len(queue) \in Nat \ {0} /\ job' \in Jobs /\ job' = queue[1]
        /\ queue' \in Seq(Jobs) /\ Len(queue') = Len(queue) - 1
        /\ \A n \in 1..Len(queue') : queue'[n] = queue[n + 1]
    BY <1>2, <1>3, Removed
  <1>5. job' # NoJob
    BY <1>4, ResourceStoreAssumption
  <1>6. PublicationTyped'
    BY <1>1, <1>2, <1>4 DEF PublicationTyped
  <1>7. JobsInOrder'
    <2>1. Taken = delivered /\ delivered \in Nat
      BY <1>1, <1>2 DEF Taken, PublicationTyped
    <2>2. job'.update = delivered + 1 /\ Taken' = delivered + 1
      BY <1>1, <1>4, <1>5, <2>1 DEF JobsInOrder, Taken
    <2>3. ASSUME NEW n \in 1..Len(queue')
          PROVE  queue'[n].update = Taken' + n
      <3>1. queue'[n] = queue[n + 1] /\ n + 1 \in 1..Len(queue)
        BY <1>4
      <3>2. QED
        BY <1>1, <2>1, <2>2, <3>1 DEF JobsInOrder
    <2>4. published' = Taken' + Len(queue')
      BY <1>1, <1>2, <1>4, <2>1, <2>2 DEF JobsInOrder
    <2>5. QED
      BY <1>2, <2>2, <2>3, <2>4 DEF JobsInOrder
  <1>8. JobsOwed'
    <2> SUFFICES ASSUME NEW s \in Subscribers
                 PROVE  /\ slot[s] = "open" => seen[s] >= delivered
                        /\ Owed(job', s)
                        /\ \A n \in 1..Len(queue') : Owed(queue'[n], s)
      BY <1>2 DEF JobsOwed, Owed
    <2>1. \A n \in 1..Len(queue) : Owed(queue[n], s)
      BY <1>1 DEF JobsOwed
    <2>2. \A n \in 1..Len(queue') : n + 1 \in 1..Len(queue)
      BY <1>4
    <2>3. QED
      BY <1>1, <1>4, <2>1, <2>2 DEF JobsOwed
  <1>9. CallersServed' /\ CallbackOfJob'
    BY <1>1, <1>2 DEF CallersServed, CallbackOfJob
  <1>10. QED
    BY <1>6, <1>7, <1>8, <1>9 DEF PublicationSound

LEMMA EnterCallbackSound ==
    ASSUME PublicationSound, NEW t \in Threads, NEW s \in Subscribers, EnterCallback(t, s)
    PROVE  PublicationSound'
  <1>1. PublicationTyped /\ JobsInOrder /\ JobsOwed /\ CallersServed /\ CallbackOfJob
    BY DEF PublicationSound
  <1>2. /\ job # NoJob /\ inside = NoSubscriber /\ s \in job.slots
        /\ job' = [job EXCEPT !.slots = job.slots \ {s}]
        /\ UNCHANGED <<queue, drainer, caller, published, delivered, slot>>
    BY DEF EnterCallback, publication
  <1>3. \/ /\ slot[s] = "open" /\ inside' = s
           /\ seen' = [seen EXCEPT ![s] = job.update] /\ replay' = [replay EXCEPT ![s] = job.doc]
        \/ slot[s] # "open" /\ UNCHANGED <<inside, seen, replay>>
    BY DEF EnterCallback
  <1>4. job \in Jobs /\ job.update \in Nat /\ job.doc \in Contents
    BY <1>1, <1>2 DEF PublicationTyped, Jobs
  <1>5. /\ job' \in Jobs /\ job'.update = job.update /\ job'.slots = job.slots \ {s}
    BY <1>2, <1>4 DEF Jobs
  <1>6. job' # NoJob
    BY <1>5, ResourceStoreAssumption
  <1>7. job.update = delivered + 1 /\ delivered \in Nat /\ published \in Nat /\ Len(queue) \in Nat
    BY <1>1, <1>2 DEF JobsInOrder, PublicationTyped
  <1>8. Taken = job.update /\ Taken' = job.update
    BY <1>2, <1>5, <1>6 DEF Taken
  <1>9. job.update \in 0..published
    BY <1>1, <1>4, <1>7, <1>8 DEF JobsInOrder
  <1>10. PublicationTyped'
    BY <1>1, <1>2, <1>3, <1>4, <1>5, <1>9 DEF PublicationTyped
  <1>11. JobsInOrder'
    BY <1>1, <1>2, <1>5, <1>7, <1>8 DEF JobsInOrder
  <1>12. JobsOwed'
    <2> SUFFICES ASSUME NEW u \in Subscribers
                 PROVE  /\ slot[u] = "open" => seen'[u] >= delivered
                        /\ Owed(job, u)'
                        /\ \A n \in 1..Len(queue) : Owed(queue[n], u)'
      BY <1>2 DEF JobsOwed, Owed
    <2>1. /\ slot[u] = "open" => seen[u] >= delivered
          /\ Owed(job, u)
          /\ \A n \in 1..Len(queue) : Owed(queue[n], u)
      BY <1>1, <1>2 DEF JobsOwed
    <2>2. CASE seen'[u] = seen[u] /\ u # s
      BY <1>2, <1>5, <2>1, <2>2 DEF Owed
    <2>3. CASE u = s /\ slot[s] # "open"
      BY <1>2, <1>5, <2>1, <2>3 DEF Owed
    <2>4. CASE u = s /\ slot[s] = "open"
      <3>1. seen'[u] = job.update
        BY <1>1, <1>3, <2>4 DEF PublicationTyped
      <3>2. seen[u] < job.update
        BY <1>2, <2>1, <2>4 DEF Owed
      <3>3. ASSUME NEW n \in 1..Len(queue)
            PROVE  Owed(queue[n], u)'
        <4>1. queue[n].update = job.update + n
          BY <1>1, <1>8 DEF JobsInOrder
        <4>2. seen[u] \in Nat
          BY <1>1 DEF PublicationTyped
        <4>3. u \in queue[n].slots
          BY <1>4, <2>1, <2>4, <3>2, <4>1, <4>2 DEF Owed
        <4>4. QED
          BY <1>2, <1>4, <2>4, <3>1, <4>1, <4>3 DEF Owed
      <3>4. Owed(job, u)'
        BY <1>2, <1>4, <1>5, <2>4, <3>1 DEF Owed
      <3>5. QED
        BY <1>7, <3>1, <3>3, <3>4
    <2>5. u # s => seen'[u] = seen[u]
      BY <1>1, <1>3 DEF PublicationTyped
    <2>6. QED
      BY <2>2, <2>3, <2>4, <2>5
  <1>13. CallersServed'
    BY <1>1, <1>2 DEF CallersServed
  <1>14. CallbackOfJob'
    <2> SUFFICES ASSUME NEW u \in Subscribers, inside' = u
                 PROVE  /\ slot[u] \in {"open", "closing", "self_closed"}
                        /\ slot[u] = "open" => seen'[u] >= job.update
      BY <1>2, <1>5, <1>6 DEF CallbackOfJob
    <2>1. u = s /\ slot[s] = "open"
      BY <1>2, <1>3, ResourceStoreAssumption
    <2>2. seen'[u] = job.update
      BY <1>1, <1>3, <2>1 DEF PublicationTyped
    <2>3. QED
      BY <1>4, <2>1, <2>2
  <1>15. QED
    BY <1>10, <1>11, <1>12, <1>13, <1>14 DEF PublicationSound

LEMMA CallbackReturnsSound ==
    ASSUME PublicationSound, NEW t \in Threads, CallbackReturns(t)
    PROVE  PublicationSound'
  <1>1. PublicationTyped /\ JobsInOrder /\ JobsOwed /\ CallersServed
    BY DEF PublicationSound
  <1>2. /\ inside' = NoSubscriber
        /\ UNCHANGED <<queue, drainer, caller, published, job, delivered, seen, replay, slot>>
    BY DEF CallbackReturns, publication
  <1>3. PublicationTyped' /\ JobsInOrder' /\ JobsOwed' /\ CallersServed'
    BY <1>1, <1>2 DEF PublicationTyped, JobsInOrder, Taken, JobsOwed, Owed, CallersServed
  <1>4. CallbackOfJob'
    BY <1>2, ResourceStoreAssumption DEF CallbackOfJob
  <1>5. QED
    BY <1>3, <1>4 DEF PublicationSound

LEMMA JobDoneSound ==
    ASSUME PublicationSound, NEW t \in Threads, JobDone(t)
    PROVE  PublicationSound'
  <1>1. PublicationTyped /\ JobsInOrder /\ JobsOwed /\ CallersServed /\ CallbackOfJob
    BY DEF PublicationSound
  <1>2. /\ job # NoJob /\ inside = NoSubscriber /\ job.slots = {}
        /\ delivered' = job.update /\ job' = NoJob
        /\ UNCHANGED <<queue, drainer, caller, published, inside, seen, replay, slot>>
    BY DEF JobDone, publication
  <1>3. job.update = delivered + 1 /\ delivered \in Nat /\ published \in Nat /\ Len(queue) \in Nat
    BY <1>1, <1>2 DEF JobsInOrder, PublicationTyped
  <1>4. Taken = job.update /\ Taken' = job.update
    BY <1>2 DEF Taken
  <1>5. delivered' \in 0..published'
    BY <1>1, <1>2, <1>3, <1>4 DEF JobsInOrder
  <1>6. PublicationTyped'
    BY <1>1, <1>2, <1>5 DEF PublicationTyped
  <1>7. JobsInOrder'
    BY <1>1, <1>2, <1>4 DEF JobsInOrder
  <1>8. JobsOwed'
    <2> SUFFICES ASSUME NEW s \in Subscribers
                 PROVE  /\ slot[s] = "open" => seen[s] >= job.update
                        /\ \A n \in 1..Len(queue) : Owed(queue[n], s)
      BY <1>2 DEF JobsOwed, Owed
    <2>1. slot[s] = "open" => ~(seen[s] < job.update)
      BY <1>1, <1>2 DEF JobsOwed, Owed
    <2>2. seen[s] \in Nat
      BY <1>1 DEF PublicationTyped
    <2>3. QED
      BY <1>1, <1>3, <2>1, <2>2 DEF JobsOwed
  <1>9. CallersServed'
    <2>1. \A u \in Threads : caller[u].update \in Nat
      BY <1>1 DEF PublicationTyped
    <2>2. QED
      BY <1>1, <1>2, <1>3, <2>1 DEF CallersServed
  <1>10. CallbackOfJob'
    BY <1>2, ResourceStoreAssumption DEF CallbackOfJob
  <1>11. QED
    BY <1>6, <1>7, <1>8, <1>9, <1>10 DEF PublicationSound

LEMMA StopDrainingSound ==
    ASSUME PublicationSound, NEW t \in Threads, StopDraining(t)
    PROVE  PublicationSound'
  <1>1. PublicationTyped /\ JobsInOrder /\ JobsOwed /\ CallersServed /\ CallbackOfJob
    BY DEF PublicationSound
  <1>2. /\ job = NoJob /\ queue = <<>>
        /\ drainer' = Nobody /\ caller' = [caller EXCEPT ![t].at = "idle"]
        /\ UNCHANGED <<queue, published, job, inside, delivered, seen, replay, slot>>
    BY DEF StopDraining, draining
  <1>3. PublicationTyped'
    BY <1>1, <1>2 DEF PublicationTyped
  <1>4. JobsInOrder' /\ JobsOwed' /\ CallbackOfJob'
    BY <1>1, <1>2 DEF JobsInOrder, Taken, JobsOwed, Owed, CallbackOfJob
  <1>5. CallersServed'
    <2>1. published = delivered
      BY <1>1, <1>2 DEF JobsInOrder, Taken, PublicationTyped
    <2>2. \A u \in Threads : caller'[u].update = caller[u].update /\ caller[u].update \in Nat
      BY <1>1, <1>2 DEF PublicationTyped
    <2>3. QED
      BY <1>1, <1>2, <2>1, <2>2 DEF CallersServed
  <1>6. QED
    BY <1>3, <1>4, <1>5 DEF PublicationSound

LEMMA WaitEndsSound ==
    ASSUME PublicationSound, NEW t \in Threads, WaitEnds(t)
    PROVE  PublicationSound'
  <1>1. PublicationTyped /\ JobsInOrder /\ JobsOwed /\ CallersServed /\ CallbackOfJob
    BY DEF PublicationSound
  <1>2. /\ caller[t].update <= delivered /\ caller' = [caller EXCEPT ![t].at = "idle"]
        /\ UNCHANGED <<queue, drainer, published, job, inside, delivered, seen, replay, slot>>
    BY DEF WaitEnds, draining
  <1>3. PublicationTyped'
    BY <1>1, <1>2 DEF PublicationTyped
  <1>4. JobsInOrder' /\ JobsOwed' /\ CallbackOfJob'
    BY <1>1, <1>2 DEF JobsInOrder, Taken, JobsOwed, Owed, CallbackOfJob
  <1>5. CallersServed'
    <2>1. ASSUME NEW u \in Threads
          PROVE  /\ caller'[u].update = caller[u].update
                 /\ u # t => caller'[u] = caller[u]
      BY <1>1, <1>2, <2>1 DEF PublicationTyped
    <2>2. QED
      BY <1>1, <1>2, <2>1 DEF CallersServed
  <1>6. QED
    BY <1>3, <1>4, <1>5 DEF PublicationSound

-----------------------------------------------------------------------------
(* Subscriptions *)

LEMMA SubscribeSound ==
    ASSUME StoreInv, NEW s \in Subscribers, Subscribe(s)
    PROVE  PublicationSound'
  <1>1. /\ PublicationTyped /\ JobsInOrder /\ JobsOwed /\ CallersServed /\ CallbackOfJob
        /\ disk \in Contents
    BY DEF StoreInv, PublicationSound, FileTyped
  <1>2. /\ slot[s] = "new" /\ slot' = [slot EXCEPT ![s] = "open"]
        /\ seen' = [seen EXCEPT ![s] = published] /\ replay' = [replay EXCEPT ![s] = disk]
        /\ UNCHANGED <<queue, drainer, caller, published, job, inside, delivered>>
    BY DEF Subscribe, publication
  <1>3. PublicationTyped'
    <2>1. published \in 0..published
      BY <1>1 DEF PublicationTyped
    <2>2. QED
      BY <1>1, <1>2, <2>1 DEF PublicationTyped
  <1>4. JobsInOrder' /\ CallersServed'
    BY <1>1, <1>2 DEF JobsInOrder, Taken, CallersServed
  <1>5. /\ published \in Nat /\ delivered \in Nat /\ delivered <= published
        /\ Len(queue) \in Nat /\ Taken \in Nat
        /\ job # NoJob => job.update = Taken
    BY <1>1 DEF PublicationTyped, Taken, Jobs
  <1>6. JobsOwed'
    <2> SUFFICES ASSUME NEW u \in Subscribers
                 PROVE  /\ slot'[u] = "open" => seen'[u] >= delivered
                        /\ job # NoJob => Owed(job, u)'
                        /\ \A n \in 1..Len(queue) : Owed(queue[n], u)'
      BY <1>2 DEF JobsOwed, Owed
    <2>1. CASE u # s
      <3>1. slot'[u] = slot[u] /\ seen'[u] = seen[u]
        BY <1>1, <1>2, <2>1 DEF PublicationTyped
      <3>2. QED
        BY <1>1, <1>2, <3>1 DEF JobsOwed, Owed
    <2>2. CASE u = s
      <3>1. slot'[u] = "open" /\ seen'[u] = published
        BY <1>1, <1>2, <2>2 DEF PublicationTyped
      <3>2. ASSUME job # NoJob
            PROVE  Owed(job, u)'
        <4>1. ~(published < job.update)
          BY <1>1, <1>5, <3>2 DEF JobsInOrder
        <4>2. u \notin job.slots
          BY <1>1, <1>2, <2>2, <3>2 DEF JobsOwed, Owed
        <4>3. QED
          BY <1>2, <3>1, <4>1, <4>2 DEF Owed
      <3>3. ASSUME NEW n \in 1..Len(queue)
            PROVE  Owed(queue[n], u)'
        <4>1. ~(published < queue[n].update)
          BY <1>1, <1>5 DEF JobsInOrder
        <4>2. u \notin queue[n].slots
          BY <1>1, <1>2, <2>2 DEF JobsOwed, Owed
        <4>3. QED
          BY <1>2, <3>1, <4>1, <4>2 DEF Owed
      <3>4. QED
        BY <1>5, <3>1, <3>2, <3>3
    <2>3. QED
      BY <2>1, <2>2
  <1>7. CallbackOfJob'
    <2>1. inside # s
      BY <1>1, <1>2 DEF CallbackOfJob
    <2>2. \A u \in Subscribers : u # s => slot'[u] = slot[u] /\ seen'[u] = seen[u]
      BY <1>1, <1>2 DEF PublicationTyped
    <2>3. QED
      BY <1>1, <1>2, <2>1, <2>2 DEF CallbackOfJob
  <1>8. QED
    BY <1>3, <1>4, <1>6, <1>7 DEF PublicationSound

LEMMA UnsubscribeSound ==
    ASSUME PublicationSound, NEW s \in Subscribers,
           Reset(s) \/ ResetReturns(s) \/ ResetInCallback(s)
    PROVE  PublicationSound'
  <1>1. PublicationTyped /\ JobsInOrder /\ JobsOwed /\ CallersServed /\ CallbackOfJob
    BY DEF PublicationSound
  <1>2. UNCHANGED <<queue, drainer, caller, published, job, inside, delivered, seen, replay>>
    BY DEF Reset, ResetReturns, ResetInCallback, publication, draining
  <1>3. /\ slot' = [slot EXCEPT ![s] = slot'[s]]
        /\ slot'[s] \in {"closing", "closed", "self_closed"}
        /\ inside = s => slot'[s] # "closed"
    BY <1>1 DEF Reset, ResetReturns, ResetInCallback, PublicationTyped
  <1>4. PublicationTyped' /\ JobsInOrder' /\ CallersServed'
    BY <1>1, <1>2, <1>3 DEF PublicationTyped, JobsInOrder, Taken, CallersServed
  <1>5. \A u \in Subscribers : slot'[u] = slot[u] \/ (u = s /\ slot'[u] \notin {"open", "new"})
    BY <1>1, <1>3 DEF PublicationTyped
  <1>6. JobsOwed'
    BY <1>1, <1>2, <1>5 DEF JobsOwed, Owed
  <1>7. CallbackOfJob'
    BY <1>1, <1>2, <1>3, <1>5 DEF CallbackOfJob
  <1>8. QED
    BY <1>4, <1>6, <1>7 DEF PublicationSound

-----------------------------------------------------------------------------
(* The file *)

LEMMA FileStep ==
    ASSUME FileTyped, [Next]_vars
    PROVE  FileTyped'
  <1> USE ResourceStoreAssumption DEF Contents
  <1>1. CASE UNCHANGED vars
    BY <1>1 DEF vars, file, FileTyped
  <1>2. CASE External
    BY <1>2 DEF External, Change, FileTyped
  <1>3. ASSUME NEW t \in Threads,
               Pull(t) \/ CheckPatch(t) \/ Structural(t) \/ Refresh(t) \/ invalidate_and_publish(t)
        PROVE  FileTyped'
    BY <1>3
       DEF Pull, CheckPatch, Structural, Refresh, invalidate_and_publish, Change, file,
           FileTyped
  <1>4. ASSUME NEW t \in Threads, Continue(t)
        PROVE  FileTyped'
    <2>1. CASE Patching(t)
      BY <2>1 DEF Patching, WritePatch, WriteNotCommitted, Change, file, FileTyped
    <2>2. CASE Draining(t) \/ WaitEnds(t)
      BY <2>2
         DEF Draining, TakeJob, JobDone, StopDraining, CallbackReturns, EnterCallback, WaitEnds,
                  file, FileTyped
    <2>3. QED
      BY <1>4, <2>1, <2>2 DEF Continue
  <1>5. ASSUME NEW s \in Subscribers,
               Subscribe(s) \/ Reset(s) \/ ResetReturns(s) \/ ResetInCallback(s)
        PROVE  FileTyped'
    BY <1>5 DEF Subscribe, Reset, ResetReturns, ResetInCallback, file, FileTyped
  <1>6. QED
    BY <1>1, <1>2, <1>3, <1>4, <1>5 DEF Next

LEMMA QuietSound ==
    ASSUME PublicationSound, UNCHANGED <<publication, draining, slot>>
    PROVE  PublicationSound'
  BY DEF PublicationSound, PublicationTyped, JobsInOrder, Taken, JobsOwed, Owed, CallersServed,
         CallbackOfJob, publication, draining

-----------------------------------------------------------------------------
(* The invariant *)

LEMMA InitSound == Init => StoreInv
  <1> SUFFICES ASSUME Init
               PROVE  StoreInv
    OBVIOUS
  <1>1. FileTyped
    BY ResourceStoreAssumption DEF Init, FileTyped, Contents
  <1>2. PublicationTyped
    BY ResourceStoreAssumption DEF Init, PublicationTyped, Contents
  <1>3. JobsInOrder /\ JobsOwed /\ CallersServed
    BY DEF Init, JobsInOrder, Taken, JobsOwed, Owed, CallersServed
  <1>4. CallbackOfJob
    BY ResourceStoreAssumption DEF Init, CallbackOfJob
  <1>5. QED
    BY <1>1, <1>2, <1>3, <1>4 DEF StoreInv, PublicationSound

LEMMA StepSound ==
    ASSUME StoreInv, [Next]_vars
    PROVE  StoreInv'
  <1>1. FileTyped /\ PublicationSound
    BY DEF StoreInv
  <1>2. FileTyped'
    BY <1>1, FileStep
  <1>3. ASSUME UNCHANGED vars
        PROVE  PublicationSound'
    <2>1. UNCHANGED <<publication, draining, slot>>
      BY <1>3 DEF vars
    <2>2. QED
      BY <1>1, <2>1, QuietSound
  <1>4. ASSUME External
        PROVE  PublicationSound'
    <2>1. UNCHANGED <<publication, draining, slot>>
      BY <1>4 DEF External
    <2>2. QED
      BY <1>1, <2>1, QuietSound
  <1>5. ASSUME NEW t \in Threads, Pull(t) \/ CheckPatch(t) \/ Structural(t) \/ WriteNotCommitted(t)
        PROVE  PublicationSound'
    <2>1. UNCHANGED <<publication, draining, slot>>
      BY <1>5 DEF Pull, CheckPatch, Structural, WriteNotCommitted
    <2>2. QED
      BY <1>1, <2>1, QuietSound
  <1>6. ASSUME NEW t \in Threads, NEW d \in Docs, WritePatch(t, d)
        PROVE  PublicationSound'
    <2>1. d \in Contents
      BY DEF Contents
    <2>2. QED
      BY <1>1, <1>6, <2>1, PublishSound DEF WritePatch
  <1>7. ASSUME NEW t \in Threads, Refresh(t) \/ invalidate_and_publish(t)
        PROVE  PublicationSound'
    <2>1. disk \in Contents /\ None \in Contents
      BY <1>1 DEF FileTyped, Contents
    <2>2. QED
      BY <1>1, <1>7, <2>1, PublishSound DEF Refresh, invalidate_and_publish
  <1>8. ASSUME NEW t \in Threads, Continue(t)
        PROVE  PublicationSound'
    BY <1>1, <1>5, <1>6, <1>8, TakeJobSound, EnterCallbackSound, CallbackReturnsSound, JobDoneSound,
       StopDrainingSound, WaitEndsSound DEF Continue, Patching, Draining
  <1>9. ASSUME NEW s \in Subscribers,
               Subscribe(s) \/ Reset(s) \/ ResetReturns(s) \/ ResetInCallback(s)
        PROVE  PublicationSound'
    BY <1>1, <1>9, SubscribeSound, UnsubscribeSound
  <1>10. PublicationSound'
    BY <1>3, <1>4, <1>5, <1>7, <1>8, <1>9 DEF Next
  <1>11. QED
    BY <1>2, <1>10 DEF StoreInv

\* The publication of updates keeps its order and its debts (drain_or_wait, invoke_callbacks,
\* Subscription), whatever the operations of the store are doing.
THEOREM StoreSound == Spec => []StoreInv
  <1>1. Init => StoreInv
    BY InitSound
  <1>2. StoreInv /\ [Next]_vars => StoreInv'
    BY StepSound
  <1>3. QED
    BY <1>1, <1>2, PTL DEF Spec

\* A call of the store that returned was delivered, and a destroyed subscription is quiet
\* (drain_or_wait, invoke_callbacks, Subscription), for any number of threads and changes.
THEOREM ReturnedIsDoneAlways == Spec => []ReturnedIsDone
  <1>1. StoreInv => ReturnedIsDone
    <2> SUFFICES ASSUME StoreInv
                 PROVE  ReturnedIsDone
      OBVIOUS
    <2>1. FileTyped /\ PublicationTyped /\ JobsInOrder /\ JobsOwed /\ CallersServed /\ CallbackOfJob
      BY DEF StoreInv, PublicationSound
    <2>2. TypeOK
      BY <2>1 DEF TypeOK, FileTyped, PublicationTyped
    <2>3. ASSUME NEW t \in Threads, caller[t].at = "idle", NEW s \in Subscribers, slot[s] = "open"
          PROVE  seen[s] >= caller[t].update /\ (inside = s => seen[s] > caller[t].update)
      <3>1. caller[t].update <= delivered /\ seen[s] >= delivered
        BY <2>1, <2>3 DEF CallersServed, JobsOwed
      <3>2. caller[t].update \in Nat /\ delivered \in Nat /\ seen[s] \in Nat
        BY <2>1, <2>3 DEF PublicationTyped
      <3>3. inside = s => seen[s] >= delivered + 1
        BY <2>1, <2>3 DEF CallbackOfJob, JobsInOrder
      <3>4. QED
        BY <3>1, <3>2, <3>3
    <2>4. \A s \in Subscribers : inside = s => slot[s] \in {"open", "closing", "self_closed"}
      BY <2>1 DEF CallbackOfJob
    <2>5. QED
      BY <2>2, <2>3, <2>4 DEF ReturnedIsDone
  <1>2. QED
    BY <1>1, StoreSound, PTL

\* An open subscription is given every update once and in the order of the changes
\* (mutation_mutex, the queue, one drainer).
THEOREM UpdatesArriveInOrder == Spec => InOrderWithoutGap
  <1> DEFINE Step == \A s \in Subscribers : (slot[s] = "open" /\ seen'[s] # seen[s]) =>
                         seen'[s] = seen[s] + 1
  <1>1. StoreInv /\ [Next]_vars => [Step]_vars
    <2> SUFFICES ASSUME StoreInv, Next, NEW s \in Subscribers, slot[s] = "open", seen'[s] # seen[s]
                 PROVE  seen'[s] = seen[s] + 1
      OBVIOUS
    <2>1. PublicationTyped /\ JobsInOrder /\ JobsOwed
      BY DEF StoreInv, PublicationSound
    <2>2. seen' = seen \/ (\E t \in Threads, u \in Subscribers : EnterCallback(t, u))
                       \/ (\E u \in Subscribers : Subscribe(u))
      BY DEF Next, External, Pull, CheckPatch, Structural, Refresh, invalidate_and_publish,
         Continue,
             Patching, WritePatch, WriteNotCommitted, Draining, TakeJob, JobDone, StopDraining,
             CallbackReturns, WaitEnds, Reset, ResetReturns, ResetInCallback, draining
    <2>3. ASSUME NEW t \in Threads, NEW u \in Subscribers, EnterCallback(t, u)
          PROVE  seen'[s] = seen[s] + 1
      <3>1. u = s /\ seen'[s] = job.update /\ job # NoJob /\ s \in job.slots
        BY <2>1, <2>3 DEF EnterCallback, PublicationTyped
      <3>2. seen[s] >= delivered /\ seen[s] < job.update /\ job.update = delivered + 1
        BY <2>1, <3>1 DEF JobsOwed, Owed, JobsInOrder
      <3>3. seen[s] \in Nat /\ delivered \in Nat
        BY <2>1 DEF PublicationTyped
      <3>4. QED
        BY <3>1, <3>2, <3>3
    <2>4. ASSUME NEW u \in Subscribers, Subscribe(u)
          PROVE  FALSE
      BY <2>1, <2>4 DEF Subscribe, PublicationTyped
    <2>5. QED
      BY <2>2, <2>3, <2>4
  <1>2. QED
    BY <1>1, StoreSound, PTL DEF Spec, InOrderWithoutGap
====
