------------------------- MODULE WorkspaceFilesProofs -------------------------
(***************************************************************************)
(* Proofs about WorkspaceFiles: the bounded queue, its threads and what    *)
(* their callbacks do to the documents, for any number of threads, jobs,   *)
(* documents and files.                                                    *)
(*                                                                         *)
(* The invariant has two halves that meet in the callbacks.  IInv of       *)
(* WorkspaceDocumentsProofs is what the documents keep.  ShopInv is about  *)
(* the jobs: a queued one is in the queue once, an unanswered one beyond   *)
(* that has one thread of its own, and what a job captured still fits the  *)
(* operation its callback will make of it.                                 *)
(***************************************************************************)
EXTENDS WorkspaceFiles, WorkspaceDocumentsProofs, FiniteSetTheorems, TLAPS

Running == {"running", "ready", "written", "read", "choosing", "applying", "adding"}

Operation ==
    [kind : {"open", "save", "save c"}, doc : Ids \cup {New}, path : Paths \cup CFiles,
     name : Names \cup {Keep}, text : Contents, origin : Paths \cup {NoPath},
     default : BOOLEAN, expected : Generations, stage : Stages]

(* What a job captured is what its kind of operation needs.                 *)
Fits(job) ==
    /\ job \in Operation
    /\ job.kind \in {"open", "save"} => job.path \in Paths
    /\ job.kind = "save c" => job.path \in CFiles
    /\ job.kind = "open" /\ (job.doc = New \/ job.stage \in {"choosing", "adding"})
         => job.name \in Names

JobsOK ==
    /\ jobs \in Seq(Operation)
    /\ Len(jobs) <= MaxJobs
    /\ \A j \in DOMAIN jobs : Fits(jobs[j])

QueueOK ==
    /\ queue \in Seq(Int)
    /\ Len(queue) <= Capacity
    /\ \A i \in DOMAIN queue :
          queue[i] # Exit => /\ queue[i] \in DOMAIN jobs
                             /\ jobs[queue[i]].stage = "queued"
                             /\ \A k \in DOMAIN queue : queue[k] = queue[i] => k = i

WorkersOK ==
    /\ at \in [Workers -> Jobs \cup {Idle, Gone}]
    /\ \A w \in Workers :
          at[w] \in Jobs => /\ at[w] \in DOMAIN jobs
                            /\ jobs[at[w]].stage \in Running
                            /\ \A v \in Workers : at[v] = at[w] => v = w
    /\ \A j \in DOMAIN jobs : jobs[j].stage \in Running => \E w \in Workers : at[w] = j

Left == {w \in Workers : at[w] # Gone}

(* Before close nobody is told to go; afterwards nothing else is queued, and *)
(* there is a sentinel for each worker that has not left.                    *)
ClosingOK ==
    /\ ~retired => (\A i \in DOMAIN queue : queue[i] # Exit) /\ Left = Workers
    /\ retired => /\ \A i \in DOMAIN queue : queue[i] = Exit
                  /\ \A j \in DOMAIN jobs : jobs[j].stage # "queued"
                  /\ Len(queue) = Cardinality(Left)

ShopInv == JobsOK /\ QueueOK /\ WorkersOK /\ ClosingOK

FilesInv == IInv /\ ShopInv

(* A job that is done stays what it was.                                     *)
Settled ==
    \A j \in DOMAIN jobs :
       jobs[j].stage = "done" => j \in DOMAIN jobs' /\ jobs'[j] = jobs[j]

-----------------------------------------------------------------------------
(* The jobs. *)

LEMMA Sizes == /\ MaxJobs \in Nat /\ Capacity \in Nat /\ Cardinality(Workers) <= Capacity
               /\ IsFiniteSet(Workers) /\ Workers # {}
  BY WorkerAssumption, BoundAssumption DEF WorkerAssumption, BoundAssumption

LEMMA BusyFacts ==
  ASSUME ShopInv, NEW w \in Workers, Busy(w)
  PROVE  /\ at[w] \in Jobs /\ at[w] \in DOMAIN jobs /\ at[w] # Idle /\ at[w] # Gone
         /\ Doing(w).stage \in Running
         /\ Fits(Doing(w)) /\ Doing(w) \in Operation
         /\ \A v \in Workers : at[v] = at[w] => v = w
         /\ DOMAIN jobs = 1 .. Len(jobs) /\ Len(jobs) \in Nat
  <1>1. /\ at[w] \in DOMAIN jobs /\ DOMAIN jobs = 1 .. Len(jobs) /\ Len(jobs) \in Nat
        /\ Len(jobs) <= MaxJobs
    BY DEF ShopInv, JobsOK, Busy
  <1>2. at[w] \in Jobs /\ at[w] # Idle /\ at[w] # Gone
    BY <1>1, Sizes DEF Jobs, Idle, Gone
  <1>3. /\ Doing(w).stage \in Running
        /\ \A v \in Workers : at[v] = at[w] => v = w
    BY <1>2 DEF ShopInv, WorkersOK, Doing
  <1>4. Fits(Doing(w)) /\ Doing(w) \in Operation
    BY <1>1 DEF ShopInv, JobsOK, Doing, Fits
  <1> QED BY <1>1, <1>2, <1>3, <1>4

LEMMA JobReplaced ==
  ASSUME ShopInv, NEW j \in DOMAIN jobs, NEW new, Fits(new), jobs' = [jobs EXCEPT ![j] = new]
  PROVE  /\ JobsOK'
         /\ DOMAIN jobs' = DOMAIN jobs
         /\ jobs'[j] = new
         /\ \A k \in DOMAIN jobs : k # j => jobs'[k] = jobs[k]
         /\ jobs[j].stage # "done" => Settled
  <1>1. /\ jobs \in Seq(Operation) /\ j \in 1 .. Len(jobs) /\ new \in Operation
        /\ Len(jobs) <= MaxJobs
        /\ \A k \in DOMAIN jobs : Fits(jobs[k])
    <2>1. new \in Operation
      BY DEF Fits
    <2> QED BY <2>1 DEF ShopInv, JobsOK
  <1>2. /\ jobs' \in Seq(Operation) /\ Len(jobs') = Len(jobs)
        /\ \A k \in 1 .. Len(jobs) : jobs'[k] = IF k = j THEN new ELSE jobs[k]
    <2>1. DOMAIN jobs = 1 .. Len(jobs) /\ Len(jobs) \in Nat
      BY <1>1
    <2>2. jobs' \in [1 .. Len(jobs) -> Operation]
      BY <1>1, <2>1
    <2>3. \A k \in 1 .. Len(jobs) : jobs'[k] = IF k = j THEN new ELSE jobs[k]
      BY <1>1, <2>1
    <2>4. jobs' \in Seq(Operation) /\ Len(jobs') = Len(jobs)
      BY <2>1, <2>2, FunctionIsSequence
    <2> QED BY <2>3, <2>4
  <1>3. DOMAIN jobs' = 1 .. Len(jobs) /\ DOMAIN jobs = 1 .. Len(jobs)
    BY <1>1, <1>2
  <1>4. \A k \in DOMAIN jobs' : Fits(jobs'[k])
    BY <1>1, <1>2, <1>3
  <1>5. JobsOK'
    BY <1>1, <1>2, <1>4, Zenon DEF JobsOK, Fits
  <1> QED BY <1>1, <1>2, <1>3, <1>5 DEF Settled

(* The job of a busy worker changes and is not answered. *)
LEMMA ChangeKeeps ==
  ASSUME ShopInv, NEW w \in Workers, Busy(w), NEW new, Fits(new), new.stage \in Running,
         jobs' = [jobs EXCEPT ![at[w]] = new], UNCHANGED <<queue, at, closed, retired>>
  PROVE  ShopInv' /\ Settled
  <1>1. /\ at[w] \in DOMAIN jobs /\ jobs[at[w]].stage \in Running
    BY BusyFacts DEF Doing
  <1>2. /\ JobsOK' /\ Settled
        /\ DOMAIN jobs' = DOMAIN jobs
        /\ jobs'[at[w]] = new
        /\ \A k \in DOMAIN jobs : k # at[w] => jobs'[k] = jobs[k]
    BY <1>1, JobReplaced DEF Running
  <1>3. QueueOK'
    BY <1>1, <1>2 DEF ShopInv, QueueOK, Running
  <1>4. WorkersOK'
    BY <1>1, <1>2 DEF ShopInv, WorkersOK
  <1>5. ClosingOK'
    BY <1>1, <1>2 DEF ShopInv, ClosingOK, Left, Running
  <1> QED BY <1>2, <1>3, <1>4, <1>5 DEF ShopInv

(* The job of a busy worker is answered. *)
LEMMA AnswerKeeps ==
  ASSUME ShopInv, NEW w \in Workers, Busy(w), NEW how \in Answered, Answer(w, how)
  PROVE  ShopInv' /\ Settled
  <1> DEFINE new == [jobs[at[w]] EXCEPT !.stage = how]
  <1>1. /\ at[w] \in DOMAIN jobs /\ jobs[at[w]].stage \in Running /\ Fits(jobs[at[w]])
        /\ at[w] # Gone
        /\ \A v \in Workers : at[v] = at[w] => v = w
    BY BusyFacts DEF Doing
  <1>2. Fits(new) /\ new.stage = how
    BY <1>1, ZenonT(60) DEF Fits, Operation, Stages, Answered
  <1>3. /\ jobs' = [jobs EXCEPT ![at[w]] = new]
        /\ at' = [at EXCEPT ![w] = Idle]
        /\ UNCHANGED <<queue, closed, retired>>
    BY DEF Answer
  <1> HIDE DEF new
  <1>4. /\ JobsOK' /\ Settled
        /\ DOMAIN jobs' = DOMAIN jobs
        /\ jobs'[at[w]] = new
        /\ \A k \in DOMAIN jobs : k # at[w] => jobs'[k] = jobs[k]
    BY <1>1, <1>2, <1>3, JobReplaced DEF Running
  <1>5. QueueOK'
    BY <1>1, <1>3, <1>4 DEF ShopInv, QueueOK, Running
  <1>6. WorkersOK'
    <2>1. at \in [Workers -> Jobs \cup {Idle, Gone}] /\ Idle \notin Jobs
      BY DEF ShopInv, WorkersOK, Idle, Jobs
    <2>2. how \notin Running
      BY DEF Answered, Running
    <2> QED BY <1>1, <1>2, <1>3, <1>4, <2>1, <2>2 DEF ShopInv, WorkersOK
  <1>7. ClosingOK'
    <2>1. Left' = Left
      BY <1>1, <1>3 DEF ShopInv, WorkersOK, Left, Idle, Gone
    <2> QED BY <1>1, <1>2, <1>3, <1>4, <2>1 DEF ShopInv, ClosingOK, Answered
  <1> QED BY <1>4, <1>5, <1>6, <1>7 DEF ShopInv

LEMMA SubmitKeeps ==
  ASSUME ShopInv, NEW job, Fits(job), job.stage = "queued", Submit(job)
  PROVE  ShopInv' /\ Settled
  <1> DEFINE n == Len(jobs)
             m == Len(queue)
  <1>1. /\ ~retired /\ m < Capacity /\ n < MaxJobs
        /\ jobs' = Append(jobs, job) /\ queue' = Append(queue, n + 1)
        /\ UNCHANGED <<at, retired>>
    BY DEF Submit
  <1>2. /\ jobs \in Seq(Operation) /\ n \in Nat /\ DOMAIN jobs = 1 .. n
        /\ queue \in Seq(Int) /\ m \in Nat /\ DOMAIN queue = 1 .. m
    BY DEF ShopInv, JobsOK, QueueOK
  <1>3. job \in Operation
    BY DEF Fits
  <1>4. /\ jobs' \in Seq(Operation) /\ Len(jobs') = n + 1 /\ DOMAIN jobs' = 1 .. n + 1
        /\ \A j \in 1 .. n : jobs'[j] = jobs[j]
        /\ jobs'[n + 1] = job
    BY <1>1, <1>2, <1>3, AppendProperties
  <1>5. /\ queue' \in Seq(Int) /\ Len(queue') = m + 1 /\ DOMAIN queue' = 1 .. m + 1
        /\ \A i \in 1 .. m : queue'[i] = queue[i]
        /\ queue'[m + 1] = n + 1
    BY <1>1, <1>2, AppendProperties
  <1> HIDE DEF n, m
  <1>6. JobsOK'
    <2>1. Len(jobs') <= MaxJobs
      BY <1>1, <1>2, <1>4, Sizes
    <2>2. \A j \in 1 .. n + 1 : Fits(jobs'[j])
      <3>1. \A j \in 1 .. n : Fits(jobs[j])
        BY <1>2 DEF ShopInv, JobsOK
      <3> QED BY <1>2, <1>4, <3>1
    <2>3. \A j \in DOMAIN jobs' : Fits(jobs'[j])
      BY <1>4, <2>2
    <2> QED BY <1>4, <2>1, <2>3, Zenon DEF JobsOK, Fits
  <1>7. QueueOK'
    <2>1. Len(queue') <= Capacity
      BY <1>1, <1>2, <1>5, Sizes
    <2>2. \A i \in 1 .. m : queue[i] # n + 1
      BY <1>2, Sizes DEF ShopInv, QueueOK, Exit
    <2>3. ASSUME NEW i \in 1 .. m + 1, queue'[i] # Exit
          PROVE  /\ queue'[i] \in 1 .. n + 1
                 /\ jobs'[queue'[i]].stage = "queued"
                 /\ \A k \in 1 .. m + 1 : queue'[k] = queue'[i] => k = i
      <3>1. \A k \in 1 .. m : queue[k] # Exit =>
                /\ queue[k] \in 1 .. n
                /\ jobs[queue[k]].stage = "queued"
                /\ \A l \in 1 .. m : queue[l] = queue[k] => l = k
        BY <1>2 DEF ShopInv, QueueOK
      <3>2. CASE i = m + 1
        BY <1>2, <1>4, <1>5, <2>2, <3>2
      <3>3. CASE i \in 1 .. m
        <4>1. /\ queue'[i] = queue[i] /\ queue[i] \in 1 .. n
              /\ jobs[queue[i]].stage = "queued"
              /\ \A l \in 1 .. m : queue[l] = queue[i] => l = i
          BY <1>5, <2>3, <3>1, <3>3
        <4>2. queue'[i] \in 1 .. n + 1 /\ jobs'[queue'[i]].stage = "queued"
          BY <1>2, <1>4, <4>1
        <4>3. queue'[m + 1] # queue'[i]
          BY <1>2, <1>5, <4>1
        <4> QED BY <1>2, <1>5, <4>1, <4>2, <4>3
      <3> QED BY <1>2, <3>2, <3>3
    <2> QED BY <1>4, <1>5, <2>1, <2>3, Zenon DEF QueueOK
  <1>8. WorkersOK'
    BY <1>1, <1>2, <1>4 DEF ShopInv, WorkersOK, Running
  <1>9. ClosingOK'
    BY <1>1, <1>2, <1>5 DEF ShopInv, ClosingOK, Left, Exit
  <1>10. Settled
    BY <1>2, <1>4 DEF Settled
  <1> QED BY <1>6, <1>7, <1>8, <1>9, <1>10 DEF ShopInv

LEMMA TakeKeeps == ASSUME ShopInv, NEW w \in Workers, Take(w) PROVE ShopInv' /\ Settled
  <1> DEFINE m == Len(queue)
             h == Head(queue)
  <1>1. /\ at[w] = Idle /\ queue # <<>> /\ queue' = Tail(queue)
        /\ h = Exit => at' = [at EXCEPT ![w] = Gone] /\ jobs' = jobs
        /\ h # Exit => /\ at' = [at EXCEPT ![w] = h]
                       /\ jobs' = [jobs EXCEPT ![h].stage = "running"]
        /\ UNCHANGED <<closed, retired>>
    BY DEF Take
  <1>2. queue \in Seq(Int) /\ m \in Nat /\ DOMAIN queue = 1 .. m /\ m <= Capacity
    BY DEF ShopInv, QueueOK
  <1>3. /\ m # 0 /\ queue' \in Seq(Int) /\ Len(queue') = m - 1 /\ DOMAIN queue' = 1 .. m - 1
        /\ \A i \in 1 .. m - 1 : queue'[i] = queue[i + 1]
        /\ h = queue[1] /\ 1 \in 1 .. m
    <2>1. /\ queue' \in Seq(Int) /\ Len(queue') = m - 1
          /\ \A i \in 1 .. Len(queue') : queue'[i] = queue[i + 1]
      BY <1>1, <1>2, HeadTailProperties
    <2>2. m # 0 /\ h = queue[1]
      BY <1>1, <1>2
    <2> QED BY <1>2, <2>1, <2>2
  <1>4. at \in [Workers -> Jobs \cup {Idle, Gone}]
    BY DEF ShopInv, WorkersOK
  <1> HIDE DEF m
  <1>5. CASE h = Exit
    <2>1. /\ retired /\ \A i \in 1 .. m : queue[i] = Exit
          /\ m = Cardinality(Left)
      <3>1. retired
        BY <1>2, <1>3, <1>5 DEF ShopInv, ClosingOK
      <3>2. /\ \A i \in DOMAIN queue : queue[i] = Exit
            /\ Len(queue) = Cardinality(Left)
        BY <3>1 DEF ShopInv, ClosingOK
      <3> QED BY <1>2, <3>1, <3>2 DEF m
    <2>2. at' = [at EXCEPT ![w] = Gone] /\ jobs' = jobs /\ retired' = retired
      BY <1>1, <1>5
    <2>3. JobsOK' /\ Settled
      BY <2>2 DEF ShopInv, JobsOK, Settled
    <2>4. QueueOK'
      BY <1>2, <1>3, <2>1, Sizes, SMTT(60) DEF QueueOK
    <2>5. WorkersOK'
      <3>1. Idle \notin Jobs /\ Gone \notin Jobs
        BY DEF Idle, Gone, Jobs
      <3>2. at' \in [Workers -> Jobs \cup {Idle, Gone}]
        BY <1>4, <2>2
      <3>3. ASSUME NEW v \in Workers, at'[v] \in Jobs
            PROVE  v # w /\ at'[v] = at[v]
        BY <1>4, <2>2, <3>1, <3>3
      <3>4. ASSUME NEW j \in DOMAIN jobs, jobs[j].stage \in Running
            PROVE  \E v \in Workers : at'[v] = j
        <4>1. PICK v \in Workers : at[v] = j
          BY <3>4 DEF ShopInv, WorkersOK
        <4>2. j \in Jobs
          BY Sizes DEF ShopInv, JobsOK, Jobs
        <4> QED BY <1>1, <1>4, <2>2, <3>1, <4>1, <4>2
      <3> QED BY <2>2, <3>2, <3>3, <3>4 DEF ShopInv, WorkersOK
    <2>6. ClosingOK'
      <3>1. Left' = Left \ {w} /\ w \in Left
        BY <1>1, <1>4, <2>2 DEF Left, Idle, Gone
      <3>2. IsFiniteSet(Left)
        BY Sizes, FS_Subset DEF Left
      <3>3. Cardinality(Left') = m - 1
        BY <2>1, <3>1, <3>2, FS_RemoveElement
      <3> QED BY <1>2, <1>3, <2>1, <2>2, <3>3, SMTT(60) DEF ShopInv, ClosingOK
    <2> QED BY <2>3, <2>4, <2>5, <2>6 DEF ShopInv
  <1>6. CASE h # Exit
    <2> DEFINE new == [jobs[h] EXCEPT !.stage = "running"]
    <2>1. /\ h \in DOMAIN jobs /\ jobs[h].stage = "queued"
          /\ \A k \in 1 .. m : queue[k] = h => k = 1
          /\ ~retired
      <3>1. ~retired
        BY <1>2, <1>3, <1>6 DEF ShopInv, ClosingOK
      <3>2. /\ queue[1] \in DOMAIN jobs /\ jobs[queue[1]].stage = "queued"
            /\ \A k \in 1 .. m : queue[k] = queue[1] => k = 1
        BY <1>2, <1>3, <1>6 DEF ShopInv, QueueOK
      <3> QED BY <1>3, <3>1, <3>2
    <2>2. Fits(jobs[h])
      BY <2>1 DEF ShopInv, JobsOK
    <2>3. Fits(new) /\ new.stage = "running"
      BY <2>2 DEF Fits, Operation, Stages
    <2>4. /\ at' = [at EXCEPT ![w] = h] /\ jobs' = [jobs EXCEPT ![h] = new]
          /\ retired' = retired
      BY <1>1, <1>6
    <2> HIDE DEF new, h
    <2>5. /\ JobsOK' /\ Settled
          /\ DOMAIN jobs' = DOMAIN jobs
          /\ jobs'[h] = new
          /\ \A k \in DOMAIN jobs : k # h => jobs'[k] = jobs[k]
      BY <2>1, <2>3, <2>4, JobReplaced
    <2>6. QueueOK'
      <3>1. Len(queue') <= Capacity
        BY <1>2, <1>3, Sizes
      <3>2. ASSUME NEW i \in 1 .. m - 1, queue'[i] # Exit
            PROVE  /\ queue'[i] \in DOMAIN jobs'
                   /\ jobs'[queue'[i]].stage = "queued"
                   /\ \A k \in 1 .. m - 1 : queue'[k] = queue'[i] => k = i
        <4>1. i + 1 \in 1 .. m /\ i + 1 # 1 /\ queue'[i] = queue[i + 1]
          BY <1>2, <1>3
        <4>2. /\ queue[i + 1] \in DOMAIN jobs /\ jobs[queue[i + 1]].stage = "queued"
              /\ \A k \in 1 .. m : queue[k] = queue[i + 1] => k = i + 1
          BY <1>2, <3>2, <4>1 DEF ShopInv, QueueOK
        <4>3. queue[i + 1] # h
          BY <2>1, <4>1
        <4>4. \A k \in 1 .. m - 1 : queue'[k] = queue'[i] => k = i
          BY <1>2, <1>3, <4>1, <4>2
        <4> QED BY <2>5, <4>1, <4>2, <4>3, <4>4
      <3> QED BY <1>3, <3>1, <3>2, Zenon DEF QueueOK
    <2>7. WorkersOK'
      <3>1. h \in Jobs /\ h # Idle
        <4>1. DOMAIN jobs = 1 .. Len(jobs) /\ Len(jobs) \in Nat /\ Len(jobs) <= MaxJobs
          BY DEF ShopInv, JobsOK
        <4> QED BY <2>1, <4>1, Sizes DEF Jobs, Idle
      <3>2. Idle \notin Jobs /\ \A v \in Workers : at[v] # h
        <4>1. Idle \notin Jobs
          BY DEF Jobs, Idle
        <4>2. \A v \in Workers : at[v] \in Jobs => jobs[at[v]].stage \in Running
          BY DEF ShopInv, WorkersOK
        <4> QED BY <2>1, <3>1, <4>1, <4>2 DEF Running
      <3>3. at' \in [Workers -> Jobs \cup {Idle, Gone}]
        BY <1>4, <2>4, <3>1
      <3>4. at'[w] = h /\ \A v \in Workers : v # w => at'[v] = at[v]
        BY <1>4, <2>4
      <3>5. ASSUME NEW v \in Workers, at'[v] \in Jobs
            PROVE  /\ at'[v] \in DOMAIN jobs'
                   /\ jobs'[at'[v]].stage \in Running
                   /\ \A u \in Workers : at'[u] = at'[v] => u = v
        <4>1. CASE v = w
          BY <2>1, <2>3, <2>5, <3>2, <3>4, <4>1 DEF Running
        <4>2. CASE v # w
          <5>1. /\ at[v] \in DOMAIN jobs /\ jobs[at[v]].stage \in Running /\ at[v] # h
                /\ \A u \in Workers : at[u] = at[v] => u = v
            BY <3>2, <3>4, <3>5, <4>2 DEF ShopInv, WorkersOK
          <5> QED BY <2>5, <3>4, <4>2, <5>1
        <4> QED BY <4>1, <4>2
      <3>6. ASSUME NEW j \in DOMAIN jobs', jobs'[j].stage \in Running
            PROVE  \E v \in Workers : at'[v] = j
        <4>1. CASE j = h
          BY <3>4, <4>1
        <4>2. CASE j # h
          <5>1. PICK v \in Workers : at[v] = j
            BY <2>5, <3>6, <4>2 DEF ShopInv, WorkersOK
          <5>2. v # w
            <6>1. 0 \notin DOMAIN jobs
              BY DEF ShopInv, JobsOK
            <6> QED BY <1>1, <2>5, <5>1, <6>1 DEF Idle
          <5> QED BY <3>4, <5>1, <5>2
        <4> QED BY <4>1, <4>2
      <3> QED BY <3>3, <3>5, <3>6, Zenon DEF WorkersOK
    <2>8. ClosingOK'
      <3>1. h # Gone
        BY <2>1 DEF ShopInv, JobsOK, Gone
      <3> QED BY <1>1, <1>2, <1>3, <1>4, <2>1, <2>4, <3>1
              DEF ShopInv, ClosingOK, Left, Idle, Gone
    <2> QED BY <2>5, <2>6, <2>7, <2>8 DEF ShopInv
  <1> QED BY <1>5, <1>6

LEMMA CloseServiceKeeps == ASSUME ShopInv, CloseService PROVE ShopInv' /\ Settled
  <1> DEFINE c == Cardinality(Workers)
  <1>1. /\ ~retired /\ retired' = TRUE /\ jobs' = Drained
        /\ queue' = [i \in 1 .. c |-> Exit] /\ at' = at
    BY DEF CloseService
  <1>2. c \in Nat
    BY Sizes, FS_CardinalityType
  <1> HIDE DEF c
  <1>3. /\ jobs \in Seq(Operation) /\ DOMAIN jobs = 1 .. Len(jobs) /\ Len(jobs) \in Nat
        /\ Len(jobs) <= MaxJobs
        /\ \A j \in DOMAIN jobs : Fits(jobs[j])
    BY DEF ShopInv, JobsOK
  <1>4. /\ DOMAIN jobs' = DOMAIN jobs
        /\ \A j \in DOMAIN jobs :
              jobs'[j] = IF jobs[j].stage = "queued" THEN [jobs[j] EXCEPT !.stage = "cancelled"]
                         ELSE jobs[j]
    BY <1>1 DEF Drained
  <1>5. ASSUME NEW j \in DOMAIN jobs
        PROVE  /\ Fits(jobs'[j]) /\ jobs'[j].stage # "queued"
               /\ jobs'[j].stage \in Running <=> jobs[j].stage \in Running
               /\ jobs[j].stage # "queued" => jobs'[j] = jobs[j]
    <2>1. Fits(jobs[j])
      BY <1>3
    <2>2. CASE jobs[j].stage = "queued"
      <3>1. jobs'[j] = [jobs[j] EXCEPT !.stage = "cancelled"]
        BY <1>4, <2>2
      <3> QED BY <2>1, <2>2, <3>1 DEF Fits, Operation, Stages, Answered, Running
    <2>3. CASE jobs[j].stage # "queued"
      BY <1>4, <2>1, <2>3
    <2> QED BY <2>2, <2>3
  <1>6. JobsOK'
    <2>1. jobs' = [j \in DOMAIN jobs |-> jobs'[j]]
      BY <1>1 DEF Drained
    <2>2. \A j \in DOMAIN jobs : jobs'[j] \in Operation
      BY <1>5 DEF Fits
    <2>3. jobs' \in [1 .. Len(jobs) -> Operation]
      BY <1>3, <2>1, <2>2
    <2>4. jobs' \in Seq(Operation) /\ Len(jobs') = Len(jobs)
      BY <1>3, <2>3, FunctionIsSequence
    <2> QED BY <1>3, <1>4, <1>5, <2>4, Zenon DEF JobsOK
  <1>7. /\ queue' \in Seq(Int) /\ Len(queue') = c /\ DOMAIN queue' = 1 .. c
        /\ \A i \in 1 .. c : queue'[i] = Exit
    <2>1. queue' \in [1 .. c -> Int]
      BY <1>1 DEF Exit
    <2>2. queue' \in Seq(Int) /\ Len(queue') = c /\ DOMAIN queue' = 1 .. c
      BY <1>2, <2>1, FunctionIsSequence
    <2> QED BY <1>1, <2>2
  <1>8. QueueOK'
    BY <1>2, <1>7, Sizes DEF QueueOK, c
  <1>9. WorkersOK'
    BY <1>1, <1>4, <1>5 DEF ShopInv, WorkersOK, Running
  <1>10. ClosingOK'
    <2>1. Left' = Workers
      BY <1>1 DEF ShopInv, ClosingOK, Left
    <2> QED BY <1>1, <1>4, <1>5, <1>7, <2>1 DEF ClosingOK, c
  <1>11. Settled
    BY <1>4, <1>5 DEF Settled
  <1> QED BY <1>6, <1>8, <1>9, <1>10, <1>11 DEF ShopInv

LEMMA ShopUnchanged ==
  ASSUME ShopInv, UNCHANGED <<jobs, queue, at, retired>> PROVE ShopInv' /\ Settled
  BY DEF ShopInv, JobsOK, QueueOK, WorkersOK, ClosingOK, Left, Settled

-----------------------------------------------------------------------------
(* Steps of the system. *)

(* Some operation is done that read this text from this file, or wrote it.  *)
Written(path, text) ==
    \E j \in DOMAIN jobs : jobs[j].stage = "done" /\ jobs[j].path = path /\ jobs[j].text = text

Unsaved(doc) == doc.dirty \/ doc.path = NoPath

(* What every step does: the invariant, and where its documents come from.  *)
Kept ==
    /\ FilesInv' /\ Settled
    /\ \A i \in DOMAIN documents' :
          \/ Comes(documents'[i])
          \/ Unsaved(documents'[i])
          \/ Written(documents[i].path, documents[i].text)'

LEMMA DocFacts ==
  ASSUME IInv, NEW d \in IdsOf(documents)
  PROVE  d \in Ids /\ Doc(d) \in Document /\ Doc(d).id = d
  <1>1. Doc(d) \in Document /\ Doc(d).id = d
    BY DocumentIsIn DEF Doc, IInv, TypeOK, Bundle
  <1> QED BY <1>1 DEF Document

(* A step of the shop that leaves the documents alone. *)
LEMMA QuietKeeps ==
  ASSUME FilesInv, UNCHANGED documentVars, ShopInv' /\ Settled
  PROVE  Kept
  <1>1. IInv' /\ documents' = documents
    BY UnchangedKeeps DEF FilesInv, EveryStep, documentVars, bundleVars
  <1>2. \A i \in DOMAIN documents' : Comes(documents'[i])
    BY <1>1 DEF Comes, SameOnDisk
  <1> QED BY <1>1, <1>2 DEF Kept, FilesInv

(* A step of another thread that leaves the jobs alone. *)
LEMMA OutsideKeeps ==
  ASSUME FilesInv, UNCHANGED <<jobs, queue, at, retired>>, IInv',
         \A i \in DOMAIN documents' : Comes(documents'[i]) \/ Unsaved(documents'[i])
  PROVE  Kept
  BY ShopUnchanged DEF FilesInv, Kept

LEMMA EditKeeps == ASSUME FilesInv, Edit PROVE Kept
  <1> USE DEF FilesInv
  <1>1. UNCHANGED <<jobs, queue, at, retired>>
    BY DEF Edit, ioVars
  <1>2. ASSUME NEW d \in Ids, NEW t \in Contents, UpdateDocument(d, t) PROVE Kept
    BY <1>1, <1>2, UpdateDocumentKeeps, OutsideKeeps DEF Unsaved
  <1>3. ASSUME NEW n \in Names, AddNew(n, Blank, NoPath, TRUE, FALSE) PROVE Kept
    <2>1. \E a, p \in BOOLEAN, t \in Contents : t = Blank /\ AddNew(n, t, NoPath, a, p)
      <3>1. Blank \in Contents
        BY DEF Contents
      <3> WITNESS TRUE \in BOOLEAN, FALSE \in BOOLEAN, Blank \in Contents
      <3> QED BY <1>3
    <2>2. PICK a \in BOOLEAN, p \in BOOLEAN, t \in Contents : AddNew(n, t, NoPath, a, p)
      BY <2>1
    <2>3. /\ IInv'
          /\ \A i \in DOMAIN documents' : Comes(documents'[i]) \/ documents'[i].path = NoPath
      BY <2>2, AddNewKeeps
    <2> QED BY <1>1, <2>3, OutsideKeeps DEF Unsaved
  <1>4. ASSUME NEW d \in Ids, RemoveDocument(d) PROVE Kept
    BY <1>1, <1>4, RemoveDocumentKeeps, OutsideKeeps
  <1>5. ASSUME NEW d \in Ids, SelectDocument(d) PROVE Kept
    <2>1. documents' = documents
      BY <1>5 DEF SelectDocument
    <2>2. \A i \in DOMAIN documents' : Comes(documents'[i])
      BY <2>1 DEF Comes, SameOnDisk
    <2> QED BY <1>1, <1>5, <2>2, SelectDocumentKeeps, OutsideKeeps
  <1>6. ASSUME NEW order \in Orders(documents), ReorderDocuments(order) PROVE Kept
    BY <1>1, <1>6, ReorderDocumentsKeeps, OutsideKeeps
  <1>7. ASSUME NEW d \in Ids, NEW n \in Names,
               \E p \in BOOLEAN : SetDocumentIdentity(d, n, p)
        PROVE  Kept
    <2>1. PICK p \in BOOLEAN : SetDocumentIdentity(d, n, p)
      BY <1>7
    <2> QED BY <1>1, <2>1, SetDocumentIdentityKeeps, OutsideKeeps
  <1>8. ASSUME NEW d \in Ids, NEW n \in Names, SetDocumentIdentity(d, n, FALSE) PROVE Kept
    <2>1. \E p \in BOOLEAN : SetDocumentIdentity(d, n, p)
      <3> WITNESS FALSE \in BOOLEAN
      <3> QED BY <1>8
    <2> QED BY <1>7, <2>1
  <1>9. ASSUME NEW d \in IdsOf(documents), SetDocumentIdentity(d, Doc(d).name, TRUE) PROVE Kept
    <2>1. \E p \in BOOLEAN : SetDocumentIdentity(d, Doc(d).name, p)
      <3> WITNESS TRUE \in BOOLEAN
      <3> QED BY <1>9
    <2>2. d \in Ids /\ Doc(d).name \in Names
      BY DocFacts DEF Document
    <2> QED BY <1>7, <2>1, <2>2
  <1>10. CASE LinkDefaultC \/ \E c \in CFiles : LinkGeneratedC(c)
    <2>1. documents' = documents
      BY <1>10 DEF LinkDefaultC, LinkGeneratedC, bundleVars
    <2>2. \A i \in DOMAIN documents' : Comes(documents'[i])
      BY <2>1 DEF Comes, SameOnDisk
    <2> QED BY <1>1, <1>10, <2>2, LinkKeeps, OutsideKeeps
  <1> QED BY <1>2, <1>3, <1>4, <1>5, <1>6, <1>8, <1>9, <1>10 DEF Edit

LEMMA ConvertKeeps == ASSUME FilesInv, Convert PROVE Kept
  <1>1. UNCHANGED <<jobs, queue, at, retired>> /\ Other
    BY DEF Convert, ioVars
  <1>2. documents' = documents
    BY <1>1 DEF Other, AcceptRevision, StartConversion, EndConversion
  <1>3. \A i \in DOMAIN documents' : Comes(documents'[i])
    BY <1>2 DEF Comes, SameOnDisk
  <1> QED BY <1>1, <1>3, OtherKeeps, OutsideKeeps DEF FilesInv

LEMMA OpenAsyncKeeps ==
  ASSUME FilesInv, NEW path \in Paths, NEW name \in Names \cup {Keep}, NEW d \in Ids \cup {New},
         d = New => name \in Names, OpenAsync(path, name, d)
  PROVE  Kept
  <1> DEFINE job == [Job("open", d, path) EXCEPT
                       !.name = name, !.expected = IF d = New THEN 0 ELSE generation]
  <1>1. Submit(job)
    BY DEF OpenAsync
  <1>2. generation \in Generations /\ 0 \in Generations
    BY LimitAssumption DEF FilesInv, IInv, TypeOK, Generations, LimitAssumption
  <1>3. Fits(job) /\ job.stage = "queued"
    BY <1>2 DEF Job, Fits, Operation, Stages, Contents
  <1> HIDE DEF job
  <1>4. ShopInv' /\ Settled
    BY <1>1, <1>3, SubmitKeeps DEF FilesInv
  <1> QED BY <1>1, <1>4, QuietKeeps DEF Submit

LEMMA StartKeeps == ASSUME FilesInv, Start PROVE Kept
  <1>1. ASSUME NEW p \in Paths, NEW n \in Names, OpenPath(p, n) PROVE Kept
    <2>1. /\ \A d \in IdsOf(documents) : d \in Ids
          /\ active \in Ids
      BY DocFacts DEF FilesInv, IInv, TypeOK
    <2>2. New \notin Ids
      BY DEF New, Ids
    <2>3. CASE \E d \in IdsOf(documents) : OpenAsync(p, Keep, d)
      BY <2>1, <2>2, <2>3, OpenAsyncKeeps
    <2>4. CASE OpenAsync(p, n, active)
      BY <2>1, <2>4, OpenAsyncKeeps
    <2>5. CASE OpenAsync(p, n, New)
      BY <2>5, OpenAsyncKeeps
    <2> QED BY <1>1, <2>3, <2>4, <2>5 DEF OpenPath
  <1>2. ASSUME NEW d \in Ids, NEW p \in Paths, SaveAsync(d, p) PROVE Kept
    <2> DEFINE job == [Job("save", d, p) EXCEPT !.text = Doc(d).text, !.origin = Doc(d).path]
    <2>1. Submit(job) /\ d \in IdsOf(documents)
      BY <1>2 DEF SaveAsync
    <2>2. 0 \in Generations
      BY LimitAssumption DEF Generations, LimitAssumption
    <2>3. Doc(d).text \in Contents /\ Doc(d).path \in Paths \cup {NoPath}
      BY <2>1, DocFacts DEF FilesInv, Document
    <2>4. Fits(job) /\ job.stage = "queued"
      BY <2>2, <2>3 DEF Job, Fits, Operation, Stages
    <2> HIDE DEF job
    <2>5. ShopInv' /\ Settled
      BY <2>1, <2>4, SubmitKeeps DEF FilesInv
    <2> QED BY <2>1, <2>5, QuietKeeps DEF Submit
  <1>3. CASE SaveCAsync
    <2> DEFINE job == [Job("save c", New, CDestination) EXCEPT
                         !.default = CIsDefault, !.expected = generation]
    <2>1. Submit(job) /\ CDestination # NoPath
      BY <1>3 DEF SaveCAsync
    <2>2. generation \in Generations
      BY DEF FilesInv, IInv, TypeOK
    <2>3. CDestination \in CFiles
      <3>1. DefaultOf(PrimaryOf(documents)) \in CFiles \cup {NoPath}
        BY PrimaryPath DEF FilesInv
      <3> QED BY <2>1, <3>1 DEF CDestination, FilesInv, IInv, TypeOK
    <2>4. CIsDefault \in BOOLEAN
      BY Zenon DEF CIsDefault
    <2> HIDE DEF CIsDefault
    <2>5. Fits(job) /\ job.stage = "queued"
      BY <2>2, <2>3, <2>4 DEF Job, Fits, Operation, Stages, Contents
    <2> HIDE DEF job
    <2>6. ShopInv' /\ Settled
      BY <2>1, <2>5, SubmitKeeps DEF FilesInv
    <2> QED BY <2>1, <2>6, QuietKeeps DEF Submit
  <1> QED BY <1>1, <1>2, <1>3 DEF Start

LEMMA AdvanceKeeps ==
  ASSUME ShopInv, NEW w \in Workers, Busy(w), NEW stage \in Running, Advance(w, stage),
         Doing(w).kind = "open" /\ stage \in {"choosing", "adding"} => Doing(w).name \in Names
  PROVE  ShopInv' /\ Settled
  <1> DEFINE new == [jobs[at[w]] EXCEPT !.stage = stage]
  <1>1. Fits(jobs[at[w]]) /\ at[w] \in DOMAIN jobs
    BY BusyFacts DEF Doing
  <1>2. Fits(new) /\ new.stage \in Running
    BY <1>1 DEF Fits, Operation, Stages, Running, Doing
  <1>3. jobs' = [jobs EXCEPT ![at[w]] = new] /\ UNCHANGED <<queue, at, closed, retired>>
    BY DEF Advance
  <1> HIDE DEF new
  <1> QED BY <1>2, <1>3, ChangeKeeps

LEMMA RefusalKeeps == ASSUME FilesInv, NEW w \in Workers, Busy(w), Refused(w) PROVE Kept
  <1>1. Answer(w, "failed") /\ "failed" \in Answered /\ UNCHANGED documentVars
    BY DEF Refused, Answered
  <1> QED BY <1>1, AnswerKeeps, QuietKeeps DEF FilesInv

(* A callback that ends an operation well.                                  *)
LEMMA DoneKeeps ==
  ASSUME FilesInv, NEW w \in Workers, Busy(w), Answer(w, "done"), IInv',
         \A i \in DOMAIN documents' :
            \/ Comes(documents'[i])
            \/ Unsaved(documents'[i])
            \/ /\ documents'[i].path = Doing(w).path
               /\ documents'[i].text = Doing(w).text
  PROVE  Kept
  <1>1. ShopInv' /\ Settled
    BY AnswerKeeps DEF FilesInv, Answered
  <1>2. ASSUME NEW i \in DOMAIN documents',
               documents'[i].path = Doing(w).path, documents'[i].text = Doing(w).text
        PROVE  Written(documents[i].path, documents[i].text)'
    <2> DEFINE p == Doing(w).path
               t == Doing(w).text
    <2>1. PICK j : /\ j \in DOMAIN jobs' /\ jobs'[j].stage = "done"
                   /\ jobs'[j].path = p /\ jobs'[j].text = t
      <3>1. at[w] \in DOMAIN jobs /\ jobs[at[w]] \in Operation
        BY BusyFacts DEF FilesInv, Doing
      <3>2. at[w] \in DOMAIN jobs' /\ jobs'[at[w]] = [jobs[at[w]] EXCEPT !.stage = "done"]
        BY <3>1 DEF Answer
      <3> QED BY <3>1, <3>2 DEF Doing, Operation
    <2> QED BY <1>2, <2>1 DEF Written
  <1> QED BY <1>1, <1>2 DEF Kept, FilesInv

LEMMA GuardKeeps == ASSUME FilesInv, NEW w \in Workers, Guard(w) PROVE Kept
  <1>1. Busy(w) /\ Doing(w).kind # "open" /\ UNCHANGED documentVars
    BY DEF Guard, At
  <1>2. CASE Advance(w, "ready")
    BY <1>1, <1>2, AdvanceKeeps, QuietKeeps DEF FilesInv, Running
  <1>3. CASE Answer(w, "failed")
    BY <1>1, <1>3, RefusalKeeps DEF Refused
  <1> QED BY <1>2, <1>3 DEF Guard

LEMMA ReplaceFileKeeps == ASSUME FilesInv, NEW w \in Workers, ReplaceFile(w) PROVE Kept
  <1>1. /\ Busy(w) /\ Doing(w).kind \in {"save", "save c"}
        /\ Advance(w, "written")
        /\ UNCHANGED <<documents, active, sourceText, sourceFingerprint, generation,
                       authenticated, state, linkedC, linkedDefault, documentSequence,
                       revision, result>>
    BY DEF ReplaceFile, At, bundleVars, linkVars
  <1>2. ShopInv' /\ Settled
    BY <1>1, AdvanceKeeps DEF FilesInv, Running
  <1>3. Fits(Doing(w)) /\ Doing(w) \in Operation
    BY <1>1, BusyFacts DEF FilesInv
  <1>4. files' \in [Paths \cup CFiles -> Contents \cup {NoText}]
    <2>1. Doing(w).text \in Contents /\ GeneratedC \in Contents
      BY <1>3, TextAssumption DEF Operation, TextAssumption, Contents
    <2> QED BY <2>1 DEF ReplaceFile, FilesInv, IInv, TypeOK
  <1>5. linkedC' \in CFiles \cup {NoPath} /\ linkedDefault' \in BOOLEAN
    BY <1>1, Zenon DEF FilesInv, IInv, TypeOK
  <1>6. /\ state' \in {"idle", "stale", "converting", "converted"}
        /\ result' \in Generations \cup {NoResult}
    BY <1>1 DEF FilesInv, IInv, TypeOK
  <1>7. IInv'
    BY <1>1, <1>4, <1>5, <1>6, AboutCKeeps DEF FilesInv
  <1>8. \A i \in DOMAIN documents' : Comes(documents'[i])
    BY <1>1 DEF Comes, SameOnDisk
  <1> QED BY <1>2, <1>7, <1>8 DEF Kept, FilesInv

LEMMA FinishSaveKeeps == ASSUME FilesInv, NEW w \in Workers, FinishSave(w) PROVE Kept
  <1> DEFINE job == Doing(w)
             new == Saved(job)
  <1>1. Busy(w) /\ job.kind = "save"
    BY DEF FinishSave, At
  <1>2. CASE Refused(w)
    BY <1>1, <1>2, RefusalKeeps
  <1>3. CASE /\ job.doc \in IdsOf(documents)
             /\ Mutate(Replaced(new), active, FALSE)
             /\ Follow(new, Doc(job.doc).primary)
             /\ Answer(w, "done")
             /\ UNCHANGED <<documentSequence, revision, result, files>>
    <2>1. Fits(job) /\ job.path \in Paths
      BY <1>1, BusyFacts DEF FilesInv, Fits
    <2>2. Doc(job.doc) \in Document /\ Doc(job.doc).id = job.doc
      BY <1>3, DocFacts DEF FilesInv
    <2>3. /\ new \in Document /\ new.id = job.doc /\ new.primary = Doc(job.doc).primary
          /\ new.path = job.path /\ new.text = Doc(job.doc).text
      BY <2>1, <2>2 DEF Saved, Document
    <2>4. new.dirty \/ new.text = job.text
      BY <2>2 DEF Saved, Document
    <2>5. /\ active \in IdsOf(documents)
          /\ files' \in [Paths \cup CFiles -> Contents \cup {NoText}]
          /\ UNCHANGED <<documentSequence, revision, result>>
      BY <1>3 DEF FilesInv, IInv, TypeOK
    <2> HIDE DEF new, job
    <2>6. IInv' /\ \A i \in DOMAIN documents' : documents'[i] = new \/ Comes(documents'[i])
      BY <1>3, <2>3, <2>5, ReplacementKeeps DEF FilesInv
    <2>7. \A i \in DOMAIN documents' :
             \/ Comes(documents'[i])
             \/ Unsaved(documents'[i])
             \/ documents'[i].path = Doing(w).path /\ documents'[i].text = Doing(w).text
      BY <2>3, <2>4, <2>6 DEF Unsaved, job
    <2> QED BY <1>1, <1>3, <2>6, <2>7, DoneKeeps
  <1> QED BY <1>2, <1>3 DEF FinishSave

LEMMA FinishSaveCKeeps == ASSUME FilesInv, NEW w \in Workers, FinishSaveC(w) PROVE Kept
  <1>1. /\ Busy(w) /\ Doing(w).kind = "save c" /\ Answer(w, "done")
        /\ linkedC' = Doing(w).path /\ linkedDefault' = Doing(w).default
        /\ UNCHANGED <<documents, active, sourceText, sourceFingerprint, generation,
                       authenticated, state, documentSequence, revision, result, files>>
    BY DEF FinishSaveC, At, bundleVars
  <1>2. Doing(w).path \in CFiles /\ Doing(w).default \in BOOLEAN
    BY <1>1, BusyFacts DEF FilesInv, Fits, Operation
  <1>3. linkedC' \in CFiles \cup {NoPath} /\ linkedDefault' \in BOOLEAN
    BY <1>1, <1>2, Zenon
  <1>4. /\ state' \in {"idle", "stale", "converting", "converted"}
        /\ result' \in Generations \cup {NoResult}
        /\ files' \in [Paths \cup CFiles -> Contents \cup {NoText}]
    BY <1>1 DEF FilesInv, IInv, TypeOK
  <1>5. IInv'
    BY <1>1, <1>3, <1>4, AboutCKeeps DEF FilesInv
  <1>6. \A i \in DOMAIN documents' : Comes(documents'[i])
    BY <1>1 DEF Comes, SameOnDisk
  <1> QED BY <1>1, <1>5, <1>6, DoneKeeps

LEMMA ReadFileKeeps == ASSUME FilesInv, NEW w \in Workers, ReadFile(w) PROVE Kept
  <1> DEFINE text == files[Doing(w).path]
             new == [jobs[at[w]] EXCEPT !.stage = "read", !.text = text]
  <1>1. /\ Busy(w) /\ Doing(w).kind = "open" /\ text # NoText
        /\ jobs' = [jobs EXCEPT ![at[w]].stage = "read", ![at[w]].text = text]
        /\ UNCHANGED <<queue, at, closed, retired>> /\ UNCHANGED documentVars
    BY DEF ReadFile, At
  <1>2. Fits(Doing(w)) /\ Doing(w) = jobs[at[w]] /\ at[w] \in DOMAIN jobs
    BY <1>1, BusyFacts DEF FilesInv, Doing
  <1>3. text \in Contents
    <2>1. Doing(w).path \in Paths
      BY <1>1, <1>2 DEF Fits
    <2> QED BY <1>1, <2>1 DEF FilesInv, IInv, TypeOK
  <1>4. Fits(new) /\ new.stage = "read"
    BY <1>2, <1>3 DEF Fits, Operation, Stages
  <1>5. jobs' = [jobs EXCEPT ![at[w]] = new]
    BY <1>1, <1>2
  <1> HIDE DEF new
  <1>6. ShopInv' /\ Settled
    BY <1>1, <1>4, <1>5, ChangeKeeps DEF FilesInv, Running
  <1> QED BY <1>1, <1>6, QuietKeeps

LEMMA CheckOpenKeeps == ASSUME FilesInv, NEW w \in Workers, CheckOpen(w) PROVE Kept
  <1>1. Busy(w) /\ Doing(w).kind = "open" /\ UNCHANGED documentVars
    BY DEF CheckOpen, At
  <1>2. Fits(Doing(w))
    BY <1>1, BusyFacts DEF FilesInv
  <1>3. CASE Answer(w, "failed")
    BY <1>1, <1>3, RefusalKeeps DEF Refused
  <1>4. CASE Doing(w).doc = New /\ Advance(w, "choosing")
    BY <1>1, <1>2, <1>4, AdvanceKeeps, QuietKeeps DEF FilesInv, Running, Fits
  <1>5. CASE Advance(w, "applying")
    BY <1>1, <1>5, AdvanceKeeps, QuietKeeps DEF FilesInv, Running
  <1> QED BY <1>3, <1>4, <1>5 DEF CheckOpen

LEMMA ChooseDocumentKeeps == ASSUME FilesInv, NEW w \in Workers, ChooseDocument(w) PROVE Kept
  <1>1. /\ Busy(w) /\ Doing(w).kind = "open" /\ Doing(w).stage = "choosing"
        /\ UNCHANGED <<queue, at, closed, retired>> /\ UNCHANGED documentVars
    BY DEF ChooseDocument, At
  <1>2. Fits(Doing(w)) /\ Doing(w) = jobs[at[w]] /\ at[w] \in DOMAIN jobs
    BY <1>1, BusyFacts DEF FilesInv, Doing
  <1>3. CASE jobs' = [jobs EXCEPT ![at[w]].stage = "applying", ![at[w]].doc = active,
                                  ![at[w]].expected = generation]
    <2> DEFINE new == [jobs[at[w]] EXCEPT !.stage = "applying", !.doc = active,
                                          !.expected = generation]
    <2>1. active \in Ids /\ generation \in Generations
      BY DocFacts DEF FilesInv, IInv, TypeOK
    <2>2. Fits(new) /\ new.stage = "applying"
      BY <1>1, <1>2, <2>1 DEF Fits, Operation, Stages
    <2>3. jobs' = [jobs EXCEPT ![at[w]] = new]
      BY <1>2, <1>3
    <2> HIDE DEF new
    <2>4. ShopInv' /\ Settled
      BY <1>1, <2>2, <2>3, ChangeKeeps DEF FilesInv, Running
    <2> QED BY <1>1, <2>4, QuietKeeps
  <1>4. CASE jobs' = [jobs EXCEPT ![at[w]].stage = "adding"]
    <2>1. Advance(w, "adding") /\ Doing(w).name \in Names
      BY <1>1, <1>2, <1>4 DEF Advance, Fits
    <2> QED BY <1>1, <2>1, AdvanceKeeps, QuietKeeps DEF FilesInv, Running
  <1> QED BY <1>3, <1>4 DEF ChooseDocument

LEMMA ApplyOpenKeeps == ASSUME FilesInv, NEW w \in Workers, ApplyOpen(w) PROVE Kept
  <1> DEFINE job  == Doing(w)
             name == IF job.name = Keep THEN Doc(job.doc).name ELSE job.name
  <1>1. Busy(w) /\ job.kind = "open"
    BY DEF ApplyOpen, At
  <1>2. CASE Refused(w)
    BY <1>1, <1>2, RefusalKeeps
  <1>3. CASE /\ job.doc \in IdsOf(documents)
             /\ ReplaceByFile(job.doc, name, job.text, job.path, TRUE)
             /\ Answer(w, "done")
             /\ UNCHANGED files
    <2>1. Fits(job) /\ job \in Operation /\ job.path \in Paths
      BY <1>1, BusyFacts DEF FilesInv, Fits
    <2>2. Doc(job.doc) \in Document
      BY <1>3, DocFacts DEF FilesInv
    <2>3. name \in Names /\ job.text \in Contents
      BY <2>1, <2>2 DEF Document, Operation
    <2> HIDE DEF job, name
    <2>4. \E a \in BOOLEAN : ReplaceByFile(job.doc, name, job.text, job.path, a)
      <3> WITNESS TRUE \in BOOLEAN
      <3> QED BY <1>3
    <2>5. PICK a \in BOOLEAN : ReplaceByFile(job.doc, name, job.text, job.path, a)
      BY <2>4
    <2>6. /\ IInv'
          /\ \A i \in DOMAIN documents' :
                \/ Comes(documents'[i])
                \/ documents'[i].text = job.text /\ documents'[i].path = job.path
      BY <1>3, <2>1, <2>3, <2>5, ReplaceByFileKeeps DEF FilesInv
    <2> QED BY <1>1, <1>3, <2>6, DoneKeeps DEF job
  <1> QED BY <1>2, <1>3 DEF ApplyOpen

LEMMA AddOpenedKeeps == ASSUME FilesInv, NEW w \in Workers, AddOpened(w) PROVE Kept
  <1> DEFINE job == Doing(w)
  <1>1. Busy(w) /\ job.kind = "open" /\ job.stage = "adding"
    BY DEF AddOpened, At
  <1>2. CASE Refused(w)
    BY <1>1, <1>2, RefusalKeeps
  <1>3. CASE /\ AddDocument(job.name, job.text, job.path, TRUE, FALSE, FALSE)
             /\ Answer(w, "done")
             /\ UNCHANGED files
    <2>1. job.path \in Paths /\ job.name \in Names /\ job.text \in Contents
      <3>1. Fits(job) /\ job \in Operation
        BY <1>1, BusyFacts DEF FilesInv
      <3> QED BY <1>1, <3>1 DEF Fits, Operation
    <2>2. \E a, p \in BOOLEAN : AddDocument(job.name, job.text, job.path, a, p, FALSE)
      <3> WITNESS TRUE \in BOOLEAN, FALSE \in BOOLEAN
      <3> QED BY <1>3
    <2> HIDE DEF job
    <2>3. PICK a \in BOOLEAN, p \in BOOLEAN :
            AddDocument(job.name, job.text, job.path, a, p, FALSE)
      BY <2>2
    <2>4. /\ IInv'
          /\ \A i \in DOMAIN documents' :
                \/ Comes(documents'[i])
                \/ documents'[i].text = job.text /\ documents'[i].path = job.path
      BY <1>3, <2>1, <2>3, AddFileKeeps DEF FilesInv
    <2> QED BY <1>1, <1>3, <2>4, DoneKeeps DEF job
  <1> QED BY <1>2, <1>3 DEF AddOpened

LEMMA WorkKeeps == ASSUME FilesInv, NEW w \in Workers, Work(w) PROVE Kept
  <1>1. CASE Take(w)
    BY <1>1, TakeKeeps, QuietKeeps DEF FilesInv, Take
  <1>2. CASE FileFails(w)
    BY <1>2, RefusalKeeps DEF FileFails, Refused
  <1> QED BY <1>1, <1>2, GuardKeeps, ReplaceFileKeeps, FinishSaveKeeps, FinishSaveCKeeps,
             ReadFileKeeps, CheckOpenKeeps, ChooseDocumentKeeps, ApplyOpenKeeps,
             AddOpenedKeeps DEF Work

LEMMA FilesNextKeeps == ASSUME FilesInv, [FilesNext]_vars PROVE Kept
  <1>1. CASE CloseController
    BY <1>1, ShopUnchanged, QuietKeeps DEF CloseController, FilesInv
  <1>2. CASE CloseService
    BY <1>2, CloseServiceKeeps, QuietKeeps DEF CloseService, FilesInv
  <1>3. CASE UNCHANGED vars
    BY <1>3, ShopUnchanged, QuietKeeps DEF vars, ioVars, FilesInv
  <1> QED BY <1>1, <1>2, <1>3, EditKeeps, StartKeeps, ConvertKeeps, WorkKeeps DEF FilesNext

LEMMA FilesInitially == FilesInit => FilesInv /\ CleanWasWritten
  <1> SUFFICES ASSUME FilesInit PROVE FilesInv /\ CleanWasWritten OBVIOUS
  <1>1. IInv
    BY InitIInv DEF FilesInit
  <1>2. JobsOK /\ QueueOK
    BY Sizes DEF FilesInit, JobsOK, QueueOK
  <1>3. WorkersOK
    BY DEF FilesInit, WorkersOK, Idle, Jobs
  <1>4. ClosingOK
    BY DEF FilesInit, ClosingOK, Left, Idle, Gone
  <1>5. CleanWasWritten
    BY DEF FilesInit, Init, initialDocument, CleanWasWritten, Doc, DocumentOf, IdsOf
  <1> QED BY <1>1, <1>2, <1>3, <1>4, <1>5 DEF FilesInv, ShopInv

LEMMA FilesInvariance == FilesSpec => []FilesInv
  <1>1. FilesInit => FilesInv
    BY FilesInitially
  <1>2. ASSUME FilesInv, [FilesNext]_vars PROVE FilesInv'
    BY <1>2, FilesNextKeeps DEF Kept
  <1> QED BY <1>1, <1>2, PTL DEF FilesSpec

-----------------------------------------------------------------------------
(* Theorems. *)

(* The documents keep under the threads of the service what they keep       *)
(* alone, the queue keeps to its capacity, no two threads share a job, and  *)
(* a job that is under way has a thread.                                    *)
THEOREM FilesAreTyped == FilesSpec => []FilesTypeOK
  <1>1. ASSUME FilesInv PROVE FilesTypeOK
    <2>1. \A j \in DOMAIN jobs : jobs[j].stage \in Stages
      BY <1>1 DEF FilesInv, ShopInv, JobsOK, Fits, Operation
    <2>2. ASSUME NEW w \in Workers, NEW v \in Workers, at[w] = at[v], Busy(w) PROVE w = v
      BY <1>1, <2>2, BusyFacts DEF FilesInv
    <2>3. Stages \ (Answered \cup {"queued"}) = Running
      BY DEF Stages, Answered, Running
    <2>4. ASSUME NEW j \in DOMAIN jobs
          PROVE  jobs[j].stage \in Running <=> \E w \in Workers : at[w] = j
      <3>1. \A w \in Workers : at[w] = j => Busy(w)
        BY DEF Busy
      <3> QED BY <1>1, <3>1, BusyFacts DEF FilesInv, ShopInv, WorkersOK, Doing
    <2> QED BY <1>1, <2>1, <2>2, <2>3, <2>4, Zenon
            DEF FilesTypeOK, FilesInv, IInv, ShopInv, QueueOK, WorkersOK
  <1> QED BY <1>1, FilesInvariance, PTL

(* What the bundle promises alone, it promises while the threads of the     *)
(* service open and save behind the editor: it stays valid, and the mirrors *)
(* are those of the active document.                                        *)
THEOREM MirrorsUnderThreads == FilesSpec => [](TypeOK /\ MirrorsAgree)
  <1>1. FilesInv => TypeOK /\ MirrorsAgree
    BY DEF FilesInv, IInv
  <1> QED BY <1>1, FilesInvariance, PTL

(* The queue never exceeds its capacity, and after close every thread that  *)
(* has not returned finds a sentinel in it.                                 *)
THEOREM EveryWorkerIsTold == FilesSpec => []SentinelForEach
  <1>1. ASSUME FilesInv, retired
        PROVE  Cardinality({i \in DOMAIN queue : queue[i] = Exit})
                 >= Cardinality({w \in Workers : at[w] # Gone})
    <2>1. /\ queue \in Seq(Int) /\ DOMAIN queue = 1 .. Len(queue) /\ Len(queue) \in Nat
          /\ \A i \in DOMAIN queue : queue[i] = Exit
          /\ Len(queue) = Cardinality(Left)
      BY <1>1 DEF FilesInv, ShopInv, QueueOK, ClosingOK
    <2>2. {i \in DOMAIN queue : queue[i] = Exit} = 1 .. Len(queue)
      BY <2>1
    <2>3. Cardinality(1 .. Len(queue)) = Len(queue)
      BY <2>1, FS_Interval
    <2>4. Cardinality({i \in DOMAIN queue : queue[i] = Exit}) = Len(queue)
      BY <2>1, <2>2, <2>3
    <2>5. Cardinality({w \in Workers : at[w] # Gone}) = Len(queue)
      BY <2>1 DEF Left
    <2> QED BY <2>1, <2>4, <2>5
  <1>2. FilesInv => Len(queue) <= Capacity
    BY DEF FilesInv, ShopInv, QueueOK
  <1>3. FilesInv => SentinelForEach
    BY <1>1, <1>2 DEF SentinelForEach
  <1> QED BY <1>3, FilesInvariance, PTL

(* When the last thread has returned, every operation that was started has  *)
(* its answer.                                                              *)
THEOREM NobodyWaitsForTheGone == FilesSpec => []GoneMeansAnswered
  <1>1. ASSUME FilesInv, \A w \in Workers : at[w] = Gone, NEW j \in DOMAIN jobs
        PROVE  jobs[j].stage \in Answered
    <2>1. retired
      BY <1>1, Sizes DEF FilesInv, ShopInv, ClosingOK, Left
    <2>2. jobs[j].stage # "queued" /\ jobs[j].stage \in Stages
      BY <1>1, <2>1 DEF FilesInv, ShopInv, ClosingOK, JobsOK, Fits, Operation
    <2>3. jobs[j].stage \notin Running
      <3>1. j # Gone
        BY <1>1 DEF FilesInv, ShopInv, JobsOK, Gone
      <3> QED BY <1>1, <3>1 DEF FilesInv, ShopInv, WorkersOK
    <2> QED BY <2>2, <2>3 DEF Stages, Running
  <1>2. FilesInv => GoneMeansAnswered
    BY <1>1 DEF GoneMeansAnswered
  <1> QED BY <1>2, FilesInvariance, PTL

AllAccounted ==
    \A i \in DOMAIN documents :
       Unsaved(documents[i]) \/ Written(documents[i].path, documents[i].text)

LEMMA CleanIsAccounted == FilesInv => (CleanWasWritten <=> AllAccounted)
  <1> SUFFICES ASSUME FilesInv PROVE CleanWasWritten <=> AllAccounted OBVIOUS
  <1>1. \A i \in DOMAIN documents :
           documents[i].id \in IdsOf(documents) /\ Doc(documents[i].id) = documents[i]
    BY DocumentAt DEF FilesInv, IInv, TypeOK, Bundle, Doc, IdsOf
  <1>2. \A d \in IdsOf(documents) : \E i \in DOMAIN documents : documents[i] = Doc(d)
    BY DocumentIsIn DEF FilesInv, IInv, TypeOK, Bundle, Doc
  <1>3. \A d \in IdsOf(documents) :
           (Unsaved(Doc(d)) \/ Written(Doc(d).path, Doc(d).text)) <=>
           (~Doc(d).dirty /\ Doc(d).path # NoPath =>
              \E j \in DOMAIN jobs : /\ jobs[j].stage = "done"
                                     /\ jobs[j].path = Doc(d).path
                                     /\ jobs[j].text = Doc(d).text)
    BY DEF Unsaved, Written
  <1>4. CleanWasWritten <=>
          \A d \in IdsOf(documents) : Unsaved(Doc(d)) \/ Written(Doc(d).path, Doc(d).text)
    BY <1>3, Zenon DEF CleanWasWritten
  <1> QED BY <1>1, <1>2, <1>4 DEF AllAccounted

(* A clean document has a text some operation wrote to its file or read     *)
(* from it, whatever is typed while a save or an open is under way.         *)
THEOREM CleanComesFromItsFile == FilesSpec => []CleanWasWritten
  <1>1. ASSUME FilesInv, AllAccounted, [FilesNext]_vars PROVE AllAccounted'
    <2>1. Kept
      BY <1>1, FilesNextKeeps
    <2>2. ASSUME NEW p, NEW t, Written(p, t) PROVE Written(p, t)'
      BY <2>1, <2>2 DEF Kept, Settled, Written
    <2>3. ASSUME NEW i \in DOMAIN documents', Comes(documents'[i])
          PROVE  Unsaved(documents[i])' \/ Written(documents[i].path, documents[i].text)'
      <3>1. PICK j \in DOMAIN documents : SameOnDisk(documents'[i], documents[j])
        BY <2>3 DEF Comes
      <3>2. Unsaved(documents[j]) \/ Written(documents[j].path, documents[j].text)
        BY <1>1 DEF AllAccounted
      <3>3. CASE Unsaved(documents[j])
        BY <3>1, <3>3 DEF Unsaved, SameOnDisk
      <3>4. CASE Written(documents[j].path, documents[j].text)
        <4>1. Written(documents[j].path, documents[j].text)
          BY <3>4
        <4>2. PICK p, t : p = documents[j].path /\ t = documents[j].text /\ Written(p, t)
          BY <4>1
        <4>3. Written(p, t)'
          BY <2>2, <4>2
        <4> QED BY <3>1, <4>2, <4>3 DEF SameOnDisk, Written
      <3> QED BY <3>2, <3>3, <3>4
    <2>4. \A i \in DOMAIN documents' :
             Unsaved(documents[i])' \/ Written(documents[i].path, documents[i].text)'
      BY <2>1, <2>3 DEF Kept, Unsaved
    <2> QED BY <2>4 DEF AllAccounted
  <1> QED BY <1>1, CleanIsAccounted, FilesInitially, FilesInvariance, PTL DEF FilesSpec
=============================================================================
