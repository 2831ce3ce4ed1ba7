---------------------- MODULE InterviewPreparationProofs ----------------------
(***************************************************************************)
(* Machine-checked proofs about InterviewPreparation and the two modules   *)
(* it is made of, for any resumes, workers and deliveries, any questions   *)
(* and any bank that BankAssumption describes.                             *)
(*                                                                         *)
(* The first half follows a resume.  Its row has no lock, so what READY    *)
(* means rests on who works on it: a resume no two workers have had at     *)
(* once has one worker at most, and none once it is analysed (Alone).      *)
(* That there are never more analyses than deliveries, the bound of the    *)
(* type, takes a count of the workers that can still add one (Deliveries). *)
(* The second half follows the interview: the questions from the bank come *)
(* in the bank's order until the provider contributes one (InBankOrder).   *)
(***************************************************************************)
EXTENDS InterviewPreparation, FiniteSetTheorems, TLAPS

\* Before the dispatch of an upload nobody but the upload touches the resume.
Uploads ==
    \A r \in Resumes :
        /\ upload[r] \in {"unsent", "saved", "stored"} =>
              queue[r] = 0 /\ On(r) = {}
        /\ upload[r] \in {"unsent", "saved"} =>
              status[r] = "none" /\ removing[r] = "no" /\ r \notin halfDeleted
        /\ upload[r] = "saved" => r \in files

\* A DELETE that has removed the file finds none when it deletes the row.
Deletions ==
    \A r \in Resumes :
        /\ removing[r] = "file_gone" => r \in halfDeleted
        /\ r \in halfDeleted => r \notin files

\* Every delivery adds at most one analysis.
Deliveries ==
    \A r \in Resumes :
        /\ IsFiniteSet(On(r))
        /\ analyses[r] + Cardinality(On(r)) <= delivered[r]

\* A resume no two workers have had at once: one worker until it is READY.
Alone ==
    \A r \in Resumes \ overlapped :
        /\ \A w, x \in On(r) : w = x
        /\ analyses[r] > 0 => status[r] = "READY" /\ On(r) = {}

ResumesInv ==
    /\ ResumesTypeOK
    /\ Uploads
    /\ Deletions
    /\ FilesFollowRows
    /\ Deliveries
    /\ Alone
    /\ ReadyIsAnalysed

\* The interview's resume, READY when it was named, keeps its analysis.
Grounds == promised /\ resume # NoResume => analyses[resume] > 0

\* Questions that all come from the bank are its first ones.
InBankOrder ==
    ~provided => /\ Len(asked) <= Len(Bank)
                 /\ \A i \in 1..Len(asked) : asked[i] = Bank[i]

IInv ==
    /\ TypeOK
    /\ ResumesInv
    /\ Grounds
    /\ Grounded
    /\ QuestionsSound
    /\ InBankOrder
    /\ OutageSurvived

-------------------------------------------------------------------------------
(* Facts about the operators.                                               *)

Stages == [pc : {"seen", "marked", "read"}, resume : Resumes, view : RowStatuses \ {"READY"}]

LEMMA StageType ==
    ASSUME NEW r \in Resumes, NEW p \in {"seen", "marked", "read"},
           NEW v \in RowStatuses \ {"READY"}
    PROVE  /\ Stage(r, p, v) \in Stages
           /\ Stage(r, p, v) # Idle
           /\ Stage(r, p, v).resume = r
BY DEF Stage, Stages, Idle

\* A busy worker has a resume, and is among the workers on it.
LEMMA BusyWorker ==
    ASSUME ResumesTypeOK, NEW w \in Workers, Busy(w)
    PROVE  /\ worker[w] \in Stages
           /\ worker[w].resume \in Resumes
           /\ w \in On(worker[w].resume)
           /\ \A r \in Resumes : w \in On(r) => r = worker[w].resume
BY DEF ResumesTypeOK, Busy, On, Stages

\* A worker that goes on stays with its resume.
LEMMA OnGoesOn ==
    ASSUME ResumesTypeOK, NEW w \in Workers, Busy(w), NEW s \in Stages,
           s # Idle, s.resume = worker[w].resume, Goto(w, s)
    PROVE  /\ worker' \in [Workers -> {Idle} \cup Stages]
           /\ \A r \in Resumes : On(r)' = On(r)
<1>1. /\ worker \in [Workers -> {Idle} \cup Stages]
      /\ worker' = [worker EXCEPT ![w] = s]
  BY DEF ResumesTypeOK, Goto, Stages
<1>2. /\ worker' \in [Workers -> {Idle} \cup Stages]
      /\ worker'[w] = s
      /\ \A x \in Workers : x # w => worker'[x] = worker[x]
  BY <1>1
<1>3. ASSUME NEW r \in Resumes, NEW x \in Workers
      PROVE  (worker'[x] # Idle /\ worker'[x].resume = r)
               <=> (worker[x] # Idle /\ worker[x].resume = r)
  BY <1>2 DEF Busy
<1> QED
  BY <1>2, <1>3 DEF On, Busy

\* A worker that stops leaves its resume.
LEMMA OnStops ==
    ASSUME ResumesTypeOK, NEW w \in Workers, Busy(w), Goto(w, Idle)
    PROVE  /\ worker' \in [Workers -> {Idle} \cup Stages]
           /\ \A r \in Resumes :
                 On(r)' = IF r = worker[w].resume THEN On(r) \ {w} ELSE On(r)
<1>1. /\ worker \in [Workers -> {Idle} \cup Stages]
      /\ worker' = [worker EXCEPT ![w] = Idle]
  BY DEF ResumesTypeOK, Goto, Stages
<1>2. /\ worker' \in [Workers -> {Idle} \cup Stages]
      /\ worker'[w] = Idle
      /\ \A x \in Workers : x # w => worker'[x] = worker[x]
  BY <1>1
<1>3. ASSUME NEW r, NEW x \in Workers
      PROVE  (worker'[x] # Idle /\ worker'[x].resume = r)
               <=> (worker[x] # Idle /\ worker[x].resume = r /\ x # w)
  BY <1>2
<1>4. \A r \in Resumes : On(r)' = On(r) \ {w}
  BY <1>3 DEF On, Busy
<1>5. \A r \in Resumes : r # worker[w].resume => On(r) \ {w} = On(r)
  BY DEF On
<1> QED
  BY <1>2, <1>4, <1>5

\* A worker that starts joins the resume.
LEMMA OnStarts ==
    ASSUME ResumesTypeOK, NEW w \in Workers, ~Busy(w), NEW s \in Stages,
           s # Idle, Goto(w, s)
    PROVE  /\ worker' \in [Workers -> {Idle} \cup Stages]
           /\ On(s.resume)' = On(s.resume) \cup {w}
           /\ w \notin On(s.resume)
           /\ \A r \in Resumes : r # s.resume => On(r)' = On(r)
<1>1. /\ worker \in [Workers -> {Idle} \cup Stages]
      /\ worker' = [worker EXCEPT ![w] = s]
  BY DEF ResumesTypeOK, Goto, Stages
<1>2. /\ worker' \in [Workers -> {Idle} \cup Stages]
      /\ worker'[w] = s
      /\ \A x \in Workers : x # w => worker'[x] = worker[x]
  BY <1>1
<1>3. ASSUME NEW r, NEW x \in Workers
      PROVE  (worker'[x] # Idle /\ worker'[x].resume = r)
               <=> (worker[x] # Idle /\ worker[x].resume = r) \/ (x = w /\ s.resume = r)
  BY <1>2 DEF Busy
<1> QED
  BY <1>2, <1>3 DEF On, Busy

\* Nobody moves while no worker does.
LEMMA OnStays == ASSUME worker' = worker PROVE \A r : On(r)' = On(r)
BY DEF On, Busy

LEMMA ResumesInit_Inv == ResumesInit => ResumesInv
<1> SUFFICES ASSUME ResumesInit PROVE ResumesInv
  OBVIOUS
<1>1. MaxDeliveries \in Nat
  BY MaxDeliveriesAssumption
<1>2. \A r : On(r) = {}
  BY DEF ResumesInit, On, Busy
<1>3. ResumesTypeOK
  BY <1>1 DEF ResumesInit, ResumesTypeOK
<1>4. Uploads /\ Deletions /\ Alone
  BY <1>2 DEF ResumesInit, Uploads, Deletions, Alone
<1>5. FilesFollowRows /\ ReadyIsAnalysed
  BY DEF ResumesInit, FilesFollowRows, ReadyIsAnalysed
<1>6. Deliveries
  BY <1>2, FS_EmptySet DEF ResumesInit, Deliveries
<1> QED
  BY <1>3, <1>4, <1>5, <1>6 DEF ResumesInv

-------------------------------------------------------------------------------
(* Requests: no worker moves and no analysis is added.                      *)

\* What Deliveries and Alone rest on, left alone by most steps of a request.
LEMMA TasksUntouched ==
    ASSUME ResumesInv, UNCHANGED <<status, analyses, delivered, worker, overlapped>>
    PROVE  Deliveries' /\ Alone' /\ ReadyIsAnalysed' /\ \A r : On(r)' = On(r)
<1>1. \A r : On(r)' = On(r)
  BY OnStays
<1> QED
  BY <1>1 DEF ResumesInv, Deliveries, Alone, ReadyIsAnalysed

LEMMA UploadStep ==
    ASSUME ResumesInv, NEW r \in Resumes, SaveFile(r) \/ Dispatch(r) \/ UploadBreaks(r)
    PROVE  ResumesInv'
<1>1. UNCHANGED <<status, analyses, delivered, worker, overlapped, removing, halfDeleted, killed>>
  BY DEF SaveFile, Dispatch, UploadBreaks, rowVars, taskVars
<1>2. Deliveries' /\ Alone' /\ ReadyIsAnalysed' /\ \A x : On(x)' = On(x)
  BY <1>1, TasksUntouched
<1>3. CASE SaveFile(r)
  <2>1. /\ upload[r] = "unsent" /\ upload' = [upload EXCEPT ![r] = "saved"]
        /\ files' = files \cup {r} /\ queue' = queue
    BY <1>3 DEF SaveFile, UploadTo, taskVars
  <2>2. ResumesTypeOK'
    BY <1>1, <2>1 DEF ResumesInv, ResumesTypeOK
  <2>3. Uploads' /\ Deletions' /\ FilesFollowRows'
    BY <1>1, <1>2, <2>1
       DEF ResumesInv, ResumesTypeOK, Uploads, Deletions, FilesFollowRows
  <2> QED
    BY <1>2, <2>2, <2>3 DEF ResumesInv
<1>4. CASE Dispatch(r)
  <2>1. /\ upload[r] = "stored" /\ upload' = [upload EXCEPT ![r] = "over"]
        /\ files' = files /\ queue' = [queue EXCEPT ![r] = @ + 1]
    BY <1>4 DEF Dispatch, UploadTo
  <2>2. queue[r] = 0 /\ 1 \in 0..MaxDeliveries
    BY <2>1, MaxDeliveriesAssumption DEF ResumesInv, Uploads
  <2>3. queue' = [queue EXCEPT ![r] = 1]
    BY <2>1, <2>2
  <2>4. ResumesTypeOK'
    BY <1>1, <2>1, <2>2, <2>3 DEF ResumesInv, ResumesTypeOK
  <2>5. Uploads' /\ Deletions' /\ FilesFollowRows'
    BY <1>1, <1>2, <2>1, <2>3
       DEF ResumesInv, ResumesTypeOK, Uploads, Deletions, FilesFollowRows
  <2> QED
    BY <1>2, <2>4, <2>5 DEF ResumesInv
<1>5. CASE UploadBreaks(r)
  <2>1. /\ upload[r] \in {"saved", "stored"} /\ upload' = [upload EXCEPT ![r] = "broken"]
        /\ files' = files /\ queue' = queue
    BY <1>5 DEF UploadBreaks, taskVars
  <2>2. ResumesTypeOK'
    BY <1>1, <2>1 DEF ResumesInv, ResumesTypeOK
  <2>3. Uploads' /\ Deletions' /\ FilesFollowRows'
    BY <1>1, <1>2, <2>1
       DEF ResumesInv, ResumesTypeOK, Uploads, Deletions, FilesFollowRows
  <2> QED
    BY <1>2, <2>2, <2>3 DEF ResumesInv
<1> QED
  BY <1>3, <1>4, <1>5

LEMMA StoreRowStep ==
    ASSUME ResumesInv, NEW r \in Resumes, StoreRow(r) PROVE ResumesInv'
<1>1. /\ upload[r] = "saved" /\ upload' = [upload EXCEPT ![r] = "stored"]
      /\ status' = [status EXCEPT ![r] = "UPLOADED"]
      /\ UNCHANGED <<files, analyses, removing, halfDeleted, queue, delivered, worker,
                     overlapped, killed>>
  BY DEF StoreRow, UploadTo, taskVars
<1>2. \A x : On(x)' = On(x)
  BY <1>1, OnStays
<1>3. status[r] = "none" /\ analyses[r] = 0 /\ r \in files
  BY <1>1 DEF ResumesInv, Uploads, ReadyIsAnalysed
<1>4. ResumesTypeOK'
  BY <1>1 DEF ResumesInv, ResumesTypeOK, RowStatuses
<1>5. Uploads' /\ Deletions' /\ FilesFollowRows'
  BY <1>1, <1>2, <1>3 DEF ResumesInv, ResumesTypeOK, Uploads, Deletions, FilesFollowRows
<1>6. Deliveries'
  BY <1>1, <1>2 DEF ResumesInv, Deliveries
<1>7. Alone' /\ ReadyIsAnalysed'
  BY <1>1, <1>2, <1>3 DEF ResumesInv, ResumesTypeOK, Alone, ReadyIsAnalysed
<1> QED
  BY <1>4, <1>5, <1>6, <1>7 DEF ResumesInv

LEMMA RemovalStep ==
    ASSUME ResumesInv, NEW r \in Resumes, FindRow(r) \/ RemoveFile(r) \/ DeleteBreaks(r)
    PROVE  ResumesInv'
<1>1. UNCHANGED <<status, analyses, delivered, worker, overlapped, upload, queue, killed>>
  BY DEF FindRow, RemoveFile, DeleteBreaks, rowVars, taskVars
<1>2. Deliveries' /\ Alone' /\ ReadyIsAnalysed' /\ \A x : On(x)' = On(x)
  BY <1>1, TasksUntouched
<1>3. CASE FindRow(r)
  <2>1. /\ status[r] # "none" /\ removing' = [removing EXCEPT ![r] = "found"]
        /\ files' = files /\ halfDeleted' = halfDeleted
    BY <1>3 DEF FindRow
  <2>2. ResumesTypeOK'
    BY <1>1, <2>1 DEF ResumesInv, ResumesTypeOK
  <2>3. Uploads' /\ Deletions' /\ FilesFollowRows'
    BY <1>1, <1>2, <2>1
       DEF ResumesInv, ResumesTypeOK, Uploads, Deletions, FilesFollowRows
  <2> QED
    BY <1>2, <2>2, <2>3 DEF ResumesInv
<1>4. CASE RemoveFile(r)
  <2>1. /\ removing[r] = "found" /\ removing' = [removing EXCEPT ![r] = "file_gone"]
        /\ files' = files \ {r} /\ halfDeleted' = halfDeleted \cup {r}
    BY <1>4 DEF RemoveFile
  <2>2. ResumesTypeOK'
    BY <1>1, <2>1 DEF ResumesInv, ResumesTypeOK
  <2>3. upload[r] \notin {"unsent", "saved"}
    BY <2>1 DEF ResumesInv, Uploads
  <2>4. Uploads' /\ Deletions' /\ FilesFollowRows'
    BY <1>1, <1>2, <2>1, <2>3
       DEF ResumesInv, ResumesTypeOK, Uploads, Deletions, FilesFollowRows
  <2> QED
    BY <1>2, <2>2, <2>4 DEF ResumesInv
<1>5. CASE DeleteBreaks(r)
  <2>1. /\ removing' = [removing EXCEPT ![r] = "no"]
        /\ files' = files /\ halfDeleted' = halfDeleted
    BY <1>5 DEF DeleteBreaks
  <2>2. ResumesTypeOK'
    BY <1>1, <2>1 DEF ResumesInv, ResumesTypeOK
  <2>3. Uploads' /\ Deletions' /\ FilesFollowRows'
    BY <1>1, <1>2, <2>1
       DEF ResumesInv, ResumesTypeOK, Uploads, Deletions, FilesFollowRows
  <2> QED
    BY <1>2, <2>2, <2>3 DEF ResumesInv
<1> QED
  BY <1>3, <1>4, <1>5

LEMMA DeleteRowStep ==
    ASSUME ResumesInv, NEW r \in Resumes, DeleteRow(r) PROVE ResumesInv'
<1>1. /\ removing[r] = "file_gone" /\ removing' = [removing EXCEPT ![r] = "no"]
      /\ status' = [status EXCEPT ![r] = "none"]
      /\ analyses' = [analyses EXCEPT ![r] = 0]
      /\ halfDeleted' = halfDeleted \ {r}
      /\ UNCHANGED <<files, upload, queue, delivered, worker, overlapped, killed>>
  BY DEF DeleteRow, taskVars
<1>2. \A x : On(x)' = On(x)
  BY <1>1, OnStays
<1>3. r \notin files /\ upload[r] \notin {"unsent", "saved"}
  BY <1>1 DEF ResumesInv, Uploads, Deletions
<1>4. ResumesTypeOK'
  BY <1>1, MaxDeliveriesAssumption DEF ResumesInv, ResumesTypeOK
<1>5. Uploads' /\ Deletions' /\ FilesFollowRows'
  BY <1>1, <1>2, <1>3 DEF ResumesInv, ResumesTypeOK, Uploads, Deletions, FilesFollowRows
<1>6. Deliveries'
  <2>1. \A x \in Resumes : /\ analyses'[x] \in Nat /\ analyses[x] \in Nat
                           /\ analyses'[x] <= analyses[x]
                           /\ delivered[x] \in Nat
    BY <1>1 DEF ResumesInv, ResumesTypeOK
  <2>2. \A x \in Resumes : IsFiniteSet(On(x)) /\ Cardinality(On(x)) \in Nat
    BY FS_CardinalityType DEF ResumesInv, Deliveries
  <2>3. \A x \in Resumes : analyses[x] + Cardinality(On(x)) <= delivered[x]
    BY DEF ResumesInv, Deliveries
  <2>4. \A x \in Resumes : analyses'[x] + Cardinality(On(x)) <= delivered[x]
    BY <2>1, <2>2, <2>3
  <2> QED
    BY <1>1, <1>2, <2>2, <2>4 DEF Deliveries
<1>7. Alone' /\ ReadyIsAnalysed'
  BY <1>1, <1>2 DEF ResumesInv, ResumesTypeOK, Alone, ReadyIsAnalysed
<1> QED
  BY <1>4, <1>5, <1>6, <1>7 DEF ResumesInv

-------------------------------------------------------------------------------
(* Tasks.                                                                   *)

\* A task that goes on may write PROCESSING, never over the analysed row of a
\* resume it has alone.
LEMMA TaskGoesOn ==
    ASSUME ResumesInv, NEW w \in Workers, Busy(w),
           NEW r \in Resumes, r = worker[w].resume,
           NEW s \in Stages, s # Idle, s.resume = r, Goto(w, s), RowsOnly,
           UNCHANGED <<analyses, queue, delivered, overlapped, killed>>,
           \/ status' = status
           \/ status[r] # "none" /\ status' = [status EXCEPT ![r] = "PROCESSING"]
    PROVE  ResumesInv'
<1>1. /\ worker' \in [Workers -> {Idle} \cup Stages]
      /\ \A x \in Resumes : On(x)' = On(x)
  BY OnGoesOn DEF ResumesInv
<1>2. w \in On(r)
  BY BusyWorker DEF ResumesInv
<1>3. upload[r] \notin {"unsent", "saved", "stored"}
  BY <1>2 DEF ResumesInv, Uploads
<1>4. status' \in [Resumes -> RowStatuses \cup {"none"}]
  BY DEF ResumesInv, ResumesTypeOK, RowStatuses
<1>5. \A x \in Resumes : /\ status'[x] = "none" <=> status[x] = "none"
                         /\ x # r => status'[x] = status[x]
                         /\ status'[x] = "READY" => status[x] = "READY"
  BY <1>4 DEF ResumesInv, ResumesTypeOK
<1>6. ResumesTypeOK'
  BY <1>1, <1>4 DEF ResumesInv, ResumesTypeOK, RowsOnly, Stages
<1>7. Uploads' /\ Deletions' /\ FilesFollowRows'
  BY <1>1, <1>5 DEF ResumesInv, Uploads, Deletions, FilesFollowRows, RowsOnly
<1>8. Deliveries'
  BY <1>1 DEF ResumesInv, Deliveries
<1>9. Alone'
  BY <1>1, <1>2, <1>5 DEF ResumesInv, Alone
<1>10. ReadyIsAnalysed'
  BY <1>5 DEF ResumesInv, ReadyIsAnalysed
<1> QED
  BY <1>6, <1>7, <1>8, <1>9, <1>10 DEF ResumesInv

\* A task that stops leaves the row as it is, or FAILED, or READY with one more
\* analysis: the first one, if it had the resume alone.
LEMMA TaskStops ==
    ASSUME ResumesInv, NEW w \in Workers, Busy(w),
           NEW r \in Resumes, r = worker[w].resume,
           Goto(w, Idle), RowsOnly, UNCHANGED <<delivered, overlapped>>,
           killed' \subseteq Resumes,
           \/ queue' = queue
           \/ queue[r] < MaxDeliveries /\ queue' = [queue EXCEPT ![r] = @ + 1],
           \/ UNCHANGED rowVars
           \/ /\ status[r] # "none" /\ status' = [status EXCEPT ![r] = "FAILED"]
              /\ analyses' = analyses
           \/ /\ status[r] # "none" /\ status' = [status EXCEPT ![r] = "READY"]
              /\ analyses' = [analyses EXCEPT ![r] = @ + 1]
    PROVE  ResumesInv'
<1>1. /\ worker' \in [Workers -> {Idle} \cup Stages]
      /\ \A x \in Resumes : On(x)' = IF x = r THEN On(x) \ {w} ELSE On(x)
  BY OnStops DEF ResumesInv
<1>2. w \in On(r)
  BY BusyWorker DEF ResumesInv
<1>3. upload[r] \notin {"unsent", "saved", "stored"}
  BY <1>2 DEF ResumesInv, Uploads
<1>4. status' \in [Resumes -> RowStatuses \cup {"none"}]
  BY DEF ResumesInv, ResumesTypeOK, RowStatuses, rowVars
<1>5. \A x \in Resumes : /\ status'[x] = "none" <=> status[x] = "none"
                         /\ x # r => status'[x] = status[x] /\ analyses'[x] = analyses[x]
  BY <1>4 DEF ResumesInv, ResumesTypeOK, rowVars
<1>6. /\ \A x \in Resumes : analyses[x] \in Nat /\ delivered[x] \in 0..MaxDeliveries
      /\ MaxDeliveries \in Nat
  BY MaxDeliveriesAssumption DEF ResumesInv, ResumesTypeOK
<1>7. /\ IsFiniteSet(On(r) \ {w})
      /\ Cardinality(On(r) \ {w}) = Cardinality(On(r)) - 1
      /\ Cardinality(On(r)) \in Nat /\ Cardinality(On(r)) # 0
      /\ analyses[r] + Cardinality(On(r)) <= delivered[r]
  BY <1>2, FS_RemoveElement, FS_CardinalityType, FS_EmptySet DEF ResumesInv, Deliveries
<1>8. analyses'[r] \in {analyses[r], analyses[r] + 1}
  BY DEF ResumesInv, ResumesTypeOK, rowVars
<1>9. /\ analyses'[r] \in 0..MaxDeliveries
      /\ analyses'[r] + Cardinality(On(r) \ {w}) <= delivered[r]
  BY <1>6, <1>7, <1>8
<1>10. analyses' \in [Resumes -> 0..MaxDeliveries]
  BY <1>9 DEF ResumesInv, ResumesTypeOK, rowVars
<1>11. queue' \in [Resumes -> 0..MaxDeliveries] /\ \A x \in Resumes : x # r => queue'[x] = queue[x]
  BY <1>6 DEF ResumesInv, ResumesTypeOK
<1>12. ResumesTypeOK'
  BY <1>1, <1>4, <1>10, <1>11 DEF ResumesInv, ResumesTypeOK, RowsOnly, Stages
<1>13. Uploads' /\ Deletions' /\ FilesFollowRows'
  BY <1>1, <1>3, <1>5, <1>11 DEF ResumesInv, Uploads, Deletions, FilesFollowRows, RowsOnly
<1>14. Deliveries'
  <2> SUFFICES ASSUME NEW x \in Resumes
               PROVE  /\ IsFiniteSet(On(x)')
                      /\ analyses'[x] + Cardinality(On(x)') <= delivered[x]
    BY DEF Deliveries
  <2>1. CASE x = r
    BY <1>1, <1>7, <1>9, <2>1
  <2>2. CASE x # r
    BY <1>1, <1>5, <2>2 DEF ResumesInv, Deliveries
  <2> QED
    BY <2>1, <2>2
<1>15. r \notin overlapped => analyses[r] = 0 /\ \A x \in On(r) : x = w
  BY <1>2, <1>6 DEF ResumesInv, Alone
<1>16. analyses[r] = 0 => UNCHANGED analyses \/ (analyses'[r] = 1 /\ status'[r] = "READY")
  BY DEF ResumesInv, ResumesTypeOK, rowVars
<1>17. Alone'
  <2> SUFFICES ASSUME NEW x \in Resumes \ overlapped
               PROVE  /\ \A v, u \in On(x)' : v = u
                      /\ analyses'[x] > 0 => status'[x] = "READY" /\ On(x)' = {}
    BY DEF Alone
  <2>1. CASE x = r
    BY <1>1, <1>15, <1>16, <2>1
  <2>2. CASE x # r
    BY <1>1, <1>5, <2>2 DEF ResumesInv, Alone
  <2> QED
    BY <2>1, <2>2
<1>18. ReadyIsAnalysed'
  <2> SUFFICES ASSUME NEW x \in Resumes
               PROVE  /\ status'[x] = "READY" => analyses'[x] > 0
                      /\ analyses'[x] > 1 => x \in overlapped
                      /\ status'[x] = "none" => analyses'[x] = 0
    BY DEF ReadyIsAnalysed
  <2>1. CASE x = r
    <3>1. /\ status[r] = "READY" => analyses[r] > 0
          /\ status[r] = "none" => analyses[r] = 0
          /\ status'[r] = "none" => analyses'[r] = analyses[r]
      BY DEF ResumesInv, ReadyIsAnalysed, ResumesTypeOK, rowVars
    <3>2. status'[r] = "READY" => analyses'[r] > 0
      <4>1. \/ status'[r] = status[r] /\ analyses'[r] = analyses[r]
            \/ status'[r] = "FAILED"
            \/ analyses'[r] = analyses[r] + 1
        BY DEF ResumesInv, ResumesTypeOK, rowVars
      <4> QED
        BY <1>6, <3>1, <4>1
    <3>3. analyses'[r] > 1 => r \in overlapped
      BY <1>15, <1>16
    <3> QED
      BY <1>5, <2>1, <3>1, <3>2, <3>3
  <2>2. CASE x # r
    BY <1>5, <2>2 DEF ResumesInv, ReadyIsAnalysed
  <2> QED
    BY <2>1, <2>2
<1> QED
  BY <1>12, <1>13, <1>14, <1>17, <1>18 DEF ResumesInv

LEMMA GiveUpStep ==
    ASSUME ResumesInv, NEW w \in Workers, Busy(w), GiveUp(w), RowsOnly
    PROVE  ResumesInv'
<1>1. PICK r \in Resumes : r = worker[w].resume
  BY BusyWorker DEF ResumesInv
<1>2. /\ status' = [status EXCEPT ![r] = IF @ = "none" THEN @ ELSE "FAILED"]
      /\ analyses' = analyses /\ Goto(w, Idle)
      /\ UNCHANGED <<queue, delivered, overlapped, killed>>
  BY <1>1 DEF GiveUp, Done
<1>3. killed' \subseteq Resumes
  BY <1>2 DEF ResumesInv, ResumesTypeOK
<1>4. CASE status[r] = "none"
  <2>1. UNCHANGED rowVars
    BY <1>2, <1>4 DEF rowVars, ResumesInv, ResumesTypeOK
  <2> QED
    BY <1>1, <1>2, <1>3, <2>1, TaskStops
<1>5. CASE status[r] # "none"
  <2>1. status' = [status EXCEPT ![r] = "FAILED"]
    BY <1>2, <1>5
  <2> QED
    BY <1>1, <1>2, <1>3, <1>5, <2>1, TaskStops
<1> QED
  BY <1>4, <1>5

LEMMA MarkStep == ASSUME ResumesInv, NEW w \in Workers, Mark(w) PROVE ResumesInv'
<1>1. Busy(w) /\ RowsOnly
  BY DEF Mark, At
<1>2. PICK r \in Resumes : r = worker[w].resume
  BY <1>1, BusyWorker DEF ResumesInv
<1>3. CASE status[r] = "none" /\ worker[w].view # "PROCESSING"
  BY <1>1, <1>2, <1>3, GiveUpStep DEF Mark
<1>4. CASE ~(status[r] = "none" /\ worker[w].view # "PROCESSING")
  <2>1. /\ Goto(w, Stage(r, "marked", "PROCESSING"))
        /\ UNCHANGED <<analyses, queue, delivered, overlapped, killed>>
        /\ \/ status' = status
           \/ status[r] # "none" /\ status' = [status EXCEPT ![r] = "PROCESSING"]
    BY <1>2, <1>4 DEF Mark
  <2>2. /\ Stage(r, "marked", "PROCESSING") \in Stages
        /\ Stage(r, "marked", "PROCESSING") # Idle
        /\ Stage(r, "marked", "PROCESSING").resume = r
    BY StageType DEF RowStatuses
  <2> QED
    BY <1>1, <1>2, <2>1, <2>2, TaskGoesOn
<1> QED
  BY <1>3, <1>4

LEMMA ReadFileStep == ASSUME ResumesInv, NEW w \in Workers, ReadFile(w) PROVE ResumesInv'
<1>1. Busy(w) /\ RowsOnly
  BY DEF ReadFile, At
<1>2. PICK r \in Resumes : r = worker[w].resume
  BY <1>1, BusyWorker DEF ResumesInv
<1>3. /\ Goto(w, Stage(r, "read", "PROCESSING"))
      /\ UNCHANGED <<status, analyses, queue, delivered, overlapped, killed>>
  BY <1>2 DEF ReadFile, rowVars
<1>4. /\ Stage(r, "read", "PROCESSING") \in Stages
      /\ Stage(r, "read", "PROCESSING") # Idle
      /\ Stage(r, "read", "PROCESSING").resume = r
  BY StageType DEF RowStatuses
<1> QED
  BY <1>1, <1>2, <1>3, <1>4, TaskGoesOn

LEMMA SaveAnalysisStep ==
    ASSUME ResumesInv, NEW w \in Workers, SaveAnalysis(w), RowsOnly PROVE ResumesInv'
<1>1. Busy(w)
  BY DEF SaveAnalysis, At
<1>2. PICK r \in Resumes : r = worker[w].resume
  BY <1>1, BusyWorker DEF ResumesInv
<1>3. /\ status[r] # "none" /\ status' = [status EXCEPT ![r] = "READY"]
      /\ analyses' = [analyses EXCEPT ![r] = @ + 1]
      /\ Goto(w, Idle) /\ UNCHANGED <<queue, delivered, overlapped, killed>>
  BY <1>2 DEF SaveAnalysis, Done
<1>4. killed' \subseteq Resumes
  BY <1>3 DEF ResumesInv, ResumesTypeOK
<1> QED
  BY <1>1, <1>2, <1>3, <1>4, TaskStops

LEMMA WorkerStep == ASSUME ResumesInv, NEW w \in Workers, Worker(w) PROVE ResumesInv'
<1>1. CASE Work(w)
  <2>1. ReadFails(w) \/ SaveFails(w) => Busy(w) /\ GiveUp(w) /\ RowsOnly
    BY DEF ReadFails, SaveFails, At
  <2> QED
    BY <1>1, <2>1, MarkStep, ReadFileStep, SaveAnalysisStep, GiveUpStep DEF Work
<1>2. CASE Die(w)
  <2>1. Busy(w)
    BY <1>2 DEF Die
  <2>2. PICK r \in Resumes : r = worker[w].resume
    BY <2>1, BusyWorker DEF ResumesInv
  <2>3. /\ delivered[r] + queue[r] < MaxDeliveries
        /\ queue' = [queue EXCEPT ![r] = @ + 1]
        /\ Goto(w, Idle) /\ RowsOnly
        /\ UNCHANGED <<rowVars, delivered, overlapped, killed>>
    BY <1>2, <2>2 DEF Die
  <2>4. queue[r] < MaxDeliveries /\ killed' \subseteq Resumes
    BY <2>3, MaxDeliveriesAssumption DEF ResumesInv, ResumesTypeOK
  <2> QED
    BY <2>1, <2>2, <2>3, <2>4, TaskStops
<1>3. CASE TimeLimit(w)
  <2>1. Busy(w)
    BY <1>3 DEF TimeLimit
  <2>2. PICK r \in Resumes : r = worker[w].resume
    BY <2>1, BusyWorker DEF ResumesInv
  <2>3. /\ killed' = killed \cup {r} /\ queue' = queue
        /\ Goto(w, Idle) /\ RowsOnly
        /\ UNCHANGED <<rowVars, delivered, overlapped>>
    BY <1>3, <2>2 DEF TimeLimit
  <2>4. killed' \subseteq Resumes
    BY <2>3 DEF ResumesInv, ResumesTypeOK
  <2> QED
    BY <2>1, <2>2, <2>3, <2>4, TaskStops
<1> QED
  BY <1>1, <1>2, <1>3 DEF Worker

LEMMA RedeliverStep == ASSUME ResumesInv, NEW r \in Resumes, Redeliver(r) PROVE ResumesInv'
<1>1. /\ On(r) # {} /\ delivered[r] + queue[r] < MaxDeliveries
      /\ queue' = [queue EXCEPT ![r] = @ + 1]
      /\ UNCHANGED <<files, upload, removing, halfDeleted, status, analyses, delivered,
                     worker, overlapped, killed>>
  BY DEF Redeliver, RowsOnly, rowVars
<1>2. Deliveries' /\ Alone' /\ ReadyIsAnalysed' /\ \A x : On(x)' = On(x)
  BY <1>1, TasksUntouched
<1>3. upload[r] \notin {"unsent", "saved", "stored"}
  BY <1>1 DEF ResumesInv, Uploads
<1>4. queue' \in [Resumes -> 0..MaxDeliveries] /\ \A x \in Resumes : x # r => queue'[x] = queue[x]
  <2>1. queue[r] + 1 \in 0..MaxDeliveries
    BY <1>1, MaxDeliveriesAssumption DEF ResumesInv, ResumesTypeOK
  <2> QED
    BY <1>1, <2>1 DEF ResumesInv, ResumesTypeOK
<1>5. ResumesTypeOK'
  BY <1>1, <1>4 DEF ResumesInv, ResumesTypeOK
<1>6. Uploads' /\ Deletions' /\ FilesFollowRows'
  BY <1>1, <1>2, <1>3, <1>4 DEF ResumesInv, Uploads, Deletions, FilesFollowRows
<1> QED
  BY <1>2, <1>5, <1>6 DEF ResumesInv

LEMMA TakeStep ==
    ASSUME ResumesInv, NEW w \in Workers, NEW r \in Resumes, Take(w, r) PROVE ResumesInv'
<1>1. /\ ~Busy(w) /\ queue[r] > 0 /\ delivered[r] < MaxDeliveries
      /\ queue' = [queue EXCEPT ![r] = @ - 1]
      /\ delivered' = [delivered EXCEPT ![r] = @ + 1]
      /\ UNCHANGED <<files, upload, removing, halfDeleted, status, analyses, killed>>
  BY DEF Take, RowsOnly, rowVars
<1>2. MaxDeliveries \in Nat /\ \A x \in Resumes : /\ delivered[x] \in 0..MaxDeliveries
                                                  /\ queue[x] \in 0..MaxDeliveries
                                                  /\ analyses[x] \in Nat
  BY MaxDeliveriesAssumption DEF ResumesInv, ResumesTypeOK
<1>3. /\ queue[r] - 1 \in 0..MaxDeliveries /\ delivered[r] + 1 \in 0..MaxDeliveries
      /\ queue[r] # 0
  BY <1>1, <1>2
<1>4. /\ queue' \in [Resumes -> 0..MaxDeliveries]
      /\ delivered' \in [Resumes -> 0..MaxDeliveries]
      /\ delivered'[r] = delivered[r] + 1
      /\ \A x \in Resumes : x # r => queue'[x] = queue[x] /\ delivered'[x] = delivered[x]
  BY <1>1, <1>3 DEF ResumesInv, ResumesTypeOK
<1>5. upload[r] \notin {"unsent", "saved", "stored"}
  BY <1>3 DEF ResumesInv, Uploads
<1>6. \A x \in Resumes :
        /\ IsFiniteSet(On(x)) /\ Cardinality(On(x)) \in Nat
        /\ analyses[x] + Cardinality(On(x)) <= delivered[x]
  BY FS_CardinalityType DEF ResumesInv, Deliveries
<1>7. Deletions' /\ FilesFollowRows'
  BY <1>1 DEF ResumesInv, Deletions, FilesFollowRows
<1>8. CASE status[r] \in {"none", "READY"}
  <2>1. worker' = worker /\ overlapped' = overlapped
    BY <1>8 DEF Take
  <2>2. \A x : On(x)' = On(x)
    BY <2>1, OnStays
  <2>3. ResumesTypeOK'
    BY <1>1, <1>4, <2>1 DEF ResumesInv, ResumesTypeOK
  <2>4. Uploads'
    BY <1>1, <1>4, <1>5, <2>2 DEF ResumesInv, Uploads
  <2>5. \A x \in Resumes : analyses[x] + Cardinality(On(x)) <= delivered'[x]
    BY <1>2, <1>4, <1>6
  <2>6. Deliveries'
    BY <1>1, <1>6, <2>2, <2>5 DEF Deliveries
  <2>7. Alone' /\ ReadyIsAnalysed'
    BY <1>1, <2>1, <2>2 DEF ResumesInv, Alone, ReadyIsAnalysed
  <2> QED
    BY <1>7, <2>3, <2>4, <2>6, <2>7 DEF ResumesInv
<1>9. CASE status[r] \notin {"none", "READY"}
  <2> DEFINE s == Stage(r, "seen", status[r])
  <2>1. /\ Goto(w, s)
        /\ overlapped' = IF On(r) # {} THEN overlapped \cup {r} ELSE overlapped
    BY <1>9 DEF Take
  <2>2. s \in Stages /\ s # Idle /\ s.resume = r
    <3>1. status[r] \in RowStatuses \ {"READY"}
      BY <1>9 DEF ResumesInv, ResumesTypeOK
    <3> QED
      BY <3>1, StageType
  <2> HIDE DEF s
  <2>3. /\ worker' \in [Workers -> {Idle} \cup Stages]
        /\ On(r)' = On(r) \cup {w}
        /\ w \notin On(r)
        /\ \A x \in Resumes : x # r => On(x)' = On(x)
    BY <1>1, <2>1, <2>2, OnStarts DEF ResumesInv
  <2>4. overlapped \subseteq overlapped' /\ overlapped' \subseteq Resumes
    BY <2>1 DEF ResumesInv, ResumesTypeOK
  <2>5. ResumesTypeOK'
    BY <1>1, <1>4, <2>3, <2>4 DEF ResumesInv, ResumesTypeOK, Stages
  <2>6. Uploads'
    BY <1>1, <1>4, <1>5, <2>3 DEF ResumesInv, Uploads
  <2>7. Deliveries'
    <3> SUFFICES ASSUME NEW x \in Resumes
                 PROVE  /\ IsFiniteSet(On(x)')
                        /\ analyses[x] + Cardinality(On(x)') <= delivered'[x]
      BY <1>1 DEF Deliveries
    <3>1. CASE x = r
      <4>1. /\ IsFiniteSet(On(r) \cup {w})
            /\ Cardinality(On(r) \cup {w}) = Cardinality(On(r)) + 1
        BY <1>6, <2>3, FS_AddElement
      <4>2. analyses[r] + (Cardinality(On(r)) + 1) <= delivered[r] + 1
        BY <1>2, <1>6
      <4> QED
        BY <1>4, <2>3, <3>1, <4>1, <4>2
    <3>2. CASE x # r
      BY <1>4, <1>6, <2>3, <3>2
    <3> QED
      BY <3>1, <3>2
  <2>8. Alone'
    <3> SUFFICES ASSUME NEW x \in Resumes \ overlapped'
                 PROVE  /\ \A v, u \in On(x)' : v = u
                        /\ analyses[x] > 0 => status[x] = "READY" /\ On(x)' = {}
      BY <1>1 DEF Alone
    <3>1. CASE x = r
      <4>1. On(r) = {} /\ r \notin overlapped
        BY <2>1, <2>4, <3>1
      <4> QED
        BY <1>9, <2>3, <3>1, <4>1 DEF ResumesInv, Alone
    <3>2. CASE x # r
      BY <2>3, <2>4, <3>2 DEF ResumesInv, Alone
    <3> QED
      BY <3>1, <3>2
  <2>9. ReadyIsAnalysed'
    BY <1>1, <2>4 DEF ResumesInv, ReadyIsAnalysed
  <2> QED
    BY <1>7, <2>5, <2>6, <2>7, <2>8, <2>9 DEF ResumesInv
<1> QED
  BY <1>8, <1>9

-------------------------------------------------------------------------------
(* Questions.                                                               *)

LEMMA BoundedSeqIs ==
    ASSUME NEW S, NEW n \in Nat, NEW s
    PROVE  s \in BoundedSeq(S, n) <=> s \in Seq(S) /\ Len(s) <= n
<1>1. ASSUME s \in BoundedSeq(S, n) PROVE s \in Seq(S) /\ Len(s) <= n
  <2>1. PICK m \in 0..n : s \in [1..m -> S]
    BY <1>1 DEF BoundedSeq, SeqOf
  <2> QED
    BY <2>1
<1>2. ASSUME s \in Seq(S), Len(s) <= n PROVE s \in BoundedSeq(S, n)
  <2>1. s \in [1..Len(s) -> S] /\ Len(s) \in 0..n
    BY <1>2
  <2> QED
    BY <2>1 DEF BoundedSeq, SeqOf
<1> QED
  BY <1>1, <1>2

LEMMA NoQuestionsYet ==
    ASSUME NEW s, s = <<>>
    PROVE  s \in BoundedSeq(Questions, TotalQuestions)
<1>1. s \in Seq(Questions) /\ Len(s) = 0
  OBVIOUS
<1>2. Len(s) <= TotalQuestions /\ TotalQuestions \in Nat
  BY <1>1, PreparationAssumption
<1> QED
  BY <1>1, <1>2, BoundedSeqIs, Zenon

LEMMA MinIs ==
    ASSUME NEW S \in SUBSET Nat, NEW m \in S, \A x \in S : m <= x
    PROVE  Min(S) = m
<1> DEFINE IsMin(x) == x \in S /\ \A y \in S : x <= y
<1>1. IsMin(m)
  OBVIOUS
<1>2. IsMin(Min(S))
  BY <1>1 DEF Min
<1>3. \A x : IsMin(x) => x = m
  <2> SUFFICES ASSUME NEW x, IsMin(x) PROVE x = m
    OBVIOUS
  <2>1. x \in Nat /\ m \in Nat /\ x <= m /\ m <= x
    OBVIOUS
  <2> QED
    BY <2>1
<1> QED
  BY <1>2, <1>3

\* Whatever generate returns has passed validate_question.
LEMMA GeneratedIsAccepted ==
    ASSUME NEW s, NEW replies, Generate(s, replies) \in Questions
    PROVE  Accepted(Generate(s, replies), s)
<1>1. Exhausted \notin Questions /\ Rejected \notin Questions
  BY ExceptionsAssumption
<1>2. CASE Provided(s, replies)
  BY <1>2 DEF Generate, Provided
<1>3. CASE ~Provided(s, replies)
  BY <1>1, <1>3 DEF Generate, Fallback
<1> QED
  BY <1>2, <1>3

\* With the first entries of the bank asked, the next one is found and accepted.
LEMMA NextOfBank ==
    ASSUME NEW s \in Seq(Questions), Len(s) < Len(Bank),
           \A i \in 1..Len(s) : s[i] = Bank[i]
    PROVE  /\ Len(s) + 1 \in DOMAIN Bank
           /\ Bank[Len(s) + 1] \in Questions
           /\ Fallback(s) = Bank[Len(s) + 1]
<1> DEFINE m == Len(s) + 1
           free == {n \in DOMAIN Bank : Bank[n] \notin ToSet(s)}
<1>1. /\ Bank \in Seq(Questions) /\ DOMAIN Bank = 1..Len(Bank) /\ Len(Bank) \in Nat
      /\ DOMAIN s = 1..Len(s) /\ Len(s) \in Nat
      /\ Fits \subseteq Questions
  BY QuestionsAssumption
<1>2. m \in DOMAIN Bank /\ m \in Nat /\ \A i \in DOMAIN s : i \in DOMAIN Bank /\ i # m
  BY <1>1
<1>3. Bank[m] \in Fits /\ \A i \in DOMAIN s : Bank[m] # s[i] /\ <<Bank[m], s[i]>> \notin Within
  BY <1>1, <1>2, BankAssumption
<1>4. Accepted(Bank[m], s) /\ Bank[m] \notin ToSet(s)
  BY <1>3 DEF Accepted, Repeats, ToSet
<1>5. m \in free /\ free \in SUBSET Nat
  BY <1>1, <1>2, <1>4
<1>6. \A x \in free : m <= x
  <2> SUFFICES ASSUME NEW x \in free, x < m PROVE FALSE
    BY <1>2, <1>5
  <2>1. x \in DOMAIN s /\ Bank[x] = s[x]
    BY <1>1, <1>5
  <2> QED
    BY <2>1 DEF ToSet
<1>7. Min(free) = m
  BY <1>5, <1>6, MinIs
<1>8. FindOne(s) = Bank[m]
  BY <1>5, <1>7 DEF FindOne
<1>9. Bank[m] \in Questions /\ Bank[m] # Exhausted
  BY <1>1, <1>3, ExceptionsAssumption
<1> QED
  BY <1>2, <1>4, <1>8, <1>9 DEF Fallback

-------------------------------------------------------------------------------
(* The interview.                                                           *)

LEMMA PreparationInit_IInv == PreparationInit => IInv
<1> SUFFICES ASSUME PreparationInit PROVE IInv
  OBVIOUS
<1>1. TotalQuestions \in Nat /\ Len(Bank) \in Nat
  BY PreparationAssumption, QuestionsAssumption
<1>2. ResumesInv
  BY ResumesInit_Inv DEF PreparationInit
<1>3. asked = <<>> /\ asked \in Seq(Questions) /\ Len(asked) = 0 /\ DOMAIN asked = {}
  BY DEF PreparationInit
<1>4. asked \in BoundedSeq(Questions, TotalQuestions)
  BY <1>3, NoQuestionsYet
<1>5. TypeOK
  BY <1>2, <1>4 DEF PreparationInit, TypeOK, ResumesInv
<1>6. Grounds /\ Grounded /\ OutageSurvived
  BY DEF PreparationInit, Grounds, Grounded, OutageSurvived
<1>7. QuestionsSound
  BY <1>3 DEF PreparationInit, QuestionsSound
<1>8. InBankOrder
  BY <1>1, <1>3 DEF InBankOrder
<1> QED
  BY <1>2, <1>5, <1>6, <1>7, <1>8 DEF IInv

\* Only the deletion of a resume takes analyses away.
LEMMA AnalysesStay ==
    ASSUME ResumesInv,
           \/ \E r \in Resumes : Resume(r)
           \/ \E w \in Workers, r \in Resumes : Take(w, r)
           \/ \E w \in Workers : Worker(w)
    PROVE  \A r \in Resumes : analyses[r] > 0 => analyses'[r] > 0
<1>1. ASSUME NEW w \in Workers, Worker(w)
      PROVE  analyses' = analyses \/ (SaveAnalysis(w) /\ Busy(w))
  BY <1>1 DEF Worker, Work, Mark, ReadFile, ReadFails, SaveFails, Die, TimeLimit, GiveUp,
     rowVars, SaveAnalysis, At
<1>2. ASSUME NEW w \in Workers, SaveAnalysis(w), Busy(w)
      PROVE  \A r \in Resumes : analyses[r] > 0 => analyses'[r] > 0
  <2>1. PICK x \in Resumes : x = worker[w].resume
    BY <1>2, BusyWorker DEF ResumesInv
  <2>2. analyses' = [analyses EXCEPT ![x] = @ + 1]
    BY <1>2, <2>1 DEF SaveAnalysis
  <2> QED
    BY <2>2 DEF ResumesInv, ResumesTypeOK
<1>3. ASSUME NEW r \in Resumes, Resume(r) PROVE analyses' = analyses
  BY <1>3 DEF Resume, SaveFile, StoreRow, Dispatch, UploadBreaks, FindRow, RemoveFile,
     DeleteBreaks, Redeliver, rowVars
<1>4. ASSUME NEW w \in Workers, NEW r \in Resumes, Take(w, r) PROVE analyses' = analyses
  BY <1>4 DEF Take, rowVars
<1> QED
  BY <1>1, <1>2, <1>3, <1>4

LEMMA ResumesStep ==
    ASSUME IInv, UNCHANGED interviewVars,
           \/ \E r \in Resumes : Resume(r)
           \/ \E w \in Workers, r \in Resumes : Take(w, r)
           \/ \E w \in Workers : Worker(w)
    PROVE  IInv'
<1>1. ResumesInv
  BY DEF IInv
<1>2. ResumesInv'
  BY <1>1, UploadStep, StoreRowStep, RemovalStep, RedeliverStep, TakeStep, WorkerStep
     DEF Resume
<1>3. \A r \in Resumes : analyses[r] > 0 => analyses'[r] > 0
  BY <1>1, AnalysesStay
<1>4. TypeOK'
  BY <1>2 DEF IInv, TypeOK, ResumesInv, interviewVars
<1>5. Grounds'
  BY <1>3 DEF IInv, TypeOK, Grounds, interviewVars
<1>6. Grounded' /\ QuestionsSound' /\ InBankOrder' /\ OutageSurvived'
  BY DEF IInv, Grounded, QuestionsSound, InBankOrder, OutageSurvived, interviewVars
<1> QED
  BY <1>2, <1>4, <1>5, <1>6 DEF IInv

\* Nothing about the resumes changes.
LEMMA ResumesUnchanged ==
    ASSUME ResumesInv, UNCHANGED resumeVars
    PROVE  ResumesInv' /\ analyses' = analyses /\ status' = status
<1>1. /\ files' = files /\ status' = status /\ analyses' = analyses /\ upload' = upload
      /\ removing' = removing /\ halfDeleted' = halfDeleted /\ queue' = queue
      /\ delivered' = delivered /\ worker' = worker /\ overlapped' = overlapped
      /\ killed' = killed
  BY DEF resumeVars, taskVars
<1>2. \A r : On(r)' = On(r)
  BY <1>1, OnStays
<1>3. ResumesTypeOK'
  BY <1>1 DEF ResumesInv, ResumesTypeOK
<1> QED
  BY <1>1, <1>2, <1>3 DEF ResumesInv, Uploads, Deletions, FilesFollowRows, Deliveries, Alone,
     ReadyIsAnalysed

LEMMA DeleteResumeStep ==
    ASSUME IInv, NEW r \in Resumes, DeleteResume(r) PROVE IInv'
<1>1. /\ DeleteRow(r)
      /\ resume' = IF resume = r THEN NoResume ELSE resume
      /\ UNCHANGED <<state, summary, asked, promised, provided>>
  BY DEF DeleteResume
<1>2. ResumesInv'
  BY <1>1, DeleteRowStep DEF IInv
<1>3. TypeOK'
  BY <1>1, <1>2 DEF IInv, TypeOK, ResumesInv
<1>4. analyses' = [analyses EXCEPT ![r] = 0]
  BY <1>1 DEF DeleteRow
<1>5. Grounds'
  BY <1>1, <1>4 DEF IInv, TypeOK, ResumesInv, ResumesTypeOK, Grounds
<1>6. Grounded' /\ QuestionsSound' /\ InBankOrder' /\ OutageSurvived'
  BY <1>1 DEF IInv, Grounded, QuestionsSound, InBankOrder, OutageSurvived
<1> QED
  BY <1>2, <1>3, <1>5, <1>6 DEF IInv

LEMMA CreateInterviewStep ==
    ASSUME IInv, NEW r \in Resumes \cup {NoResume}, CreateInterview(r) PROVE IInv'
<1>1. /\ state = "none" /\ state' = "PREPARING" /\ resume' = r
      /\ promised' = (r # NoResume /\ status[r] = "READY")
      /\ UNCHANGED resumeVars /\ UNCHANGED <<summary, asked, provided>>
  BY DEF CreateInterview
<1>2. ResumesInv' /\ analyses' = analyses /\ status' = status
  BY <1>1, ResumesUnchanged DEF IInv
<1>3. TypeOK'
  BY <1>1, <1>2 DEF IInv, TypeOK, ResumesInv
<1>4. Grounds'
  BY <1>1, <1>2 DEF IInv, ResumesInv, ReadyIsAnalysed, Grounds
<1>5. Grounded' /\ QuestionsSound' /\ InBankOrder' /\ OutageSurvived'
  BY <1>1 DEF IInv, Grounded, QuestionsSound, InBankOrder, OutageSurvived
<1> QED
  BY <1>2, <1>3, <1>4, <1>5 DEF IInv

LEMMA StartGenerationStep == ASSUME IInv, StartGeneration PROVE IInv'
<1>1. /\ state = "PREPARING" /\ state' = "GENERATING"
      /\ summary' = HasSummary(resume)
      /\ UNCHANGED resumeVars /\ UNCHANGED <<resume, asked, promised, provided>>
  BY DEF StartGeneration
<1>2. ResumesInv' /\ analyses' = analyses
  BY <1>1, ResumesUnchanged DEF IInv
<1>3. TypeOK'
  BY <1>1, <1>2 DEF IInv, TypeOK, ResumesInv, HasSummary
<1>4. Grounds' /\ Grounded'
  BY <1>1, <1>2 DEF IInv, Grounds, Grounded, HasSummary
<1>5. QuestionsSound' /\ InBankOrder' /\ OutageSurvived'
  BY <1>1 DEF IInv, QuestionsSound, InBankOrder, OutageSurvived
<1> QED
  BY <1>2, <1>3, <1>4, <1>5 DEF IInv

LEMMA GenerateQuestionStep ==
    ASSUME IInv, NEW replies \in Replies, GenerateQuestion(replies) PROVE IInv'
<1> DEFINE q == Generate(asked, replies)
           n == Len(asked)
<1>1. /\ state = "GENERATING" /\ n < TotalQuestions
      /\ provided' = (provided \/ Provided(asked, replies))
      /\ \/ q \in Questions /\ asked' = Append(asked, q) /\ state' = state
         \/ q \notin Questions /\ asked' = <<>> /\ state' = "FAILED"
      /\ UNCHANGED resumeVars /\ UNCHANGED <<resume, summary, promised>>
  BY DEF GenerateQuestion
<1>2. ResumesInv' /\ analyses' = analyses
  BY <1>1, ResumesUnchanged DEF IInv
<1>3. /\ TotalQuestions \in Nat /\ Len(Bank) \in Nat /\ n \in Nat
      /\ asked \in Seq(Questions) /\ DOMAIN asked = 1..n
  BY PreparationAssumption, QuestionsAssumption, BoundedSeqIs DEF IInv, TypeOK
<1>4. Grounds' /\ Grounded'
  BY <1>1, <1>2 DEF IInv, Grounds, Grounded
<1>5. provided' \in BOOLEAN
  BY <1>1 DEF Provided, Accepted
<1> HIDE DEF q
<1>6. CASE q \in Questions
  <2>1. /\ asked' \in Seq(Questions) /\ Len(asked') = n + 1
        /\ DOMAIN asked' = 1..(n + 1) /\ asked'[n + 1] = q
        /\ \A i \in 1..n : asked'[i] = asked[i]
        /\ state' = "GENERATING"
    BY <1>1, <1>3, <1>6
  <2>2. TypeOK'
    <3>1. asked' \in BoundedSeq(Questions, TotalQuestions)
      BY <1>1, <1>3, <2>1, BoundedSeqIs
    <3> QED
      BY <1>1, <1>2, <1>5, <2>1, <3>1 DEF IInv, TypeOK, ResumesInv
  <2>3. QuestionsSound'
    <3>1. Accepted(q, asked)
      BY <1>6, GeneratedIsAccepted DEF q
    <3>2. q \in Fits /\ \A j \in 1..n : q # asked[j] /\ <<q, asked[j]>> \notin Within
      BY <1>3, <3>1 DEF Accepted, Repeats, ToSet
    <3> SUFFICES ASSUME NEW i \in 1..(n + 1)
                 PROVE  /\ asked'[i] \in Fits
                        /\ \A j \in 1..(i - 1) :
                              asked'[i] # asked'[j] /\ <<asked'[i], asked'[j]>> \notin Within
      BY <2>1 DEF QuestionsSound
    <3>3. CASE i = n + 1
      BY <1>3, <2>1, <3>2, <3>3
    <3>4. CASE i \in 1..n
      <4>1. 1..(i - 1) \subseteq 1..n
        BY <1>3, <3>4
      <4> QED
        BY <1>3, <2>1, <3>4, <4>1 DEF IInv, QuestionsSound
    <3> QED
      BY <1>3, <3>3, <3>4
  <2>4. InBankOrder'
    <3> SUFFICES ASSUME ~provided'
                 PROVE  /\ Len(asked') <= Len(Bank)
                        /\ \A i \in 1..Len(asked') : asked'[i] = Bank[i]
      BY DEF InBankOrder
    <3>1. ~provided /\ ~Provided(asked, replies)
      BY <1>1
    <3>2. n <= Len(Bank) /\ \A i \in 1..n : asked[i] = Bank[i]
      BY <3>1 DEF IInv, InBankOrder
    <3>3. n < Len(Bank)
      <4>1. SUFFICES ASSUME n = Len(Bank) PROVE FALSE
        BY <1>3, <3>2
      <4>2. q = Fallback(asked)
        BY <3>1 DEF q, Generate
      <4>3. \A m \in DOMAIN Bank : Bank[m] \in ToSet(asked)
        BY <1>3, <3>2, <4>1, QuestionsAssumption DEF ToSet
      <4>4. {m \in DOMAIN Bank : Bank[m] \notin ToSet(asked)} = {}
        BY <4>3
      <4>5. Fallback(asked) = Exhausted
        BY <4>4 DEF Fallback, FindOne
      <4> QED
        BY <1>6, <4>2, <4>5, ExceptionsAssumption
    <3>4. q = Bank[n + 1]
      BY <1>3, <3>1, <3>2, <3>3, NextOfBank DEF q, Generate
    <3> QED
      BY <1>3, <2>1, <3>2, <3>3, <3>4
  <2>5. OutageSurvived'
    BY <2>1 DEF OutageSurvived
  <2> QED
    BY <1>2, <1>4, <2>2, <2>3, <2>4, <2>5 DEF IInv
<1>7. CASE q \notin Questions
  <2>1. asked' = <<>> /\ state' = "FAILED"
    BY <1>1, <1>7
  <2>2. TypeOK'
    <3>1. asked' \in BoundedSeq(Questions, TotalQuestions)
      BY <2>1, NoQuestionsYet
    <3> QED
      BY <1>1, <1>2, <1>5, <2>1, <3>1 DEF IInv, TypeOK, ResumesInv
  <2>3. QuestionsSound'
    BY <2>1 DEF QuestionsSound
  <2>4. InBankOrder'
    BY <1>3, <2>1 DEF InBankOrder
  <2>5. OutageSurvived'
    <3> SUFFICES ASSUME ~provided', ~(Len(Bank) < TotalQuestions) PROVE FALSE
      BY DEF OutageSurvived
    <3>1. ~provided /\ ~Provided(asked, replies)
      BY <1>1
    <3>2. n < Len(Bank) /\ \A i \in 1..n : asked[i] = Bank[i]
      BY <1>1, <1>3, <3>1 DEF IInv, InBankOrder
    <3>3. Fallback(asked) \in Questions
      BY <1>3, <3>2, NextOfBank
    <3> QED
      BY <1>7, <3>1, <3>3 DEF q, Generate
  <2> QED
    BY <1>2, <1>4, <2>2, <2>3, <2>4, <2>5 DEF IInv
<1> QED
  BY <1>6, <1>7

LEMMA MarkReadyStep == ASSUME IInv, MarkReady PROVE IInv'
<1>1. /\ state = "GENERATING" /\ Len(asked) = TotalQuestions /\ state' = "READY"
      /\ UNCHANGED resumeVars /\ UNCHANGED <<resume, summary, asked, promised, provided>>
  BY DEF MarkReady
<1>2. ResumesInv' /\ analyses' = analyses
  BY <1>1, ResumesUnchanged DEF IInv
<1>3. TypeOK'
  BY <1>1, <1>2 DEF IInv, TypeOK, ResumesInv
<1>4. Grounds' /\ Grounded'
  BY <1>1, <1>2 DEF IInv, Grounds, Grounded
<1>5. QuestionsSound' /\ InBankOrder' /\ OutageSurvived'
  BY <1>1 DEF IInv, QuestionsSound, InBankOrder, OutageSurvived
<1> QED
  BY <1>2, <1>3, <1>4, <1>5 DEF IInv

-------------------------------------------------------------------------------
(* The theorems.                                                            *)

LEMMA NextIInv == ASSUME IInv, [Next]_vars PROVE IInv'
<1>1. ASSUME NEW r \in Resumes, Resume(r), UNCHANGED interviewVars PROVE IInv'
  BY <1>1, ResumesStep
<1>2. ASSUME NEW w \in Workers, NEW r \in Resumes, Take(w, r), UNCHANGED interviewVars
      PROVE  IInv'
  BY <1>2, ResumesStep
<1>3. ASSUME NEW w \in Workers, Worker(w), UNCHANGED interviewVars PROVE IInv'
  BY <1>3, ResumesStep
<1>4. ASSUME NEW r \in Resumes, DeleteResume(r) PROVE IInv'
  BY <1>4, DeleteResumeStep
<1>5. ASSUME NEW r \in Resumes \cup {NoResume}, CreateInterview(r) PROVE IInv'
  BY <1>5, CreateInterviewStep
<1>6. CASE StartGeneration
  BY <1>6, StartGenerationStep
<1>7. ASSUME NEW replies \in Replies, GenerateQuestion(replies) PROVE IInv'
  BY <1>7, GenerateQuestionStep
<1>8. CASE MarkReady
  BY <1>8, MarkReadyStep
<1>9. CASE UNCHANGED vars
  <2>1. UNCHANGED resumeVars /\ UNCHANGED interviewVars
    BY <1>9 DEF vars
  <2>2. ResumesInv' /\ analyses' = analyses
    BY <2>1, ResumesUnchanged DEF IInv
  <2>3. TypeOK'
    BY <2>1, <2>2 DEF IInv, TypeOK, ResumesInv, interviewVars
  <2> QED
    BY <2>1, <2>2, <2>3 DEF IInv, Grounds, Grounded, QuestionsSound, InBankOrder,
       OutageSurvived, interviewVars
<1> QED
  BY <1>1, <1>2, <1>3, <1>4, <1>5, <1>6, <1>7, <1>8, <1>9 DEF Next

LEMMA Invariance == Spec => []IInv
<1>1. PreparationInit => IInv
  BY PreparationInit_IInv
<1>2. IInv /\ [Next]_vars => IInv'
  BY NextIInv
<1> QED
  BY <1>1, <1>2, PTL DEF Spec

\* Type correctness, with the bounds of the queue, the deliveries and the
\* analyses: a resume never has more analyses than deliveries of its task.
THEOREM PreparationTypeCorrect == Spec => []TypeOK
BY Invariance, PTL DEF IInv

\* Whatever an upload, a DELETE and the workers leave half done, files and rows
\* part only by the commit of an upload or by a DELETE that broke.
THEOREM FilesFollowTheirRows == Spec => []FilesFollowRows
BY Invariance, PTL DEF IInv, ResumesInv

\* A READY resume has its analysis, a second one takes two workers on it at the
\* same time, and none outlives the resume.
THEOREM ReadyResumesAreAnalysed == Spec => []ReadyIsAnalysed
BY Invariance, PTL DEF IInv, ResumesInv

\* No step takes READY from a resume, but its deletion or one of two workers
\* that have had it at the same time.
THEOREM ReadyIsKept == Spec => ReadyStays
<1>1. ASSUME IInv, Next, NEW r \in Resumes,
             status[r] = "READY", status'[r] \notin {"READY", "none"}
      PROVE  r \in overlapped
  <2>1. status \in [Resumes -> RowStatuses \cup {"none"}]
    BY <1>1 DEF IInv, ResumesInv, ResumesTypeOK
  <2>2. r \notin overlapped => On(r) = {}
    BY <1>1, <2>1 DEF IInv, ResumesInv, ResumesTypeOK, Alone, ReadyIsAnalysed
  <2>3. ASSUME NEW w \in Workers, Worker(w) PROVE r \in overlapped
    <3>1. status' # status
      BY <1>1
    <3>2. Busy(w)
      BY <2>3 DEF Worker, Work, Mark, ReadFile, ReadFails, SaveAnalysis, SaveFails, Die,
         TimeLimit, At
    <3>3. PICK x \in Resumes : x = worker[w].resume /\ w \in On(x)
      BY <1>1, <3>2, BusyWorker DEF IInv, ResumesInv
    <3>4. PICK v : status' = [status EXCEPT ![x] = v]
      BY <2>3, <3>1, <3>3 DEF Worker, Work, Mark, ReadFile, ReadFails, SaveAnalysis,
         SaveFails, Die, TimeLimit, GiveUp, rowVars
    <3>5. x = r
      BY <1>1, <2>1, <3>4
    <3> QED
      BY <2>2, <3>3, <3>5
  <2>4. ASSUME NEW x \in Resumes, Resume(x) PROVE FALSE
    <3>1. CASE StoreRow(x)
      <4>1. status[x] = "none" /\ status' = [status EXCEPT ![x] = "UPLOADED"]
        BY <1>1, <3>1 DEF StoreRow, UploadTo, IInv, ResumesInv, Uploads
      <4> QED
        BY <1>1, <2>1, <4>1
    <3>2. CASE ~StoreRow(x)
      BY <1>1, <2>4, <3>2 DEF Resume, SaveFile, Dispatch, UploadBreaks, FindRow, RemoveFile,
         DeleteBreaks, Redeliver, rowVars
    <3> QED
      BY <3>1, <3>2
  <2>5. ASSUME NEW x \in Resumes, DeleteResume(x) PROVE FALSE
    <3>1. status' = [status EXCEPT ![x] = "none"]
      BY <2>5 DEF DeleteResume, DeleteRow
    <3> QED
      BY <1>1, <2>1, <3>1
  <2>6. ASSUME status' = status PROVE FALSE
    BY <1>1, <2>6
  <2>7. ASSUME NEW w \in Workers, NEW x \in Resumes, Take(w, x) PROVE status' = status
    BY <2>7 DEF Take, rowVars
  <2>8. ASSUME UNCHANGED resumeVars PROVE status' = status
    BY <2>8 DEF resumeVars
  <2> QED
    BY <1>1, <2>3, <2>4, <2>5, <2>6, <2>7, <2>8 DEF Next, CreateInterview, StartGeneration,
       GenerateQuestion, MarkReady
<1>2. IInv /\ [Next]_vars =>
        [\A r \in Resumes :
            status[r] = "READY" /\ status'[r] \notin {"READY", "none"}
              => r \in overlapped]_vars
  BY <1>1
<1> QED
  BY <1>2, Invariance, PTL DEF Spec, ReadyStays

\* An interview created with a READY resume has its questions generated from the
\* analysis, unless the resume is deleted before the generation.
THEOREM InterviewsAreGrounded == Spec => []Grounded
BY Invariance, PTL DEF IInv

\* The questions of an interview fit it and none repeats an earlier one; READY
\* has all of them and FAILED none.
THEOREM QuestionsAreSound == Spec => []QuestionsSound
BY Invariance, PTL DEF IInv

\* While every question comes from a bank with enough of them, no outage of the
\* provider fails the interview, whatever the number of questions.
THEOREM OutagesAreSurvived == Spec => []OutageSurvived
BY Invariance, PTL DEF IInv
===============================================================================
