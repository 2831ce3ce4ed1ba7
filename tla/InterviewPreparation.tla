------------------------- MODULE InterviewPreparation -------------------------
(***************************************************************************)
(* From a resume to the questions of an interview.  POST /interviews names *)
(* a resume, whatever its status; the task ai.generate_questions locks the *)
(* interview, reads the latest analysis of the resume once, generates the  *)
(* questions one after the other and commits them together.  Resumes are   *)
(* uploaded, processed and deleted meanwhile; a deletion sets resume_id of *)
(* the interview to NULL and has to wait for the lock of the generation.   *)
(*                                                                         *)
(* One delivery of the generation: InterviewPipeline models its repetition *)
(* and loss, this module what it computes.                                 *)
(***************************************************************************)
EXTENDS ResumeProcessing, QuestionGeneration

CONSTANTS
    TotalQuestions,
    NoResume

ASSUME PreparationAssumption ==
    /\ TotalQuestions \in Nat \ {0}
    /\ NoResume \notin Resumes

VARIABLES
    state,      \* "none", then the interview's status
    resume,     \* Interview.resume_id
    summary,    \* the generation has found an analysis
    asked,      \* the questions generated so far
    (* history, read by the properties only *)
    promised,   \* the resume was READY when the interview was created
    provided    \* a question of the provider was accepted

interviewVars == <<state, resume, summary, asked, promised, provided>>
vars == <<resumeVars, interviewVars>>

TypeOK ==
    /\ ResumesTypeOK
    /\ state \in {"none", "PREPARING", "GENERATING", "READY", "FAILED"}
    /\ resume \in Resumes \cup {NoResume}
    /\ summary \in BOOLEAN /\ promised \in BOOLEAN /\ provided \in BOOLEAN
    /\ asked \in BoundedSeq(Questions, TotalQuestions)

PreparationInit ==
    /\ ResumesInit
    /\ state = "none" /\ resume = NoResume
    /\ summary = FALSE /\ promised = FALSE /\ provided = FALSE
    /\ asked = <<>>

\* create_interview and begin_preparation.  The foreign key refuses a resume
\* deleted since it was looked up.
CreateInterview(r) ==
    /\ state = "none"
    /\ r # NoResume => status[r] # "none"
    /\ state' = "PREPARING"
    /\ resume' = r
    /\ promised' = (r # NoResume /\ status[r] = "READY")
    /\ UNCHANGED <<resumeVars, summary, asked, provided>>

\* Defect for the mutant run: the analysis counts only while the row is READY.
MutHasSummary(r) == r # NoResume /\ analyses[r] > 0 /\ status[r] = "READY"
\* _latest_resume_summary; no analysis means an empty summary, not a failure.
HasSummary(r) == r # NoResume /\ analyses[r] > 0

StartGeneration ==
    /\ state = "PREPARING"
    /\ state' = "GENERATING"
    /\ summary' = HasSummary(resume)
    /\ UNCHANGED <<resumeVars, resume, asked, promised, provided>>

\* Defect for the mutant run: one question too many.
MutGenerateQuestion(replies) ==
    LET q == Generate(asked, replies)
    IN  /\ state = "GENERATING" /\ Len(asked) <= TotalQuestions
        /\ provided' = (provided \/ Provided(asked, replies))
        /\ IF q \in Questions
           THEN asked' = Append(asked, q) /\ UNCHANGED state
           ELSE asked' = <<>> /\ state' = "FAILED"
        /\ UNCHANGED <<resumeVars, resume, summary, promised>>
\* A question, or the exception that fails the interview with none of its
\* questions stored.
GenerateQuestion(replies) ==
    LET q == Generate(asked, replies)
    IN  /\ state = "GENERATING" /\ Len(asked) < TotalQuestions
        /\ provided' = (provided \/ Provided(asked, replies))
        /\ IF q \in Questions
           THEN asked' = Append(asked, q) /\ UNCHANGED state
           ELSE asked' = <<>> /\ state' = "FAILED"
        /\ UNCHANGED <<resumeVars, resume, summary, promised>>

MarkReady ==
    /\ state = "GENERATING" /\ Len(asked) = TotalQuestions
    /\ state' = "READY"
    /\ UNCHANGED <<resumeVars, resume, summary, asked, promised, provided>>

\* DELETE /resumes/{id} reaches its commit: the interview loses its resume, for
\* which the row must not be locked.
DeleteResume(r) ==
    /\ ~(resume = r /\ state = "GENERATING")
    /\ DeleteRow(r)
    /\ resume' = IF resume = r THEN NoResume ELSE resume
    /\ UNCHANGED <<state, summary, asked, promised, provided>>

Resume(r) ==
    \/ SaveFile(r) \/ StoreRow(r) \/ Dispatch(r) \/ UploadBreaks(r)
    \/ FindRow(r) \/ RemoveFile(r) \/ DeleteBreaks(r)
    \/ Redeliver(r)

Worker(w) == Work(w) \/ Die(w) \/ TimeLimit(w)

Next ==
    \/ \E r \in Resumes : Resume(r) /\ UNCHANGED interviewVars
    \/ \E w \in Workers, r \in Resumes : Take(w, r) /\ UNCHANGED interviewVars
    \/ \E w \in Workers : Worker(w) /\ UNCHANGED interviewVars
    \/ \E r \in Resumes : DeleteResume(r)
    \/ \E r \in Resumes \cup {NoResume} : CreateInterview(r)
    \/ StartGeneration
    \/ \E replies \in Replies : GenerateQuestion(replies)
    \/ MarkReady

\* Workers take messages and go on with their task.
Fairness ==
    /\ \A w \in Workers : WF_vars(Work(w) /\ UNCHANGED interviewVars)
    /\ \A r \in Resumes :
           WF_vars(\E w \in Workers : Take(w, r) /\ UNCHANGED interviewVars)

Spec == PreparationInit /\ [][Next]_vars /\ Fairness

-------------------------------------------------------------------------------
\* Files and rows agree: a row has its file unless a DELETE took the file and
\* has not deleted the row (yet, or ever, if it broke); a file has its row
\* unless the upload is between the two or broke there.
FilesFollowRows ==
    \A r \in Resumes :
        /\ status[r] # "none" => r \in files \/ r \in halfDeleted
        /\ r \in files => status[r] # "none" \/ upload[r] \in {"saved", "broken"}

\* A READY resume has its analysis, and more than one only if two workers had
\* it at the same time; an analysis never outlives its resume.
ReadyIsAnalysed ==
    \A r \in Resumes :
        /\ status[r] = "READY" => analyses[r] > 0
        /\ analyses[r] > 1 => r \in overlapped
        /\ status[r] = "none" => analyses[r] = 0

\* READY is final, whatever is delivered again, as long as no two workers have
\* had the resume at the same time.
ReadyStays ==
    [][\A r \in Resumes :
        status[r] = "READY" /\ status'[r] \notin {"READY", "none"} => r \in overlapped]_vars

\* A resume whose task is queued or running ends READY or FAILED (or deleted),
\* unless the time limit killed a task of it: dying workers, redelivery,
\* missing files and deletions in between do not leave it PROCESSING.
ProcessingEnds ==
    \A r \in Resumes :
        queue[r] > 0 \/ On(r) # {} ~> status[r] \notin {"UPLOADED", "PROCESSING"} \/ r \in killed

\* An interview created with a READY resume gets its questions from the resume,
\* whatever a redelivered task makes of the status later, unless the resume is
\* deleted before.
Grounded ==
    promised /\ resume # NoResume /\ state \in {"GENERATING", "READY"} => summary

\* The questions of an interview fit its configuration and none repeats an
\* earlier one, whether they come from the provider or from the bank; a READY
\* interview has all of them.
QuestionsSound ==
    /\ \A i \in DOMAIN asked :
           /\ asked[i] \in Fits
           /\ \A j \in 1..(i - 1) : asked[i] # asked[j] /\ <<asked[i], asked[j]>> \notin Within
    /\ state = "READY" => Len(asked) = TotalQuestions
    /\ state = "FAILED" => asked = <<>>

\* An outage of the provider fails no interview whose configuration has enough
\* questions in the bank: while all come from the bank, the next one is
\* accepted.  Only a question of the provider that contains the text of the
\* bank's next one can use the bank up early.
OutageSurvived == state = "FAILED" => provided \/ Len(Bank) < TotalQuestions
===============================================================================
