-------------------------- MODULE QuestionGeneration --------------------------
(***************************************************************************)
(* QuestionGenerationService.generate: one question from the provider,     *)
(* checked by validate_question, with run_with_retries around the call and *)
(* the question bank behind it.                                            *)
(*                                                                         *)
(* A question is a member of Questions; what the checks of one configu-    *)
(* ration read off its fields is Fits, what they compare between texts is  *)
(* Within.  The provider's answers to one call after the other are the     *)
(* sequence replies: a question, an output the schema refuses or another   *)
(* error.                                                                  *)
(***************************************************************************)
EXTENDS Integers, Sequences, FiniteSetsExt, SequencesExt

CONSTANTS
    Questions,
    Fits,              \* questions that pass every check but the comparison
    Within,            \* <<c, a>>: the text of c occurs in the text of a
    Bank,              \* the bank's questions for the configuration, in order
    AI_MAX_RETRIES

ASSUME QuestionsAssumption ==
    /\ Fits \subseteq Questions
    /\ Within \subseteq Questions \X Questions
    /\ Bank \in Seq(Questions)
    /\ AI_MAX_RETRIES \in Int

Invalid == "AIValidationError"
Broken == "AIProviderError"
Rejected == "AIQuestionRejected"
Exhausted == "AIFallbackExhausted"
RetryExhausted == "AIRetryExhausted"

ASSUME ExceptionsAssumption ==
    Questions \cap {Invalid, Broken, Rejected, Exhausted, RetryExhausted} = {}

\* The entries of BANK, whichever of them a configuration selects: they pass the
\* checks, no two have the same text and none contains another.
ASSUME BankAssumption ==
    \A m, n \in DOMAIN Bank :
        /\ Bank[m] \in Fits
        /\ m # n => Bank[m] # Bank[n] /\ <<Bank[m], Bank[n]>> \notin Within

MaxAttempts == IF AI_MAX_RETRIES < 1 THEN 1 ELSE AI_MAX_RETRIES
Replies == [1..MaxAttempts -> Questions \cup {Invalid, Broken}]

\* The same text, or one inside an asked one; not one around it.
Repeats(q, asked) == \E a \in ToSet(asked) : q = a \/ <<q, a>> \in Within

\* Defect for the mutant run: the questions asked so far are not consulted.
MutAccepted(q, asked) == q \in Fits
\* validate_question
Accepted(q, asked) == q \in Fits /\ ~Repeats(q, asked)

\* run_with_retries: only AIValidationError is tried again, so the first reply
\* of another kind ends it.
Outcome(replies) ==
    LET sound == {n \in DOMAIN replies : replies[n] # Invalid}
    IN  IF sound = {} THEN RetryExhausted ELSE replies[Min(sound)]

\* Defect for the mutant run: the bank is not told what was asked.
MutFindOne(asked) == IF Bank = <<>> THEN Exhausted ELSE Bank[1]
\* QuestionBank.find_one: the first entry that is not asked word for word.
FindOne(asked) ==
    LET free == {n \in DOMAIN Bank : Bank[n] \notin ToSet(asked)}
    IN  IF free = {} THEN Exhausted ELSE Bank[Min(free)]

\* The entry found is validated too, and no other is tried.
Fallback(asked) ==
    LET q == FindOne(asked)
    IN  IF q = Exhausted THEN Exhausted
        ELSE IF Accepted(q, asked) THEN q ELSE Rejected

Provided(asked, replies) ==
    Outcome(replies) \in Questions /\ Accepted(Outcome(replies), asked)

\* Whatever the provider's call ends with but an accepted question, a rejected
\* question included, leads to the bank at once.
Generate(asked, replies) ==
    IF Provided(asked, replies) THEN Outcome(replies) ELSE Fallback(asked)
===============================================================================
