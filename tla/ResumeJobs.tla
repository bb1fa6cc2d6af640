------------------------------ MODULE ResumeJobs ------------------------------
(***************************************************************************)
(* Resumes parsed in the background of the web process.  Uploads of the    *)
(* same file share one parse, whoever made them; what the model answered   *)
(* is kept in memory until it is stored; the client polls a registry of    *)
(* jobs that is lost with the process.                                     *)
(***************************************************************************)
EXTENDS Naturals

CONSTANTS Uploads,       \* upload requests, each of another user: their job ids
          Files,         \* contents of the files (fileHash)
          NoUpload,
          MaxLlmAttempts \* LLM_MAX_ATTEMPTS

ASSUME ResumeAssumption ==
  Files # {} /\ NoUpload \notin Uploads /\ MaxLlmAttempts \in Nat \ {0}

VARIABLES job,           \* the jobs: [pc, file, attempt, via]
          inflightJobs,  \* file -> the job that parses it
          cache,         \* files whose answer is kept
          entryStatus,   \* the registry's entries
          parsed         \* uploads whose user has the parsed resume stored

resumeVars == <<job, inflightJobs, cache, entryStatus, parsed>>

NotUploaded == [pc |-> "none", file |-> CHOOSE f \in Files : TRUE, attempt |-> 0,
                via |-> NoUpload]

ResumeTypeOK ==
  /\ job \in [Uploads -> [pc : {"none", "extract", "attempt", "llm", "store", "failing",
                                "joined", "over"},
                          file : Files, attempt : 0..MaxLlmAttempts,
                          via : Uploads \cup {NoUpload}]]
  /\ inflightJobs \in [Files -> Uploads \cup {NoUpload}]
  /\ cache \subseteq Files /\ parsed \subseteq Uploads
  /\ entryStatus \in [Uploads -> {"none", "processing", "completed", "failed"}]

ResumeInit ==
  /\ job = [j \in Uploads |-> NotUploaded]
  /\ inflightJobs = [f \in Files |-> NoUpload]
  /\ cache = {} /\ parsed = {}
  /\ entryStatus = [j \in Uploads |-> "none"]

JobGoes(j, pc) == job' = [job EXCEPT ![j].pc = pc]

(* uploadResumeController: the row is there (createResumeRecord) before    *)
(* the job; enqueueResumeJob; processResumeJob joins a parse of the file.  *)
Upload(j, f) ==
  /\ job[j].pc = "none" \/ (job[j].pc = "over" /\ job[j].file = f /\ j \notin parsed)
  /\ entryStatus' = [entryStatus EXCEPT ![j] = "processing"]
  /\ IF inflightJobs[f] = NoUpload
     THEN /\ job' = [job EXCEPT ![j] = [pc |-> "extract", file |-> f, attempt |-> 0, via |-> j]]
          /\ inflightJobs' = [inflightJobs EXCEPT ![f] = j]
     ELSE /\ job' = [job EXCEPT ![j] = [pc |-> "joined", file |-> f, attempt |-> 0,
                                        via |-> inflightJobs[f]]]
          /\ UNCHANGED inflightJobs
  /\ UNCHANGED <<cache, parsed>>

(* Everyone who waits for the parse: its job and those that joined it. *)
Waiting(j) == {k \in Uploads : job[k].via = j /\ job[k].pc # "over"}

(* A plausible bug: the entry goes only when the parse succeeds. *)
FaultyLeft(j, outcome) ==
  [f \in Files |-> IF f = job[j].file /\ outcome = "completed" THEN NoUpload
                   ELSE inflightJobs[f]]

(* finally: inflightJobs.delete(fileHash) *)
Left(j, outcome) == [inflightJobs EXCEPT ![job[j].file] = NoUpload]

SettleJob(j, outcome) ==
  /\ inflightJobs' = Left(j, outcome)
  /\ job' = [k \in Uploads |-> IF k \in Waiting(j) THEN [job[k] EXCEPT !.pc = "over"]
                               ELSE job[k]]
  /\ entryStatus' = [k \in Uploads |-> IF k \in Waiting(j) /\ entryStatus[k] = "processing"
                                       THEN outcome ELSE entryStatus[k]]

Extract(j) ==
  /\ job[j].pc = "extract"
  /\ JobGoes(j, "attempt") \/ JobGoes(j, "failing")
  /\ UNCHANGED <<inflightJobs, cache, entryStatus, parsed>>

(* getCache: the answer of an attempt that could not store it is stored    *)
(* now; it stays in the cache.  An error of the database is not retried.   *)
FromCache(j) ==
  /\ job[j].file \in cache
  /\ \/ parsed' = parsed \cup {j} /\ SettleJob(j, "completed")
     \/ JobGoes(j, "failing") /\ UNCHANGED <<inflightJobs, entryStatus, parsed>>
  /\ UNCHANGED cache

AskModel(j) ==
  /\ job[j].file \notin cache
  /\ job' = [job EXCEPT ![j].pc = "llm", ![j].attempt = @ + 1]
  /\ UNCHANGED <<inflightJobs, cache, entryStatus, parsed>>

StartAttempt(j) ==
  /\ job[j].pc = "attempt"
  /\ FromCache(j) \/ AskModel(j)

(* setCache *)
ModelAnswers(j) ==
  /\ job[j].pc = "llm"
  /\ cache' = cache \cup {job[j].file}
  /\ JobGoes(j, "store")
  /\ UNCHANGED <<inflightJobs, entryStatus, parsed>>

(* A plausible bug: the attempts are counted from zero. *)
FaultyAttemptsLeft(j) == job[j].attempt <= MaxLlmAttempts

(* withRetry *)
AttemptsLeft(j) == job[j].attempt < MaxLlmAttempts

(* A RetryableError has another attempt, any other error and a content     *)
(* that is too weak or does not fit the schema have none.                  *)
ModelFails(j) ==
  /\ job[j].pc = "llm"
  /\ \/ AttemptsLeft(j) /\ JobGoes(j, "attempt")
     \/ JobGoes(j, "failing")
  /\ UNCHANGED <<inflightJobs, cache, entryStatus, parsed>>

(* persistResumeParseResult; deleteCache only when it succeeds *)
StoreParsed(j) ==
  /\ job[j].pc = "store"
  /\ \/ /\ parsed' = parsed \cup {j}
        /\ cache' = cache \ {job[j].file}
        /\ SettleJob(j, "completed")
     \/ JobGoes(j, "failing") /\ UNCHANGED <<inflightJobs, cache, entryStatus, parsed>>

(* persistFailedParse swallows its own errors. *)
FailParse(j) ==
  /\ job[j].pc = "failing"
  /\ SettleJob(j, "failed")
  /\ UNCHANGED <<cache, parsed>>

(* DEFAULT_TTL_MS of the cache *)
CacheExpires(f) ==
  /\ f \in cache
  /\ cache' = cache \ {f}
  /\ UNCHANGED <<job, inflightJobs, entryStatus, parsed>>

(* pruneExpiredJobs looks at the age alone: also jobs still processing go. *)
PruneEntry(j) ==
  /\ entryStatus[j] # "none"
  /\ entryStatus' = [entryStatus EXCEPT ![j] = "none"]
  /\ UNCHANGED <<job, inflightJobs, cache, parsed>>

(* The process restarts: only the database is left. *)
RestartWeb ==
  /\ \E j \in Uploads : job[j].pc \notin {"none", "over"}
  /\ job' = [j \in Uploads |-> IF job[j].pc = "none" THEN job[j]
                               ELSE [job[j] EXCEPT !.pc = "over", !.attempt = 0]]
  /\ inflightJobs' = [f \in Files |-> NoUpload]
  /\ cache' = {}
  /\ entryStatus' = [j \in Uploads |-> "none"]
  /\ UNCHANGED parsed

ResumeNext ==
  \/ RestartWeb
  \/ \E f \in Files : CacheExpires(f)
  \/ \E j \in Uploads :
       \/ \E f \in Files : Upload(j, f)
       \/ Extract(j) \/ StartAttempt(j) \/ ModelAnswers(j) \/ ModelFails(j)
       \/ StoreParsed(j) \/ FailParse(j) \/ PruneEntry(j)

ResumeSpec == ResumeInit /\ [][ResumeNext]_resumeVars

-----------------------------------------------------------------------------
(* A job is reported completed only if the parse it waited for was stored, *)
(* also when that was done from the cache after the database had refused.  *)
(* It is stored for the upload that ran the parse: for one that joined it  *)
(* nothing is.                                                             *)
CompletedIsStored ==
  \A j \in Uploads : entryStatus[j] = "completed" => job[j].via \in parsed

(* A file can always be parsed again: an entry of inflightJobs belongs to  *)
(* a parse of that file that is under way, and every job that waits is     *)
(* waiting for one.                                                        *)
InflightIsRunning ==
  /\ \A f \in Files :
       inflightJobs[f] # NoUpload =>
         LET j == job[inflightJobs[f]]
         IN  j.file = f /\ j.pc \notin {"none", "joined", "over"}
  /\ \A j \in Uploads : job[j].pc = "joined" => inflightJobs[job[j].file] = job[j].via

(* No job is told of a parse that was not stored or waits for one that is  *)
(* not running.                                                            *)
JobsAreServed == CompletedIsStored /\ InflightIsRunning
=============================================================================
