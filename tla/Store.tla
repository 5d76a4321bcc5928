------------------------------- MODULE Store -------------------------------
(***************************************************************************)
(* The rows of the service's Postgres schema that the workflow reads and   *)
(* writes (tables uploads, upload_files, analyses), and the statements of  *)
(* internal/db as operators on them.  Every operator is one statement or   *)
(* one transaction, so one atomic step.                                    *)
(*                                                                         *)
(* A file is its position in the upload (upload_files.position).  The      *)
(* markdown itself is abstracted: a file either has OCR text or has none.  *)
(* An analysis row records which files' statements it was computed from,   *)
(* the one thing about its content that a property talks about.            *)
(***************************************************************************)
EXTENDS Naturals

CONSTANTS
    Uploads,   \* upload ids
    MaxFiles   \* UPLOAD_MAX_FILES: the most files one upload may carry

ASSUME StoreAssumption == MaxFiles \in Nat \ {0}

VARIABLES
    status,    \* uploads.status
    reason,    \* uploads.failure_reason, "" when NULL
    files,     \* positions of the upload's upload_files rows
    ocr,       \* positions whose row carries OCR markdown
    analyses   \* the analyses rows (transactions cascade with them)

storeVars == <<status, reason, files, ocr, analyses>>

Positions == 1 .. MaxFiles

Status == {"pending", "processing", "completed", "failed"}

\* "absent": no row with that id yet.
UploadStatus == Status \cup {"absent"}

\* A failure reason is "<step>: <message>"; the message is left out.
Reason == {"", "mark_processing", "ocr", "analyze", "mark_completed",
           "analyze: rollback failed", "not queued"}

AnalysisRow == [upload : Uploads, statements : SUBSET Positions]

StoreTypeOK ==
    /\ status \in [Uploads -> UploadStatus]
    /\ reason \in [Uploads -> Reason]
    /\ files \in [Uploads -> SUBSET Positions]
    /\ ocr \in [Uploads -> SUBSET Positions]
    /\ analyses \subseteq AnalysisRow

StoreEmpty ==
    /\ status = [u \in Uploads |-> "absent"]
    /\ reason = [u \in Uploads |-> ""]
    /\ files = [u \in Uploads |-> {}]
    /\ ocr = [u \in Uploads |-> {}]
    /\ analyses = {}

----------------------------------------------------------------------------

\* Every file of the upload carries OCR output.
OCRComplete(u) == files[u] \subseteq ocr[u]

HasAnalysis(u) == \E a \in analyses : a.upload = u

\* An upload and all of its files, in one transaction.
CreateUploadWithFiles(u, F) ==
    /\ status[u] = "absent"
    /\ F # {}
    /\ status' = [status EXCEPT ![u] = "pending"]
    /\ files' = [files EXCEPT ![u] = F]
    /\ UNCHANGED <<reason, ocr, analyses>>

\* Status and reason are overwritten together, whatever they were before.
SetUploadStatus(u, s, r) ==
    /\ status' = [status EXCEPT ![u] = s]
    /\ reason' = [reason EXCEPT ![u] = r]
    /\ UNCHANGED <<files, ocr, analyses>>

SetUploadFileOCR(u, p) ==
    /\ ocr' = [ocr EXCEPT ![u] = @ \cup {p}]
    /\ UNCHANGED <<status, reason, files, analyses>>

OtherAnalyses(u) == {a \in analyses : a.upload # u}

\* The commit of the DELETE, INSERT, COPY transaction.
ReplaceAnalysis(u, S) ==
    /\ analyses' = OtherAnalyses(u) \cup {[upload |-> u, statements |-> S]}
    /\ UNCHANGED <<status, reason, files, ocr>>

DeleteAnalysisByUpload(u) ==
    /\ analyses' = OtherAnalyses(u)
    /\ UNCHANGED <<status, reason, files, ocr>>
============================================================================
