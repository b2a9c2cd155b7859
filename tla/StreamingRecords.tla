-------------------------- MODULE StreamingRecords --------------------------
(***************************************************************************)
(* What the streaming service keeps beside sessions and manifests: quality *)
(* profiles, CDN regions, the maturity of a title, transcoding jobs and    *)
(* downloads.  The first three are created once and then only read.        *)
(*                                                                         *)
(* A progress report loads its row without a lock and at its commit writes *)
(* the columns that differ from what it has loaded; a column whose new     *)
(* value is None is left alone.  No report changes the status of a row:    *)
(* nothing calls complete_transcoding_job, and a download is created with  *)
(* no size, so that its progress is 0 for good.                            *)
(***************************************************************************)
EXTENDS Naturals, FiniteSets

CONSTANTS
    Users,
    Names,          \* of quality profiles and of CDN regions
    Titles,
    Percents, Errors,
    Requests        \* reports in flight at the same time

VARIABLES
    profile,     \* streaming_quality_profile: their names
    region,      \* cdn_region: the codes
    maturity,    \* content_maturity: the titles that are rated
    job,         \* one transcoding_job, or NoRow
    download,    \* one download_session, or NoRow
    report,      \* the reports in flight and their local variables
    \* history of the run, not state of the program
    errors       \* the errors reported for the job

vars == <<profile, region, maturity, job, download, report, errors>>

NoRow == [exists |-> FALSE]
NoError == "no error"

Profiles == SUBSET Names
Regions == SUBSET Names
Maturities == SUBSET Titles

JobRows == [exists : {TRUE}, status : {"pending"}, percent : Percents \union {0},
            error : Errors \union {NoError}]

Downloads == [exists : {TRUE}, user : Users, status : {"queued"}, total : {0},
              bytes : Percents \union {0}, percent : {0}]

Idle == [at |-> "idle"]

\* changes  the columns the report names
ReportStates ==
    {Idle} \union [at : {"job"}, old : JobRows, changes : [percent : Percents]]
           \union [at : {"job"}, old : JobRows, changes : [percent : Percents, error : Errors]]
           \union [at : {"download"}, old : Downloads,
                   changes : [bytes : Percents, percent : {0}]]

-----------------------------------------------------------------------------
(* Helpers *)

At(r, place) == report[r].at = place

\* The columns an UPDATE names
Dirty(old, changes) == [c \in {d \in DOMAIN changes : changes[d] # old[d]} |-> changes[c]]

Updated(row, w) == [c \in DOMAIN row |-> IF c \in DOMAIN w THEN w[c] ELSE row[c]]

\* What a download shows of its bytes
Percent(d, bytes) == IF d.total > 0 THEN (bytes * 100) \div d.total ELSE 0

Init ==
    /\ profile = {} /\ region = {} /\ maturity = {}
    /\ job = NoRow /\ download = NoRow
    /\ report = [r \in Requests |-> Idle]
    /\ errors = {}

(* Rows created once: a unique column refuses the second. *)

\* The name is unique; an administrator creates it.
CreateQualityProfile(n) ==
    /\ n \notin profile
    /\ profile' = profile \union {n}
    /\ UNCHANGED <<region, maturity, job, download, report, errors>>

CreateCDNRegion(code) ==
    /\ code \notin region
    /\ region' = region \union {code}
    /\ UNCHANGED <<profile, maturity, job, download, report, errors>>

\* Of a title, by anyone.  Playback does not ask for it.
CreateMaturity(t) ==
    /\ t \notin maturity
    /\ maturity' = maturity \union {t}
    /\ UNCHANGED <<profile, region, job, download, report, errors>>

(* Jobs and downloads *)

CreateTranscodingJob ==
    /\ job = NoRow
    /\ job' = [exists |-> TRUE, status |-> "pending", percent |-> 0, error |-> NoError]
    /\ UNCHANGED <<profile, region, maturity, download, report, errors>>

CreateDownload(user) ==
    /\ download = NoRow
    /\ download' = [exists |-> TRUE, user |-> user, status |-> "queued", total |-> 0,
                    bytes |-> 0, percent |-> 0]
    /\ UNCHANGED <<profile, region, maturity, job, report, errors>>

UnchangedRows == UNCHANGED <<profile, region, maturity, job, download, errors>>

\* update_transcoding_progress by an administrator: an error is optional, and
\* None clears none.
LoadJob(r, percent, error) ==
    /\ At(r, "idle") /\ job # NoRow
    /\ report' = [report EXCEPT ![r] =
         [at |-> "job", old |-> job,
          changes |-> IF error = NoError THEN [percent |-> percent]
                      ELSE [percent |-> percent, error |-> error]]]
    /\ UnchangedRows

CommitJob(r) ==
    LET w == Dirty(report[r].old, report[r].changes) IN
    /\ At(r, "job")
    /\ job' = Updated(job, w)
    /\ errors' = errors \union
         (IF "error" \in DOMAIN report[r].changes THEN {report[r].changes.error} ELSE {})
    /\ report' = [report EXCEPT ![r] = Idle]
    /\ UNCHANGED <<profile, region, maturity, download>>

\* update_download_progress: only the owner's
LoadDownload(r, user, bytes) ==
    /\ At(r, "idle") /\ download # NoRow /\ download.user = user
    /\ report' = [report EXCEPT ![r] =
         [at |-> "download", old |-> download,
          changes |-> [bytes |-> bytes, percent |-> Percent(download, bytes)]]]
    /\ UnchangedRows

CommitDownload(r) ==
    /\ At(r, "download")
    /\ download' = Updated(download, Dirty(report[r].old, report[r].changes))
    /\ report' = [report EXCEPT ![r] = Idle]
    /\ UNCHANGED <<profile, region, maturity, job, errors>>

\* A report fails or dies.
Fail(r) ==
    /\ ~At(r, "idle")
    /\ report' = [report EXCEPT ![r] = Idle]
    /\ UnchangedRows

Next ==
    \/ \E n \in Names : CreateQualityProfile(n) \/ CreateCDNRegion(n)
    \/ \E t \in Titles : CreateMaturity(t)
    \/ CreateTranscodingJob
    \/ \E user \in Users : CreateDownload(user)
    \/ \E r \in Requests :
        \/ \E percent \in Percents, error \in Errors \union {NoError} :
            LoadJob(r, percent, error)
        \/ \E user \in Users, bytes \in Percents : LoadDownload(r, user, bytes)
        \/ CommitJob(r) \/ CommitDownload(r) \/ Fail(r)

Spec == Init /\ [][Next]_vars

-----------------------------------------------------------------------------
(* Properties *)

TypeOK ==
    /\ profile \in Profiles /\ region \in Regions /\ maturity \in Maturities
    /\ job \in JobRows \union {NoRow} /\ download \in Downloads \union {NoRow}
    /\ report \in [Requests -> ReportStates]

\* Once an error is reported for a job, the job shows one that was reported,
\* whatever progress is reported over it.
ReportedErrorsShow == errors # {} => job # NoRow /\ job.error \in errors

=============================================================================
