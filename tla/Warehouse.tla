------------------------------ MODULE Warehouse ------------------------------
(***************************************************************************)
(* One report month of the warehouse: the capture of the student mirror    *)
(* (app/services/sync.py), the assembly of FINALIZED snapshots             *)
(* (snapshot.py), the published reports (report.py, routers/reports.py) and*)
(* the monthly job that runs the last two for everybody                    *)
(* (_scheduled_jobs.py).  The same functions are also endpoints, so a run  *)
(* of each may overlap a run of any other.                                 *)
(*                                                                         *)
(* A job is a record: where it is, the students it has left and what it    *)
(* read before its last await.  Its memory is lost when it raises or the   *)
(* process ends.  A student's data is a version number: 0 where there is no*)
(* row, and a larger number for what SQL Server said later.  A narrative is*)
(* the number of the finalized insight it was copied from, 0 for NULL; the *)
(* five narrative columns are alike and one stands for them.               *)
(***************************************************************************)
EXTENDS Naturals, Sequences

CONSTANTS
    Students,
    Workers,        \* jobs and requests that can run at the same time
    Runs,           \* what a worker is used for
    Classes,        \* the segments a version can fall in; the date chooses
    MaxVersion,     \* bound: versions of each student's mirror row
    MaxInsight,     \* bound: finalized insights of each student
    NoStudent

\* The segments the monthly job goes through, in its order.  Faulty variant: the
\* cohort of finished students is forgotten.
ReportSegmentsWithoutPlacement ==
    <<"NEWCOMERS", "ENGAGEMENT", "CAP_HOPEFULS", "LAUNCH_HOPEFULS">>
ReportSegments ==
    <<"NEWCOMERS", "ENGAGEMENT", "CAP_HOPEFULS", "LAUNCH_HOPEFULS", "PLACEMENT_HOPEFULS">>

\* What _classify_segment can answer.
Segments == {"NEWCOMERS", "ENGAGEMENT", "CAP_HOPEFULS", "LAUNCH_HOPEFULS", "PLACEMENT_HOPEFULS"}

Versions == UNION {0 .. MaxVersion[s] : s \in Students}

ASSUME WarehouseAssumption ==
    /\ Runs \in [Workers -> SUBSET {"month", "all", "one", "cohorts", "report", "capture"}]
    /\ MaxVersion \in [Students -> Nat]
    /\ Classes \in [Versions \ {0} -> SUBSET Segments]
    /\ MaxInsight \in [Students -> Nat]
    /\ NoStudent \notin Students

VARIABLES
    mirror,     \* ai_chatbot_triggerdata
    history,    \* student_mirror_history of the month
    insight,    \* the newest finalized ai_insights row
    snapshots,  \* FINALIZED warehouse.student_snapshots rows and their narratives
    reports,    \* REPORT_PUBLISHED warehouse.monthly_reports rows
    job,        \* what each worker is doing
    promised    \* students of the monthly jobs that were logged as completed

vars == <<mirror, history, insight, snapshots, reports, job, promised>>

Snapshots == [data : Versions \ {0}, segment : Segments, narrative : Nat]
Contents  == [data : Versions \ {0}, narrative : Nat]

NoContent == [data |-> 0, narrative |-> 0]

Idle == [pc |-> "idle", monthly |-> FALSE, todo |-> {}, segments |-> <<>>, listed |-> {},
         student |-> NoStudent, content |-> NoContent, copy |-> [s \in Students |-> 0]]

Jobs == [pc       : {"idle", "assemble", "read", "narrate", "insert", "report", "update",
                     "append", "copied"},
         monthly  : BOOLEAN,
         todo     : SUBSET Students,
         segments : Seq(Segments),
         listed   : SUBSET Students,
         student  : Students \cup {NoStudent},
         content  : Contents \cup {NoContent},
         copy     : [Students -> Versions]]

\* The types, and what a job carries (snapshot.py and report.py pass these values
\* between their awaits).
TypeOK ==
    /\ mirror \in [Students -> Versions]
    /\ history \in [Students -> Versions]
    /\ insight \in [Students -> Nat]
    /\ snapshots \in [Students -> Seq(Snapshots)]
    /\ reports \in [Students -> Seq(Contents)]
    /\ job \in [Workers -> Jobs]
    /\ promised \subseteq Students
    \* What is about to be written has been read.
    /\ \A w \in Workers :
         /\ job[w].pc \in {"read", "narrate", "insert", "update", "append"} =>
              job[w].student # NoStudent
         /\ job[w].pc \in {"narrate", "insert", "update", "append"} => job[w].content.data # 0

Init ==
    /\ mirror \in [Students -> Versions \cap 0 .. 1]
    /\ history = [s \in Students |-> 0]
    /\ insight = [s \in Students |-> 0]
    /\ snapshots = [s \in Students |-> <<>>]
    /\ reports = [s \in Students |-> <<>>]
    /\ job = [w \in Workers |-> Idle]
    /\ promised = {}

Listed == {s \in Students : mirror[s] # 0}

\* The row ORDER BY lineage_version DESC LIMIT 1 finds.
Finalized(s) == snapshots[s] # <<>>

-----------------------------------------------------------------------------
(* Around the warehouse *)

\* A sync from SQL Server commits newer rows for some students.
Refresh(T) ==
    /\ T # {} /\ \A s \in T : mirror[s] < MaxVersion[s]
    /\ mirror' = [s \in Students |-> IF s \in T THEN mirror[s] + 1 ELSE mirror[s]]
    /\ UNCHANGED <<history, insight, snapshots, reports, job, promised>>

\* Narratives are generated and finalized in one step.  A student who has them is
\* skipped, but two overlapping requests both find none and both add theirs.
FinalizeInsight(s) ==
    /\ insight[s] < MaxInsight[s]
    /\ insight' = [insight EXCEPT ![s] = @ + 1]
    /\ UNCHANGED <<mirror, history, snapshots, reports, job, promised>>

-----------------------------------------------------------------------------
(* capture_month_state *)

\* SELECT * FROM ai_chatbot_triggerdata
CaptureRead(w) ==
    /\ job[w].pc = "idle" /\ "capture" \in Runs[w]
    /\ job' = [job EXCEPT ![w] = [Idle EXCEPT !.pc = "copied", !.copy = mirror]]
    /\ UNCHANGED <<mirror, history, insight, snapshots, reports, promised>>

\* INSERT ... ON CONFLICT DO UPDATE of every row read, and the commit.
CaptureWrite(w) ==
    LET copy == job[w].copy IN
    /\ job[w].pc = "copied"
    /\ history' = [s \in Students |-> IF copy[s] # 0 THEN copy[s] ELSE history[s]]
    /\ job' = [job EXCEPT ![w] = Idle]
    /\ UNCHANGED <<mirror, insight, snapshots, reports, promised>>

-----------------------------------------------------------------------------
(* assemble_snapshot, assemble_all_active_snapshots, run_monthly_reports *)

\* POST /reports/snapshots/assemble
StartOne(w, s) ==
    /\ job[w].pc = "idle" /\ "one" \in Runs[w]
    /\ job' = [job EXCEPT ![w] = [Idle EXCEPT !.pc = "assemble", !.todo = {s}]]
    /\ UNCHANGED <<mirror, history, insight, snapshots, reports, promised>>

\* POST /reports/snapshots/assemble-all
StartAll(w) ==
    /\ job[w].pc = "idle" /\ "all" \in Runs[w]
    /\ job' = [job EXCEPT ![w] = [Idle EXCEPT !.pc = "assemble", !.todo = Listed]]
    /\ UNCHANGED <<mirror, history, insight, snapshots, reports, promised>>

\* The monthly job.
StartMonth(w) ==
    /\ job[w].pc = "idle" /\ "month" \in Runs[w]
    /\ job' = [job EXCEPT ![w] = [Idle EXCEPT !.pc = "assemble", !.monthly = TRUE,
                                   !.todo = Listed, !.listed = Listed]]
    /\ UNCHANGED <<mirror, history, insight, snapshots, reports, promised>>

\* SELECT id ... status = 'FINALIZED': a student who has a snapshot is skipped.
AssembleCheck(w, s) ==
    /\ job[w].pc = "assemble"
    /\ s \in job[w].todo
    /\ job' = IF Finalized(s)
              THEN [job EXCEPT ![w].todo = @ \ {s}]
              ELSE [job EXCEPT ![w].pc = "read", ![w].student = s]
    /\ UNCHANGED <<mirror, history, insight, snapshots, reports, promised>>

\* Faulty variant: an unknown student is not an error.
AssembleReadUnchecked(w) ==
    LET s == job[w].student
        d == IF history[s] # 0 THEN history[s] ELSE mirror[s] IN
    /\ job[w].pc = "read"
    /\ job' = [job EXCEPT ![w].pc = "narrate", ![w].content.data = d]
    /\ UNCHANGED <<mirror, history, insight, snapshots, reports, promised>>

\* The month-end capture when there is one, else the live mirror; an unknown student
\* is an error answer and the next student's turn.
AssembleRead(w) ==
    LET s == job[w].student
        d == IF history[s] # 0 THEN history[s] ELSE mirror[s] IN
    /\ job[w].pc = "read"
    /\ job' = IF d = 0
              THEN [job EXCEPT ![w].pc = "assemble", ![w].student = NoStudent,
                               ![w].todo = @ \ {s}]
              ELSE [job EXCEPT ![w].pc = "narrate", ![w].content.data = d]
    /\ UNCHANGED <<mirror, history, insight, snapshots, reports, promised>>

\* The newest finalized insight of each type, or NULL.
AssembleNarrate(w) ==
    /\ job[w].pc = "narrate"
    /\ job' = [job EXCEPT ![w].pc = "insert", ![w].content.narrative = insight[job[w].student]]
    /\ UNCHANGED <<mirror, history, insight, snapshots, reports, promised>>

\* The FINALIZED rows a job's INSERT can make, and the job after its commit.
NewSnapshots(w) ==
    {[data |-> job[w].content.data, segment |-> g, narrative |-> job[w].content.narrative] :
        g \in Classes[job[w].content.data]}
NextAssembly(w) ==
    [job EXCEPT ![w].pc = "assemble", ![w].student = NoStudent, ![w].content = NoContent,
                ![w].todo = @ \ {job[w].student}]

\* Faulty variant: no partial unique index on (student_id, snapshot_month).
AssembleInsertNoIndex(w) ==
    /\ job[w].pc = "insert"
    /\ \E x \in NewSnapshots(w) :
         snapshots' = [snapshots EXCEPT ![job[w].student] = Append(@, x)]
    /\ job' = NextAssembly(w)
    /\ UNCHANGED <<mirror, history, insight, reports, promised>>

\* Faulty variant: a snapshot that is there is replaced.
AssembleUpsert(w) ==
    /\ job[w].pc = "insert"
    /\ \E x \in NewSnapshots(w) : snapshots' = [snapshots EXCEPT ![job[w].student] = <<x>>]
    /\ job' = NextAssembly(w)
    /\ UNCHANGED <<mirror, history, insight, reports, promised>>

\* The snapshot, with the narratives finalized so far, and its companion row are
\* inserted and committed in one transaction.  The segment is worked out from the
\* data and today's date.
AssembleInsert(w) ==
    /\ job[w].pc = "insert"
    /\ ~ Finalized(job[w].student)
    /\ \E x \in NewSnapshots(w) :
         snapshots' = [snapshots EXCEPT ![job[w].student] = Append(@, x)]
    /\ job' = NextAssembly(w)
    /\ UNCHANGED <<mirror, history, insight, reports, promised>>

\* Somebody else's snapshot was committed since the check: the unique index raises,
\* and the exception ends the whole batch.
AssembleConflict(w) ==
    /\ job[w].pc = "insert"
    /\ Finalized(job[w].student)
    /\ job' = [job EXCEPT ![w] = Idle]
    /\ UNCHANGED <<mirror, history, insight, snapshots, reports, promised>>

\* Every student has had a turn: a monthly job goes on to the cohorts.
AssembleEnd(w) ==
    /\ job[w].pc = "assemble"
    /\ job[w].todo = {}
    /\ job' = IF job[w].monthly
              THEN [job EXCEPT ![w].pc = "report", ![w].segments = ReportSegments]
              ELSE [job EXCEPT ![w] = Idle]
    /\ UNCHANGED <<mirror, history, insight, snapshots, reports, promised>>

-----------------------------------------------------------------------------
(* generate_cohort_report, generate_student_report *)

\* POST /reports/monthly/generate
StartReport(w, s) ==
    /\ job[w].pc = "idle" /\ "report" \in Runs[w]
    /\ job' = [job EXCEPT ![w] = [Idle EXCEPT !.pc = "report", !.todo = {s}]]
    /\ UNCHANGED <<mirror, history, insight, snapshots, reports, promised>>

\* POST /reports/monthly/generate-all
StartCohorts(w) ==
    /\ job[w].pc = "idle" /\ "cohorts" \in Runs[w]
    /\ job' = [job EXCEPT ![w] = [Idle EXCEPT !.pc = "report", !.segments = ReportSegments]]
    /\ UNCHANGED <<mirror, history, insight, snapshots, reports, promised>>

\* The students whose FINALIZED snapshot is in the next segment.
CohortSelect(w) ==
    /\ job[w].pc = "report" /\ job[w].todo = {}
    /\ job[w].segments # <<>>
    /\ job' = [job EXCEPT ![w].segments = Tail(@),
                          ![w].todo = {s \in Students :
                              Finalized(s) /\ snapshots[s][1].segment = Head(job[w].segments)}]
    /\ UNCHANGED <<mirror, history, insight, snapshots, reports, promised>>

\* No segment and no student is left; the monthly job logs
\* "monthly_report_job_completed".
ReportEnd(w) ==
    /\ job[w].pc = "report" /\ job[w].todo = {}
    /\ job[w].segments = <<>>
    /\ promised' = promised \cup job[w].listed
    /\ job' = [job EXCEPT ![w] = Idle]
    /\ UNCHANGED <<mirror, history, insight, snapshots, reports>>

\* What a report says of a student.
Content(s) ==
    [data |-> snapshots[s][1].data, narrative |-> snapshots[s][1].narrative]

\* The snapshot is loaded and the content built from it; without one the answer is
\* an error and the next student's turn comes.
ReportLoad(w, s) ==
    /\ job[w].pc = "report"
    /\ s \in job[w].todo
    /\ job' = IF Finalized(s)
              THEN [job EXCEPT ![w].pc = "update", ![w].student = s, ![w].content = Content(s)]
              ELSE [job EXCEPT ![w].todo = @ \ {s}]
    /\ UNCHANGED <<mirror, history, insight, snapshots, reports, promised>>

NextReport(w) ==
    [job EXCEPT ![w].pc = "report", ![w].student = NoStudent, ![w].content = NoContent,
                ![w].todo = @ \ {job[w].student}]

\* UPDATE of the published row, if there is one, and commit.
ReportUpdate(w) ==
    LET s == job[w].student IN
    /\ job[w].pc = "update"
    /\ IF reports[s] # <<>>
       THEN /\ reports' = [reports EXCEPT ![s] = [i \in DOMAIN @ |-> job[w].content]]
            /\ job' = NextReport(w)
       ELSE /\ job' = [job EXCEPT ![w].pc = "append"]
            /\ UNCHANGED reports
    /\ UNCHANGED <<mirror, history, insight, snapshots, promised>>

\* INSERT ... ON CONFLICT (report_idempotency_key) DO NOTHING, and commit.
ReportInsert(w) ==
    LET s == job[w].student IN
    /\ job[w].pc = "append"
    /\ reports' = IF reports[s] = <<>>
                  THEN [reports EXCEPT ![s] = <<job[w].content>>] ELSE reports
    /\ job' = NextReport(w)
    /\ UNCHANGED <<mirror, history, insight, snapshots, promised>>

-----------------------------------------------------------------------------
(* POST /reports/snapshots/backfill-narratives *)

\* Faulty variant: the newest insight replaces the narrative that is there.
BackfillOver(text, newest) == newest

\* COALESCE(narrative, newest finalized insight)
Backfill(text, newest) == IF text # 0 THEN text ELSE newest

\* One UPDATE of all rows, and the commit.
BackfillNarratives ==
    /\ snapshots' = [s \in Students |-> [i \in DOMAIN snapshots[s] |->
                        [snapshots[s][i] EXCEPT !.narrative = Backfill(@, insight[s])]]]
    /\ UNCHANGED <<mirror, history, insight, reports, job, promised>>

\* An exception or the end of the process: what the job had not committed is lost,
\* and nothing resumes it.
Crash(w) ==
    /\ job[w].pc # "idle"
    /\ job' = [job EXCEPT ![w] = Idle]
    /\ UNCHANGED <<mirror, history, insight, snapshots, reports, promised>>

Work(w) ==
    \/ CaptureRead(w) \/ CaptureWrite(w)
    \/ StartAll(w) \/ StartMonth(w) \/ StartCohorts(w)
    \/ AssembleRead(w) \/ AssembleNarrate(w) \/ AssembleInsert(w) \/ AssembleConflict(w)
    \/ AssembleEnd(w)
    \/ CohortSelect(w) \/ ReportEnd(w) \/ ReportUpdate(w) \/ ReportInsert(w)
    \/ \E s \in Students :
         StartOne(w, s) \/ AssembleCheck(w, s) \/ StartReport(w, s) \/ ReportLoad(w, s)
    \/ Crash(w)

Next ==
    \/ \E w \in Workers : Work(w)
    \/ BackfillNarratives
    \/ \E s \in Students : FinalizeInsight(s)
    \/ \E T \in SUBSET Students : Refresh(T)

Spec == Init /\ [][Next]_vars

-----------------------------------------------------------------------------
(* Properties *)

\* However many assemblies and publications of a student overlap, there is one
\* FINALIZED snapshot and one published report (alembic 0002: uq_wss_finalized_-
\* student_month, uq_wmr_idempotency_key; snapshot.py and report.py check, then act).
OnePerMonth == \A s \in Students : Len(snapshots[s]) <= 1 /\ Len(reports[s]) <= 1

\* A monthly job that is logged as completed has left a snapshot and a report for
\* every student who was in the mirror when it began, in whatever segment the
\* student fell and whoever else was assembling (_scheduled_jobs.py lines 29-104).
CompletedMeansPublished ==
    \A s \in promised : snapshots[s] # <<>> /\ reports[s] # <<>>

\* A published report quotes its student's snapshot: the same data, and either the
\* snapshot's narrative or the blank that was there before a backfill (report.py
\* builds from the FINALIZED row only; the backfill fills, it never overwrites).
ReportQuotesSnapshot ==
    \A s \in Students : \A i \in DOMAIN reports[s] :
      /\ Finalized(s)
      /\ reports[s][i].data = snapshots[s][1].data
      /\ reports[s][i].narrative \in {0, snapshots[s][1].narrative}

\* The row of a published report is never modified (alembic 0002 lines 305-306).
PublishedNeverModified ==
    [][\A s \in Students : reports[s] # <<>> => reports'[s] = reports[s]]_vars

Archive == INSTANCE MonthArchive
    WITH Records <- Versions \ {0}, None <- 0,
         frozen <- [s \in Students |-> IF snapshots[s] = <<>> THEN 0 ELSE snapshots[s][1].data],
         published <- [s \in Students |-> IF reports[s] = <<>> THEN 0 ELSE reports[s][1].data]

\* The warehouse implements the archive of a month: freeze once, publish the frozen.
ArchiveSpec == Archive!Spec
=============================================================================
