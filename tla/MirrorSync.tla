------------------------------ MODULE MirrorSync ------------------------------
(***************************************************************************)
(* The syncs that copy SQL Server and GHL into PostgreSQL                  *)
(* (app/services/sync.py, payment_sync.py, ghl_sync.py), as the daily job  *)
(* (_scheduled_jobs.py), the pipeline (routers/admin.py) and the endpoints *)
(* run them: each fetches, writes row by row in one transaction and        *)
(* commits.  A row that has been written stays locked until the            *)
(* transaction ends; PostgreSQL ends one transaction of a cycle of waits.  *)
(*                                                                         *)
(* What a source says is a version number, the same for all its rows.  A   *)
(* row of the mirror holds the version its student columns come from, and  *)
(* who wrote its payment columns and from which source: AI_ChatBot_-       *)
(* TriggerData has payment columns of its own.  Rows are never deleted     *)
(* from the mirror.  Simplification: no student leaves a source.           *)
(***************************************************************************)
EXTENDS Naturals, Sequences, FiniteSets, Functions

CONSTANTS
    JRP, IPBC,      \* the two student populations
    Workers,        \* the jobs and requests that can run at one time
    Scheduler,      \* the worker that also runs the daily job
    Jobs,           \* what a worker runs: sequences of syncs
    MaxVersion,     \* bound: versions of each source
    MaxStarts,      \* bound: requests a worker takes
    MaxFaults       \* bound: fetches that fail and transactions that raise

Students == JRP \cup IPBC

\* Each sync, the source it reads and the table it writes.
Reads == [mssql |-> "trigger", ipbc |-> "ipbc", payments |-> "payments", plans |-> "plans",
          mentorship |-> "ipbc", interview |-> "prep", placement |-> "interviews",
          campaign |-> "events", messages |-> "ghl"]
Syncs   == DOMAIN Reads
Sources == {Reads[k] : k \in Syncs}

\* The scheduler's job, the pipeline and the endpoints.  Faulty variant of the job:
\* payments before the rows they patch.
DailyPaymentsFirst == <<"payments", "mssql", "ipbc", "campaign">>
Daily     == <<"mssql", "ipbc", "payments", "campaign">>
Pipeline  == <<"mssql", "ipbc", "payments", "plans">>

ASSUME SyncAssumption ==
    /\ IsFiniteSet(JRP) /\ IsFiniteSet(IPBC) /\ JRP \cap IPBC = {}
    /\ Jobs \in [Workers -> SUBSET ({"daily", "pipeline"} \cup Syncs)]
    /\ MaxVersion \in [Sources -> Nat \ {0}]
    /\ MaxStarts \in [Workers -> Nat]
    /\ MaxFaults \in Nat
    /\ Scheduler \in Workers /\ "none" \notin Workers

VARIABLES
    said,       \* what the sources say: versions
    mirror,     \* ai_chatbot_triggerdata
    mentor,     \* mentorship_assignments
    prep,       \* student_interview_prep
    activity,   \* student_campaign_activity rows with source engagement_events
    messages,   \* ghl_messages
    session,    \* what each worker is doing
    answer,     \* what each worker's last job returned
    starts,     \* requests each worker has taken
    faults

tables == <<mirror, mentor, prep, activity, messages>>
vars == <<said, mirror, mentor, prep, activity, messages, session, answer, starts, faults>>

Versions  == UNION {0 .. MaxVersion[k] : k \in Sources}
NoVersion == [from |-> "none", version |-> 0, by |-> "none"]
Stamps    == [from : Sources, version : Versions, by : Workers] \cup {NoVersion}
MirrorRows == [data : Versions, pay : Stamps, plan : Versions]
Events    == {"event"} \X (1 .. MaxVersion["events"]) \X Workers

Stamp(k, v, w) == [from |-> Reads[k], version |-> v, by |-> w]

Idle == [pc |-> "idle", rest |-> <<>>, got |-> 0, left |-> <<>>, seen |-> {}, held |-> {},
         failed |-> {}]

NoAnswer == [done |-> <<>>, failed |-> {}, got |-> 0]

Init ==
    /\ said = [k \in Sources |-> 1]
    /\ mirror = [s \in Students |-> [data |-> 0, pay |-> NoVersion, plan |-> 0]]
    /\ mentor = [s \in IPBC |-> 0]
    /\ prep = [s \in JRP |-> NoVersion]
    /\ activity = {}
    /\ messages = {}
    /\ session = [w \in Workers |-> Idle]
    /\ answer = [w \in Workers |-> NoAnswer]
    /\ starts = [w \in Workers |-> 0]
    /\ faults = 0

Current(w) == Head(session[w].rest)

\* A student of AI_Chatbot_TriggerData_IPBC has a mentor in the odd versions: rows
\* come and go.
Mentored(v) == v % 2 = 1

-----------------------------------------------------------------------------
(* What a sync writes, row by row, in the order its query returned the rows *)

RowsOf(k, v) ==
    CASE k \in {"mssql", "payments"}  -> {"mirror"} \X JRP
      [] k = "plans"                  -> {"mirror"} \X IPBC
      [] k = "ipbc"                   -> (IF Mentored(v) THEN {"mirror", "mentor"} ELSE {"mirror"}) \X IPBC
      [] k = "mentorship"             -> {"mentor"} \X IPBC
      [] k \in {"interview", "placement"} -> {"prep"} \X JRP
      [] k = "messages"               -> {"message"} \X (1 .. v)
      [] OTHER                        -> {}

\* A student's assignment is written right after the student, messages in their order.
InTurn(k, q) ==
    \A i \in DOMAIN q :
      /\ k = "ipbc" /\ q[i][1] = "mentor" => i > 1 /\ q[i - 1] = <<"mirror", q[i][2]>>
      /\ k = "messages" => q[i][2] = i

WritesOf(k, v) ==
    LET rows == RowsOf(k, v)
    IN  {q \in [1 .. Cardinality(rows) -> rows] : Range(q) = rows /\ InTurn(k, q)}

\* UPDATE finds no row that is not committed; the upserts insert it.
Unseen(k, c) == k \in {"payments", "plans"} /\ mirror[c[2]].data = 0

\* Rows other transactions have written and not committed.
LockedFrom(w) == UNION {session[u].held : u \in Workers \ {w}}

-----------------------------------------------------------------------------
(* Jobs *)

\* A DELETE that waits finds the rows gone that another one has deleted.
Awoken(w, u) ==
    IF session[w].pc = "deleting"
    THEN [session[w] EXCEPT !.seen = @ \ session[u].held]
    ELSE session[w]

\* The next sync of a job, or its end.
Proceed(w, k, failed) ==
    LET now  == session[w]
        bad  == IF failed THEN now.failed \cup {k} ELSE now.failed
        next == IF Len(now.rest) > 1
                THEN [Idle EXCEPT !.pc = "fetch", !.rest = Tail(now.rest), !.failed = bad]
                ELSE Idle
    IN  /\ session' = [u \in Workers |-> IF u = w THEN next ELSE Awoken(u, w)]
        /\ answer' = IF next # Idle THEN answer
                     ELSE [answer EXCEPT ![w] = [@ EXCEPT !.failed = bad, !.got = now.got]]

Steps(j) == CASE j = "daily" -> Daily [] j = "pipeline" -> Pipeline [] OTHER -> <<j>>

Start(w, j) ==
    /\ session[w].pc = "idle"
    /\ j # "daily" => starts[w] < MaxStarts[w]
    /\ session' = [session EXCEPT ![w] = [Idle EXCEPT !.pc = "fetch", !.rest = Steps(j)]]
    /\ answer' = [answer EXCEPT ![w] = [NoAnswer EXCEPT !.done = Steps(j)]]
    /\ starts' = [starts EXCEPT ![w] = IF j = "daily" THEN @ ELSE @ + 1]
    /\ UNCHANGED <<said, tables, faults>>

\* The rows arrive; nothing is locked yet, and the source may move on.
Fetch(w) ==
    /\ session[w].pc = "fetch"
    /\ LET k == Current(w)
           v == said[Reads[k]]
       IN  \E q \in WritesOf(k, v) :
             session' = [session EXCEPT ![w].pc = IF k = "campaign" THEN "delete" ELSE "write",
                                        ![w].got = v, ![w].left = q]
    /\ UNCHANGED <<said, tables, answer, starts, faults>>

\* SQL Server or GHL does not answer: the sync returns an error, and the job goes on
\* with the next sync.
FetchFails(w) ==
    /\ session[w].pc = "fetch" /\ faults < MaxFaults
    /\ Proceed(w, Current(w), TRUE)
    /\ faults' = faults + 1
    /\ UNCHANGED <<said, tables, starts>>

-----------------------------------------------------------------------------
(* Writing *)

Locked(w, c, pc) ==
    session' = [session EXCEPT ![w].held = @ \cup {c}, ![w].left = Tail(@), ![w].pc = pc]
Passed(w) == session' = [session EXCEPT ![w].left = Tail(@)]

\* Faulty variant: every row is committed on its own.
WriteRowAutocommit(w) ==
    /\ session[w].pc = "write" /\ session[w].left # <<>>
    /\ LET c == Head(session[w].left)
       IN  /\ c[1] = "mirror"
           /\ mirror' = [mirror EXCEPT ![c[2]].data = session[w].got]
           /\ Passed(w)
    /\ UNCHANGED <<said, mentor, prep, activity, messages, answer, starts, faults>>

\* Faulty variant: it does not wait for the row.
WriteRowUnwaited(w) ==
    /\ session[w].pc = "write" /\ session[w].left # <<>>
    /\ LET c == Head(session[w].left)
       IN  /\ c[1] # "message"
           /\ \/ Unseen(Current(w), c) /\ Passed(w)
              \/ ~Unseen(Current(w), c) /\ Locked(w, c, "write")
    /\ UNCHANGED <<said, tables, answer, starts, faults>>

WriteRow(w) ==
    /\ session[w].pc = "write" /\ session[w].left # <<>>
    /\ LET c == Head(session[w].left)
       IN  /\ c[1] # "message"
           /\ \/ Unseen(Current(w), c) /\ Passed(w)
              \/ ~Unseen(Current(w), c) /\ c \notin LockedFrom(w) /\ Locked(w, c, "write")
    /\ UNCHANGED <<said, tables, answer, starts, faults>>

\* _upsert_messages looks for the message before it adds it: it sees what is
\* committed, not what another sync has just flushed.
\* Faulty variant: it takes another sync's word for it.
CheckMessageUncommitted(w) ==
    /\ session[w].pc = "write" /\ session[w].left # <<>>
    /\ LET c == Head(session[w].left)
       IN  /\ c[1] = "message"
           /\ IF c[2] \in messages \/ c \in LockedFrom(w) THEN Passed(w)
              ELSE session' = [session EXCEPT ![w].pc = "insert"]
    /\ UNCHANGED <<said, tables, answer, starts, faults>>

CheckMessage(w) ==
    /\ session[w].pc = "write" /\ session[w].left # <<>>
    /\ LET c == Head(session[w].left)
       IN  /\ c[1] = "message"
           /\ IF c[2] \in messages THEN Passed(w)
              ELSE session' = [session EXCEPT ![w].pc = "insert"]
    /\ UNCHANGED <<said, tables, answer, starts, faults>>

InsertMessage(w) ==
    /\ session[w].pc = "insert"
    /\ LET c == Head(session[w].left)
       IN  c \notin LockedFrom(w) /\ c[2] \notin messages /\ Locked(w, c, "write")
    /\ UNCHANGED <<said, tables, answer, starts, faults>>

\* DELETE sees the rows that are committed when it begins, and waits for those
\* another transaction is deleting.
\* Faulty variant: it looks for rows of the import script.
DeleteBeginElsewhere(w) ==
    /\ session[w].pc = "delete"
    /\ session' = [session EXCEPT ![w].pc = "deleting", ![w].seen = {}]
    /\ UNCHANGED <<said, tables, answer, starts, faults>>

DeleteBegin(w) ==
    /\ session[w].pc = "delete"
    /\ session' = [session EXCEPT ![w].pc = "deleting", ![w].seen = activity]
    /\ UNCHANGED <<said, tables, answer, starts, faults>>

DeleteRows(w) ==
    /\ session[w].pc = "deleting"
    /\ session[w].seen \cap LockedFrom(w) = {}
    /\ session' = [session EXCEPT ![w].pc = "write", ![w].seen = {},
                                  ![w].held = session[w].seen \cap activity]
    /\ UNCHANGED <<said, tables, answer, starts, faults>>

-----------------------------------------------------------------------------
(* Ending *)

\* The columns a sync writes of a row it holds.
FullRow(w, k, s, v)  == [mirror[s] EXCEPT !.data = v, !.pay = Stamp(k, v, w)]
Payments(w, k, s, v) == [mirror[s] EXCEPT !.pay = Stamp(k, v, w)]
Plan(s, v)           == [mirror[s] EXCEPT !.plan = v]

NewMirrorRow(w, k, s, v) ==
    CASE k \in {"mssql", "ipbc"} -> FullRow(w, k, s, v)
      [] k = "payments"          -> Payments(w, k, s, v)
      [] k = "plans"             -> Plan(s, v)
      [] OTHER                   -> mirror[s]

\* mentorship_assignments by either of its two syncs.
NewMentor(v) == IF Mentored(v) THEN v ELSE 0

\* student_interview_prep by the sync of InterviewPrep, and by that of the placement
\* interviews, which writes over the same rows.
InterviewPrep(w, v) == Stamp("interview", v, w)
Placement(w, v)     == Stamp("placement", v, w)
NewPrep(w, k, v)    == IF k = "interview" THEN InterviewPrep(w, v) ELSE Placement(w, v)

NewMessages(held) == messages \cup {i \in 1 .. MaxVersion["ghl"] : <<"message", i>> \in held}
NewActivity(w, v, held) == (activity \ held) \cup {"event"} \X (1 .. v) \X {w}

Apply(w, k, v, held) ==
    /\ mirror' = [s \in Students |->
         IF <<"mirror", s>> \in held THEN NewMirrorRow(w, k, s, v) ELSE mirror[s]]
    /\ mentor' = [s \in IPBC |->
         IF <<"mentor", s>> \in held THEN NewMentor(v) ELSE mentor[s]]
    /\ prep' = [s \in JRP |->
         IF <<"prep", s>> \in held THEN NewPrep(w, k, v) ELSE prep[s]]
    /\ messages' = NewMessages(held)
    /\ activity' = IF k = "campaign" THEN NewActivity(w, v, held) ELSE activity

Commit(w) ==
    /\ session[w].pc = "write" /\ session[w].left = <<>>
    /\ Apply(w, Current(w), session[w].got, session[w].held)
    /\ Proceed(w, Current(w), FALSE)
    /\ UNCHANGED <<said, starts, faults>>

\* A transaction that raises is rolled back, and its job ends with it; so does the
\* process that ends.
Rollback(w) ==
    /\ session' = [session EXCEPT ![w] = Idle]
    /\ answer' = [answer EXCEPT ![w] = NoAnswer]

Raise(w) ==
    /\ session[w].pc # "idle" /\ faults < MaxFaults
    /\ Rollback(w)
    /\ faults' = faults + 1
    /\ UNCHANGED <<said, tables, starts>>

\* Another sync has committed the message meanwhile: the unique index refuses it.
\* Faulty variant: the insert is tried again.
MessageConflictRetried(w) ==
    /\ session[w].pc = "insert" /\ Head(session[w].left)[2] \in messages
    /\ UNCHANGED vars

MessageConflict(w) ==
    /\ session[w].pc = "insert" /\ Head(session[w].left)[2] \in messages
    /\ Rollback(w)
    /\ UNCHANGED <<said, tables, starts, faults>>

WaitsFor(w, u) ==
    LET now == session[w]
    IN  u # w /\ \/ now.pc = "deleting" /\ now.seen \cap session[u].held # {}
                 \/ /\ now.left # <<>>
                    /\ now.pc = IF Head(now.left)[1] = "message" THEN "insert" ELSE "write"
                    /\ ~Unseen(Current(w), Head(now.left))
                    /\ Head(now.left) \in session[u].held

\* The least sets of workers in which everybody waits for somebody are the cycles.
Waiting(S) == S # {} /\ \A w \in S : \E u \in S : WaitsFor(w, u)
Cycle(S) == Waiting(S) /\ \A T \in SUBSET S : Waiting(T) => T = S

DeadlockVictim(w) ==
    /\ \E S \in SUBSET Workers : w \in S /\ Cycle(S)
    /\ Rollback(w)
    /\ UNCHANGED <<said, tables, starts, faults>>

-----------------------------------------------------------------------------

SourceChanges(src) ==
    /\ said[src] < MaxVersion[src]
    /\ said' = [said EXCEPT ![src] = @ + 1]
    /\ UNCHANGED <<tables, session, answer, starts, faults>>

Work(w) ==
    \/ Fetch(w) \/ WriteRow(w) \/ CheckMessage(w) \/ InsertMessage(w)
    \/ DeleteBegin(w) \/ DeleteRows(w) \/ Commit(w)
    \/ MessageConflict(w) \/ DeadlockVictim(w)

Next ==
    \/ \E w \in Workers : Work(w) \/ FetchFails(w) \/ Raise(w)
    \/ \E w \in Workers : \E j \in Jobs[w] : Start(w, j)
    \/ \E src \in Sources : SourceChanges(src)

Spec == Init /\ [][Next]_vars

\* asyncio and PostgreSQL let every transaction go on, the waiters for a row get it in
\* turn (hence SF), PostgreSQL ends deadlocks, and the scheduler runs the daily job
\* again and again.
FairSpec ==
    /\ Spec
    /\ \A w \in Workers : SF_vars(Work(w))
    /\ WF_vars(Start(Scheduler, "daily"))

-----------------------------------------------------------------------------
(* Properties *)

\* The types, and what a transaction holds: rows of the sync it is in, and no row
\* another one holds.
TypeOK ==
    /\ said \in [Sources -> Versions]
    /\ mirror \in [Students -> MirrorRows]
    /\ mentor \in [IPBC -> Versions]
    /\ prep \in [JRP -> Stamps]
    /\ activity \subseteq Events
    /\ messages \subseteq 1 .. MaxVersion["ghl"]
    /\ \A w \in Workers :
         /\ session[w].pc \in {"idle", "fetch", "write", "insert", "delete", "deleting"}
         /\ session[w].pc # "idle" => session[w].rest # <<>>
         /\ session[w].held \cap LockedFrom(w) = {}

\* However many syncs of a population overlap, the committed rows come from one fetch:
\* there is never half of one sync and half of another (sync.py: one commit after the
\* loop, lines 403 and 526; the row locks order the rest).
OneFetch ==
    /\ \A s, t \in JRP : mirror[s].data = mirror[t].data
    /\ \A s, t \in IPBC : mirror[s].data = mirror[t].data

\* A job that syncs payments leaves no payment columns of its own full sync behind:
\* they are patched after they are written, in the daily job as in the pipeline
\* (_scheduled_jobs.py lines 127-134, admin.py lines 69-81).
PaymentsPatched ==
    \A w \in Workers :
      /\ session[w].pc = "idle"
      /\ {"mssql", "payments"} \subseteq Range(answer[w].done) \ answer[w].failed
      => \A s \in JRP : mirror[s].pay.by = w => mirror[s].pay.from = "payments"

\* A message sync that answers success has every message it fetched in the table,
\* whatever another sync of the conversation was doing (ghl_sync.py lines 167-207).
SuccessMeansStored ==
    \A w \in Workers :
      session[w].pc = "idle" /\ answer[w].done = <<"messages">> /\ answer[w].failed = {}
        => 1 .. answer[w].got \subseteq messages

\* Every job ends: the syncs write the same rows in the orders their queries return,
\* and no cycle of waits holds them for ever.
EveryJobEnds ==
    \A w \in Workers : session[w].pc # "idle" ~> session[w].pc = "idle"

\* Once the sources are quiet and requests and faults are over, the daily job brings
\* the mirror to what SQL Server says and keeps it there; each event is in the table
\* once, though overlapping syncs had inserted it twice.  The payment columns only
\* come back to the payments source each day: the full sync before it overwrites them
\* (_scheduled_jobs.py, run_daily_mssql_sync).
Converges ==
    /\ <>[](/\ \A s \in JRP : mirror[s].data = said["trigger"]
            /\ \A s \in IPBC : mirror[s].data = said["ipbc"]
            /\ \A i \in 1 .. said["events"] :
                 Cardinality({r \in activity : r[2] = i}) = 1)
    /\ []<>(\A s \in JRP : /\ mirror[s].pay.from = "payments"
                           /\ mirror[s].pay.version = said["payments"])

\* The two populations, the source of each and the versions its rows hold, 0 before
\* there are any.
Populations == {"jrp", "ipbc"}
Members(p)  == IF p = "jrp" THEN JRP ELSE IPBC
Origin(p)   == IF p = "jrp" THEN "trigger" ELSE "ipbc"
Copied(p)   == IF Members(p) = {} THEN {0} ELSE {mirror[s].data : s \in Members(p)}

Copies == INSTANCE PopulationCopies
    WITH Limit  <- [p \in Populations |-> MaxVersion[Origin(p)]],
         source <- [p \in Populations |-> said[Origin(p)]],
         copy   <- [p \in Populations |-> Copied(p)]

\* The syncs, with their row-by-row writes, waits, rollbacks and victims, replace a
\* population as a whole by something its source has said (sync.py lines 354-403 and
\* 470-526).
CopiesSpec == Copies!Spec
=============================================================================
