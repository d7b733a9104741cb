--------------------------- MODULE WarehouseProofs ---------------------------
(***************************************************************************)
(* What Warehouse guarantees of a month, for any students, jobs, versions  *)
(* and insights.                                                           *)
(***************************************************************************)
EXTENDS Warehouse, SequenceTheorems, TLAPS

-----------------------------------------------------------------------------
(* The inductive invariant *)

Assembling == {"assemble", "read", "narrate", "insert"}
Reporting  == {"report", "update", "append"}

\* A content quotes the frozen row of a student.
Quotes(c, s, snaps) ==
    /\ snaps[s] # <<>>
    /\ c.data = snaps[s][1].data
    /\ c.narrative \in {0, snaps[s][1].narrative}

\* What a monthly job still owes a student it listed: a snapshot while it assembles, a
\* report while it publishes, unless his turn or his cohort is still to come.
Owes(j, s, mirrored, snaps, reps) ==
    /\ mirrored[s] # 0
    /\ j.pc \in Assembling => s \in j.todo \/ snaps[s] # <<>>
    /\ j.pc \in Reporting =>
         /\ snaps[s] # <<>>
         /\ \/ s \in j.todo \/ reps[s] # <<>>
            \/ \E i \in DOMAIN j.segments : j.segments[i] = snaps[s][1].segment

\* What a job carries between two awaits, against the tables.
Carries(j, mirrored, snaps, reps) ==
    /\ j.pc \in {"read", "narrate", "insert", "update", "append"} => j.student \in Students
    /\ j.pc \in {"narrate", "insert", "update", "append"} => j.content.data # 0
    /\ j.pc \in {"update", "append"} => Quotes(j.content, j.student, snaps)
    /\ \A s \in j.listed : Owes(j, s, mirrored, snaps, reps)

Tables ==
    /\ mirror \in [Students -> Versions]
    /\ history \in [Students -> Versions]
    /\ insight \in [Students -> Nat]
    /\ snapshots \in [Students -> Seq(Snapshots)]
    /\ reports \in [Students -> Seq(Contents)]
    /\ promised \subseteq Students

JobsInv ==
    /\ job \in [Workers -> Jobs]
    /\ \A w \in Workers : Carries(job[w], mirror, snapshots, reports)

IInv ==
    /\ Tables /\ JobsInv
    /\ OnePerMonth /\ ReportQuotesSnapshot /\ CompletedMeansPublished

\* The tables only grow: nothing frozen changes but for a blank that is filled.
Grown(mirrored, mirrored2, snaps, snaps2, reps, reps2) ==
    \A s \in Students :
      /\ mirrored[s] # 0 => mirrored2[s] # 0
      /\ reps[s] # <<>> => reps2[s] # <<>>
      /\ snaps[s] # <<>> =>
           /\ snaps2[s] # <<>>
           /\ snaps2[s][1].data = snaps[s][1].data
           /\ snaps2[s][1].segment = snaps[s][1].segment
           /\ snaps[s][1].narrative \in {0, snaps2[s][1].narrative}

-----------------------------------------------------------------------------
(* Lemmas *)

\* No row is frozen with no data.
LEMMA DataOfContent ==
    /\ \A c \in Contents : c.data # 0
    /\ \A c \in Snapshots : c.data # 0 /\ c.segment \in Segments
BY DEF Contents, Snapshots

\* What a job carries stays true when the tables grow under it.
LEMMA CarriesGrown ==
    ASSUME NEW mirrored, NEW mirrored2, NEW snaps, NEW snaps2, NEW reps, NEW reps2,
           Grown(mirrored, mirrored2, snaps, snaps2, reps, reps2),
           NEW j \in Jobs, Carries(j, mirrored, snaps, reps)
    PROVE  Carries(j, mirrored2, snaps2, reps2)
<1>1. j.listed \subseteq Students
  BY DEF Jobs
<1>2. ASSUME NEW s \in j.listed PROVE Owes(j, s, mirrored2, snaps2, reps2)
  <2>1. Owes(j, s, mirrored, snaps, reps) /\ s \in Students
    BY <1>1, <1>2 DEF Carries
  <2>. QED
    BY <2>1 DEF Owes, Grown
<1>3. ASSUME NEW s \in Students, Quotes(j.content, s, snaps)
      PROVE  Quotes(j.content, s, snaps2)
  BY <1>3 DEF Quotes, Grown
<1>. QED
  BY <1>2, <1>3 DEF Carries

\* One job steps and the tables grow.
LEMMA JobStep ==
    ASSUME IInv, NEW w \in Workers, NEW j \in Jobs, job' = [job EXCEPT ![w] = j],
           Grown(mirror, mirror', snapshots, snapshots', reports, reports'),
           Carries(j, mirror', snapshots', reports')
    PROVE  JobsInv'
<1>1. job' \in [Workers -> Jobs]
  BY DEF IInv, JobsInv
<1>2. ASSUME NEW u \in Workers PROVE Carries(job'[u], mirror', snapshots', reports')
  <2>1. CASE u = w
    BY <2>1 DEF IInv, JobsInv
  <2>2. CASE u # w
    <3>1. job'[u] = job[u] /\ job[u] \in Jobs /\ Carries(job[u], mirror, snapshots, reports)
      BY <2>2 DEF IInv, JobsInv
    <3>. QED
      BY <3>1, CarriesGrown
  <2>. QED
    BY <2>1, <2>2
<1>. QED
  BY <1>1, <1>2 DEF JobsInv

\* The tables a step leaves alone have grown.
LEMMA SameGrown ==
    ASSUME NEW mirrored, NEW snaps, NEW reps
    PROVE  Grown(mirrored, mirrored, snaps, snaps, reps, reps)
BY DEF Grown

\* A job that is done carries nothing.
LEMMA IdleCarries ==
    ASSUME NEW mirrored, NEW snaps, NEW reps, IInv
    PROVE  Idle \in Jobs /\ Carries(Idle, mirrored, snaps, reps)
<1>1. [s \in Students |-> 0] \in [Students -> Versions]
  <2>1. ASSUME NEW s \in Students PROVE 0 \in Versions
    BY WarehouseAssumption DEF WarehouseAssumption, Versions
  <2>. QED
    BY <2>1
<1>2. Idle \in Jobs
  BY <1>1 DEF Idle, Jobs, NoContent
<1>. QED
  BY <1>2 DEF Carries, Idle, Owes

LEMMA InitIInv == Init => IInv
<1>. SUFFICES ASSUME Init PROVE IInv
  OBVIOUS
<1>1. ASSUME NEW s \in Students PROVE 0 \in Versions
  BY WarehouseAssumption DEF WarehouseAssumption, Versions
<1>2. Tables
  BY <1>1 DEF Init, Tables
<1>3. Idle \in Jobs /\ \A w \in Workers : Carries(Idle, mirror, snapshots, reports)
  <2>1. [s \in Students |-> 0] \in [Students -> Versions]
    BY <1>1
  <2>. QED
    BY <2>1 DEF Idle, Jobs, NoContent, Carries, Owes
<1>4. JobsInv
  BY <1>3 DEF JobsInv, Init
<1>5. OnePerMonth /\ ReportQuotesSnapshot /\ CompletedMeansPublished
  BY DEF Init, OnePerMonth, ReportQuotesSnapshot, CompletedMeansPublished
<1>. QED
  BY <1>2, <1>4, <1>5 DEF IInv

\* A step that leaves the tables alone.
LEMMA JobOnly ==
    ASSUME IInv, NEW w \in Workers, NEW j \in Jobs, job' = [job EXCEPT ![w] = j],
           UNCHANGED <<mirror, history, insight, snapshots, reports, promised>>,
           Carries(j, mirror, snapshots, reports)
    PROVE  IInv'
<1>1. Grown(mirror, mirror', snapshots, snapshots', reports, reports')
  BY SameGrown
<1>2. JobsInv'
  BY <1>1, JobStep
<1>. QED
  BY <1>2 DEF IInv, Tables, OnePerMonth, ReportQuotesSnapshot, CompletedMeansPublished, Finalized

-----------------------------------------------------------------------------
(* The steps of a job that only read *)

\* Requests and jobs begin.
LEMMA StartStep ==
    ASSUME IInv, NEW w \in Workers,
           \/ CaptureRead(w) \/ StartAll(w) \/ StartMonth(w) \/ StartCohorts(w)
           \/ \E s \in Students : StartOne(w, s) \/ StartReport(w, s)
    PROVE  IInv'
<1>. DEFINE capture == [Idle EXCEPT !.pc = "copied", !.copy = mirror]
            all     == [Idle EXCEPT !.pc = "assemble", !.todo = Listed]
            month   == [Idle EXCEPT !.pc = "assemble", !.monthly = TRUE,
                                    !.todo = Listed, !.listed = Listed]
            cohorts == [Idle EXCEPT !.pc = "report", !.segments = ReportSegments]
            one(s)    == [Idle EXCEPT !.pc = "assemble", !.todo = {s}]
            report(s) == [Idle EXCEPT !.pc = "report", !.todo = {s}]
<1>0. Idle \in Jobs /\ Listed \subseteq Students /\ mirror \in [Students -> Versions]
  BY IdleCarries DEF Listed, IInv, Tables
<1>1. CASE CaptureRead(w)
  <2>1. capture \in Jobs /\ Carries(capture, mirror, snapshots, reports)
    BY <1>0 DEF Jobs, Carries, Owes, Idle
  <2>. QED
    BY <1>1, <2>1, JobOnly DEF CaptureRead
<1>2. CASE StartAll(w)
  <2>1. all \in Jobs /\ Carries(all, mirror, snapshots, reports)
    BY <1>0 DEF Jobs, Carries, Owes, Idle
  <2>. QED
    BY <1>2, <2>1, JobOnly DEF StartAll
<1>3. CASE StartMonth(w)
  <2>1. month \in Jobs
    BY <1>0 DEF Jobs, Idle
  <2>2. Carries(month, mirror, snapshots, reports)
    BY <1>0 DEF Carries, Owes, Idle, Listed, Reporting
  <2>. QED
    BY <1>3, <2>1, <2>2, JobOnly DEF StartMonth
<1>4. CASE StartCohorts(w)
  <2>1. ReportSegments \in Seq(Segments)
    BY DEF ReportSegments, Segments
  <2>2. cohorts \in Jobs /\ Carries(cohorts, mirror, snapshots, reports)
    BY <1>0, <2>1 DEF Jobs, Carries, Owes, Idle
  <2>. QED
    BY <1>4, <2>2, JobOnly DEF StartCohorts
<1>5. ASSUME NEW s \in Students, StartOne(w, s) PROVE IInv'
  <2>1. one(s) \in Jobs /\ Carries(one(s), mirror, snapshots, reports)
    BY <1>0 DEF Jobs, Carries, Owes, Idle
  <2>. QED
    BY <1>5, <2>1, JobOnly DEF StartOne
<1>6. ASSUME NEW s \in Students, StartReport(w, s) PROVE IInv'
  <2>1. report(s) \in Jobs /\ Carries(report(s), mirror, snapshots, reports)
    BY <1>0 DEF Jobs, Carries, Owes, Idle
  <2>. QED
    BY <1>6, <2>1, JobOnly DEF StartReport
<1>. QED
  BY <1>1, <1>2, <1>3, <1>4, <1>5, <1>6

\* They end without a write: by a conflict, a crash, or because nothing is left.
LEMMA IdleStep ==
    ASSUME IInv, NEW w \in Workers, job' = [job EXCEPT ![w] = Idle],
           UNCHANGED <<mirror, history, insight, snapshots, reports, promised>>
    PROVE  IInv'
BY IdleCarries, JobOnly

LEMMA AssembleCheckStep ==
    ASSUME IInv, NEW w \in Workers, NEW s \in Students, AssembleCheck(w, s)
    PROVE  IInv'
<1>. DEFINE skipped == [job[w] EXCEPT !.todo = @ \ {s}]
            taken   == [job[w] EXCEPT !.pc = "read", !.student = s]
<1>1. /\ job[w] \in Jobs /\ Carries(job[w], mirror, snapshots, reports)
      /\ job[w].pc = "assemble"
  BY DEF IInv, JobsInv, AssembleCheck
<1>2. CASE Finalized(s)
  <2>1. skipped \in Jobs
    BY <1>1 DEF Jobs
  <2>2. Carries(skipped, mirror, snapshots, reports)
    BY <1>1, <1>2 DEF Carries, Owes, Jobs, Finalized, Assembling, Reporting
  <2>. QED
    BY <1>2, <2>1, <2>2, JobOnly DEF AssembleCheck
<1>3. CASE ~Finalized(s)
  <2>1. taken \in Jobs
    BY <1>1 DEF Jobs
  <2>2. Carries(taken, mirror, snapshots, reports)
    BY <1>1 DEF Carries, Owes, Jobs, Assembling, Reporting
  <2>. QED
    BY <1>3, <2>1, <2>2, JobOnly DEF AssembleCheck
<1>. QED
  BY <1>2, <1>3

\* A student a monthly job listed is still in the mirror: only others are dropped.
LEMMA AssembleReadStep ==
    ASSUME IInv, NEW w \in Workers, AssembleRead(w)
    PROVE  IInv'
<1>. DEFINE s == job[w].student
            d == IF history[s] # 0 THEN history[s] ELSE mirror[s]
            dropped == [job[w] EXCEPT !.pc = "assemble", !.student = NoStudent,
                                      !.todo = @ \ {s}]
            filled  == [job[w].content EXCEPT !.data = d]
            found   == [job[w] EXCEPT !.pc = "narrate", !.content = filled]
<1>1. /\ job[w] \in Jobs /\ Carries(job[w], mirror, snapshots, reports)
      /\ job[w].pc = "read" /\ s \in Students /\ d \in Versions
  BY DEF IInv, JobsInv, Tables, AssembleRead, Carries
<1>2. CASE d = 0
  <2>1. dropped \in Jobs
    BY <1>1 DEF Jobs
  <2>2. s \notin job[w].listed
    BY <1>1, <1>2 DEF Carries, Owes
  <2>3. Carries(dropped, mirror, snapshots, reports)
    BY <1>1, <2>2 DEF Carries, Owes, Jobs, Assembling, Reporting
  <2>. QED
    BY <1>2, <2>1, <2>3, JobOnly DEF AssembleRead
<1>3. CASE d # 0
  <2>1. filled \in Contents /\ filled.data # 0
    BY <1>1, <1>3 DEF Jobs, Contents, NoContent
  <2>2. job' = [job EXCEPT ![w] = found]
    BY <1>3 DEF AssembleRead
  <2>. HIDE DEF filled
  <2>3. found \in Jobs
    BY <1>1, <2>1 DEF Jobs
  <2>4. Carries(found, mirror, snapshots, reports)
    BY <1>1, <2>1 DEF Carries, Owes, Jobs, Assembling, Reporting
  <2>. QED
    BY <2>2, <2>3, <2>4, JobOnly DEF AssembleRead
<1>. QED
  BY <1>2, <1>3

LEMMA AssembleNarrateStep ==
    ASSUME IInv, NEW w \in Workers, AssembleNarrate(w)
    PROVE  IInv'
<1>. DEFINE filled == [job[w].content EXCEPT !.narrative = insight[job[w].student]]
            told   == [job[w] EXCEPT !.pc = "insert", !.content = filled]
<1>1. /\ job[w] \in Jobs /\ Carries(job[w], mirror, snapshots, reports)
      /\ job[w].pc = "narrate" /\ job[w].student \in Students
      /\ insight[job[w].student] \in Nat /\ job[w].content.data # 0
  BY DEF IInv, JobsInv, Tables, AssembleNarrate, Carries
<1>2. filled \in Contents /\ filled.data # 0
  BY <1>1 DEF Jobs, Contents, NoContent
<1>3. job' = [job EXCEPT ![w] = told]
  BY DEF AssembleNarrate
<1>. HIDE DEF filled
<1>4. told \in Jobs
  BY <1>1, <1>2 DEF Jobs
<1>5. Carries(told, mirror, snapshots, reports)
  BY <1>1, <1>2 DEF Carries, Owes, Jobs, Assembling, Reporting
<1>. QED
  BY <1>3, <1>4, <1>5, JobOnly DEF AssembleNarrate

\* What is left of a job's duty when every student had his turn: nothing but reports.
LEMMA AssembleEndStep ==
    ASSUME IInv, NEW w \in Workers, AssembleEnd(w)
    PROVE  IInv'
<1>. DEFINE publishing == [job[w] EXCEPT !.pc = "report", !.segments = ReportSegments]
<1>1. /\ job[w] \in Jobs /\ Carries(job[w], mirror, snapshots, reports)
      /\ job[w].pc = "assemble" /\ job[w].todo = {}
  BY DEF IInv, JobsInv, AssembleEnd
<1>2. CASE job[w].monthly
  <2>1. /\ ReportSegments \in Seq(Segments)
        /\ \A g \in Segments : \E i \in DOMAIN ReportSegments : ReportSegments[i] = g
    BY DEF ReportSegments, Segments
  <2>2. publishing \in Jobs
    BY <1>1, <2>1 DEF Jobs
  <2>3. ASSUME NEW s \in job[w].listed
        PROVE  Owes(publishing, s, mirror, snapshots, reports)
    <3>1. s \in Students /\ mirror[s] # 0 /\ snapshots[s] # <<>>
      BY <1>1 DEF Carries, Owes, Assembling, Jobs
    <3>2. snapshots[s][1] \in Snapshots
      BY <3>1, ElementOfSeq, LenProperties, EmptySeq DEF IInv, Tables
    <3>3. snapshots[s][1].segment \in Segments
      BY <3>2, DataOfContent
    <3>. QED
      BY <1>1, <2>1, <3>1, <3>3 DEF Owes, Assembling, Jobs
  <2>4. Carries(publishing, mirror, snapshots, reports)
    BY <1>1, <2>3 DEF Carries, Jobs
  <2>. QED
    BY <1>2, <2>2, <2>4, JobOnly DEF AssembleEnd
<1>3. CASE ~job[w].monthly
  BY <1>3, IdleStep DEF AssembleEnd
<1>. QED
  BY <1>2, <1>3

\* The cohort that is taken is the one that leaves the list.
LEMMA CohortSelectStep ==
    ASSUME IInv, NEW w \in Workers, CohortSelect(w)
    PROVE  IInv'
<1>. DEFINE left   == job[w].segments
            cohort == {s \in Students : Finalized(s) /\ snapshots[s][1].segment = Head(left)}
            taken  == [job[w] EXCEPT !.segments = Tail(left), !.todo = cohort]
<1>1. /\ job[w] \in Jobs /\ Carries(job[w], mirror, snapshots, reports)
      /\ job[w].pc = "report" /\ job[w].todo = {} /\ left # <<>>
  BY DEF IInv, JobsInv, CohortSelect
<1>2. job' = [job EXCEPT ![w] = taken]
  BY DEF CohortSelect
<1>3. left \in Seq(Segments)
  BY <1>1 DEF Jobs
<1>4. /\ Tail(left) \in Seq(Segments)
      /\ \A i \in DOMAIN left : left[i] = Head(left)
                                \/ \E k \in DOMAIN Tail(left) : Tail(left)[k] = left[i]
  <2>1. /\ Tail(left) \in Seq(Segments) /\ Len(Tail(left)) = Len(left) - 1
        /\ \A k \in 1 .. Len(Tail(left)) : Tail(left)[k] = left[k + 1]
    BY <1>1, <1>3, HeadTailProperties
  <2>2. /\ DOMAIN left = 1 .. Len(left) /\ Len(left) \in Nat
        /\ DOMAIN Tail(left) = 1 .. Len(Tail(left))
    BY <1>3, <2>1, LenProperties
  <2>3. Head(left) = left[1]
    BY <1>1, <1>3
  <2>4. ASSUME NEW i \in DOMAIN left, i # 1
        PROVE  i - 1 \in DOMAIN Tail(left) /\ Tail(left)[i - 1] = left[i]
    BY <2>1, <2>2, <2>4
  <2>. QED
    BY <2>1, <2>3, <2>4
<1>. HIDE DEF left
<1>5. taken \in Jobs
  BY <1>1, <1>4 DEF Jobs
<1>6. ASSUME NEW s \in job[w].listed
      PROVE  Owes(taken, s, mirror, snapshots, reports)
  <2>1. s \in Students /\ Owes(job[w], s, mirror, snapshots, reports)
    BY <1>1 DEF Carries, Jobs
  <2>2. /\ mirror[s] # 0 /\ snapshots[s] # <<>>
        /\ reports[s] # <<>> \/ \E i \in DOMAIN left : left[i] = snapshots[s][1].segment
    BY <1>1, <2>1 DEF Owes, Reporting, left
  <2>3. s \in cohort \/ reports[s] # <<>>
           \/ \E k \in DOMAIN Tail(left) : Tail(left)[k] = snapshots[s][1].segment
    BY <1>4, <2>1, <2>2 DEF Finalized
  <2>4. taken.pc = "report" /\ taken.todo = cohort /\ taken.segments = Tail(left)
    BY <1>1 DEF Jobs
  <2>. HIDE DEF taken, cohort
  <2>. QED
    BY <2>2, <2>3, <2>4 DEF Owes, Assembling
<1>7. Carries(taken, mirror, snapshots, reports)
  BY <1>1, <1>6 DEF Carries, Jobs
<1>. QED
  BY <1>2, <1>5, <1>7, JobOnly DEF CohortSelect

LEMMA ReportLoadStep ==
    ASSUME IInv, NEW w \in Workers, NEW s \in Students, ReportLoad(w, s)
    PROVE  IInv'
<1>. DEFINE skipped == [job[w] EXCEPT !.todo = @ \ {s}]
            loaded  == [job[w] EXCEPT !.pc = "update", !.student = s, !.content = Content(s)]
<1>1. /\ job[w] \in Jobs /\ Carries(job[w], mirror, snapshots, reports)
      /\ job[w].pc = "report"
  BY DEF IInv, JobsInv, ReportLoad
<1>2. CASE ~Finalized(s)
  <2>1. skipped \in Jobs
    BY <1>1 DEF Jobs
  <2>2. s \notin job[w].listed
    BY <1>1, <1>2 DEF Carries, Owes, Finalized, Reporting
  <2>3. Carries(skipped, mirror, snapshots, reports)
    BY <1>1, <2>2 DEF Carries, Owes, Jobs, Assembling, Reporting
  <2>. QED
    BY <1>2, <2>1, <2>3, JobOnly DEF ReportLoad
<1>3. CASE Finalized(s)
  <2>1. snapshots[s][1] \in Snapshots
    BY <1>3, ElementOfSeq, LenProperties, EmptySeq DEF IInv, Tables, Finalized
  <2>2. Content(s) \in Contents /\ Content(s).data # 0 /\ Quotes(Content(s), s, snapshots)
    BY <1>3, <2>1 DEF Content, Contents, Snapshots, Quotes, Finalized
  <2>3. job' = [job EXCEPT ![w] = loaded]
    BY <1>3 DEF ReportLoad
  <2>. HIDE DEF Content
  <2>4. loaded \in Jobs
    BY <1>1, <2>2 DEF Jobs
  <2>5. Carries(loaded, mirror, snapshots, reports)
    BY <1>1, <2>2 DEF Carries, Owes, Jobs, Assembling, Reporting
  <2>. QED
    BY <2>3, <2>4, <2>5, JobOnly DEF ReportLoad
<1>. QED
  BY <1>2, <1>3

-----------------------------------------------------------------------------
(* The steps that write *)

\* A function on the indices of a sequence is a sequence as long as that one.
LEMMA SameLength ==
    ASSUME NEW S, NEW T, NEW q \in Seq(S), NEW f \in [DOMAIN q -> T]
    PROVE  f \in Seq(T) /\ Len(f) = Len(q)
<1>1. Len(q) \in Nat /\ DOMAIN q = 1 .. Len(q)
  BY LenProperties
<1>2. f \in Seq(T)
  BY <1>1, SeqDef
<1>3. DOMAIN f = 1 .. Len(f) /\ Len(f) \in Nat
  BY <1>2, LenProperties
<1>. QED
  BY <1>1, <1>2, <1>3

\* The sequences the two unique indexes leave.
LEMMA OneRow ==
    ASSUME NEW S, NEW q \in Seq(S)
    PROVE  /\ q = <<>> <=> DOMAIN q = {}
           /\ q # <<>> /\ Len(q) <= 1 => Len(q) = 1
           /\ Len(q) = 1 => DOMAIN q = {1} /\ q # <<>>
<1>1. Len(q) \in Nat /\ DOMAIN q = 1 .. Len(q) /\ (q # <<>> => Len(q) # 0)
  BY LenProperties, EmptySeq
<1>2. 1 .. 1 = {1} /\ \A n \in Nat : n # 0 => 1 \in 1 .. n
  OBVIOUS
<1>3. q = <<>> => DOMAIN q = {}
  BY <1>1, EmptySeq
<1>4. q # <<>> => DOMAIN q # {}
  BY <1>1, <1>2
<1>5. Len(q) = 1 => DOMAIN q = {1}
  BY <1>1, <1>2
<1>6. q # <<>> /\ Len(q) <= 1 => Len(q) = 1
  BY <1>1
<1>. QED
  BY <1>3, <1>4, <1>5, <1>6, EmptySeq

\* While the snapshots grow, what quotes them goes on quoting them.
LEMMA StillQuoted ==
    ASSUME IInv, UNCHANGED <<reports, promised>>,
           Grown(mirror, mirror', snapshots, snapshots', reports, reports')
    PROVE  ReportQuotesSnapshot' /\ CompletedMeansPublished'
<1>1. ASSUME NEW s \in Students, NEW i \in DOMAIN reports[s]
      PROVE  /\ Finalized(s)'
             /\ reports'[s][i].data = snapshots'[s][1].data
             /\ reports'[s][i].narrative \in {0, snapshots'[s][1].narrative}
  BY DEF IInv, ReportQuotesSnapshot, Grown, Finalized
<1>. QED
  BY <1>1 DEF IInv, Tables, Grown, ReportQuotesSnapshot, CompletedMeansPublished

\* Steps beside the jobs.
LEMMA TablesStep ==
    ASSUME IInv, UNCHANGED <<job, reports, promised>>, Tables', OnePerMonth',
           Grown(mirror, mirror', snapshots, snapshots', reports, reports')
    PROVE  IInv'
<1>1. ASSUME NEW w \in Workers PROVE Carries(job[w], mirror', snapshots', reports')
  BY CarriesGrown DEF IInv, JobsInv
<1>2. JobsInv'
  BY <1>1 DEF IInv, JobsInv
<1>. QED
  BY <1>2, StillQuoted DEF IInv

LEMMA RefreshStep ==
    ASSUME IInv, NEW T \in SUBSET Students, Refresh(T)
    PROVE  IInv'
<1>1. ASSUME NEW s \in Students
      PROVE  /\ mirror'[s] \in Versions
             /\ mirror[s] # 0 => mirror'[s] # 0
  <2>1. mirror[s] \in Nat /\ MaxVersion[s] \in Nat
    BY WarehouseAssumption DEF WarehouseAssumption, Versions, IInv, Tables
  <2>2. s \in T => mirror[s] < MaxVersion[s] /\ mirror[s] + 1 \in Versions
    BY <2>1 DEF Refresh, Versions
  <2>. QED
    BY <2>1, <2>2 DEF Refresh, IInv, Tables
<1>2. Grown(mirror, mirror', snapshots, snapshots', reports, reports')
  BY <1>1 DEF Refresh, Grown
<1>3. mirror' \in [Students -> Versions]
  BY <1>1 DEF Refresh
<1>. QED
  BY <1>2, <1>3, TablesStep DEF Refresh, IInv, Tables, OnePerMonth

LEMMA FinalizeInsightStep ==
    ASSUME IInv, NEW s \in Students, FinalizeInsight(s)
    PROVE  IInv'
<1>1. Grown(mirror, mirror', snapshots, snapshots', reports, reports')
  BY SameGrown DEF FinalizeInsight
<1>2. insight' \in [Students -> Nat]
  BY DEF FinalizeInsight, IInv, Tables
<1>. QED
  BY <1>1, <1>2, TablesStep DEF FinalizeInsight, IInv, Tables, OnePerMonth

\* COALESCE fills a blank and keeps a text.
LEMMA BackfillFills ==
    ASSUME IInv, BackfillNarratives
    PROVE  /\ Grown(mirror, mirror', snapshots, snapshots', reports, reports')
           /\ snapshots' \in [Students -> Seq(Snapshots)]
           /\ \A s \in Students : Len(snapshots'[s]) = Len(snapshots[s])
<1>. DEFINE filled(s) == [i \in DOMAIN snapshots[s] |->
                            [snapshots[s][i] EXCEPT !.narrative = Backfill(@, insight[s])]]
<1>1. snapshots' = [s \in Students |-> filled(s)]
  BY DEF BackfillNarratives
<1>2. ASSUME NEW s \in Students
      PROVE  /\ filled(s) \in Seq(Snapshots) /\ Len(filled(s)) = Len(snapshots[s])
             /\ \A i \in DOMAIN snapshots[s] :
                  /\ filled(s)[i].data = snapshots[s][i].data
                  /\ filled(s)[i].segment = snapshots[s][i].segment
                  /\ snapshots[s][i].narrative \in {0, filled(s)[i].narrative}
  <2>1. snapshots[s] \in Seq(Snapshots) /\ insight[s] \in Nat
    BY DEF IInv, Tables
  <2>2. ASSUME NEW i \in DOMAIN snapshots[s]
        PROVE  /\ filled(s)[i] \in Snapshots
               /\ filled(s)[i].data = snapshots[s][i].data
               /\ filled(s)[i].segment = snapshots[s][i].segment
               /\ snapshots[s][i].narrative \in {0, filled(s)[i].narrative}
    <3>1. snapshots[s][i] \in Snapshots
      BY <2>1, LenProperties, ElementOfSeq
    <3>. QED
      BY <2>1, <3>1 DEF Snapshots, Backfill
  <2>3. filled(s) \in [DOMAIN snapshots[s] -> Snapshots]
    BY <2>2
  <2>4. filled(s) \in Seq(Snapshots) /\ Len(filled(s)) = Len(snapshots[s])
    <3>. HIDE DEF filled
    <3>. QED
      BY <2>1, <2>3, SameLength
  <2>. QED
    BY <2>2, <2>4
<1>. HIDE DEF filled
<1>3. Grown(mirror, mirror', snapshots, snapshots', reports, reports')
  <2>1. ASSUME NEW s \in Students, snapshots[s] # <<>>
        PROVE  filled(s) # <<>> /\ 1 \in DOMAIN snapshots[s]
    <3>1. snapshots[s] \in Seq(Snapshots)
      BY DEF IInv, Tables
    <3>2. Len(snapshots[s]) \in Nat \ {0} /\ DOMAIN snapshots[s] = 1 .. Len(snapshots[s])
      BY <2>1, <3>1, EmptySeq, LenProperties
    <3>. QED
      BY <1>2, <3>2, EmptySeq
  <2>2. UNCHANGED <<mirror, reports>> /\ \A s \in Students : snapshots'[s] = filled(s)
    BY <1>1 DEF BackfillNarratives
  <2>. QED
    BY <1>2, <2>1, <2>2 DEF Grown
<1>4. /\ snapshots' \in [Students -> Seq(Snapshots)]
      /\ \A s \in Students : Len(snapshots'[s]) = Len(snapshots[s])
  BY <1>1, <1>2
<1>. QED
  BY <1>3, <1>4

LEMMA BackfillStep ==
    ASSUME IInv, BackfillNarratives
    PROVE  IInv'
<1>1. Tables' /\ OnePerMonth'
  BY BackfillFills DEF BackfillNarratives, IInv, Tables, OnePerMonth
<1>. QED
  BY <1>1, BackfillFills, TablesStep DEF BackfillNarratives

LEMMA CaptureWriteStep ==
    ASSUME IInv, NEW w \in Workers, CaptureWrite(w)
    PROVE  IInv'
<1>1. job[w].copy \in [Students -> Versions]
  BY DEF IInv, JobsInv, Jobs
<1>2. Tables' /\ OnePerMonth'
  BY <1>1 DEF CaptureWrite, IInv, Tables, OnePerMonth
<1>3. Grown(mirror, mirror', snapshots, snapshots', reports, reports')
  BY SameGrown DEF CaptureWrite
<1>4. JobsInv'
  BY <1>3, IdleCarries, JobStep DEF CaptureWrite
<1>. QED
  BY <1>2, <1>3, <1>4, StillQuoted DEF CaptureWrite, IInv

\* The one step that freezes: the student had nothing frozen, and so nothing published.
LEMMA AssembleInsertStep ==
    ASSUME IInv, NEW w \in Workers, AssembleInsert(w)
    PROVE  IInv'
<1>. DEFINE s == job[w].student
            next == [job[w] EXCEPT !.pc = "assemble", !.student = NoStudent,
                                   !.content = NoContent, !.todo = @ \ {s}]
<1>1. /\ job[w] \in Jobs /\ Carries(job[w], mirror, snapshots, reports)
      /\ job[w].pc = "insert" /\ s \in Students /\ job[w].content \in Contents
  BY DEF IInv, JobsInv, AssembleInsert, Carries, Jobs, NoContent
<1>2. PICK x \in NewSnapshots(w) : snapshots' = [snapshots EXCEPT ![s] = Append(@, x)]
  BY DEF AssembleInsert
<1>3. x \in Snapshots
  <2>1. Classes[job[w].content.data] \subseteq Segments
    BY <1>1, WarehouseAssumption DEF WarehouseAssumption, Contents
  <2>. QED
    BY <1>1, <1>2, <2>1 DEF NewSnapshots, Contents, Snapshots
<1>4. snapshots[s] = <<>> /\ reports[s] = <<>>
  <2>1. snapshots[s] = <<>>
    BY DEF AssembleInsert, Finalized
  <2>2. reports[s] \in Seq(Contents) /\ DOMAIN reports[s] = {}
    BY <1>1, <2>1 DEF IInv, Tables, ReportQuotesSnapshot, Finalized
  <2>. QED
    BY <2>1, <2>2, OneRow
<1>5. snapshots' = [snapshots EXCEPT ![s] = <<x>>]
  BY <1>1, <1>2, <1>4 DEF IInv, Tables
<1>6. <<x>> \in Seq(Snapshots) /\ <<x>> # <<>> /\ Len(<<x>>) = 1
  BY <1>3
<1>7. Grown(mirror, mirror', snapshots, snapshots', reports, reports')
  BY <1>4, <1>5 DEF Grown, AssembleInsert, IInv, Tables
<1>8. Tables' /\ OnePerMonth'
  BY <1>1, <1>4, <1>5, <1>6 DEF AssembleInsert, IInv, Tables, OnePerMonth
<1>9. job' = [job EXCEPT ![w] = next]
  BY DEF AssembleInsert, NextAssembly
<1>10. next \in Jobs
  BY <1>1 DEF Jobs
<1>11. Carries(next, mirror', snapshots', reports')
  <2>1. ASSUME NEW t \in next.listed
        PROVE  Owes(next, t, mirror', snapshots', reports')
    <3>1. t \in Students /\ Owes(job[w], t, mirror, snapshots, reports)
      BY <1>1, <2>1 DEF Carries, Jobs
    <3>2. mirror'[t] # 0 /\ (t \in next.todo \/ snapshots'[t] # <<>>)
      BY <1>1, <1>5, <1>6, <3>1 DEF Owes, Jobs, Assembling, AssembleInsert, IInv, Tables
    <3>. QED
      BY <1>1, <3>2 DEF Owes, Jobs, Reporting
  <2>. QED
    BY <1>1, <2>1 DEF Carries, Jobs
<1>12. JobsInv'
  BY <1>7, <1>9, <1>10, <1>11, JobStep
<1>. QED
  BY <1>7, <1>8, <1>12, StillQuoted DEF AssembleInsert, IInv

\* The promise of a monthly job that ends: no turn and no cohort is left.
LEMMA ReportEndStep ==
    ASSUME IInv, NEW w \in Workers, ReportEnd(w)
    PROVE  IInv'
<1>1. /\ job[w] \in Jobs /\ Carries(job[w], mirror, snapshots, reports)
      /\ job[w].pc = "report" /\ job[w].todo = {} /\ job[w].segments = <<>>
  BY DEF IInv, JobsInv, ReportEnd
<1>2. ASSUME NEW s \in job[w].listed
      PROVE  s \in Students /\ snapshots[s] # <<>> /\ reports[s] # <<>>
  BY <1>1 DEF Carries, Owes, Reporting, Jobs
<1>3. CompletedMeansPublished' /\ promised' \subseteq Students
  BY <1>2 DEF ReportEnd, IInv, Tables, CompletedMeansPublished
<1>4. Grown(mirror, mirror', snapshots, snapshots', reports, reports')
  BY SameGrown DEF ReportEnd
<1>5. JobsInv'
  BY <1>4, IdleCarries, JobStep DEF ReportEnd
<1>. QED
  BY <1>3, <1>5 DEF ReportEnd, IInv, Tables, OnePerMonth, ReportQuotesSnapshot, Finalized

\* What is published for a student by the two steps of _insert_monthly_report.
LEMMA PublishStep ==
    ASSUME IInv, NEW w \in Workers, job[w].pc \in {"update", "append"},
           job' = NextReport(w), UNCHANGED <<mirror, history, insight, snapshots, promised>>,
           NEW rows, rows \in Seq(Contents), Len(rows) = 1,
           rows[1] = job[w].content \/ rows = reports[job[w].student],
           reports' = [reports EXCEPT ![job[w].student] = rows]
    PROVE  IInv'
<1>. DEFINE s == job[w].student
            next == [job[w] EXCEPT !.pc = "report", !.student = NoStudent,
                                   !.content = NoContent, !.todo = @ \ {s}]
<1>1. /\ job[w] \in Jobs /\ Carries(job[w], mirror, snapshots, reports)
      /\ s \in Students /\ Quotes(job[w].content, s, snapshots)
  BY DEF IInv, JobsInv, Carries
<1>2. rows # <<>> /\ DOMAIN rows = {1}
  BY OneRow
<1>3. Tables' /\ OnePerMonth'
  <2>1. ASSUME NEW t \in Students
        PROVE  reports'[t] \in Seq(Contents) /\ Len(reports'[t]) <= 1
    <3>1. reports'[t] = IF t = s THEN rows ELSE reports[t]
      BY <1>1, <2>1 DEF IInv, Tables
    <3>2. CASE t = s
      <4>1. reports'[t] = rows
        BY <3>1, <3>2
      <4>2. Len(rows) <= 1
        OBVIOUS
      <4>. QED
        BY ONLY <4>1, <4>2, rows \in Seq(Contents)
    <3>3. CASE t # s
      BY <3>1, <3>3 DEF IInv, Tables, OnePerMonth
    <3>. QED
      BY <3>2, <3>3
  <2>. QED
    BY <2>1 DEF IInv, Tables, OnePerMonth
<1>4. Grown(mirror, mirror', snapshots, snapshots', reports, reports')
  BY <1>1, <1>2 DEF Grown, IInv, Tables
<1>5. ReportQuotesSnapshot'
  BY <1>1, <1>2 DEF IInv, Tables, ReportQuotesSnapshot, Quotes, Finalized
<1>6. CompletedMeansPublished'
  BY <1>4 DEF IInv, Tables, CompletedMeansPublished, Grown
<1>7. next \in Jobs
  BY <1>1 DEF Jobs
<1>8. Carries(next, mirror', snapshots', reports')
  <2>1. ASSUME NEW t \in next.listed
        PROVE  Owes(next, t, mirror', snapshots', reports')
    <3>1. t \in Students /\ Owes(job[w], t, mirror, snapshots, reports)
      BY <1>1, <2>1 DEF Carries, Jobs
    <3>2. /\ mirror[t] # 0 /\ snapshots[t] # <<>>
          /\ \/ t \in job[w].todo \/ reports[t] # <<>>
             \/ \E i \in DOMAIN job[w].segments : job[w].segments[i] = snapshots[t][1].segment
      BY <3>1 DEF Owes, Reporting
    <3>3. t \in next.todo \/ reports'[t] # <<>>
            \/ \E i \in DOMAIN job[w].segments : job[w].segments[i] = snapshots[t][1].segment
      BY <1>1, <1>2, <3>1, <3>2 DEF Jobs, IInv, Tables
    <3>. QED
      BY <1>1, <3>2, <3>3 DEF Owes, Jobs, Assembling
  <2>. QED
    BY <1>1, <2>1 DEF Carries, Jobs
<1>9. JobsInv'
  BY <1>4, <1>7, <1>8, JobStep DEF NextReport
<1>. QED
  BY <1>3, <1>5, <1>6, <1>9 DEF IInv

LEMMA ReportUpdateStep ==
    ASSUME IInv, NEW w \in Workers, ReportUpdate(w)
    PROVE  IInv'
<1>. DEFINE s == job[w].student
            rows == [i \in DOMAIN reports[s] |-> job[w].content]
            missing == [job[w] EXCEPT !.pc = "append"]
<1>1. /\ job[w] \in Jobs /\ Carries(job[w], mirror, snapshots, reports)
      /\ job[w].pc = "update" /\ s \in Students /\ job[w].content \in Contents
      /\ reports[s] \in Seq(Contents) /\ Len(reports[s]) <= 1
  BY DEF IInv, JobsInv, Tables, OnePerMonth, ReportUpdate, Carries, Jobs, NoContent
<1>2. CASE reports[s] # <<>>
  <2>1. Len(reports[s]) = 1 /\ DOMAIN reports[s] = {1}
    BY <1>1, <1>2, OneRow
  <2>2. rows \in [DOMAIN reports[s] -> Contents] /\ rows[1] = job[w].content
    BY <1>1, <2>1
  <2>3. reports' = [reports EXCEPT ![s] = rows]
    BY <1>2 DEF ReportUpdate
  <2>. HIDE DEF rows
  <2>4. rows \in Seq(Contents) /\ Len(rows) = 1
    BY <1>1, <2>1, <2>2, SameLength
  <2>. QED
    BY <1>1, <1>2, <2>2, <2>3, <2>4, PublishStep DEF ReportUpdate
<1>3. CASE reports[s] = <<>>
  <2>1. missing \in Jobs
    BY <1>1 DEF Jobs
  <2>2. Carries(missing, mirror, snapshots, reports)
    BY <1>1 DEF Carries, Owes, Jobs, Assembling, Reporting
  <2>. QED
    BY <1>3, <2>1, <2>2, JobOnly DEF ReportUpdate
<1>. QED
  BY <1>2, <1>3

LEMMA ReportInsertStep ==
    ASSUME IInv, NEW w \in Workers, ReportInsert(w)
    PROVE  IInv'
<1>. DEFINE s == job[w].student
            rows == IF reports[s] = <<>> THEN <<job[w].content>> ELSE reports[s]
<1>1. /\ job[w].pc = "append" /\ s \in Students /\ job[w].content \in Contents
      /\ reports[s] \in Seq(Contents) /\ Len(reports[s]) <= 1
  BY DEF IInv, JobsInv, Tables, OnePerMonth, ReportInsert, Carries, Jobs, NoContent
<1>2. reports' = [reports EXCEPT ![s] = rows]
  BY <1>1 DEF ReportInsert, IInv, Tables
<1>3. rows \in Seq(Contents) /\ Len(rows) = 1 /\ (rows[1] = job[w].content \/ rows = reports[s])
  BY <1>1, EmptySeq
<1>. QED
  BY <1>1, <1>2, <1>3, PublishStep DEF ReportInsert

LEMMA StepIInv == IInv /\ [Next]_vars => IInv'
<1>. SUFFICES ASSUME IInv, [Next]_vars PROVE IInv'
  OBVIOUS
<1>1. ASSUME NEW w \in Workers, Work(w) PROVE IInv'
  <2>1. CASE \/ CaptureRead(w) \/ StartAll(w) \/ StartMonth(w) \/ StartCohorts(w)
             \/ \E s \in Students : StartOne(w, s) \/ StartReport(w, s)
    BY <2>1, StartStep
  <2>2. CASE AssembleConflict(w) \/ Crash(w)
    BY <2>2, IdleStep DEF AssembleConflict, Crash
  <2>3. CASE \E s \in Students : AssembleCheck(w, s) \/ ReportLoad(w, s)
    BY <2>3, AssembleCheckStep, ReportLoadStep
  <2>4. CASE AssembleRead(w) \/ AssembleNarrate(w) \/ AssembleEnd(w) \/ CohortSelect(w)
    BY <2>4, AssembleReadStep, AssembleNarrateStep, AssembleEndStep, CohortSelectStep
  <2>5. CASE CaptureWrite(w) \/ AssembleInsert(w)
    BY <2>5, CaptureWriteStep, AssembleInsertStep
  <2>6. CASE ReportEnd(w) \/ ReportUpdate(w) \/ ReportInsert(w)
    BY <2>6, ReportEndStep, ReportUpdateStep, ReportInsertStep
  <2>. QED
    BY <1>1, <2>1, <2>2, <2>3, <2>4, <2>5, <2>6 DEF Work
<1>2. CASE BackfillNarratives
  BY <1>2, BackfillStep
<1>3. ASSUME NEW s \in Students, FinalizeInsight(s) PROVE IInv'
  BY <1>3, FinalizeInsightStep
<1>4. ASSUME NEW T \in SUBSET Students, Refresh(T) PROVE IInv'
  BY <1>4, RefreshStep
<1>5. CASE UNCHANGED vars
  <2>1. Grown(mirror, mirror', snapshots, snapshots', reports, reports')
    BY <1>5, SameGrown DEF vars
  <2>. QED
    BY <1>5, <2>1, TablesStep DEF vars, IInv, Tables, OnePerMonth
<1>. QED
  BY <1>1, <1>2, <1>3, <1>4, <1>5 DEF Next

LEMMA Invariant == Spec => []IInv
BY InitIInv, StepIInv, PTL DEF Spec

-----------------------------------------------------------------------------
(* The theorems *)

\* The tables and what the jobs carry between their awaits have their types
\* (snapshot.py, report.py).
THEOREM WarehouseTypes == Spec => []TypeOK
<1>1. IInv => TypeOK
  <2>1. ASSUME IInv, NEW w \in Workers
        PROVE  /\ job[w].pc \in {"read", "narrate", "insert", "update", "append"} =>
                    job[w].student # NoStudent
               /\ job[w].pc \in {"narrate", "insert", "update", "append"} =>
                    job[w].content.data # 0
    BY <2>1, WarehouseAssumption DEF WarehouseAssumption, IInv, JobsInv, Carries
  <2>. QED
    BY <2>1 DEF IInv, Tables, JobsInv, TypeOK
<1>. QED
  BY <1>1, Invariant, PTL

\* One FINALIZED snapshot and one published report of a student and month
\* (uq_wss_finalized_student_month, uq_wmr_idempotency_key).
THEOREM OneOfEach == Spec => []OnePerMonth
<1>1. IInv => OnePerMonth
  BY DEF IInv
<1>. QED
  BY <1>1, Invariant, PTL

\* A report quotes its student's frozen snapshot, whatever captures, backfills and
\* publications overlap (report.py).
THEOREM ReportsQuoteSnapshots == Spec => []ReportQuotesSnapshot
<1>1. IInv => ReportQuotesSnapshot
  BY DEF IInv
<1>. QED
  BY <1>1, Invariant, PTL

\* A monthly job that is logged as completed has published everybody it listed
\* (_scheduled_jobs.py).
THEOREM CompletedJobsPublished == Spec => []CompletedMeansPublished
<1>1. IInv => CompletedMeansPublished
  BY DEF IInv
<1>. QED
  BY <1>1, Invariant, PTL

\* The warehouse implements the archive of a month (MonthArchive): the INSERT of a
\* snapshot freezes, the INSERT of a report publishes, the rest is invisible.
THEOREM ImplementsArchive == Spec => ArchiveSpec
<1>. DEFINE frozen    == [s \in Students |-> IF snapshots[s] = <<>> THEN 0 ELSE snapshots[s][1].data]
            published == [s \in Students |-> IF reports[s] = <<>> THEN 0 ELSE reports[s][1].data]
<1>1. Init => Archive!Init
  BY DEF Init, Archive!Init
<1>2. IInv /\ IInv' /\ [Next]_vars => [Archive!Next]_<<frozen, published>>
  <2>. SUFFICES ASSUME IInv, IInv', [Next]_vars
                PROVE  Archive!Next \/ UNCHANGED <<frozen, published>>
    OBVIOUS
  <2>1. CASE UNCHANGED <<snapshots, reports>>
    BY <2>1
  <2>2. ASSUME NEW w \in Workers, AssembleInsert(w) PROVE Archive!Next
    <3>. DEFINE s == job[w].student
    <3>1. /\ s \in Students /\ snapshots[s] = <<>> /\ UNCHANGED reports
          /\ \A t \in Students \ {s} : snapshots'[t] = snapshots[t]
      BY <2>2 DEF AssembleInsert, Finalized, IInv, JobsInv, Carries, Tables
    <3>2. PICK x \in NewSnapshots(w) : snapshots'[s] = <<x>>
      BY <2>2, <3>1 DEF AssembleInsert, IInv, Tables
    <3>3. x.data \in Versions \ {0}
      BY <2>2, <3>2 DEF AssembleInsert, NewSnapshots, IInv, JobsInv, Carries, Jobs, Contents,
                        NoContent
    <3>4. frozen'[s] = x.data /\ frozen[s] = 0
      <4>1. snapshots'[s] # <<>> /\ snapshots'[s][1] = x
        BY <3>2
      <4>2. frozen'[s] = snapshots'[s][1].data
        BY <3>1, <4>1
      <4>. QED
        BY <3>1, <4>1, <4>2
    <3>5. frozen' = [frozen EXCEPT ![s] = x.data]
      BY <3>1, <3>4
    <3>. QED
      BY <3>1, <3>3, <3>4, <3>5 DEF Archive!Next, Archive!Freeze
  <2>3. ASSUME UNCHANGED snapshots, NEW s \in Students,
               \A t \in Students \ {s} : reports'[t] = reports[t],
               reports'[s] # <<>>
        PROVE  Archive!Next
    <3>1. snapshots[s] # <<>> /\ reports'[s][1].data = snapshots[s][1].data
      <4>1. reports'[s] \in Seq(Contents)
        BY DEF IInv, Tables
      <4>2. 1 \in DOMAIN reports'[s]
        BY <2>3, <4>1, OneRow DEF IInv, OnePerMonth
      <4>. QED
        BY <2>3, <4>2 DEF IInv, ReportQuotesSnapshot, Finalized
    <3>2. frozen[s] # 0
      BY <3>1, OneRow, ElementOfSeq, LenProperties, EmptySeq, DataOfContent DEF IInv, Tables
    <3>3. published' = [published EXCEPT ![s] = frozen[s]]
      BY <2>3, <3>1
    <3>. QED
      BY <2>3, <3>2, <3>3 DEF Archive!Next, Archive!Publish
  <2>4. ASSUME NEW w \in Workers, ReportUpdate(w) \/ ReportInsert(w)
        PROVE  Archive!Next \/ UNCHANGED <<frozen, published>>
    <3>. DEFINE s == job[w].student
    <3>1. /\ s \in Students /\ UNCHANGED snapshots
          /\ \A t \in Students \ {s} : reports'[t] = reports[t]
      BY <2>4 DEF ReportUpdate, ReportInsert, IInv, JobsInv, Carries, Tables
    <3>2. CASE ReportUpdate(w) /\ reports[s] = <<>>
      <4>1. UNCHANGED <<snapshots, reports>>
        BY <3>1, <3>2 DEF ReportUpdate
      <4>. QED
        BY <2>1, <4>1
    <3>3. CASE ReportUpdate(w) /\ reports[s] # <<>>
      <4>1. reports'[s] = [i \in DOMAIN reports[s] |-> job[w].content]
        BY <3>1, <3>3 DEF ReportUpdate, IInv, Tables
      <4>2. DOMAIN reports[s] # {}
        <5>1. reports[s] \in Seq(Contents)
          BY <3>1 DEF IInv, Tables
        <5>. QED
          BY <3>3, <5>1, OneRow
      <4>3. reports'[s] # <<>>
        BY <4>1, <4>2
      <4>. QED
        BY <2>3, <3>1, <4>3
    <3>4. CASE ReportInsert(w)
      <4>1. reports'[s] = IF reports[s] = <<>> THEN <<job[w].content>> ELSE reports[s]
        BY <3>1, <3>4 DEF ReportInsert, IInv, Tables
      <4>2. reports'[s] # <<>>
        BY <4>1
      <4>. QED
        BY <2>3, <3>1, <4>2
    <3>. QED
      BY <2>4, <3>2, <3>3, <3>4
  <2>5. CASE BackfillNarratives
    <3>1. ASSUME NEW s \in Students
          PROVE  /\ snapshots[s] = <<>> <=> snapshots'[s] = <<>>
                 /\ snapshots[s] # <<>> => snapshots'[s][1].data = snapshots[s][1].data
      <4>1. snapshots[s] = <<>> => Len(snapshots'[s]) = 0
        BY <2>5, BackfillFills, EmptySeq
      <4>2. snapshots[s] = <<>> => snapshots'[s] = <<>>
        BY <2>5, <4>1, BackfillFills, EmptySeq
      <4>. QED
        BY <2>5, <4>2, BackfillFills DEF Grown
    <3>2. frozen' = frozen /\ published' = published
      BY <2>5, <3>1 DEF BackfillNarratives
    <3>. QED
      BY <3>2
  <2>6. ASSUME NEW w \in Workers,
               Work(w), ~AssembleInsert(w), ~ReportUpdate(w), ~ReportInsert(w)
        PROVE  UNCHANGED <<snapshots, reports>>
    <3>1. CASE CaptureRead(w) \/ CaptureWrite(w)
      BY <3>1 DEF CaptureRead, CaptureWrite
    <3>2. CASE StartAll(w) \/ StartMonth(w) \/ StartCohorts(w)
      BY <3>2 DEF StartAll, StartMonth, StartCohorts
    <3>3. CASE AssembleRead(w) \/ AssembleNarrate(w)
      BY <3>3 DEF AssembleRead, AssembleNarrate
    <3>4. CASE AssembleConflict(w) \/ AssembleEnd(w)
      BY <3>4 DEF AssembleConflict, AssembleEnd
    <3>5. CASE CohortSelect(w) \/ ReportEnd(w) \/ Crash(w)
      BY <3>5 DEF CohortSelect, ReportEnd, Crash
    <3>6. ASSUME NEW s \in Students, StartOne(w, s) \/ AssembleCheck(w, s)
          PROVE  UNCHANGED <<snapshots, reports>>
      BY <3>6 DEF StartOne, AssembleCheck
    <3>7. ASSUME NEW s \in Students, StartReport(w, s) \/ ReportLoad(w, s)
          PROVE  UNCHANGED <<snapshots, reports>>
      BY <3>7 DEF StartReport, ReportLoad
    <3>. QED
      BY <2>6, <3>1, <3>2, <3>3, <3>4, <3>5, <3>6, <3>7, Zenon DEF Work
  <2>7. CASE \E s \in Students : FinalizeInsight(s)
    BY <2>1, <2>7 DEF FinalizeInsight
  <2>8. CASE \E T \in SUBSET Students : Refresh(T)
    BY <2>1, <2>8 DEF Refresh
  <2>9. CASE \E w \in Workers : Work(w)
    BY <2>1, <2>2, <2>4, <2>6, <2>9
  <2>10. CASE UNCHANGED vars
    BY <2>1, <2>10 DEF vars
  <2>. QED
    BY <2>5, <2>7, <2>8, <2>9, <2>10 DEF Next
<1>. QED
  BY Invariant, <1>1, <1>2, PTL DEF Spec, ArchiveSpec, Archive!Spec
=============================================================================
