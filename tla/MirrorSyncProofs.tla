-------------------------- MODULE MirrorSyncProofs ---------------------------
(***************************************************************************)
(* The syncs for any populations, workers, jobs and bounds: the types and  *)
(* the row locks, one fetch in each population, the payment columns a job  *)
(* leaves behind, and the messages a successful sync has stored.           *)
(***************************************************************************)
EXTENDS MirrorSync, FiniteSetTheorems, SequenceTheorems, TLAPS

-----------------------------------------------------------------------------
(* The inductive invariant: what a transaction still has to write, and     *)
(* what it holds, add up to all the rows of its sync.                      *)

Phases == {"idle", "fetch", "write", "insert", "delete", "deleting"}
Cells  == ({"mirror"} \X Students) \cup ({"mentor"} \X IPBC) \cup ({"prep"} \X JRP)
              \cup ({"message"} \X Nat)
Sessions == [pc : Phases, rest : Seq(Syncs), got : Nat, left : Seq(Cells), seen : SUBSET Events,
             held : SUBSET (Cells \cup Events), failed : SUBSET Syncs]
Answers  == [done : Seq(Syncs), failed : SUBSET Syncs, got : Nat]

\* The rest of a job: the mirror comes before the payments, and a job of both is done
\* with the mirror when it is done with the payments.
Ordered(rest, done) ==
    /\ \A i, j \in DOMAIN rest : rest[i] = "payments" /\ rest[j] = "mssql" => j < i
    /\ {"mssql", "payments"} \subseteq Range(done) /\ "payments" \notin Range(rest)
           => "mssql" \notin Range(rest)
    /\ done = <<"messages">> => rest = <<"messages">>

RowsHeld(w) == IF Current(w) = "campaign" THEN Events ELSE RowsOf(Current(w), session[w].got)

Phase(w) ==
    LET n == session[w]
    IN  /\ n \in Sessions /\ answer[w] \in Answers
        /\ n.pc = "idle" => n.rest = <<>>
        /\ n.pc # "idle" => n.rest # <<>> /\ Ordered(n.rest, answer[w].done)
        /\ n.pc \notin {"write", "insert"} => n.left = <<>> /\ n.held = {}
        /\ n.pc \in {"delete", "deleting"} => Current(w) = "campaign"
        /\ n.pc \notin {"idle", "fetch"} => n.got \in 1 .. MaxVersion[Reads[Current(w)]]
        /\ n.pc \in {"write", "insert"} =>
               n.left \in Seq(RowsOf(Current(w), n.got)) /\ n.held \subseteq RowsHeld(w)
        /\ n.pc = "insert" => Current(w) = "messages" /\ n.left # <<>>

Pending(w) == session[w].held \cup Range(session[w].left)
Covers(w) ==
    session[w].pc \in {"write", "insert"} =>
      /\ Current(w) = "mssql" => \A s \in JRP : <<"mirror", s>> \in Pending(w)
      /\ Current(w) = "ipbc" => \A s \in IPBC : <<"mirror", s>> \in Pending(w)
      /\ Current(w) = "payments" =>
           \A s \in JRP : <<"mirror", s>> \in Pending(w) \/ mirror[s].pay.by # w
      /\ Current(w) = "messages" =>
           \A i \in 1 .. session[w].got : i \in messages \/ <<"message", i>> \in Pending(w)
      /\ Current(w) \in {"payments", "plans"} =>
           \A s \in Students : <<"mirror", s>> \in session[w].held => mirror[s].data # 0

\* What a job has reported so far: an idle worker's answer, a busy one's list.
Failed(w) == IF session[w].pc = "idle" THEN answer[w].failed ELSE session[w].failed
Patched(w) ==
    {"mssql", "payments"} \subseteq Range(answer[w].done) \ Failed(w)
      /\ "payments" \notin Range(session[w].rest)
    => \A s \in JRP : mirror[s].pay.by = w => mirror[s].pay.from = "payments"
Stored(w) ==
    session[w].pc = "idle" /\ answer[w].done = <<"messages">> /\ answer[w].failed = {}
      => 1 .. answer[w].got \subseteq messages

Tables ==
    /\ \A k \in Sources : said[k] \in 1 .. MaxVersion[k]
    /\ said \in [Sources -> Nat]
    /\ mirror \in [Students -> MirrorRows]
    /\ mentor \in [IPBC -> Versions]
    /\ prep \in [JRP -> Stamps]
    /\ activity \subseteq Events
    /\ messages \subseteq 1 .. MaxVersion["ghl"]
    /\ session \in [Workers -> Sessions]
    /\ answer \in [Workers -> Answers]

\* Payment columns are written into rows that exist.
Stamped == \A s \in Students : mirror[s].pay.by # "none" => mirror[s].data # 0
Locks   == \A w \in Workers : session[w].held \cap LockedFrom(w) = {}

Each(w) == Phase(w) /\ Covers(w) /\ Patched(w) /\ Stored(w)
IInv == Tables /\ Stamped /\ Locks /\ OneFetch /\ \A w \in Workers : Each(w)

-----------------------------------------------------------------------------
(* Rows and their orders *)

LEMMA Names ==
    /\ Syncs = {"mssql", "ipbc", "payments", "plans", "mentorship", "interview", "placement",
                "campaign", "messages"}
    /\ \A k \in Syncs : Reads[k] \in Sources
    /\ Reads["messages"] = "ghl" /\ Reads["campaign"] = "events"
    /\ "ghl" \in Sources /\ "events" \in Sources
BY DEF Syncs, Sources, Reads

LEMMA Bounds ==
    ASSUME NEW k \in Sources, NEW v \in 0 .. MaxVersion[k]
    PROVE  v \in Versions /\ v \in Nat /\ MaxVersion[k] \in Nat
BY SyncAssumption DEF Versions

LEMMA RowsAreCells ==
    ASSUME NEW k \in Syncs, NEW v \in Nat
    PROVE  RowsOf(k, v) \subseteq Cells /\ IsFiniteSet(RowsOf(k, v))
<1>1. RowsOf(k, v) \subseteq Cells
  BY Names DEF RowsOf, Cells, Students
<1>2. \A S, T : IsFiniteSet(S) /\ IsFiniteSet(T) => IsFiniteSet(S \X T)
  BY FS_Product
<1>3. /\ IsFiniteSet({}) /\ IsFiniteSet({"mirror"}) /\ IsFiniteSet({"mentor"})
      /\ IsFiniteSet({"prep"}) /\ IsFiniteSet({"message"}) /\ IsFiniteSet({"mirror", "mentor"})
  <2>1. {"mirror", "mentor"} = {"mirror"} \cup {"mentor"}
    OBVIOUS
  <2>2. \A x : IsFiniteSet({x})
    BY FS_Singleton
  <2>. QED
    BY <2>1, <2>2, FS_EmptySet, FS_AddElement
<1>4. IsFiniteSet(1 .. v)
  BY FS_Interval
<1>5. IsFiniteSet(RowsOf(k, v))
  BY <1>2, <1>3, <1>4, SyncAssumption, Names DEF RowsOf
<1>. QED
  BY <1>1, <1>5

\* Which sync writes which row.
LEMMA RowFacts ==
    ASSUME NEW k \in Syncs, NEW v \in Nat
    PROVE  /\ \A s : <<"mirror", s>> \in RowsOf(k, v) =>
                       \/ k \in {"mssql", "payments"} /\ s \in JRP
                       \/ k \in {"plans", "ipbc"} /\ s \in IPBC
           /\ k \in {"mssql", "payments"} => RowsOf(k, v) = {"mirror"} \X JRP
           /\ k = "plans" => RowsOf(k, v) = {"mirror"} \X IPBC
           /\ k = "ipbc" => \A s \in IPBC : <<"mirror", s>> \in RowsOf(k, v)
           /\ k = "messages" => RowsOf(k, v) = {"message"} \X (1 .. v)
           /\ k # "messages" => \A c \in RowsOf(k, v) : c[1] # "message"
           /\ k = "campaign" => RowsOf(k, v) = {}
BY Names DEF RowsOf

LEMMA OrderOfRows ==
    ASSUME NEW k \in Syncs, NEW v \in Nat, NEW q \in WritesOf(k, v)
    PROVE  q \in Seq(RowsOf(k, v)) /\ Range(q) = RowsOf(k, v)
<1>1. Cardinality(RowsOf(k, v)) \in Nat
  BY RowsAreCells, FS_CardinalityType
<1>2. q \in [1 .. Cardinality(RowsOf(k, v)) -> RowsOf(k, v)] /\ Range(q) = RowsOf(k, v)
  BY DEF WritesOf
<1>. QED
  BY <1>1, <1>2

LEMMA HeadAndTail ==
    ASSUME NEW S, NEW q \in Seq(S), q # <<>>
    PROVE  /\ Head(q) \in S /\ Tail(q) \in Seq(S)
           /\ Range(q) = {Head(q)} \cup Range(Tail(q))
           /\ \A i \in DOMAIN Tail(q) : i + 1 \in DOMAIN q /\ Tail(q)[i] = q[i + 1]
           /\ Tail(q) = <<>> <=> Len(q) = 1
           /\ Len(q) \in Nat \ {0}
<1>1. /\ Head(q) \in S /\ Tail(q) \in Seq(S) /\ Len(q) \in Nat \ {0}
      /\ Len(Tail(q)) = Len(q) - 1 /\ DOMAIN q = 1 .. Len(q)
      /\ DOMAIN Tail(q) = 1 .. Len(Tail(q)) /\ Head(q) = q[1]
      /\ \A i \in 1 .. Len(q) - 1 : Tail(q)[i] = q[i + 1]
      /\ Tail(q) = <<>> <=> Len(Tail(q)) = 0
  <2>1. Head(q) \in S /\ Tail(q) \in Seq(S) /\ Len(Tail(q)) = Len(q) - 1 /\ Head(q) = q[1]
    BY HeadTailProperties
  <2>2. Len(q) \in Nat /\ DOMAIN q = 1 .. Len(q) /\ (Len(q) = 0 <=> q = <<>>)
    BY LenProperties, EmptySeq
  <2>3. DOMAIN Tail(q) = 1 .. Len(Tail(q)) /\ (Len(Tail(q)) = 0 <=> Tail(q) = <<>>)
    BY <2>1, LenProperties, EmptySeq
  <2>4. \A i \in 1 .. Len(q) - 1 : Tail(q)[i] = q[i + 1]
    BY <2>2, HeadTailProperties
  <2>. QED
    BY <2>1, <2>2, <2>3, <2>4
<1>2. ASSUME NEW i \in DOMAIN q PROVE q[i] \in {Head(q)} \cup Range(Tail(q))
  <2>1. CASE i = 1
    BY <1>1, <2>1
  <2>2. CASE i # 1
    <3>1. i - 1 \in DOMAIN Tail(q) /\ Tail(q)[i - 1] = q[i]
      BY <1>1, <1>2, <2>2
    <3>. QED
      BY <3>1 DEF Range
  <2>. QED
    BY <2>1, <2>2
<1>3. Range(q) = {Head(q)} \cup Range(Tail(q))
  BY <1>1, <1>2 DEF Range
<1>. QED
  BY <1>1, <1>3

-----------------------------------------------------------------------------
(* Jobs *)

LEMMA StepsOrdered ==
    ASSUME NEW w \in Workers, NEW j \in Jobs[w]
    PROVE  /\ Steps(j) \in Seq(Syncs) /\ Steps(j) # <<>>
           /\ Ordered(Steps(j), Steps(j))
<1>1. CASE j = "daily"
  <2>1. Steps(j) = <<"mssql", "ipbc", "payments", "campaign">>
    BY <1>1 DEF Steps, Daily
  <2>. QED
    BY <2>1, Names DEF Ordered, Range
<1>2. CASE j = "pipeline"
  <2>1. Steps(j) = <<"mssql", "ipbc", "payments", "plans">>
    BY <1>2 DEF Steps, Pipeline
  <2>. QED
    BY <2>1, Names DEF Ordered, Range
<1>3. CASE j \in Syncs
  <2>1. Steps(j) = <<j>>
    BY <1>3, Names DEF Steps
  <2>. QED
    BY <2>1, <1>3 DEF Ordered, Range
<1>4. j \in {"daily", "pipeline"} \cup Syncs
  BY SyncAssumption
<1>. QED
  BY <1>1, <1>2, <1>3, <1>4

LEMMA RestOrdered ==
    ASSUME NEW rest \in Seq(Syncs), NEW done, Len(rest) > 1, Ordered(rest, done)
    PROVE  Tail(rest) \in Seq(Syncs) /\ Tail(rest) # <<>> /\ Ordered(Tail(rest), done)
<1>1. rest # <<>>
  OBVIOUS
<1>2. /\ Tail(rest) \in Seq(Syncs) /\ Tail(rest) # <<>>
      /\ Range(rest) = {Head(rest)} \cup Range(Tail(rest))
      /\ \A i \in DOMAIN Tail(rest) : i + 1 \in DOMAIN rest /\ Tail(rest)[i] = rest[i + 1]
      /\ DOMAIN Tail(rest) \subseteq Nat
  <2>1. /\ Tail(rest) \in Seq(Syncs) /\ Range(rest) = {Head(rest)} \cup Range(Tail(rest))
        /\ \A i \in DOMAIN Tail(rest) : i + 1 \in DOMAIN rest /\ Tail(rest)[i] = rest[i + 1]
        /\ Tail(rest) = <<>> <=> Len(rest) = 1
    BY <1>1, HeadAndTail
  <2>2. DOMAIN Tail(rest) \subseteq Nat
    BY <2>1, LenProperties
  <2>3. Len(rest) # 1
    <3>1. Len(rest) \in Nat
      BY LenProperties
    <3>2. \A n \in Nat : n > 1 => n # 1
      OBVIOUS
    <3>. QED
      BY <3>1, <3>2, Zenon
  <2>4. Tail(rest) # <<>>
    BY <2>1, <2>3, Zenon
  <2>. QED
    BY <2>1, <2>2, <2>4, Zenon
<1>3. ASSUME NEW i \in DOMAIN Tail(rest), NEW k \in DOMAIN Tail(rest),
             Tail(rest)[i] = "payments", Tail(rest)[k] = "mssql"
      PROVE  k < i
  BY <1>2, <1>3 DEF Ordered
<1>4. ASSUME {"mssql", "payments"} \subseteq Range(done), "payments" \notin Range(Tail(rest))
      PROVE  "mssql" \notin Range(Tail(rest))
  <2>1. CASE "payments" \notin Range(rest)
    BY <1>2, <1>4, <2>1 DEF Ordered
  <2>2. CASE Head(rest) = "payments"
    <3>1. SUFFICES ASSUME NEW k \in DOMAIN Tail(rest), Tail(rest)[k] = "mssql" PROVE FALSE
      BY DEF Range
    <3>2. 1 \in DOMAIN rest /\ rest[1] = "payments" /\ rest[k + 1] = "mssql" /\ k + 1 \in DOMAIN rest
      BY <1>1, <1>2, <2>2, <3>1, LenProperties
    <3>3. k + 1 < 1
      BY <3>2 DEF Ordered
    <3>4. k \in 1 .. Len(Tail(rest))
      BY <1>2, LenProperties
    <3>. QED
      BY <3>3, <3>4
  <2>. QED
    BY <1>2, <1>4, <2>1, <2>2
<1>5. done = <<"messages">> => Len(rest) = 1
  BY DEF Ordered
<1>. QED
  BY <1>2, <1>3, <1>4, <1>5 DEF Ordered

\* What another worker's step leaves of a transaction: all but the rows a DELETE waits for.
SameWork(u) ==
    /\ session'[u].pc = session[u].pc /\ session'[u].rest = session[u].rest
    /\ session'[u].got = session[u].got /\ session'[u].left = session[u].left
    /\ session'[u].held = session[u].held /\ session'[u].failed = session[u].failed
    /\ answer'[u] = answer[u]

\* Rows are only added, and payment columns come from who writes them.
Grows(u) ==
    /\ \A s \in Students : mirror[s].data # 0 => mirror'[s].data # 0
    /\ \A s \in JRP : mirror'[s].pay.by = u => mirror'[s].pay = mirror[s].pay
    /\ messages \subseteq messages'

LEMMA OthersKept ==
    ASSUME NEW u \in Workers, Each(u), session'[u] \in Sessions, SameWork(u), Grows(u)
    PROVE  Each(u)'
<1>. USE DEF SameWork, Current
<1>1. Phase(u)'
  BY DEF Each, Phase, RowsHeld
<1>2. Covers(u)'
  BY DEF Each, Covers, Pending, Grows
<1>3. Patched(u)'
  BY DEF Each, Patched, Failed, Grows
<1>4. Stored(u)'
  BY DEF Each, Stored, Grows
<1>. QED
  BY <1>1, <1>2, <1>3, <1>4 DEF Each

\* A step of one worker, put together.
LEMMA OneStep ==
    ASSUME IInv, NEW w \in Workers, Tables', Stamped', OneFetch', Each(w)',
           session'[w].held \cap LockedFrom(w) = {},
           \A u \in Workers \ {w} : SameWork(u) /\ Grows(u)
    PROVE  IInv'
<1>1. \A u \in Workers : Each(u)'
  <2>1. \A u \in Workers : session'[u] \in Sessions
    BY DEF Tables
  <2>. QED
    BY <2>1, OthersKept DEF IInv
<1>2. Locks'
  <2>1. ASSUME NEW u \in Workers, NEW v \in Workers \ {u}
        PROVE  session'[u].held \cap session'[v].held = {}
    <3>1. CASE u = w
      BY <3>1 DEF SameWork, LockedFrom
    <3>2. CASE v = w
      BY <3>2 DEF SameWork, LockedFrom
    <3>3. CASE u # w /\ v # w
      <4>1. session[u].held \cap session[v].held = {}
        BY DEF IInv, Locks, LockedFrom
      <4>. QED
        BY <3>3, <4>1 DEF SameWork
    <3>. QED
      BY <3>1, <3>2, <3>3
  <2>. QED
    BY <2>1 DEF Locks, LockedFrom
<1>. QED
  BY <1>1, <1>2 DEF IInv

\* A step that changes one worker's session and report only.
LEMMA TablesKept ==
    ASSUME IInv, NEW w \in Workers, UNCHANGED <<said, tables>>,
           session' \in [Workers -> Sessions], answer' \in [Workers -> Answers],
           \A u \in Workers \ {w} : session'[u] = session[u] /\ answer'[u] = answer[u]
    PROVE  /\ \A u \in Workers \ {w} : SameWork(u) /\ Grows(u)
           /\ Tables' /\ Stamped' /\ OneFetch'
<1>1. UNCHANGED <<said, mirror, mentor, prep, activity, messages>>
  BY DEF tables
<1>2. Tables'
  BY <1>1 DEF IInv, Tables
<1>3. Stamped' /\ OneFetch'
  BY <1>1 DEF IInv, Stamped, OneFetch
<1>4. ASSUME NEW u \in Workers \ {w}
      PROVE  SameWork(u) /\ Grows(u)
  BY <1>1 DEF SameWork, Grows
<1>. QED
  BY <1>2, <1>3, <1>4

-----------------------------------------------------------------------------
(* The steps *)

LEMMA IdleSession ==
    /\ Idle \in Sessions /\ NoAnswer \in Answers
    /\ Idle.pc = "idle" /\ Idle.rest = <<>> /\ Idle.left = <<>> /\ Idle.held = {}
    /\ NoAnswer.done = <<>>
<1>1. <<>> \in Seq(Syncs) /\ <<>> \in Seq(Cells)
  BY EmptySeq
<1>. QED
  BY <1>1 DEF Idle, NoAnswer, Sessions, Answers, Phases

LEMMA InitHolds == Init => IInv
<1>. SUFFICES ASSUME Init PROVE IInv
  OBVIOUS
<1>1. Tables
  <2>1. \A k \in Sources : MaxVersion[k] \in Nat \ {0}
    BY SyncAssumption
  <2>2. 0 \in Versions /\ NoVersion \in Stamps
    BY <2>1, Names, Bounds DEF Stamps
  <2>. QED
    BY <2>1, <2>2, IdleSession DEF Init, Tables, MirrorRows
<1>2. Stamped /\ OneFetch
  BY DEF Init, Stamped, NoVersion, OneFetch, Students
<1>3. Locks
  BY IdleSession DEF Init, Locks
<1>4. ASSUME NEW w \in Workers PROVE Each(w)
  <2>1. session[w] = Idle /\ answer[w] = NoAnswer
    BY DEF Init
  <2>2. Phase(w) /\ Covers(w)
    BY <2>1, IdleSession DEF Phase, Covers
  <2>3. "mssql" \notin Range(answer[w].done) /\ answer[w].done # <<"messages">>
    BY <2>1, IdleSession DEF Range
  <2>. QED
    BY <2>2, <2>3 DEF Each, Patched, Stored
<1>. QED
  BY <1>1, <1>2, <1>3, <1>4 DEF IInv

LEMMA StartStep ==
    ASSUME IInv, NEW w \in Workers, NEW j \in Jobs[w], Start(w, j)
    PROVE  IInv'
<1>. DEFINE new    == [Idle EXCEPT !.pc = "fetch", !.rest = Steps(j)]
            report == [NoAnswer EXCEPT !.done = Steps(j)]
<1>1. /\ new \in Sessions /\ new.pc = "fetch" /\ new.rest = Steps(j) /\ new.left = <<>>
      /\ new.held = {}
      /\ report \in Answers /\ report.done = Steps(j)
  BY StepsOrdered, IdleSession DEF Sessions, Answers, Phases
<1>2. session' = [session EXCEPT ![w] = new] /\ answer' = [answer EXCEPT ![w] = report]
  BY DEF Start
<1>. HIDE DEF new, report
<1>3. session \in [Workers -> Sessions] /\ answer \in [Workers -> Answers]
  BY DEF IInv, Tables
<1>4. session'[w] = new /\ answer'[w] = report
  BY <1>2, <1>3
<1>5. /\ \A u \in Workers \ {w} : SameWork(u) /\ Grows(u)
      /\ Tables' /\ Stamped' /\ OneFetch'
  <2>1. /\ session' \in [Workers -> Sessions] /\ answer' \in [Workers -> Answers]
        /\ \A u \in Workers \ {w} : session'[u] = session[u] /\ answer'[u] = answer[u]
    BY <1>1, <1>2, <1>3 DEF Start
  <2>. QED
    BY <2>1, TablesKept DEF Start
<1>6. Each(w)'
  <2>1. Phase(w)'
    BY <1>1, <1>4, StepsOrdered DEF Phase
  <2>2. Covers(w)' /\ Stored(w)' /\ Patched(w)'
    BY <1>1, <1>4 DEF Covers, Stored, Patched
  <2>. QED
    BY <2>1, <2>2 DEF Each
<1>. QED
  BY <1>1, <1>4, <1>5, <1>6, OneStep

LEMMA FetchStep ==
    ASSUME IInv, NEW w \in Workers, Fetch(w)
    PROVE  IInv'
<1>. DEFINE k == Current(w)
            v == said[Reads[k]]
            n == session[w]
<1>1. /\ session \in [Workers -> Sessions] /\ answer \in [Workers -> Answers]
      /\ n \in Sessions /\ n.pc = "fetch" /\ n.rest # <<>> /\ n.held = {} /\ Phase(w)
  BY DEF IInv, Tables, Each, Phase, Fetch
<1>2. k \in Syncs /\ v \in 1 .. MaxVersion[Reads[k]] /\ v \in Nat
  <2>1. k \in Syncs
    BY <1>1, HeadAndTail DEF Current, Sessions
  <2>. QED
    BY <2>1, Names DEF IInv, Tables
<1>3. PICK q \in WritesOf(k, v) :
        session' = [session EXCEPT ![w].pc = IF k = "campaign" THEN "delete" ELSE "write",
                                   ![w].got = v, ![w].left = q]
  BY DEF Fetch
<1>4. q \in Seq(RowsOf(k, v)) /\ Range(q) = RowsOf(k, v) /\ q \in Seq(Cells)
  BY <1>2, OrderOfRows, RowsAreCells, SeqMonotonic
<1>. DEFINE new == [n EXCEPT !.pc = IF k = "campaign" THEN "delete" ELSE "write",
                             !.got = v, !.left = q]
<1>5. /\ new \in Sessions /\ new.got = v /\ new.left = q /\ new.rest = n.rest /\ new.held = {}
      /\ new.failed = n.failed /\ new.pc = IF k = "campaign" THEN "delete" ELSE "write"
  BY <1>1, <1>2, <1>4 DEF Sessions, Phases
<1>6. session' = [session EXCEPT ![w] = new]
  BY <1>1, <1>3
<1>. HIDE DEF new
<1>7. /\ \A u \in Workers \ {w} : SameWork(u) /\ Grows(u)
      /\ Tables' /\ Stamped' /\ OneFetch'
  <2>1. /\ session' \in [Workers -> Sessions] /\ answer' \in [Workers -> Answers]
        /\ \A u \in Workers \ {w} : session'[u] = session[u] /\ answer'[u] = answer[u]
    BY <1>1, <1>5, <1>6 DEF Fetch
  <2>. QED
    BY <2>1, TablesKept DEF Fetch
<1>8. session'[w] = new /\ answer' = answer /\ mirror' = mirror /\ messages' = messages
      /\ Current(w)' = k
  BY <1>1, <1>5, <1>6 DEF Fetch, tables, Current
<1>9. Each(w)'
  <2>1. Phase(w)'
    <3>1. k = "campaign" => q = <<>>
      BY <1>2, <1>4, RowFacts, EmptySeq, HeadAndTail
    <3>. QED
      BY <1>1, <1>2, <1>4, <1>5, <1>8, <3>1 DEF Phase
  <2>2. Covers(w)'
    <3>1. Pending(w)' = RowsOf(k, v)
      BY <1>4, <1>5, <1>8 DEF Pending
    <3>. QED
      BY <1>2, <1>5, <1>8, <3>1, RowFacts DEF Covers
  <2>3. Patched(w)' /\ Stored(w)'
    BY <1>1, <1>5, <1>8 DEF Patched, Stored, Failed, IInv, Each
  <2>. QED
    BY <2>1, <2>2, <2>3 DEF Each
<1>. QED
  BY <1>5, <1>7, <1>8, <1>9, OneStep

LEMMA Writing ==
    ASSUME IInv, NEW w \in Workers, session[w].pc \in {"write", "insert"}
    PROVE  /\ session[w] \in Sessions /\ Phase(w) /\ Covers(w)
           /\ Current(w) \in Syncs /\ session[w].got \in Nat
           /\ session[w].got \in 1 .. MaxVersion[Reads[Current(w)]]
           /\ session[w].left \in Seq(RowsOf(Current(w), session[w].got))
           /\ session[w].held \subseteq RowsHeld(w)
           /\ session[w].left # <<>> => RowsHeld(w) = RowsOf(Current(w), session[w].got)
<1>1. session[w] \in Sessions /\ Phase(w) /\ Covers(w)
  BY DEF IInv, Each, Phase
<1>2. /\ Current(w) \in Syncs /\ session[w].got \in Nat
      /\ session[w].left \in Seq(RowsOf(Current(w), session[w].got))
  BY <1>1, HeadAndTail DEF Phase, Current, Sessions
<1>3. session[w].left # <<>> => Current(w) # "campaign"
  BY <1>2, HeadAndTail, RowFacts
<1>. QED
  BY <1>1, <1>2, <1>3 DEF Phase, RowsHeld

\* A row is written and locked until the transaction ends.
LEMMA LockedStep ==
    ASSUME IInv, NEW w \in Workers, session[w].pc \in {"write", "insert"},
           session[w].left # <<>>,
           Head(session[w].left) \notin LockedFrom(w),
           Locked(w, Head(session[w].left), "write"),
           ~Unseen(Current(w), Head(session[w].left)),
           UNCHANGED <<said, tables, answer>>
    PROVE  IInv'
<1>. DEFINE n == session[w]
            k == Current(w)
            c == Head(session[w].left)
            new == [n EXCEPT !.held = @ \cup {c}, !.left = Tail(@), !.pc = "write"]
<1>1. /\ session \in [Workers -> Sessions] /\ answer \in [Workers -> Answers]
      /\ n \in Sessions /\ Phase(w) /\ Covers(w) /\ k \in Syncs /\ n.got \in Nat
      /\ n.left \in Seq(RowsOf(k, n.got)) /\ n.held \subseteq RowsOf(k, n.got)
      /\ RowsHeld(w) = RowsOf(k, n.got)
  BY Writing DEF IInv, Tables
<1>2. /\ c \in RowsOf(k, n.got) /\ c \in Cells /\ Tail(n.left) \in Seq(RowsOf(k, n.got))
      /\ Tail(n.left) \in Seq(Cells)
      /\ Range(n.left) = {c} \cup Range(Tail(n.left))
  BY <1>1, HeadAndTail, RowsAreCells, SeqMonotonic
<1>3. /\ new \in Sessions /\ new.got = n.got /\ new.left = Tail(n.left) /\ new.rest = n.rest
      /\ new.held = n.held \cup {c} /\ new.failed = n.failed /\ new.pc = "write"
  BY <1>1, <1>2 DEF Sessions, Phases
<1>4. session' = [session EXCEPT ![w] = new]
  BY <1>1 DEF Locked
<1>. HIDE DEF new
<1>5. /\ \A u \in Workers \ {w} : SameWork(u) /\ Grows(u)
      /\ Tables' /\ Stamped' /\ OneFetch'
  <2>1. /\ session' \in [Workers -> Sessions] /\ answer' \in [Workers -> Answers]
        /\ \A u \in Workers \ {w} : session'[u] = session[u] /\ answer'[u] = answer[u]
    BY <1>1, <1>3, <1>4
  <2>. QED
    BY <2>1, TablesKept
<1>6. session'[w] = new /\ Current(w)' = k /\ RowsHeld(w)' = RowsHeld(w)
  BY <1>1, <1>3, <1>4 DEF Current, RowsHeld
<1>7. Phase(w)'
  BY <1>1, <1>2, <1>3, <1>6 DEF Phase
<1>8. Covers(w)'
  <2>1. Pending(w)' = Pending(w)
    BY <1>2, <1>3, <1>6 DEF Pending
  <2>2. ASSUME k \in {"payments", "plans"}, NEW s \in Students, <<"mirror", s>> \in new.held
        PROVE  mirror[s].data # 0
    <3>1. CASE c = <<"mirror", s>>
      BY <2>2, <3>1 DEF Unseen
    <3>2. CASE <<"mirror", s>> \in n.held
      BY <1>1, <2>2, <3>2 DEF Covers
    <3>. QED
      BY <1>3, <2>2, <3>1, <3>2
  <2>. QED
    BY <1>1, <1>3, <1>6, <2>1, <2>2 DEF Covers, tables
<1>9. Patched(w)' /\ Stored(w)'
  BY <1>1, <1>3, <1>6 DEF Patched, Stored, Failed, IInv, Each, tables
<1>10. new.held \cap LockedFrom(w) = {}
  BY <1>3 DEF IInv, Locks
<1>. QED
  BY <1>5, <1>6, <1>7, <1>8, <1>9, <1>10, OneStep DEF Each

\* A row is passed over: an UPDATE finds no row, or the message is there already.
LEMMA PassedStep ==
    ASSUME IInv, NEW w \in Workers, session[w].pc = "write", session[w].left # <<>>,
           Passed(w),
           \/ Unseen(Current(w), Head(session[w].left))
           \/ Current(w) = "messages" /\ Head(session[w].left)[2] \in messages,
           UNCHANGED <<said, tables, answer>>
    PROVE  IInv'
<1>. DEFINE n == session[w]
            k == Current(w)
            c == Head(session[w].left)
            new == [n EXCEPT !.left = Tail(@)]
<1>1. /\ session \in [Workers -> Sessions] /\ answer \in [Workers -> Answers]
      /\ n \in Sessions /\ Phase(w) /\ Covers(w) /\ k \in Syncs /\ n.got \in Nat
      /\ n.left \in Seq(RowsOf(k, n.got)) /\ n.held \subseteq RowsOf(k, n.got)
  BY Writing DEF IInv, Tables
<1>2. /\ c \in RowsOf(k, n.got) /\ Tail(n.left) \in Seq(RowsOf(k, n.got))
      /\ Tail(n.left) \in Seq(Cells)
      /\ Range(n.left) = {c} \cup Range(Tail(n.left))
  <2>1. /\ c \in RowsOf(k, n.got) /\ Tail(n.left) \in Seq(RowsOf(k, n.got))
        /\ Range(n.left) = {c} \cup Range(Tail(n.left))
    BY <1>1, HeadAndTail
  <2>2. RowsOf(k, n.got) \subseteq Cells
    BY <1>1, RowsAreCells
  <2>. QED
    BY <2>1, <2>2, SeqMonotonic
<1>3. /\ new \in Sessions /\ new.got = n.got /\ new.left = Tail(n.left) /\ new.rest = n.rest
      /\ new.held = n.held /\ new.failed = n.failed /\ new.pc = "write"
  BY <1>1, <1>2 DEF Sessions
<1>4. session' = [session EXCEPT ![w] = new]
  BY <1>1 DEF Passed
<1>. HIDE DEF new
<1>5. /\ \A u \in Workers \ {w} : SameWork(u) /\ Grows(u)
      /\ Tables' /\ Stamped' /\ OneFetch'
  <2>1. /\ session' \in [Workers -> Sessions] /\ answer' \in [Workers -> Answers]
        /\ \A u \in Workers \ {w} : session'[u] = session[u] /\ answer'[u] = answer[u]
    BY <1>1, <1>3, <1>4
  <2>. QED
    BY <2>1, TablesKept
<1>6. session'[w] = new /\ Current(w)' = k /\ RowsHeld(w)' = RowsHeld(w)
  BY <1>1, <1>3, <1>4 DEF Current, RowsHeld
<1>7. Phase(w)'
  BY <1>1, <1>2, <1>3, <1>6, Writing DEF Phase
<1>8. Covers(w)'
  <2>1. Pending(w) = Pending(w)' \cup {c}
    BY <1>2, <1>3, <1>6 DEF Pending
  <2>2. CASE Unseen(k, c)
    <3>1. ASSUME NEW s \in JRP, c = <<"mirror", s>> PROVE mirror[s].pay.by # w
      BY <2>2, <3>1, SyncAssumption DEF Unseen, IInv, Stamped, Students
    <3>. QED
      BY <1>1, <1>3, <1>6, <2>1, <2>2, <3>1 DEF Covers, tables, Unseen
  <2>3. CASE k = "messages" /\ c[2] \in messages
    BY <1>1, <1>3, <1>6, <2>1, <2>3 DEF Covers, tables
  <2>. QED
    BY <2>2, <2>3
<1>9. Patched(w)' /\ Stored(w)'
  BY <1>1, <1>3, <1>6 DEF Patched, Stored, Failed, IInv, Each, tables
<1>10. new.held \cap LockedFrom(w) = {}
  BY <1>3 DEF IInv, Locks
<1>. QED
  BY <1>5, <1>6, <1>7, <1>8, <1>9, <1>10, OneStep DEF Each

LEMMA WriteRowStep ==
    ASSUME IInv, NEW w \in Workers, WriteRow(w)
    PROVE  IInv'
<1>1. CASE Unseen(Current(w), Head(session[w].left)) /\ Passed(w)
  BY <1>1, PassedStep DEF WriteRow
<1>2. CASE /\ ~Unseen(Current(w), Head(session[w].left))
           /\ Head(session[w].left) \notin LockedFrom(w)
           /\ Locked(w, Head(session[w].left), "write")
  BY <1>2, LockedStep DEF WriteRow
<1>. QED
  BY <1>1, <1>2 DEF WriteRow

LEMMA InsertMessageStep ==
    ASSUME IInv, NEW w \in Workers, InsertMessage(w)
    PROVE  IInv'
<1>1. Current(w) = "messages" /\ session[w].left # <<>>
  BY DEF InsertMessage, IInv, Each, Phase
<1>. QED
  BY <1>1, LockedStep DEF InsertMessage, Unseen

\* The table is looked at before the row is added.
LEMMA CheckMessageStep ==
    ASSUME IInv, NEW w \in Workers, CheckMessage(w)
    PROVE  IInv'
<1>. DEFINE n == session[w]
            k == Current(w)
            c == Head(session[w].left)
            new == [n EXCEPT !.pc = "insert"]
<1>1. /\ session \in [Workers -> Sessions] /\ answer \in [Workers -> Answers]
      /\ n \in Sessions /\ Phase(w) /\ Covers(w) /\ k \in Syncs /\ n.got \in Nat
      /\ n.pc = "write" /\ n.left # <<>> /\ n.left \in Seq(RowsOf(k, n.got))
  BY Writing DEF IInv, Tables, CheckMessage
<1>2. k = "messages"
  BY <1>1, HeadAndTail, RowFacts DEF CheckMessage
<1>3. CASE c[2] \in messages
  BY <1>1, <1>2, <1>3, PassedStep DEF CheckMessage
<1>4. CASE c[2] \notin messages
  <2>1. /\ new \in Sessions /\ new.got = n.got /\ new.left = n.left /\ new.rest = n.rest
        /\ new.held = n.held /\ new.failed = n.failed /\ new.pc = "insert"
    BY <1>1 DEF Sessions, Phases
  <2>2. session' = [session EXCEPT ![w] = new]
    BY <1>1, <1>4 DEF CheckMessage
  <2>. HIDE DEF new
  <2>3. /\ \A u \in Workers \ {w} : SameWork(u) /\ Grows(u)
        /\ Tables' /\ Stamped' /\ OneFetch'
    BY <1>1, <2>1, <2>2
       DEF SameWork, Grows, tables, IInv, Tables, Stamped, OneFetch, CheckMessage
  <2>4. session'[w] = new /\ Current(w)' = k /\ RowsHeld(w)' = RowsHeld(w) /\ Pending(w)' = Pending(w)
    BY <1>1, <2>1, <2>2 DEF Current, RowsHeld, Pending
  <2>5. Phase(w)'
    BY <1>1, <1>2, <2>1, <2>4, Writing DEF Phase, CheckMessage
  <2>6. Covers(w)' /\ Patched(w)' /\ Stored(w)'
    BY <1>1, <1>2, <2>1, <2>4
       DEF Covers, Patched, Stored, Failed, IInv, Each, tables, CheckMessage
  <2>7. new.held \cap LockedFrom(w) = {}
    BY <2>1 DEF IInv, Locks
  <2>. QED
    BY <2>3, <2>4, <2>5, <2>6, <2>7, OneStep DEF Each
<1>. QED
  BY <1>3, <1>4

\* DELETE: the rows are seen when it begins, and locked when nobody else holds them.
LEMMA DeleteBeginStep ==
    ASSUME IInv, NEW w \in Workers, DeleteBegin(w)
    PROVE  IInv'
<1>. DEFINE n == session[w]
            new == [n EXCEPT !.pc = "deleting", !.seen = activity]
<1>1. /\ session \in [Workers -> Sessions] /\ answer \in [Workers -> Answers]
      /\ n \in Sessions /\ Phase(w) /\ activity \subseteq Events /\ n.pc = "delete"
  BY DEF IInv, Tables, Each, Phase, DeleteBegin
<1>2. /\ new \in Sessions /\ new.got = n.got /\ new.left = n.left /\ new.rest = n.rest
      /\ new.held = n.held /\ new.failed = n.failed /\ new.pc = "deleting"
  BY <1>1 DEF Sessions, Phases
<1>3. session' = [session EXCEPT ![w] = new]
  BY <1>1 DEF DeleteBegin
<1>. HIDE DEF new
<1>4. /\ \A u \in Workers \ {w} : SameWork(u) /\ Grows(u)
      /\ Tables' /\ Stamped' /\ OneFetch'
  <2>1. /\ session' \in [Workers -> Sessions] /\ answer' \in [Workers -> Answers]
        /\ \A u \in Workers \ {w} : session'[u] = session[u] /\ answer'[u] = answer[u]
    BY <1>1, <1>2, <1>3 DEF DeleteBegin
  <2>. QED
    BY <2>1, TablesKept DEF DeleteBegin
<1>5. session'[w] = new /\ Current(w)' = Current(w)
  BY <1>1, <1>2, <1>3 DEF Current
<1>6. Phase(w)'
  BY <1>1, <1>2, <1>5 DEF Phase, DeleteBegin
<1>7. Covers(w)' /\ Patched(w)' /\ Stored(w)'
  BY <1>1, <1>2, <1>5 DEF Covers, Patched, Stored, Failed, IInv, Each, tables, DeleteBegin
<1>8. new.held \cap LockedFrom(w) = {}
  BY <1>2 DEF IInv, Locks
<1>. QED
  BY <1>4, <1>5, <1>6, <1>7, <1>8, OneStep DEF Each

LEMMA DeleteRowsStep ==
    ASSUME IInv, NEW w \in Workers, DeleteRows(w)
    PROVE  IInv'
<1>. DEFINE n == session[w]
            new == [n EXCEPT !.pc = "write", !.seen = {}, !.held = n.seen \cap activity]
<1>1. /\ session \in [Workers -> Sessions] /\ answer \in [Workers -> Answers]
      /\ n \in Sessions /\ Phase(w) /\ activity \subseteq Events /\ n.pc = "deleting"
      /\ n.left = <<>> /\ Current(w) = "campaign"
  BY DEF IInv, Tables, Each, Phase, DeleteRows
<1>2. /\ new \in Sessions /\ new.got = n.got /\ new.left = n.left /\ new.rest = n.rest
      /\ new.held = n.seen \cap activity /\ new.failed = n.failed /\ new.pc = "write"
  BY <1>1 DEF Sessions, Phases
<1>3. session' = [session EXCEPT ![w] = new]
  BY <1>1 DEF DeleteRows
<1>. HIDE DEF new
<1>4. /\ \A u \in Workers \ {w} : SameWork(u) /\ Grows(u)
      /\ Tables' /\ Stamped' /\ OneFetch'
  <2>1. /\ session' \in [Workers -> Sessions] /\ answer' \in [Workers -> Answers]
        /\ \A u \in Workers \ {w} : session'[u] = session[u] /\ answer'[u] = answer[u]
    BY <1>1, <1>2, <1>3 DEF DeleteRows
  <2>. QED
    BY <2>1, TablesKept DEF DeleteRows
<1>5. session'[w] = new /\ Current(w)' = Current(w)
  BY <1>1, <1>2, <1>3 DEF Current
<1>6. Phase(w)'
  <2>1. new.held \subseteq RowsHeld(w)' /\ answer' = answer
    BY <1>1, <1>2, <1>5 DEF RowsHeld, DeleteRows
  <2>2. new.left \in Seq(RowsOf("campaign", new.got))
    BY <1>1, <1>2, EmptySeq
  <2>. QED
    BY <1>1, <1>2, <1>5, <2>1, <2>2 DEF Phase
<1>7. Covers(w)' /\ Patched(w)' /\ Stored(w)'
  BY <1>1, <1>2, <1>5 DEF Covers, Patched, Stored, Failed, IInv, Each, tables, DeleteRows
<1>8. new.held \cap LockedFrom(w) = {}
  BY <1>2 DEF DeleteRows
<1>. QED
  BY <1>4, <1>5, <1>6, <1>7, <1>8, OneStep DEF Each

-----------------------------------------------------------------------------
(* The ends of transactions *)

\* A transaction rolled back leaves its worker idle, with nothing reported.
LEMMA RollbackStep ==
    ASSUME IInv, NEW w \in Workers, Rollback(w), UNCHANGED <<said, tables>>
    PROVE  IInv'
<1>1. session \in [Workers -> Sessions] /\ answer \in [Workers -> Answers]
  BY DEF IInv, Tables
<1>2. session'[w] = Idle /\ answer'[w] = NoAnswer
  BY <1>1 DEF Rollback
<1>3. /\ \A u \in Workers \ {w} : SameWork(u) /\ Grows(u)
      /\ Tables' /\ Stamped' /\ OneFetch'
  BY <1>1, IdleSession
     DEF Rollback, SameWork, Grows, tables, IInv, Tables, Stamped, OneFetch
<1>4. Phase(w)' /\ Covers(w)'
  BY <1>2, IdleSession DEF Phase, Covers
<1>5. Patched(w)' /\ Stored(w)'
  <2>1. "mssql" \notin Range(NoAnswer.done) /\ NoAnswer.done # <<"messages">>
    BY IdleSession DEF Range
  <2>. QED
    BY <1>2, <2>1 DEF Patched, Stored
<1>. QED
  BY <1>2, <1>3, <1>4, <1>5, IdleSession, OneStep DEF Each

\* The next sync of a job, or its end: what is left of the list, and what is reported.
LEMMA Proceeds ==
    ASSUME IInv, NEW w \in Workers, session[w].pc # "idle", NEW failed \in BOOLEAN,
           Proceed(w, Current(w), failed)
    PROVE  /\ session' \in [Workers -> Sessions] /\ answer' \in [Workers -> Answers]
           /\ \A u \in Workers \ {w} : SameWork(u)
           /\ session'[w].held = {} /\ Phase(w)' /\ Covers(w)'
           /\ Failed(w)' = IF failed THEN session[w].failed \cup {Current(w)} ELSE session[w].failed
           /\ answer'[w].done = answer[w].done
           /\ Range(session[w].rest) = {Current(w)} \cup Range(session'[w].rest)
           /\ session'[w].pc = "idle" => answer'[w].got = session[w].got
<1>. DEFINE n == session[w]
            k == Current(w)
            bad == IF failed THEN n.failed \cup {k} ELSE n.failed
            ongoing == [Idle EXCEPT !.pc = "fetch", !.rest = Tail(n.rest), !.failed = bad]
            next == IF Len(n.rest) > 1 THEN ongoing ELSE Idle
            report == [answer[w] EXCEPT !.failed = bad, !.got = n.got]
<1>1. /\ session \in [Workers -> Sessions] /\ answer \in [Workers -> Answers]
      /\ n \in Sessions /\ answer[w] \in Answers
      /\ n.rest \in Seq(Syncs) /\ n.rest # <<>> /\ Ordered(n.rest, answer[w].done)
  <2>1. n \in Sessions /\ n.rest # <<>> /\ Ordered(n.rest, answer[w].done)
    BY DEF IInv, Each, Phase
  <2>. QED
    BY <2>1 DEF IInv, Tables, Sessions
<1>2. /\ k \in Syncs /\ Len(n.rest) \in Nat \ {0} /\ Tail(n.rest) \in Seq(Syncs)
      /\ Range(n.rest) = {k} \cup Range(Tail(n.rest))
      /\ Tail(n.rest) = <<>> <=> Len(n.rest) = 1
  BY <1>1, HeadAndTail DEF Current
<1>3. bad \in SUBSET Syncs
  BY <1>1, <1>2 DEF Sessions
<1>4. /\ ongoing \in Sessions /\ ongoing.pc = "fetch" /\ ongoing.rest = Tail(n.rest)
      /\ ongoing.left = <<>> /\ ongoing.held = {} /\ ongoing.failed = bad
  BY <1>2, <1>3, IdleSession DEF Sessions, Phases
<1>5. /\ report \in Answers /\ report.done = answer[w].done /\ report.failed = bad
      /\ report.got = n.got
  BY <1>1, <1>3 DEF Answers, Sessions
<1>6. /\ session' = [u \in Workers |-> IF u = w THEN next ELSE Awoken(u, w)]
      /\ answer' = IF next # Idle THEN answer ELSE [answer EXCEPT ![w] = report]
  BY <1>1 DEF Proceed
<1>. HIDE DEF bad, ongoing, report
<1>7. ongoing # Idle
  BY <1>4, IdleSession
<1>8. ASSUME NEW u \in Workers \ {w}
      PROVE  session'[u] \in Sessions /\ SameWork(u)
  <2>1. session[u] \in Sessions
    BY <1>1
  <2>2. Awoken(u, w) \in Sessions
    BY <2>1 DEF Awoken, Sessions
  <2>3. /\ Awoken(u, w).pc = session[u].pc /\ Awoken(u, w).rest = session[u].rest
        /\ Awoken(u, w).got = session[u].got /\ Awoken(u, w).left = session[u].left
        /\ Awoken(u, w).held = session[u].held /\ Awoken(u, w).failed = session[u].failed
    BY <2>1 DEF Awoken, Sessions
  <2>4. session'[u] = Awoken(u, w)
    BY <1>6
  <2>5. answer'[u] = answer[u]
    BY <1>1, <1>6
  <2>. QED
    BY <2>2, <2>3, <2>4, <2>5 DEF SameWork
<1>9. session'[w] = next /\ next \in Sessions
  BY <1>4, <1>6, IdleSession
<1>10. session' \in [Workers -> Sessions] /\ answer' \in [Workers -> Answers]
  BY <1>1, <1>5, <1>6, <1>8, <1>9
<1>11. CASE Len(n.rest) > 1
  <2>1. next = ongoing /\ answer'[w] = answer[w]
    BY <1>1, <1>6, <1>7, <1>11
  <2>2. Ordered(Tail(n.rest), answer[w].done) /\ Tail(n.rest) # <<>>
    BY <1>1, <1>11, RestOrdered
  <2>3. Phase(w)' /\ Covers(w)'
    BY <1>1, <1>4, <1>9, <2>1, <2>2 DEF Phase, Covers
  <2>. QED
    BY <1>2, <1>4, <1>8, <1>9, <1>10, <2>1, <2>3 DEF Failed, bad
<1>12. CASE ~(Len(n.rest) > 1)
  <2>1. next = Idle /\ answer'[w] = report
    BY <1>1, <1>6, <1>12
  <2>2. Phase(w)' /\ Covers(w)'
    BY <1>5, <1>9, <2>1, IdleSession DEF Phase, Covers
  <2>3. Range(n.rest) = {k} \cup Range(session'[w].rest)
    <3>1. Tail(n.rest) = <<>>
      BY <1>2, <1>12
    <3>2. session'[w].rest = Tail(n.rest)
      BY <1>9, <2>1, <3>1, IdleSession
    <3>. QED
      BY <1>2, <3>2
  <2>. QED
    BY <1>5, <1>8, <1>9, <1>10, <2>1, <2>2, <2>3, IdleSession DEF Failed, bad
<1>. QED
  BY <1>11, <1>12

LEMMA FetchFailsStep ==
    ASSUME IInv, NEW w \in Workers, FetchFails(w)
    PROVE  IInv'
<1>1. /\ session[w].pc = "fetch" /\ Proceed(w, Current(w), TRUE)
      /\ UNCHANGED <<said, tables>>
  BY DEF FetchFails
<1>2. /\ session' \in [Workers -> Sessions] /\ answer' \in [Workers -> Answers]
      /\ \A u \in Workers \ {w} : SameWork(u)
      /\ session'[w].held = {} /\ Phase(w)' /\ Covers(w)'
      /\ Failed(w)' = session[w].failed \cup {Current(w)}
      /\ answer'[w].done = answer[w].done
      /\ Range(session[w].rest) = {Current(w)} \cup Range(session'[w].rest)
      /\ session'[w].pc = "idle" => answer'[w].got = session[w].got
  BY <1>1, Proceeds
<1>3. Tables' /\ Stamped' /\ OneFetch' /\ \A u \in Workers : Grows(u)
  BY <1>1, <1>2 DEF tables, IInv, Tables, Stamped, OneFetch, Grows
<1>4. Patched(w)'
  BY <1>1, <1>2 DEF Patched, Failed, IInv, Each, tables
<1>5. Stored(w)'
  BY <1>2 DEF Stored, Failed
<1>. QED
  BY <1>2, <1>3, <1>4, <1>5, OneStep DEF Each

\* What a commit makes of the mirror: a full sync writes all rows of its population, the
\* payments those it has found, and nobody the rows of the other population.
FullSync(k, s) == (k = "mssql" /\ s \in JRP) \/ (k = "ipbc" /\ s \in IPBC)
Updated(w, s)  == Current(w) = "payments" /\ s \in JRP /\ <<"mirror", s>> \in session[w].held

LEMMA CommittedRows ==
    ASSUME IInv, NEW w \in Workers, Commit(w), NEW s \in Students
    PROVE  /\ mirror'[s] \in MirrorRows
           /\ FullSync(Current(w), s) =>
                  /\ mirror'[s].data = session[w].got
                  /\ mirror'[s].pay = Stamp(Current(w), session[w].got, w)
           /\ ~FullSync(Current(w), s) => mirror'[s].data = mirror[s].data
           /\ Updated(w, s) => mirror'[s].pay = Stamp("payments", session[w].got, w)
           /\ ~FullSync(Current(w), s) /\ ~Updated(w, s) => mirror'[s].pay = mirror[s].pay
<1>. DEFINE n == session[w]
            k == Current(w)
            v == session[w].got
            row == mirror[s]
            written == <<"mirror", s>> \in n.held
<1>1. /\ k \in Syncs /\ v \in Nat /\ v \in Versions /\ n.left = <<>> /\ Covers(w)
      /\ n.pc = "write" /\ row \in MirrorRows /\ n.held \subseteq RowsHeld(w)
  <2>1. /\ n.pc = "write" /\ n.left = <<>>
    BY DEF Commit
  <2>2. k \in Syncs /\ v \in Nat /\ v \in 1 .. MaxVersion[Reads[k]] /\ Covers(w) /\ n.held \subseteq RowsHeld(w)
    BY <2>1, Writing
  <2>3. v \in Versions
    BY <2>2, Names, Bounds
  <2>. QED
    BY <2>1, <2>2, <2>3 DEF IInv, Tables
<1>2. Stamp(k, v, w) \in Stamps /\ Stamp("payments", v, w) = [from |-> Reads["payments"], version |-> v, by |-> w]
  BY <1>1, Names DEF Stamp, Stamps
<1>3. mirror'[s] = IF written THEN NewMirrorRow(w, k, s, v) ELSE row
  BY DEF Commit, Apply
<1>4. k # "campaign" /\ written =>
          (k \in {"mssql", "payments"} /\ s \in JRP) \/ (k \in {"plans", "ipbc"} /\ s \in IPBC)
  BY <1>1, RowFacts DEF RowsHeld
<1>5. FullSync(k, s) => written
  <2>1. Range(n.left) = {}
    BY <1>1 DEF Range
  <2>. QED
    BY <1>1, <2>1 DEF FullSync, Covers, Pending
<1>6. JRP \cap IPBC = {}
  BY SyncAssumption
<1>7. CASE FullSync(k, s)
  <2>1. mirror'[s] = [row EXCEPT !.data = v, !.pay = Stamp(k, v, w)]
    BY <1>3, <1>5, <1>7 DEF NewMirrorRow, FullRow, FullSync
  <2>. QED
    BY <1>1, <1>2, <1>6, <1>7, <2>1 DEF MirrorRows, FullSync, Updated
<1>8. CASE Updated(w, s)
  <2>1. mirror'[s] = [row EXCEPT !.pay = Stamp(k, v, w)] /\ k = "payments"
    BY <1>3, <1>8 DEF NewMirrorRow, Payments, Updated
  <2>. QED
    BY <1>1, <1>2, <1>8, <2>1 DEF MirrorRows, FullSync, Updated
<1>9. CASE ~FullSync(k, s) /\ ~Updated(w, s)
  <2>1. mirror'[s] = row \/ mirror'[s] = [row EXCEPT !.plan = v]
    BY <1>3, <1>4, <1>6, <1>9 DEF NewMirrorRow, Plan, FullSync, Updated
  <2>. QED
    BY <1>1, <1>9, <2>1 DEF MirrorRows
<1>. QED
  BY <1>7, <1>8, <1>9

LEMMA CommitStep ==
    ASSUME IInv, NEW w \in Workers, Commit(w)
    PROVE  IInv'
<1>. DEFINE n == session[w]
            k == Current(w)
            v == session[w].got
<1>1. /\ n.pc = "write" /\ n.left = <<>> /\ Proceed(w, k, FALSE) /\ said' = said
      /\ Apply(w, k, v, n.held)
  BY DEF Commit
<1>2. /\ session' \in [Workers -> Sessions] /\ answer' \in [Workers -> Answers]
      /\ \A u \in Workers \ {w} : SameWork(u)
      /\ session'[w].held = {} /\ Phase(w)' /\ Covers(w)'
      /\ Failed(w)' = n.failed
      /\ answer'[w].done = answer[w].done
      /\ Range(n.rest) = {k} \cup Range(session'[w].rest)
      /\ session'[w].pc = "idle" => answer'[w].got = v
  BY <1>1, Proceeds
<1>3. /\ k \in Syncs /\ v \in Nat /\ v \in 1 .. MaxVersion[Reads[k]] /\ Covers(w) /\ Phase(w)
      /\ n.held \subseteq RowsHeld(w) /\ v \in Versions /\ Range(n.left) = {}
  BY <1>1, Writing, Names, Bounds DEF Range
<1>4. Tables'
  <2>1. mirror' \in [Students -> MirrorRows]
    BY <1>1, CommittedRows DEF Apply
  <2>2. mentor' \in [IPBC -> Versions]
    <3>1. NewMentor(v) \in Versions
      BY <1>3, Names, Bounds DEF NewMentor
    <3>. QED
      BY <1>1, <3>1 DEF Apply, IInv, Tables
  <2>3. prep' \in [JRP -> Stamps]
    <3>1. NewPrep(w, k, v) \in Stamps
      BY <1>3, Names DEF NewPrep, InterviewPrep, Placement, Stamp, Stamps
    <3>. QED
      BY <1>1, <3>1 DEF Apply, IInv, Tables
  <2>4. activity' \subseteq Events
    <3>1. k = "campaign" => NewActivity(w, v, n.held) \subseteq Events
      <4>1. ASSUME k = "campaign", NEW i \in 1 .. v PROVE i \in 1 .. MaxVersion["events"]
        BY <1>3, <4>1, Names, SyncAssumption
      <4>. QED
        BY <4>1 DEF NewActivity, Events, IInv, Tables
    <3>. QED
      BY <1>1, <3>1 DEF Apply, IInv, Tables
  <2>5. messages' \subseteq 1 .. MaxVersion["ghl"]
    BY <1>1 DEF Apply, NewMessages, IInv, Tables
  <2>. QED
    BY <1>1, <1>2, <2>1, <2>2, <2>3, <2>4, <2>5 DEF IInv, Tables
<1>5. Stamped'
  <2>1. ASSUME NEW s \in Students, mirror'[s].pay.by # "none" PROVE mirror'[s].data # 0
    <3>1. CASE FullSync(k, s)
      BY <1>3, <3>1, CommittedRows
    <3>2. CASE Updated(w, s)
      <4>1. mirror[s].data # 0
        BY <1>1, <1>3, <3>2 DEF Covers, Updated
      <4>2. mirror'[s].data = mirror[s].data
        BY <3>2, CommittedRows DEF Updated, FullSync
      <4>. QED
        BY <4>1, <4>2
    <3>3. CASE ~FullSync(k, s) /\ ~Updated(w, s)
      BY <2>1, <3>3, CommittedRows DEF IInv, Stamped
    <3>. QED
      BY <3>1, <3>2, <3>3
  <2>. QED
    BY <2>1 DEF Stamped
<1>6. OneFetch'
  <2>1. \A s \in Students : mirror'[s].data = IF FullSync(k, s) THEN v ELSE mirror[s].data
    BY CommittedRows
  <2>. QED
    BY <2>1, SyncAssumption DEF IInv, OneFetch, FullSync, Students
<1>7. messages \subseteq messages'
  BY <1>1 DEF Apply, NewMessages
<1>8. ASSUME NEW u \in Workers \ {w} PROVE Grows(u)
  <2>1. ASSUME NEW s \in Students, mirror[s].data # 0 PROVE mirror'[s].data # 0
    BY <1>3, <2>1, CommittedRows
  <2>2. ASSUME NEW s \in JRP, mirror'[s].pay.by = u PROVE mirror'[s].pay = mirror[s].pay
    <3>1. Stamp(k, v, w).by = w /\ Stamp("payments", v, w).by = w
      BY DEF Stamp
    <3>. QED
      BY <2>2, <3>1, CommittedRows DEF Students
  <2>. QED
    BY <1>7, <2>1, <2>2 DEF Grows
<1>9. Patched(w)'
  <2>. SUFFICES ASSUME {"mssql", "payments"} \subseteq Range(answer[w].done) \ n.failed,
                       "payments" \notin Range(session'[w].rest),
                       NEW s \in JRP, mirror'[s].pay.by = w
                PROVE  mirror'[s].pay.from = "payments"
    BY <1>2 DEF Patched
  <2>1. CASE k = "payments"
    <3>1. CASE Updated(w, s)
      <4>1. mirror'[s].pay = Stamp("payments", v, w)
        BY <3>1, CommittedRows DEF Students
      <4>. QED
        BY <4>1 DEF Stamp, Reads
    <3>2. CASE ~Updated(w, s)
      <4>1. mirror'[s].pay = mirror[s].pay
        BY <2>1, <3>2, CommittedRows DEF Students, FullSync
      <4>2. mirror[s].pay.by # w
        BY <1>1, <1>3, <2>1, <3>2 DEF Covers, Pending, Updated
      <4>. QED
        BY <4>1, <4>2
    <3>. QED
      BY <3>1, <3>2
  <2>2. CASE k # "payments"
    <3>1. "payments" \notin Range(n.rest) /\ "mssql" \notin Range(n.rest)
      BY <1>1, <1>2, <1>3, <2>2 DEF Phase, Ordered
    <3>2. k # "mssql"
      BY <1>2, <3>1
    <3>3. mirror'[s].pay = mirror[s].pay
      BY <2>2, <3>2, CommittedRows, SyncAssumption DEF Students, FullSync, Updated
    <3>. QED
      BY <1>1, <3>1, <3>3 DEF IInv, Each, Patched, Failed
  <2>. QED
    BY <2>1, <2>2
<1>10. Stored(w)'
  <2>. SUFFICES ASSUME session'[w].pc = "idle", answer[w].done = <<"messages">>
                PROVE  1 .. v \subseteq messages'
    BY <1>2 DEF Stored
  <2>1. n.rest = <<"messages">> /\ k = "messages"
    BY <1>1, <1>3 DEF Phase, Ordered, Current
  <2>2. ASSUME NEW i \in 1 .. v PROVE i \in messages'
    <3>1. i \in messages \/ <<"message", i>> \in n.held
      BY <1>1, <1>3, <2>1 DEF Covers, Pending
    <3>2. i \in 1 .. MaxVersion["ghl"]
      BY <1>3, <2>1, Names, SyncAssumption
    <3>. QED
      BY <1>1, <3>1, <3>2 DEF Apply, NewMessages
  <2>. QED
    BY <2>2
<1>. QED
  BY <1>2, <1>4, <1>5, <1>6, <1>8, <1>9, <1>10, OneStep DEF Each

LEMMA SourceChangesStep ==
    ASSUME IInv, NEW src \in Sources, SourceChanges(src)
    PROVE  IInv'
<1>1. Tables'
  <2>1. /\ \A k \in Sources : said'[k] \in 1 .. MaxVersion[k]
        /\ said' \in [Sources -> Nat]
    <3>1. said' = [said EXCEPT ![src] = @ + 1] /\ said \in [Sources -> Nat]
      BY DEF SourceChanges, IInv, Tables
    <3>2. said[src] + 1 \in 1 .. MaxVersion[src] /\ said[src] + 1 \in Nat
      BY SyncAssumption, <3>1 DEF SourceChanges
    <3>. QED
      BY <3>1, <3>2 DEF IInv, Tables
  <2>. QED
    BY <2>1 DEF SourceChanges, tables, IInv, Tables
<1>2. Stamped' /\ OneFetch' /\ Locks'
  BY DEF SourceChanges, tables, IInv, Stamped, OneFetch, Locks, LockedFrom
<1>3. \A u \in Workers : SameWork(u) /\ Grows(u) /\ session'[u] \in Sessions
  BY DEF SourceChanges, tables, SameWork, Grows, IInv, Tables
<1>4. \A u \in Workers : Each(u)'
  BY <1>3, OthersKept DEF IInv
<1>. QED
  BY <1>1, <1>2, <1>4 DEF IInv

LEMMA NextStep == IInv /\ [Next]_vars => IInv'
<1>. SUFFICES ASSUME IInv, [Next]_vars PROVE IInv'
  OBVIOUS
<1>1. CASE UNCHANGED vars
  <2>1. Tables' /\ Stamped' /\ OneFetch'
    BY <1>1 DEF vars, tables, IInv, Tables, Stamped, OneFetch
  <2>2. Locks'
    BY <1>1 DEF vars, tables, IInv, Locks, LockedFrom
  <2>3. ASSUME NEW w \in Workers PROVE Each(w)'
    <3>1. Phase(w)'
      BY <1>1 DEF vars, tables, IInv, Each, Phase, RowsHeld, Current
    <3>2. Covers(w)'
      BY <1>1 DEF vars, tables, IInv, Each, Covers, Pending, Current
    <3>3. Patched(w)' /\ Stored(w)'
      BY <1>1 DEF vars, tables, IInv, Each, Patched, Failed, Stored
    <3>. QED
      BY <3>1, <3>2, <3>3 DEF Each
  <2>. QED
    BY <2>1, <2>2, <2>3 DEF IInv
<1>2. ASSUME NEW w \in Workers, Work(w) PROVE IInv'
  <2>1. CASE Fetch(w)
    BY <2>1, FetchStep
  <2>2. CASE WriteRow(w)
    BY <2>2, WriteRowStep
  <2>3. CASE CheckMessage(w)
    BY <2>3, CheckMessageStep
  <2>4. CASE InsertMessage(w)
    BY <2>4, InsertMessageStep
  <2>5. CASE DeleteBegin(w)
    BY <2>5, DeleteBeginStep
  <2>6. CASE DeleteRows(w)
    BY <2>6, DeleteRowsStep
  <2>7. CASE Commit(w)
    BY <2>7, CommitStep
  <2>8. CASE MessageConflict(w)
    BY <2>8, RollbackStep DEF MessageConflict
  <2>9. CASE DeadlockVictim(w)
    BY <2>9, RollbackStep DEF DeadlockVictim
  <2>. QED
    BY <1>2, <2>1, <2>2, <2>3, <2>4, <2>5, <2>6, <2>7, <2>8, <2>9 DEF Work
<1>3. ASSUME NEW w \in Workers, FetchFails(w) PROVE IInv'
  BY <1>3, FetchFailsStep
<1>4. ASSUME NEW w \in Workers, Raise(w) PROVE IInv'
  BY <1>4, RollbackStep DEF Raise
<1>5. ASSUME NEW w \in Workers, NEW j \in Jobs[w], Start(w, j) PROVE IInv'
  BY <1>5, StartStep
<1>6. ASSUME NEW src \in Sources, SourceChanges(src) PROVE IInv'
  BY <1>6, SourceChangesStep
<1>. QED
  BY <1>1, <1>2, <1>3, <1>4, <1>5, <1>6 DEF Next

LEMMA Invariant == Spec => []IInv
BY InitHolds, NextStep, PTL DEF Spec

-----------------------------------------------------------------------------
(* Theorems *)

\* However the syncs interleave, fail and are rolled back, the tables have their types and
\* no two transactions hold one row.
THEOREM SyncTypes == Spec => []TypeOK
<1>1. IInv => TypeOK
  <2>. SUFFICES ASSUME IInv PROVE TypeOK
    OBVIOUS
  <2>1. said \in [Sources -> Versions]
    BY SyncAssumption, Bounds DEF IInv, Tables
  <2>2. ASSUME NEW w \in Workers
        PROVE  /\ session[w].pc \in Phases
               /\ session[w].pc # "idle" => session[w].rest # <<>>
               /\ session[w].held \cap LockedFrom(w) = {}
    BY DEF IInv, Locks, Each, Phase, Sessions
  <2>. QED
    BY <2>1, <2>2 DEF TypeOK, IInv, Tables, Phases
<1>. QED
  BY <1>1, Invariant, PTL

\* The rows of a population always come from one fetch (sync_from_mssql and
\* sync_ipbc_students write all of them and commit once).
THEOREM OneFetchAlways == Spec => []OneFetch
<1>1. IInv => OneFetch
  BY DEF IInv
<1>. QED
  BY <1>1, Invariant, PTL

\* A job that has synced payments has left no payment column of its own full sync
\* (sync_payments skips only rows that no sync has committed).
THEOREM PaymentsArePatched == Spec => []PaymentsPatched
<1>1. IInv => PaymentsPatched
  <2>. SUFFICES ASSUME IInv, NEW w \in Workers, session[w].pc = "idle",
                       {"mssql", "payments"} \subseteq Range(answer[w].done) \ answer[w].failed
                PROVE  \A s \in JRP : mirror[s].pay.by = w => mirror[s].pay.from = "payments"
    BY DEF PaymentsPatched
  <2>1. "payments" \notin Range(session[w].rest)
    BY DEF IInv, Each, Phase, Range
  <2>. QED
    BY <2>1 DEF IInv, Each, Patched, Failed
<1>. QED
  BY <1>1, Invariant, PTL

\* What a message sync reports as a success is stored, whoever committed it
\* (_upsert_messages checks, adds, and is refused by the unique index).
THEOREM SuccessStores == Spec => []SuccessMeansStored
<1>1. IInv => SuccessMeansStored
  BY DEF IInv, Each, Stored, SuccessMeansStored
<1>. QED
  BY <1>1, Invariant, PTL
=============================================================================
