-------------------------- MODULE MirrorCopiesProofs -------------------------
(***************************************************************************)
(* Two promises of the syncs that rest on the order of their steps: the    *)
(* mirror of a population is replaced as a whole by something its source   *)
(* has said, and the message syncs do not deadlock.  Both follow from what *)
(* one step can make of a transaction.                                     *)
(***************************************************************************)
EXTENDS MirrorSyncProofs, WellFoundedInduction

-----------------------------------------------------------------------------
(* What a step makes of a transaction *)

Unstarted == {"idle", "fetch"}

Ended(w)   == session'[w].pc \in Unstarted
Fetched(w) ==
    /\ session[w].pc = "fetch" /\ session'[w].rest = session[w].rest
    /\ session'[w].got = said[Reads[Current(w)]] /\ session'[w].held = {}
    /\ session'[w].left \in WritesOf(Current(w), said[Reads[Current(w)]])
Kept(w) ==
    /\ session[w].pc \notin Unstarted
    /\ session'[w].rest = session[w].rest /\ session'[w].got = session[w].got
    /\ session'[w].left = session[w].left /\ session'[w].held = session[w].held
Advanced(w) ==
    /\ session[w].pc \in {"write", "insert"} /\ session[w].left # <<>>
    /\ session'[w].rest = session[w].rest /\ session'[w].got = session[w].got
    /\ session'[w].left = Tail(session[w].left)
    /\ session'[w].held \in {session[w].held, session[w].held \cup {Head(session[w].left)}}
Deleted(w) ==
    /\ session[w].pc = "deleting"
    /\ session'[w].rest = session[w].rest /\ session'[w].got = session[w].got

SessionMoves(w) == Ended(w) \/ Fetched(w) \/ Kept(w) \/ Advanced(w) \/ Deleted(w)

\* A worker that another one's step leaves alone.
LEMMA LeftAlone ==
    ASSUME NEW w \in Workers, SameWork(w)
    PROVE  SessionMoves(w)
BY DEF SameWork, SessionMoves, Ended, Kept, Unstarted

LEMMA WorkMoves ==
    ASSUME IInv, NEW u \in Workers, Work(u), NEW w \in Workers
    PROVE  SessionMoves(w)
<1>. /\ session \in [Workers -> Sessions] /\ session[u] \in Sessions /\ session[w] \in Sessions
  BY DEF IInv, Tables
<1>1. CASE Fetch(u)
  <2>1. CASE w = u
    <3>1. session[u].held = {}
      BY <1>1 DEF Fetch, IInv, Each, Phase
    <3>. QED
      BY <1>1, <2>1, <3>1 DEF Fetch, SessionMoves, Fetched, Sessions
  <2>2. CASE w # u
    <3>1. session'[w] = session[w]
      BY <1>1, <2>2 DEF Fetch
    <3>. QED
      BY <3>1 DEF SessionMoves, Ended, Kept
  <2>. QED
    BY <2>1, <2>2
<1>2. CASE WriteRow(u) \/ CheckMessage(u) \/ InsertMessage(u)
  <2>1. CASE w = u
    <3>1. CASE \E pc : Locked(u, Head(session[u].left), pc)
      <4>1. session[u].pc \in {"write", "insert"} /\ session[u].left # <<>>
        BY <1>2 DEF WriteRow, CheckMessage, InsertMessage, IInv, Each, Phase
      <4>. QED
        BY <2>1, <3>1, <4>1 DEF Locked, SessionMoves, Advanced, Sessions
    <3>2. CASE Passed(u)
      <4>1. session[u].pc \in {"write", "insert"} /\ session[u].left # <<>>
        BY <1>2 DEF WriteRow, CheckMessage, InsertMessage, IInv, Each, Phase
      <4>. QED
        BY <2>1, <3>2, <4>1 DEF Passed, SessionMoves, Advanced, Sessions
    <3>3. CASE session' = [session EXCEPT ![u].pc = "insert"] /\ session[u].pc = "write"
      BY <2>1, <3>3 DEF SessionMoves, Kept, Sessions, Unstarted
    <3>. QED
      BY <1>2, <3>1, <3>2, <3>3 DEF WriteRow, CheckMessage, InsertMessage
  <2>2. CASE w # u
    <3>1. session'[w] = session[w]
      BY <1>2, <2>2 DEF WriteRow, CheckMessage, InsertMessage, Locked, Passed
    <3>. QED
      BY <3>1 DEF SessionMoves, Ended, Kept
  <2>. QED
    BY <2>1, <2>2
<1>3. CASE DeleteBegin(u) \/ DeleteRows(u)
  <2>1. CASE w = u
    BY <1>3, <2>1 DEF DeleteBegin, DeleteRows, SessionMoves, Kept, Deleted, Sessions, Unstarted
  <2>2. CASE w # u
    <3>1. session'[w] = session[w]
      BY <1>3, <2>2 DEF DeleteBegin, DeleteRows
    <3>. QED
      BY <3>1 DEF SessionMoves, Ended, Kept
  <2>. QED
    BY <2>1, <2>2
<1>4. CASE Commit(u)
  <2>1. Proceed(u, Current(u), FALSE)
    BY <1>4 DEF Commit
  <2>2. CASE w = u
    BY <2>1, <2>2, IdleSession DEF Proceed, SessionMoves, Ended, Unstarted, Idle
  <2>3. CASE w # u
    BY <1>4, <2>1, <2>3, Proceeds, LeftAlone DEF Commit
  <2>. QED
    BY <2>2, <2>3
<1>5. CASE MessageConflict(u) \/ DeadlockVictim(u)
  <2>1. session' = [session EXCEPT ![u] = Idle]
    BY <1>5 DEF MessageConflict, DeadlockVictim, Rollback
  <2>. QED
    BY <2>1, IdleSession DEF SessionMoves, Ended, Kept, Unstarted
<1>. QED
  BY <1>1, <1>2, <1>3, <1>4, <1>5 DEF Work

LEMMA NextMoves ==
    ASSUME IInv, [Next]_vars, NEW w \in Workers
    PROVE  SessionMoves(w)
<1>. /\ session \in [Workers -> Sessions]
  BY DEF IInv, Tables
<1>1. ASSUME NEW u \in Workers, Work(u)
      PROVE  SessionMoves(w)
  BY <1>1, WorkMoves
<1>2. ASSUME NEW u \in Workers, FetchFails(u)
      PROVE  SessionMoves(w)
  <2>1. Proceed(u, Current(u), TRUE) /\ session[u].pc # "idle"
    BY <1>2 DEF FetchFails
  <2>2. CASE w = u
    BY <2>1, <2>2, IdleSession DEF Proceed, SessionMoves, Ended, Unstarted, Idle
  <2>3. CASE w # u
    BY <2>1, <2>3, Proceeds, LeftAlone
  <2>. QED
    BY <2>2, <2>3
<1>3. ASSUME NEW u \in Workers, Raise(u)
      PROVE  SessionMoves(w)
  <2>1. session' = [session EXCEPT ![u] = Idle]
    BY <1>3 DEF Raise, Rollback
  <2>. QED
    BY <2>1, IdleSession DEF SessionMoves, Ended, Kept, Unstarted
<1>4. ASSUME NEW u \in Workers, NEW j \in Jobs[u], Start(u, j)
      PROVE  SessionMoves(w)
  BY <1>4 DEF Start, SessionMoves, Ended, Kept, Unstarted, Idle
<1>5. ASSUME session' = session
      PROVE  SessionMoves(w)
  BY <1>5 DEF SessionMoves, Ended, Kept
<1>. QED
  BY <1>1, <1>2, <1>3, <1>4, <1>5 DEF Next, SourceChanges, vars

\* A source never takes back what it has said.
LEMMA SaidGrows ==
    ASSUME IInv, [Next]_vars, NEW k \in Sources
    PROVE  said[k] <= said'[k]
<1>1. said \in [Sources -> Nat]
  BY DEF IInv, Tables
<1>2. said' = said \/ \E src \in Sources : SourceChanges(src)
  BY DEF Next, Work, Start, Fetch, FetchFails, WriteRow, CheckMessage, InsertMessage,
         DeleteBegin, DeleteRows, Commit, Raise, MessageConflict, DeadlockVictim, vars
<1>3. ASSUME NEW src \in Sources, SourceChanges(src)
      PROVE  said[k] <= said'[k]
  BY <1>1, <1>3 DEF SourceChanges
<1>. QED
  BY <1>1, <1>2, <1>3

-----------------------------------------------------------------------------
(* What is fetched has been said, and the messages are written in order *)

Heard(w) == session[w].pc \notin Unstarted => session[w].got <= said[Reads[Current(w)]]

InOrder(w) ==
    Current(w) = "messages" /\ session[w].pc \in {"write", "insert"} =>
      /\ \A i, j \in DOMAIN session[w].left :
           i < j => session[w].left[i][2] < session[w].left[j][2]
      /\ \A c \in session[w].held : \A i \in DOMAIN session[w].left :
           c[2] < session[w].left[i][2]

Promises == IInv /\ \A w \in Workers : Heard(w) /\ InOrder(w)

LEMMA HeardStep ==
    ASSUME IInv, [Next]_vars, NEW w \in Workers, Heard(w)
    PROVE  Heard(w)'
<1>1. SessionMoves(w)
  BY NextMoves
<1>2. ASSUME session[w].pc # "idle"
      PROVE  /\ Current(w) \in Syncs /\ Reads[Current(w)] \in Sources
             /\ said[Reads[Current(w)]] \in Nat /\ session[w].got \in Nat
             /\ said'[Reads[Current(w)]] \in Nat
             /\ said[Reads[Current(w)]] <= said'[Reads[Current(w)]]
  <2>1. session[w] \in Sessions /\ session[w].rest # <<>>
    BY <1>2 DEF IInv, Each, Phase
  <2>2. Current(w) \in Syncs
    BY <2>1, HeadAndTail DEF Current, Sessions
  <2>3. said \in [Sources -> Nat] /\ said' \in [Sources -> Nat]
    BY NextStep DEF IInv, Tables
  <2>. QED
    BY <2>1, <2>2, <2>3, Names, SaidGrows DEF Sessions
<1>3. CASE Ended(w)
  BY <1>3 DEF Ended, Heard
<1>4. CASE Fetched(w)
  BY <1>2, <1>4 DEF Fetched, Heard, Current
<1>5. CASE Kept(w) \/ Advanced(w) \/ Deleted(w)
  BY <1>2, <1>5 DEF Kept, Advanced, Deleted, Heard, Current, Unstarted
<1>. QED
  BY <1>1, <1>3, <1>4, <1>5 DEF SessionMoves

LEMMA InOrderStep ==
    ASSUME IInv, [Next]_vars, NEW w \in Workers, InOrder(w)
    PROVE  InOrder(w)'
<1>. DEFINE n == session[w]
<1>1. SessionMoves(w)
  BY NextMoves
<1>. SUFFICES ASSUME Current(w)' = "messages", session'[w].pc \in {"write", "insert"}
              PROVE  /\ \A i, j \in DOMAIN session'[w].left :
                          i < j => session'[w].left[i][2] < session'[w].left[j][2]
                     /\ \A c \in session'[w].held : \A i \in DOMAIN session'[w].left :
                          c[2] < session'[w].left[i][2]
  BY DEF InOrder
<1>2. CASE Ended(w)
  BY <1>2 DEF Ended, Unstarted
<1>3. CASE Fetched(w)
  <2>1. Current(w) = "messages"
    BY <1>3 DEF Fetched, Current
  <2>2. /\ n \in Sessions /\ n.rest # <<>>
        /\ said["ghl"] \in Nat /\ Reads["messages"] = "ghl" /\ "messages" \in Syncs
    BY <1>3, Names DEF IInv, Tables, Each, Phase, Fetched
  <2>3. session'[w].left \in WritesOf("messages", said["ghl"]) /\ session'[w].held = {}
    BY <1>3, <2>1, <2>2 DEF Fetched
  <2>4. \A i \in DOMAIN session'[w].left : session'[w].left[i][2] = i
    BY <2>3 DEF WritesOf, InTurn
  <2>5. DOMAIN session'[w].left \subseteq Nat
    BY <2>2, <2>3, OrderOfRows, LenProperties
  <2>. QED
    BY <2>3, <2>4, <2>5
<1>4. CASE Kept(w)
  <2>1. Current(w) = "messages"
    BY <1>4 DEF Kept, Current
  <2>2. CASE n.pc \in {"write", "insert"}
    BY <1>4, <2>1, <2>2 DEF Kept, InOrder
  <2>3. CASE n.pc \notin {"write", "insert"}
    <3>1. n.pc \in {"delete", "deleting"}
      BY <1>4, <2>3 DEF Kept, Unstarted, IInv, Each, Phase, Sessions, Phases
    <3>. QED
      BY <2>1, <3>1 DEF IInv, Each, Phase
  <2>. QED
    BY <2>2, <2>3
<1>5. CASE Advanced(w)
  <2>1. Current(w) = "messages" /\ n.pc \in {"write", "insert"} /\ n.left # <<>>
    BY <1>5 DEF Advanced, Current
  <2>2. /\ n.left \in Seq(RowsOf("messages", n.got)) /\ n.got \in Nat /\ "messages" \in Syncs
        /\ n.held \subseteq RowsOf("messages", n.got)
    BY <2>1, Writing
  <2>3. RowsOf("messages", n.got) = {"message"} \X (1 .. n.got)
    BY <2>2, RowFacts
  <2>4. /\ \A i \in DOMAIN Tail(n.left) : i + 1 \in DOMAIN n.left /\ Tail(n.left)[i] = n.left[i + 1]
        /\ Len(n.left) \in Nat \ {0}
    BY <2>1, <2>2, HeadAndTail
  <2>5. /\ Head(n.left) = n.left[1] /\ 1 \in DOMAIN n.left /\ DOMAIN n.left \subseteq Nat
        /\ DOMAIN Tail(n.left) \subseteq Nat \ {0}
    <3>1. Tail(n.left) \in Seq(RowsOf("messages", n.got))
      BY <2>1, <2>2, HeadAndTail
    <3>2. /\ DOMAIN n.left = 1 .. Len(n.left)
          /\ DOMAIN Tail(n.left) = 1 .. Len(Tail(n.left)) /\ Len(Tail(n.left)) \in Nat
      BY <2>2, <3>1, LenProperties
    <3>3. Head(n.left) = n.left[1]
      OBVIOUS
    <3>. QED
      BY <2>4, <3>2, <3>3
  <2>6. ASSUME NEW i \in DOMAIN Tail(n.left), NEW j \in DOMAIN Tail(n.left), i < j
        PROVE  Tail(n.left)[i][2] < Tail(n.left)[j][2]
    <3>1. i + 1 < j + 1
      BY <2>5, <2>6
    <3>. QED
      BY <2>1, <2>4, <3>1 DEF InOrder
  <2>7. ASSUME NEW c \in n.held \cup {Head(n.left)}, NEW i \in DOMAIN Tail(n.left)
        PROVE  c[2] < Tail(n.left)[i][2]
    <3>1. CASE c \in n.held
      BY <2>1, <2>4, <3>1 DEF InOrder
    <3>2. CASE c = Head(n.left)
      <4>1. 1 < i + 1
        BY <2>5
      <4>. QED
        BY <2>1, <2>4, <2>5, <3>2, <4>1 DEF InOrder
    <3>. QED
      BY <3>1, <3>2
  <2>. QED
    BY <1>5, <2>6, <2>7 DEF Advanced
<1>6. CASE Deleted(w)
  <2>1. Current(w) = "messages"
    BY <1>6 DEF Deleted, Current
  <2>. QED
    BY <1>6, <2>1 DEF Deleted, IInv, Each, Phase
<1>. QED
  BY <1>1, <1>2, <1>3, <1>4, <1>5, <1>6 DEF SessionMoves

LEMMA PromisesKept == Spec => []Promises
<1>1. Init => Promises
  <2>1. ASSUME Init, NEW w \in Workers
        PROVE  session[w].pc = "idle"
    BY <2>1, IdleSession DEF Init
  <2>. QED
    BY <2>1, InitHolds DEF Promises, Heard, InOrder, Unstarted
<1>2. Promises /\ [Next]_vars => Promises'
  BY NextStep, HeardStep, InOrderStep DEF Promises
<1>. QED
  BY <1>1, <1>2, PTL DEF Spec

-----------------------------------------------------------------------------
(* The copy of a population *)


\* A commit leaves the rows of a population as they are or gives all of them the version
\* it fetched, which the source of the population has said.
LEMMA Replaces ==
    ASSUME Promises, NEW w \in Workers, Commit(w), NEW p \in Populations
    PROVE  \/ Copied(p)' = Copied(p)
           \/ /\ \E v \in 1 .. said[Origin(p)] : Copied(p)' = {v}
              /\ \A q \in Populations \ {p} : Copied(q)' = Copied(q)
<1>. DEFINE k == Current(w)
            v == session[w].got
            whole == [jrp |-> "mssql", ipbc |-> "ipbc"]
<1>1. k \in Syncs /\ v \in Nat /\ v \in 1 .. MaxVersion[Reads[k]] /\ v <= said[Reads[k]]
  BY Writing DEF Commit, Promises, Heard, Unstarted
<1>2. \A s \in Students : mirror'[s].data = IF FullSync(k, s) THEN v ELSE mirror[s].data
  BY CommittedRows DEF Promises
<1>3. /\ \A q \in Populations : Members(q) \subseteq Students
      /\ Reads["mssql"] = "trigger" /\ Reads["ipbc"] = "ipbc" /\ JRP \cap IPBC = {}
  BY Names, SyncAssumption DEF Members, Populations, Students, Reads
<1>4. ASSUME NEW q \in Populations, k # whole[q]
      PROVE  Copied(q)' = Copied(q)
  <2>1. \A s \in Members(q) : ~FullSync(k, s)
    BY <1>3, <1>4 DEF FullSync, Members, Populations
  <2>2. \A s \in Members(q) : mirror'[s].data = mirror[s].data
    BY <1>2, <1>3, <2>1
  <2>3. {mirror'[s].data : s \in Members(q)} = {mirror[s].data : s \in Members(q)}
    BY <2>2
  <2>. QED
    BY <2>3 DEF Copied
<1>5. CASE k # whole[p]
  BY <1>4, <1>5
<1>6. CASE k = whole[p] /\ Members(p) = {}
  BY <1>6 DEF Copied
<1>7. CASE k = whole[p] /\ Members(p) # {}
  <2>1. \A s \in Members(p) : FullSync(k, s)
    BY <1>7 DEF FullSync, Members, Populations
  <2>2. \A s \in Members(p) : mirror'[s].data = v
    BY <1>2, <1>3, <2>1
  <2>3. {mirror'[s].data : s \in Members(p)} = {v}
    BY <1>7, <2>2
  <2>4. Copied(p)' = {v}
    BY <1>7, <2>3 DEF Copied
  <2>5. Reads[k] = Origin(p)
    BY <1>3, <1>7 DEF Origin, Populations
  <2>6. v \in 1 .. said[Origin(p)]
    <3>1. said[Reads[k]] \in Nat
      BY <1>1, Names DEF Promises, IInv, Tables
    <3>. QED
      BY <1>1, <2>5, <3>1
  <2>7. \A q \in Populations \ {p} : k # whole[q]
    BY <1>7 DEF Populations
  <2>. QED
    BY <1>4, <2>4, <2>6, <2>7
<1>. QED
  BY <1>5, <1>6, <1>7

\* Each sync of a population replaces its copy as a whole by something its source has said
\* (PopulationCopies): row-by-row writes, waits, rollbacks and other syncs' commits are
\* invisible.
THEOREM ImplementsCopies == Spec => CopiesSpec
<1>. DEFINE source == [p \in Populations |-> said[Origin(p)]]
            copy   == [p \in Populations |-> Copied(p)]
<1>0. \A p \in Populations : Origin(p) \in Sources
  BY Names DEF Origin, Sources, Reads
<1>1. Init => Copies!Init
  <2>. SUFFICES ASSUME Init PROVE Copies!Init
    OBVIOUS
  <2>1. ASSUME NEW p \in Populations PROVE said[Origin(p)] = 1 /\ Copied(p) = {0}
    <3>1. \A s \in Members(p) : mirror[s].data = 0
      BY DEF Init, Members, Students
    <3>2. Members(p) # {} => {mirror[s].data : s \in Members(p)} = {0}
      BY <3>1
    <3>. QED
      BY <1>0, <3>2 DEF Init, Copied
  <2>. QED
    BY <2>1 DEF Copies!Init
<1>2. Promises /\ Promises' /\ [Next]_vars => [Copies!Next]_<<source, copy>>
  <2>. SUFFICES ASSUME Promises, [Next]_vars
                PROVE  Copies!Next \/ UNCHANGED <<source, copy>>
    OBVIOUS
  <2>1. CASE UNCHANGED <<said, mirror>>
    <3>1. \A p \in Populations : Copied(p)' = Copied(p)
      BY <2>1 DEF Copied
    <3>. QED
      BY <2>1, <3>1
  <2>2. ASSUME NEW w \in Workers, Commit(w)
        PROVE  Copies!Next \/ UNCHANGED <<source, copy>>
    <3>1. UNCHANGED source
      BY <2>2 DEF Commit
    <3>2. CASE \A p \in Populations : Copied(p)' = Copied(p)
      BY <3>1, <3>2
    <3>3. CASE \E p \in Populations : Copied(p)' # Copied(p)
      <4>1. PICK p \in Populations : Copied(p)' # Copied(p)
        BY <3>3
      <4>2. PICK v \in 1 .. said[Origin(p)] :
              Copied(p)' = {v} /\ \A q \in Populations \ {p} : Copied(q)' = Copied(q)
        BY <2>2, <4>1, Replaces
      <4>3. copy' = [copy EXCEPT ![p] = {v}]
        BY <4>2
      <4>. QED
        BY <3>1, <4>2, <4>3 DEF Copies!Next, Copies!Replace
    <3>. QED
      BY <3>2, <3>3
  <2>3. ASSUME NEW src \in Sources, SourceChanges(src)
        PROVE  Copies!Next \/ UNCHANGED <<source, copy>>
    <3>1. /\ said[src] < MaxVersion[src] /\ said' = [said EXCEPT ![src] = @ + 1]
          /\ mirror' = mirror /\ said \in [Sources -> Nat]
      BY <2>3 DEF SourceChanges, tables, Promises, IInv, Tables
    <3>2. UNCHANGED copy
      BY <3>1 DEF Copied
    <3>3. CASE \A p \in Populations : Origin(p) # src
      <4>1. \A p \in Populations : said'[Origin(p)] = said[Origin(p)]
        BY <3>1, <3>3
      <4>. QED
        BY <3>2, <4>1
    <3>4. CASE \E p \in Populations : Origin(p) = src
      <4>1. PICK p \in Populations : Origin(p) = src
        BY <3>4
      <4>2. \A q \in Populations \ {p} : Origin(q) # src
        BY <4>1 DEF Origin, Populations
      <4>3. source' = [source EXCEPT ![p] = @ + 1]
        <5>1. said'[Origin(p)] = said[Origin(p)] + 1
          BY <3>1, <4>1
        <5>2. \A q \in Populations \ {p} : said'[Origin(q)] = said[Origin(q)]
          BY <1>0, <3>1, <4>2
        <5>. QED
          BY <5>1, <5>2
      <4>. QED
        BY <3>1, <3>2, <4>1, <4>3 DEF Copies!Next, Copies!Speak
    <3>. QED
      BY <3>3, <3>4
  <2>4. UNCHANGED <<said, mirror>> \/ (\E w \in Workers : Commit(w))
          \/ (\E src \in Sources : SourceChanges(src))
    BY DEF Next, Work, Start, Fetch, FetchFails, WriteRow, CheckMessage, InsertMessage,
           DeleteBegin, DeleteRows, Raise, MessageConflict, DeadlockVictim, vars, tables
  <2>. QED
    BY <2>1, <2>2, <2>3, <2>4
<1>. QED
  BY PromisesKept, <1>1, <1>2, PTL DEF Spec, CopiesSpec, Copies!Spec

-----------------------------------------------------------------------------
(* Who deadlocks *)

\* Whoever waits for whom, no message sync is among those that wait for each other.
MessagesNeverDeadlock ==
    \A S \in SUBSET Workers : Waiting(S) => \A w \in S : Current(w) # "messages"

\* The message a sync is about to insert.
Wanted(w) == Head(session[w].left)[2]

LEMMA Largest ==
    ASSUME NEW n \in Nat, NEW T, T \subseteq 0 .. n, T # {}
    PROVE  \E x \in T : \A y \in T : y <= x
<1>. DEFINE R == OpToRel(<, Nat)
            U == {n - y : y \in T}
<1>1. U \subseteq Nat /\ U # {}
  <2>1. \A y \in T : n - y \in Nat
    OBVIOUS
  <2>2. U # {}
    OBVIOUS
  <2>. QED
    BY <2>1, <2>2
<1>2. PICK m \in U : \A y \in U : ~(<<y, m>> \in R)
  BY <1>1, NatLessThanWellFounded, WFMin
<1>3. PICK x \in T : m = n - x
  OBVIOUS
<1>4. ASSUME NEW y \in T, y > x
      PROVE  FALSE
  <2>1. n - y \in U /\ n - y \in Nat /\ m \in Nat /\ n - y < m
    BY <1>1, <1>3, <1>4
  <2>2. <<n - y, m>> \in R
    BY <2>1 DEF OpToRel
  <2>. QED
    BY <1>2, <2>1, <2>2
<1>. QED
  BY <1>3, <1>4

\* A message sync waits for an earlier message than the one its holder waits for.
LEMMA WaitsAscend ==
    ASSUME Promises, NEW w \in Workers, NEW u \in Workers,
           Current(w) = "messages", WaitsFor(w, u)
    PROVE  /\ Current(u) = "messages" /\ Wanted(w) \in 1 .. MaxVersion["ghl"]
           /\ \A x \in Workers : WaitsFor(u, x) => Wanted(w) < Wanted(u)
<1>. DEFINE n == session[w]
            c == Head(n.left)
<1>1. /\ n.left # <<>> /\ c \in session[u].held
      /\ n.pc = IF c[1] = "message" THEN "insert" ELSE "write"
  <2>1. n.pc # "deleting"
    BY DEF Promises, IInv, Each, Phase
  <2>. QED
    BY <2>1 DEF WaitsFor
<1>2. /\ n.got \in 1 .. MaxVersion["ghl"] /\ n.got \in Nat
      /\ n.left \in Seq({"message"} \X (1 .. n.got))
  <2>1. /\ n.pc \in {"write", "insert"} /\ Reads["messages"] = "ghl" /\ "messages" \in Syncs
    BY <1>1, Names
  <2>2. /\ n.got \in 1 .. MaxVersion["ghl"] /\ n.got \in Nat
        /\ n.left \in Seq(RowsOf("messages", n.got))
    BY <2>1, Writing DEF Promises
  <2>3. RowsOf("messages", n.got) = {"message"} \X (1 .. n.got)
    BY <2>1, <2>2, RowFacts
  <2>. QED
    BY <2>2, <2>3
<1>3. c \in {"message"} \X (1 .. n.got)
  BY <1>1, <1>2, HeadAndTail
<1>4. session[u].pc \in {"write", "insert"} /\ session[u].held \subseteq RowsHeld(u)
  BY <1>1 DEF Promises, IInv, Each, Phase
<1>5. Current(u) \in Syncs /\ session[u].got \in Nat
  BY <1>4, Writing DEF Promises
<1>6. Current(u) = "messages"
  <2>1. Current(u) # "campaign"
    BY <1>1, <1>3, <1>4 DEF RowsHeld, Events
  <2>2. c \in RowsOf(Current(u), session[u].got) /\ c[1] = "message"
    BY <1>1, <1>3, <1>4, <2>1 DEF RowsHeld
  <2>. QED
    BY <1>5, <2>2, RowFacts
<1>7. Wanted(w) \in 1 .. MaxVersion["ghl"]
  <2>1. MaxVersion["ghl"] \in Nat
    BY SyncAssumption, Names
  <2>. QED
    BY <1>2, <1>3, <2>1 DEF Wanted
<1>8. ASSUME NEW x \in Workers, WaitsFor(u, x)
      PROVE  Wanted(w) < Wanted(u)
  <2>1. session[u].left # <<>>
    BY <1>4, <1>8 DEF WaitsFor
  <2>2. session[u].left \in Seq(RowsOf(Current(u), session[u].got))
    BY <1>4, Writing DEF Promises
  <2>3. 1 \in DOMAIN session[u].left /\ Head(session[u].left) = session[u].left[1]
    BY <2>1, <2>2, HeadAndTail, LenProperties
  <2>. QED
    BY <1>1, <1>4, <1>6, <2>3 DEF Promises, InOrder, Wanted
<1>. QED
  BY <1>6, <1>7, <1>8

\* _upsert_messages inserts in the order of GHL's answer, so a sync holds only earlier
\* messages than it waits for: PostgreSQL never has to end one to break a cycle, for any
\* number of syncs and messages.
THEOREM MessagesOutOfDeadlocks == Spec => []MessagesNeverDeadlock
<1>1. Promises => MessagesNeverDeadlock
  <2>. SUFFICES ASSUME Promises, NEW S \in SUBSET Workers, Waiting(S),
                       NEW o \in S, Current(o) = "messages"
                PROVE  FALSE
    BY DEF MessagesNeverDeadlock
  <2>. DEFINE M == {w \in S : Current(w) = "messages"}
              T == {Wanted(w) : w \in M}
  <2>1. ASSUME NEW w \in M
        PROVE  Wanted(w) \in 1 .. MaxVersion["ghl"] /\ \E u \in M : Wanted(w) < Wanted(u)
    <3>1. PICK u \in S : WaitsFor(w, u)
      BY DEF Waiting
    <3>2. PICK x \in S : WaitsFor(u, x)
      BY DEF Waiting
    <3>3. u \in M /\ Wanted(w) \in 1 .. MaxVersion["ghl"] /\ Wanted(w) < Wanted(u)
      BY <3>1, <3>2, WaitsAscend
    <3>. QED
      BY <3>3
  <2>2. MaxVersion["ghl"] \in Nat
    BY SyncAssumption, Names
  <2>3. T \subseteq 0 .. MaxVersion["ghl"] /\ T # {}
    BY <2>1, <2>2
  <2>4. PICK t \in T : \A y \in T : y <= t
    BY <2>2, <2>3, Largest
  <2>5. PICK w \in M : t = Wanted(w)
    OBVIOUS
  <2>6. PICK u \in M : Wanted(w) < Wanted(u)
    BY <2>1
  <2>7. Wanted(u) \in Nat /\ Wanted(w) \in Nat /\ Wanted(u) <= Wanted(w)
    BY <2>1, <2>2, <2>4, <2>5
  <2>. QED
    BY <2>6, <2>7
<1>. QED
  BY <1>1, PromisesKept, PTL
=============================================================================
