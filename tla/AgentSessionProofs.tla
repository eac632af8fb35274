------------------------- MODULE AgentSessionProofs -------------------------
(***************************************************************************)
(* Theorems about AgentSession, for any sessions, posts, readers and       *)
(* limits.                                                                 *)
(***************************************************************************)
EXTENDS AgentSession, FiniteSetTheorems, SequenceTheorems, TLAPS

MessageRow == [role : Role, run : Posts]

\* What p recorded is in the row of its artifact's id, or somebody else used the id.
OwnRow(p) == artifacts[given[p]] = [run |-> p, of |-> p]
Recorded(p) ==
    given[p] # None /\ artifacts[given[p]] # None /\ (OwnRow(p) \/ Shared(p))

\* How far a post, its run and its work have come together.
PostOK(p) ==
    /\ pc[p] \in {"new", "open", "stamp", "row"} => runs[p] = "none"
    /\ pc[p] \in {"open", "stamp", "row"} => ask[p] # None
    /\ pc[p] \in {"stamp", "row"} => ask[p].session \in Sessions
    /\ pc[p] \in {"publish", "message", "insert", "channel", "done"} => runs[p] # "none"
    /\ pc[p] = "publish" => work[p] = "none"
    /\ pc[p] \in {"message", "insert", "channel", "done"} => work[p] # "none"
    /\ runs[p] # "none" => ask[p] # None /\ ask[p].session \in Sessions
    /\ work[p] # "none" => runs[p] # "none"
    /\ work[p] \in {"none", "waiting", "running"} => given[p] = None
    /\ work[p] \in {"stored", "replying", "replied"} \/ runs[p] = "succeeded" => Recorded(p)

Stored(p) == \E j \in committed : messages[j] = [role |-> "user", run |-> p]

MessagesOK ==
    /\ \A i \in DOMAIN messages : work[messages[i].run] # "none"
    /\ \A p \in channel_messages : Stored(p)
    /\ \A p \in Posts : pc[p] = "channel" => Stored(p)

\* What a reader has put together so far.
ReaderOK(c) ==
    /\ step[c] # "new" => shown[c] # None /\ work[shown[c].own] # "none"
    /\ step[c] \in {"item", "return"} =>
          /\ \/ shown[c].run = shown[c].own
             \/ BeyondLimit(shown[c]) /\ (shown[c].run = None \/ shown[c].role = "user")
          /\ shown[c].run # None => runs[shown[c].run] # "none"
          /\ shown[c].status = "succeeded" => shown[c].run # None /\ Recorded(shown[c].run)
    /\ step[c] = "return" /\ shown[c].status = "succeeded" =>
          shown[c].run \in shown[c].artifacts \/ Shared(shown[c].run)

Inv ==
    /\ TypeOK
    /\ \A p \in Posts : PostOK(p)
    /\ MessagesOK
    /\ \A c \in Readers : ReaderOK(c)

\* It holds initially.
LEMMA InvInit == Init => Inv
<1> SUFFICES ASSUME Init PROVE Inv
  OBVIOUS
<1>1. TypeOK
  BY DEF Init, TypeOK
<1>2. \A p \in Posts : PostOK(p)
  BY DEF Init, PostOK, ArtifactIds
<1>3. MessagesOK
  BY DEF Init, MessagesOK
<1>4. \A c \in Readers : ReaderOK(c)
  BY DEF Init, ReaderOK
<1> QED
  BY <1>1, <1>2, <1>3, <1>4 DEF Inv

-----------------------------------------------------------------------------
(* The types.                                                              *)

\* A timestamp is not taken back.
LEMMA CreatedLater ==
    ASSUME TypeOK, clock' = clock + 1
    PROVE  /\ clock' \in Nat
           /\ \A p \in Posts : created[p] \in 0..clock'
           /\ clock + 1 \in 0..clock'
BY DEF TypeOK

\* What an insert and its commit do to the table.
LEMMA Inserted ==
    ASSUME TypeOK, NEW role \in Role, NEW p \in Posts, Insert(role, p)
    PROVE  /\ messages' \in Seq(MessageRow) /\ committed' = committed
           /\ DOMAIN messages = 1..Len(messages) /\ Len(messages) \in Nat
           /\ DOMAIN messages' = 1..(Len(messages) + 1)
           /\ \A i \in DOMAIN messages : messages'[i] = messages[i]
           /\ messages'[Len(messages) + 1] = [role |-> role, run |-> p]
           /\ committed' \subseteq DOMAIN messages'
<1> DEFINE new == [role |-> role, run |-> p]
<1>1. messages \in Seq(MessageRow) /\ new \in MessageRow
  BY DEF TypeOK, MessageRow
<1>2. messages' = Append(messages, new) /\ committed' = committed
  BY DEF Insert
<1>3. committed \subseteq DOMAIN messages
  BY DEF TypeOK
<1> HIDE DEF new
<1>4. /\ messages' \in Seq(MessageRow) /\ Len(messages') = Len(messages) + 1
      /\ \A i \in 1..Len(messages) : messages'[i] = messages[i]
      /\ messages'[Len(messages) + 1] = new
      /\ DOMAIN messages = 1..Len(messages) /\ Len(messages) \in Nat
  BY <1>1, <1>2, AppendProperties
<1>5. DOMAIN messages' = 1..(Len(messages) + 1)
  BY <1>4, LenProperties
<1>6. committed' \subseteq DOMAIN messages'
  BY <1>2, <1>3, <1>4, <1>5
<1> QED
  BY <1>2, <1>4, <1>5, <1>6 DEF new

LEMMA Committed ==
    ASSUME TypeOK, NEW role \in Role, NEW p \in Posts, Commit(role, p)
    PROVE  /\ messages' = messages
           /\ committed \subseteq committed' /\ committed' \subseteq DOMAIN messages
           /\ \E i \in DOMAIN messages :
                 messages[i] = [role |-> role, run |-> p] /\ committed' = committed \cup {i}
BY DEF TypeOK, Commit

\* What is written to the table of artifacts is a row.
LEMMA ArtifactTyped ==
    ASSUME TypeOK, NEW id \in ArtifactIds, NEW r \in Posts \cup Strangers, RecordArtifact(id, r)
    PROVE  /\ artifacts' \in [ArtifactIds -> ArtifactRow \cup {None}]
           /\ artifacts'[id] \in ArtifactRow /\ artifacts'[id].of = r
           /\ artifacts[id] = None => artifacts'[id].run = r
           /\ \A a \in ArtifactIds : a # id => artifacts'[a] = artifacts[a]
<1> DEFINE row == [run |-> IF artifacts[id] = None THEN r ELSE artifacts[id].run, of |-> r]
<1>1. artifacts \in [ArtifactIds -> ArtifactRow \cup {None}]
  BY DEF TypeOK
<1>2. artifacts[id] # None => artifacts[id].run \in Posts \cup Strangers
  BY <1>1 DEF ArtifactRow
<1>3. row \in ArtifactRow /\ row.of = r /\ (artifacts[id] = None => row.run = r)
  BY <1>2 DEF ArtifactRow
<1>4. artifacts' = [artifacts EXCEPT ![id] = row]
  BY DEF RecordArtifact
<1> HIDE DEF row
<1> QED
  BY <1>1, <1>3, <1>4

\* The steps of the gateway keep the types.
LEMMA TypeGateway ==
    ASSUME Inv, NEW p \in Posts, Accept(p) \/ Gateway(p) \/ Fail(p)
    PROVE  TypeOK'
<1> USE DEF Inv, TypeOK, reading, chat, working
<1>1. CASE Accept(p)
  BY <1>1 DEF Accept, tables
<1>2. CASE OpenForChannel(p)
  <2>1. ask[p] \in Request
    BY <1>2 DEF PostOK, OpenForChannel
  <2>2. \A s \in Sessions : [ask[p] EXCEPT !.session = s] \in Request
    BY <2>1 DEF Request
  <2>3. ask' \in [Posts -> Request \cup {None}]
    BY <1>2, <2>2 DEF OpenForChannel
  <2> QED
    BY <1>2, <2>3 DEF OpenForChannel
<1>3. CASE Stamp(p)
  BY <1>3, CreatedLater DEF Stamp
<1>4. CASE InsertRun(p)
  BY <1>4 DEF InsertRun, RunStatus
<1>5. CASE Publish(p)
  BY <1>5 DEF Publish, tables
<1>6. CASE InsertQuestion(p)
  <2>1. Insert("user", p)
    BY <1>6 DEF InsertQuestion
  <2>2. messages' \in Seq(MessageRow) /\ committed' \subseteq DOMAIN messages'
    BY <2>1, Inserted DEF Role
  <2> QED
    BY <1>6, <2>2 DEF InsertQuestion, MessageRow
<1>7. CASE CommitQuestion(p)
  <2>1. messages' = messages /\ committed' \subseteq DOMAIN messages
    BY <1>7, Committed DEF CommitQuestion, Role
  <2> QED
    BY <1>7, <2>1 DEF CommitQuestion
<1>8. CASE RecordChannel(p)
  BY <1>8 DEF RecordChannel
<1>9. CASE Fail(p)
  BY <1>9 DEF Fail
<1> QED
  BY <1>1, <1>2, <1>3, <1>4, <1>5, <1>6, <1>7, <1>8, <1>9 DEF Gateway

\* So do those of a worker.
LEMMA TypeWorker ==
    ASSUME Inv, NEW p \in Posts, Worker(p)
    PROVE  TypeOK'
<1> USE DEF Inv, TypeOK, reading, posting, chat
<1>1. CASE Start(p)
  BY <1>1 DEF Start, RunStatus
<1>2. CASE RecordArtifacts(p)
  <2>1. PICK id \in {p} \cup AgentIds :
          RecordArtifact(id, p) /\ given' = [given EXCEPT ![p] = id]
    BY <1>2 DEF RecordArtifacts
  <2>2. id \in ArtifactIds
    BY DEF ArtifactIds
  <2>3. artifacts' \in [ArtifactIds -> ArtifactRow \cup {None}]
    BY <2>1, <2>2, ArtifactTyped
  <2>4. given' \in [Posts -> ArtifactIds \cup {None}]
    BY <2>1, <2>2
  <2> QED
    BY <1>2, <2>3, <2>4 DEF RecordArtifacts
<1>3. CASE InsertResponse(p)
  <2>1. Insert("assistant", p)
    BY <1>3 DEF InsertResponse
  <2>2. messages' \in Seq(MessageRow) /\ committed' \subseteq DOMAIN messages'
    BY <2>1, Inserted DEF Role
  <2> QED
    BY <1>3, <2>2 DEF InsertResponse, MessageRow
<1>4. CASE CommitResponse(p)
  <2>1. messages' = messages /\ committed' \subseteq DOMAIN messages
    BY <1>4, Committed DEF CommitResponse, Role
  <2> QED
    BY <1>4, <2>1 DEF CommitResponse
<1>5. CASE Succeed(p)
  BY <1>5 DEF Succeed, RunStatus
<1>6. CASE EndOtherwise(p)
  BY <1>6 DEF EndOtherwise, RunStatus
<1> QED
  BY <1>1, <1>2, <1>3, <1>4, <1>5, <1>6 DEF Worker

\* What is linked to a message is a run, or nothing.
LEMMA LinkedType ==
    ASSUME NEW role, NEW p \in Posts
    PROVE  Linked(role, p) \subseteq Posts \cup {None}
BY DEF Linked, RunsFound, SameText, Latest

\* What the steps of a reader make of its item.
LEMMA MessageRead ==
    ASSUME Inv, NEW c \in Readers, ReadMessages(c)
    PROVE  \E i \in committed :
              /\ messages[i] \in MessageRow
              /\ shown' = [shown EXCEPT ![c] =
                    [role |-> messages[i].role, own |-> messages[i].run,
                     run |-> None, status |-> "none", artifacts |-> {}]]
              /\ shown'[c] \in Item
              /\ shown'[c].own = messages[i].run
<1>1. PICK i \in committed :
        shown' = [shown EXCEPT ![c] =
            [role |-> messages[i].role, own |-> messages[i].run,
             run |-> None, status |-> "none", artifacts |-> {}]]
  BY DEF ReadMessages
<1>2. messages[i] \in MessageRow
  <2>1. messages \in Seq(MessageRow) /\ i \in DOMAIN messages
    BY DEF Inv, TypeOK, MessageRow
  <2> QED
    BY <2>1, ElementOfSeq, LenProperties
<1> DEFINE new == [role |-> messages[i].role, own |-> messages[i].run,
                   run |-> None, status |-> "none", artifacts |-> {}]
<1>3. new \in Item /\ new.own = messages[i].run
  BY <1>2 DEF Item, MessageRow
<1>4. shown'[c] = new
  BY <1>1 DEF Inv, TypeOK
<1> QED
  BY <1>1, <1>2, <1>3, <1>4

\* The query of the runs.
LEMMA RunsRead ==
    ASSUME Inv, NEW c \in Readers, ReadRuns(c)
    PROVE  /\ shown[c] \in Item
           /\ shown' \in [Readers -> Item \cup {None}]
           /\ shown'[c] \in Item
           /\ shown'[c].own = shown[c].own /\ shown'[c].role = shown[c].role
           /\ shown'[c].run \in Linked(shown[c].role, shown[c].own)
           /\ shown'[c].status = IF shown'[c].run = None THEN "none" ELSE runs[shown'[c].run]
           /\ \A d \in Readers : d # c => shown'[d] = shown[d]
<1>1. shown \in [Readers -> Item \cup {None}] /\ shown[c] \in Item
  BY DEF Inv, TypeOK, ReaderOK, ReadRuns
<1>2. PICK r \in Linked(shown[c].role, shown[c].own) :
        shown' = [shown EXCEPT ![c].run = r,
                               ![c].status = IF r = None THEN "none" ELSE runs[r]]
  BY DEF ReadRuns
<1> DEFINE status == IF r = None THEN "none" ELSE runs[r]
           new == [[shown[c] EXCEPT !.run = r] EXCEPT !.status = status]
<1>3. r \in Posts \cup {None}
  BY <1>1, LinkedType DEF Item
<1>4. status \in RunStatus \cup {"none"}
  BY <1>3 DEF Inv, TypeOK
<1>5. shown' = [shown EXCEPT ![c] = new]
  BY <1>1, <1>2
<1>6. /\ new \in Item /\ new.run = r /\ new.status = status
      /\ new.own = shown[c].own /\ new.role = shown[c].role
  <2> HIDE DEF status
  <2> QED
    BY <1>1, <1>3, <1>4 DEF Item
<1> HIDE DEF new
<1> QED
  BY <1>1, <1>5, <1>6

\* The query of the artifacts.
LEMMA ArtifactsRead ==
    ASSUME Inv, NEW c \in Readers, Enrich(c)
    PROVE  /\ shown[c] \in Item
           /\ shown' \in [Readers -> Item \cup {None}]
           /\ shown'[c] \in Item
           /\ shown'[c].own = shown[c].own /\ shown'[c].role = shown[c].role
           /\ shown'[c].run = shown[c].run /\ shown'[c].status = shown[c].status
           /\ shown'[c].artifacts =
                 {row.of : row \in {artifacts[a] : a \in ListArtifacts(shown[c].run)}}
           /\ \A d \in Readers : d # c => shown'[d] = shown[d]
<1>1. shown \in [Readers -> Item \cup {None}] /\ shown[c] \in Item
  BY DEF Inv, TypeOK, ReaderOK, Enrich
<1> DEFINE found == {row.of : row \in {artifacts[a] : a \in ListArtifacts(shown[c].run)}}
           new == [shown[c] EXCEPT !.artifacts = found]
<1>2. found \in SUBSET (Posts \cup Strangers)
  BY DEF ListArtifacts, Inv, TypeOK, ArtifactRow
<1>3. shown' = [shown EXCEPT ![c] = new]
  BY DEF Enrich
<1>4. /\ new \in Item /\ new.artifacts = found /\ new.run = shown[c].run
      /\ new.status = shown[c].status /\ new.own = shown[c].own /\ new.role = shown[c].role
  <2> HIDE DEF found
  <2> QED
    BY <1>1, <1>2 DEF Item
<1> HIDE DEF new, found
<1>5. /\ shown' \in [Readers -> Item \cup {None}]
      /\ shown'[c] = new
      /\ \A d \in Readers : d # c => shown'[d] = shown[d]
  BY <1>1, <1>3, <1>4
<1> QED
  BY <1>1, <1>4, <1>5 DEF found

\* The steps of a reader keep the types.
LEMMA TypeReader ==
    ASSUME Inv, NEW c \in Readers, Reader(c)
    PROVE  TypeOK'
<1>1. step' \in [Readers -> {"new", "runs", "item", "return"}]
  <2>1. \E at \in {"new", "runs", "item", "return"} : step' = [step EXCEPT ![c] = at]
    BY DEF Reader, ReadMessages, ReadRuns, Enrich, Return
  <2> QED
    BY <2>1 DEF Inv, TypeOK
<1>2. shown' \in [Readers -> Item \cup {None}]
  <2>1. CASE ReadMessages(c)
    BY <2>1, MessageRead DEF Inv, TypeOK
  <2>2. CASE ReadRuns(c)
    BY <2>2, RunsRead
  <2>3. CASE Enrich(c)
    BY <2>3, ArtifactsRead
  <2>4. CASE Return(c)
    BY <2>4 DEF Return, Inv, TypeOK
  <2> QED
    BY <2>1, <2>2, <2>3, <2>4 DEF Reader
<1>3. UNCHANGED <<tables, posting, working>>
  BY DEF Reader, ReadMessages, ReadRuns, Enrich, Return
<1> QED
  BY <1>1, <1>2, <1>3 DEF Inv, TypeOK, tables, posting, chat, working

\* So does every step.
LEMMA TypeStep == ASSUME Inv, Next PROVE TypeOK'
<1>1. ASSUME NEW s \in Sessions, OpenSession(s) PROVE TypeOK'
  BY <1>1 DEF OpenSession, Inv, TypeOK, posting, reading, chat, working
<1>2. CASE RecordElsewhere
  <2>1. PICK id \in AgentIds, r \in Strangers : RecordArtifact(id, r)
    BY <1>2 DEF RecordElsewhere
  <2>2. artifacts' \in [ArtifactIds -> ArtifactRow \cup {None}]
    BY <2>1, ArtifactTyped DEF Inv, ArtifactIds
  <2> QED
    BY <1>2, <2>2 DEF RecordElsewhere, Inv, TypeOK, posting, reading, chat, working
<1> QED
  BY <1>1, <1>2, TypeGateway, TypeWorker, TypeReader DEF Next

-----------------------------------------------------------------------------
(* What no step takes back.                                                *)

RowsStay ==
    /\ \A p \in Posts : runs[p] # "none" =>
          runs'[p] # "none" /\ ask'[p] = ask[p] /\ created'[p] = created[p]
    /\ \A p \in Posts : work[p] # "none" => work'[p] # "none"
    /\ \A p \in Posts : given[p] # None => given'[p] = given[p]
    /\ committed \subseteq committed'

\* A row of artifacts stays, or is rewritten for somebody who recorded nothing before.
OutputsStay == \A a \in ArtifactIds : artifacts[a] # None =>
    \/ artifacts'[a] = artifacts[a]
    \/ /\ artifacts'[a] \in ArtifactRow
       /\ \A p \in Posts : given[p] # None => artifacts'[a].of # p

\* A message is added for a run that was published, or none is.
MessagesGrow ==
    \/ messages' = messages
    \/ \E role \in Role, p \in Posts :
          messages' = Append(messages, [role |-> role, run |-> p]) /\ work[p] # "none"

\* No step takes a row away.
LEMMA RowsStayStep == ASSUME Inv, Next PROVE RowsStay
<1> USE DEF Inv, TypeOK, RowsStay, tables, posting, chat, working
<1>1. ASSUME NEW s \in Sessions, OpenSession(s) PROVE RowsStay
  BY <1>1 DEF OpenSession
<1>2. ASSUME NEW c \in Readers, Reader(c) PROVE RowsStay
  BY <1>2 DEF Reader, ReadMessages, ReadRuns, Enrich, Return
<1>3. ASSUME NEW p \in Posts, Accept(p) PROVE RowsStay
  BY <1>3 DEF Accept, PostOK
<1>4. ASSUME NEW p \in Posts, OpenForChannel(p) PROVE RowsStay
  BY <1>4 DEF OpenForChannel, PostOK
<1>5. ASSUME NEW p \in Posts, Stamp(p) PROVE RowsStay
  BY <1>5 DEF Stamp, PostOK
<1>6. ASSUME NEW p \in Posts, InsertRun(p) PROVE RowsStay
  BY <1>6 DEF InsertRun, PostOK
<1>7. ASSUME NEW p \in Posts, Publish(p) PROVE RowsStay
  BY <1>7 DEF Publish
<1>8. ASSUME NEW p \in Posts, InsertQuestion(p) \/ RecordChannel(p) PROVE RowsStay
  BY <1>8 DEF InsertQuestion, Insert, RecordChannel
<1>9. ASSUME NEW p \in Posts, CommitQuestion(p) PROVE RowsStay
  BY <1>9, Committed DEF CommitQuestion, Role
<1>10. ASSUME NEW p \in Posts, Fail(p) PROVE RowsStay
  BY <1>10 DEF Fail
<1>11. ASSUME NEW p \in Posts, Start(p) PROVE RowsStay
  BY <1>11 DEF Start
<1>12. ASSUME NEW p \in Posts, RecordArtifacts(p) PROVE RowsStay
  BY <1>12 DEF RecordArtifacts, PostOK
<1>13. ASSUME NEW p \in Posts, InsertResponse(p) PROVE RowsStay
  BY <1>13 DEF InsertResponse, Insert
<1>14. ASSUME NEW p \in Posts, CommitResponse(p) PROVE RowsStay
  BY <1>14, Committed DEF CommitResponse, Role
<1>15. ASSUME NEW p \in Posts, Succeed(p) \/ EndOtherwise(p) PROVE RowsStay
  BY <1>15 DEF Succeed, EndOtherwise
<1>16. CASE RecordElsewhere
  BY <1>16 DEF RecordElsewhere
<1> HIDE DEF RowsStay
<1> QED
  BY <1>1, <1>2, <1>3, <1>4, <1>5, <1>6, <1>7, <1>8, <1>9, <1>10, <1>11, <1>12, <1>13, <1>14,
     <1>15, <1>16
  DEF Next, Gateway, Worker

\* Who records artifacts.
LEMMA ArtifactWrites ==
    ASSUME [Next]_vars
    PROVE  \/ UNCHANGED artifacts
           \/ RecordElsewhere
           \/ \E p \in Posts : RecordArtifacts(p)
<1> USE DEF tables, posting, reading
<1>1. CASE UNCHANGED vars
  BY <1>1 DEF vars
<1>2. CASE \E s \in Sessions : OpenSession(s)
  BY <1>2 DEF OpenSession
<1>3. ASSUME NEW p \in Posts, Accept(p) \/ Gateway(p) \/ Fail(p) PROVE UNCHANGED artifacts
  BY <1>3 DEF Accept, Gateway, Fail, OpenForChannel, Stamp, InsertRun, Publish,
              InsertQuestion, CommitQuestion, RecordChannel
<1>4. ASSUME NEW p \in Posts, Worker(p), ~RecordArtifacts(p) PROVE UNCHANGED artifacts
  BY <1>4 DEF Worker, Start, InsertResponse, CommitResponse, Succeed, EndOtherwise
<1>5. ASSUME NEW c \in Readers, Reader(c) PROVE UNCHANGED artifacts
  BY <1>5 DEF Reader, ReadMessages, ReadRuns, Enrich, Return
<1>6. QED
  BY <1>1, <1>2, <1>3, <1>4, <1>5 DEF Next

\* What is recorded over another's output is the output of a run that records its first.
LEMMA OutputsStayStep == ASSUME Inv, [Next]_vars PROVE OutputsStay
<1>1. ASSUME NEW id \in ArtifactIds, NEW r \in Posts \cup Strangers, RecordArtifact(id, r),
             \A p \in Posts : given[p] # None => r # p
      PROVE  OutputsStay
  <2>1. artifacts'[id] \in ArtifactRow /\ artifacts'[id].of = r
    BY <1>1, ArtifactTyped DEF Inv
  <2>2. \A a \in ArtifactIds : a # id => artifacts'[a] = artifacts[a]
    BY <1>1, ArtifactTyped DEF Inv
  <2> QED
    BY <1>1, <2>1, <2>2 DEF OutputsStay
<1>2. CASE RecordElsewhere
  <2>1. PICK id \in AgentIds, r \in Strangers : RecordArtifact(id, r)
    BY <1>2 DEF RecordElsewhere
  <2>2. id \in ArtifactIds /\ r \in Posts \cup Strangers /\ \A p \in Posts : r # p
    BY Instance DEF ArtifactIds
  <2> QED
    BY <1>1, <2>1, <2>2
<1>3. ASSUME NEW p \in Posts, RecordArtifacts(p) PROVE OutputsStay
  <2>1. PICK id \in {p} \cup AgentIds : RecordArtifact(id, p)
    BY <1>3 DEF RecordArtifacts
  <2>2. id \in ArtifactIds /\ given[p] = None
    BY <1>3 DEF ArtifactIds, RecordArtifacts, Inv, PostOK
  <2> QED
    BY <1>1, <2>1, <2>2
<1> QED
  BY <1>2, <1>3, ArtifactWrites DEF OutputsStay

\* Who stores messages.
LEMMA MessageWrites ==
    ASSUME Inv, [Next]_vars
    PROVE  \/ UNCHANGED messages
           \/ \E p \in Posts : InsertQuestion(p) \/ InsertResponse(p)
<1> USE DEF tables, posting, reading, chat, working
<1>1. CASE UNCHANGED vars
  BY <1>1 DEF vars
<1>2. CASE (\E s \in Sessions : OpenSession(s)) \/ RecordElsewhere
  BY <1>2 DEF OpenSession, RecordElsewhere
<1>3. ASSUME NEW p \in Posts, Accept(p) \/ Gateway(p) \/ Fail(p), ~InsertQuestion(p)
      PROVE  UNCHANGED messages
  BY <1>3 DEF Accept, Gateway, Fail, OpenForChannel, Stamp, InsertRun, Publish,
              CommitQuestion, Commit, RecordChannel
<1>4. ASSUME NEW p \in Posts, Worker(p), ~InsertResponse(p)
      PROVE  UNCHANGED messages
  BY <1>4 DEF Worker, Start, RecordArtifacts, CommitResponse, Commit, Succeed, EndOtherwise
<1>5. ASSUME NEW c \in Readers, Reader(c) PROVE UNCHANGED messages
  BY <1>5 DEF Reader, ReadMessages, ReadRuns, Enrich, Return
<1>6. QED
  BY <1>1, <1>2, <1>3, <1>4, <1>5 DEF Next

\* A step stores one message of a published run, or none.
LEMMA MessagesGrowStep == ASSUME Inv, Next PROVE MessagesGrow
<1>1. ASSUME NEW p \in Posts, InsertQuestion(p) \/ InsertResponse(p) PROVE MessagesGrow
  BY <1>1 DEF InsertQuestion, InsertResponse, Insert, MessagesGrow, Role, Inv, PostOK
<1> QED
  BY <1>1, MessageWrites DEF MessagesGrow

\* Of the messages that are there none is lost, and their runs stay published.
LEMMA MessagesStay ==
    ASSUME Inv, RowsStay, MessagesGrow
    PROVE  /\ \A i \in DOMAIN messages' : work'[messages'[i].run] # "none"
           /\ \A p \in Posts : Stored(p) => Stored(p)'
<1>0. committed \subseteq committed' /\ committed \subseteq DOMAIN messages
  BY DEF RowsStay, Inv, TypeOK
<1>1. /\ messages \in Seq(MessageRow)
      /\ \A i \in DOMAIN messages : messages[i] \in MessageRow /\ work[messages[i].run] # "none"
  <2>1. messages \in Seq(MessageRow)
    BY DEF Inv, TypeOK, MessageRow
  <2> QED
    BY <2>1, ElementOfSeq, LenProperties DEF Inv, MessagesOK
<1>2. CASE messages' = messages
  BY <1>0, <1>1, <1>2 DEF RowsStay, MessageRow, Stored
<1>3. ASSUME NEW role \in Role, NEW p \in Posts,
             messages' = Append(messages, [role |-> role, run |-> p]), work[p] # "none"
      PROVE  /\ \A i \in DOMAIN messages' : work'[messages'[i].run] # "none"
             /\ \A q \in Posts : Stored(q) => Stored(q)'
  <2> DEFINE new == [role |-> role, run |-> p]
  <2>1. new \in MessageRow /\ new.run = p
    BY DEF MessageRow
  <2> HIDE DEF new
  <2>2. /\ DOMAIN messages' = 1..(Len(messages) + 1) /\ DOMAIN messages = 1..Len(messages)
        /\ messages'[Len(messages) + 1] = new
        /\ \A i \in DOMAIN messages : messages'[i] = messages[i]
    BY <1>1, <1>3, <2>1, LenProperties DEF new
  <2>3. ASSUME NEW i \in DOMAIN messages' PROVE work'[messages'[i].run] # "none"
    <3>1. CASE i \in DOMAIN messages
      BY <1>1, <2>2, <3>1 DEF RowsStay, MessageRow
    <3>2. CASE i = Len(messages) + 1
      BY <1>3, <2>1, <2>2, <3>2 DEF RowsStay
    <3>3. Len(messages) \in Nat
      BY <1>1, LenProperties
    <3> QED
      BY <2>2, <3>1, <3>2, <3>3
  <2>4. \A q \in Posts : Stored(q) => Stored(q)'
    BY <1>0, <2>2 DEF Stored
  <2> QED
    BY <2>3, <2>4
<1> QED
  BY <1>2, <1>3 DEF MessagesGrow

\* What was beyond the limit stays there.
LEMMA BeyondStays ==
    ASSUME Inv, RowsStay, NEW item \in Item, runs[item.own] # "none", BeyondLimit(item)
    PROVE  BeyondLimit(item)'
<1>1. item.own \in Posts
  BY DEF Item
<1>2. Newer(item.own) \subseteq Newer(item.own)'
  BY <1>1 DEF Newer, RowsStay
<1>3. IsFiniteSet(Newer(item.own)') /\ IsFiniteSet(Newer(item.own))
  BY Instance, FS_Subset DEF Newer
<1>4. Cardinality(Newer(item.own)) <= Cardinality(Newer(item.own)')
  BY <1>2, <1>3, FS_Subset
<1>5. Cardinality(Newer(item.own)) \in Nat /\ Cardinality(Newer(item.own)') \in Nat
  BY <1>3, FS_CardinalityType
<1> QED
  BY <1>4, <1>5, Instance DEF BeyondLimit

\* What others did to an artifact's id is not undone, and a recorded artifact stays recorded.
LEMMA RecordedStays ==
    ASSUME Inv, RowsStay, OutputsStay, NEW p \in Posts, Recorded(p)
    PROVE  Recorded(p)' /\ (Shared(p) => Shared(p)')
<1> DEFINE id == given[p]
<1>1. id \in ArtifactIds /\ id # None /\ given'[p] = id /\ artifacts[id] # None
  BY DEF Recorded, RowsStay, Inv, TypeOK
<1>2. CASE artifacts'[id] = artifacts[id]
  BY <1>1, <1>2 DEF Recorded, OwnRow, Shared
<1>3. CASE artifacts'[id] \in ArtifactRow /\ artifacts'[id].of # p
  <2>1. artifacts'[id].of \in (Posts \cup Strangers) \ {p} /\ artifacts'[id] # None
    BY <1>3, Instance DEF ArtifactRow
  <2> QED
    BY <1>1, <2>1 DEF Recorded, Shared
<1> QED
  BY <1>1, <1>2, <1>3 DEF OutputsStay

-----------------------------------------------------------------------------
(* The invariant is kept.                                                  *)

\* A post that a step does not touch, though artifacts may be recorded.
LEMMA OtherPost ==
    ASSUME Inv, RowsStay, OutputsStay, NEW q \in Posts,
           pc'[q] = pc[q], ask'[q] = ask[q], runs'[q] = runs[q], work'[q] = work[q],
           given'[q] = given[q]
    PROVE  PostOK(q)'
<1>1. work[q] \in {"stored", "replying", "replied"} \/ runs[q] = "succeeded" => Recorded(q)'
  BY RecordedStays DEF Inv, PostOK
<1> QED
  BY <1>1 DEF Inv, PostOK

\* The gateway keeps a post, its run and its work together.
LEMMA PostGateway ==
    ASSUME Inv, RowsStay, OutputsStay, NEW p \in Posts, Accept(p) \/ Gateway(p) \/ Fail(p),
           NEW q \in Posts
    PROVE  PostOK(q)'
<1> USE DEF Inv, TypeOK, chat, working
<1>1. artifacts' = artifacts /\ given' = given
  BY DEF Accept, Gateway, OpenForChannel, Stamp, InsertRun, Publish, InsertQuestion,
         CommitQuestion, RecordChannel, Fail, tables
<1>2. CASE q # p
  <2>1. pc'[q] = pc[q] /\ ask'[q] = ask[q] /\ runs'[q] = runs[q] /\ work'[q] = work[q]
    BY <1>2 DEF Accept, Gateway, OpenForChannel, Stamp, InsertRun, Publish, InsertQuestion,
                CommitQuestion, RecordChannel, Fail, tables
  <2> QED
    BY <1>1, <2>1, OtherPost
<1>3. CASE q = p
  <2>0. /\ runs[p] = "none" => work[p] = "none"
        /\ work[p] = "none" => work[p] \notin {"stored", "replying", "replied"}
        /\ Recorded(p)' <=> Recorded(p)
    BY <1>1 DEF PostOK, Recorded, OwnRow, Shared
  <2>1. CASE Accept(p)
    <3>1. /\ pc[p] = "new" /\ runs[p] = "none" /\ work[p] = "none"
          /\ UNCHANGED <<runs, work>>
      BY <2>1 DEF Accept, PostOK, tables
    <3>2. PICK request \in Request :
            IF Refused(request)
            THEN pc' = [pc EXCEPT ![p] = "refused"] /\ UNCHANGED ask
            ELSE /\ pc' = [pc EXCEPT ![p] = IF request.session = None THEN "open" ELSE "stamp"]
                 /\ ask' = [ask EXCEPT ![p] = request]
      BY <2>1 DEF Accept
    <3>3. CASE Refused(request)
      BY <1>1, <1>3, <2>0, <3>1, <3>2, <3>3 DEF PostOK
    <3>4. CASE ~Refused(request)
      <4>1. /\ ask'[p] = request /\ request # None
            /\ pc'[p] = IF request.session = None THEN "open" ELSE "stamp"
        BY <3>2, <3>4, Instance
      <4>2. request.session \in Sessions \cup {None}
        BY DEF Request
      <4> QED
        BY <1>1, <1>3, <2>0, <3>1, <4>1, <4>2 DEF PostOK
    <3> QED
      BY <3>3, <3>4
  <2>2. CASE OpenForChannel(p)
    <3>1. /\ pc[p] = "open" /\ runs[p] = "none" /\ work[p] = "none" /\ ask[p] \in Request
          /\ UNCHANGED <<runs, work>> /\ pc'[p] = "stamp"
      BY <2>2 DEF OpenForChannel, PostOK
    <3>2. PICK s \in Sessions : ask' = [ask EXCEPT ![p].session = s]
      BY <2>2 DEF OpenForChannel
    <3>3. ask'[p].session \in Sessions /\ ask'[p] \in Request
      BY <3>1, <3>2 DEF Request
    <3>4. ask'[p] # None
      BY <3>3, Instance
    <3> QED
      BY <1>1, <1>3, <2>0, <3>1, <3>3, <3>4 DEF PostOK
  <2>3. CASE Stamp(p)
    BY <1>1, <1>3, <2>0, <2>3 DEF Stamp, PostOK
  <2>4. CASE InsertRun(p)
    BY <1>1, <1>3, <2>0, <2>4 DEF InsertRun, PostOK
  <2>5. CASE Publish(p)
    BY <1>1, <1>3, <2>0, <2>5 DEF Publish, PostOK, tables
  <2>6. CASE InsertQuestion(p)
    BY <1>1, <1>3, <2>0, <2>6 DEF InsertQuestion, PostOK
  <2>7. CASE CommitQuestion(p)
    BY <1>1, <1>3, <2>0, <2>7 DEF CommitQuestion, PostOK
  <2>8. CASE RecordChannel(p)
    BY <1>1, <1>3, <2>0, <2>8 DEF RecordChannel, PostOK
  <2>9. CASE Fail(p)
    BY <1>1, <1>3, <2>0, <2>9 DEF Fail, PostOK
  <2> QED
    BY <2>1, <2>2, <2>3, <2>4, <2>5, <2>6, <2>7, <2>8, <2>9 DEF Gateway
<1> QED
  BY <1>2, <1>3

\* So does the worker.
LEMMA PostWorker ==
    ASSUME Inv, RowsStay, OutputsStay, NEW p \in Posts, Worker(p), NEW q \in Posts
    PROVE  PostOK(q)'
<1> USE DEF Inv, TypeOK, posting
<1>1. work[p] # "none" /\ runs[p] # "none" /\ UNCHANGED <<pc, ask>>
  BY DEF Worker, Start, RecordArtifacts, InsertResponse, CommitResponse, Succeed, EndOtherwise,
         PostOK
<1>2. CASE q # p
  <2>1. pc'[q] = pc[q] /\ ask'[q] = ask[q] /\ runs'[q] = runs[q] /\ work'[q] = work[q]
        /\ given'[q] = given[q]
    BY <1>2 DEF Worker, Start, RecordArtifacts, InsertResponse, CommitResponse, Succeed,
                EndOtherwise
  <2> QED
    BY <2>1, OtherPost
<1>3. CASE q = p
  <2>1. CASE RecordArtifacts(p)
    <3>1. PICK id \in {p} \cup AgentIds :
            RecordArtifact(id, p) /\ given' = [given EXCEPT ![p] = id]
      BY <2>1 DEF RecordArtifacts
    <3>2. id \in ArtifactIds /\ id # None /\ given'[p] = id
      BY <3>1, Instance DEF ArtifactIds
    <3>3. artifacts'[id] \in ArtifactRow /\ artifacts'[id].of = p /\ artifacts'[id] # None
      BY <3>1, <3>2, ArtifactTyped, Instance
    <3>4. Recorded(p)'
      <4>1. CASE artifacts'[id].run = p
        BY <3>2, <3>3, <4>1 DEF Recorded, OwnRow, ArtifactRow
      <4>2. CASE artifacts'[id].run # p
        BY <3>2, <3>3, <4>2 DEF Recorded, Shared, ArtifactRow
      <4> QED
        BY <4>1, <4>2
    <3>5. work'[p] = "stored" /\ runs' = runs /\ work[p] = "running"
      BY <2>1 DEF RecordArtifacts
    <3> QED
      BY <1>1, <1>3, <3>4, <3>5 DEF PostOK
  <2>2. CASE ~RecordArtifacts(p)
    <3>1. given' = given /\ (Recorded(p) => Recorded(p)')
      BY <2>2, RecordedStays DEF Worker, Start, InsertResponse, CommitResponse, Succeed,
         EndOtherwise
    <3>2. CASE Start(p)
      BY <1>1, <1>3, <3>1, <3>2 DEF Start, PostOK
    <3>3. CASE InsertResponse(p)
      BY <1>1, <1>3, <3>1, <3>3 DEF InsertResponse, PostOK
    <3>4. CASE CommitResponse(p)
      BY <1>1, <1>3, <3>1, <3>4 DEF CommitResponse, PostOK
    <3>5. CASE Succeed(p)
      BY <1>1, <1>3, <3>1, <3>5 DEF Succeed, PostOK
    <3>6. CASE EndOtherwise(p)
      BY <1>1, <1>3, <3>1, <3>6 DEF EndOtherwise, PostOK
    <3> QED
      BY <2>2, <3>2, <3>3, <3>4, <3>5, <3>6 DEF Worker
  <2> QED
    BY <2>1, <2>2
<1> QED
  BY <1>2, <1>3

\* And so does every step.
LEMMA PostStep ==
    ASSUME Inv, Next, NEW q \in Posts
    PROVE  PostOK(q)'
<1>1. RowsStay /\ OutputsStay
  BY RowsStayStep, OutputsStayStep
<1>2. CASE UNCHANGED <<pc, ask, runs, work, given>>
  BY <1>1, <1>2, OtherPost
<1>3. ASSUME NEW s \in Sessions, OpenSession(s) PROVE UNCHANGED <<pc, ask, runs, work, given>>
  BY <1>3 DEF OpenSession, posting, working
<1>4. ASSUME NEW c \in Readers, Reader(c) PROVE UNCHANGED <<pc, ask, runs, work, given>>
  BY <1>4 DEF Reader, ReadMessages, ReadRuns, Enrich, Return, tables, posting, working
<1>5. RecordElsewhere => UNCHANGED <<pc, ask, runs, work, given>>
  BY DEF RecordElsewhere, posting, working
<1> QED
  BY <1>1, <1>2, <1>3, <1>4, <1>5, PostGateway, PostWorker DEF Next

\* A post that gets to its channel record has stored its message.
LEMMA StoredStep ==
    ASSUME Inv, NEW p \in Posts, CommitQuestion(p)
    PROVE  Stored(p)'
<1>1. Commit("user", p)
  BY DEF CommitQuestion
<1>2. messages' = messages
  BY <1>1 DEF Commit
<1>3. PICK i \in DOMAIN messages :
        messages[i] = [role |-> "user", run |-> p] /\ committed' = committed \cup {i}
  BY <1>1 DEF Commit
<1> QED
  BY <1>2, <1>3 DEF Stored

\* Every step keeps the messages in order.
LEMMA MessagesStep == ASSUME Inv, Next PROVE MessagesOK'
<1>1. /\ \A i \in DOMAIN messages' : work'[messages'[i].run] # "none"
      /\ \A p \in Posts : Stored(p) => Stored(p)'
  BY RowsStayStep, MessagesGrowStep, MessagesStay
<1>2. ASSUME NEW p \in Posts, pc'[p] = "channel" PROVE Stored(p)'
  <2>1. CASE pc[p] = "channel"
    BY <1>1, <2>1 DEF Inv, MessagesOK
  <2>2. CASE pc[p] # "channel"
    <3> USE DEF Inv, TypeOK
    <3>1. ASSUME NEW q \in Posts, Accept(q) PROVE FALSE
      BY <1>2, <2>2, <3>1 DEF Accept
    <3>2. ASSUME NEW q \in Posts, Gateway(q) \/ Fail(q) PROVE CommitQuestion(p)
      BY <1>2, <2>2, <3>2 DEF Gateway, OpenForChannel, Stamp, InsertRun, Publish,
         InsertQuestion, CommitQuestion, RecordChannel, Fail
    <3>3. ASSUME NEW q \in Posts, Worker(q) PROVE FALSE
      BY <1>2, <2>2, <3>3 DEF Worker, Start, RecordArtifacts, InsertResponse, CommitResponse,
         Succeed, EndOtherwise, posting
    <3>4. ASSUME NEW s \in Sessions, OpenSession(s) PROVE FALSE
      BY <1>2, <2>2, <3>4 DEF OpenSession, posting
    <3>5. ASSUME NEW c \in Readers, Reader(c) PROVE FALSE
      BY <1>2, <2>2, <3>5 DEF Reader, ReadMessages, ReadRuns, Enrich, Return, posting
    <3>6. ASSUME RecordElsewhere PROVE FALSE
      BY <1>2, <2>2, <3>6 DEF RecordElsewhere, posting
    <3>7. CommitQuestion(p)
      BY <3>1, <3>2, <3>3, <3>4, <3>5, <3>6 DEF Next
    <3> QED
      BY <3>7, StoredStep
  <2> QED
    BY <2>1, <2>2
<1>3. ASSUME NEW p \in channel_messages' PROVE Stored(p)'
  <2>1. CASE p \in channel_messages
    BY <1>1, <2>1 DEF Inv, TypeOK, MessagesOK
  <2>2. ASSUME NEW q \in Posts, RecordChannel(q) PROVE p \in channel_messages \/ Stored(p)
    BY <2>2 DEF RecordChannel, Inv, MessagesOK
  <2>3. ASSUME \A q \in Posts : ~RecordChannel(q) PROVE channel_messages' = channel_messages
    BY <2>3 DEF Next, OpenSession, Accept, Gateway, OpenForChannel, Stamp, InsertRun, Publish,
       InsertQuestion, CommitQuestion, Fail, Worker, Start, RecordArtifacts, InsertResponse,
       CommitResponse, Succeed, EndOtherwise, Reader, ReadMessages, ReadRuns, Enrich, Return,
       RecordElsewhere, tables
  <2>4. p \in Posts
    BY <2>2, <2>3 DEF RecordChannel, Inv, TypeOK
  <2> QED
    BY <1>1, <2>1, <2>2, <2>3, <2>4
<1> QED
  BY <1>1, <1>2, <1>3 DEF MessagesOK

\* A reader of an item that a step does not touch.
LEMMA OtherReader ==
    ASSUME Inv, RowsStay, OutputsStay, NEW c \in Readers,
           step'[c] = step[c], shown'[c] = shown[c]
    PROVE  ReaderOK(c)'
<1>1. step[c] # "new" => /\ shown[c] \in Item /\ work[shown[c].own] # "none"
                         /\ shown[c].own \in Posts /\ runs[shown[c].own] # "none"
  BY DEF Inv, TypeOK, ReaderOK, PostOK, Item
<1>2. step[c] # "new" => work'[shown[c].own] # "none"
  BY <1>1 DEF RowsStay
<1>3. CASE step[c] \in {"item", "return"}
  <2> DEFINE r == shown[c].run
  <2>1. /\ \/ r = shown[c].own
           \/ BeyondLimit(shown[c])' /\ (r = None \/ shown[c].role = "user")
    BY <1>1, <1>3, BeyondStays DEF Inv, ReaderOK
  <2>2. r # None => r \in Posts /\ runs'[r] # "none"
    BY <1>1, <1>3 DEF Inv, ReaderOK, RowsStay, Item
  <2>3. shown[c].status = "succeeded" =>
            r # None /\ Recorded(r)' /\ (Shared(r) => Shared(r)')
    BY <1>3, <2>2, RecordedStays DEF Inv, ReaderOK
  <2>4. step[c] = "return" /\ shown[c].status = "succeeded" =>
            r \in shown[c].artifacts \/ Shared(r)'
    BY <1>3, <2>3 DEF Inv, ReaderOK
  <2> QED
    BY <1>1, <1>2, <1>3, <2>1, <2>2, <2>3, <2>4 DEF ReaderOK, Inv
<1>4. CASE step[c] \notin {"item", "return"}
  BY <1>2, <1>4 DEF ReaderOK, Inv
<1> QED
  BY <1>3, <1>4

\* A reading of the runs finds the message's own within the limit.
LEMMA ReadRunsStep ==
    ASSUME Inv, NEW c \in Readers, ReadRuns(c)
    PROVE  ReaderOK(c)'
<1> DEFINE p == shown[c].own
           r == shown'[c].run
<1>1. /\ shown[c] \in Item /\ shown'[c] \in Item /\ shown'[c] # None
      /\ shown'[c].own = p /\ shown'[c].role = shown[c].role
      /\ r \in Linked(shown[c].role, p)
      /\ shown'[c].status = IF r = None THEN "none" ELSE runs[r]
  BY RunsRead, Instance
<1>2. UNCHANGED <<runs, created, artifacts, work, given>> /\ step'[c] = "item"
  BY DEF ReadRuns, tables, posting, working, Inv, TypeOK
<1>3. p \in Posts /\ work[p] # "none" /\ runs[p] # "none"
  BY <1>1 DEF Inv, ReaderOK, PostOK, ReadRuns, Item
<1>4. r = p \/ (Cardinality(Newer(p)) >= HistoryLimit /\ (r = None \/ shown[c].role = "user"))
  <2>1. CASE p \in RunsFound(p)
    BY <1>1, <2>1 DEF Linked
  <2>2. CASE p \notin RunsFound(p)
    <3>1. p \notin Latest(HistoryLimit)
      BY <2>2 DEF RunsFound, Latest
    <3>2. IsFiniteSet(Newer(p))
      BY Instance, FS_Subset DEF Newer
    <3>3. Cardinality(Newer(p)) \in Nat
      BY <3>2, FS_CardinalityType
    <3>4. Cardinality(Newer(p)) >= HistoryLimit
      BY <1>3, <3>1, <3>3, Instance DEF Latest
    <3>5. r = None \/ shown[c].role = "user"
      BY <1>1, <2>2 DEF Linked
    <3> QED
      BY <3>4, <3>5
  <2> QED
    BY <2>1, <2>2
<1>5. r # None => r \in Posts /\ runs[r] # "none"
  BY <1>1, <1>3 DEF Linked, RunsFound, SameText, Latest
<1>6. shown'[c].status = "succeeded" => r # None /\ Recorded(r)
  BY <1>1, <1>5 DEF Inv, PostOK
<1>7. BeyondLimit(shown[c])' <=> Cardinality(Newer(p)) >= HistoryLimit
  BY <1>1, <1>2 DEF BeyondLimit, Newer
<1>8. Recorded(shown[c].run)' <=> Recorded(r)
  BY <1>2 DEF Recorded, OwnRow, Shared
<1> QED
  BY <1>1, <1>2, <1>3, <1>4, <1>5, <1>6, <1>7, <1>8 DEF ReaderOK

\* A reading of the artifacts finds that of a success.
LEMMA EnrichStep ==
    ASSUME Inv, NEW c \in Readers, Enrich(c)
    PROVE  ReaderOK(c)'
<1> DEFINE r == shown[c].run
<1>1. /\ shown[c] \in Item /\ shown'[c] \in Item /\ shown'[c] # None
      /\ shown'[c].own = shown[c].own /\ shown'[c].role = shown[c].role
      /\ shown'[c].run = r /\ shown'[c].status = shown[c].status
      /\ shown'[c].artifacts = {row.of : row \in {artifacts[a] : a \in ListArtifacts(r)}}
  BY ArtifactsRead, Instance
<1>2. /\ UNCHANGED <<runs, created, artifacts, work, given>>
      /\ step[c] = "item" /\ step'[c] = "return"
  BY DEF Enrich, tables, posting, working, Inv, TypeOK
<1>3. ReaderOK(c)
  BY DEF Inv
<1>4. shown[c].status = "succeeded" => r \in shown'[c].artifacts \/ Shared(r)
  <2> SUFFICES ASSUME shown[c].status = "succeeded", ~Shared(r) PROVE r \in shown'[c].artifacts
    OBVIOUS
  <2>1. r # None /\ r \in Posts /\ Recorded(r)
    BY <1>1, <1>2, <1>3 DEF ReaderOK, Item
  <2>2. given[r] \in ArtifactIds /\ artifacts[given[r]] # None /\ OwnRow(r)
    BY <2>1 DEF Recorded, Inv, TypeOK
  <2>3. given[r] \in ListArtifacts(r) /\ artifacts[given[r]].of = r
    BY <2>1, <2>2 DEF ListArtifacts, OwnRow
  <2> QED
    BY <1>1, <2>3
<1>5. BeyondLimit(shown[c])' <=> BeyondLimit(shown[c])
  BY <1>1, <1>2 DEF BeyondLimit, Newer
<1>6. (Recorded(shown[c].run)' <=> Recorded(r)) /\ (Shared(shown[c].run)' <=> Shared(r))
  BY <1>1, <1>2 DEF Recorded, OwnRow, Shared
<1> QED
  BY <1>1, <1>2, <1>3, <1>4, <1>5, <1>6 DEF ReaderOK

\* Every step keeps what the readers have put together true enough.
LEMMA ReaderStep ==
    ASSUME Inv, Next, NEW c \in Readers
    PROVE  ReaderOK(c)'
<1>1. RowsStay /\ OutputsStay
  BY RowsStayStep, OutputsStayStep
<1>2. CASE step'[c] = step[c] /\ shown'[c] = shown[c]
  BY <1>1, <1>2, OtherReader
<1>3. CASE ReadMessages(c)
  <2>1. PICK i \in committed :
          messages[i] \in MessageRow /\ shown'[c] \in Item /\ shown'[c].own = messages[i].run
    BY <1>3, MessageRead
  <2>2. work' = work /\ step'[c] = "runs" /\ work[messages[i].run] # "none"
    BY <1>3 DEF ReadMessages, Inv, TypeOK, MessagesOK, working
  <2> QED
    BY <2>1, <2>2, Instance DEF ReaderOK
<1>4. CASE ReadRuns(c)
  BY <1>4, ReadRunsStep
<1>5. CASE Enrich(c)
  BY <1>5, EnrichStep
<1>6. CASE Return(c)
  BY <1>6 DEF Return, ReaderOK, Inv, TypeOK
<1>7. ASSUME ~Reader(c) PROVE step'[c] = step[c] /\ shown'[c] = shown[c]
  <2>1. ASSUME NEW d \in Readers, d # c, Reader(d) PROVE step'[c] = step[c] /\ shown'[c] = shown[c]
    <3>1. step'[c] = step[c]
      BY <2>1 DEF Reader, ReadMessages, ReadRuns, Enrich, Return, Inv, TypeOK
    <3>2. CASE ReadMessages(d)
      <4>1. PICK new : shown' = [shown EXCEPT ![d] = new]
        BY <2>1, <3>2, MessageRead
      <4>2. shown \in [Readers -> Item \cup {None}]
        BY DEF Inv, TypeOK
      <4>3. shown'[c] = shown[c]
        BY <2>1, <4>1, <4>2
      <4> QED
        BY <3>1, <4>3
    <3>3. CASE ReadRuns(d)
      <4>1. shown'[c] = shown[c]
        BY <2>1, <3>3, RunsRead
      <4> QED
        BY <3>1, <4>1
    <3>4. CASE Enrich(d)
      <4>1. shown'[c] = shown[c]
        BY <2>1, <3>4, ArtifactsRead
      <4> QED
        BY <3>1, <4>1
    <3>5. CASE Return(d)
      BY <2>1, <3>5 DEF Return, Inv, TypeOK
    <3> QED
      BY <2>1, <3>1, <3>2, <3>3, <3>4, <3>5 DEF Reader
  <2>2. ASSUME \A d \in Readers : ~Reader(d) PROVE step' = step /\ shown' = shown
    BY <2>2 DEF Next, OpenSession, Accept, Gateway, OpenForChannel, Stamp, InsertRun, Publish,
       InsertQuestion, CommitQuestion, RecordChannel, Fail, Worker, Start, RecordArtifacts,
       InsertResponse, CommitResponse, Succeed, EndOtherwise, RecordElsewhere, reading
  <2> QED
    BY <1>7, <2>1, <2>2
<1> QED
  BY <1>2, <1>3, <1>4, <1>5, <1>6, <1>7 DEF Reader

-----------------------------------------------------------------------------
(* The theorems.                                                           *)

\* Together they are inductive.
LEMMA InvAlways == Spec => []Inv
<1>1. Inv /\ [Next]_vars => Inv'
  <2> SUFFICES ASSUME Inv, [Next]_vars PROVE Inv'
    OBVIOUS
  <2>1. CASE Next
    BY <2>1, TypeStep, PostStep, MessagesStep, ReaderStep DEF Inv
  <2>2. CASE UNCHANGED vars
    <3>1. UNCHANGED <<tables, posting, working, reading>>
      BY <2>2 DEF vars
    <3>2. TypeOK'
      BY <3>1 DEF Inv, TypeOK, tables, posting, reading, chat, working
    <3>3. RowsStay /\ OutputsStay
      BY <3>1 DEF RowsStay, OutputsStay, tables, posting, chat, working
    <3>4. MessagesOK'
      BY <3>1 DEF Inv, MessagesOK, Stored, tables, posting, chat, working
    <3>5. \A p \in Posts : PostOK(p)'
      BY <3>1, <3>3, OtherPost DEF tables, posting, working
    <3>6. \A c \in Readers : ReaderOK(c)'
      BY <3>1, <3>3, OtherReader DEF reading
    <3> QED
      BY <3>2, <3>4, <3>5, <3>6 DEF Inv
  <2> QED
    BY <2>1, <2>2
<1> QED
  BY <1>1, InvInit, PTL DEF Spec

\* Every variable keeps its type.
THEOREM SessionTypeCorrect == Spec => []TypeOK
<1>1. Inv => TypeOK
  BY DEF Inv
<1> QED
  BY <1>1, InvAlways, PTL

\* Wherever requests end, a message that is stored, or recorded for a channel, names a run
\* that some worker was asked to execute.
THEOREM StoredMessagesWereSent == Spec => []MessagesWereSent
<1>1. Inv => MessagesWereSent
  BY DEF Inv, TypeOK, MessagesOK, Stored, MessagesWereSent
<1> QED
  BY <1>1, InvAlways, PTL

\* Whatever the limit, and however many readers and posts there are, a history shows a
\* message within the limit with its own run.
THEOREM HistoriesLinkOwnRuns == Spec => []HistoryLinksOwnRuns
<1>1. Inv => HistoryLinksOwnRuns
  BY DEF Inv, ReaderOK, HistoryLinksOwnRuns
<1> QED
  BY <1>1, InvAlways, PTL

\* A success that a history shows comes with the run's own artifact, whatever ids agents give
\* their artifacts, unless some other run of anybody recorded one under the same id.
THEOREM ShownSuccessesAreWhole == Spec => []ShownSuccessIsWhole
<1>1. Inv => ShownSuccessIsWhole
  BY DEF Inv, ReaderOK, ShownSuccessIsWhole
<1> QED
  BY <1>1, InvAlways, PTL

-----------------------------------------------------------------------------
(* The n-th of a finite set of numbers.                                    *)

\* The place of a number in a set of numbers, and the number at a place.
Rank(i, S) == Cardinality({j \in S : j <= i})
Nth(n, S) == CHOOSE i \in S : Rank(i, S) = n

\* The ranks are numbers from 1 on, and a greater number has a greater rank.
LEMMA RankGrows ==
    ASSUME NEW S, S \subseteq Nat, IsFiniteSet(S), NEW i \in S
    PROVE  /\ Rank(i, S) \in 1..Cardinality(S)
           /\ \A j \in S : i < j => Rank(i, S) < Rank(j, S)
<1> DEFINE upTo(j) == {k \in S : k <= j}
<1>1. \A j \in S : IsFiniteSet(upTo(j)) /\ Cardinality(upTo(j)) <= Cardinality(S)
  BY FS_Subset
<1>2. \A j \in S : Cardinality(upTo(j)) \in Nat
  BY <1>1, FS_CardinalityType
<1>3. Cardinality(S) \in Nat
  BY FS_CardinalityType
<1>4. Cardinality(upTo(i)) # 0
  BY <1>1, FS_EmptySet
<1>5. ASSUME NEW j \in S, i < j PROVE Cardinality(upTo(i)) < Cardinality(upTo(j))
  <2>0. i \in Nat /\ j \in Nat /\ \A k \in S : k \in Nat
    OBVIOUS
  <2>1. (\A k \in S : k <= i => k <= j) /\ j <= j /\ ~(j <= i)
    BY <1>5, <2>0
  <2>2. upTo(i) \in SUBSET upTo(j) /\ upTo(i) # upTo(j)
    BY <2>1
  <2>3. QED
    BY <1>1, <1>2, <2>2, FS_Subset
<1>6. QED
  BY <1>1, <1>2, <1>3, <1>4, <1>5 DEF Rank

\* So every rank up to the size of the set is that of exactly one of its numbers.
LEMMA NthIs ==
    ASSUME NEW S, S \subseteq Nat, IsFiniteSet(S)
    PROVE  /\ \A i \in S : Nth(Rank(i, S), S) = i
           /\ \A n \in 1..Cardinality(S) : Nth(n, S) \in S /\ Rank(Nth(n, S), S) = n
<1>0. /\ Cardinality(S) \in Nat
      /\ \A i \in S : Rank(i, S) \in 1..Cardinality(S)
      /\ \A i, j \in S : i < j => Rank(i, S) < Rank(j, S)
  BY RankGrows, FS_CardinalityType
<1>1. \A i, j \in S : Rank(i, S) = Rank(j, S) => i = j
  <2> SUFFICES ASSUME NEW i \in S, NEW j \in S, i # j PROVE Rank(i, S) # Rank(j, S)
    OBVIOUS
  <2>1. Rank(i, S) \in Nat /\ Rank(j, S) \in Nat
    BY <1>0
  <2>2. i \in Nat /\ j \in Nat
    OBVIOUS
  <2>3. CASE i < j
    BY <1>0, <2>1, <2>3
  <2>4. CASE j < i
    BY <1>0, <2>1, <2>4
  <2>5. QED
    BY <2>2, <2>3, <2>4
<1> DEFINE N == 1..Cardinality(S)
           f == [i \in S |-> Rank(i, S)]
<1>3. IsFiniteSet(N) /\ Cardinality(N) = Cardinality(S)
  BY <1>0, FS_Interval
<1>4. f \in [S -> N]
  BY <1>0
<1>5. f \in Injection(S, N)
  BY <1>1, <1>4 DEF Injection, IsInjective
<1>6. f \in Surjection(S, N)
  <2> HIDE DEF f, N
  <2>1. QED
    BY <1>3, <1>5, FS_Injection
<1>7. \A n \in N : \E i \in S : Rank(i, S) = n
  BY <1>6 DEF Surjection
<1>8. QED
  BY <1>1, <1>7 DEF Nth

\* A number greater than all the others comes last and leaves them their places.
LEMMA NthAppend ==
    ASSUME NEW S, S \subseteq Nat, IsFiniteSet(S), NEW x \in Nat, \A i \in S : i < x
    PROVE  /\ Cardinality(S \cup {x}) = Cardinality(S) + 1
           /\ Nth(Cardinality(S) + 1, S \cup {x}) = x
           /\ \A n \in 1..Cardinality(S) : Nth(n, S \cup {x}) = Nth(n, S)
           /\ \A i \in S : Rank(i, S \cup {x}) = Rank(i, S)
<1> DEFINE T == S \cup {x}
<1>1. IsFiniteSet(T) /\ Cardinality(T) = Cardinality(S) + 1 /\ T \subseteq Nat
  BY FS_AddElement
<1>2. Rank(x, T) = Cardinality(S) + 1
  <2>1. \A j \in T : j <= x
    <3>1. \A j \in S : j \in Nat
      OBVIOUS
    <3>2. QED
      BY <3>1
  <2>2. QED
    BY <1>1, <2>1 DEF Rank
<1>3. \A i \in S : Rank(i, T) = Rank(i, S)
  <2>1. ASSUME NEW i \in S PROVE {j \in T : j <= i} = {j \in S : j <= i}
    OBVIOUS
  <2>2. QED
    BY <2>1 DEF Rank
<1>4. \A i \in T : Nth(Rank(i, T), T) = i
  BY <1>1, NthIs
<1>5. ASSUME NEW n \in 1..Cardinality(S) PROVE Nth(n, T) = Nth(n, S)
  <2>1. Nth(n, S) \in S /\ Rank(Nth(n, S), S) = n
    BY NthIs
  <2>2. Rank(Nth(n, S), T) = n
    BY <1>3, <2>1
  <2>3. QED
    BY <1>4, <2>1, <2>2
<1>6. QED
  BY <1>1, <1>2, <1>3, <1>4, <1>5

-----------------------------------------------------------------------------
(* The store.                                                              *)

\* The two messages of a post.
Asked(p) == [role |-> "user", run |-> p]
Answered(p) == [role |-> "assistant", run |-> p]

InMessages(m) == \E i \in DOMAIN messages : messages[i] = m

\* No message is stored twice, and a post stores its own late.
OnceOK ==
    /\ \A i, j \in DOMAIN messages : messages[i] = messages[j] => i = j
    /\ \A p \in Posts :
          /\ pc[p] \in {"new", "open", "stamp", "row", "publish", "message"} =>
                ~InMessages(Asked(p))
          /\ work[p] \notin {"replying", "replied", "over"} => ~InMessages(Answered(p))

\* A post and a run only go forward.
LEMMA StagesForward ==
    ASSUME Inv, [Next]_vars, NEW p \in Posts
    PROVE  /\ pc'[p] \in {"new", "open", "stamp", "row", "publish", "message"} =>
                 pc[p] \in {"new", "open", "stamp", "row", "publish", "message"}
           /\ work'[p] \notin {"replying", "replied", "over"} =>
                 work[p] \notin {"replying", "replied", "over"}
<1> USE DEF Inv, TypeOK, tables, posting, working, reading
<1>1. CASE UNCHANGED <<pc, work>>
  BY <1>1
<1>2. ASSUME NEW q \in Posts, Accept(q) \/ Gateway(q) \/ Fail(q)
      PROVE  /\ pc'[p] \in {"new", "open", "stamp", "row", "publish", "message"} =>
                   pc[p] \in {"new", "open", "stamp", "row", "publish", "message"}
             /\ work'[p] \notin {"replying", "replied", "over"} =>
                 work[p] \notin {"replying", "replied", "over"}
  BY <1>2 DEF Accept, Gateway, Fail, OpenForChannel, Stamp, InsertRun, Publish,
              InsertQuestion, CommitQuestion, RecordChannel, PostOK
<1>3. ASSUME NEW q \in Posts, Worker(q)
      PROVE  /\ UNCHANGED pc
             /\ work'[p] \notin {"replying", "replied", "over"} =>
                 work[p] \notin {"replying", "replied", "over"}
  BY <1>3 DEF Worker, Start, RecordArtifacts, InsertResponse, CommitResponse, Succeed,
              EndOtherwise
<1>4. QED
  BY <1>1, <1>2, <1>3 DEF Next, vars, OpenSession, Reader, ReadMessages, ReadRuns, Enrich,
     Return, RecordElsewhere

\* Whatever ends where, nothing is stored again.
LEMMA OnceAlways == Spec => []OnceOK
<1>1. Init => OnceOK
  BY DEF Init, OnceOK, InMessages
<1>2. Inv /\ OnceOK /\ [Next]_vars => OnceOK'
  <2> SUFFICES ASSUME Inv, OnceOK, [Next]_vars PROVE OnceOK'
    OBVIOUS
  <2>0. messages \in Seq(MessageRow)
    BY DEF Inv, TypeOK, MessageRow
  <2>1. CASE UNCHANGED messages
    BY <2>1, StagesForward DEF OnceOK, InMessages
  <2>2. ASSUME NEW m \in MessageRow, messages' = Append(messages, m), ~InMessages(m),
               \A p \in Posts :
                  /\ m = Asked(p) =>
                        pc'[p] \notin {"new", "open", "stamp", "row", "publish", "message"}
                  /\ m = Answered(p) => work'[p] \in {"replying", "replied", "over"}
        PROVE  OnceOK'
    <3>1. /\ DOMAIN messages' = 1..(Len(messages) + 1)
          /\ \A i \in DOMAIN messages : messages'[i] = messages[i]
          /\ messages'[Len(messages) + 1] = m
          /\ DOMAIN messages = 1..Len(messages) /\ Len(messages) \in Nat
      BY <2>0, <2>2, AppendProperties
    <3>2. \A i \in DOMAIN messages' : i \in DOMAIN messages \/ messages'[i] = m
      BY <3>1
    <3>3. \A i, j \in DOMAIN messages' : messages'[i] = messages'[j] => i = j
      BY <2>2, <3>1, <3>2 DEF OnceOK, InMessages
    <3>4. \A n : InMessages(n)' => InMessages(n) \/ n = m
      BY <3>1, <3>2 DEF InMessages
    <3>5. QED
      BY <2>2, <3>3, <3>4, StagesForward DEF OnceOK
  <2>3. ASSUME NEW p \in Posts, InsertQuestion(p) PROVE OnceOK'
    <3>1. pc'[p] = "insert" /\ pc[p] = "message"
      BY <2>3 DEF InsertQuestion, Inv, TypeOK
    <3>2. Asked(p) \in MessageRow /\ ~InMessages(Asked(p))
      BY <3>1 DEF Asked, MessageRow, Role, OnceOK
    <3>3. \A q \in Posts : (Asked(p) = Asked(q) => q = p) /\ Asked(p) # Answered(q)
      BY DEF Asked, Answered
    <3>4. messages' = Append(messages, Asked(p))
      BY <2>3 DEF InsertQuestion, Insert, Asked
    <3>5. QED
      BY <2>2, <3>1, <3>2, <3>3, <3>4
  <2>4. ASSUME NEW p \in Posts, InsertResponse(p) PROVE OnceOK'
    <3>1. work'[p] = "replying" /\ work[p] = "stored"
      BY <2>4 DEF InsertResponse, Inv, TypeOK
    <3>2. Answered(p) \in MessageRow /\ ~InMessages(Answered(p))
      BY <3>1 DEF Answered, MessageRow, Role, OnceOK
    <3>3. \A q \in Posts : (Answered(p) = Answered(q) => q = p) /\ Answered(p) # Asked(q)
      BY DEF Asked, Answered
    <3>4. messages' = Append(messages, Answered(p))
      BY <2>4 DEF InsertResponse, Insert, Answered
    <3>5. QED
      BY <2>2, <3>1, <3>2, <3>3, <3>4
  <2>5. QED
    BY <2>1, <2>3, <2>4, MessageWrites
<1>3. QED
  BY InvAlways, <1>1, <1>2, PTL DEF Spec

\* So the messages have ids among Indices.
LEMMA EnoughIndices == TypeOK /\ OnceOK => DOMAIN messages \subseteq Indices
<1> SUFFICES ASSUME TypeOK, OnceOK PROVE DOMAIN messages \subseteq Indices
  OBVIOUS
<1> DEFINE D == 1..Len(messages)
           T == Role \X Posts
           f == [i \in D |-> <<messages[i].role, messages[i].run>>]
<1>1. messages \in Seq(MessageRow) /\ Len(messages) \in Nat /\ DOMAIN messages = D
  BY DEF TypeOK, MessageRow
<1>2. \A i \in D : messages[i] \in MessageRow
  BY <1>1, ElementOfSeq
<1>3. f \in [D -> T]
  BY <1>2 DEF MessageRow
<1>4. \A i, j \in D : f[i] = f[j] => i = j
  <2>1. \A i, j \in D : messages[i].role = messages[j].role /\ messages[i].run = messages[j].run
                           => messages[i] = messages[j]
    BY <1>2 DEF MessageRow
  <2>2. QED
    BY <1>1, <2>1 DEF OnceOK
<1>5. f \in Injection(D, T)
  BY <1>3, <1>4 DEF Injection, IsInjective
<1>6. IsFiniteSet(Role) /\ Cardinality(Role) = 2
  <2>1. IsFiniteSet({"user"}) /\ Cardinality({"user"}) = 1
    BY FS_Singleton
  <2>2. Role = {"user"} \cup {"assistant"} /\ "assistant" \notin {"user"}
    BY DEF Role
  <2>3. QED
    BY <2>1, <2>2, FS_AddElement
<1>7. IsFiniteSet(T) /\ Cardinality(T) = 2 * Cardinality(Posts)
  BY <1>6, FS_Product, Instance
<1>8. Cardinality(D) = Len(messages)
  BY <1>1, FS_Interval
<1>9. Cardinality(D) <= Cardinality(T)
  <2> HIDE DEF D, T, f
  <2>1. QED
    BY <1>5, <1>7, FS_Injection
<1>10. Cardinality(Posts) \in Nat
  BY FS_CardinalityType, Instance
<1>11. QED
  BY <1>1, <1>7, <1>8, <1>9, <1>10 DEF Indices

\* The ids that the messages can get have equally many digits.
IdsOfOneLength == \A i \in Indices : Digits(FirstId + i - 1) = Digits(FirstId)

\* A session's list in the order of the inserts, and the places of the rows that show.
ListsOK == \A s \in Sessions :
    /\ InOrder(s) = [n \in 1..Cardinality(Rows(s)) |-> messages[Nth(n, Rows(s))]]
    /\ Listed(s) = {Rank(i, Rows(s)) : i \in Rows(s) \cap committed}

\* They are a finite set of numbers.
LEMMA RowsFinite ==
    ASSUME TypeOK, OnceOK, NEW s
    PROVE  Rows(s) \subseteq Indices /\ Rows(s) \subseteq Nat /\ IsFiniteSet(Rows(s))
<1>1. Rows(s) \subseteq Indices
  BY EnoughIndices DEF Rows
<1>2. Cardinality(Posts) \in Nat
  BY FS_CardinalityType, Instance
<1>3. IsFiniteSet(Indices) /\ Indices \subseteq Nat
  BY <1>2, FS_Interval DEF Indices
<1>4. QED
  BY <1>1, <1>3, FS_Subset

\* Where ids have one length, the order of their texts is that of the inserts.
LEMMA ListsAre == IdsOfOneLength => (TypeOK /\ OnceOK => ListsOK)
<1> SUFFICES ASSUME IdsOfOneLength, TypeOK, OnceOK, NEW s \in Sessions
             PROVE  /\ InOrder(s)
                          = [n \in 1..Cardinality(Rows(s)) |-> messages[Nth(n, Rows(s))]]
                    /\ Listed(s) = {Rank(i, Rows(s)) : i \in Rows(s) \cap committed}
  BY DEF ListsOK
<1> DEFINE rows == Rows(s)
<1>1. rows \subseteq Indices /\ rows \subseteq Nat /\ IsFiniteSet(rows)
  BY RowsFinite
<1>2. ASSUME NEW i \in rows PROVE Place(i, s) = Rank(i, rows)
  <2>1. \A j \in rows : j \in UpTo[i] <=> j <= i
    <3>1. FirstId \in Nat /\ i \in Nat
      BY <1>1, Instance
    <3>2. \A j \in rows : j \in Nat /\ j \in Indices
      BY <1>1
    <3>3. \A j \in Indices : j \in UpTo[i] <=> TextAtMost(FirstId + j - 1, FirstId + i - 1)
      BY <1>1 DEF UpTo
    <3>4. \A j \in rows : TextAtMost(FirstId + j - 1, FirstId + i - 1)
                             <=> FirstId + j - 1 <= FirstId + i - 1
      BY <1>1 DEF TextAtMost, IdsOfOneLength
    <3>5. QED
      BY <3>1, <3>2, <3>3, <3>4
  <2>2. rows \cap UpTo[i] = {j \in rows : j <= i}
    BY <2>1
  <2>3. QED
    BY <2>2 DEF Rank, Place
<1> DEFINE Row(n) == CHOOSE i \in rows : Place(i, s) = n
<1>3. ASSUME NEW n \in 1..Cardinality(rows) PROVE Row(n) = Nth(n, rows)
  <2>1. Nth(n, rows) \in rows /\ Rank(Nth(n, rows), rows) = n
    BY <1>1, NthIs
  <2>2. Row(n) \in rows /\ Place(Row(n), s) = n
    BY <1>2, <2>1
  <2>3. Rank(Row(n), rows) = n
    BY <1>2, <2>2
  <2>4. QED
    BY <1>1, <2>2, <2>3, NthIs
<1>4. InOrder(s) = [n \in 1..Cardinality(rows) |-> messages[Row(n)]]
  BY DEF InOrder
<1>5. Listed(s) = {Rank(i, rows) : i \in rows \cap committed}
  BY <1>2 DEF Listed
<1> HIDE DEF Row, rows
<1>6. [n \in 1..Cardinality(rows) |-> messages[Row(n)]]
         = [n \in 1..Cardinality(rows) |-> messages[Nth(n, rows)]]
  BY <1>3
<1>7. QED
  BY <1>4, <1>5, <1>6 DEF rows

\* Where no message is inserted and no post that has one changes, the lists stay; they show
\* the same where nothing is committed.
LEMMA ListsStay ==
    ASSUME ListsOK, ListsOK', UNCHANGED messages, NEW s \in Sessions,
           \A i \in DOMAIN messages :
              ask'[messages[i].run].session = ask[messages[i].run].session
    PROVE  /\ InOrder(s)' = InOrder(s)
           /\ UNCHANGED committed => Listed(s)' = Listed(s)
<1>1. Rows(s)' = Rows(s)
  BY DEF Rows
<1>2. QED
  BY <1>1 DEF ListsOK

\* A message that is inserted comes last in its session, and does not show yet.
LEMMA ListsGrow ==
    ASSUME TypeOK, OnceOK, ListsOK, ListsOK', UNCHANGED <<ask, committed>>, NEW m \in MessageRow,
           messages' = Append(messages, m), NEW s \in Sessions
    PROVE  /\ InOrder(s)' = IF ask[m.run].session = s THEN Append(InOrder(s), m)
                             ELSE InOrder(s)
           /\ Listed(s)' = Listed(s)
<1> DEFINE x == Len(messages) + 1
           rows == Rows(s)
           c == Cardinality(rows)
<1>1. /\ messages \in Seq(MessageRow) /\ Len(messages) \in Nat
      /\ DOMAIN messages = 1..Len(messages)
  BY DEF TypeOK, MessageRow
<1>2. /\ DOMAIN messages' = 1..x /\ messages'[x] = m
      /\ \A i \in DOMAIN messages : messages'[i] = messages[i]
  BY <1>1, AppendProperties
<1>3. rows \subseteq Nat /\ IsFiniteSet(rows) /\ rows \subseteq DOMAIN messages /\ c \in Nat
  BY RowsFinite, FS_CardinalityType DEF Rows
<1>4. Rows(s)' = IF ask[m.run].session = s THEN rows \cup {x} ELSE rows
  BY <1>1, <1>2 DEF Rows
<1>5. \A n \in 1..c : Nth(n, rows) \in DOMAIN messages
  BY <1>3, NthIs
<1>6. /\ Listed(s)' = {Rank(i, Rows(s)') : i \in Rows(s)' \cap committed}
      /\ Listed(s) = {Rank(i, rows) : i \in rows \cap committed}
  BY DEF ListsOK
<1>7. CASE ask[m.run].session # s
  <2>0. Listed(s)' = Listed(s)
    <3>1. Rows(s)' = rows
      BY <1>4, <1>7
    <3> HIDE DEF rows
    <3>2. QED
      BY <1>6, <3>1
  <2>1. InOrder(s)' = [n \in 1..c |-> messages'[Nth(n, rows)]]
    BY <1>4, <1>7 DEF ListsOK
  <2>2. InOrder(s) = [n \in 1..c |-> messages[Nth(n, rows)]]
    BY DEF ListsOK
  <2> HIDE DEF rows, c
  <2>3. QED
    BY <1>2, <1>5, <1>7, <2>0, <2>1, <2>2
<1>8. CASE ask[m.run].session = s
  <2> DEFINE more == rows \cup {x}
             old == [n \in 1..c |-> messages[Nth(n, rows)]]
             new == [n \in 1..(c + 1) |-> messages'[Nth(n, more)]]
  <2>1. /\ Cardinality(more) = c + 1 /\ Nth(c + 1, more) = x
        /\ \A n \in 1..c : Nth(n, more) = Nth(n, rows)
        /\ \A i \in rows : Rank(i, more) = Rank(i, rows)
    <3>1. x \in Nat /\ \A i \in rows : i < x
      BY <1>1, <1>3
    <3>2. QED
      BY <1>3, <3>1, NthAppend
  <2>0. Listed(s)' = Listed(s)
    <3>1. Rows(s)' = more /\ x \notin committed
      BY <1>1, <1>4, <1>8 DEF TypeOK
    <3>2. more \cap committed = rows \cap committed
      BY <3>1
    <3> HIDE DEF rows, more
    <3>3. QED
      BY <1>6, <2>1, <3>1, <3>2
  <2>2. InOrder(s)' = new
    <3>1. Rows(s)' = more
      BY <1>4, <1>8
    <3>2. InOrder(s)'
             = [n \in 1..Cardinality(Rows(s)') |-> messages'[Nth(n, Rows(s)')]]
      BY DEF ListsOK
    <3> HIDE DEF more, rows, c
    <3>3. QED
      BY <2>1, <3>1, <3>2
  <2>3. InOrder(s) = old
    BY DEF ListsOK
  <2>4. \A n \in 1..c : messages[Nth(n, rows)] \in MessageRow
    BY <1>1, <1>5, ElementOfSeq
  <2> HIDE DEF rows, c, more, x
  <2>5. old \in Seq(MessageRow) /\ Len(old) = c
    BY <1>3, <2>4
  <2>6. \A n \in 1..c : new[n] = old[n]
    BY <1>2, <1>3, <1>5, <2>1
  <2>7. new[c + 1] = m
    <3>1. c + 1 \in 1..(c + 1) /\ Nth(c + 1, more) = x /\ messages'[x] = m
      BY <1>2, <1>3, <2>1
    <3>2. QED
      BY <3>1
  <2> HIDE DEF old
  <2>8. new = Append(old, m)
    <3>1. /\ Append(old, m) \in Seq(MessageRow) /\ Len(Append(old, m)) = c + 1
          /\ \A n \in 1..c : Append(old, m)[n] = old[n]
          /\ Append(old, m)[c + 1] = m
      BY <2>5, AppendProperties
    <3>2. \A n \in 1..(c + 1) : n \in 1..c \/ n = c + 1
      BY <1>3
    <3>3. \A n \in 1..(c + 1) : new[n] = Append(old, m)[n] /\ new[n] \in MessageRow
      BY <2>4, <2>6, <2>7, <3>1, <3>2 DEF old
    <3>4. new = [n \in 1..(c + 1) |-> new[n]]
      OBVIOUS
    <3> HIDE DEF new
    <3>5. new \in Seq(MessageRow) /\ Len(new) = c + 1
      BY <1>3, <3>3, <3>4
    <3>6. QED
      BY <3>1, <3>3, <3>5, SeqEqual
  <2>9. QED
    BY <1>8, <2>0, <2>2, <2>3, <2>8
<1>9. QED
  BY <1>7, <1>8

\* The two tables that the mapping computes.
lists == [s \in Sessions |-> InOrder(s)]
places == [s \in Sessions |-> Listed(s)]

\* An insert begins a message of its session.
LEMMA Appends ==
    ASSUME Inv, OnceOK, ListsOK, ListsOK', NEW p \in Posts, NEW role \in Role,
           Insert(role, p), work[p] # "none",
           UNCHANGED <<ask, sessions, runs, channel_messages>>
    PROVE  Store!Next
<1> DEFINE m == [role |-> role, run |-> p]
           t == ask[p].session
<1>1. t \in Sessions /\ m \in MessageRow /\ m.run = p
  BY DEF Inv, PostOK, MessageRow
<1>2. \A s \in Sessions : /\ InOrder(s)' = IF s = t THEN Append(InOrder(s), m) ELSE InOrder(s)
                          /\ Listed(s)' = Listed(s)
  <2>0. messages' = Append(messages, m) /\ UNCHANGED <<ask, committed>>
    BY DEF Insert
  <2> HIDE DEF m
  <2>1. QED
    BY <1>1, <2>0, ListsGrow DEF Inv
<1>3. lists' = [lists EXCEPT ![t] = Append(@, m)] /\ places' = places
  <2> HIDE DEF m, t
  <2>1. QED
    BY <1>1, <1>2 DEF lists, places
<1>4. m \in Store!Message
  BY DEF Store!Message, Role
<1>5. Store!AppendAgentMessage(t)
  BY <1>3, <1>4 DEF Store!AppendAgentMessage, lists, places
<1>6. QED
  BY <1>1, <1>5 DEF Store!Next

\* A commit lists it.
LEMMA Lists ==
    ASSUME Inv, OnceOK, ListsOK, ListsOK', NEW p \in Posts, NEW role \in Role,
           Commit(role, p), UNCHANGED <<ask, sessions, runs, channel_messages>>
    PROVE  Store!Next
<1>1. PICK i \in DOMAIN messages :
        messages[i] = [role |-> role, run |-> p] /\ committed' = committed \cup {i}
  BY DEF Commit
<1>2. messages' = messages
  BY DEF Commit
<1> DEFINE t == ask[p].session
           n == Rank(i, Rows(t))
<1>3. t \in Sessions /\ i \in Rows(t) /\ \A s \in Sessions : s # t => i \notin Rows(s)
  BY <1>1 DEF Rows, Inv, MessagesOK, PostOK
<1>4. \A s \in Sessions : Rows(s)' = Rows(s)
  BY <1>2 DEF Rows
<1>5. \A s \in Sessions : Listed(s)' = IF s = t THEN Listed(s) \cup {n} ELSE Listed(s)
  <2>1. ASSUME NEW s \in Sessions
        PROVE  /\ Listed(s) = {Rank(j, Rows(s)) : j \in Rows(s) \cap committed}
               /\ Listed(s)' = {Rank(j, Rows(s)) : j \in Rows(s) \cap (committed \cup {i})}
    BY <1>1, <1>4 DEF ListsOK
  <2>2. QED
    BY <1>3, <2>1
<1>6. /\ InOrder(t) = [k \in 1..Cardinality(Rows(t)) |-> messages[Nth(k, Rows(t))]]
      /\ \A s \in Sessions : InOrder(s)' = InOrder(s)
  BY <1>2, <1>3, <1>4 DEF ListsOK
<1>7. n \in DOMAIN InOrder(t)
  <2>1. n \in 1..Cardinality(Rows(t))
    BY <1>3, RowsFinite, RankGrows DEF Inv
  <2>2. QED
    BY <1>6, <2>1
<1> HIDE DEF n, t
<1>8. lists' = lists /\ places' = [places EXCEPT ![t] = @ \cup {n}]
  BY <1>3, <1>5, <1>6 DEF lists, places
<1>9. n \in DOMAIN lists[t]
  BY <1>3, <1>7 DEF lists
<1>10. Store!ListMessage(t)
  BY <1>8, <1>9 DEF Store!ListMessage, lists, places
<1>11. QED
  BY <1>3, <1>10 DEF Store!Next

\* The lists see nothing of a change of a post without messages.
LEMMA ListsUnchanged ==
    ASSUME Inv, ListsOK, ListsOK', UNCHANGED chat,
           \A p \in Posts : work[p] # "none" => ask'[p] = ask[p]
    PROVE  lists' = lists /\ places' = places
<1>1. messages \in Seq(MessageRow)
  BY DEF Inv, TypeOK, MessageRow
<1>2. \A i \in DOMAIN messages : messages[i] \in MessageRow
  BY <1>1, ElementOfSeq, LenProperties
<1>3. \A i \in DOMAIN messages : messages[i].run \in Posts /\ work[messages[i].run] # "none"
  BY <1>2 DEF Inv, MessagesOK, MessageRow
<1>4. QED
  BY <1>3, ListsStay DEF lists, places, chat

\* What a post does to the tables is one call of the store, or a part of one, or none.
LEMMA GatewayStores ==
    ASSUME Inv, OnceOK, ListsOK, ListsOK', NEW p \in Posts,
           Accept(p) \/ Gateway(p) \/ Fail(p)
    PROVE  [Store!Next]_(Store!vars)
<1> USE DEF Inv, TypeOK, PostOK, tables, posting, working, reading
<1>1. CASE Accept(p) \/ Fail(p) \/ Stamp(p) \/ Publish(p)
  <2>1. UNCHANGED <<sessions, runs, chat, channel_messages>>
    BY <1>1 DEF Accept, Fail, Stamp, Publish
  <2>2. \A q \in Posts : work[q] # "none" => ask'[q] = ask[q]
    BY <1>1 DEF Accept, Fail, Stamp, Publish
  <2>3. lists' = lists /\ places' = places
    BY <2>1, <2>2, ListsUnchanged
  <2>4. QED
    BY <2>1, <2>3 DEF Store!vars, Store!chat, lists, places
<1>2. CASE OpenForChannel(p)
  <2>1. PICK s \in Sessions : /\ sessions' = sessions \cup {s}
                              /\ ask' = [ask EXCEPT ![p].session = s]
    BY <1>2 DEF OpenForChannel
  <2>2. UNCHANGED <<runs, chat, channel_messages>>
    BY <1>2 DEF OpenForChannel
  <2>3. \A q \in Posts : work[q] # "none" => ask'[q] = ask[q]
    BY <1>2, <2>1 DEF OpenForChannel
  <2>4. lists' = lists /\ places' = places
    BY <2>2, <2>3, ListsUnchanged
  <2>5. Store!CreateAgentSession(s)
    BY <2>1, <2>2, <2>4 DEF Store!CreateAgentSession, Store!chat, lists, places
  <2>6. QED
    BY <2>5 DEF Store!Next
<1>3. CASE InsertRun(p)
  <2>1. /\ runs[p] = "none" /\ runs' = [runs EXCEPT ![p] = "queued"]
        /\ UNCHANGED <<sessions, chat, channel_messages, ask>>
    BY <1>3 DEF InsertRun
  <2>2. lists' = lists /\ places' = places
    BY <2>1, ListsUnchanged
  <2>3. Store!CreateRun(p)
    BY <2>1, <2>2 DEF Store!CreateRun, Store!chat, lists, places
  <2>4. QED
    BY <2>3 DEF Store!Next
<1>4. CASE InsertQuestion(p)
  BY <1>4, Appends DEF InsertQuestion, Role
<1>5. CASE CommitQuestion(p)
  BY <1>5, Lists DEF CommitQuestion, Role
<1>6. CASE RecordChannel(p)
  <2>1. /\ channel_messages' = channel_messages \cup {p}
        /\ UNCHANGED <<sessions, runs, chat, ask>>
    BY <1>6 DEF RecordChannel
  <2>2. lists' = lists /\ places' = places
    BY <2>1, ListsUnchanged
  <2>3. Store!RecordChannelMessage(p)
    BY <2>1, <2>2 DEF Store!RecordChannelMessage, Store!chat, lists, places
  <2>4. QED
    BY <2>3 DEF Store!Next
<1>7. QED
  BY <1>1, <1>2, <1>3, <1>4, <1>5, <1>6 DEF Gateway

\* So is what a worker does.
LEMMA WorkerStores ==
    ASSUME Inv, OnceOK, ListsOK, ListsOK', NEW p \in Posts, Worker(p)
    PROVE  [Store!Next]_(Store!vars)
<1> USE DEF Inv, TypeOK, PostOK, tables, posting, reading
<1>1. CASE Start(p) \/ Succeed(p) \/ EndOtherwise(p)
  <2>1. /\ runs[p] # "none" /\ \E status \in RunStatus : runs' = [runs EXCEPT ![p] = status]
        /\ UNCHANGED <<sessions, chat, channel_messages, ask>>
    BY <1>1 DEF Start, Succeed, EndOtherwise, RunStatus
  <2>2. lists' = lists /\ places' = places
    BY <2>1, ListsUnchanged
  <2>3. Store!UpdateRun(p)
    BY <2>1, <2>2 DEF Store!UpdateRun, Store!chat, lists, places, Store!RunStatus, RunStatus
  <2>4. QED
    BY <2>3 DEF Store!Next
<1>2. CASE RecordArtifacts(p)
  <2>1. UNCHANGED <<sessions, runs, chat, channel_messages, ask>>
    BY <1>2 DEF RecordArtifacts
  <2>2. lists' = lists /\ places' = places
    BY <2>1, ListsUnchanged
  <2>3. QED
    BY <2>1, <2>2 DEF Store!vars, Store!chat, lists, places
<1>3. CASE InsertResponse(p)
  BY <1>3, Appends DEF InsertResponse, Role
<1>4. CASE CommitResponse(p)
  BY <1>4, Lists DEF CommitResponse, Role
<1>5. QED
  BY <1>1, <1>2, <1>3, <1>4 DEF Worker

\* If the ids of the messages have one length, the tables implement SessionStore: though two
\* messages that are stored together may appear in either order, each gets its place below all
\* the messages whose inserts had drawn their ids, and keeps it.
THEOREM TablesImplementStore ==
    ASSUME IdsOfOneLength
    PROVE  Spec => TablesAreStore
<1>1. Init => Store!Init
  <2> SUFFICES ASSUME Init PROVE Store!Init
    OBVIOUS
  <2>1. ASSUME NEW s \in Sessions PROVE InOrder(s) = <<>> /\ Listed(s) = {}
    <3>1. Rows(s) = {}
      BY DEF Init, Rows
    <3>2. Cardinality(Rows(s)) = 0
      BY <3>1, FS_EmptySet
    <3>3. InOrder(s) = <<>>
      BY <3>2 DEF InOrder
    <3>4. QED
      BY <3>1, <3>3 DEF Listed
  <2>2. QED
    BY <2>1 DEF Init, Store!Init
<1>2. ASSUME Inv, OnceOK, ListsOK, ListsOK', [Next]_vars
      PROVE  [Store!Next]_(Store!vars)
  <2>1. CASE (\E c \in Readers : Reader(c)) \/ RecordElsewhere \/ UNCHANGED vars
    <3>1. UNCHANGED <<sessions, runs, chat, channel_messages, ask>>
      BY <2>1 DEF vars, tables, posting, Reader, ReadMessages, ReadRuns, Enrich, Return,
         RecordElsewhere
    <3>2. lists' = lists /\ places' = places
      BY <1>2, <3>1, ListsUnchanged
    <3>3. QED
      BY <3>1, <3>2 DEF Store!vars, Store!chat, lists, places
  <2>2. ASSUME NEW s \in Sessions, OpenSession(s) PROVE [Store!Next]_(Store!vars)
    <3>1. /\ sessions' = sessions \cup {s}
          /\ UNCHANGED <<runs, chat, channel_messages, ask>>
      BY <2>2 DEF OpenSession, posting
    <3>2. lists' = lists /\ places' = places
      BY <1>2, <3>1, ListsUnchanged
    <3>3. Store!CreateAgentSession(s)
      BY <3>1, <3>2 DEF Store!CreateAgentSession, Store!chat, lists, places
    <3>4. QED
      BY <3>3 DEF Store!Next
  <2>3. QED
    BY <1>2, <2>1, <2>2, GatewayStores, WorkerStores DEF Next
<1>3. Spec => []ListsOK
  <2>1. TypeOK /\ OnceOK => ListsOK
    BY ListsAre
  <2>2. Inv => TypeOK
    BY DEF Inv
  <2>3. QED
    BY InvAlways, OnceAlways, <2>1, <2>2, PTL
<1>4. QED
  BY InvAlways, OnceAlways, <1>1, <1>2, <1>3, PTL DEF Spec, TablesAreStore, Store!Spec

=============================================================================
