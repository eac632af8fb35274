---------------------------- MODULE AgentSession ----------------------------
(***************************************************************************)
(* The sessions of one user with one agent. The gateway turns a posted     *)
(* message into a run and a user message, row by row; the worker that      *)
(* executes the run stores its artifact and the agent's message before it  *)
(* reports success; a reader of the history puts messages, runs and        *)
(* artifacts together again from one query after the other.                *)
(*                                                                         *)
(* A post and its run are one: Posts are also the run ids. The runs of     *)
(* other sessions, agents and users are Strangers: they meet these in the  *)
(* ids of artifacts, which are global.                                     *)
(***************************************************************************)
EXTENDS RunStatuses, RowOrder, Naturals, Sequences, FiniteSets

CONSTANTS
    Sessions,      \* the sessions that may be opened
    Posts,         \* the requests that post a message
    Strangers,     \* the runs of everybody else
    AgentIds,      \* the ids that agents make up for their artifacts
    Texts,         \* the texts that are posted
    Channels,      \* the channels that requests name
    Exposed,       \* manifest: spec.agent.exposedChannels
    Owned,         \* manifest: spec.agent.externalOwnedChannels
    Direct,        \* not through a channel
    Readers,       \* the requests that read a history
    HistoryLimit,  \* the number of runs that a history looks at: 200
    FirstId,       \* the id of the first message
    None

\* An artifact has the id its agent gave it, or one made from the id of its run.
ArtifactIds == Posts \cup AgentIds

\* A row of artifacts: the run it is listed under, and the run whose output it describes.
ArtifactRow == [run : Posts \cup Strangers, of : Posts \cup Strangers]

Role == {"user", "assistant"}
Request == [session : Sessions \cup {None}, text : Texts, channel : Channels \cup {Direct}]
Item == [role : Role, own : Posts, run : Posts \cup {None},
         status : RunStatus \cup {"none"}, artifacts : SUBSET (Posts \cup Strangers)]

ASSUME Instance ==
    /\ HistoryLimit \in Nat
    /\ FirstId \in Nat \ {0}
    /\ IsFiniteSet(Posts)
    /\ Posts \cap Strangers = {}
    /\ Direct \notin Channels
    /\ None \notin Posts \cup Sessions \cup AgentIds
    /\ None \notin ArtifactRow
    /\ None \notin Request
    /\ None \notin Item

VARIABLES
    sessions,   \* agent_sessions: the sessions that exist
    runs,       \* runs.status, "none" before the row is inserted
    created,    \* runs.created_at
    messages,   \* agent_messages, in the order in which their inserts drew the ids
    committed,  \* the messages whose insert is committed, which are those that show
    artifacts,  \* artifacts: the row of each id, None before it is inserted
    channel_messages,  \* the runs that channel_messages names
    clock,      \* the number of timestamps taken
    ask,        \* gateway: what each post asks
    pc,         \* gateway: the next call of each post
    work,       \* worker: how far each run has come
    given,      \* worker: the id of the artifact of each run
    step,       \* gateway: how far each reader has come
    shown       \* gateway: the item it makes of the message that is followed here

chat    == <<messages, committed>>
tables  == <<sessions, runs, created, chat, artifacts, channel_messages>>
posting == <<clock, ask, pc>>
working == <<work, given>>
reading == <<step, shown>>
vars    == <<tables, posting, working, reading>>

TypeOK ==
    /\ sessions \subseteq Sessions
    /\ runs \in [Posts -> RunStatus \cup {"none"}]
    /\ created \in [Posts -> 0..clock]
    /\ messages \in Seq([role : Role, run : Posts])
    /\ committed \subseteq DOMAIN messages
    /\ artifacts \in [ArtifactIds -> ArtifactRow \cup {None}]
    /\ channel_messages \subseteq Posts
    /\ clock \in Nat
    /\ ask \in [Posts -> Request \cup {None}]
    /\ pc \in [Posts -> {"new", "open", "stamp", "row", "publish", "message", "insert",
                         "channel", "done", "refused", "gone"}]
    /\ work \in [Posts -> {"none", "waiting", "running", "stored", "replying", "replied",
                           "over"}]
    /\ given \in [Posts -> ArtifactIds \cup {None}]
    /\ step \in [Readers -> {"new", "runs", "item", "return"}]
    /\ shown \in [Readers -> Item \cup {None}]

Init ==
    /\ sessions = {}
    /\ runs = [p \in Posts |-> "none"]
    /\ created = [p \in Posts |-> 0]
    /\ messages = <<>>
    /\ committed = {}
    /\ artifacts = [a \in ArtifactIds |-> None]
    /\ channel_messages = {}
    /\ clock = 0
    /\ ask = [p \in Posts |-> None]
    /\ pc = [p \in Posts |-> "new"]
    /\ work = [p \in Posts |-> "none"]
    /\ given = [p \in Posts |-> None]
    /\ step = [c \in Readers |-> "new"]
    /\ shown = [c \in Readers |-> None]

-----------------------------------------------------------------------------
(* Gateway: create_agent_session, post_agent_message and                   *)
(* post_channel_agent_message.                                             *)

OpenSession(s) ==
    /\ s \notin sessions
    /\ sessions' = sessions \cup {s}
    /\ UNCHANGED <<runs, created, chat, artifacts, channel_messages, posting, working,
                   reading>>

\* _validate_agent_channel: the runtime's own channels are refused, exposed or not.
ValidChannel(channel) == channel \notin Owned /\ channel \in Exposed

\* What is refused leaves no trace: the session is unknown or the channel is not served.
Refused(request) ==
    \/ request.session = None /\ request.channel = Direct
    \/ request.session # None /\ request.session \notin sessions
    \/ request.channel # Direct /\ ~ValidChannel(request.channel)

Accept(p) ==
    /\ pc[p] = "new"
    /\ \E request \in Request :
          IF Refused(request)
          THEN pc' = [pc EXCEPT ![p] = "refused"] /\ UNCHANGED ask
          ELSE /\ pc' = [pc EXCEPT ![p] = IF request.session = None THEN "open" ELSE "stamp"]
               /\ ask' = [ask EXCEPT ![p] = request]
    /\ UNCHANGED <<tables, clock, working, reading>>

\* A channel message without a session opens one.
OpenForChannel(p) ==
    /\ pc[p] = "open"
    /\ \E s \in Sessions \ sessions :
          /\ sessions' = sessions \cup {s}
          /\ ask' = [ask EXCEPT ![p].session = s]
    /\ pc' = [pc EXCEPT ![p] = "stamp"]
    /\ UNCHANGED <<runs, created, chat, artifacts, channel_messages, clock, working, reading>>

\* _create_run takes the timestamp, then inserts the row.
Stamp(p) ==
    /\ pc[p] = "stamp"
    /\ clock' = clock + 1
    /\ created' = [created EXCEPT ![p] = clock + 1]
    /\ pc' = [pc EXCEPT ![p] = "row"]
    /\ UNCHANGED <<sessions, runs, chat, artifacts, channel_messages, ask, working, reading>>

\* Fault variant of InsertRun: the row is thought to be enough.
InsertUnpublished(p) ==
    /\ pc[p] = "row"
    /\ runs' = [runs EXCEPT ![p] = "queued"]
    /\ pc' = [pc EXCEPT ![p] = "message"]
    /\ UNCHANGED <<sessions, created, chat, artifacts, channel_messages, clock, ask,
                   working, reading>>

InsertRun(p) ==
    /\ pc[p] = "row"
    /\ runs' = [runs EXCEPT ![p] = "queued"]
    /\ pc' = [pc EXCEPT ![p] = "publish"]
    /\ UNCHANGED <<sessions, created, chat, artifacts, channel_messages, clock, ask,
                   working, reading>>

Publish(p) ==
    /\ pc[p] = "publish"
    /\ work' = [work EXCEPT ![p] = "waiting"]
    /\ pc' = [pc EXCEPT ![p] = "message"]
    /\ UNCHANGED <<tables, clock, ask, given, reading>>

\* append_agent_message: the insert draws its id, and the row shows when it is committed.
Insert(role, p) ==
    messages' = Append(messages, [role |-> role, run |-> p]) /\ UNCHANGED committed

Commit(role, p) ==
    /\ \E i \in DOMAIN messages :
          messages[i] = [role |-> role, run |-> p] /\ committed' = committed \cup {i}
    /\ UNCHANGED messages

InsertQuestion(p) ==
    /\ pc[p] = "message"
    /\ Insert("user", p)
    /\ pc' = [pc EXCEPT ![p] = "insert"]
    /\ UNCHANGED <<sessions, runs, created, artifacts, channel_messages, clock, ask,
                   working, reading>>

CommitQuestion(p) ==
    /\ pc[p] = "insert"
    /\ Commit("user", p)
    /\ pc' = [pc EXCEPT ![p] = IF ask[p].channel = Direct THEN "done" ELSE "channel"]
    /\ UNCHANGED <<sessions, runs, created, artifacts, channel_messages, clock, ask,
                   working, reading>>

RecordChannel(p) ==
    /\ pc[p] = "channel"
    /\ channel_messages' = channel_messages \cup {p}
    /\ pc' = [pc EXCEPT ![p] = "done"]
    /\ UNCHANGED <<sessions, runs, created, chat, artifacts, clock, ask, working, reading>>

\* A call of the gateway fails, or the gateway itself: the request ends where it is, and is
\* remembered by its rows only. An insert that is cut off leaves no row.
Fail(p) ==
    /\ pc[p] \in {"open", "stamp", "row", "publish", "message", "insert", "channel"}
    /\ pc' = [pc EXCEPT ![p] = "gone"]
    /\ ask' = [ask EXCEPT ![p] = IF runs[p] = "none" THEN None ELSE @]
    /\ created' = [created EXCEPT ![p] = IF runs[p] = "none" THEN 0 ELSE @]
    /\ UNCHANGED <<sessions, runs, chat, artifacts, channel_messages, clock, working,
                   reading>>

-----------------------------------------------------------------------------
(* Worker: the part of _process_message that touches a session. What       *)
(* decides between these ways is the subject of RunLifecycle.              *)

Start(p) ==
    /\ work[p] = "waiting"
    /\ work' = [work EXCEPT ![p] = "running"]
    /\ runs' = [runs EXCEPT ![p] = "running"]
    /\ UNCHANGED <<sessions, created, chat, artifacts, channel_messages, posting, given,
                   reading>>

\* record_artifact: where the id is taken, the row gets the new contents and keeps its run_id.
RecordArtifact(id, r) ==
    artifacts' = [artifacts EXCEPT ![id] = [run |-> IF @ = None THEN r ELSE @.run, of |-> r]]

\* _record_artifacts, for a result that has one artifact.
RecordArtifacts(p) ==
    /\ work[p] = "running"
    /\ work' = [work EXCEPT ![p] = "stored"]
    /\ \E id \in {p} \cup AgentIds :
          RecordArtifact(id, p) /\ given' = [given EXCEPT ![p] = id]
    /\ UNCHANGED <<sessions, runs, created, chat, channel_messages, posting, reading>>

\* Another agent, or this one in another user's session, gives an artifact such an id.
RecordElsewhere ==
    /\ \E id \in AgentIds, r \in Strangers : RecordArtifact(id, r)
    /\ UNCHANGED <<sessions, runs, created, chat, channel_messages, posting, working,
                   reading>>

\* _record_agent_response, where the result holds a message of the agent.
InsertResponse(p) ==
    /\ work[p] = "stored"
    /\ Insert("assistant", p)
    /\ work' = [work EXCEPT ![p] = "replying"]
    /\ UNCHANGED <<sessions, runs, created, artifacts, channel_messages, posting, given,
                   reading>>

CommitResponse(p) ==
    /\ work[p] = "replying"
    /\ Commit("assistant", p)
    /\ work' = [work EXCEPT ![p] = "replied"]
    /\ UNCHANGED <<sessions, runs, created, artifacts, channel_messages, posting, given,
                   reading>>

\* Fault variant of Succeed: success is reported before the outputs are stored.
SucceedFirst(p) ==
    /\ work[p] \in {"running", "stored", "replied"}
    /\ work' = [work EXCEPT ![p] = IF @ = "running" THEN @ ELSE "over"]
    /\ runs' = [runs EXCEPT ![p] = "succeeded"]
    /\ UNCHANGED <<sessions, created, chat, artifacts, channel_messages, posting, given,
                   reading>>

Succeed(p) ==
    /\ work[p] \in {"stored", "replied"}
    /\ work' = [work EXCEPT ![p] = "over"]
    /\ runs' = [runs EXCEPT ![p] = "succeeded"]
    /\ UNCHANGED <<sessions, created, chat, artifacts, channel_messages, posting, given,
                   reading>>

\* Fault variant of EndOtherwise: a status that the vocabulary does not have.
EndMisspelt(p) ==
    /\ work[p] \in {"waiting", "running", "stored", "replying", "replied"}
    /\ work' = [work EXCEPT ![p] = "over"]
    /\ runs' = [runs EXCEPT ![p] = "error"]
    /\ UNCHANGED <<sessions, created, chat, artifacts, channel_messages, posting, given,
                   reading>>

\* The run fails, is canceled, or its worker dies and the run is lost; one status stands
\* for the three.
EndOtherwise(p) ==
    /\ work[p] \in {"waiting", "running", "stored", "replying", "replied"}
    /\ work' = [work EXCEPT ![p] = "over"]
    /\ runs' = [runs EXCEPT ![p] = "failed"]
    /\ UNCHANGED <<sessions, created, chat, artifacts, channel_messages, posting, given,
                   reading>>

-----------------------------------------------------------------------------
(* Gateway: list_agent_session_messages. The turns of its loop share      *)
(* nothing but the two lists, so one message of a reading is followed.     *)

\* Runs created after p, of those that are in the table.
Newer(p) == {q \in Posts : runs[q] # "none" /\ created[q] > created[p]}

\* Fault variant of Latest: without DESC.
Oldest(limit) ==
    {p \in Posts :
        /\ runs[p] # "none"
        /\ Cardinality({q \in Posts : runs[q] # "none" /\ created[q] < created[p]}) < limit}

\* list_runs: the latest ones, in whatever session.
Latest(limit) == {p \in Posts : runs[p] # "none" /\ Cardinality(Newer(p)) < limit}

\* list_agent_messages.
ReadMessages(c) ==
    /\ step[c] = "new"
    /\ \E i \in committed :
          shown' = [shown EXCEPT ![c] =
              [role |-> messages[i].role, own |-> messages[i].run,
               run |-> None, status |-> "none", artifacts |-> {}]]
    /\ step' = [step EXCEPT ![c] = "runs"]
    /\ UNCHANGED <<tables, posting, working>>

\* The runs of the session of p, of the latest ones of the agent.
RunsFound(p) == {q \in Latest(HistoryLimit) : ask[q].session = ask[p].session}

\* user_runs: of the runs found with the text of p, the dictionary keeps the oldest.
SameText(p) ==
    LET same == {q \in RunsFound(p) : ask[q].text = ask[p].text}
    IN  {q \in same : \A other \in same : created[q] <= created[other]}

\* The run of a message: the one its context names, if it was found; for a user's message
\* otherwise one with its text.
Linked(role, p) ==
    IF p \in RunsFound(p) THEN {p}
    ELSE IF role = "user" /\ SameText(p) # {} THEN SameText(p)
    ELSE {None}

ReadRuns(c) ==
    /\ step[c] = "runs"
    /\ \E r \in Linked(shown[c].role, shown[c].own) :
          shown' = [shown EXCEPT ![c].run = r,
                                 ![c].status = IF r = None THEN "none" ELSE runs[r]]
    /\ step' = [step EXCEPT ![c] = "item"]
    /\ UNCHANGED <<tables, posting, working>>

\* list_artifacts: the rows under a run's id, in whatever run's output they describe.
ListArtifacts(r) == {a \in ArtifactIds : r # None /\ artifacts[a] # None /\ artifacts[a].run = r}

\* The turn of the loop for the message, with its query of the run's artifacts.
Enrich(c) ==
    /\ step[c] = "item"
    /\ shown' = [shown EXCEPT ![c].artifacts =
          {row.of : row \in {artifacts[a] : a \in ListArtifacts(shown[c].run)}}]
    /\ step' = [step EXCEPT ![c] = "return"]
    /\ UNCHANGED <<tables, posting, working>>

Return(c) ==
    /\ step[c] = "return"
    /\ step' = [step EXCEPT ![c] = "new"]
    /\ shown' = [shown EXCEPT ![c] = None]
    /\ UNCHANGED <<tables, posting, working>>

-----------------------------------------------------------------------------

Gateway(p) ==
    \/ OpenForChannel(p) \/ Stamp(p) \/ InsertRun(p) \/ Publish(p)
    \/ InsertQuestion(p) \/ CommitQuestion(p) \/ RecordChannel(p)

Worker(p) ==
    \/ Start(p) \/ RecordArtifacts(p) \/ InsertResponse(p) \/ CommitResponse(p)
    \/ Succeed(p) \/ EndOtherwise(p)

Reader(c) == ReadMessages(c) \/ ReadRuns(c) \/ Enrich(c) \/ Return(c)

Next ==
    \/ \E s \in Sessions : OpenSession(s)
    \/ \E p \in Posts : Accept(p) \/ Gateway(p) \/ Fail(p) \/ Worker(p)
    \/ \E c \in Readers : Reader(c)
    \/ RecordElsewhere

Spec == Init /\ [][Next]_vars

-----------------------------------------------------------------------------
(* Properties.                                                             *)

\* A message or a channel record that is stored names a run that was published, whatever
\* became of its request: no history shows a message for which no worker was asked.
MessagesWereSent ==
    /\ \A i \in committed : work[messages[i].run] # "none"
    /\ \A p \in channel_messages :
          \E i \in committed : messages[i] = [role |-> "user", run |-> p]

\* What a history shows has the run of its message beyond the limit of the query.
BeyondLimit(item) == Cardinality(Newer(item.own)) >= HistoryLimit

\* A history shows every message with the run it started or answers, however the reading
\* falls between the steps of the gateways and workers; only beyond the limit of the query
\* a message is shown without a run, or a user's message with one of the same text.
HistoryLinksOwnRuns ==
    \A c \in Readers : step[c] \in {"item", "return"} =>
        LET item == shown[c] IN
        \/ item.run = item.own
        \/ BeyondLimit(item) /\ (item.run = None \/ item.role = "user")

\* Somebody else's output was recorded under the id of p's artifact, before p's or after it.
Shared(p) ==
    /\ given[p] # None
    /\ \E other \in (Posts \cup Strangers) \ {p} :
          other \in {artifacts[given[p]].run, artifacts[given[p]].of}

\* A run that a history shows as succeeded is shown with its own artifact, however the
\* reading falls between the worker's writes, unless another run used the artifact's id. That
\* exception is the code's: the demo agent has one id for all the runs of a session.
ShownSuccessIsWhole ==
    \A c \in Readers : step[c] = "return" =>
        LET item == shown[c] IN
        item.status = "succeeded" => item.run \in item.artifacts \/ Shared(item.run)

-----------------------------------------------------------------------------
(* The tables as what SessionStore promises.                               *)

\* The order of the ids, which the messages get in the order of their inserts; a post makes
\* two messages at most.
Indices == 1..(2 * Cardinality(Posts))

UpTo == [i \in Indices |-> {j \in Indices : TextAtMost(FirstId + j - 1, FirstId + i - 1)}]

\* The rows of a session, those of open inserts included, and the place of a row among them:
\* list_agent_messages(s) gives the committed ones in the order of their places.
Rows(s) == {i \in DOMAIN messages : ask[messages[i].run].session = s}
Place(i, s) == Cardinality(Rows(s) \cap UpTo[i])
InOrder(s) ==
    [n \in 1..Cardinality(Rows(s)) |-> messages[CHOOSE i \in Rows(s) : Place(i, s) = n]]
Listed(s) == {Place(i, s) : i \in Rows(s) \cap committed}

\* The tables keep the promises of the store, as long as the ids of the messages have one
\* length.
Store == INSTANCE SessionStore WITH
    Runs     <- Posts,
    messages <- [s \in Sessions |-> InOrder(s)],
    listed   <- [s \in Sessions |-> Listed(s)]
TablesAreStore == Store!Spec

=============================================================================
