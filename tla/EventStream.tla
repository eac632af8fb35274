---------------------------- MODULE EventStream ----------------------------
(***************************************************************************)
(* The events of one run: gateways, workers and sweepers insert rows into  *)
(* run_events, each over a connection of its own, and the gateway streams  *)
(* the table to clients by reading all of it every second.                 *)
(*                                                                         *)
(* The id of a row is drawn from a sequence that all runs share when the   *)
(* insert begins; readers see the row when it commits, so a smaller id may *)
(* appear after a larger one.                                              *)
(***************************************************************************)
EXTENDS RowOrder, Sequences, Functions

CONSTANTS
    Writers,     \* the processes that append events to the run
    Clients,     \* the clients that follow the run
    FirstId,     \* the first id that the run's writers may draw
    LastId,      \* bound: the last one
    None         \* no insert in progress

Ids == FirstId..LastId

ASSUME Bound ==
    /\ FirstId \in Nat \ {0}
    /\ LastId \in Nat
    /\ FirstId <= LastId
    /\ None \notin Ids

VARIABLES
    nextId,      \* Postgres: the id that the sequence gives away next
    inserting,   \* Postgres: the id of each writer's insert that has not committed
    rows,        \* Postgres: the ids of the rows that readers see
    earlier,     \* the rows that were there when an id was drawn
    pc,          \* gateway: where a client's generator is
    entries,     \* gateway: what remains of the generator's last reading of the table
    seen,        \* gateway: the generator's variable of that name
    sent         \* the events a client got since it connected, in order

table  == <<nextId, inserting, rows, earlier>>
stream == <<pc, entries, seen, sent>>
vars   == <<table, stream>>

TypeOK ==
    /\ nextId \in FirstId..(LastId + 1)
    /\ inserting \in [Writers -> Ids \cup {None}]
    /\ rows \subseteq {i \in Ids : i < nextId}
    /\ earlier \in [Ids -> SUBSET Ids]
    /\ pc \in [Clients -> {"gone", "reading", "sending"}]
    /\ entries \in [Clients -> SUBSET rows]
    /\ seen \in [Clients -> SUBSET rows]
    /\ sent \in [Clients -> Seq(rows)]

Init ==
    /\ nextId = FirstId
    /\ inserting = [w \in Writers |-> None]
    /\ rows = {}
    /\ earlier = [i \in Ids |-> {}]
    /\ pc = [c \in Clients |-> "gone"]
    /\ entries = [c \in Clients |-> {}]
    /\ seen = [c \in Clients |-> {}]
    /\ sent = [c \in Clients |-> <<>>]

-----------------------------------------------------------------------------
(* append_run_event: one INSERT outside any other transaction.             *)

Insert(w) ==
    /\ inserting[w] = None
    /\ nextId <= LastId
    /\ nextId' = nextId + 1
    /\ inserting' = [inserting EXCEPT ![w] = nextId]
    /\ earlier' = [earlier EXCEPT ![nextId] = rows]
    /\ UNCHANGED <<rows, stream>>

Commit(w) ==
    /\ inserting[w] # None
    /\ rows' = rows \cup {inserting[w]}
    /\ inserting' = [inserting EXCEPT ![w] = None]
    /\ UNCHANGED <<nextId, earlier, stream>>

\* The insert fails or its writer dies: the id is not given away again.
Abort(w) ==
    /\ inserting[w] # None
    /\ inserting' = [inserting EXCEPT ![w] = None]
    /\ UNCHANGED <<nextId, rows, earlier, stream>>

-----------------------------------------------------------------------------
(* stream_run_events: a generator per connection.                          *)

\* The id of the last event a client got is not asked for: seen starts empty.
Connect(c) ==
    /\ pc[c] = "gone"
    /\ pc' = [pc EXCEPT ![c] = "reading"]
    /\ entries' = [entries EXCEPT ![c] = {}]
    /\ seen' = [seen EXCEPT ![c] = {}]
    /\ sent' = [sent EXCEPT ![c] = <<>>]
    /\ UNCHANGED table

\* Fault variant of Read: the query only asks for what comes after the last event sent.
ReadAfterLast(c) ==
    /\ pc[c] = "reading"
    /\ pc' = [pc EXCEPT ![c] = "sending"]
    /\ entries' = [entries EXCEPT ![c] = {i \in rows : \A j \in seen[c] : j < i}]
    /\ UNCHANGED <<table, seen, sent>>

\* Fault variant of Read: the query also returns rows that have not committed.
ReadUncommitted(c) ==
    /\ pc[c] = "reading"
    /\ pc' = [pc EXCEPT ![c] = "sending"]
    /\ entries' = [entries EXCEPT ![c] = {i \in Ids : i < nextId}]
    /\ UNCHANGED <<table, seen, sent>>

\* list_run_events: all rows of the run.
Read(c) ==
    /\ pc[c] = "reading"
    /\ pc' = [pc EXCEPT ![c] = "sending"]
    /\ entries' = [entries EXCEPT ![c] = rows]
    /\ UNCHANGED <<table, seen, sent>>

\* Fault variant of Take: the rows come in an order of their own, as they would by the
\* timestamps of their writers.
TakeAnyOrder(c) ==
    /\ pc[c] = "sending"
    /\ \E i \in entries[c] :
          /\ entries' = [entries EXCEPT ![c] = @ \ {i}]
          /\ seen' = [seen EXCEPT ![c] = @ \cup {i}]
          /\ sent' = [sent EXCEPT ![c] = IF i \in seen[c] THEN @ ELSE Append(@, i)]
    /\ UNCHANGED <<table, pc>>

\* Fault variant of Take: what is sent is not remembered.
TakeAgain(c) ==
    /\ pc[c] = "sending"
    /\ \E i \in entries[c] :
          /\ \A j \in entries[c] : TextAtMost(i, j)
          /\ entries' = [entries EXCEPT ![c] = @ \ {i}]
          /\ sent' = [sent EXCEPT ![c] = Append(@, i)]
    /\ UNCHANGED <<table, pc, seen>>

\* The body of the loop over the entries, which come in the order of the texts of their
\* ids: an entry that was seen is passed over, another
\* is marked and sent. The client may take its time to receive it.
Take(c) ==
    /\ pc[c] = "sending"
    /\ \E i \in entries[c] :
          /\ \A j \in entries[c] : TextAtMost(i, j)
          /\ entries' = [entries EXCEPT ![c] = @ \ {i}]
          /\ seen' = [seen EXCEPT ![c] = @ \cup {i}]
          /\ sent' = [sent EXCEPT ![c] = IF i \in seen[c] THEN @ ELSE Append(@, i)]
    /\ UNCHANGED <<table, pc>>

\* The entries are through; the generator sleeps and reads again. It never ends by itself.
Sleep(c) ==
    /\ pc[c] = "sending"
    /\ entries[c] = {}
    /\ pc' = [pc EXCEPT ![c] = "reading"]
    /\ UNCHANGED <<table, entries, seen, sent>>

\* The client goes away, or the reading fails and ends the generator.
Disconnect(c) ==
    /\ pc[c] # "gone"
    /\ pc' = [pc EXCEPT ![c] = "gone"]
    /\ UNCHANGED <<table, entries, seen, sent>>

Generator(c) == Read(c) \/ Take(c) \/ Sleep(c)

Next ==
    \/ \E w \in Writers : Insert(w) \/ Commit(w) \/ Abort(w)
    \/ \E c \in Clients : Connect(c) \/ Generator(c) \/ Disconnect(c)

\* A query is answered, a connected client receives, and a sleep ends.
Spec == Init /\ [][Next]_vars /\ \A c \in Clients : WF_vars(Generator(c))

-----------------------------------------------------------------------------
(* Properties.                                                             *)

\* What a client gets is a feed of the table: nothing twice, and nothing that is not in it.
Feed == INSTANCE EventFeed WITH Events <- Ids, published <- rows, received <- sent
StreamIsFeed == Feed!Spec

\* A row that readers see reaches every client that stays connected, however late its
\* insert committed.
EveryEventArrives ==
    \A c \in Clients, i \in Ids :
        i \in rows /\ pc[c] # "gone" ~> i \in Range(sent[c]) \/ pc[c] = "gone"

\* The event i was sent to c before the n-th one.
SentBefore(c, i, n) == \E m \in 1..(n - 1) : sent[c][m] = i

\* An event comes after all those that were there when its writer began, as far as their
\* ids have as many digits as its own: writers that overlap, or wait for each other,
\* are told apart.
FeedKeepsOrder ==
    \A c \in Clients : \A n \in DOMAIN sent[c] : \A i \in earlier[sent[c][n]] :
        Digits(i) = Digits(sent[c][n]) => SentBefore(c, i, n)

\* An event comes after all those that were there when its writer began: what
\* InMemoryControlPlaneRepository.list_run_events gives, and what makes the last one of
\* the list the latest event.
EventsInOrder ==
    \A c \in Clients : \A n \in DOMAIN sent[c] : \A i \in earlier[sent[c][n]] :
        SentBefore(c, i, n)

=============================================================================
