------------------------- MODULE EventStreamProofs -------------------------
(***************************************************************************)
(* Theorems about EventStream, for any writers, any clients and any ids.   *)
(***************************************************************************)
EXTENDS EventStream, TLAPS

\* An insert in progress has an id of its own, which readers do not see.
InsertsOK ==
    /\ \A w \in Writers : inserting[w] # None => inserting[w] \notin rows /\ inserting[w] < nextId
    /\ \A v, w \in Writers : v # w /\ inserting[v] = inserting[w] => inserting[w] = None

\* The generator remembers exactly what it has sent.
SeenOK == \A c \in Clients : seen[c] = Range(sent[c])

\* What was there before a row is there still, with smaller ids.
EarlierOK == \A i \in Ids : earlier[i] \subseteq {j \in rows : j < i}

\* Of what was there before an entry that is still to be taken, nothing of its length
\* has been left out.
EntriesOK ==
    \A c \in Clients : \A i \in entries[c] : \A j \in earlier[i] :
        Digits(i) = Digits(j) => j \in entries[c] \cup seen[c]

Inv == TypeOK /\ InsertsOK /\ SeenOK /\ EarlierOK /\ EntriesOK /\ FeedKeepsOrder

\* Rows only have ids that were drawn.
LEMMA RowsDrawn == ASSUME TypeOK PROVE rows \subseteq Ids /\ \A i \in rows : i < nextId
BY DEF TypeOK

\* Ids with as many digits are ordered by their texts as by their values.
LEMMA SameLength ==
    ASSUME NEW i \in Ids, NEW j \in Ids, Digits(i) = Digits(j), TextAtMost(i, j)
    PROVE  i <= j
BY DEF TextAtMost

LEMMA AppendRange ==
    ASSUME NEW S, NEW s \in Seq(S), NEW x
    PROVE  /\ Range(Append(s, x)) = Range(s) \cup {x}
           /\ Len(Append(s, x)) = Len(s) + 1
           /\ Append(s, x)[Len(s) + 1] = x
           /\ \A n \in 1..Len(s) : Append(s, x)[n] = s[n]
BY DEF Range

LEMMA InitInv == Init => Inv
<1> SUFFICES ASSUME Init PROVE Inv
  OBVIOUS
<1>1. TypeOK
  BY Bound DEF Init, TypeOK, Ids
<1>2. InsertsOK /\ EarlierOK /\ EntriesOK
  BY DEF Init, InsertsOK, EarlierOK, EntriesOK
<1>3. SeenOK
  BY DEF Init, SeenOK, Range
<1>4. FeedKeepsOrder
  BY DEF Init, FeedKeepsOrder
<1> QED
  BY <1>1, <1>2, <1>3, <1>4 DEF Inv

-----------------------------------------------------------------------------
\* A step of a writer keeps the invariant.
LEMMA WriterKeeps ==
    ASSUME Inv, NEW w \in Writers, Insert(w) \/ Commit(w) \/ Abort(w)
    PROVE  Inv'
<1> USE DEF Inv
<1>r. rows \subseteq Ids /\ \A i \in rows : i < nextId
  BY RowsDrawn
<1>n. nextId \in FirstId..(LastId + 1) /\ FirstId \in Nat /\ LastId \in Nat
  BY Bound DEF TypeOK
<1>1. CASE Insert(w)
  <2>1. nextId \in Ids /\ nextId' = nextId + 1 /\ UNCHANGED <<rows, stream>>
        /\ inserting' = [inserting EXCEPT ![w] = nextId]
        /\ earlier' = [earlier EXCEPT ![nextId] = rows]
    BY <1>1, <1>n DEF Insert, Ids
  <2>2. TypeOK'
    BY <2>1, <1>n, <1>r DEF TypeOK, stream, Ids
  <2>3. InsertsOK'
    BY <2>1, <1>n, <1>r, Bound DEF InsertsOK, TypeOK, Ids
  <2>4. SeenOK'
    BY <2>1 DEF SeenOK, stream
  <2>5. EarlierOK'
    BY <2>1, <1>r DEF EarlierOK, TypeOK
  <2>6. \A i \in rows : earlier'[i] = earlier[i]
    BY <2>1, <1>r, <1>n DEF TypeOK, Ids
  <2>7. EntriesOK'
    BY <2>1, <2>6 DEF EntriesOK, TypeOK, stream
  <2>8. FeedKeepsOrder'
    <3>1. \A c \in Clients : \A n \in DOMAIN sent[c] : sent[c][n] \in rows
      BY DEF TypeOK
    <3> QED
      BY <2>1, <2>6, <3>1 DEF FeedKeepsOrder, SentBefore, stream
  <2> QED
    BY <2>2, <2>3, <2>4, <2>5, <2>7, <2>8
<1>2. CASE Commit(w)
  <2>1. inserting[w] \in Ids /\ inserting[w] < nextId /\ rows' = rows \cup {inserting[w]}
        /\ inserting' = [inserting EXCEPT ![w] = None] /\ UNCHANGED <<nextId, earlier, stream>>
    BY <1>2 DEF Commit, InsertsOK, TypeOK
  <2>2. TypeOK'
    <3>1. \A c \in Clients : sent'[c] \in Seq(rows')
      BY <2>1 DEF TypeOK, stream
    <3> QED
      BY <2>1, <3>1 DEF TypeOK, stream
  <2>3. InsertsOK'
    BY <2>1, Bound DEF InsertsOK, TypeOK
  <2>4. SeenOK' /\ EarlierOK' /\ EntriesOK'
    BY <2>1 DEF SeenOK, EarlierOK, EntriesOK, stream
  <2>5. FeedKeepsOrder'
    BY <2>1 DEF FeedKeepsOrder, SentBefore, stream
  <2> QED
    BY <2>2, <2>3, <2>4, <2>5
<1>3. CASE Abort(w)
  <2>1. inserting' = [inserting EXCEPT ![w] = None] /\ UNCHANGED <<nextId, rows, earlier, stream>>
    BY <1>3 DEF Abort
  <2>2. TypeOK' /\ InsertsOK'
    BY <2>1, Bound DEF TypeOK, InsertsOK, stream
  <2>3. SeenOK' /\ EarlierOK' /\ EntriesOK' /\ FeedKeepsOrder'
    BY <2>1 DEF SeenOK, EarlierOK, EntriesOK, FeedKeepsOrder, SentBefore, stream
  <2> QED
    BY <2>2, <2>3
<1> QED
  BY <1>1, <1>2, <1>3

\* A generator that takes an entry keeps the invariant.
LEMMA TakeKeeps == ASSUME Inv, NEW c \in Clients, Take(c) PROVE Inv'
<1> USE DEF Inv
<1>1. PICK i \in entries[c] :
        /\ \A j \in entries[c] : TextAtMost(i, j)
        /\ entries' = [entries EXCEPT ![c] = @ \ {i}]
        /\ seen' = [seen EXCEPT ![c] = @ \cup {i}]
        /\ sent' = [sent EXCEPT ![c] = IF i \in seen[c] THEN @ ELSE Append(@, i)]
        /\ UNCHANGED <<table, pc>>
  BY DEF Take
<1>2. i \in rows /\ i \in Ids /\ rows \subseteq Ids /\ sent[c] \in Seq(rows)
      /\ entries[c] \subseteq rows
  BY RowsDrawn DEF TypeOK
<1>3. /\ \A d \in Clients \ {c} : sent'[d] = sent[d] /\ seen'[d] = seen[d] /\ entries'[d] = entries[d]
      /\ seen'[c] = seen[c] \cup {i}
      /\ entries'[c] = entries[c] \ {i}
      /\ sent'[c] = IF i \in seen[c] THEN sent[c] ELSE Append(sent[c], i)
  BY <1>1 DEF TypeOK
<1>4. TypeOK'
  <2>1. sent'[c] \in Seq(rows)
    BY <1>2, <1>3
  <2> QED
    BY <1>1, <1>2, <1>3, <2>1 DEF TypeOK, table
<1>5. InsertsOK' /\ EarlierOK'
  BY <1>1 DEF InsertsOK, EarlierOK, table
<1>6. SeenOK'
  <2>1. ASSUME i \notin seen[c] PROVE Range(sent'[c]) = Range(sent[c]) \cup {i}
    BY <1>2, <1>3, <2>1, AppendRange
  <2>2. seen'[c] = Range(sent'[c])
    BY <1>3, <2>1 DEF SeenOK
  <2>3. ASSUME NEW d \in Clients \ {c} PROVE seen'[d] = Range(sent'[d])
    <3>1. seen'[d] = seen[d] /\ sent'[d] = sent[d]
      BY <1>3
    <3>2. seen[d] = Range(sent[d])
      BY DEF SeenOK
    <3> QED
      BY <3>1, <3>2
  <2>4. \A d \in Clients : seen'[d] = Range(sent'[d])
    BY <2>2, <2>3
  <2> QED
    BY <2>4, Zenon DEF SeenOK, Range
<1>7. EntriesOK'
  BY <1>1, <1>3 DEF EntriesOK, table
<1>8. FeedKeepsOrder'
  <2> SUFFICES ASSUME NEW d \in Clients, NEW n \in DOMAIN sent'[d], NEW j \in earlier[sent'[d][n]],
                      Digits(j) = Digits(sent'[d][n])
               PROVE  SentBefore(d, j, n)'
    BY <1>1 DEF FeedKeepsOrder, table
  <2>1. CASE d # c \/ i \in seen[c]
    BY <2>1, <1>3 DEF FeedKeepsOrder, SentBefore
  <2>2. CASE d = c /\ i \notin seen[c]
    <3> DEFINE s == sent[c]
    <3>1. /\ sent'[c] = Append(s, i) /\ Len(sent'[c]) = Len(s) + 1
          /\ sent'[c][Len(s) + 1] = i /\ \A m \in 1..Len(s) : sent'[c][m] = s[m]
      BY <1>2, <1>3, <2>2, AppendRange
    <3>2. n \in 1..(Len(s) + 1) /\ Len(s) \in Nat
      BY <1>2, <2>2, <3>1
    <3>3. CASE n <= Len(s)
      <4>1. n \in DOMAIN s /\ sent'[c][n] = s[n]
        BY <1>2, <3>1, <3>2, <3>3
      <4>2. SentBefore(c, j, n)
        BY <2>2, <4>1 DEF FeedKeepsOrder
      <4> QED
        BY <2>2, <3>1, <3>2, <3>3, <4>2 DEF SentBefore
    <3>4. CASE n = Len(s) + 1
      <4>1. sent'[c][n] = i /\ j \in earlier[i] /\ Digits(j) = Digits(i)
        BY <2>2, <3>1, <3>4
      <4>2. j \in rows /\ j \in Ids /\ j < i
        BY <1>2, <4>1 DEF EarlierOK
      <4>3. j \notin entries[c]
        BY <1>1, <1>2, <4>1, <4>2, SameLength DEF Ids
      <4>4. j \in Range(s)
        BY <4>1, <4>3 DEF EntriesOK, SeenOK
      <4>5. PICK m \in DOMAIN s : s[m] = j
        BY <4>4 DEF Range
      <4> QED
        BY <1>2, <2>2, <3>1, <3>4, <4>5 DEF SentBefore
    <3> QED
      BY <3>2, <3>3, <3>4
  <2> QED
    BY <2>1, <2>2
<1> QED
  BY <1>4, <1>5, <1>6, <1>7, <1>8

LEMMA ClientKeeps ==
    ASSUME Inv, NEW c \in Clients, Connect(c) \/ Generator(c) \/ Disconnect(c)
    PROVE  Inv'
<1> USE DEF Inv
<1>1. CASE Connect(c)
  <2> USE <1>1 DEF Connect, table
  <2>1. TypeOK' /\ InsertsOK' /\ EarlierOK'
    BY DEF TypeOK, InsertsOK, EarlierOK
  <2>2. SeenOK'
    BY DEF SeenOK, TypeOK, Range
  <2>3. EntriesOK' /\ FeedKeepsOrder'
    BY DEF EntriesOK, FeedKeepsOrder, SentBefore, TypeOK
  <2> QED
    BY <2>1, <2>2, <2>3
<1>2. CASE Read(c)
  <2> USE <1>2 DEF Read, table
  <2>1. TypeOK' /\ InsertsOK' /\ EarlierOK' /\ SeenOK'
    BY DEF TypeOK, InsertsOK, EarlierOK, SeenOK
  <2>2. EntriesOK'
    BY RowsDrawn DEF EntriesOK, EarlierOK, TypeOK
  <2>3. FeedKeepsOrder'
    BY DEF FeedKeepsOrder, SentBefore
  <2> QED
    BY <2>1, <2>2, <2>3
<1>3. CASE Take(c)
  BY <1>3, TakeKeeps
<1>4. CASE Sleep(c) \/ Disconnect(c)
  <2>1. UNCHANGED <<table, entries, seen, sent>>
    BY <1>4 DEF Sleep, Disconnect
  <2>2. pc' \in [Clients -> {"gone", "reading", "sending"}]
    BY <1>4 DEF Sleep, Disconnect, TypeOK
  <2>3. TypeOK'
    BY <2>1, <2>2 DEF TypeOK, table
  <2>4. InsertsOK' /\ EarlierOK' /\ SeenOK' /\ EntriesOK' /\ FeedKeepsOrder'
    BY <2>1 DEF table, InsertsOK, EarlierOK, SeenOK, EntriesOK, FeedKeepsOrder, SentBefore
  <2> QED
    BY <2>3, <2>4
<1> QED
  BY <1>1, <1>2, <1>3, <1>4 DEF Generator

LEMMA StepKeeps == Inv /\ [Next]_vars => Inv'
<1>1. ASSUME Inv, UNCHANGED vars PROVE Inv'
  BY <1>1 DEF vars, table, stream, Inv, TypeOK, InsertsOK, EarlierOK, SeenOK, EntriesOK,
     FeedKeepsOrder, SentBefore
<1> QED
  BY <1>1, WriterKeeps, ClientKeeps DEF Next

LEMMA InvAlways == Spec => []Inv
BY InitInv, StepKeeps, PTL DEF Spec

-----------------------------------------------------------------------------
\* Every variable keeps its type; a generator holds committed rows only.
THEOREM StreamTypeCorrect == Spec => []TypeOK
BY InvAlways, PTL DEF Inv

\* Events whose ids have as many digits come in the order in which they were written,
\* although their inserts overlap and commit in any order.
THEOREM OrderIsKept == Spec => []FeedKeepsOrder
BY InvAlways, PTL DEF Inv

\* Every step of the table and the generators is a step of the feed, or none: nothing is
\* sent twice on a connection, and nothing that is not in the table.
THEOREM StreamImplementsFeed == Spec => StreamIsFeed
<1>1. Init => Feed!Init
  BY DEF Init, Feed!Init
<1>2. Inv /\ [Next]_vars => [Feed!Next]_(Feed!vars)
  <2> SUFFICES ASSUME Inv, [Next]_vars PROVE [Feed!Next]_(Feed!vars)
    OBVIOUS
  <2> USE DEF Inv, Feed!Next, Feed!vars
  <2>1. ASSUME NEW w \in Writers, Commit(w) PROVE Feed!Publish
    BY <2>1 DEF Commit, Feed!Publish, stream, InsertsOK, TypeOK
  <2>2. ASSUME NEW w \in Writers, Insert(w) \/ Abort(w) PROVE UNCHANGED Feed!vars
    BY <2>2 DEF Insert, Abort, stream
  <2>3. ASSUME NEW c \in Clients, Connect(c) PROVE Feed!Restart(c)
    BY <2>3 DEF Connect, table, Feed!Restart
  <2>4. ASSUME NEW c \in Clients, Take(c) PROVE Feed!Deliver(c) \/ UNCHANGED Feed!vars
    <3>1. PICK i \in entries[c] :
            sent' = [sent EXCEPT ![c] = IF i \in seen[c] THEN @ ELSE Append(@, i)]
      BY <2>4 DEF Take
    <3>2. UNCHANGED rows /\ i \in rows /\ seen[c] = Range(sent[c])
      BY <2>4 DEF Take, table, TypeOK, SeenOK
    <3>3. CASE i \in seen[c]
      BY <3>1, <3>2, <3>3 DEF TypeOK
    <3>4. CASE i \notin seen[c]
      <4>1. i \in rows \ Feed!Range(sent[c])
        BY <3>2, <3>4 DEF Feed!Range, Range
      <4>2. sent' = [sent EXCEPT ![c] = Append(@, i)]
        BY <3>1, <3>4
      <4> QED
        BY <3>2, <4>1, <4>2 DEF Feed!Deliver
    <3> QED
      BY <3>3, <3>4
  <2>5. ASSUME NEW c \in Clients, Read(c) \/ Sleep(c) \/ Disconnect(c) PROVE UNCHANGED Feed!vars
    BY <2>5 DEF Read, Sleep, Disconnect, table
  <2>6. CASE UNCHANGED vars
    BY <2>6 DEF vars, table, stream
  <2> QED
    BY <2>1, <2>2, <2>3, <2>4, <2>5, <2>6 DEF Next, Generator
<1> QED
  BY <1>1, <1>2, InvAlways, PTL DEF Spec, StreamIsFeed, Feed!Spec

=============================================================================
