------------------------ MODULE TranscriptStoreProofs ------------------------
(***************************************************************************)
(* Proofs about TranscriptStore: while the process never dies inside a     *)
(* rewrite of messages.jsonl, an acknowledged message survives every       *)
(* crash, a restart between two handlers changes nothing a reader can see, *)
(* and the store implements DurableTranscript.  The invariant says how     *)
(* memory, index and file may differ while writes are still due.           *)
(***************************************************************************)
EXTENDS TranscriptStore, FiniteSetTheorems, SequenceTheorems, TLAPS

First(kind) == writes # <<>> /\ writes[1].kind = kind

\* The messages that the writes w of the given kind bring.
Brought(w, kind) == {m \in Messages : \E i \in 1 .. Len(w) : w[i].kind = kind /\ m \in w[i].messages}

Due(kind) == Brought(writes, kind)

FlushWrites == <<Write("truncate", {}), Write("file", {})>>

\* The writes of a handler come in the order of the code: index first, a line before its
\* row, the answer last.
InOrder(w) ==
    \A i \in 1 .. Len(w) :
        /\ w[i].kind \notin {"truncate", "file"}
        /\ w[i].kind = "index" => i = 1
        /\ w[i].kind = "done" => i = Len(w)
        /\ w[i].kind \in {"line", "upsert"} => loaded
        /\ w[i].kind = "line" => \A m \in w[i].messages : memory[m] # 0
        /\ w[i].kind = "upsert" => \A j \in i .. Len(w) : w[j].kind # "line"

Ordered == InOrder(writes)

WritesInOrder ==
    \/ Ordered
    \/ loaded /\ writes \in {FlushWrites, <<Write("file", {})>>}

\* The file has every message of memory whose line is not due.
FileHasMemory ==
    loaded /\ ~First("file") => \A m \in Messages : memory[m] # 0 => file[m] # 0 \/ m \in Due("line")

\* The rows, or the file they are about to be rebuilt from, are memory but for what is due.
RowsAreMemory ==
    loaded => \A m \in Messages : m \in Due("upsert") \/ memory[m] = (IF First("index") THEN file ELSE rows)[m]

FileHasRows == ~First("file") => \A m \in Messages : rows[m] # 0 => file[m] # 0

ToldIsKept == \A m \in Messages : told[m] # 0 => rows[m] # 0 /\ (loaded => memory[m] # 0)

RowIsDue == \E i \in 1 .. Len(writes) : writes[i].kind \in {"row", "upsert"}

\* The count agrees with memory, and with the one in the index but for what is due.
Counted ==
    /\ loaded => count = Size(memory)
    /\ RowIsDue \/ count = IF First("index") THEN Size(file) ELSE row

\* Only a loaded session has a flush scheduled.
FlushIsOfLoaded == pending => loaded

IInv ==
    /\ TypeOK /\ WritesInOrder /\ FlushIsOfLoaded
    /\ FileHasMemory /\ RowsAreMemory /\ FileHasRows /\ ToldIsKept /\ Counted
-----------------------------------------------------------------------------
\* The number of messages of a transcript is within the type of the counts.
LEMMA SizeType == ASSUME NEW t \in Transcripts PROVE Size(t) \in 0 .. Cardinality(Messages)
<1>1. {m \in Messages : t[m] # 0} \subseteq Messages
    OBVIOUS
<1>2. IsFiniteSet({m \in Messages : t[m] # 0}) /\ Size(t) <= Cardinality(Messages)
    BY <1>1, FS_Subset, MessagesAssumption DEF Size
<1>. QED
    BY <1>2, FS_CardinalityType, MessagesAssumption DEF Size

LEMMA EmptyType == Empty \in Transcripts
BY VersionsAssumption DEF Empty, Transcripts

\* What a reader gets is a transcript.
LEMMA ViewType == ASSUME TypeOK PROVE View \in Transcripts
BY DEF TypeOK, View

\* A write takes the head of the sequence and leaves the rest in place.
LEMMA WriteTail ==
    ASSUME TypeOK, NEW k, NextWrite(k)
    PROVE  /\ writes \in Seq(Writes) /\ writes' \in Seq(Writes)
           /\ Len(writes) >= 1 /\ Len(writes') = Len(writes) - 1
           /\ \A i \in 1 .. Len(writes') : writes'[i] = writes[i + 1]
           /\ First(k) /\ Head(writes) = writes[1]
           /\ \A i \in 1 .. Len(writes) : writes[i] \in Writes
BY DEF TypeOK, NextWrite, First

\* A write that is not part of a flush keeps the order, and afterwards only what its
\* kind brings is no longer due.
LEMMA WriteStep ==
    ASSUME TypeOK, WritesInOrder, NEW k \in {"metadata", "row", "line", "upsert", "index", "done"}, NextWrite(k)
    PROVE  /\ Ordered /\ Ordered'
           /\ ~First("file") /\ ~First("file")' /\ ~First("index")'
           /\ Due("line") = Due("line")' \union (IF k = "line" THEN writes[1].messages ELSE {})
           /\ Due("upsert") = Due("upsert")' \union (IF k = "upsert" THEN writes[1].messages ELSE {})
<1>. USE WriteTail
<1>1. Ordered
    BY DEF WritesInOrder, First, FlushWrites, Write
<1>2. Ordered'
    BY <1>1 DEF Ordered, InOrder, NextWrite
<1>3. ~First("file") /\ ~First("file")' /\ ~First("index")'
    BY <1>1, <1>2 DEF Ordered, InOrder, First
<1>4. ASSUME NEW d \in {"line", "upsert"}
      PROVE Due(d) = Due(d)' \union (IF k = d THEN writes[1].messages ELSE {})
    <2>1. Due(d)' \subseteq Due(d)
        BY DEF Due, Brought
    <2>2. k = d => writes[1].messages \subseteq Due(d)
        BY DEF Due, Brought, First, Writes
    <2>3. ASSUME NEW m \in Due(d), m \notin Due(d)'
          PROVE k = d /\ m \in writes[1].messages
        <3>1. PICK i \in 1 .. Len(writes) : writes[i].kind = d /\ m \in writes[i].messages
            BY DEF Due, Brought
        <3>2. i = 1
            <4>1. SUFFICES ASSUME i # 1 PROVE FALSE
                OBVIOUS
            <4>2. i - 1 \in 1 .. Len(writes') /\ writes'[i - 1] = writes[i]
                BY <4>1
            <4>. QED
                BY <2>3, <3>1, <4>2 DEF Due, Brought
        <3>. QED
            BY <3>1, <3>2 DEF First
    <2>. QED
        BY <2>1, <2>2, <2>3
<1>. QED
    BY <1>1, <1>2, <1>3, <1>4
\* A write of another kind leaves the row due.
LEMMA RowStillDue ==
    ASSUME TypeOK, NEW k \in {"metadata", "line", "index", "done"}, NextWrite(k), RowIsDue
    PROVE  RowIsDue'
<1>1. PICK i \in 1 .. Len(writes) : writes[i].kind \in {"row", "upsert"}
    BY DEF RowIsDue
<1>2. i # 1
    BY <1>1, WriteTail DEF First
<1>3. i - 1 \in 1 .. Len(writes') /\ writes'[i - 1] = writes[i]
    BY <1>2, WriteTail
<1>. QED
    BY <1>1, <1>3 DEF RowIsDue

-----------------------------------------------------------------------------
\* Between two handlers nothing is due: memory, if loaded, is the rows, the count is the
\* one in the index, and the file has every message.
LEMMA BetweenHandlers ==
    ASSUME IInv, Idle
    PROVE  /\ row = count
           /\ loaded => memory = rows /\ count = Size(memory)
           /\ \A m \in Messages : rows[m] # 0 => file[m] # 0
           /\ \A m \in Messages : rows[m] # 0 => View[m] # 0
           /\ \A m \in Messages : View[m] # 0 => file[m] # 0
           /\ View = IF LoadWrites = <<>> THEN rows ELSE file
<1>1. Len(writes) = 0 /\ ~First("file") /\ ~First("index") /\ Due("line") = {} /\ Due("upsert") = {}
    BY DEF Idle, First, Due, Brought
<1>2. row = count
    BY <1>1 DEF IInv, Counted, RowIsDue
<1>3. loaded => memory = rows /\ count = Size(memory)
    BY <1>1 DEF IInv, RowsAreMemory, Counted, TypeOK, Transcripts
<1>4. \A m \in Messages : rows[m] # 0 => file[m] # 0
    BY <1>1 DEF IInv, FileHasRows
<1>5. View = IF LoadWrites = <<>> THEN rows ELSE file
    BY <1>3 DEF View, LoadWrites
<1>. QED
    BY <1>2, <1>3, <1>4, <1>5

(***************************************************************************)
(* A change of the transcript to t keeps the invariant when t differs from *)
(* what was there only in S, the messages that the handler's plan upserts, *)
(* and each of them has a line in the file or one in the plan.             *)
(***************************************************************************)
LEMMA ChangeStep ==
    ASSUME IInv, Idle, NEW t \in Transcripts, NEW w, Change(t, w), NEW S \in SUBSET Messages,
           pending' \in BOOLEAN,
           \A m \in Messages \ S : t[m] = View[m],
           \A m \in Messages : View[m] # 0 => t[m] # 0,
           writes' \in Seq(Writes), Ordered', ~First("file")',
           First("index")' <=> LoadWrites # <<>>,
           Due("upsert")' = S,
           \A m \in S : View[m] = 0 => m \in Due("line")',
           RowIsDue'
    PROVE  IInv'
<1>. USE DEF Change
<1>1. TypeOK'
    <2>1. count' \in 0 .. Cardinality(Messages)
        BY SizeType
    <2>. QED
        BY <2>1 DEF IInv, TypeOK
<1>2. WritesInOrder'
    BY DEF WritesInOrder
<1>3. FileHasMemory'
    BY BetweenHandlers DEF FileHasMemory
<1>4. RowsAreMemory'
    BY BetweenHandlers DEF RowsAreMemory
<1>5. FileHasRows'
    BY BetweenHandlers DEF FileHasRows
<1>6. ToldIsKept'
    BY BetweenHandlers DEF ToldIsKept, IInv
<1>7. Counted'
    BY DEF Counted
<1>8. FlushIsOfLoaded'
    BY DEF FlushIsOfLoaded
<1>. QED
    BY <1>1, <1>2, <1>3, <1>4, <1>5, <1>6, <1>7, <1>8 DEF IInv

LEMMA WriteFields == \A k, S : Write(k, S).kind = k /\ Write(k, S).messages = S
BY DEF Write

LEMMA WriteType ==
    /\ \A k \in {"metadata", "row", "line", "upsert", "index", "truncate", "file", "done"},
          S \in SUBSET Messages : Write(k, S) \in Writes
    /\ LoadWrites \in Seq(Writes) /\ MetadataWrites \in Seq(Writes) /\ Done \in Seq(Writes)
<1>1. \A k \in {"metadata", "row", "line", "upsert", "index", "truncate", "file", "done"},
          S \in SUBSET Messages : Write(k, S) \in Writes
    BY DEF Write, Writes
<1>2. {Write("index", {}), Write("metadata", {}), Write("row", {}), Write("done", {})} \subseteq Writes
    BY <1>1
<1>. QED
    BY <1>1, <1>2 DEF LoadWrites, MetadataWrites, Done

\* Indexing the file first does not disturb a plan.
LEMMA LoadThenPlan ==
    ASSUME NEW p \in Seq(Writes), p # <<>>, p[1].kind \notin {"index", "file"}, InOrder(p)',
           NEW l \in {<<>>, <<Write("index", {})>>}, writes' = l \o p
    PROVE  /\ writes' \in Seq(Writes) /\ Ordered' /\ ~First("file")'
           /\ First("index")' <=> l # <<>>
           /\ \A k \in {"line", "upsert"} : Due(k)' = Brought(p, k)
           /\ \A i \in 1 .. Len(p) : \E j \in 1 .. Len(writes') : writes'[j] = p[i]
<1>1. CASE l = <<>>
    <2>1. writes' = p
        BY <1>1
    <2>. QED
        BY <1>1, <2>1 DEF Ordered, InOrder, First, Due, Brought
<1>2. CASE l = <<Write("index", {})>>
    <2>1. l \in Seq(Writes) /\ Len(l) = 1 /\ l[1].kind = "index" /\ l[1].messages = {}
        BY <1>2, WriteType, WriteFields
    <2>2. /\ writes' \in Seq(Writes) /\ Len(p) \in Nat /\ Len(writes') = Len(p) + 1
          /\ writes'[1] = l[1] /\ \A i \in 1 .. Len(p) : writes'[i + 1] = p[i]
        <3>1. Len(p) \in Nat /\ l \in Seq(Writes) /\ Len(l) = 1
            BY <2>1
        <3>2. /\ writes' \in Seq(Writes) /\ Len(writes') = Len(l) + Len(p)
              /\ \A i \in 1 .. Len(l) + Len(p) : writes'[i] = IF i <= Len(l) THEN l[i] ELSE p[i - Len(l)]
            BY <3>1, ConcatProperties, Zenon
        <3>. QED
            BY <3>1, <3>2
    <2>3. Ordered'
        <3>1. SUFFICES ASSUME NEW i \in 2 .. Len(writes')
              PROVE  /\ writes'[i].kind \notin {"truncate", "file", "index"}
                     /\ writes'[i].kind = "done" => i = Len(writes')
                     /\ writes'[i].kind \in {"line", "upsert"} => loaded'
                     /\ writes'[i].kind = "line" => \A m \in writes'[i].messages : memory'[m] # 0
                     /\ writes'[i].kind = "upsert" => \A j \in i .. Len(writes') : writes'[j].kind # "line"
            BY <2>1, <2>2 DEF Ordered, InOrder
        <3>2. i - 1 \in 1 .. Len(p) /\ writes'[i] = p[i - 1]
            BY <2>2
        <3>3. \A j \in i .. Len(writes') : j - 1 \in (i - 1) .. Len(p) /\ writes'[j] = p[j - 1]
            BY <2>2
        <3>. QED
            BY <2>2, <3>2, <3>3 DEF InOrder
    <2>4. ASSUME NEW k \in {"line", "upsert"}, NEW m \in Messages
          PROVE  m \in Due(k)' <=> m \in Brought(p, k)
        <3>1. ASSUME NEW i \in 1 .. Len(writes'), writes'[i].kind = k, m \in writes'[i].messages
              PROVE  m \in Brought(p, k)
            <4>1. i - 1 \in 1 .. Len(p) /\ writes'[i] = p[i - 1]
                BY <2>1, <2>2, <3>1
            <4>. QED
                BY <3>1, <4>1 DEF Brought
        <3>2. ASSUME NEW i \in 1 .. Len(p), p[i].kind = k, m \in p[i].messages
              PROVE  m \in Due(k)'
            <4>1. i + 1 \in 1 .. Len(writes') /\ writes'[i + 1] = p[i]
                BY <2>2
            <4>. QED
                BY <3>2, <4>1 DEF Due, Brought
        <3>. QED
            BY <3>1, <3>2 DEF Due, Brought
    <2>5. ~First("file")' /\ First("index")'
        BY <2>1, <2>2 DEF First
    <2>6. ASSUME NEW i \in 1 .. Len(p)
          PROVE  \E j \in 1 .. Len(writes') : writes'[j] = p[i]
        <3>1. i + 1 \in 1 .. Len(writes') /\ writes'[i + 1] = p[i]
            BY <2>2
        <3>. QED
            BY <3>1
    <2>7. \A k \in {"line", "upsert"} : Due(k)' = Brought(p, k)
        BY <2>4 DEF Due, Brought
    <2>. QED
        BY <1>2, <2>2, <2>3, <2>5, <2>6, <2>7
<1>. QED
    BY <1>1, <1>2

LEMMA AppendInOrder ==
    ASSUME NEW m \in Messages, memory'[m] # 0, loaded', NEW p, Len(p) = 5,
           p[1].kind = "metadata", p[2].kind = "row", p[3].kind = "line", p[3].messages = {m},
           p[4].kind = "upsert", p[5].kind = "done"
    PROVE  InOrder(p)'
<1>1. \A i \in 1 .. 5 : i = 1 \/ i = 2 \/ i = 3 \/ i = 4 \/ i = 5
    OBVIOUS
<1>. QED
    BY <1>1 DEF InOrder

\* The plan of an append ...
LEMMA AppendPlan ==
    ASSUME NEW m \in Messages, memory'[m] # 0, loaded',
           NEW p, p = (MetadataWrites \o <<Write("line", {m}), Write("upsert", {m})>>) \o Done
    PROVE  /\ p \in Seq(Writes) /\ p # <<>> /\ p[1].kind \notin {"index", "file"} /\ InOrder(p)'
           /\ Brought(p, "upsert") = {m} /\ m \in Brought(p, "line")
           /\ \E i \in 1 .. Len(p) : p[i].kind \in {"row", "upsert"}
<1>1. /\ Len(p) = 5
      /\ p[1] = Write("metadata", {}) /\ p[2] = Write("row", {})
      /\ p[3] = Write("line", {m}) /\ p[4] = Write("upsert", {m}) /\ p[5] = Write("done", {})
    BY DEF MetadataWrites, Done
<1>2. /\ p[1].kind = "metadata" /\ p[2].kind = "row"
      /\ p[3].kind = "line" /\ p[3].messages = {m}
      /\ p[4].kind = "upsert" /\ p[4].messages = {m} /\ p[5].kind = "done"
    BY <1>1 DEF Write
<1>3. \A i \in 1 .. 5 : i = 1 \/ i = 2 \/ i = 3 \/ i = 4 \/ i = 5
    OBVIOUS
<1>4. p \in Seq(Writes)
    <2>1. <<Write("line", {m}), Write("upsert", {m})>> \in Seq(Writes)
        BY WriteType
    <2>. QED
        BY <2>1, WriteType
<1>5. InOrder(p)'
    BY <1>1, <1>2, AppendInOrder
<1>6. 2 \in 1 .. Len(p) /\ 3 \in 1 .. Len(p) /\ 4 \in 1 .. Len(p) /\ p # <<>>
    BY <1>1
<1>7. Brought(p, "upsert") = {m}
    BY <1>1, <1>2, <1>3, <1>6 DEF Brought
<1>8. m \in Brought(p, "line")
    BY <1>2, <1>6 DEF Brought
<1>. QED
    BY <1>2, <1>4, <1>5, <1>6, <1>7, <1>8

\* ... of seen marks ...
LEMMA MarkPlan ==
    ASSUME NEW S \in SUBSET Messages, loaded', NEW p, p = <<Write("upsert", S)>> \o Done
    PROVE  /\ p \in Seq(Writes) /\ p # <<>> /\ p[1].kind \notin {"index", "file"} /\ InOrder(p)'
           /\ Brought(p, "upsert") = S
           /\ \E i \in 1 .. Len(p) : p[i].kind \in {"row", "upsert"}
<1>1. Len(p) = 2 /\ p[1] = Write("upsert", S) /\ p[2] = Write("done", {})
    BY DEF Done
<1>2. p[1].kind = "upsert" /\ p[1].messages = S /\ p[2].kind = "done"
    BY <1>1 DEF Write
<1>3. \A i \in 1 .. 2 : i = 1 \/ i = 2
    OBVIOUS
<1>4. p \in Seq(Writes)
    <2>1. <<Write("upsert", S)>> \in Seq(Writes)
        BY WriteType
    <2>. QED
        BY <2>1, WriteType
<1>5. InOrder(p)'
    BY <1>1, <1>2, <1>3 DEF InOrder
<1>6. 1 \in 1 .. Len(p) /\ p # <<>>
    BY <1>1
<1>7. Brought(p, "upsert") = S
    BY <1>1, <1>2, <1>3, <1>6 DEF Brought
<1>. QED
    BY <1>2, <1>4, <1>5, <1>6, <1>7

\* ... and of an edit.
LEMMA EditPlan ==
    ASSUME NEW S \in SUBSET Messages, loaded',
           NEW p, p = (MetadataWrites \o <<Write("upsert", S)>>) \o Done
    PROVE  /\ p \in Seq(Writes) /\ p # <<>> /\ p[1].kind \notin {"index", "file"} /\ InOrder(p)'
           /\ Brought(p, "upsert") = S
           /\ \E i \in 1 .. Len(p) : p[i].kind \in {"row", "upsert"}
<1>1. /\ Len(p) = 4
      /\ p[1] = Write("metadata", {}) /\ p[2] = Write("row", {})
      /\ p[3] = Write("upsert", S) /\ p[4] = Write("done", {})
    BY DEF MetadataWrites, Done
<1>2. /\ p[1].kind = "metadata" /\ p[2].kind = "row"
      /\ p[3].kind = "upsert" /\ p[3].messages = S /\ p[4].kind = "done"
    BY <1>1 DEF Write
<1>3. \A i \in 1 .. 4 : i = 1 \/ i = 2 \/ i = 3 \/ i = 4
    OBVIOUS
<1>4. p \in Seq(Writes)
    <2>1. <<Write("upsert", S)>> \in Seq(Writes)
        BY WriteType
    <2>. QED
        BY <2>1, WriteType
<1>5. InOrder(p)'
    BY <1>1, <1>2, <1>3 DEF InOrder
<1>6. 2 \in 1 .. Len(p) /\ 3 \in 1 .. Len(p) /\ p # <<>>
    BY <1>1
<1>7. Brought(p, "upsert") = S
    BY <1>1, <1>2, <1>3, <1>6 DEF Brought
<1>. QED
    BY <1>2, <1>4, <1>5, <1>6, <1>7
-----------------------------------------------------------------------------
(***************************************************************************)
(* The handlers.                                                           *)
(***************************************************************************)
LEMMA AppendMessageStep == ASSUME IInv, NEW m \in Messages, AppendMessage(m) PROVE IInv'
<1>. DEFINE t == [View EXCEPT ![m] = 1]
            w == MetadataWrites \o <<Write("line", {m}), Write("upsert", {m})>>
            p == w \o Done
<1>1. Idle /\ Change(t, w) /\ pending' = pending
    BY DEF AppendMessage
<1>2. t \in Transcripts /\ t[m] = 1 /\ (\A x \in Messages \ {m} : t[x] = View[x])
    BY ViewType, VersionsAssumption DEF Transcripts, IInv
<1>3. pending' \in BOOLEAN
    BY <1>1 DEF IInv, TypeOK
<1>4. memory'[m] # 0 /\ loaded' /\ writes' = LoadWrites \o p
    BY <1>1, <1>2 DEF Change
<1>5. /\ p \in Seq(Writes) /\ p # <<>> /\ p[1].kind \notin {"index", "file"} /\ InOrder(p)'
      /\ Brought(p, "upsert") = {m} /\ m \in Brought(p, "line")
      /\ \E i \in 1 .. Len(p) : p[i].kind \in {"row", "upsert"}
    BY <1>4, AppendPlan
<1>. HIDE DEF t, w, p
<1>6. /\ writes' \in Seq(Writes) /\ Ordered' /\ ~First("file")'
      /\ First("index")' <=> LoadWrites # <<>>
      /\ \A k \in {"line", "upsert"} : Due(k)' = Brought(p, k)
      /\ \A i \in 1 .. Len(p) : \E j \in 1 .. Len(writes') : writes'[j] = p[i]
    <2>1. LoadWrites \in {<<>>, <<Write("index", {})>>}
        BY DEF LoadWrites
    <2>. QED
        BY <1>4, <1>5, <2>1, LoadThenPlan
<1>7. RowIsDue'
    BY <1>5, <1>6 DEF RowIsDue
<1>8. Due("upsert")' = {m} /\ \A x \in {m} : x \in Due("line")'
    BY <1>5, <1>6
<1>9. \A x \in Messages : View[x] # 0 => t[x] # 0
    BY <1>2
<1>. QED
    BY <1>1, <1>2, <1>3, <1>6, <1>7, <1>8, <1>9, ChangeStep

LEMMA MarkMessagesSeenStep == ASSUME IInv, NEW S \in SUBSET Messages, MarkMessagesSeen(S) PROVE IInv'
<1>. DEFINE t == Changed(View, S)
            w == <<Write("upsert", S)>>
            p == w \o Done
<1>1. Idle /\ S \in SUBSET Changeable /\ Change(t, w) /\ pending' = TRUE
    BY DEF MarkMessagesSeen
<1>2. t \in Transcripts /\ (\A x \in Messages \ S : t[x] = View[x]) /\ (\A x \in S : View[x] # 0)
    BY <1>1, ViewType, VersionsAssumption DEF Transcripts, IInv, Changed, Changeable
<1>3. loaded' /\ writes' = LoadWrites \o p
    BY <1>1 DEF Change
<1>4. /\ p \in Seq(Writes) /\ p # <<>> /\ p[1].kind \notin {"index", "file"} /\ InOrder(p)'
      /\ Brought(p, "upsert") = S
      /\ \E i \in 1 .. Len(p) : p[i].kind \in {"row", "upsert"}
    BY <1>3, MarkPlan
<1>5. \A x \in Messages : View[x] # 0 => t[x] # 0
    BY ViewType DEF Changed, Transcripts, IInv
<1>. HIDE DEF t, w, p
<1>6. /\ writes' \in Seq(Writes) /\ Ordered' /\ ~First("file")'
      /\ First("index")' <=> LoadWrites # <<>>
      /\ \A k \in {"line", "upsert"} : Due(k)' = Brought(p, k)
      /\ \A i \in 1 .. Len(p) : \E j \in 1 .. Len(writes') : writes'[j] = p[i]
    <2>1. LoadWrites \in {<<>>, <<Write("index", {})>>}
        BY DEF LoadWrites
    <2>. QED
        BY <1>3, <1>4, <2>1, LoadThenPlan
<1>7. RowIsDue'
    BY <1>4, <1>6 DEF RowIsDue
<1>8. Due("upsert")' = S /\ S \in SUBSET Messages /\ pending' \in BOOLEAN
    BY <1>1, <1>4, <1>6 DEF Changeable
<1>9. \A x \in S : View[x] = 0 => x \in Due("line")'
    BY <1>2
<1>. QED
    BY <1>1, <1>2, <1>5, <1>6, <1>7, <1>8, <1>9, ChangeStep

LEMMA UpdateMessageStep == ASSUME IInv, NEW m \in Messages, UpdateMessage(m) PROVE IInv'
<1>. DEFINE t == Changed(View, {m})
            w == MetadataWrites \o <<Write("upsert", {m})>>
            p == w \o Done
<1>1. Idle /\ {m} \in SUBSET Changeable /\ Change(t, w) /\ pending' = TRUE
    BY DEF UpdateMessage
<1>2. t \in Transcripts /\ (\A x \in Messages \ {m} : t[x] = View[x]) /\ (\A x \in {m} : View[x] # 0)
    BY <1>1, ViewType, VersionsAssumption DEF Transcripts, IInv, Changed, Changeable
<1>3. loaded' /\ writes' = LoadWrites \o p
    BY <1>1 DEF Change
<1>4. /\ p \in Seq(Writes) /\ p # <<>> /\ p[1].kind \notin {"index", "file"} /\ InOrder(p)'
      /\ Brought(p, "upsert") = {m}
      /\ \E i \in 1 .. Len(p) : p[i].kind \in {"row", "upsert"}
    BY <1>3, EditPlan
<1>5. \A x \in Messages : View[x] # 0 => t[x] # 0
    BY ViewType DEF Changed, Transcripts, IInv
<1>. HIDE DEF t, w, p
<1>6. /\ writes' \in Seq(Writes) /\ Ordered' /\ ~First("file")'
      /\ First("index")' <=> LoadWrites # <<>>
      /\ \A k \in {"line", "upsert"} : Due(k)' = Brought(p, k)
      /\ \A i \in 1 .. Len(p) : \E j \in 1 .. Len(writes') : writes'[j] = p[i]
    <2>1. LoadWrites \in {<<>>, <<Write("index", {})>>}
        BY DEF LoadWrites
    <2>. QED
        BY <1>3, <1>4, <2>1, LoadThenPlan
<1>7. RowIsDue'
    BY <1>4, <1>6 DEF RowIsDue
<1>8. Due("upsert")' = {m} /\ {m} \in SUBSET Messages /\ pending' \in BOOLEAN
    BY <1>1, <1>4, <1>6 DEF Changeable
<1>9. \A x \in {m} : View[x] = 0 => x \in Due("line")'
    BY <1>2
<1>. QED
    BY <1>1, <1>2, <1>5, <1>6, <1>7, <1>8, <1>9, ChangeStep

LEMMA ReadStep == ASSUME IInv, Read PROVE IInv'
<1>. USE BetweenHandlers DEF Read
<1>1. writes' \in {<<>>, <<Write("index", {})>>} /\ writes' \in Seq(Writes)
    BY WriteType DEF LoadWrites
<1>2. /\ Ordered' /\ ~First("file")' /\ (First("index")' <=> LoadWrites # <<>>)
      /\ Due("line")' = {} /\ Due("upsert")' = {}
    BY <1>1, WriteFields DEF Ordered, InOrder, First, Due, Brought
<1>3. View' = View /\ memory' = View
    BY DEF View
<1>4. TypeOK'
    BY <1>1, <1>3, SizeType, ViewType DEF TypeOK, IInv
<1>5. WritesInOrder' /\ FlushIsOfLoaded'
    BY <1>2 DEF WritesInOrder, FlushIsOfLoaded
<1>6. FileHasMemory'
    BY <1>2, <1>3 DEF FileHasMemory
<1>7. RowsAreMemory'
    BY <1>2, <1>3 DEF RowsAreMemory
<1>8. FileHasRows'
    BY DEF FileHasRows
<1>9. ToldIsKept'
    BY <1>3 DEF ToldIsKept, IInv
<1>10. Counted'
    BY <1>2, <1>3 DEF Counted, LoadWrites, View, IndexComplete
<1>. QED
    BY <1>4, <1>5, <1>6, <1>7, <1>8, <1>9, <1>10 DEF IInv

LEMMA UpdateMetadataStep == ASSUME IInv, UpdateMetadata PROVE IInv'
<1>. USE BetweenHandlers DEF UpdateMetadata
<1>1. writes' \in Seq(Writes)
    BY WriteType
<1>2. Len(writes') = 3 /\ writes'[1] = Write("metadata", {}) /\ writes'[2] = Write("row", {}) /\ writes'[3] = Write("done", {})
    BY DEF MetadataWrites, Done
<1>3. writes'[1].kind = "metadata" /\ writes'[2].kind = "row" /\ writes'[3].kind = "done"
    BY <1>2 DEF Write
<1>4. \A i \in 1 .. 3 : i = 1 \/ i = 2 \/ i = 3
    OBVIOUS
<1>5. Ordered' /\ ~First("file")' /\ ~First("index")' /\ Due("line")' = {} /\ Due("upsert")' = {}
    BY <1>2, <1>3, <1>4 DEF Ordered, InOrder, First, Due, Brought
<1>6. TypeOK'
    BY <1>1 DEF TypeOK, IInv
<1>7. WritesInOrder' /\ FlushIsOfLoaded'
    BY <1>5 DEF WritesInOrder, FlushIsOfLoaded, IInv
<1>8. FileHasMemory' /\ RowsAreMemory' /\ FileHasRows'
    BY <1>5 DEF FileHasMemory, RowsAreMemory, FileHasRows, View
<1>9. ToldIsKept'
    BY DEF ToldIsKept, IInv
<1>10. RowIsDue'
    <2>1. 2 \in 1 .. Len(writes')
        BY <1>2
    <2>. QED
        BY <1>3, <2>1 DEF RowIsDue
<1>11. Counted'
    BY <1>10 DEF Counted
<1>. QED
    BY <1>6, <1>7, <1>8, <1>9, <1>11 DEF IInv

LEMMA FlushMessagesFileStep == ASSUME IInv, FlushMessagesFile PROVE IInv'
<1>. USE BetweenHandlers DEF FlushMessagesFile
<1>1. loaded /\ loaded'
    BY DEF FlushIsOfLoaded, IInv
<1>2. writes' = FlushWrites /\ writes' \in Seq(Writes)
    BY WriteType DEF FlushWrites
<1>3. Len(writes') = 2 /\ writes'[1].kind = "truncate" /\ writes'[2].kind = "file" /\ \A i \in 1 .. 2 : i = 1 \/ i = 2
    BY DEF Write
<1>4. ~First("file")' /\ ~First("index")' /\ Due("line")' = {} /\ Due("upsert")' = {}
    BY <1>3 DEF First, Due, Brought
<1>5. TypeOK'
    BY <1>2 DEF TypeOK, IInv
<1>6. WritesInOrder' /\ FlushIsOfLoaded'
    BY <1>1, <1>2 DEF WritesInOrder, FlushIsOfLoaded
<1>7. FileHasMemory' /\ RowsAreMemory' /\ FileHasRows'
    BY <1>4 DEF FileHasMemory, RowsAreMemory, FileHasRows, View
<1>8. ToldIsKept'
    BY DEF ToldIsKept, IInv
<1>9. Counted'
    BY <1>4 DEF Counted
<1>. QED
    BY <1>5, <1>6, <1>7, <1>8, <1>9 DEF IInv

LEMMA ReconcileStep == ASSUME IInv, Reconcile PROVE IInv'
<1>. USE BetweenHandlers DEF Reconcile
<1>1. writes' \in {<<>>, <<Write("index", {})>>} /\ writes' \in Seq(Writes)
    <2>1. <<Write("index", {})>> \in Seq(Writes) /\ <<>> \in Seq(Writes)
        BY WriteType
    <2>2. writes' = <<>> \/ writes' = <<Write("index", {})>>
        BY DEF Idle
    <2>. QED
        BY <2>1, <2>2
<1>2. /\ Ordered' /\ ~First("file")' /\ (First("index")' <=> ~fresh)
      /\ Due("line")' = {} /\ Due("upsert")' = {}
    BY <1>1, WriteFields DEF Ordered, InOrder, First, Due, Brought, Idle
<1>3. TypeOK'
    BY <1>1, SizeType DEF TypeOK, IInv
<1>4. WritesInOrder' /\ FlushIsOfLoaded'
    BY <1>2 DEF WritesInOrder, FlushIsOfLoaded, IInv
<1>5. FileHasMemory'
    BY <1>2 DEF FileHasMemory, View
<1>6. RowsAreMemory'
    BY <1>2 DEF RowsAreMemory
<1>7. FileHasRows'
    BY DEF FileHasRows
<1>8. ToldIsKept'
    BY DEF ToldIsKept, IInv
<1>9. Counted'
    BY <1>2 DEF Counted
<1>. QED
    BY <1>3, <1>4, <1>5, <1>6, <1>7, <1>8, <1>9 DEF IInv
-----------------------------------------------------------------------------
(***************************************************************************)
(* The writes of a handler, one by one, and the restart.                   *)
(***************************************************************************)
LEMMA WriteMetadataStep == ASSUME IInv, WriteMetadata PROVE IInv'
<1>. USE DEF WriteMetadata
<1>1. TypeOK' /\ NextWrite("metadata") /\ First("metadata")
    BY WriteTail DEF IInv, TypeOK, NextWrite
<1>2. /\ Ordered' /\ ~First("file") /\ ~First("file")' /\ ~First("index")'
      /\ Due("line") = Due("line")' /\ Due("upsert") = Due("upsert")' /\ ~First("index")
    BY <1>1, WriteStep DEF IInv, First
<1>3. WritesInOrder' /\ FlushIsOfLoaded'
    BY <1>1, <1>2 DEF WritesInOrder, FlushIsOfLoaded, IInv, NextWrite
<1>4. FileHasMemory' /\ RowsAreMemory' /\ FileHasRows' /\ ToldIsKept'
    BY <1>1, <1>2 DEF FileHasMemory, RowsAreMemory, FileHasRows, ToldIsKept, IInv, NextWrite
<1>5. Counted'
    BY <1>1, <1>2, RowStillDue DEF Counted, IInv, NextWrite
<1>. QED
    BY <1>1, <1>3, <1>4, <1>5 DEF IInv

LEMMA WriteRowStep == ASSUME IInv, WriteRow PROVE IInv'
<1>. USE DEF WriteRow
<1>1. TypeOK' /\ NextWrite("row") /\ First("row")
    BY WriteTail DEF IInv, TypeOK, NextWrite
<1>2. /\ Ordered' /\ ~First("file") /\ ~First("file")' /\ ~First("index")'
      /\ Due("line") = Due("line")' /\ Due("upsert") = Due("upsert")' /\ ~First("index")
    BY <1>1, WriteStep DEF IInv, First
<1>3. WritesInOrder' /\ FlushIsOfLoaded'
    BY <1>1, <1>2 DEF WritesInOrder, FlushIsOfLoaded, IInv, NextWrite
<1>4. FileHasMemory' /\ RowsAreMemory' /\ FileHasRows' /\ ToldIsKept'
    BY <1>1, <1>2 DEF FileHasMemory, RowsAreMemory, FileHasRows, ToldIsKept, IInv, NextWrite
<1>5. Counted'
    BY <1>1, <1>2 DEF Counted, IInv, NextWrite
<1>. QED
    BY <1>1, <1>3, <1>4, <1>5 DEF IInv

LEMMA AppendLineStep == ASSUME IInv, AppendLine PROVE IInv'
<1>. USE DEF AppendLine
<1>1. NextWrite("line") /\ First("line") /\ Head(writes) = writes[1] /\ writes[1].messages \subseteq Messages
    BY WriteTail DEF IInv, Writes
<1>2. /\ Ordered /\ Ordered' /\ ~First("file") /\ ~First("file")' /\ ~First("index")'
      /\ Due("line") = Due("line")' \union writes[1].messages /\ Due("upsert") = Due("upsert")' /\ ~First("index")
    BY <1>1, WriteStep DEF IInv, First
<1>3. loaded /\ \A m \in writes[1].messages : memory[m] # 0
    BY <1>1, <1>2, WriteTail DEF Ordered, InOrder, First, IInv
<1>4. TypeOK'
    <2>1. file' \in Transcripts
        BY <1>1 DEF IInv, TypeOK, Transcripts
    <2>2. writes' \in Seq(Writes)
        BY <1>1, WriteTail DEF IInv
    <2>3. fresh' \in BOOLEAN /\ UNCHANGED <<loaded, memory, count, pending, reconciling, unsaved, rows, row, told>>
        BY DEF NextWrite
    <2>. HIDE DEF AppendLine
    <2>. QED
        BY <2>1, <2>2, <2>3 DEF IInv, TypeOK
<1>5. WritesInOrder' /\ FlushIsOfLoaded'
    BY <1>1, <1>2 DEF WritesInOrder, FlushIsOfLoaded, IInv, NextWrite
<1>6. FileHasMemory'
    BY <1>1, <1>2, <1>3 DEF FileHasMemory, IInv, NextWrite
<1>7. RowsAreMemory' /\ FileHasRows' /\ ToldIsKept'
    BY <1>1, <1>2, <1>3 DEF RowsAreMemory, FileHasRows, ToldIsKept, IInv, NextWrite
<1>8. Counted'
    BY <1>1, <1>2, RowStillDue DEF Counted, IInv, NextWrite
<1>. QED
    BY <1>4, <1>5, <1>6, <1>7, <1>8 DEF IInv

LEMMA UpsertMessagesStep == ASSUME IInv, UpsertMessages PROVE IInv'
<1>. USE DEF UpsertMessages
<1>1. NextWrite("upsert") /\ First("upsert") /\ Head(writes) = writes[1] /\ writes[1].messages \subseteq Messages
    BY WriteTail DEF IInv, Writes
<1>2. /\ Ordered /\ Ordered' /\ ~First("file") /\ ~First("file")' /\ ~First("index")'
      /\ Due("line") = Due("line")' /\ Due("upsert") = Due("upsert")' \union writes[1].messages /\ ~First("index")
    BY <1>1, WriteStep DEF IInv, First
<1>3. loaded /\ Due("line") = {}
    BY <1>1, <1>2, WriteTail DEF Ordered, InOrder, First, Due, Brought, IInv
<1>4. TypeOK'
    BY <1>1, WriteTail DEF IInv, TypeOK, NextWrite, Transcripts
<1>5. WritesInOrder' /\ FlushIsOfLoaded'
    BY <1>1, <1>2 DEF WritesInOrder, FlushIsOfLoaded, IInv, NextWrite
<1>6. FileHasMemory' /\ RowsAreMemory'
    BY <1>1, <1>2 DEF FileHasMemory, RowsAreMemory, IInv, NextWrite
<1>7. FileHasRows' /\ ToldIsKept'
    BY <1>1, <1>2, <1>3 DEF FileHasMemory, FileHasRows, ToldIsKept, IInv, NextWrite
<1>8. Counted'
    BY <1>1, <1>2 DEF Counted, IInv, NextWrite
<1>. QED
    BY <1>4, <1>5, <1>6, <1>7, <1>8 DEF IInv

LEMMA WriteIndexStep == ASSUME IInv, WriteIndex PROVE IInv'
<1>. USE DEF WriteIndex
<1>1. NextWrite("index") /\ First("index")
    BY WriteTail DEF IInv
<1>2. /\ Ordered' /\ ~First("file") /\ ~First("file")' /\ ~First("index")'
      /\ Due("line") = Due("line")' /\ Due("upsert") = Due("upsert")'
    BY <1>1, WriteStep DEF IInv
<1>3. TypeOK'
    BY <1>1, WriteTail, SizeType DEF IInv, TypeOK, NextWrite
<1>4. WritesInOrder' /\ FlushIsOfLoaded'
    BY <1>1, <1>2 DEF WritesInOrder, FlushIsOfLoaded, IInv, NextWrite
<1>5. FileHasMemory' /\ RowsAreMemory'
    BY <1>1, <1>2 DEF FileHasMemory, RowsAreMemory, IInv, NextWrite
<1>6. FileHasRows' /\ ToldIsKept'
    BY <1>1, <1>2 DEF FileHasRows, ToldIsKept, IInv, NextWrite
<1>7. Counted'
    BY <1>1, <1>2, RowStillDue DEF Counted, IInv, NextWrite
<1>. QED
    BY <1>3, <1>4, <1>5, <1>6, <1>7 DEF IInv

LEMMA TruncateFileStep == ASSUME IInv, TruncateFile PROVE IInv'
<1>. USE DEF TruncateFile
<1>1. NextWrite("truncate") /\ First("truncate") /\ Len(writes) >= 1
    BY WriteTail DEF IInv
<1>2. loaded /\ loaded' /\ writes = FlushWrites
    BY <1>1, WriteFields DEF IInv, WritesInOrder, Ordered, InOrder, First, NextWrite
<1>3. writes' = <<Write("file", {})>> /\ writes' \in Seq(Writes)
    BY <1>2, WriteType DEF NextWrite, FlushWrites
<1>4. First("file")' /\ ~First("index")' /\ ~First("index")
    BY <1>1, <1>3, WriteFields DEF First
<1>5. Due("upsert") = {} /\ ~RowIsDue
    <2>1. Len(writes) = 2 /\ writes[1].kind = "truncate" /\ writes[2].kind = "file"
        BY <1>2, WriteFields DEF FlushWrites
    <2>2. \A i \in 1 .. 2 : i = 1 \/ i = 2
        OBVIOUS
    <2>. QED
        BY <2>1, <2>2 DEF Due, Brought, RowIsDue
<1>6. TypeOK'
    <2>1. file' \in Transcripts /\ fresh' \in BOOLEAN
        BY EmptyType
    <2>2. writes' \in Seq(Writes)
        BY <1>3
    <2>. QED
        BY <1>1, <2>1, <2>2 DEF IInv, TypeOK, NextWrite
<1>7. WritesInOrder' /\ FlushIsOfLoaded'
    BY <1>2, <1>3 DEF WritesInOrder, FlushIsOfLoaded
<1>8. FileHasMemory' /\ FileHasRows'
    BY <1>4 DEF FileHasMemory, FileHasRows
<1>9. RowsAreMemory' /\ ToldIsKept'
    BY <1>1, <1>4, <1>5 DEF RowsAreMemory, ToldIsKept, IInv, NextWrite
<1>10. Counted'
    BY <1>1, <1>4, <1>5 DEF Counted, IInv, NextWrite
<1>. QED
    BY <1>6, <1>7, <1>8, <1>9, <1>10 DEF IInv

LEMMA RewriteFileStep == ASSUME IInv, RewriteFile PROVE IInv'
<1>. USE DEF RewriteFile
<1>1. NextWrite("file") /\ First("file") /\ Len(writes) >= 1
    BY WriteTail DEF IInv
<1>2. loaded /\ loaded' /\ writes = <<Write("file", {})>>
    BY <1>1, WriteFields DEF IInv, WritesInOrder, Ordered, InOrder, First, NextWrite, FlushWrites
<1>3. writes' = <<>> /\ writes' \in Seq(Writes)
    BY <1>2 DEF NextWrite
<1>4. ~First("file")' /\ ~First("index")' /\ ~First("index")
    BY <1>1, <1>3 DEF First
<1>5. Due("upsert") = {} /\ ~RowIsDue
    <2>1. Len(writes) = 1 /\ writes[1].kind = "file"
        BY <1>2, WriteFields
    <2>. QED
        BY <2>1 DEF Due, Brought, RowIsDue
<1>6. TypeOK'
    <2>1. writes' \in Seq(Writes)
        BY <1>3
    <2>2. /\ file' = memory /\ fresh' \in BOOLEAN
          /\ UNCHANGED <<loaded, memory, count, pending, reconciling, unsaved, rows, row, told>>
        BY DEF NextWrite
    <2>. HIDE DEF RewriteFile
    <2>. QED
        BY <2>1, <2>2 DEF IInv, TypeOK
<1>7. WritesInOrder' /\ FlushIsOfLoaded'
    BY <1>2, <1>3 DEF WritesInOrder, FlushIsOfLoaded, Ordered, InOrder
<1>8. \A m \in Messages : memory[m] = rows[m]
    BY <1>2, <1>4, <1>5 DEF RowsAreMemory, IInv
<1>9. FileHasMemory' /\ FileHasRows'
    BY <1>1, <1>8 DEF FileHasMemory, FileHasRows, NextWrite
<1>10. RowsAreMemory' /\ ToldIsKept'
    BY <1>1, <1>4, <1>8 DEF RowsAreMemory, ToldIsKept, IInv, NextWrite
<1>11. Counted'
    BY <1>1, <1>4, <1>5 DEF Counted, IInv, NextWrite
<1>. QED
    BY <1>6, <1>7, <1>9, <1>10, <1>11 DEF IInv

LEMMA AcknowledgeStep == ASSUME IInv, Acknowledge PROVE IInv'
<1>. USE DEF Acknowledge
<1>1. NextWrite("done") /\ First("done")
    BY WriteTail DEF IInv
<1>2. /\ Ordered /\ Ordered' /\ ~First("file") /\ ~First("file")' /\ ~First("index")' /\ ~First("index")
      /\ Due("line") = Due("line")' /\ Due("upsert") = Due("upsert")'
    BY <1>1, WriteStep DEF IInv, First
<1>3. Len(writes) = 1
    <2>1. 1 \in 1 .. Len(writes) /\ writes[1].kind = "done"
        BY <1>1, WriteTail DEF First, IInv
    <2>. QED
        BY <1>2, <2>1 DEF Ordered, InOrder
<1>4. Due("upsert") = {}
    BY <1>1, <1>3 DEF Due, Brought, First
<1>5. TypeOK'
    BY <1>1, WriteTail DEF IInv, TypeOK, NextWrite
<1>6. WritesInOrder' /\ FlushIsOfLoaded'
    BY <1>1, <1>2 DEF WritesInOrder, FlushIsOfLoaded, IInv, NextWrite
<1>7. FileHasMemory' /\ RowsAreMemory' /\ FileHasRows'
    BY <1>1, <1>2 DEF FileHasMemory, RowsAreMemory, FileHasRows, IInv, NextWrite
<1>8. ToldIsKept'
    BY <1>1, <1>2, <1>4 DEF RowsAreMemory, ToldIsKept, IInv, NextWrite
<1>9. Counted'
    BY <1>1, <1>2, RowStillDue DEF Counted, IInv, NextWrite
<1>. QED
    BY <1>5, <1>6, <1>7, <1>8, <1>9 DEF IInv

\* Dying anywhere but inside a rewrite of the file leaves every told message in the file.
LEMMA RestartStep == ASSUME IInv, "torn" \notin Stops, Restart PROVE IInv'
<1>. USE DEF Restart
<1>1. ~First("file")
    BY DEF First, Idle, IInv, TypeOK
<1>2. Ordered' /\ ~First("file")' /\ ~First("index")'
    BY DEF Ordered, InOrder, First
<1>3. TypeOK'
    <2>1. unsaved' \in BOOLEAN /\ count' \in 0 .. Cardinality(Messages)
        BY DEF TypeOK, IInv
    <2>2. memory' \in Transcripts /\ writes' \in Seq(Writes)
        BY EmptyType
    <2>. QED
        BY <2>1, <2>2 DEF TypeOK, IInv
<1>4. WritesInOrder' /\ FlushIsOfLoaded'
    BY <1>2 DEF WritesInOrder, FlushIsOfLoaded
<1>5. FileHasMemory' /\ RowsAreMemory'
    BY DEF FileHasMemory, RowsAreMemory
<1>6. FileHasRows' /\ ToldIsKept'
    BY <1>1 DEF FileHasRows, ToldIsKept, IInv
<1>7. Counted'
    BY <1>2 DEF Counted
<1>. QED
    BY <1>3, <1>4, <1>5, <1>6, <1>7 DEF IInv
-----------------------------------------------------------------------------
LEMMA Initially == ASSUME Init PROVE IInv
<1>. USE DEF Init
<1>1. Size(Empty) = 0
    <2>1. {m \in Messages : Empty[m] # 0} = {}
        BY DEF Empty
    <2>. QED
        BY <2>1, FS_EmptySet DEF Size
<1>2. ~First("index") /\ Ordered
    BY DEF First, Ordered, InOrder
<1>3. TypeOK
    <2>1. 0 \in 0 .. Cardinality(Messages)
        BY FS_CardinalityType, MessagesAssumption
    <2>2. writes \in Seq(Writes)
        OBVIOUS
    <2>3. count \in 0 .. Cardinality(Messages) /\ row \in 0 .. Cardinality(Messages)
        BY <2>1
    <2>. QED
        BY <2>2, <2>3, EmptyType DEF TypeOK
<1>4. WritesInOrder /\ FlushIsOfLoaded
    BY <1>2 DEF WritesInOrder, FlushIsOfLoaded
<1>5. FileHasMemory /\ RowsAreMemory /\ FileHasRows /\ ToldIsKept
    BY <1>2 DEF FileHasMemory, RowsAreMemory, FileHasRows, ToldIsKept, Empty
<1>6. Counted
    BY <1>1, <1>2 DEF Counted
<1>. QED
    BY <1>3, <1>4, <1>5, <1>6 DEF IInv

LEMMA Stutters == ASSUME IInv, UNCHANGED vars PROVE IInv'
BY DEF vars, IInv, TypeOK, WritesInOrder, Ordered, InOrder, FlushIsOfLoaded, FileHasMemory, RowsAreMemory,
       FileHasRows, ToldIsKept, Counted, RowIsDue, First, Due, Brought

LEMMA Steps == ASSUME IInv, "torn" \notin Stops, [Next]_vars PROVE IInv'
<1>1. CASE Next
    BY <1>1, AppendMessageStep, MarkMessagesSeenStep, UpdateMessageStep, ReadStep, UpdateMetadataStep,
       FlushMessagesFileStep, ReconcileStep, WriteMetadataStep, WriteRowStep, AppendLineStep,
       UpsertMessagesStep, WriteIndexStep, TruncateFileStep, RewriteFileStep, AcknowledgeStep, RestartStep
       DEF Next, Persist
<1>. QED
    BY <1>1, Stutters

\* As long as the process does not die inside a rewrite of messages.jsonl, memory, index
\* and file differ by no more than the current handler has still to write.
THEOREM Invariance == "torn" \notin Stops /\ Spec => []IInv
<1>1. ASSUME "torn" \notin Stops PROVE Spec => []IInv
    BY <1>1, Initially, Steps, PTL DEF Spec
<1>. QED
    BY <1>1

\* The store is type correct: the counts stay within the messages there are.
THEOREM TypeCorrect == "torn" \notin Stops /\ Spec => []TypeOK
<1>1. IInv => TypeOK
    BY DEF IInv
<1>. QED
    BY <1>1, Invariance, PTL

\* A message whose handler answered is in what readers get from then on, wherever later
\* handlers are killed (appendMessage, markMessagesSeen, loadCache).
THEOREM MessagesSurvive == "torn" \notin Stops /\ Spec => []AcknowledgedMessagesSurvive
<1>1. IInv => AcknowledgedMessagesSurvive
    <2>1. ASSUME IInv, ~loaded PROVE ~First("file")
        BY <2>1, WriteFields DEF IInv, WritesInOrder, Ordered, InOrder, First, TypeOK
    <2>. QED
        BY <2>1 DEF IInv, AcknowledgedMessagesSurvive, ToldIsKept, FileHasRows, View
<1>. QED
    BY <1>1, Invariance, PTL

\* A restart between two handlers changes nothing that a reader can see, although it
\* cancels a scheduled flush: the index has everything.
THEOREM RestartIsInvisible == "torn" \notin Stops /\ Spec => RestartBetweenHandlersKeepsAll
<1>1. ASSUME IInv, Restart, Idle PROVE View' = View
    BY <1>1, BetweenHandlers DEF Restart, View, IndexComplete
<1>2. IInv => [Restart /\ Idle => View' = View]_vars
    BY <1>1
<1>. QED
    BY <1>2, Invariance, PTL DEF RestartBetweenHandlersKeepsAll
-----------------------------------------------------------------------------
(***************************************************************************)
(* Edits and seen marks.  Versions say more than presence: the rows are    *)
(* never behind what was acknowledged, and while nobody was killed with    *)
(* the file behind, whatever could make the file replace the rows, a stale *)
(* row or a count that differs, either finds the file up to date or is     *)
(* about to be put right by the writes still due.                          *)
(***************************************************************************)
Current(t) == \A m \in Messages : t[m] >= told[m]

IsDue(kind) == \E i \in 1 .. Len(writes) : writes[i].kind = kind

\* Every write that leaves the file states in the row stale is followed by one of the row.
Freshened(w) ==
    \A i \in 1 .. Len(w) : w[i].kind \in {"metadata", "line"} =>
        \E j \in (i + 1) .. Len(w) : w[j].kind \in {"row", "upsert"}

\* An answered handler leaves a fresh row.
DoneIsFresh == IsDue("done") => RowIsDue \/ fresh

CountIsRow == ~loaded => count = IF First("index") THEN Size(file) ELSE row

FileReplacesSafely ==
    /\ Current(file) \/ fresh \/ RowIsDue \/ IsDue("file")
    /\ Current(file) \/ row = Size(rows) \/ IsDue("upsert")
    /\ First("index") => Current(file)

CInv ==
    /\ Freshened(writes) /\ DoneIsFresh /\ CountIsRow
    /\ unsaved \/ ((loaded => Current(memory)) /\ Current(rows) /\ FileReplacesSafely)

\* Whatever a reader is given is not behind what was acknowledged.
LEMMA CurrentView ==
    ASSUME IInv, CInv, ~unsaved
    PROVE  /\ Current(View)
           /\ Idle /\ LoadWrites # <<>> => Current(file)
<1>1. CASE loaded
    BY <1>1 DEF CInv, View, LoadWrites
<1>2. CASE ~loaded /\ IndexComplete
    BY <1>2 DEF CInv, View, LoadWrites
<1>3. CASE ~loaded /\ ~IndexComplete
    <2>1. ~IsDue("upsert")
        BY <1>3 DEF IInv, WritesInOrder, Ordered, InOrder, IsDue
    <2>2. First("index") \/ row # Size(rows)
        BY <1>3 DEF CInv, CountIsRow, IndexComplete
    <2>3. Current(file)
        BY <2>1, <2>2 DEF CInv, FileReplacesSafely
    <2>. QED
        BY <1>3, <2>3 DEF View
<1>. QED
    BY <1>1, <1>2, <1>3

\* Between two handlers nothing is due.
LEMMA NothingIsDue == ASSUME Idle PROVE ~RowIsDue /\ \A k : ~First(k) /\ ~IsDue(k)
BY DEF Idle, RowIsDue, IsDue, First

\* The plan of a handler that changes the transcript.
LEMMA PlanIsFreshened ==
    ASSUME NEW p \in Seq(Writes), Freshened(p), writes' = LoadWrites \o p
    PROVE  Freshened(writes')
<1>1. CASE LoadWrites = <<>>
    BY <1>1
<1>2. CASE LoadWrites = <<Write("index", {})>>
    <2> DEFINE l == Write("index", {})
    <2>1. l \in Writes /\ l.kind = "index"
        BY WriteType, WriteFields
    <2>. HIDE DEF l
    <2>2. /\ Len(p) \in Nat /\ Len(writes') = Len(p) + 1
          /\ writes'[1] = l /\ \A i \in 1 .. Len(p) : writes'[i + 1] = p[i]
        <3>1. writes' = <<l>> \o p
            BY <1>2 DEF l
        <3>. QED
            BY <2>1, <3>1
    <2>3. SUFFICES ASSUME NEW i \in 1 .. Len(writes'), writes'[i].kind \in {"metadata", "line"}
          PROVE  \E j \in (i + 1) .. Len(writes') : writes'[j].kind \in {"row", "upsert"}
        BY DEF Freshened
    <2>4. i - 1 \in 1 .. Len(p) /\ writes'[i] = p[i - 1]
        BY <2>1, <2>2, <2>3
    <2>5. PICK j \in i .. Len(p) : p[j].kind \in {"row", "upsert"}
        BY <2>2, <2>3, <2>4 DEF Freshened
    <2>6. j + 1 \in (i + 1) .. Len(writes') /\ writes'[j + 1] = p[j]
        BY <2>2, <2>4, <2>5
    <2>. QED
        BY <2>5, <2>6
<1>. QED
    BY <1>1, <1>2 DEF LoadWrites

LEMMA PlansFreshen ==
    ASSUME NEW S \in SUBSET Messages
    PROVE  /\ Freshened((MetadataWrites \o <<Write("line", S), Write("upsert", S)>>) \o Done)
           /\ Freshened((MetadataWrites \o <<Write("upsert", S)>>) \o Done)
           /\ Freshened(<<Write("upsert", S)>> \o Done)
           /\ Freshened(MetadataWrites \o Done)
<1>. USE DEF Freshened
<1>1. ASSUME NEW p, p = (MetadataWrites \o <<Write("line", S), Write("upsert", S)>>) \o Done PROVE Freshened(p)
    <2>1. /\ Len(p) = 5
          /\ p[1] = Write("metadata", {}) /\ p[2] = Write("row", {}) /\ p[3] = Write("line", S)
          /\ p[4] = Write("upsert", S) /\ p[5] = Write("done", {})
        BY <1>1 DEF MetadataWrites, Done
    <2>2. /\ p[1].kind = "metadata" /\ p[2].kind = "row" /\ p[3].kind = "line"
          /\ p[4].kind = "upsert" /\ p[5].kind = "done"
        BY <2>1, WriteFields
    <2>3. \A i \in 1 .. 5 : i = 1 \/ i = 2 \/ i = 3 \/ i = 4 \/ i = 5
        OBVIOUS
    <2>. QED
        BY <2>1, <2>2, <2>3
<1>2. ASSUME NEW p, p = (MetadataWrites \o <<Write("upsert", S)>>) \o Done PROVE Freshened(p)
    <2>1. /\ Len(p) = 4
          /\ p[1] = Write("metadata", {}) /\ p[2] = Write("row", {})
          /\ p[3] = Write("upsert", S) /\ p[4] = Write("done", {})
        BY <1>2 DEF MetadataWrites, Done
    <2>2. p[1].kind = "metadata" /\ p[2].kind = "row" /\ p[3].kind = "upsert" /\ p[4].kind = "done"
        BY <2>1, WriteFields
    <2>3. \A i \in 1 .. 4 : i = 1 \/ i = 2 \/ i = 3 \/ i = 4
        OBVIOUS
    <2>. QED
        BY <2>1, <2>2, <2>3
<1>3. ASSUME NEW p, p = <<Write("upsert", S)>> \o Done PROVE Freshened(p)
    <2>1. Len(p) = 2 /\ p[1] = Write("upsert", S) /\ p[2] = Write("done", {})
        BY <1>3 DEF Done
    <2>2. p[1].kind = "upsert" /\ p[2].kind = "done"
        BY <2>1, WriteFields
    <2>3. \A i \in 1 .. 2 : i = 1 \/ i = 2
        OBVIOUS
    <2>. QED
        BY <2>1, <2>2, <2>3
<1>4. ASSUME NEW p, p = MetadataWrites \o Done PROVE Freshened(p)
    <2>1. Len(p) = 3 /\ p[1] = Write("metadata", {}) /\ p[2] = Write("row", {}) /\ p[3] = Write("done", {})
        BY <1>4 DEF MetadataWrites, Done
    <2>2. p[1].kind = "metadata" /\ p[2].kind = "row" /\ p[3].kind = "done"
        BY <2>1, WriteFields
    <2>3. \A i \in 1 .. 3 : i = 1 \/ i = 2 \/ i = 3
        OBVIOUS
    <2>. QED
        BY <2>1, <2>2, <2>3
<1>. QED
    BY <1>1, <1>2, <1>3, <1>4

\* The handlers that change the transcript, to t.
LEMMA ChangeKeepsCurrent ==
    ASSUME IInv, CInv, Idle, NEW t \in Transcripts, NEW w, NEW p \in Seq(Writes), p = w \o Done, Change(t, w),
           \A m \in Messages : t[m] >= View[m],
           Freshened(p), p[1].kind # "index", p # <<>>, \E i \in 1 .. Len(p) : p[i].kind \in {"row", "upsert"}
    PROVE  CInv'
<1>1. /\ loaded' /\ memory' = t /\ writes' = LoadWrites \o p
      /\ UNCHANGED <<reconciling, file, rows, row, fresh, told, unsaved>>
    BY DEF Change
<1>2. Freshened(writes')
    BY <1>1, PlanIsFreshened
<1>3. RowIsDue' /\ (First("index")' => LoadWrites # <<>>)
    <2>1. CASE LoadWrites = <<>>
        <3>1. writes' = p
            BY <1>1, <2>1
        <3>. QED
            BY <3>1 DEF RowIsDue, First
    <2>2. CASE LoadWrites = <<Write("index", {})>>
        <3>1. PICK i \in 1 .. Len(p) : p[i].kind \in {"row", "upsert"}
            OBVIOUS
        <3>2. i + 1 \in 1 .. Len(writes') /\ writes'[i + 1] = p[i]
            <4> DEFINE l == Write("index", {})
            <4>1. l \in Writes /\ writes' = <<l>> \o p
                BY <1>1, <2>2, WriteType
            <4>. HIDE DEF l
            <4>. QED
                BY <4>1
        <3>. QED
            BY <2>2, <3>1, <3>2 DEF RowIsDue
    <2>. QED
        BY <2>1, <2>2 DEF LoadWrites
<1>4. DoneIsFresh' /\ CountIsRow'
    BY <1>1, <1>3 DEF DoneIsFresh, CountIsRow
<1>5. ASSUME ~unsaved PROVE Current(t) /\ Current(rows) /\ FileReplacesSafely'
    <2>1. Current(View) /\ (LoadWrites # <<>> => Current(file))
        BY <1>5, CurrentView
    <2>2. Current(t)
        <3>1. View \in Transcripts /\ told \in Transcripts
            BY ViewType DEF IInv, TypeOK
        <3>. QED
            BY <2>1, <3>1 DEF Current, Transcripts
    <2>3. FileReplacesSafely'
        BY <1>1, <1>3, <1>5, <2>1, NothingIsDue DEF CInv, FileReplacesSafely, Current
    <2>. QED
        BY <1>5, <2>2, <2>3 DEF CInv
<1>. QED
    BY <1>1, <1>2, <1>4, <1>5 DEF CInv, Current

LEMMA AppendKeepsCurrent == ASSUME IInv, CInv, NEW m \in Messages, AppendMessage(m) PROVE CInv'
<1>. DEFINE t == [View EXCEPT ![m] = 1]
            w == MetadataWrites \o <<Write("line", {m}), Write("upsert", {m})>>
            p == w \o Done
<1>1. Idle /\ Change(t, w) /\ View[m] = 0
    BY DEF AppendMessage
<1>2. View \in Transcripts
    BY ViewType DEF IInv
<1>3. t \in Transcripts /\ t[m] = 1 /\ \A x \in Messages : t[x] >= View[x]
    BY <1>1, <1>2, VersionsAssumption DEF Transcripts
<1>4. memory'[m] # 0 /\ loaded'
    BY <1>1, <1>3 DEF Change
<1>5. /\ p \in Seq(Writes) /\ p # <<>> /\ p[1].kind # "index"
      /\ \E i \in 1 .. Len(p) : p[i].kind \in {"row", "upsert"}
    BY <1>4, AppendPlan
<1>6. Freshened(p)
    BY PlansFreshen
<1>. HIDE DEF t, w
<1>. QED
    BY <1>1, <1>3, <1>5, <1>6, ChangeKeepsCurrent

LEMMA ChangedIsLater ==
    ASSUME IInv, NEW S \in SUBSET Changeable
    PROVE  Changed(View, S) \in Transcripts /\ \A x \in Messages : Changed(View, S)[x] >= View[x]
<1>1. View \in Transcripts
    BY ViewType DEF IInv
<1>. QED
    BY <1>1, VersionsAssumption DEF Transcripts, Changed, Changeable

LEMMA MarkKeepsCurrent == ASSUME IInv, CInv, NEW S \in SUBSET Messages, MarkMessagesSeen(S) PROVE CInv'
<1>. DEFINE t == Changed(View, S)
            w == <<Write("upsert", S)>>
            p == w \o Done
<1>1. Idle /\ S \in SUBSET Changeable /\ Change(t, w) /\ loaded'
    BY DEF MarkMessagesSeen, Change
<1>2. t \in Transcripts /\ \A x \in Messages : t[x] >= View[x]
    BY <1>1, ChangedIsLater
<1>3. /\ p \in Seq(Writes) /\ p # <<>> /\ p[1].kind # "index"
      /\ \E i \in 1 .. Len(p) : p[i].kind \in {"row", "upsert"}
    BY <1>1, MarkPlan
<1>4. Freshened(p)
    BY PlansFreshen
<1>. HIDE DEF t, w
<1>. QED
    BY <1>1, <1>2, <1>3, <1>4, ChangeKeepsCurrent

LEMMA UpdateKeepsCurrent == ASSUME IInv, CInv, NEW m \in Messages, UpdateMessage(m) PROVE CInv'
<1>. DEFINE t == Changed(View, {m})
            w == MetadataWrites \o <<Write("upsert", {m})>>
            p == w \o Done
<1>1. Idle /\ {m} \in SUBSET Changeable /\ Change(t, w) /\ loaded'
    BY DEF UpdateMessage, Change
<1>2. t \in Transcripts /\ \A x \in Messages : t[x] >= View[x]
    BY <1>1, ChangedIsLater
<1>3. /\ p \in Seq(Writes) /\ p # <<>> /\ p[1].kind # "index"
      /\ \E i \in 1 .. Len(p) : p[i].kind \in {"row", "upsert"}
    BY <1>1, EditPlan
<1>4. Freshened(p)
    BY PlansFreshen
<1>. HIDE DEF t, w
<1>. QED
    BY <1>1, <1>2, <1>3, <1>4, ChangeKeepsCurrent

\* At most one write, that of the index, is due after loading or reconciling.
LEMMA IndexOnly ==
    ASSUME writes' \in {<<>>, <<Write("index", {})>>}
    PROVE  Freshened(writes') /\ DoneIsFresh'
BY WriteFields DEF Freshened, DoneIsFresh, IsDue

LEMMA ReadKeepsCurrent == ASSUME IInv, CInv, Read PROVE CInv'
<1>1. /\ Idle /\ loaded' /\ memory' = View /\ writes' = LoadWrites
      /\ UNCHANGED <<file, rows, row, fresh, told, unsaved>>
    BY DEF Read
<1>2. Freshened(writes') /\ DoneIsFresh' /\ CountIsRow'
    BY <1>1, IndexOnly DEF LoadWrites, CountIsRow
<1>3. First("index")' => LoadWrites # <<>>
    BY <1>1 DEF First
<1>. QED
    BY <1>1, <1>2, <1>3, CurrentView, NothingIsDue DEF CInv, FileReplacesSafely, Current

LEMMA ReconcileKeepsCurrent == ASSUME IInv, CInv, Reconcile PROVE CInv'
<1>1. /\ Idle /\ writes' \in {<<>>, <<Write("index", {})>>}
      /\ UNCHANGED <<loaded, file, rows, row, fresh, told, unsaved>>
    BY DEF Reconcile, Idle
<1>2. Freshened(writes') /\ DoneIsFresh'
    BY <1>1, IndexOnly
<1>3. CASE fresh
    <2>1. UNCHANGED <<memory, count, writes>>
        BY <1>3 DEF Reconcile
    <2>2. ~First("index") /\ ~First("index")'
        BY <1>1, <2>1, NothingIsDue DEF First
    <2>. QED
        BY <1>1, <1>2, <1>3, <2>1, <2>2, NothingIsDue DEF CInv, CountIsRow, FileReplacesSafely, Current
<1>4. CASE ~fresh
    <2>1. /\ memory' = (IF loaded THEN file ELSE memory) /\ count' = Size(file)
          /\ writes' = <<Write("index", {})>>
        BY <1>4 DEF Reconcile
    <2>2. First("index")'
        BY <2>1, WriteFields DEF First
    <2>3. ~unsaved => Current(file)
        BY <1>1, <1>4, NothingIsDue DEF CInv, FileReplacesSafely
    <2>. QED
        BY <1>1, <1>2, <2>1, <2>2, <2>3 DEF CInv, CountIsRow, FileReplacesSafely, Current
<1>. QED
    BY <1>3, <1>4

LEMMA MetadataKeepsCurrent == ASSUME IInv, CInv, UpdateMetadata PROVE CInv'
<1>1. /\ Idle /\ writes' = MetadataWrites \o Done
      /\ UNCHANGED <<loaded, memory, count, file, rows, row, fresh, told, unsaved>>
    BY DEF UpdateMetadata
<1>2. Len(writes') = 3 /\ writes'[1].kind = "metadata" /\ writes'[2].kind = "row"
    <2>1. Len(writes') = 3 /\ writes'[1] = Write("metadata", {}) /\ writes'[2] = Write("row", {})
        BY <1>1 DEF MetadataWrites, Done
    <2>. QED
        BY <2>1, WriteFields
<1>3. 2 \in 1 .. Len(writes') /\ ~First("index")'
    BY <1>2 DEF First
<1>4. RowIsDue'
    BY <1>2, <1>3 DEF RowIsDue
<1>5. Freshened(writes')
    BY <1>1, PlansFreshen
<1>. QED
    BY <1>1, <1>3, <1>4, <1>5, NothingIsDue
       DEF CInv, DoneIsFresh, CountIsRow, FileReplacesSafely, Current

LEMMA FlushKeepsCurrent == ASSUME IInv, CInv, FlushMessagesFile PROVE CInv'
<1>1. /\ Idle /\ writes' = <<Write("truncate", {}), Write("file", {})>>
      /\ UNCHANGED <<loaded, memory, count, file, rows, row, fresh, told, unsaved>>
    BY DEF FlushMessagesFile
<1>2. Len(writes') = 2 /\ writes'[1].kind = "truncate" /\ writes'[2].kind = "file" /\ \A i \in 1 .. 2 : i = 1 \/ i = 2
    BY <1>1, WriteFields
<1>3. Freshened(writes') /\ DoneIsFresh' /\ ~First("index")'
    BY <1>2 DEF Freshened, DoneIsFresh, IsDue, First
<1>. QED
    BY <1>1, <1>3, NothingIsDue DEF CInv, CountIsRow, FileReplacesSafely, Current

\* What a write leaves due.
LEMMA WriteLeaves ==
    ASSUME TypeOK, WritesInOrder, CInv, NEW k, NextWrite(k)
    PROVE  /\ Freshened(writes')
           /\ \A kind : IsDue(kind)' => IsDue(kind)
           /\ \A kind : kind # k /\ IsDue(kind) => IsDue(kind)'
           /\ RowIsDue' => RowIsDue
           /\ k \in {"metadata", "line"} => RowIsDue'
           /\ k \notin {"row", "upsert"} /\ RowIsDue => RowIsDue'
           /\ ~First("index") \/ k = "index"
<1>. USE WriteTail
<1>0. \A i \in 1 .. Len(writes') : i + 1 \in 1 .. Len(writes) /\ writes'[i] = writes[i + 1]
    OBVIOUS
<1>1. \A i \in 1 .. Len(writes) : i = 1 \/ (i - 1 \in 1 .. Len(writes') /\ writes'[i - 1] = writes[i])
    OBVIOUS
<1>2. Freshened(writes')
    <2>1. SUFFICES ASSUME NEW i \in 1 .. Len(writes'), writes'[i].kind \in {"metadata", "line"}
          PROVE  \E j \in (i + 1) .. Len(writes') : writes'[j].kind \in {"row", "upsert"}
        BY DEF Freshened
    <2>2. PICK j \in (i + 2) .. Len(writes) : writes[j].kind \in {"row", "upsert"}
        BY <1>0, <2>1 DEF CInv, Freshened
    <2>3. j - 1 \in (i + 1) .. Len(writes') /\ writes'[j - 1] = writes[j]
        BY <1>1, <2>2
    <2>. QED
        BY <2>2, <2>3
<1>3. \A kind : IsDue(kind)' => IsDue(kind)
    BY <1>0 DEF IsDue
<1>4. \A kind : kind # k /\ IsDue(kind) => IsDue(kind)'
    BY <1>1 DEF IsDue, First
<1>5. RowIsDue' => RowIsDue
    BY <1>0 DEF RowIsDue
<1>6. ASSUME k \in {"metadata", "line"} PROVE RowIsDue'
    <2>1. 1 \in 1 .. Len(writes) /\ writes[1].kind = k
        BY DEF First
    <2>2. PICK j \in 2 .. Len(writes) : writes[j].kind \in {"row", "upsert"}
        BY <1>6, <2>1 DEF CInv, Freshened
    <2>. QED
        BY <1>1, <2>2 DEF RowIsDue
<1>7. k \notin {"row", "upsert"} /\ RowIsDue => RowIsDue'
    BY <1>1 DEF RowIsDue, First
<1>8. ~First("index") \/ k = "index"
    BY DEF First
<1>. QED
    BY <1>2, <1>3, <1>4, <1>5, <1>6, <1>7, <1>8

\* Transcripts that are equal where it counts have the same size.
LEMMA SameTranscript ==
    ASSUME NEW s \in Transcripts, NEW t \in Transcripts, \A m \in Messages : s[m] = t[m]
    PROVE  s = t
BY DEF Transcripts

LEMMA WriteMetadataKeepsCurrent == ASSUME IInv, CInv, WriteMetadata PROVE CInv'
<1>1. NextWrite("metadata") /\ fresh' = FALSE
      /\ UNCHANGED <<loaded, memory, count, file, rows, row, told, unsaved>>
    BY DEF WriteMetadata, NextWrite
<1>2. ~First("index")' /\ ~First("index")
    BY <1>1, WriteStep, WriteTail DEF IInv, First
<1>3. Freshened(writes') /\ RowIsDue' /\ (IsDue("upsert") => IsDue("upsert")')
    BY <1>1, WriteLeaves DEF IInv
<1>. QED
    BY <1>1, <1>2, <1>3 DEF CInv, DoneIsFresh, CountIsRow, FileReplacesSafely, Current

LEMMA WriteRowKeepsCurrent == ASSUME IInv, CInv, WriteRow PROVE CInv'
<1>1. NextWrite("row") /\ fresh' = TRUE /\ row' = count
      /\ UNCHANGED <<loaded, memory, count, file, rows, told, unsaved>>
    BY DEF WriteRow, NextWrite
<1>2. ~First("index")' /\ ~First("index")
    BY <1>1, WriteStep, WriteTail DEF IInv, First
<1>3. Freshened(writes') /\ (IsDue("upsert") => IsDue("upsert")')
    BY <1>1, WriteLeaves DEF IInv
<1>4. IsDue("upsert")' \/ row' = Size(rows) \/ (~loaded /\ row' = row)
    <2>1. CASE loaded /\ ~IsDue("upsert")
        <3>1. Due("upsert") = {}
            BY <2>1 DEF Due, Brought, IsDue
        <3>2. memory = rows
            BY <1>2, <2>1, <3>1, SameTranscript DEF IInv, RowsAreMemory, TypeOK
        <3>. QED
            BY <1>1, <2>1, <3>2 DEF IInv, Counted
    <2>2. CASE ~loaded
        BY <1>1, <1>2, <2>2 DEF CInv, CountIsRow
    <2>. QED
        BY <1>3, <2>1, <2>2
<1>. QED
    BY <1>1, <1>2, <1>3, <1>4 DEF CInv, DoneIsFresh, CountIsRow, FileReplacesSafely, Current

LEMMA AppendLineKeepsCurrent == ASSUME IInv, CInv, AppendLine PROVE CInv'
<1>1. NextWrite("line") /\ fresh' = FALSE
      /\ UNCHANGED <<loaded, memory, count, rows, row, told, unsaved>>
      /\ file' = [m \in Messages |-> IF m \in Head(writes).messages THEN memory[m] ELSE file[m]]
    BY DEF AppendLine, NextWrite
<1>2. ~First("index")' /\ ~First("index") /\ loaded
    BY <1>1, WriteStep, WriteTail DEF IInv, First, Ordered, InOrder
<1>3. Freshened(writes') /\ RowIsDue' /\ (IsDue("upsert") => IsDue("upsert")')
    BY <1>1, WriteLeaves DEF IInv
<1>4. Current(memory) /\ Current(file) => Current(file)'
    BY <1>1 DEF Current
<1>. QED
    BY <1>1, <1>2, <1>3, <1>4 DEF CInv, DoneIsFresh, CountIsRow, FileReplacesSafely, Current

LEMMA UpsertKeepsCurrent == ASSUME IInv, CInv, UpsertMessages PROVE CInv'
<1>1. NextWrite("upsert") /\ fresh' = TRUE /\ row' = count
      /\ UNCHANGED <<loaded, memory, count, file, told, unsaved>>
      /\ rows' = [m \in Messages |-> IF m \in Head(writes).messages THEN memory[m] ELSE rows[m]]
    BY DEF UpsertMessages, NextWrite
<1>2. ~First("index")' /\ ~First("index") /\ loaded
    BY <1>1, WriteStep, WriteTail DEF IInv, First, Ordered, InOrder
<1>3. Freshened(writes')
    BY <1>1, WriteLeaves DEF IInv
<1>4. Current(memory) /\ Current(rows) => Current(rows)'
    BY <1>1 DEF Current
<1>5. IsDue("upsert")' \/ row' = Size(rows')
    <2>1. ASSUME ~IsDue("upsert")' PROVE memory = rows'
        <3>1. Due("upsert")' = {}
            BY <2>1 DEF Due, Brought, IsDue
        <3>2. IInv'
            BY UpsertMessagesStep
        <3>. QED
            BY <1>1, <1>2, <3>1, <3>2, SameTranscript DEF IInv, RowsAreMemory, TypeOK
    <2>. QED
        BY <1>1, <1>2, <2>1 DEF IInv, Counted
<1>. QED
    BY <1>1, <1>2, <1>3, <1>4, <1>5 DEF CInv, DoneIsFresh, CountIsRow, FileReplacesSafely, Current, Size

LEMMA WriteIndexKeepsCurrent == ASSUME IInv, CInv, WriteIndex PROVE CInv'
<1>1. NextWrite("index") /\ fresh' = TRUE /\ rows' = file /\ row' = Size(file)
      /\ UNCHANGED <<loaded, memory, count, file, told, unsaved>>
    BY DEF WriteIndex, NextWrite
<1>2. ~First("index")' /\ First("index")
    BY <1>1, WriteStep, WriteTail DEF IInv
<1>3. Freshened(writes')
    BY <1>1, WriteLeaves DEF IInv
<1>. QED
    BY <1>1, <1>2, <1>3 DEF CInv, DoneIsFresh, CountIsRow, FileReplacesSafely, Current, Size

\* Inside the flush of a loaded session nothing else is due.
LEMMA InsideFlush ==
    ASSUME IInv, First("truncate") \/ First("file")
    PROVE  /\ loaded /\ writes \in {FlushWrites, <<Write("file", {})>>}
           /\ row = Size(rows) /\ ~First("index")
<1>1. loaded /\ writes \in {FlushWrites, <<Write("file", {})>>}
    BY WriteTail DEF IInv, WritesInOrder, Ordered, InOrder, First, TypeOK
<1>2. \A i \in 1 .. Len(writes) : writes[i].kind \in {"truncate", "file"}
    BY <1>1, WriteFields DEF FlushWrites
<1>3. ~First("index") /\ Due("upsert") = {} /\ ~RowIsDue
    BY <1>2 DEF First, Due, Brought, RowIsDue
<1>4. memory = rows
    BY <1>1, <1>3, SameTranscript DEF IInv, RowsAreMemory, TypeOK
<1>. QED
    BY <1>1, <1>3, <1>4 DEF IInv, Counted

LEMMA TruncateKeepsCurrent == ASSUME IInv, CInv, TruncateFile PROVE CInv'
<1>1. NextWrite("truncate") /\ UNCHANGED <<loaded, memory, count, rows, row, told, unsaved>> /\ First("truncate")
    BY WriteTail DEF TruncateFile, NextWrite, IInv
<1>2. loaded /\ row = Size(rows) /\ writes = FlushWrites
    BY <1>1, InsideFlush, WriteFields DEF First
<1>3. Len(writes') = 1 /\ writes'[1].kind = "file"
    BY <1>1, <1>2, WriteFields DEF NextWrite, FlushWrites
<1>4. Freshened(writes') /\ DoneIsFresh' /\ ~First("index")' /\ IsDue("file")'
    <2>1. 1 \in 1 .. Len(writes')
        BY <1>3
    <2>. QED
        BY <1>3, <2>1 DEF Freshened, DoneIsFresh, IsDue, First
<1>. QED
    BY <1>1, <1>2, <1>4 DEF CInv, CountIsRow, FileReplacesSafely, Current, Size

LEMMA RewriteKeepsCurrent == ASSUME IInv, CInv, RewriteFile PROVE CInv'
<1>1. NextWrite("file") /\ UNCHANGED <<loaded, memory, count, rows, row, told, unsaved>> /\ First("file")
      /\ file' = memory
    BY WriteTail DEF RewriteFile, NextWrite, IInv
<1>2. loaded /\ writes = <<Write("file", {})>>
    BY <1>1, InsideFlush, WriteFields DEF First, FlushWrites
<1>3. writes' = <<>>
    BY <1>1, <1>2 DEF NextWrite
<1>4. Freshened(writes') /\ DoneIsFresh' /\ ~First("index")'
    BY <1>3 DEF Freshened, DoneIsFresh, IsDue, First
<1>. QED
    BY <1>1, <1>2, <1>4 DEF CInv, CountIsRow, FileReplacesSafely, Current

LEMMA AcknowledgeKeepsCurrent == ASSUME IInv, CInv, Acknowledge PROVE CInv'
<1>1. NextWrite("done") /\ told' = (IF loaded THEN memory ELSE told)
      /\ UNCHANGED <<loaded, memory, count, file, rows, row, fresh, unsaved>>
    BY DEF Acknowledge, NextWrite
<1>2. First("done") /\ Len(writes) = 1 /\ writes[1].kind = "done" /\ 1 \in 1 .. Len(writes)
    <2>1. First("done") /\ 1 \in 1 .. Len(writes) /\ writes[1].kind = "done"
        BY <1>1, WriteTail DEF IInv, First
    <2>2. Ordered
        BY <1>1, WriteStep DEF IInv
    <2>. QED
        BY <2>1, <2>2 DEF Ordered, InOrder
<1>3. ~RowIsDue /\ Due("upsert") = {} /\ IsDue("done") /\ ~First("index") /\ ~IsDue("upsert") /\ ~IsDue("file")
    BY <1>2 DEF RowIsDue, Due, Brought, IsDue, First
<1>4. fresh
    BY <1>3 DEF CInv, DoneIsFresh
<1>5. Len(writes') = 0
    BY <1>1, <1>2, WriteTail DEF IInv
<1>6. Freshened(writes') /\ DoneIsFresh' /\ ~First("index")'
    <2>1. ~First("index")'
        BY <1>1, WriteStep DEF IInv
    <2>. QED
        BY <1>5, <2>1 DEF Freshened, DoneIsFresh, IsDue
<1>7. CASE loaded
    <2>1. memory = rows /\ memory \in Transcripts
        BY <1>3, <1>7, SameTranscript DEF IInv, RowsAreMemory, TypeOK
    <2>2. row = Size(rows)
        BY <1>3, <1>7, <2>1 DEF IInv, Counted
    <2>3. Current(memory)' /\ Current(rows)'
        BY <1>1, <1>7, <2>1 DEF Current, Transcripts
    <2>. QED
        BY <1>1, <1>4, <1>6, <1>7, <2>2, <2>3 DEF CInv, CountIsRow, FileReplacesSafely, Size
<1>8. CASE ~loaded
    BY <1>1, <1>3, <1>4, <1>6, <1>8 DEF CInv, CountIsRow, FileReplacesSafely, Current
<1>. QED
    BY <1>7, <1>8

\* A kill that leaves the file behind is what the history notes.
LEMMA RestartKeepsCurrent == ASSUME IInv, CInv, Restart PROVE CInv'
<1>1. /\ ~loaded' /\ count' = row /\ writes' = <<>>
      /\ unsaved' = (unsaved \/ (~Idle /\ \E m \in Messages : file[m] < told[m]))
      /\ UNCHANGED <<file, rows, row, fresh, told>>
    BY DEF Restart
<1>2. Freshened(writes') /\ DoneIsFresh' /\ CountIsRow' /\ ~First("index")'
    BY <1>1 DEF Freshened, DoneIsFresh, IsDue, CountIsRow, First
<1>3. ASSUME ~unsaved' PROVE ~unsaved /\ (Idle \/ Current(file))
    <2>1. ~(unsaved \/ (~Idle /\ \E m \in Messages : file[m] < told[m]))
        BY <1>1, <1>3
    <2>2. \A m \in Messages : file[m] \in Nat /\ told[m] \in Nat
        BY DEF IInv, TypeOK, Transcripts
    <2>. QED
        BY <2>1, <2>2 DEF Current
<1>. QED
    BY <1>1, <1>2, <1>3, NothingIsDue DEF CInv, FileReplacesSafely, Current

LEMMA InitiallyCurrent == ASSUME Init PROVE CInv
<1>1. Size(Empty) = 0
    <2>1. {m \in Messages : Empty[m] # 0} = {}
        BY DEF Empty
    <2>. QED
        BY <2>1, FS_EmptySet DEF Size
<1>2. Len(writes) = 0 /\ ~First("index")
    BY DEF Init, First
<1>. QED
    BY <1>1, <1>2 DEF Init, CInv, Freshened, DoneIsFresh, IsDue, CountIsRow, FileReplacesSafely, Current, Empty

LEMMA StaysCurrent == ASSUME IInv, CInv, [Next]_vars PROVE CInv'
<1>1. CASE Next
    BY <1>1, AppendKeepsCurrent, MarkKeepsCurrent, UpdateKeepsCurrent, ReadKeepsCurrent, MetadataKeepsCurrent,
       FlushKeepsCurrent, ReconcileKeepsCurrent, WriteMetadataKeepsCurrent, WriteRowKeepsCurrent,
       AppendLineKeepsCurrent, UpsertKeepsCurrent, WriteIndexKeepsCurrent, TruncateKeepsCurrent,
       RewriteKeepsCurrent, AcknowledgeKeepsCurrent, RestartKeepsCurrent
       DEF Next, Persist
<1>2. CASE UNCHANGED vars
    BY <1>2 DEF vars, CInv, Freshened, DoneIsFresh, IsDue, RowIsDue, First, CountIsRow, FileReplacesSafely,
       Current, Size
<1>. QED
    BY <1>1, <1>2

\* Edits and seen marks that were acknowledged are in what readers get from then on, unless
\* a handler was killed while the file lacked one (updateMessage, markMessagesSeen,
\* flushMessagesFile, reconcileSessionIndex).
THEOREM ChangesSurvive == "torn" \notin Stops /\ Spec => []AcknowledgedChangesSurvive
<1>1. ASSUME "torn" \notin Stops PROVE Spec => []AcknowledgedChangesSurvive
    <2>1. Spec => []IInv
        BY <1>1, Invariance, PTL
    <2>2. IInv /\ CInv /\ [Next]_vars => CInv'
        BY StaysCurrent
    <2>3. IInv /\ CInv => AcknowledgedChangesSurvive
        BY CurrentView DEF AcknowledgedChangesSurvive, Current
    <2>. QED
        BY <2>1, <2>2, <2>3, InitiallyCurrent, PTL DEF Spec
<1>. QED
    BY <1>1
-----------------------------------------------------------------------------
(***************************************************************************)
(* The refinement of DurableTranscript.  Once the session is reconciled,   *)
(* either the row has the states of the files or the file is what readers  *)
(* get, so that a restart leaves nothing to recover that was not there.    *)
(***************************************************************************)
Settled == Idle /\ ~reconciling => fresh \/ file = View

LEMMA SeenIs ==
    /\ TypeOK => Seen = IF ~loaded /\ First("index") THEN file ELSE View
    /\ TypeOK' => Seen' = IF ~loaded' /\ First("index")' THEN file' ELSE View'
BY DEF Seen, First, Idle, TypeOK

KeepsTold == \A m \in Messages : (told[m] # 0 => Seen[m] # 0) /\ (unsaved \/ Seen[m] >= told[m])

\* What readers get keeps what was told.
LEMMA SeenKeeps == ASSUME IInv, CInv PROVE KeepsTold
<1>. USE DEF KeepsTold
<1>1. CASE ~loaded /\ First("index")
    <2>1. Seen = file /\ ~First("file")
        BY <1>1, SeenIs, WriteFields DEF IInv, First
    <2>2. unsaved \/ Current(file)
        BY <1>1 DEF CInv, FileReplacesSafely
    <2>. QED
        BY <2>1, <2>2 DEF IInv, ToldIsKept, FileHasRows, Current
<1>2. CASE loaded \/ ~First("index")
    <2>1. Seen = View
        BY <1>2, SeenIs DEF IInv
    <2>2. ~loaded => ~First("file")
        BY WriteFields DEF IInv, WritesInOrder, Ordered, InOrder, First, TypeOK
    <2>3. \A m \in Messages : told[m] # 0 => View[m] # 0
        BY <2>2 DEF IInv, ToldIsKept, FileHasRows, View
    <2>4. unsaved \/ \A m \in Messages : View[m] >= told[m]
        BY CurrentView DEF Current
    <2>. QED
        BY <2>1, <2>3, <2>4
<1>. QED
    BY <1>1, <1>2

\* A write changes nothing that readers get.
LEMMA WriteSeen == ASSUME IInv, IInv', Persist PROVE Seen' = Seen
<1>1. UNCHANGED <<loaded, memory, count>> /\ writes # <<>>
    BY DEF Persist, WriteMetadata, WriteRow, AppendLine, UpsertMessages, WriteIndex, TruncateFile, RewriteFile,
           Acknowledge, NextWrite
<1>2. Seen = (IF ~loaded /\ First("index") THEN file ELSE View)
      /\ Seen' = (IF ~loaded' /\ First("index")' THEN file' ELSE View')
    BY SeenIs DEF IInv
<1>3. CASE loaded
    BY <1>1, <1>2, <1>3 DEF View
<1>4. CASE ~loaded
    <2>1. First("metadata") \/ First("row") \/ First("index") \/ First("done")
        <3>1. Ordered /\ 1 \in 1 .. Len(writes) /\ writes[1] \in Writes
            BY <1>1, <1>4 DEF IInv, WritesInOrder, TypeOK
        <3>. QED
            BY <1>1, <1>4, <3>1 DEF Ordered, InOrder, Writes, First
    <2>2. CASE NextWrite("index")
        <3>1. First("index") /\ ~First("index")'
            BY <2>2, WriteStep, WriteTail DEF IInv
        <3>2. WriteIndex
            BY <2>2 DEF Persist, WriteMetadata, WriteRow, AppendLine, UpsertMessages, TruncateFile,
                        RewriteFile, Acknowledge, NextWrite
        <3>. QED
            BY <1>1, <1>2, <1>4, <3>1, <3>2 DEF WriteIndex, View
    <2>3. ASSUME NEW k \in {"metadata", "row", "done"}, NextWrite(k), UNCHANGED <<file, rows>>
          PROVE  Seen' = Seen
        <3>1. ~First("index") /\ ~First("index")'
            BY <2>3, WriteStep, WriteTail DEF IInv, First
        <3>. QED
            BY <1>1, <1>2, <1>4, <2>3, <3>1 DEF View, IndexComplete
    <2>4. \A k : NextWrite(k) => First(k)
        BY WriteTail DEF IInv
    <2>. QED
        BY <2>1, <2>2, <2>3, <2>4 DEF Persist, WriteMetadata, WriteRow, AppendLine, UpsertMessages, WriteIndex,
           TruncateFile, RewriteFile, Acknowledge, First
<1>. QED
    BY <1>3, <1>4

\* The last write of a handler leaves nothing to recover.
LEMMA LastWrite == ASSUME IInv, CInv, IInv', Persist, Idle' PROVE fresh' \/ file' = View'
<1>1. Len(writes') = 0
    BY DEF Idle
<1>2. CASE WriteMetadata \/ AppendLine
    <2>1. PICK k \in {"metadata", "line"} : NextWrite(k)
        BY <1>2 DEF WriteMetadata, AppendLine
    <2>2. RowIsDue'
        BY <2>1, WriteLeaves DEF IInv
    <2>. QED
        BY <1>1, <2>2 DEF RowIsDue
<1>3. CASE WriteRow \/ UpsertMessages \/ WriteIndex
    BY <1>3 DEF WriteRow, UpsertMessages, WriteIndex
<1>4. CASE TruncateFile
    <2>1. NextWrite("truncate") /\ First("truncate")
        BY <1>4, WriteTail DEF TruncateFile, IInv
    <2>2. writes = FlushWrites
        BY <2>1, InsideFlush, WriteFields DEF First
    <2>. QED
        BY <1>1, <2>1, <2>2 DEF NextWrite, FlushWrites
<1>5. CASE RewriteFile
    <2>1. NextWrite("file") /\ First("file") /\ file' = memory
        BY <1>5, WriteTail DEF RewriteFile, IInv
    <2>2. loaded
        BY <2>1, InsideFlush
    <2>. QED
        BY <2>1, <2>2 DEF NextWrite, View
<1>6. CASE Acknowledge
    <2>1. NextWrite("done") /\ First("done") /\ fresh' = fresh
        BY <1>6, WriteTail DEF Acknowledge, IInv
    <2>2. Len(writes) = 1 /\ 1 \in 1 .. Len(writes) /\ writes[1].kind = "done"
        BY <1>1, <2>1, WriteTail DEF IInv, First
    <2>3. IsDue("done") /\ ~RowIsDue
        BY <2>2 DEF IsDue, RowIsDue
    <2>. QED
        BY <2>1, <2>3 DEF CInv, DoneIsFresh
<1>. QED
    BY <1>2, <1>3, <1>4, <1>5, <1>6 DEF Persist
LEMMA PlansWork == MetadataWrites \o Done # <<>> /\ FlushWrites # <<>> /\ FlushWrites[1].kind = "truncate"
<1>1. Len(MetadataWrites \o Done) = 3 /\ Len(FlushWrites) = 2 /\ FlushWrites[1] = Write("truncate", {})
    BY DEF MetadataWrites, Done, FlushWrites
<1>. QED
    BY <1>1, WriteFields

LEMMA PlanTypes ==
    ASSUME NEW S \in SUBSET Messages
    PROVE  /\ MetadataWrites \o <<Write("line", S), Write("upsert", S)>> \in Seq(Writes)
           /\ MetadataWrites \o <<Write("upsert", S)>> \in Seq(Writes)
           /\ <<Write("upsert", S)>> \in Seq(Writes)
<1>1. <<Write("line", S), Write("upsert", S)>> \in Seq(Writes) /\ <<Write("upsert", S)>> \in Seq(Writes)
    BY WriteType
<1>. QED
    BY <1>1, WriteType

\* A handler that changes the transcript has something to write.
LEMMA ChangeWorks ==
    ASSUME NEW t, NEW w \in Seq(Writes), Change(t, w)
    PROVE  ~Idle' /\ loaded' /\ memory' = t /\ UNCHANGED <<told, unsaved>>
<1>1. Done \in Seq(Writes) /\ Len(Done) = 1 /\ LoadWrites \in Seq(Writes)
    BY WriteType DEF Done
<1>2. Len(writes') >= 1
    BY <1>1 DEF Change
<1>. QED
    BY <1>2 DEF Change, Idle

LEMMA StaysSettled == ASSUME IInv, CInv, Settled, IInv', [Next]_vars PROVE Settled'
<1>. USE DEF Settled
<1>1. CASE UNCHANGED vars
    BY <1>1 DEF vars, Idle, View, IndexComplete, Size
<1>2. CASE Persist
    <2>1. reconciling' = reconciling
        BY <1>2 DEF Persist, WriteMetadata, WriteRow, AppendLine, UpsertMessages, WriteIndex, TruncateFile,
                    RewriteFile, Acknowledge, NextWrite
    <2>. QED
        BY <1>2, <2>1, LastWrite
<1>3. CASE Restart
    BY <1>3 DEF Restart
<1>4. CASE Reconcile
    BY <1>4 DEF Reconcile, Idle
<1>5. CASE Read
    BY <1>5 DEF Read, Idle, View
<1>6. CASE FlushMessagesFile \/ UpdateMetadata
    BY <1>6, PlansWork DEF FlushMessagesFile, FlushWrites, Idle, UpdateMetadata
<1>7. ASSUME NEW t, NEW w \in Seq(Writes), Change(t, w) PROVE ~Idle'
    BY <1>7, ChangeWorks
<1>8. \A m \in Messages : (AppendMessage(m) \/ UpdateMessage(m)) => ~Idle'
    BY <1>7, PlanTypes DEF AppendMessage, UpdateMessage
<1>9. \A S \in SUBSET Messages : MarkMessagesSeen(S) => ~Idle'
    BY <1>7, PlanTypes DEF MarkMessagesSeen
<1>. QED
    BY <1>1, <1>2, <1>3, <1>4, <1>5, <1>6, <1>8, <1>9 DEF Next

LEMMA RestartIsUnseen == ASSUME IInv, Settled, Restart, Idle PROVE View' = View /\ Shaken' = Shaken
<1>1. View' = View
    BY BetweenHandlers DEF Restart, View, IndexComplete
<1>2. Idle' /\ reconciling' /\ UNCHANGED <<fresh, file>>
    BY DEF Restart, Idle
<1>3. Shaken <=> ~fresh /\ file # View
    BY DEF Shaken, Settled
<1>4. Shaken' <=> ~fresh /\ file # View
    BY <1>1, <1>2 DEF Shaken
<1>. QED
    BY <1>1, <1>3, <1>4, Zenon DEF Shaken
-----------------------------------------------------------------------------
\* Handlers that start with nothing but more than readers had begin one of the abstract
\* transcript ...
LEMMA Begins ==
    ASSUME IInv, Idle, ~Idle', UNCHANGED <<told, unsaved>>, \A m \in Messages : Seen'[m] >= Seen[m]
    PROVE  Durable!Begin
<1>1. (~Idle)' = TRUE /\ Shaken' = FALSE
    BY Zenon DEF Shaken
<1>. QED
    BY <1>1 DEF Durable!Begin

\* ... as do those that change it ...
LEMMA ChangeBegins ==
    ASSUME IInv, IInv', Idle, NEW t, NEW w \in Seq(Writes), Change(t, w), \A m \in Messages : t[m] >= View[m]
    PROVE  Durable!Begin
<1>1. ~Idle' /\ loaded' /\ memory' = t /\ UNCHANGED <<told, unsaved>>
    BY ChangeWorks
<1>2. Seen = View /\ Seen' = t
    BY <1>1, SeenIs, NothingIsDue DEF IInv, View
<1>. QED
    BY <1>1, <1>2, Begins

LEMMA SomeHandlersBegin ==
    ASSUME IInv, IInv', \/ \E m \in Messages : AppendMessage(m) \/ UpdateMessage(m)
                        \/ \E S \in SUBSET Messages : MarkMessagesSeen(S)
    PROVE  Durable!Begin
<1>0. View \in Transcripts
    BY ViewType DEF IInv
<1>1. ASSUME NEW m \in Messages, AppendMessage(m) PROVE Durable!Begin
    <2> DEFINE t == [View EXCEPT ![m] = 1]
    <2>1. \A x \in Messages : t[x] >= View[x]
        BY <1>0, <1>1 DEF Transcripts, AppendMessage
    <2>. HIDE DEF t
    <2>. QED
        BY <1>1, <2>1, PlanTypes, ChangeBegins DEF AppendMessage, t
<1>2. ASSUME NEW m \in Messages, UpdateMessage(m) PROVE Durable!Begin
    <2>1. \A x \in Messages : Changed(View, {m})[x] >= View[x]
        BY <1>2, ChangedIsLater DEF UpdateMessage
    <2>. QED
        BY <1>2, <2>1, PlanTypes, ChangeBegins DEF UpdateMessage
<1>3. ASSUME NEW S \in SUBSET Messages, MarkMessagesSeen(S) PROVE Durable!Begin
    <2>1. \A x \in Messages : Changed(View, S)[x] >= View[x]
        BY <1>3, ChangedIsLater DEF MarkMessagesSeen
    <2>. QED
        BY <1>3, <2>1, PlanTypes, ChangeBegins DEF MarkMessagesSeen
<1>. QED
    BY <1>1, <1>2, <1>3

\* ... and those that only write.
LEMMA WritersBegin == ASSUME IInv, IInv', UpdateMetadata \/ FlushMessagesFile PROVE Durable!Begin
<1>1. Idle /\ ~Idle' /\ ~First("index")' /\ UNCHANGED <<loaded, memory, count, file, rows, told, unsaved>>
    <2>1. CASE UpdateMetadata
        <3>1. writes'[1] = Write("metadata", {}) /\ ~Idle'
            BY <2>1, PlansWork DEF UpdateMetadata, Idle, MetadataWrites, Done
        <3>. QED
            BY <2>1, <3>1, WriteFields DEF UpdateMetadata, First
    <2>2. CASE FlushMessagesFile
        BY <2>2, PlansWork DEF FlushMessagesFile, FlushWrites, First, Idle
    <2>. QED
        BY <2>1, <2>2
<1>2. Seen = View /\ Seen' = View' /\ View' = View /\ View \in Transcripts
    BY <1>1, SeenIs, NothingIsDue, ViewType DEF IInv, View, IndexComplete
<1>3. \A m \in Messages : Seen'[m] >= Seen[m]
    BY <1>2 DEF Transcripts
<1>. QED
    BY <1>1, <1>3, Begins

LEMMA ReadLoads == ASSUME IInv, IInv', Read PROVE Durable!Begin \/ UNCHANGED Durable!vars
<1>1. /\ Idle /\ loaded' /\ memory' = View /\ writes' = LoadWrites
      /\ UNCHANGED <<reconciling, file, fresh, told, unsaved>>
    BY DEF Read
<1>2. Seen = View /\ Seen' = View /\ View' = View /\ View \in Transcripts
    BY <1>1, SeenIs, NothingIsDue, ViewType DEF IInv, View
<1>3. \A m \in Messages : Seen'[m] >= Seen[m]
    BY <1>2 DEF Transcripts
<1>4. CASE Idle'
    <2>1. (Shaken' <=> Shaken) /\ (~Idle)' = ~Idle
        BY <1>1, <1>2, <1>4 DEF Shaken
    <2>2. Shaken' = Shaken
        BY <2>1, Zenon DEF Shaken
    <2>. QED
        BY <1>1, <1>2, <2>1, <2>2 DEF Durable!vars
<1>. QED
    BY <1>1, <1>3, <1>4, Begins

\* Reconciling rebuilds from a file that is what readers get, or recovers from a kill.
LEMMA ReconcileRecovers ==
    ASSUME IInv, CInv, IInv', CInv', KeepsTold', Reconcile
    PROVE  Durable!Begin \/ Durable!Recover \/ UNCHANGED Durable!vars
<1>1. Idle /\ reconciling /\ UNCHANGED <<loaded, file, rows, fresh, told, unsaved>>
    BY DEF Reconcile
<1>2. Seen = View /\ View \in Transcripts
    BY <1>1, SeenIs, NothingIsDue, ViewType DEF IInv
<1>3. CASE fresh
    <2>1. Idle' /\ UNCHANGED <<memory, count, writes>> /\ ~Shaken /\ ~Shaken'
        BY <1>1, <1>3 DEF Reconcile, Idle, Shaken
    <2>2. Seen' = View' /\ View' = View
        BY <1>1, <2>1, SeenIs, NothingIsDue DEF IInv, View, IndexComplete, First
    <2>3. Shaken' = Shaken /\ (~Idle)' = ~Idle
        BY <1>1, <2>1, Zenon DEF Shaken
    <2>. QED
        BY <1>1, <1>2, <2>2, <2>3 DEF Durable!vars
<1>4. CASE ~fresh
    <2>1. memory' = (IF loaded THEN file ELSE memory) /\ writes' = <<Write("index", {})>>
        BY <1>4 DEF Reconcile
    <2>2. ~Idle' /\ First("index")'
        BY <2>1, WriteFields DEF Idle, First
    <2>3. Seen' = file
        BY <1>1, <2>1, <2>2, SeenIs DEF IInv, View
    <2>4. CASE file = View
        <3>1. \A m \in Messages : Seen'[m] >= Seen[m]
            BY <1>2, <2>3, <2>4 DEF Transcripts
        <3>. QED
            BY <1>1, <2>2, <3>1, Begins
    <2>5. CASE file # View
        <3>1. Shaken /\ (~Idle)' = TRUE /\ Shaken' = FALSE
            BY <1>1, <1>4, <2>2, <2>5, Zenon DEF Shaken
        <3>2. Durable!Keeps(Seen', unsaved)
            BY <1>1 DEF KeepsTold, Durable!Keeps
        <3>. QED
            BY <1>1, <3>1, <3>2 DEF Durable!Recover
    <2>. QED
        BY <2>4, <2>5
<1>. QED
    BY <1>3, <1>4

LEMMA RestartKills ==
    ASSUME IInv, CInv, Settled, IInv', KeepsTold', Restart
    PROVE  Durable!Kill \/ UNCHANGED Durable!vars
<1>1. Idle' /\ UNCHANGED told
    BY DEF Restart, Idle
<1>2. CASE Idle
    <2>1. View' = View /\ Shaken' = Shaken
        BY <1>2, RestartIsUnseen
    <2>2. Seen = View /\ Seen' = View'
        BY <1>1, <1>2, SeenIs, NothingIsDue DEF IInv, Idle, First
    <2>3. unsaved' = unsaved
        BY <1>2, Zenon DEF Restart, IInv, TypeOK
    <2>4. (~Idle)' = ~Idle
        BY <1>1, <1>2, Zenon
    <2>. QED
        BY <1>1, <2>1, <2>2, <2>3, <2>4 DEF Durable!vars
<1>3. CASE ~Idle
    <2>1. (~Idle)' = FALSE /\ Shaken' \in BOOLEAN
        BY <1>1, Zenon DEF Shaken
    <2>2. unsaved' \in BOOLEAN /\ (unsaved => unsaved')
        BY DEF IInv, TypeOK, Restart
    <2>3. Durable!Keeps(Seen', unsaved')
        BY <1>1 DEF KeepsTold, Durable!Keeps
    <2>. QED
        BY <1>1, <1>3, <2>1, <2>2, <2>3 DEF Durable!Kill
<1>. QED
    BY <1>2, <1>3

\* The writes of a handler are not seen, but for the last, which is its answer.
LEMMA WritesAnswer ==
    ASSUME IInv, CInv, IInv', Persist
    PROVE  Durable!Answer \/ UNCHANGED Durable!vars
<1>1. ~Idle /\ UNCHANGED <<loaded, memory, unsaved>> /\ Seen' = Seen
    BY WriteSeen DEF Persist, WriteMetadata, WriteRow, AppendLine, UpsertMessages, WriteIndex, TruncateFile,
       RewriteFile, Acknowledge, NextWrite, Idle
<1>2. told' = told \/ (Acknowledge /\ told' = Seen)
    <2>1. ASSUME Acknowledge PROVE told' = told \/ told' = Seen
        <3>1. loaded => Seen = memory
            BY SeenIs DEF IInv, View
        <3>. QED
            BY <2>1, <3>1 DEF Acknowledge
    <2>. QED
        BY <2>1 DEF Persist, WriteMetadata, WriteRow, AppendLine, UpsertMessages, WriteIndex, TruncateFile,
           RewriteFile
<1>3. CASE Idle'
    <2>1. ~Shaken /\ ~Shaken'
        BY <1>1, <1>3, LastWrite DEF Shaken
    <2>2. Shaken' = Shaken /\ (~Idle)' = FALSE
        BY <1>3, <2>1, Zenon DEF Shaken
    <2>. QED
        BY <1>1, <1>2, <2>2 DEF Durable!Answer
<1>4. CASE ~Idle'
    <2>1. ~Acknowledge
        <3>1. SUFFICES ASSUME Acknowledge PROVE Idle'
            BY <1>4
        <3>2. NextWrite("done") /\ First("done") /\ 1 \in 1 .. Len(writes) /\ writes[1].kind = "done"
            BY <3>1, WriteTail DEF IInv, Acknowledge, First
        <3>3. Ordered
            BY <3>2, WriteStep DEF IInv
        <3>4. Len(writes') = 0 /\ writes' \in Seq(Writes)
            BY <3>2, <3>3, WriteTail DEF Ordered, InOrder, IInv
        <3>. QED
            BY <3>4 DEF Idle
    <2>2. Shaken' = Shaken /\ (~Idle)' = ~Idle
        BY <1>1, <1>4, Zenon DEF Shaken
    <2>. QED
        BY <1>1, <1>2, <2>1, <2>2 DEF Durable!vars
<1>. QED
    BY <1>3, <1>4

LEMMA StutterUnseen == ASSUME IInv, IInv', UNCHANGED vars PROVE UNCHANGED Durable!vars
<1>1. UNCHANGED <<Seen, told, unsaved>>
    BY SeenIs DEF vars, IInv, View, IndexComplete, Size, First
<1>2. (Idle' <=> Idle) /\ (Shaken' <=> Shaken)
    BY DEF vars, Shaken, Idle, View, IndexComplete, Size
<1>3. (~Idle)' = ~Idle /\ Shaken' = Shaken
    BY <1>2, Zenon DEF Shaken
<1>. QED
    BY <1>1, <1>3 DEF Durable!vars

(***************************************************************************)
(* Memory, file and index together are the one transcript of               *)
(* DurableTranscript: what readers get changes only by a handler, and is   *)
(* taken back only by a kill during one, or by the reconciliation that     *)
(* finds what that kill left.                                              *)
(***************************************************************************)
THEOREM Refinement == "torn" \notin Stops /\ Spec => ImplementsDurableTranscript
<1>1. ASSUME "torn" \notin Stops PROVE Spec => ImplementsDurableTranscript
    <2>1. Spec => []IInv
        BY <1>1, Invariance, PTL
    <2>2. Init => CInv /\ Settled /\ Durable!Init
        <3>1. ASSUME Init PROVE Settled /\ Seen = Empty /\ ~Shaken /\ Idle
            BY <3>1 DEF Init, Settled, Idle, Seen, View, Shaken
        <3>2. ASSUME Init PROVE Durable!Init
            <4>1. Shaken = FALSE /\ ~Idle = FALSE
                BY <3>1, <3>2, Zenon DEF Shaken
            <4>. QED
                BY <3>1, <3>2, <4>1 DEF Init, Empty, Durable!Init
        <3>. QED
            BY <3>1, <3>2, InitiallyCurrent
    <2>3. IInv /\ CInv /\ Settled /\ [Next]_vars /\ IInv' => CInv' /\ Settled'
        BY StaysCurrent, StaysSettled
    <2>4. Spec => [](CInv /\ Settled)
        BY <2>1, <2>2, <2>3, PTL DEF Spec
    <2>5. IInv /\ CInv => KeepsTold
        BY SeenKeeps
    <2>6. ASSUME IInv, CInv, Settled, IInv', CInv', KeepsTold', [Next]_vars
          PROVE  Durable!Next \/ UNCHANGED Durable!vars
        <3>1. CASE UNCHANGED vars
            BY <2>6, <3>1, StutterUnseen
        <3>2. CASE Next
            BY <2>6, <3>2, SomeHandlersBegin, WritersBegin, ReadLoads, ReconcileRecovers, RestartKills, WritesAnswer
               DEF Next, Durable!Next
        <3>. QED
            BY <2>6, <3>1, <3>2
    <2>7. IInv /\ CInv /\ Settled /\ IInv' /\ CInv' /\ KeepsTold' /\ [Next]_vars => [Durable!Next]_(Durable!vars)
        BY <2>6
    <2>. QED
        BY <2>1, <2>2, <2>4, <2>5, <2>7, PTL DEF Spec, ImplementsDurableTranscript, Durable!Spec
<1>. QED
    BY <1>1
=============================================================================
