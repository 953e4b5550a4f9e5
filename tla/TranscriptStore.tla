--------------------------- MODULE TranscriptStore ---------------------------
(***************************************************************************)
(* How AgentChatStore (packages/agent-chat-server/src/store.ts) keeps the  *)
(* transcript of one session.  It lives in three places: the memory of the *)
(* server, loaded when first read; messages.jsonl, appended to at once but *)
(* rewritten only by a debounced flush after a change; and the rows of an  *)
(* SQLite index, written through.  The session's row in the index records  *)
(* the message count and the state of both files: the count decides which  *)
(* of index and file is loaded, the file states whether the background     *)
(* reconciliation after a start rebuilds the index from the file.          *)
(*                                                                         *)
(* A handler runs to its end without interleaving, so it changes memory    *)
(* and leaves the sequence of its writes; the process may die between two. *)
(* The index row exists from the creation of the session, and writes to    *)
(* the index succeed.                                                      *)
(***************************************************************************)
EXTENDS Naturals, Sequences, FiniteSets

CONSTANTS
    Messages,    \* message ids
    MaxVersion,  \* bound on the changes of one message: edits and seen marks
    Stops        \* "crash": dying between two writes, "torn": inside a rewrite of the file

ASSUME MessagesAssumption == IsFiniteSet(Messages)
ASSUME VersionsAssumption == MaxVersion \in Nat \ {0}
ASSUME StopsAssumption == Stops \subseteq {"crash", "torn"}

\* A transcript gives each message its version, 0 if it has no such message.  The order
\* of the messages is that of their creation everywhere and is left out.
Transcripts == [Messages -> 0 .. MaxVersion]
Empty == [m \in Messages |-> 0]
Size(t) == Cardinality({m \in Messages : t[m] # 0})

VARIABLES
    loaded,      \* messageCache has the session
    memory,      \* its messages there, Empty when not loaded
    count,       \* messageCount of the cached session
    pending,     \* a flush is scheduled
    reconciling, \* the background reconciliation has not come to the session
    file,        \* messages.jsonl
    rows,        \* message_index
    row,         \* message_count in session_index
    fresh,       \* the file states in session_index are those of the files
    writes,      \* what the current handler has still to write
    told,        \* history: the transcript that the last finished handlers acknowledged
    unsaved      \* history: a handler was killed while the file lacked an acknowledged change

vars == <<loaded, memory, count, pending, reconciling, file, rows, row, fresh, writes, told, unsaved>>

Idle == writes = <<>>

Write(kind, S) == [kind |-> kind, messages |-> S]

\* writeSessionMetadata: session.json, then its row.
MetadataWrites == <<Write("metadata", {}), Write("row", {})>>

Done == <<Write("done", {})>>
-----------------------------------------------------------------------------
\* ensureMessagesLoaded takes the rows if they are as many as the session has messages.
IndexComplete == Size(rows) = count

\* What a reader of the session gets.
View == IF loaded THEN memory ELSE IF IndexComplete THEN rows ELSE file

\* The write that loading makes: the file, when taken, is indexed.
LoadWrites == IF loaded \/ IndexComplete THEN <<>> ELSE <<Write("index", {})>>

\* A handler changes the transcript, after loading it, to t by the writes w.
Change(t, w) ==
    /\ loaded' = TRUE
    /\ memory' = t
    /\ count' = Size(t)
    /\ writes' = LoadWrites \o (w \o Done)
    /\ UNCHANGED <<reconciling, file, rows, row, fresh, told, unsaved>>

\* listMessages
Read ==
    /\ Idle /\ ~loaded
    /\ loaded' = TRUE
    /\ memory' = View
    /\ count' = Size(View)
    /\ writes' = LoadWrites
    /\ UNCHANGED <<pending, reconciling, file, rows, row, fresh, told, unsaved>>

\* Mutant: the new line is left to the debounced flush.
AppendMessageLater(m) ==
    /\ Idle
    /\ View[m] = 0 /\ file[m] = 0 /\ rows[m] = 0
    /\ Change([View EXCEPT ![m] = 1], MetadataWrites \o <<Write("upsert", {m})>>)
    /\ pending' = TRUE

\* appendMessage, under a fresh id
AppendMessage(m) ==
    /\ Idle
    /\ View[m] = 0 /\ file[m] = 0 /\ rows[m] = 0
    /\ Change([View EXCEPT ![m] = 1],
              MetadataWrites \o <<Write("line", {m}), Write("upsert", {m})>>)
    /\ UNCHANGED pending

Changed(t, S) == [m \in Messages |-> IF m \in S THEN t[m] + 1 ELSE t[m]]

\* Messages of which a change stays within the bound.
Changeable == {m \in Messages : View[m] \in 1 .. MaxVersion - 1}

\* updateMessage
UpdateMessage(m) ==
    /\ Idle
    /\ m \in Changeable
    /\ Change(Changed(View, {m}), MetadataWrites \o <<Write("upsert", {m})>>)
    /\ pending' = TRUE

\* Mutant: the marks are left to the flush.
MarkMessagesSeenLater(S) ==
    /\ Idle
    /\ S # {} /\ S \subseteq Changeable
    /\ Change(Changed(View, S), <<>>)
    /\ pending' = TRUE

\* markMessagesSeen, for messages not seen yet
MarkMessagesSeen(S) ==
    /\ Idle
    /\ S # {} /\ S \subseteq Changeable
    /\ Change(Changed(View, S), <<Write("upsert", S)>>)
    /\ pending' = TRUE

\* updateSessionTitle and the other updates of session metadata: the messages are not read.
UpdateMetadata ==
    /\ Idle
    /\ writes' = MetadataWrites \o Done
    /\ UNCHANGED <<loaded, memory, count, pending, reconciling, file, rows, row, fresh, told, unsaved>>

\* The flush timer fires.
FlushMessagesFile ==
    /\ Idle /\ pending
    /\ pending' = FALSE
    /\ writes' = <<Write("truncate", {}), Write("file", {})>>
    /\ UNCHANGED <<loaded, memory, count, reconciling, file, rows, row, fresh, told, unsaved>>

\* Mutant: reconciliation rebuilds every index.
ReconcileAlways ==
    /\ Idle /\ reconciling
    /\ reconciling' = FALSE
    /\ memory' = IF loaded THEN file ELSE memory
    /\ count' = Size(file)
    /\ writes' = <<Write("index", {})>>
    /\ UNCHANGED <<loaded, pending, file, rows, row, fresh, told, unsaved>>

\* reconcileSessionIndex: a stale index is rebuilt from the file, and so is memory.
Reconcile ==
    /\ Idle /\ reconciling
    /\ reconciling' = FALSE
    /\ IF fresh THEN UNCHANGED <<memory, count, writes>>
       ELSE /\ memory' = IF loaded THEN file ELSE memory
            /\ count' = Size(file)
            /\ writes' = <<Write("index", {})>>
    /\ UNCHANGED <<loaded, pending, file, rows, row, fresh, told, unsaved>>
-----------------------------------------------------------------------------
\* The handler makes its next write, of the given kind.
NextWrite(kind) ==
    /\ writes # <<>>
    /\ Head(writes).kind = kind
    /\ writes' = Tail(writes)
    /\ UNCHANGED <<loaded, memory, count, pending, reconciling, unsaved>>

WriteMetadata ==
    /\ NextWrite("metadata")
    /\ fresh' = FALSE
    /\ UNCHANGED <<file, rows, row, told>>

\* writeSessionIndex without messages
WriteRow ==
    /\ NextWrite("row")
    /\ row' = count /\ fresh' = TRUE
    /\ UNCHANGED <<file, rows, told>>

\* appendFileSync
AppendLine ==
    /\ NextWrite("line")
    /\ file' = [m \in Messages |-> IF m \in Head(writes).messages THEN memory[m] ELSE file[m]]
    /\ fresh' = FALSE
    /\ UNCHANGED <<rows, row, told>>

\* Mutant: the file states of the row are left as they were.
UpsertMessagesOnly ==
    /\ NextWrite("upsert")
    /\ rows' = [m \in Messages |-> IF m \in Head(writes).messages THEN memory[m] ELSE rows[m]]
    /\ row' = count
    /\ UNCHANGED <<file, fresh, told>>

\* upsertSessionIndexMessages: one transaction
UpsertMessages ==
    /\ NextWrite("upsert")
    /\ rows' = [m \in Messages |-> IF m \in Head(writes).messages THEN memory[m] ELSE rows[m]]
    /\ row' = count /\ fresh' = TRUE
    /\ UNCHANGED <<file, told>>

\* writeSessionIndex with the messages of the file: one transaction
WriteIndex ==
    /\ NextWrite("index")
    /\ rows' = file /\ row' = Size(file) /\ fresh' = TRUE
    /\ UNCHANGED <<file, told>>

\* writeFileSync truncates the file ...
TruncateFile ==
    /\ NextWrite("truncate")
    /\ file' = Empty /\ fresh' = FALSE
    /\ UNCHANGED <<rows, row, told>>

\* ... and then writes it.
RewriteFile ==
    /\ NextWrite("file")
    /\ file' = memory /\ fresh' = FALSE
    /\ UNCHANGED <<rows, row, told>>

\* The handler is done and its caller is answered.
Acknowledge ==
    /\ NextWrite("done")
    /\ told' = IF loaded THEN memory ELSE told
    /\ UNCHANGED <<file, rows, row, fresh>>

Persist ==
    \/ WriteMetadata \/ WriteRow \/ AppendLine \/ UpsertMessages \/ WriteIndex
    \/ TruncateFile \/ RewriteFile \/ Acknowledge

\* The process dies and starts again: loadCache.
Restart ==
    /\ ~Idle => (IF Head(writes).kind = "file" THEN "torn" ELSE "crash") \in Stops
    /\ loaded' = FALSE
    /\ memory' = Empty
    /\ count' = row
    /\ pending' = FALSE
    /\ reconciling' = TRUE
    /\ writes' = <<>>
    /\ unsaved' = (unsaved \/ (~Idle /\ \E m \in Messages : file[m] < told[m]))
    /\ UNCHANGED <<file, rows, row, fresh, told>>

Init ==
    /\ loaded = TRUE /\ memory = Empty /\ count = 0
    /\ pending = FALSE /\ reconciling = FALSE
    /\ file = Empty /\ rows = Empty /\ row = 0 /\ fresh = TRUE
    /\ writes = <<>>
    /\ told = Empty /\ unsaved = FALSE

Next ==
    \/ Read \/ UpdateMetadata \/ FlushMessagesFile \/ Reconcile
    \/ \E m \in Messages : AppendMessage(m) \/ UpdateMessage(m)
    \/ \E S \in SUBSET Messages : MarkMessagesSeen(S)
    \/ Persist
    \/ Restart

Spec == Init /\ [][Next]_vars
-----------------------------------------------------------------------------
Writes == [kind : {"metadata", "row", "line", "upsert", "index", "truncate", "file", "done"},
           messages : SUBSET Messages]

TypeOK ==
    /\ loaded \in BOOLEAN /\ pending \in BOOLEAN /\ reconciling \in BOOLEAN
    /\ fresh \in BOOLEAN /\ unsaved \in BOOLEAN
    /\ memory \in Transcripts /\ file \in Transcripts /\ rows \in Transcripts /\ told \in Transcripts
    /\ count \in 0 .. Cardinality(Messages) /\ row \in 0 .. Cardinality(Messages)
    /\ writes \in Seq(Writes)
    /\ ~loaded => memory = Empty

\* A message that was acknowledged is in what readers get, and stays there, wherever a
\* handler is killed and whichever of memory, index and file is read afterwards.
AcknowledgedMessagesSurvive == \A m \in Messages : told[m] # 0 => View[m] # 0

\* So do its edits and seen marks, on which it depends that a turn is not delivered
\* twice, unless a handler was killed while the file lacked one: while a flush was due, or
\* after a restart that cancelled one.
AcknowledgedChangesSurvive == unsaved \/ \A m \in Messages : View[m] >= told[m]

\* A restart between two handlers changes nothing a reader can see, even with a flush
\* pending that it cancels.
RestartBetweenHandlersKeepsAll == [][Restart /\ Idle => View' = View]_vars

\* What readers get, once the index that replaces the rows is written.
Seen == IF ~loaded /\ ~Idle /\ Head(writes).kind = "index" THEN file ELSE View

\* The reconciliation is going to find a file that differs.
Shaken == Idle /\ reconciling /\ ~fresh /\ file # View

Durable == INSTANCE DurableTranscript
           WITH view <- Seen, busy <- ~Idle, shaken <- Shaken, behind <- unsaved

\* The three places together are one transcript that only handlers change, and only a
\* kill during a handler, or the reconciliation that finds what it left, takes back: never
\* a flush, a write, the loading of a session or a restart between two handlers.
ImplementsDurableTranscript == Durable!Spec
=============================================================================
