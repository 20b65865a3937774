---------------------------- MODULE SessionStore ----------------------------
(***************************************************************************)
(* The files of the sessions: messages.jsonl and meta.json of each,        *)
(* memory.md, the cursor of the MemoryAgent and the position of the        *)
(* incremental flush, with every operation that writes them.               *)
(*                                                                         *)
(* The store is synchronous: a handler runs to its end before another      *)
(* starts, but each file it writes is a write of its own, and a crash may  *)
(* come between two. So a handler puts its writes in "pending" and Write   *)
(* carries out the first. What is asynchronous keeps a snapshot of rows    *)
(* (work, agent) while other handlers run: the summary of a session over   *)
(* the call of the model, the flush from one message to the next, the      *)
(* MemoryAgent over its turn.                                              *)
(*                                                                         *)
(* The text of a message is its number. A row stands for a set of texts    *)
(* (says): one for a message, many for a summary, none for a notice of the *)
(* daemon, a pointer or a marker that only counts.                         *)
(***************************************************************************)
EXTENDS Naturals, Sequences, FiniteSets

CONSTANTS
  Sessions,
  Main,          \* the session the MemoryAgent reads
  MaxTexts,      \* bound on the texts told
  LongTexts,     \* the texts above COMPACT_SNIP_THRESHOLD_CHARS
  ProtectTail,   \* protectTailTurns: 3 in the code
  FewRows,       \* no summary of so few rows: 4 in the code
  SnipTail,      \* COMPACT_PROTECTED_TAIL: 5 in the code
  MaxMessages,   \* maxMessages of compactSession: 40 in the code
  FlushBatch,    \* messages filed in one flush: 30 in the code
  MaxEvents,     \* bound on what happens besides the telling of texts
  MaxFlushes,    \* bound on the flushes among them
  Overlap        \* may /clear and /compact come while a summary is being made?

ASSUME SessionAssumption ==
  /\ IsFiniteSet(Sessions)
  /\ Main \in Sessions
  /\ ProtectTail \in Nat \ {0} /\ MaxMessages \in Nat \ {0}
  /\ FewRows \in Nat /\ SnipTail \in Nat /\ FlushBatch \in Nat \ {0}
  /\ {MaxTexts, MaxEvents, MaxFlushes} \subseteq Nat
  /\ LongTexts \subseteq 1..MaxTexts
  /\ Overlap \in BOOLEAN

Texts == 1..MaxTexts
None == "none"

VARIABLES
  rows,       \* messages.jsonl as readJsonl returns it
  torn,       \* does messages.jsonl end in the middle of a line?
  nextId,     \* next_message_id of meta.json
  section,    \* memory.md: the texts of section "<session> - msg-<id>"
  position,   \* processing cursor of stream ctxflush:<session>
  cursor,     \* last_message_id of the MemoryAgent
  pending,    \* writes of the handler that runs
  work,       \* the summary or the flush a turn of the session waits for
  agent,      \* the run of the MemoryAgent
  (* History: *)
  told,       \* texts told, in order, by any session
  history,    \* the texts of the session's conversation since it was reset
  dropped,    \* texts a counting compaction or a crash let go
  read,       \* texts a successful run of the MemoryAgent has read
  rewritten,  \* has anything but an append changed the rows of Main?
  count       \* of the bounded events

files == <<rows, torn, nextId, section, position, cursor>>
memory == <<pending, work, agent>>
ghosts == <<told, history, dropped, read, rewritten>>
vars == <<files, memory, ghosts, count>>

Row(id, role, S) ==
  [id |-> id, role |-> role, says |-> S, long |-> S \cap LongTexts # {}]
Said(rs) == UNION {rs[i].says : i \in DOMAIN rs}
IdsOf(rs) == {rs[i].id : i \in DOMAIN rs}
RowSet(rs) == {rs[i] : i \in DOMAIN rs}
LastOf(rs) == rs[Len(rs)]
Least(S) == CHOOSE n \in S : \A m \in S : n <= m
Tail5(rs) == {i \in DOMAIN rs : i > Len(rs) - SnipTail}

(* The conversation that the files of the main session stand for.          *)
Shown == [i \in DOMAIN rows[Main] |-> rows[Main][i].says]
Filed == (UNION {section[Main][i] : i \in DOMAIN section[Main]}) \cap history[Main]

C == INSTANCE Conversation WITH
       told <- history[Main], shown <- Shown, kept <- Filed,
       dropped <- dropped \cap history[Main], Texts <- Texts

Idle == pending = <<>>
Free(s) == work[s].kind = None /\ (s = Main => agent.at = None)
Settled(s) == Overlap \/ Free(s)

NoWork == [kind |-> None, zone |-> <<>>, at |-> 0, stop |-> 0, filed |-> 0]
NoAgent == [at |-> None, batch |-> <<>>]

Init ==
  /\ rows = [s \in Sessions |-> <<>>]
  /\ torn = [s \in Sessions |-> FALSE]
  /\ nextId = [s \in Sessions |-> 1]
  /\ section = [s \in Sessions |-> <<>>]
  /\ position = [s \in Sessions |-> 0]
  /\ cursor = 0
  /\ pending = <<>>
  /\ work = [s \in Sessions |-> NoWork]
  /\ agent = NoAgent
  /\ told = 0
  /\ history = [s \in Sessions |-> {}]
  /\ dropped = {}
  /\ read = {}
  /\ rewritten = FALSE
  /\ count = [events |-> 0, flushes |-> 0]

Event ==
  /\ count.events < MaxEvents
  /\ count' = [count EXCEPT !.events = @ + 1]

-----------------------------------------------------------------------------
(* The writes. All replace the file, by a rename, but the append of a line. *)

MetaWrite(s, n) == [to |-> "meta", s |-> s, value |-> n]
LineWrite(s, row) == [to |-> "line", s |-> s, value |-> row]
RowsWrite(s, rs, why) == [to |-> "rows", s |-> s, value |-> rs, why |-> why]
DropWrite(s, ids) == [to |-> "drop", s |-> s, value |-> ids]
SectionWrite(s, row) == [to |-> "section", s |-> s, value |-> row]
PositionWrite(s, n) == [to |-> "position", s |-> s, value |-> n]
CursorWrite(n) == [to |-> "cursor", s |-> Main, value |-> n]

WriteMeta(w) ==
  /\ w.to = "meta"
  /\ nextId' = [nextId EXCEPT ![w.s] = w.value]
  /\ UNCHANGED <<rows, torn, section, position, cursor, history, dropped, rewritten>>

(* A line appended to a torn one makes a corrupt line with it, which        *)
(* readJsonl skips.                                                        *)
WriteLine(w) ==
  /\ w.to = "line"
  /\ rows' = IF torn[w.s] THEN rows
             ELSE [rows EXCEPT ![w.s] = Append(@, w.value)]
  /\ torn' = [torn EXCEPT ![w.s] = FALSE]
  /\ history' = [history EXCEPT ![w.s] = @ \cup w.value.says]
  /\ dropped' = IF torn[w.s] THEN dropped \cup w.value.says ELSE dropped
  /\ UNCHANGED <<nextId, section, position, cursor, rewritten>>

WriteRows(w) ==
  /\ w.to = "rows"
  /\ rows' = [rows EXCEPT ![w.s] = w.value]
  /\ torn' = [torn EXCEPT ![w.s] = FALSE]
  /\ history' = IF w.why = "reset" THEN [history EXCEPT ![w.s] = {}] ELSE history
  /\ dropped' = CASE w.why = "count" -> 
                       dropped \cup UNION {r.says : r \in RowSet(rows[w.s]) \ RowSet(w.value)}
                  [] w.why = "reset" -> dropped \ history[w.s]
                  [] OTHER -> dropped
  /\ rewritten' = (rewritten \/ w.s = Main)
  /\ UNCHANGED <<nextId, section, position, cursor>>

WriteDrop(w) ==
  /\ w.to = "drop"
  /\ rows' = [rows EXCEPT ![w.s] =
               C!Without(@, {i \in DOMAIN @ : @[i].id \in w.value})]
  /\ torn' = IF rows'[w.s] = rows[w.s] THEN torn ELSE [torn EXCEPT ![w.s] = FALSE]
  /\ rewritten' = (rewritten \/ w.s = Main)
  /\ UNCHANGED <<nextId, section, position, cursor, history, dropped>>

(* upsertMemorySection: a section with the title is replaced.              *)
WriteSection(w) ==
  /\ w.to = "section"
  /\ section' = [section EXCEPT ![w.s] =
       [i \in DOMAIN @ \cup {w.value.id} |-> IF i = w.value.id THEN w.value.says ELSE @[i]]]
  /\ UNCHANGED <<rows, torn, nextId, position, cursor, history, dropped, rewritten>>

(* advanceCursor never goes back.                                          *)
WritePosition(w) ==
  /\ w.to = "position"
  /\ position' = [position EXCEPT ![w.s] = IF w.value > @ THEN w.value ELSE @]
  /\ UNCHANGED <<rows, torn, nextId, section, cursor, history, dropped, rewritten>>

WriteCursor(w) ==
  /\ w.to = "cursor"
  /\ cursor' = w.value
  /\ UNCHANGED <<rows, torn, nextId, section, position, history, dropped, rewritten>>

Write ==
  /\ ~Idle
  /\ LET w == Head(pending)
     IN \/ WriteMeta(w) \/ WriteLine(w) \/ WriteRows(w) \/ WriteDrop(w)
        \/ WriteSection(w) \/ WritePosition(w) \/ WriteCursor(w)
  /\ pending' = Tail(pending)
  /\ UNCHANGED <<work, agent, told, read, count>>

-----------------------------------------------------------------------------
(* The handlers: each checks what the code checks and lists its writes.    *)

(* Seeded bug: the id is taken after the message is appended. *)
AppendLineFirst(s, role, S) ==
  <<LineWrite(s, Row(nextId[s], role, S)), MetaWrite(s, nextId[s] + 1)>>

AppendWrites(s, role, S) ==
  <<MetaWrite(s, nextId[s] + 1), LineWrite(s, Row(nextId[s], role, S))>>

(* A turn of the session stores what the user or the assistant says.       *)
Say(s) ==
  /\ Idle /\ Free(s)
  /\ told < MaxTexts
  /\ told' = told + 1
  /\ \E role \in {"user", "assistant"} : pending' = AppendWrites(s, role, {told + 1})
  /\ UNCHANGED <<files, work, agent, history, dropped, read, rewritten, count>>

(* The hotkey puts its notices in a session whatever else goes on there.   *)
Notice(s) ==
  /\ Idle
  /\ Event
  /\ pending' = AppendWrites(s, "system", {})
  /\ UNCHANGED <<files, work, agent, ghosts>>

(* Seeded bug: the ids start again at zero. *)
ResetToZero(s) ==
  /\ Idle /\ Settled(s)
  /\ Event
  /\ pending' = <<RowsWrite(s, <<>>, "reset"), MetaWrite(s, 0)>>
  /\ UNCHANGED <<files, work, agent, ghosts>>

ResetSession(s) ==
  /\ Idle /\ Settled(s)
  /\ Event
  /\ pending' = <<RowsWrite(s, <<>>, "reset"), MetaWrite(s, 1)>>
  /\ UNCHANGED <<files, work, agent, ghosts>>

(* compactSession: shorten the long messages before the last ones; only if  *)
(* there are none, let the oldest go and count them by role. The markers    *)
(* stand first and take ids after all the others.                          *)
Snippable(rs) == {i \in DOMAIN rs \ Tail5(rs) : rs[i].long}

Snip(s) ==
  /\ Snippable(rows[s]) # {}
  /\ pending' = <<RowsWrite(s, [i \in DOMAIN rows[s] |->
                    IF i \in Snippable(rows[s])
                    THEN [rows[s][i] EXCEPT !.long = FALSE] ELSE rows[s][i]], "snip")>>

Markers(s, gone) ==
  LET roles == {gone[i].role : i \in DOMAIN gone}
      has(role) == IF role \in roles
                   THEN <<IF role = "system" THEN "system" ELSE "assistant">> ELSE <<>>
      marks == has("system") \o has("user") \o has("assistant")
  IN [i \in DOMAIN marks |-> Row(nextId[s] + i - 1, marks[i], {})]

(* Seeded bug: the markers stand after the messages that are kept. *)
CountOffAfter(s) ==
  LET excess == Len(rows[s]) - MaxMessages
      marks == Markers(s, SubSeq(rows[s], 1, excess))
  IN /\ Snippable(rows[s]) = {}
     /\ Len(rows[s]) > MaxMessages
     /\ pending' = <<MetaWrite(s, nextId[s] + Len(marks)),
                     RowsWrite(s, SubSeq(rows[s], excess + 1, Len(rows[s])) \o marks,
                               "count")>>

CountOff(s) ==
  LET excess == Len(rows[s]) - MaxMessages
      marks == Markers(s, SubSeq(rows[s], 1, excess))
  IN /\ Snippable(rows[s]) = {}
     /\ Len(rows[s]) > MaxMessages
     /\ pending' = <<MetaWrite(s, nextId[s] + Len(marks)),
                     RowsWrite(s, marks \o SubSeq(rows[s], excess + 1, Len(rows[s])),
                               "count")>>

CompactSession(s) ==
  /\ Idle /\ Settled(s)
  /\ Event
  /\ Snip(s) \/ CountOff(s)
  /\ UNCHANGED <<files, work, agent, ghosts>>

-----------------------------------------------------------------------------
(* findProtectedZones: the rows before the zone are the leading system      *)
(* messages, the first user message and the answer to it; those after it    *)
(* are the last ProtectTail turns.                                         *)
UserRows(rs) == {i \in DOMAIN rs : rs[i].role = "user"}

HeadCount(rs) ==
  LET lead == Least({i \in 1..Len(rs) + 1 : i = Len(rs) + 1 \/ rs[i].role # "system"})
      users == UserRows(rs)
      first == Least(users)
      answers == {i \in DOMAIN rs : /\ rs[i].role = "assistant" /\ first < i
                                    /\ \A u \in users : u <= first \/ i < u}
  IN IF users = {} THEN lead - 1
     ELSE IF answers = {} THEN first ELSE Least(answers)

TailStart(rs) ==
  LET users == UserRows(rs)
      late == {i \in users : Cardinality({u \in users : u >= i}) <= ProtectTail}
  IN IF users = {} THEN Len(rs) + 1 ELSE Least(late)

Zone(rs) == SubSeq(rs, HeadCount(rs) + 1, TailStart(rs) - 1)
Compressible(rs) == Len(rs) > FewRows /\ Len(Zone(rs)) > 1

(* smartCompactSession asks a model to summarise the zone ...              *)
SummaryStart(s) ==
  /\ Idle /\ Free(s)
  /\ Compressible(rows[s])
  /\ Event
  /\ work' = [work EXCEPT ![s] = [NoWork EXCEPT !.kind = "summary", !.zone = Zone(rows[s])]]
  /\ UNCHANGED <<files, pending, agent, ghosts>>

SummaryFails(s) ==
  /\ Idle
  /\ work[s].kind = "summary"
  /\ work' = [work EXCEPT ![s] = NoWork]
  /\ UNCHANGED <<files, pending, agent, ghosts, count>>

(* ... and when it answers, writes the summary over the first message of    *)
(* the zone and deletes the rest: by id, in any session that has the id.   *)
Rewritten(s, id, S) ==
  RowsWrite(s, LET i == Least({j \in DOMAIN rows[s] : rows[s][j].id = id})
               IN [rows[s] EXCEPT ![i] = [@ EXCEPT !.says = S, !.long = FALSE]], "fold")

Drops(where, ids) ==
  LET order == CHOOSE f \in [1..Cardinality(where) -> where] :
                 \A x \in where : \E i \in DOMAIN f : f[i] = x
  IN [i \in DOMAIN order |-> DropWrite(order[i], ids)]

FoldedBy(id, S, others, where) ==
  LET holders == {t \in where : id \in IdsOf(rows[t])}
  IN IF holders = {}
     THEN pending' = Drops(where, others)
     ELSE \E t \in holders : pending' = <<Rewritten(t, id, S)>> \o Drops(where, others)

(* Seeded bug: the summary leaves out the first message of the zone. *)
SummaryOfRest(zone) == Said(Tail(zone))

SummaryText(zone) == Said(zone)

SummaryDone(s) ==
  LET zone == work[s].zone
  IN /\ Idle
     /\ work[s].kind = "summary"
     /\ FoldedBy(zone[1].id, SummaryText(zone), IdsOf(Tail(zone)), Sessions)
     /\ work' = [work EXCEPT ![s] = NoWork]
     /\ UNCHANGED <<files, agent, ghosts, count>>

-----------------------------------------------------------------------------
(* runIncrementalFlush: processStream files the messages of the zone in     *)
(* memory.md, from the position it reached in the last flush and at most    *)
(* FlushBatch of them; then a pointer is written over the first message of  *)
(* the zone and the rest is deleted.                                       *)
FlushRange(s, zone) ==
  LET last == position[s] + FlushBatch
  IN [kind |-> "flush", zone |-> zone, at |-> position[s],
      stop |-> IF last < Len(zone) THEN last ELSE Len(zone), filed |-> 0]

FlushStart(s) ==
  /\ Idle /\ Free(s)
  /\ Compressible(rows[s])
  /\ count.events < MaxEvents /\ count.flushes < MaxFlushes
  /\ count' = [events |-> count.events + 1, flushes |-> count.flushes + 1]
  /\ work' = [work EXCEPT ![s] = FlushRange(s, Zone(rows[s]))]
  /\ UNCHANGED <<files, pending, agent, ghosts>>

(* A fileMemory that fails (memory.md at its limit) is logged and passed    *)
(* over: the message counts as filed.                                      *)
FlushMessage(s) ==
  LET w == work[s]
      row == w.zone[w.at + 1]
      seen == <<PositionWrite(s, w.at + 1)>>
  IN /\ Idle
     /\ w.kind = "flush" /\ w.at < w.stop
     /\ \/ pending' = <<SectionWrite(s, row)>> \o seen /\ UNCHANGED <<dropped, count>>
        \/ pending' = seen /\ dropped' = dropped \cup row.says /\ Event
     /\ work' = [work EXCEPT ![s].at = @ + 1, ![s].filed = @ + 1]
     /\ UNCHANGED <<files, agent, told, history, read, rewritten>>

FlushDone(s) ==
  LET w == work[s]
  IN /\ Idle
     /\ w.kind = "flush" /\ w.at >= w.stop
     /\ IF w.filed > 0
        THEN FoldedBy(w.zone[1].id, {}, IdsOf(Tail(w.zone)), {s})
        ELSE UNCHANGED pending
     /\ work' = [work EXCEPT ![s] = NoWork]
     /\ UNCHANGED <<files, agent, ghosts, count>>

-----------------------------------------------------------------------------
(* runMemoryConsolidation takes the lock of the session and a first notice, *)
(* reads the messages after its cursor, as many as fit its model, runs a     *)
(* turn over them and moves the cursor to the last of them if it succeeds. *)
AgentStart ==
  /\ Idle /\ Free(Main)
  /\ Event
  /\ agent' = [NoAgent EXCEPT !.at = "started"]
  /\ pending' = AppendWrites(Main, "system", {})
  /\ UNCHANGED <<files, work, ghosts>>

NewMessages ==
  C!Without(rows[Main], {i \in DOMAIN rows[Main] : rows[Main][i].id <= cursor})

AgentReads ==
  /\ Idle
  /\ agent.at = "started"
  /\ pending' = AppendWrites(Main, "system", {})
  /\ \/ NewMessages = <<>> /\ agent' = NoAgent
     \/ \E n \in 1..Len(NewMessages) :
          agent' = [at |-> "turn", batch |-> SubSeq(NewMessages, 1, n)]
  /\ UNCHANGED <<files, work, ghosts, count>>

(* Seeded bug: the cursor moves to the newest message. *)
CursorAtNewest == LastOf(NewMessages).id

NewCursor == LastOf(agent.batch).id

AgentDone ==
  /\ Idle
  /\ agent.at = "turn"
  /\ pending' = <<CursorWrite(NewCursor)>> \o AppendWrites(Main, "system", {})
  /\ read' = read \cup Said(agent.batch)
  /\ agent' = NoAgent
  /\ UNCHANGED <<files, work, told, history, dropped, rewritten, count>>

AgentFails ==
  /\ Idle
  /\ agent.at \in {"started", "turn"}
  /\ pending' = AppendWrites(Main, "system", {})
  /\ agent' = NoAgent
  /\ UNCHANGED <<files, work, ghosts, count>>

-----------------------------------------------------------------------------
(* A crash: the writes that were to come are not made, and a line that was  *)
(* being appended may be torn.                                             *)
LostLines == {i \in DOMAIN pending : pending[i].to = "line"}
LostTexts == UNION {pending[i].value.says : i \in LostLines}

Crash ==
  /\ Event
  /\ pending' = <<>>
  /\ work' = [s \in Sessions |-> NoWork]
  /\ agent' = NoAgent
  /\ torn' \in {torn} \cup {[torn EXCEPT ![pending[i].s] = TRUE] : i \in LostLines \cap {1}}
  /\ history' = [s \in Sessions |->
       IF \E i \in LostLines : pending[i].s = s THEN history[s] \cup LostTexts ELSE history[s]]
  /\ dropped' = dropped \cup LostTexts
  /\ UNCHANGED <<rows, nextId, section, position, cursor, told, read, rewritten>>

Handler(s) ==
  \/ Say(s) \/ Notice(s) \/ ResetSession(s) \/ CompactSession(s)
  \/ SummaryStart(s) \/ SummaryFails(s) \/ SummaryDone(s)
  \/ FlushStart(s) \/ FlushMessage(s) \/ FlushDone(s)

Next ==
  \/ \E s \in Sessions : Handler(s)
  \/ AgentStart \/ AgentReads \/ AgentDone \/ AgentFails
  \/ Write
  \/ Crash

Spec == Init /\ [][Next]_vars

-----------------------------------------------------------------------------
ConversationTyped == C!TypeOK

(* The types of the files and of the snapshots, and of what they stand for.  *)
TypeOK ==
  /\ \A s \in Sessions : \A i \in DOMAIN rows[s] :
       rows[s][i] \in [id : Nat, role : {"user", "assistant", "system"},
                       says : SUBSET Texts, long : BOOLEAN]
  /\ torn \in [Sessions -> BOOLEAN]
  /\ nextId \in [Sessions -> Nat \ {0}]
  /\ position \in [Sessions -> Nat]
  /\ cursor \in Nat
  /\ work \in [Sessions -> [kind : {None, "summary", "flush"}, zone : Seq([id : Nat,
        role : {"user", "assistant", "system"}, says : SUBSET Texts, long : BOOLEAN]),
        at : Nat, stop : Nat, filed : Nat]]
  /\ agent.at \in {None, "started", "turn"}
  /\ dropped \cup read \subseteq Texts
  /\ ConversationTyped

(* Compaction and flush find a row by its id: no two rows of a session may  *)
(* have the same one, also when a crash came between meta.json and the rows, *)
(* and the next id is above all of them.                                   *)
IdsUnique ==
  \A s \in Sessions : \A i, j \in DOMAIN rows[s] :
    /\ i # j => rows[s][i].id # rows[s][j].id
    /\ rows[s][i].id < nextId[s]

(* Rows, files and snapshots have their types, and rows ids of their own.   *)
RowsSound == TypeOK /\ IdsUnique

(* While only appends have changed the session, the MemoryAgent has read    *)
(* what stands up to its cursor, whatever was appended during its turns.   *)
CursorHonest ==
  ~rewritten =>
    \A i \in DOMAIN rows[Main] : rows[Main][i].id <= cursor => rows[Main][i].says \subseteq read

(* The files of the main session are a conversation, whatever the handlers  *)
(* do and wherever a crash cuts them: texts are summarised, filed, counted  *)
(* and given up only by the steps that say so, and stay in order.          *)
IsConversation == C!Spec

(* Every text of the session is shown, filed or accounted for.             *)
NothingVanishes == C!NothingVanishes

(* A summary of one session leaves the others alone (docs/slash-commands.md: *)
(* "Telegram chat sessions remain isolated").                              *)
Folding(s) == work[s].kind = "summary" /\ work'[s].kind = None /\ pending' # <<>>
Isolated ==
  [][\A s \in Sessions : Folding(s) =>
       \A k \in DOMAIN pending' :
         LET w == pending'[k]
         IN w.s = s \/ (w.to = "drop" /\ w.value \cap IdsOf(rows[w.s]) = {})]_vars
=============================================================================
