----------------------------- MODULE FileTools -----------------------------
(***************************************************************************)
(* Read, Write and Edit on one file, with the state they keep of what each *)
(* session has read (file-state) and the history of the contents they      *)
(* replace (file-history).                                                 *)
(*                                                                         *)
(* Within a turn Write and Edit run alone, but calls of two sessions, of a *)
(* shell command or of another program interleave with them wherever a     *)
(* handler awaits: a Read between reading and recording, a Write between   *)
(* its checks and its writes, an Edit between reading and writing.         *)
(***************************************************************************)
EXTENDS Naturals, Sequences, FiniteSets

CONSTANTS
    Calls,      \* tool calls
    Sessions,
    MaxBlocks,  \* largest file, in blocks of 8 KB (bound)
    MaxRead,    \* MAX_READ_SIZE_BYTES in blocks
    MaxMtime    \* milliseconds in which something is written (bound)

VARIABLES
    content,    \* the blocks of the file, each named by who wrote it; <<>>: no file
    mtime,
    readState,  \* the entry of each session for the file, 0: none
    history,    \* the versions in the history, oldest first
    pc, session,
    taken,      \* what the call read of the file
    result,     \* how it ended
    replaced,   \* history: the contents that were replaced by a tool which had read them
    dirty,      \* history: the sessions for which the file changed since the read that
                \* they recorded last took its content
    overtaken,  \* history: the reads under way whose content the file has no longer
    blind       \* history: the sessions that recorded an overtaken read, until the file
                \* changes again

seen == <<dirty, overtaken, blind>>
vars == <<content, mtime, readState, history, pc, session, taken, result, replaced, seen>>
fileVars == <<content, mtime, readState, history, replaced, seen>>

Writers == Calls \cup {"outside"}
Contents == UNION {[1..n -> Writers] : n \in 0..MaxBlocks}

Init ==
    /\ content \in {<<>>, <<"outside">>, [i \in 1..MaxBlocks |-> "outside"]}
    /\ mtime = 1
    /\ readState = [s \in Sessions |-> 0] /\ history = <<>>
    /\ pc = [c \in Calls |-> "idle"] /\ session = [c \in Calls |-> CHOOSE s \in Sessions : TRUE]
    /\ taken = [c \in Calls |-> <<>>] /\ result = [c \in Calls |-> "none"]
    /\ replaced = {} /\ dirty = {} /\ overtaken = {} /\ blind = {}

Exists == content # <<>>
Ends(c, r) == pc' = [pc EXCEPT ![c] = "end"] /\ result' = [result EXCEPT ![c] = r]
Waits(c, at) == pc' = [pc EXCEPT ![c] = at] /\ UNCHANGED result
Begins(c, s) == pc[c] = "idle" /\ session' = [session EXCEPT ![c] = s]
Goes(c) == UNCHANGED session

(* The file's new content.  Its time stamp, in whole milliseconds, may be  *)
(* that of the write before.                                               *)
Put(x) ==
    /\ content' = x
    /\ mtime' \in {mtime, mtime + 1} /\ mtime' <= MaxMtime
    /\ IF mtime' > mtime
       THEN /\ dirty' = Sessions /\ blind' = {}
            /\ overtaken' = {c \in Calls : pc[c] = "reading"}
       ELSE UNCHANGED seen

(***************************************************************************)
(* Read                                                                    *)
(***************************************************************************)
(* At most the first 8 KB are read, whatever the size is.                  *)
ReadWithLimit == SubSeq(content, 1, 1)

ReadTakes(c) ==
    /\ \E s \in Sessions : Begins(c, s)
    /\ IF ~Exists THEN Ends(c, "not_found") /\ UNCHANGED taken
       ELSE IF Len(content) > MaxRead THEN Ends(c, "file_too_large") /\ UNCHANGED taken
       ELSE taken' = [taken EXCEPT ![c] = ReadWithLimit] /\ Waits(c, "reading")
    /\ UNCHANGED fileVars

(* Seeded bug: one entry for all sessions.                                 *)
SetSharedFileState(s) ==
    readState' = [t \in Sessions |-> IF Exists THEN mtime ELSE 0]

SetReadFileState(s) ==
    readState' = [readState EXCEPT ![s] = IF Exists THEN mtime ELSE 0]

TrackEdit(x) == history' = Append(history, x)

(* The read is recorded with the time stamp the file has now, which may be *)
(* later than what was read, and what was read goes into the history as a  *)
(* version of the file.                                                    *)
ReadEnds(c) ==
    /\ pc[c] = "reading" /\ Goes(c) /\ Ends(c, "text")
    /\ SetReadFileState(session[c])
    /\ IF Exists THEN TrackEdit(taken[c]) ELSE UNCHANGED history
    /\ IF c \in overtaken
       THEN dirty' = dirty \cup {session[c]} /\ blind' = blind \cup {session[c]}
       ELSE dirty' = dirty \ {session[c]} /\ blind' = blind \ {session[c]}
    /\ overtaken' = overtaken \ {c}
    /\ UNCHANGED <<content, mtime, taken, replaced>>

(***************************************************************************)
(* Write and Edit                                                          *)
(***************************************************************************)
IsFileStale(s) == readState[s] # 0 /\ mtime > readState[s]
Warned(s) == Exists /\ (readState[s] = 0 \/ IsFileStale(s))
Written(s) == IF Warned(s) THEN "warned" ELSE "written"

(* A notebook, a secret or settings that are not JSON.                     *)
Rejected(c, o) ==
    /\ \E s \in Sessions : Begins(c, s)
    /\ Ends(c, "error")
    /\ UNCHANGED <<fileVars, taken>>

(* Write to a path with nothing there is one step.                         *)
WriteNew(c) ==
    /\ ~Exists /\ \E s \in Sessions : Begins(c, s)
    /\ \E n \in 1..MaxBlocks : Put([i \in 1..n |-> c])
    /\ Ends(c, "written")
    /\ UNCHANGED <<readState, history, taken, replaced>>

(* Over an existing file it checks, awaits the import of the history ...   *)
WriteChecks(c) ==
    /\ Exists
    /\ \E s \in Sessions : Begins(c, s) /\ pc' = [pc EXCEPT ![c] = "writing"]
                           /\ result' = [result EXCEPT ![c] = Written(s)]
    /\ UNCHANGED <<fileVars, taken>>

(* Seeded bug: the version is tracked after the write.                     *)
WriteOverTracksNew(c, x) == Put(x) /\ TrackEdit(x) /\ replaced' = replaced \cup {content}

(* ... and then tracks what is there and writes, without a break.          *)
WriteOver(c, x) == Put(x) /\ TrackEdit(content) /\ replaced' = replaced \cup {content}

WriteWrites(c) ==
    /\ pc[c] = "writing" /\ Goes(c)
    /\ IF Exists
       THEN /\ \E n \in 1..MaxBlocks : WriteOver(c, [i \in 1..n |-> c])
            /\ pc' = [pc EXCEPT ![c] = "end"] /\ UNCHANGED result
       ELSE Ends(c, "error") /\ UNCHANGED <<content, mtime, history, replaced, seen>>    \* readFileSync throws
    /\ UNCHANGED <<readState, taken>>

Occurrences(x, w) == {i \in 1..Len(x) : x[i] = w}

(* Edit reads the file, awaits the import of the history ...               *)
EditReads(c) ==
    /\ \E s \in Sessions :
         /\ Begins(c, s)
         /\ IF ~Exists THEN Ends(c, "error") /\ UNCHANGED taken
            ELSE /\ taken' = [taken EXCEPT ![c] = content]
                 /\ pc' = [pc EXCEPT ![c] = "editing"]
                 /\ result' = [result EXCEPT ![c] = Written(s)]
    /\ UNCHANGED fileVars

(* ... and then tracks and replaces what it had read.  Without replace_all *)
(* or match_index the text must occur once; edits[] are applied in order,  *)
(* all of them or none, and amount to one replacement.                     *)
ApplyEdit(x, w, at, c) == [i \in 1..Len(x) |-> IF i \in at /\ x[i] = w THEN c ELSE x[i]]

EditWrites(c) ==
    /\ pc[c] = "editing" /\ Goes(c)
    /\ LET x == taken[c] IN
       \/ \E w \in Writers :
            LET found == Occurrences(x, w) IN
            /\ found # {}
            /\ \E at \in {found} \cup {{i} : i \in found} :
                 /\ Put(ApplyEdit(x, w, at, c))
                 /\ TrackEdit(x)
                 /\ replaced' = IF content = x THEN replaced \cup {x} ELSE replaced
            /\ pc' = [pc EXCEPT ![c] = "end"] /\ UNCHANGED result
       \/ /\ Ends(c, "error")                        \* not found, ambiguous, a no-op
          /\ UNCHANGED <<content, mtime, history, replaced, seen>>
    /\ UNCHANGED <<readState, taken>>

(* A shell command or another program writes or deletes the file.          *)
Outside ==
    /\ \E x \in {<<>>, <<"outside">>} : x # content /\ Put(x)
    /\ UNCHANGED <<readState, history, pc, session, taken, result, replaced>>

Next ==
    \/ \E c \in Calls :
         \/ ReadTakes(c) \/ ReadEnds(c)
         \/ Rejected(c, "write") \/ WriteNew(c) \/ WriteChecks(c) \/ WriteWrites(c)
         \/ EditReads(c) \/ EditWrites(c)
    \/ Outside

Spec == Init /\ [][Next]_vars

(***************************************************************************)
(* Properties                                                              *)
(***************************************************************************)
(* Every variable has its type.                                            *)
TypeOK ==
    /\ content \in Contents /\ mtime \in 1..MaxMtime
    /\ readState \in [Sessions -> 0..MaxMtime]
    /\ \A i \in DOMAIN history : history[i] \in Contents \ {<<>>}
    /\ pc \in [Calls -> {"idle", "reading", "writing", "editing", "end"}]
    /\ session \in [Calls -> Sessions]
    /\ taken \in [Calls -> Contents]
    /\ result \in [Calls -> {"none", "not_found", "file_too_large", "text", "error", "written", "warned"}]
    /\ replaced \subseteq Contents /\ dirty \subseteq Sessions
    /\ blind \subseteq dirty /\ overtaken \subseteq {c \in Calls : pc[c] = "reading"}

(* The user can get back what a tool replaced: every content that a Write, *)
(* or an Edit that still found what it had read, wrote over is a version   *)
(* of the history.                                                         *)
Recoverable == replaced \subseteq {history[i] : i \in DOMAIN history}

(* A Write or Edit that begins without a warning finds the file as its own *)
(* session last read it: a change in a later millisecond, by another       *)
(* session, another program or this session itself, is reported.  The only *)
(* change it may miss is one that came while that very read was under way, *)
(* between its content and its time stamp.                                 *)
WarnsWhenChanged ==
    [][\A c \in Calls : pc[c] = "idle" /\ pc'[c] \in {"writing", "editing"} /\ result'[c] = "written"
           => session'[c] \notin dirty \ blind]_vars

(* Without that exception, as isFileStale says ("Returns true if the file  *)
(* on disk has been modified since Read last saw it", file-state.ts), the  *)
(* code does not keep it.                                                  *)
WarnsWhenNotAsRead ==
    [][\A c \in Calls : pc[c] = "idle" /\ pc'[c] \in {"writing", "editing"} /\ result'[c] = "written"
           => session'[c] \notin dirty]_vars

(* What a Read returned as the whole file is the whole file.  read.ts:170  *)
(* says "Read completo (es chico, ya validamos < 256KB)"; the code reads   *)
(* 8 KB.                                                                   *)
ReadWhole ==
    [][\A c \in Calls : pc[c] = "idle" /\ pc'[c] = "reading" => taken'[c] = content]_vars
=============================================================================
