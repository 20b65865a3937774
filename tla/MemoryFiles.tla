---------------------------- MODULE MemoryFiles ----------------------------
(***************************************************************************)
(* The memory the assistant carries into every turn: the boot files        *)
(* (memory/boot/*.md), the curated memory.md with its sections, and the    *)
(* cached block that puts both into a prompt (turnPrepCache).              *)
(*                                                                         *)
(* All of it is synchronous in the daemon.  What interleaves is the rest   *)
(* of the machine: an editor, git or a command of the assistant's shell    *)
(* writes the same files, also between the stat of memory.md and the       *)
(* reading of it.  The cache looks for the files under the daemon's        *)
(* working directory, and the files live under MONOLITO_ROOT: sameRoot     *)
(* tells whether these are the same directory.                             *)
(***************************************************************************)
EXTENDS Naturals, Sequences, SequencesExt

CONSTANTS
    Wings,      \* boot files other than memory.md
    Titles,     \* titles of sections
    MaxSecs,    \* sections that fit in the hard limit of memory.md
    MaxWrites   \* writes (bound)

NoCache == [set |-> FALSE, mtime |-> 0, wings |-> [w \in Wings |-> 0],
            memory |-> [head |-> TRUE, secs |-> <<>>]]

VARIABLES
    wings,      \* what each boot file holds: the number of the write, 0: the default
    memory,     \* memory.md: whether text stands before the first section, and its sections
    mtime,      \* the write memory.md is from
    by,         \* history: who wrote last
    writes,
    sameRoot,
    cache,      \* bootCache: the block with the mtime it was made for
    stat,       \* the mtime getCachedBootBlock has just read, 0: it is not at work
    asWas       \* history: the block of the last prompt was not what the files held

vars == <<wings, memory, mtime, by, writes, sameRoot, cache, stat, asWas>>
files == <<wings, memory, mtime, by, writes>>

Header == [head |-> TRUE, secs |-> <<>>]
Section(t, body) == [title |-> t, body |-> body]
Has(m, t) == \E i \in DOMAIN m.secs : m.secs[i].title = t

\* the sections of a title, in their order
Bodies(m, t) ==
    LET f[n \in 0 .. Len(m.secs)] ==
            IF n = 0 THEN <<>>
            ELSE IF m.secs[n].title = t THEN Append(f[n - 1], m.secs[n]) ELSE f[n - 1]
    IN f[Len(m.secs)]

(***************************************************************************)
(* Writing                                                                 *)
(***************************************************************************)
\* the daemon is at one thing at a time, others write when they like
Wrote(who) == /\ stat = 0 \/ who = "outside"
              /\ writes < MaxWrites
              /\ writes' = writes + 1
              /\ by' = who

\* atomicWrite of memory.md.  Every write gets a time of its own: two within the
\* granularity of the file system's clock are not told apart by the cache, and
\* are not modelled
MemoryWrite(m) == memory' = m /\ mtime' = writes + 1

\* renderSections(readPreamble(md), sections): of a file that begins with a
\* section, that section is the preamble and one of the sections
Rendered(md, secs) ==
    IF md.head \/ md.secs = <<>> THEN [head |-> TRUE, secs |-> secs]
    ELSE [head |-> FALSE, secs |-> <<Head(md.secs)>> \o secs]

\* Seeded bug: every section is given the new content.
UpsertOverAll(md, t, body) ==
    Rendered(md, IF Has(md, t) THEN [i \in DOMAIN md.secs |-> Section(md.secs[i].title, body)]
                 ELSE Append(md.secs, Section(t, body)))

Upsert(md, t, body) ==
    Rendered(md, IF Has(md, t)
                 THEN [i \in DOMAIN md.secs |->
                          IF md.secs[i].title = t THEN Section(t, body) ELSE md.secs[i]]
                 ELSE Append(md.secs, Section(t, body)))

\* fileMemory, upsertCuratedMemory: what is there already is skipped, what
\* would be longer than the hard limit throws
FileMemory(t) ==
    /\ Wrote("filed")
    /\ LET new == Upsert(memory, t, writes + 1)
       IN Len(new.secs) <= MaxSecs /\ MemoryWrite(new)
    /\ UNCHANGED <<wings, sameRoot, cache, stat, asWas>>

\* BootWrite of a boot file, overwriting or appending
WriteBootWing(w) ==
    /\ Wrote("boot")
    /\ wings' = [wings EXCEPT ![w] = writes + 1]
    /\ UNCHANGED <<memory, mtime, sameRoot, cache, stat, asWas>>

\* BootWrite of BOOT_MEMORY replaces or extends memory.md with any text, with
\* no limit but the model's (bound)
WriteBootMemory(t, append) ==
    /\ Wrote("boot")
    /\ LET section == <<Section(t, writes + 1)>>
           m == IF append THEN [memory EXCEPT !.secs = @ \o section]
                ELSE [head |-> FALSE, secs |-> section]
       IN Len(m.secs) <= MaxSecs + 1 /\ MemoryWrite(m)
    /\ UNCHANGED <<wings, sameRoot, cache, stat, asWas>>

\* /reset: clearProfileMemory writes the default memory.md
ClearProfileMemory ==
    /\ Wrote("reset")
    /\ MemoryWrite(Header)
    /\ UNCHANGED <<wings, sameRoot, cache, stat, asWas>>

\* another program writes: it may also lose the text before the first section
Outside ==
    /\ Wrote("outside")
    /\ \/ \E w \in Wings : wings' = [wings EXCEPT ![w] = writes + 1] /\ UNCHANGED <<memory, mtime>>
       \/ MemoryWrite([memory EXCEPT !.head = FALSE]) /\ UNCHANGED wings
       \/ MemoryWrite(Header) /\ UNCHANGED wings
    /\ UNCHANGED <<sameRoot, cache, stat, asWas>>

(***************************************************************************)
(* The cached block.  bootFingerprint stats BOOT_AGENTS.md and the like,   *)
(* where the files are agents.md and the like: none of them is ever there. *)
(***************************************************************************)
StatOf(m) == IF sameRoot THEN m + 1 ELSE 1

Block == [wings |-> wings, memory |-> memory]

Hit == cache.set /\ cache.mtime = stat

Stat == /\ stat = 0
        /\ stat' = StatOf(mtime)
        /\ UNCHANGED <<files, sameRoot, cache, asWas>>

\* Seeded bug: the time is brought up to date and the block is not built again.
KeptAsNow == [set |-> TRUE, mtime |-> stat, wings |-> cache.wings, memory |-> cache.memory]
Kept == [set |-> TRUE, mtime |-> stat, wings |-> wings, memory |-> memory]

Given(c) == asWas' = (c.wings /= wings \/ c.memory /= memory)

GetCachedBootBlock ==
    /\ stat > 0
    /\ cache' = IF Hit THEN cache ELSE Kept
    /\ Given(cache')
    /\ stat' = 0
    /\ UNCHANGED <<files, sameRoot>>

\* a new daemon has no cache
Restart == /\ stat = 0
           /\ cache.set
           /\ cache' = NoCache
           /\ UNCHANGED <<files, sameRoot, stat, asWas>>

Init ==
    /\ wings = [w \in Wings |-> 0]
    /\ memory = Header /\ mtime = 0
    /\ by = "boot" /\ writes = 0
    /\ sameRoot \in BOOLEAN
    /\ cache = NoCache
    /\ stat = 0
    /\ asWas = FALSE

Next ==
    \/ \E t \in Titles : FileMemory(t)
    \/ \E w \in Wings : WriteBootWing(w)
    \/ \E t \in Titles, a \in BOOLEAN : WriteBootMemory(t, a)
    \/ ClearProfileMemory
    \/ Outside
    \/ Stat
    \/ GetCachedBootBlock
    \/ Restart

Spec == Init /\ [][Next]_vars

-----------------------------------------------------------------------------
Memories == [head : BOOLEAN, secs : Seq([title : Titles, body : 1 .. MaxWrites])]

\* Types, with the hard limit of memory.md after the store has filed into it,
\* which what is appended through BootWrite is not held to.
TypeOK ==
    /\ wings \in [Wings -> 0 .. MaxWrites]
    /\ memory \in Memories
    /\ by = "filed" => Len(memory.secs) \in 1 .. MaxSecs
    /\ mtime \in 0 .. MaxWrites /\ writes \in 0 .. MaxWrites
    /\ by \in {"boot", "filed", "reset", "outside"}
    /\ cache.set => cache.mtime > 0
    /\ cache.wings \in [Wings -> 0 .. MaxWrites] /\ cache.memory \in Memories
    /\ stat \in 0 .. MaxWrites + 1

\* A block that is kept for a time of memory.md holds what memory.md held
\* since then: however the files change while it is built, a later prompt that
\* finds the same time is given the memory the file has
\* (getCachedBootBlock reads the time before it reads the file).
CachedIsCurrent ==
    cache.set /\ sameRoot /\ cache.mtime = StatOf(mtime) => cache.memory = memory

\* Filing a memory touches one section: every other title keeps its sections,
\* and the filed title has one with the filed content, as long as memory.md
\* has its header (upsertMemorySection parses and renders the whole file).
FilingTouchesOne ==
    [][by' = "filed" /\ mtime' /= mtime /\ memory.head =>
         \E t \in Titles :
            /\ \A other \in Titles \ {t} : Bodies(memory', other) = Bodies(memory, other)
            /\ \A i \in DOMAIN Bodies(memory', t) : Bodies(memory', t)[i].body = writes'
            /\ Len(Bodies(memory', t)) <= 1 \/ Len(Bodies(memory', t)) = Len(Bodies(memory, t))]_vars

\* "The following boot configuration and curated memory are ALREADY injected
\* in this turn and are ALWAYS authoritative ... the full content is below":
\* what buildCachedContextBlock tells the model.  The cache gives a block that
\* the files have left behind.
BlockAuthoritative == asWas = FALSE
=============================================================================
