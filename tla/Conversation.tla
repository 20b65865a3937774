---------------------------- MODULE Conversation ----------------------------
(***************************************************************************)
(* What the store of one session promises, whatever files it keeps it in.  *)
(*                                                                         *)
(* A conversation is told one text after the other and shown as a sequence *)
(* of entries, each of which stands for a set of texts: a message for one, *)
(* a notice of the daemon for none, a summary for many. The store may put a *)
(* summary in the place of several entries, file a text in memory.md, drop *)
(* texts it has counted, and start again. It may never let a text go       *)
(* silently, nor show texts out of order.                                  *)
(***************************************************************************)
EXTENDS Naturals, Sequences

CONSTANT Texts

VARIABLES
  told,      \* the texts of this conversation
  shown,     \* the entries, oldest first: each the set of texts it stands for
  kept,      \* texts that memory.md holds
  dropped    \* texts counted and let go, given up in the log, or cut off by a crash

conversation == <<told, shown, kept, dropped>>

Covered == UNION {shown[i] : i \in DOMAIN shown}

Init == /\ told = {}
        /\ shown = <<>>
        /\ kept = {}
        /\ dropped = {}

(* A message is told: it is shown after all the others.                    *)
Say(t) ==
  /\ t \notin told
  /\ told' = told \cup {t}
  /\ shown' = Append(shown, {t})
  /\ UNCHANGED <<kept, dropped>>

(* A message is told and its writing is cut off by a crash.                *)
SayInVain(t) ==
  /\ t \notin told
  /\ told' = told \cup {t}
  /\ dropped' = dropped \cup {t}
  /\ UNCHANGED <<shown, kept>>

(* An entry that stands for no text.                                       *)
Note ==
  /\ shown' = Append(shown, {})
  /\ UNCHANGED <<told, kept, dropped>>

(* An entry comes to stand for what the entries after it stand for too.    *)
Summarise ==
  /\ \E i \in DOMAIN shown : \E j \in i..Len(shown) :
       shown' = [shown EXCEPT ![i] = UNION {shown[k] : k \in i..j}]
  /\ UNCHANGED <<told, kept, dropped>>

(* The entries of s without those of gone.                                 *)
Without(s, gone) ==
  LET stay[i \in 0..Len(s)] ==
        IF i = 0 THEN <<>>
        ELSE IF i \in gone THEN stay[i - 1] ELSE Append(stay[i - 1], s[i])
  IN stay[Len(s)]

(* Entries go whose texts are still held elsewhere or were given up.       *)
Prune ==
  /\ \E gone \in SUBSET DOMAIN shown :
       /\ (UNION {shown[i] : i \in gone}) \subseteq
            (UNION {shown[i] : i \in DOMAIN shown \ gone}) \cup kept \cup dropped
       /\ shown' = Without(shown, gone)
  /\ UNCHANGED <<told, kept, dropped>>

(* An entry comes to point to what memory.md holds, or should hold.        *)
Refer ==
  /\ \E i \in DOMAIN shown : /\ shown[i] \subseteq kept \cup dropped
                             /\ shown' = [shown EXCEPT ![i] = {}]
  /\ UNCHANGED <<told, kept, dropped>>

File ==
  /\ \E S \in SUBSET Covered : kept' = kept \cup S
  /\ UNCHANGED <<told, shown, dropped>>

(* The oldest entries give way to at most three that only count them.      *)
Count ==
  /\ \E n \in 1..Len(shown), marks \in 0..3 :
       /\ dropped' = dropped \cup UNION {shown[i] : i \in 1..n}
       /\ shown' = [i \in 1..marks |-> {}] \o SubSeq(shown, n + 1, Len(shown))
  /\ UNCHANGED <<told, kept>>

(* Texts are given up with a word in the log.                              *)
GiveUp ==
  /\ \E S \in SUBSET Covered : dropped' = dropped \cup S
  /\ UNCHANGED <<told, shown, kept>>

Clear ==
  /\ told' = {}
  /\ shown' = <<>>
  /\ kept' = {}
  /\ dropped' = {}

Next ==
  \/ \E t \in Texts : Say(t) \/ SayInVain(t)
  \/ Note \/ Summarise \/ Prune \/ Refer \/ File \/ Count \/ GiveUp \/ Clear

Spec == Init /\ [][Next]_conversation

TypeOK ==
  /\ told \subseteq Texts
  /\ shown \in Seq(SUBSET Texts)
  /\ kept \subseteq Texts
  /\ dropped \subseteq Texts

(* Every text of the conversation is still shown, or filed in memory.md, or *)
(* was let go by an operation that says so.                                *)
NothingVanishes == told \subseteq Covered \cup kept \cup dropped
=============================================================================
