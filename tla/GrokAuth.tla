------------------------------ MODULE GrokAuth ------------------------------
(***************************************************************************)
(* The tokens of a Grok login: the file grok_oauth.json, the logins that     *)
(* write it (runGrokOAuthLogin, handleXaiOAuthCode) and the requests that    *)
(* read and refresh it (resolveGrokAccessToken).                            *)
(*                                                                         *)
(* Requests of several turns, and logins of other processes, run at the      *)
(* same time. Nothing locks the file, and it is written in place: a reader   *)
(* may find it torn. The authorization server, which is external, takes each *)
(* refresh token of a login once.                                          *)
(***************************************************************************)
EXTENDS Naturals

CONSTANTS
  Requests,     \* calls of resolveGrokAccessToken
  Logins,       \* login flows; a login is its own state parameter
  MaxVersion    \* bound on the tokens of a login

None == [login |-> "none", version |-> 0]
Torn == [login |-> "torn", version |-> 0]
Tokens == [login : Logins, version : 1..MaxVersion]

VARIABLES
  file,       \* grok_oauth.json: None, Torn or tokens
  expiring,   \* the access token of these tokens expires within two minutes
  newest,     \* of a login: the version its server last gave, 0 before
  pc,         \* of a request or a login
  holds,      \* the tokens a request or a login has in memory
  failed,     \* of a request: why it threw, or "no"
  torn,       \* history: a process died while it wrote the file
  died        \* history: a process died between a refresh and its save

vars == <<file, expiring, newest, pc, holds, failed, torn, died>>

Procs == Requests \cup Logins

Init ==
  /\ file = None
  /\ expiring = {}
  /\ newest = [l \in Logins |-> 0]
  /\ pc = [p \in Procs |-> "idle"]
  /\ holds = [p \in Procs |-> None]
  /\ failed = [r \in Requests |-> "no"]
  /\ torn = FALSE
  /\ died = FALSE

Writing == {p \in Procs : pc[p] = "writing"}

-----------------------------------------------------------------------------
(* Requests.                                                               *)

Fails(r, why) ==
  /\ failed' = [failed EXCEPT ![r] = why]
  /\ pc' = [pc EXCEPT ![r] = "done"]

(* loadGrokTokens: no file and a torn one look alike.                       *)
Load(r) ==
  /\ pc[r] = "idle"
  /\ IF file \in {None, Torn}
     THEN /\ Fails(r, IF file = Torn THEN "torn" ELSE "absent")
          /\ UNCHANGED holds
     ELSE /\ holds' = [holds EXCEPT ![r] = file]
          /\ pc' = [pc EXCEPT ![r] = IF file \in expiring THEN "refresh" ELSE "done"]
          /\ UNCHANGED failed
  /\ UNCHANGED <<file, expiring, newest, torn, died>>

(* refreshGrokAccessToken: the server takes the refresh token if it is the   *)
(* last it gave, and gives the next; or the exchange fails.                 *)
Refresh(r) ==
  LET l == holds[r].login
  IN /\ pc[r] = "refresh"
     /\ \/ /\ holds[r].version = newest[l] /\ newest[l] < MaxVersion
           /\ newest' = [newest EXCEPT ![l] = @ + 1]
           /\ holds' = [holds EXCEPT ![r].version = newest[l] + 1]
           /\ pc' = [pc EXCEPT ![r] = "save"]
           /\ UNCHANGED failed
        \/ /\ holds[r].version < newest[l]
           /\ Fails(r, "refused")
           /\ UNCHANGED <<newest, holds>>
        \/ /\ Fails(r, "network")
           /\ UNCHANGED <<newest, holds>>
     /\ UNCHANGED <<file, expiring, torn, died>>

-----------------------------------------------------------------------------
(* Logins.                                                                 *)

(* A callback, or a pasted URL, is accepted for the state parameter of this  *)
(* flow alone.                                                             *)
Accepts(l, state) == state = l

(* Seeded bug: the state parameter is not compared. *)
AcceptsAny(l, state) == TRUE

StateMatches(l, state) == Accepts(l, state)

Accepted(l, state) ==
  /\ pc' = [pc EXCEPT ![l] = "exchange"]
  /\ holds' = [holds EXCEPT ![l] = [login |-> state, version |-> 0]]

(* The listener is closed by the first callback, which may bring an error or *)
(* another flow's state.                                                    *)
Callback(l) ==
  \/ \E state \in Logins : StateMatches(l, state) /\ Accepted(l, state)
  \/ pc' = [pc EXCEPT ![l] = "done"] /\ UNCHANGED holds

(* A URL is pasted, which has a state, or a code, which has none and passes   *)
(* for this flow's. Whatever else ends the login.                           *)
ManualPaste(l) == Callback(l) \/ Accepted(l, l)

(* In the menu of the models it is asked for again instead.                 *)
HandleXaiOAuthCode(l) ==
  \/ \E state \in Logins : StateMatches(l, state) /\ Accepted(l, state)
  \/ Accepted(l, l)

Login(l) ==
  /\ pc[l] = "idle"
  /\ Callback(l) \/ ManualPaste(l) \/ HandleXaiOAuthCode(l)
  /\ UNCHANGED <<file, expiring, newest, failed, torn, died>>

(* So it is when the exchange of a code from the menu has failed.            *)
AskAgain(l) ==
  /\ pc[l] = "exchange"
  /\ pc' = [pc EXCEPT ![l] = "idle"]
  /\ holds' = [holds EXCEPT ![l] = None]
  /\ UNCHANGED <<file, expiring, newest, failed, torn, died>>

(* A timeout, Ctrl+C, or a failed exchange.                                 *)
Abandon(l) ==
  /\ pc[l] \in {"idle", "exchange"}
  /\ pc' = [pc EXCEPT ![l] = "done"]
  /\ UNCHANGED <<file, expiring, newest, holds, failed, torn, died>>

(* exchangeCodeForTokens with this flow's verifier: the code of another flow *)
(* is refused by the server.                                               *)
Exchange(l) ==
  /\ pc[l] = "exchange" /\ newest[l] = 0
  /\ newest' = [newest EXCEPT ![l] = 1]
  /\ holds' = [holds EXCEPT ![l] = [login |-> l, version |-> 1]]
  /\ pc' = [pc EXCEPT ![l] = "save"]
  /\ UNCHANGED <<file, expiring, failed, torn, died>>

-----------------------------------------------------------------------------
(* saveGrokTokens: writeFile truncates the file and then fills it.          *)

(* Seeded bug: the write is not awaited, and the process is gone before it. *)
FillNever(p) == UNCHANGED file

(* Seeded bug: the refresh token the server answered with is not saved. *)
FillOld(p) == file' = [holds[p] EXCEPT !.version = IF @ > 1 THEN @ - 1 ELSE @]

Fill(p) == file' = holds[p]

StartSave(p) ==
  /\ pc[p] = "save"
  /\ file' = Torn
  /\ pc' = [pc EXCEPT ![p] = "writing"]
  /\ UNCHANGED <<expiring, newest, holds, failed, torn, died>>

EndSave(p) ==
  /\ pc[p] = "writing"
  /\ Fill(p)
  /\ pc' = [pc EXCEPT ![p] = "done"]
  /\ UNCHANGED <<expiring, newest, holds, failed, torn, died>>

(* The process ends, and what it had in memory with it.                     *)
Die(p) ==
  /\ pc[p] \in {"save", "writing"}
  /\ pc' = [pc EXCEPT ![p] = "done"]
  /\ died' = TRUE
  /\ torn' = (torn \/ pc[p] = "writing")
  /\ UNCHANGED <<file, expiring, newest, holds, failed>>

Expire ==
  /\ file \in Tokens \ expiring
  /\ expiring' = expiring \cup {file}
  /\ UNCHANGED <<file, newest, pc, holds, failed, torn, died>>

Next ==
  \/ \E r \in Requests : Load(r) \/ Refresh(r)
  \/ \E l \in Logins : Login(l) \/ AskAgain(l) \/ Abandon(l) \/ Exchange(l)
  \/ \E p \in Procs : StartSave(p) \/ EndSave(p) \/ Die(p)
  \/ Expire

Spec == Init /\ [][Next]_vars

-----------------------------------------------------------------------------
(* The types. *)
TypeOK ==
  /\ file \in Tokens \cup {None, Torn}
  /\ expiring \subseteq Tokens
  /\ newest \in [Logins -> 0..MaxVersion]
  /\ pc \in [Procs -> {"idle", "refresh", "exchange", "save", "writing", "done"}]

(* Once a login was saved, a request finds tokens, unless it reads while     *)
(* they are being written, or a process died in the middle of that.         *)
TornOnlyWhileWritten == file = Torn => torn \/ Writing # {}

(* The tokens of a login in the file can still be refreshed, as long as      *)
(* nobody died on the way: each newer version that the server has given is    *)
(* in the memory of a process that will save it, or another login came.      *)
Refreshable ==
  \A l \in Logins :
    file \in Tokens /\ file.login = l /\ ~died /\ file.version < newest[l]
      => \E p \in Procs : \/ pc[p] \in {"save", "writing"} /\ holds[p] = [login |-> l, version |-> newest[l]]
                          \/ p \in Logins \ {l} /\ newest[p] > 0

(* A login saves the tokens of its own flow, never of a callback that was    *)
(* meant for another.                                                      *)
OwnLogin ==
  \A l \in Logins : pc[l] \in {"exchange", "save", "writing"} => holds[l].login = l
=============================================================================
