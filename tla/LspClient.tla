------------------------------ MODULE LspClient ------------------------------
(***************************************************************************)
(* The language server shared by the LspQuery calls of a workspace:         *)
(* getSharedLspClient and StdioLspClient.                                   *)
(*                                                                         *)
(* What is shared is the promise of a client, so that calls which come      *)
(* while the server starts wait for the same one. Each request has a timer.  *)
(* A document is sent to the server when it is first asked about and never   *)
(* again; a client whose server has exited stays shared.                    *)
(***************************************************************************)
EXTENDS Naturals

CONSTANTS
  Queries,      \* the LspQuery calls, all about one document
  MaxClients,   \* bound on the servers started
  MaxEdits      \* bound on the edits of the document

Clients == 1..MaxClients
NoClient == 0

VARIABLES
  query,      \* "idle", "starting", "asking", "answered", "rejected"
  client,     \* the client of a query
  shared,     \* the client whose promise is in sharedClients
  lsp,        \* of a client: "none", "starting", "running", "exited", "gone"
  waiting,    \* of a client: the queries with an entry in pending, and
              \* "initialize" while that request is pending
  late,       \* of a client: requests its server still answers after a timeout
  text,       \* version of the document on disk
  opened,     \* of a client: the version it has sent, 0 for none
  saw         \* of an answered query: [asked, told], the version on disk when
              \* it asked and the one its answer is about

vars == <<query, client, shared, lsp, waiting, late, text, opened, saw>>

Nothing == [asked |-> 0, told |-> 0]

Init ==
  /\ query = [q \in Queries |-> "idle"]
  /\ client = [q \in Queries |-> NoClient]
  /\ shared = NoClient
  /\ lsp = [k \in Clients |-> "none"]
  /\ waiting = [k \in Clients |-> {}]
  /\ late = [k \in Clients |-> {}]
  /\ text = 1
  /\ opened = [k \in Clients |-> 0]
  /\ saw = [q \in Queries |-> Nothing]

(* Seeded bug: the client is shared when its server has answered. *)
SharedWhenStarted(k) == shared' = shared

SharedAtOnce(k) == shared' = k

SharePromise(k) == SharedAtOnce(k)

(* A new client starts a server and asks it to initialize. It may not exist: *)
(* then its exit or error event comes.                                      *)
StartServer(k) ==
  /\ lsp' = [lsp EXCEPT ![k] = "starting"]
  /\ waiting' = [waiting EXCEPT ![k] = {"initialize"}]

Unused == {k \in Clients : lsp[k] = "none"}

(* getSharedLspClient: the shared promise, or one of a new client.           *)
GetShared(q) ==
  IF shared # NoClient
  THEN /\ client' = [client EXCEPT ![q] = shared]
       /\ UNCHANGED <<shared, lsp, waiting>>
  ELSE \E k \in Unused :
         /\ \A j \in Unused : k <= j
         /\ client' = [client EXCEPT ![q] = k]
         /\ SharePromise(k)
         /\ StartServer(k)

(* The tool is called; a path outside of the workspace it refuses.           *)
LspQuery(q) ==
  /\ query[q] = "idle"
  /\ \/ query' = [query EXCEPT ![q] = "starting"] /\ GetShared(q)
     \/ query' = [query EXCEPT ![q] = "rejected"] /\ UNCHANGED <<client, shared, lsp, waiting>>
  /\ UNCHANGED <<late, text, opened, saw>>

(* The server has answered "initialize".                                    *)
Initialized(k) ==
  /\ lsp[k] = "starting" /\ "initialize" \in waiting[k]
  /\ lsp' = [lsp EXCEPT ![k] = "running"]
  /\ waiting' = [waiting EXCEPT ![k] = @ \ {"initialize"}]
  /\ UNCHANGED <<query, client, shared, late, text, opened, saw>>

(* A start that failed: the promise is taken out of the map, every query     *)
(* that waits for it is rejected, and the server, if it runs, is left alone. *)
StartFailed(k) ==
  /\ shared' = NoClient
  /\ query' = [q \in Queries |-> IF query[q] = "starting" /\ client[q] = k THEN "rejected" ELSE query[q]]

Started(k) == "initialize" \notin waiting[k] /\ lsp[k] # "starting"

(* Seeded bug: a document counts as sent once it was edited. *)
OpenedIfNew(k) == opened' = [opened EXCEPT ![k] = IF @ = 0 /\ text = 1 THEN text ELSE @]

PrepareDocument(k) == opened' = [opened EXCEPT ![k] = IF @ = 0 THEN text ELSE @]

(* prepareDocument and the request. On a client whose server is gone both    *)
(* are lost.                                                               *)
Ask(q) ==
  LET k == client[q]
  IN /\ query[q] = "starting" /\ Started(k)
     /\ query' = [query EXCEPT ![q] = "asking"]
     /\ waiting' = [waiting EXCEPT ![k] = @ \cup {q}]
     /\ PrepareDocument(k)
     /\ saw' = [saw EXCEPT ![q].asked = text]
     /\ UNCHANGED <<client, shared, lsp, late, text>>

(* handleMessage: an answer to a request that is no longer pending is        *)
(* ignored.                                                                *)
Answer(q) ==
  LET k == client[q]
  IN /\ k # NoClient
     /\ lsp[k] = "running" /\ q \in waiting[k] \cup late[k]
     /\ IF q \in waiting[k]
        THEN /\ query' = [query EXCEPT ![q] = "answered"]
             /\ saw' = [saw EXCEPT ![q].told = opened[k]]
             /\ waiting' = [waiting EXCEPT ![k] = @ \ {q}]
             /\ UNCHANGED late
        ELSE /\ late' = [late EXCEPT ![k] = @ \ {q}]
             /\ UNCHANGED <<query, saw, waiting>>
     /\ UNCHANGED <<client, shared, lsp, text, opened>>

(* The timer of a request.                                                 *)
TimeOut(q) ==
  LET k == client[q]
  IN /\ k # NoClient
     /\ q \in waiting[k]
     /\ query' = [query EXCEPT ![q] = "rejected"]
     /\ waiting' = [waiting EXCEPT ![k] = @ \ {q}]
     /\ late' = [late EXCEPT ![k] = IF lsp[k] = "running" THEN @ \cup {q} ELSE @]
     /\ UNCHANGED <<client, shared, lsp, text, opened, saw>>

StartTimesOut(k) ==
  /\ lsp[k] \in {"starting", "exited", "gone"} /\ "initialize" \in waiting[k]
  /\ waiting' = [waiting EXCEPT ![k] = @ \ {"initialize"}]
  /\ StartFailed(k)
  /\ lsp' = [lsp EXCEPT ![k] = IF @ = "starting" THEN "running" ELSE @]
  /\ UNCHANGED <<client, late, text, opened, saw>>

Exits(k) ==
  /\ lsp[k] \in {"starting", "running"}
  /\ lsp' = [lsp EXCEPT ![k] = "exited"]
  /\ UNCHANGED <<query, client, shared, waiting, late, text, opened, saw>>

(* failPending, from the exit or error event.                              *)
FailPending(k) ==
  /\ IF "initialize" \in waiting[k]
     THEN StartFailed(k)
     ELSE /\ query' = [q \in Queries |-> IF q \in waiting[k] THEN "rejected" ELSE query[q]]
          /\ UNCHANGED shared
  /\ waiting' = [waiting EXCEPT ![k] = {}]

(* Seeded bug: the timers are cleared and the requests forgotten. *)
ClearPending(k) ==
  /\ waiting' = [waiting EXCEPT ![k] = {}]
  /\ UNCHANGED <<query, shared>>

EndPending(k) == FailPending(k)

ExitEvent(k) ==
  /\ lsp[k] = "exited"
  /\ lsp' = [lsp EXCEPT ![k] = "gone"]
  /\ EndPending(k)
  /\ late' = [late EXCEPT ![k] = {}]
  /\ UNCHANGED <<client, text, opened, saw>>

Edit ==
  /\ text < 1 + MaxEdits
  /\ text' = text + 1
  /\ UNCHANGED <<query, client, shared, lsp, waiting, late, opened, saw>>

Next ==
  \/ \E q \in Queries : LspQuery(q) \/ Ask(q) \/ Answer(q) \/ TimeOut(q)
  \/ \E k \in Clients : Initialized(k) \/ StartTimesOut(k) \/ Exits(k) \/ ExitEvent(k)
  \/ Edit

(* Timers fire, and a query that has its client goes on.                   *)
Timers ==
  \/ \E q \in Queries : Ask(q) \/ TimeOut(q)
  \/ \E k \in Clients : StartTimesOut(k) \/ ExitEvent(k)

Spec == Init /\ [][Next]_vars /\ WF_vars(Timers)

-----------------------------------------------------------------------------
(* The types. *)
TypeOK ==
  /\ query \in [Queries -> {"idle", "starting", "asking", "answered", "rejected"}]
  /\ client \in [Queries -> Clients \cup {NoClient}]
  /\ shared \in Clients \cup {NoClient}
  /\ lsp \in [Clients -> {"none", "starting", "running", "exited", "gone"}]
  /\ \A k \in Clients : waiting[k] \subseteq Queries \cup {"initialize"}
  /\ \A q \in Queries : query[q] = "asking" <=> \E k \in Clients : q \in waiting[k]

(* However many queries come while no server is there, they start one: two   *)
(* run only when the first was too slow to initialize, or is as good as dead.*)
OneServer ==
  \A j, k \in Clients :
    j # k /\ lsp[j] \in {"starting", "running"} /\ lsp[k] \in {"starting", "running"}
      => \E q \in Queries : query[q] = "rejected" /\ client[q] \in {j, k}

(* An answer is about the text that was on disk when the server was first    *)
(* asked about the document, so it is never about a later text than the      *)
(* query's.                                                                *)
NeverAhead ==
  \A q \in Queries : query[q] = "answered" => saw[q].told \in 1..saw[q].asked

(* Every query ends, even if its server is gone: each request has a timer.   *)
EndsOf(q) == query[q] \in {"starting", "asking"} ~> query[q] \in {"answered", "rejected"}
Ends == \A q \in Queries : EndsOf(q)
=============================================================================
