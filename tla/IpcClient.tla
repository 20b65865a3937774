----------------------------- MODULE IpcClient -----------------------------
(***************************************************************************)
(* The client of the daemon's socket (DaemonClient) and the daemon's side   *)
(* of a connection (handleConnection, handleRequest).                      *)
(*                                                                         *)
(* A call connects if there is no socket, writes a request with an id of    *)
(* its own and waits in "pending" for the response with that id. The daemon *)
(* runs one loop for each chunk that arrives, so two loops of one           *)
(* connection may answer out of order. Lines may arrive in two parts: the   *)
(* client keeps the first in its buffer. A connection may end at any time,  *)
(* and the client is told of it later.                                     *)
(***************************************************************************)
EXTENDS Naturals, Sequences

CONSTANTS
  Calls,       \* the requests of the client; a call is its own id
  Subscribe,   \* those that are session.subscribe
  MaxConns     \* bound on the connections

Conns == 1..MaxConns
NoConn == 0
NoLine == "none"

VARIABLES
  call,      \* "idle", "connecting", "pending", "resolved" or "rejected"
  via,       \* the connection a request was written on
  socket,    \* this.socket
  attached,  \* connections whose handlers the client has attached
  link,      \* of a connection: "new", "open", "closed"
  told,      \* closed connections whose close event the client has handled
  buffer,    \* the part of a line the client holds
  crashed,   \* a line that is not JSON threw in the data handler
  up,        \* requests on their way, for each connection
  down,      \* responses on their way
  loops,     \* chunks the daemon is handling: [conn, rest]
  handled,   \* requests the daemon has carried out
  subs,      \* connections with a subscription
  left       \* connections whose close the daemon has handled

client == <<call, via, socket, attached, buffer, crashed, told>>
daemon == <<loops, handled, subs, left>>
vars == <<client, daemon, link, up, down>>

Init ==
  /\ call = [c \in Calls |-> "idle"]
  /\ via = [c \in Calls |-> NoConn]
  /\ socket = NoConn
  /\ attached = {}
  /\ link = [n \in Conns |-> "new"]
  /\ told = {}
  /\ buffer = NoLine
  /\ crashed = FALSE
  /\ up = [n \in Conns |-> <<>>]
  /\ down = [n \in Conns |-> <<>>]
  /\ loops = {}
  /\ handled = {}
  /\ subs = {}
  /\ left = {}

Unused == {n \in Conns : link[n] = "new" /\ \A c \in Calls : via[c] # n}

-----------------------------------------------------------------------------
(* The client.                                                             *)

(* request: with a socket it is written at once; without one the call opens  *)
(* a connection, even while another call is opening one.                    *)
Request(c) ==
  /\ call[c] = "idle" /\ ~crashed
  /\ \/ /\ socket # NoConn
        /\ via' = [via EXCEPT ![c] = socket]
        /\ call' = [call EXCEPT ![c] = "pending"]
        /\ up' = IF link[socket] = "open" THEN [up EXCEPT ![socket] = Append(@, c)] ELSE up
     \/ /\ socket = NoConn /\ Unused # {}
        /\ call' = [call EXCEPT ![c] = "connecting"]
        /\ \E n \in Unused : via' = [via EXCEPT ![c] = n]
        /\ UNCHANGED up
  /\ UNCHANGED <<socket, attached, buffer, crashed, told, daemon, link, down>>

(* Seeded bug: the handlers of a new socket are not attached. *)
ConnectedDeaf(c) ==
  /\ call[c] = "connecting"
  /\ link[via[c]] = "new"
  /\ link' = [link EXCEPT ![via[c]] = "open"]
  /\ socket' = via[c]
  /\ call' = [call EXCEPT ![c] = "pending"]
  /\ up' = [up EXCEPT ![via[c]] = Append(@, c)]
  /\ UNCHANGED <<via, attached, buffer, crashed, told, daemon, down>>

(* The connection is made: it becomes the socket, whichever was it before. *)
Connected(c) ==
  /\ call[c] = "connecting"
  /\ link[via[c]] = "new"
  /\ link' = [link EXCEPT ![via[c]] = "open"]
  /\ socket' = via[c]
  /\ attached' = attached \cup {via[c]}
  /\ call' = [call EXCEPT ![c] = "pending"]
  /\ up' = [up EXCEPT ![via[c]] = Append(@, c)]
  /\ UNCHANGED <<via, buffer, crashed, told, daemon, down>>

ConnectFails(c) ==
  /\ call[c] = "connecting"
  /\ link[via[c]] = "new"
  /\ call' = [call EXCEPT ![c] = "rejected"]
  /\ UNCHANGED <<via, socket, attached, buffer, crashed, told, daemon, link, up, down>>

(* handleResponse settles the call with the id of the response.            *)
Settled(response) ==
  call' = [call EXCEPT ![response] = IF @ = "pending" THEN "resolved" ELSE @]

(* Seeded bug: a response settles whichever call is pending. *)
SettledAny(response) ==
  IF \E c \in Calls : call[c] = "pending"
  THEN \E c \in Calls : call[c] = "pending" /\ call' = [call EXCEPT ![c] = "resolved"]
  ELSE UNCHANGED call

HandleResponse(response) == Settled(response)

(* Seeded bug: the rest of a chunk is thrown away. *)
PartDropped(n) ==
  /\ buffer = NoLine
  /\ down' = [down EXCEPT ![n] = Tail(@)]
  /\ UNCHANGED <<call, buffer, crashed>>

(* A line may come in two chunks. What completes the part of another line   *)
(* than it began is no JSON: the handler throws.                           *)
PartArrives(n) ==
  /\ buffer = NoLine
  /\ buffer' = Head(down[n])
  /\ UNCHANGED <<call, crashed, down>>

(* Seeded bug: the part stays in the buffer when its line is complete. *)
LineKeepsPart(n) ==
  /\ down' = [down EXCEPT ![n] = Tail(@)]
  /\ IF buffer \in {NoLine, Head(down[n])}
     THEN HandleResponse(Head(down[n])) /\ UNCHANGED <<buffer, crashed>>
     ELSE crashed' = TRUE /\ UNCHANGED <<call, buffer>>

LineArrives(n) ==
  /\ down' = [down EXCEPT ![n] = Tail(@)]
  /\ IF buffer \in {NoLine, Head(down[n])}
     THEN HandleResponse(Head(down[n])) /\ buffer' = NoLine /\ UNCHANGED crashed
     ELSE crashed' = TRUE /\ UNCHANGED <<call, buffer>>

Data(n) ==
  /\ n \in attached /\ down[n] # <<>> /\ ~crashed
  /\ n \notin told
  /\ PartArrives(n) \/ LineArrives(n)
  /\ UNCHANGED <<via, socket, attached, told, daemon, link, up>>

(* The close event forgets the socket, even one that was opened since.     *)
CloseEvent(n) ==
  /\ n \in attached /\ link[n] = "closed" /\ n \notin told
  /\ down[n] = <<>>
  /\ told' = told \cup {n}
  /\ socket' = NoConn
  /\ UNCHANGED <<call, via, attached, buffer, crashed, daemon, link, up, down>>

(* An error that is not ignorable comes first and rejects all calls.       *)
ErrorEvent(n) ==
  /\ n \in attached /\ link[n] = "closed" /\ n \notin told
  /\ \E c \in Calls : call[c] = "pending"
  /\ call' = [c \in Calls |-> IF call[c] = "pending" THEN "rejected" ELSE call[c]]
  /\ UNCHANGED <<via, socket, attached, buffer, crashed, told, daemon, link, up, down>>

-----------------------------------------------------------------------------
(* The daemon.                                                             *)

(* A chunk with one or all of the requests that wait starts a loop.        *)
Chunk(n) ==
  /\ link[n] = "open" /\ up[n] # <<>>
  /\ \E k \in {1, Len(up[n])} :
       /\ loops' = loops \cup {[conn |-> n, rest |-> SubSeq(up[n], 1, k)]}
       /\ up' = [up EXCEPT ![n] = SubSeq(@, k + 1, Len(@))]
  /\ UNCHANGED <<client, handled, subs, left, link, down>>

(* The loop carries out its next request and answers it if it still can.   *)
HandleRequest(l) ==
  LET c == Head(l.rest)
      n == l.conn
  IN /\ handled' = handled \cup {c}
     /\ subs' = IF c \in Subscribe THEN subs \cup {n} ELSE subs
     /\ down' = IF link[n] = "open" THEN [down EXCEPT ![n] = Append(@, c)] ELSE down
     /\ loops' = (loops \ {l}) \cup
                   (IF Len(l.rest) > 1 THEN {[l EXCEPT !.rest = Tail(@)]} ELSE {})
     /\ UNCHANGED <<client, left, link, up>>

(* The daemon hears that the connection is closed and drops what is         *)
(* subscribed; a loop that has not ended may subscribe after it.           *)
DaemonHearsClose(n) ==
  /\ link[n] = "closed" /\ n \notin left
  /\ left' = left \cup {n}
  /\ subs' = subs \ {n}
  /\ UNCHANGED <<client, loops, handled, link, up, down>>

(* The connection breaks: requests not read are gone, responses that were   *)
(* sent may still arrive, all or but a part of the first.                  *)
Break(n) ==
  /\ link[n] = "open"
  /\ link' = [link EXCEPT ![n] = "closed"]
  /\ up' = [up EXCEPT ![n] = <<>>]
  /\ \E kept \in {<<>>, down[n]} : down' = [down EXCEPT ![n] = kept]
  /\ UNCHANGED <<client, daemon>>

Next ==
  \/ \E c \in Calls : Request(c) \/ Connected(c) \/ ConnectFails(c)
  \/ \E n \in Conns : Data(n) \/ CloseEvent(n) \/ ErrorEvent(n) \/ Chunk(n)
                      \/ DaemonHearsClose(n) \/ Break(n)
  \/ \E l \in loops : HandleRequest(l)

(* The daemon reads and answers, the connection delivers, and the client's  *)
(* event loop hands over what arrives; nobody has to call or to break.     *)
Serves ==
  \/ \E c \in Calls : Connected(c)
  \/ \E n \in Conns : Data(n) \/ CloseEvent(n) \/ Chunk(n) \/ DaemonHearsClose(n)
  \/ \E l \in loops : HandleRequest(l)

Spec == Init /\ [][Next]_vars /\ WF_vars(Serves)

-----------------------------------------------------------------------------
(* The types. *)
TypeOK ==
  /\ call \in [Calls -> {"idle", "connecting", "pending", "resolved", "rejected"}]
  /\ via \in [Calls -> Conns \cup {NoConn}]
  /\ socket \in Conns \cup {NoConn}
  /\ link \in [Conns -> {"new", "open", "closed"}]
  /\ \A l \in loops : l.rest # <<>>
  /\ attached \cup told \cup subs \cup left \subseteq Conns
  /\ socket # NoConn => socket \in attached

(* A call is resolved by the answer to it, in whatever order the loops of   *)
(* the daemon answer and however the lines are cut.                        *)
IpcOwnAnswer == \A c \in Calls : call[c] = "resolved" => c \in handled

(* The buffer is shared by all the connections of a client: a part that one *)
(* of them left, or that another interleaves with, spoils a line. On the      *)
(* only connection there ever was, however it is cut, each line is read.     *)
ParsesAlone == crashed => \E n, m \in attached : n # m

(* A call on a connection that lasts is settled.                           *)
Settles ==
  \A c \in Calls :
    call[c] = "pending" ~> \/ call[c] \in {"resolved", "rejected"}
                           \/ crashed
                           \/ \E n \in Conns : n = via[c] /\ link[n] = "closed"
=============================================================================
