-------------------------- MODULE MCServices_proofs --------------------------
(***************************************************************************)
(* The theorems of the clients of other processes and services, which a run *)
(* checks together.  A step of this module is a step of one component and   *)
(* leaves the others as they are, so what is inductive for a component is   *)
(* inductive here.                                                         *)
(***************************************************************************)
EXTENDS MCServices, SequenceTheorems, FunctionTheorems, FiniteSetTheorems,
        TLAPS

-----------------------------------------------------------------------------
(* The client of the daemon and its connections.                           *)

IpcTypes ==
  /\ ipcCall \in [IpcCalls -> {"idle", "connecting", "pending", "resolved", "rejected"}]
  /\ via \in [IpcCalls -> Ipc!Conns \cup {Ipc!NoConn}]
  /\ \A c \in IpcCalls : ipcCall[c] = "connecting" => via[c] \in Ipc!Conns
  /\ socket \in Ipc!Conns \cup {Ipc!NoConn}
  /\ attached \subseteq Ipc!Conns
  /\ up \in [Ipc!Conns -> Seq(IpcCalls)]
  /\ down \in [Ipc!Conns -> Seq(IpcCalls)]
  /\ loops \subseteq [conn : Ipc!Conns, rest : Seq(IpcCalls)]
  /\ \A l \in loops : l.rest # <<>>

(* What the daemon has sent answers what it has carried out.                *)
AnswersHandled == \A n \in Ipc!Conns : \A i \in 1..Len(down[n]) : down[n][i] \in handled

Answered == IpcTypes /\ AnswersHandled /\ Ipc!IpcOwnAnswer

-----------------------------------------------------------------------------
(* The first of a sequence that is not empty, and what is left of it.       *)
LEMMA HeadTail ==
  ASSUME NEW S, NEW q \in Seq(S), q # <<>>
  PROVE  /\ Head(q) \in S /\ Head(q) = q[1] /\ 1 \in 1..Len(q)
         /\ Tail(q) \in Seq(S)
         /\ \A i \in 1..Len(Tail(q)) : i + 1 \in 1..Len(q) /\ Tail(q)[i] = q[i + 1]
OBVIOUS

(* What is left of a sequence of more than one.                             *)
LEMMA LongTail ==
  ASSUME NEW S, NEW q \in Seq(S), Len(q) > 1
  PROVE  Tail(q) # <<>>
<1>1. Len(Tail(q)) = Len(q) - 1 /\ Len(q) \in Nat
  BY HeadTailProperties
<1> DEFINE t == Len(Tail(q))
           k == Len(q)
<1>2. t = k - 1 /\ k \in Nat /\ k > 1
  BY <1>1
<1>3. t # 0
  <2> HIDE DEF t, k
  <2> QED BY <1>2
<1>4. Len(<<>>) = 0
  OBVIOUS
<1> QED BY <1>3, <1>4

(* A queue of one connection replaced by another queue.                     *)
LEMMA Replaced ==
  ASSUME NEW D, NEW R, NEW f \in [D -> R], NEW d \in D, NEW v \in R
  PROVE  [f EXCEPT ![d] = v] \in [D -> R]
OBVIOUS

(* A client starts with no request made and nothing handled.                *)
LEMMA InitAnswered == Ipc!Init => Answered
BY DEF Ipc!Init, Answered, IpcTypes, AnswersHandled, Ipc!IpcOwnAnswer

(* What the client does when nothing has arrived.                           *)
LEMMA CallsKeep ==
  ASSUME Answered, NEW c \in IpcCalls, Ipc!Request(c) \/ Ipc!Connected(c) \/ Ipc!ConnectFails(c)
  PROVE  Answered'
<1>1. UNCHANGED <<down, handled, loops>>
  BY DEF Ipc!Request, Ipc!Connected, Ipc!ConnectFails, Ipc!daemon
<1>2. /\ ipcCall' \in [IpcCalls -> {"idle", "connecting", "pending", "resolved", "rejected"}]
      /\ \A b \in IpcCalls : ipcCall'[b] = "resolved" => ipcCall[b] = "resolved"
  BY DEF Answered, IpcTypes, Ipc!Request, Ipc!Connected, Ipc!ConnectFails
<1>3. IpcTypes'
  <2>1. CASE Ipc!Request(c)
    <3>1. CASE socket # Ipc!NoConn
      <4>1. up' \in [Ipc!Conns -> Seq(IpcCalls)]
        <5>1. up \in [Ipc!Conns -> Seq(IpcCalls)] /\ socket \in Ipc!Conns
          BY <3>1 DEF Answered, IpcTypes
        <5>2. Append(up[socket], c) \in Seq(IpcCalls)
          BY <5>1
        <5>3. [up EXCEPT ![socket] = Append(up[socket], c)] \in [Ipc!Conns -> Seq(IpcCalls)]
          BY <5>1, <5>2, Replaced
        <5>4. up' = up \/ up' = [up EXCEPT ![socket] = Append(up[socket], c)]
          BY <2>1, <3>1 DEF Ipc!Request
        <5> QED BY <5>1, <5>3, <5>4
      <4> QED BY <2>1, <3>1, <4>1, <1>1, <1>2 DEF Answered, IpcTypes, Ipc!Request
    <3>2. CASE socket = Ipc!NoConn
      BY <2>1, <3>2, <1>1, <1>2 DEF Answered, IpcTypes, Ipc!Request, Ipc!Unused
    <3> QED BY <3>1, <3>2
  <2>2. CASE Ipc!Connected(c)
    <3>1. via[c] \in Ipc!Conns
      BY <2>2 DEF Answered, IpcTypes, Ipc!Connected
    <3>2. up' \in [Ipc!Conns -> Seq(IpcCalls)]
      BY <2>2, <3>1 DEF Answered, IpcTypes, Ipc!Connected
    <3> QED BY <2>2, <3>1, <3>2, <1>1, <1>2 DEF Answered, IpcTypes, Ipc!Connected
  <2>3. CASE Ipc!ConnectFails(c)
    BY <2>3, <1>1, <1>2 DEF Answered, IpcTypes, Ipc!ConnectFails
  <2> QED BY <2>1, <2>2, <2>3
<1> QED BY <1>1, <1>2, <1>3 DEF Answered, AnswersHandled, Ipc!IpcOwnAnswer

(* A response settles the call it answers, which the daemon has carried out; *)
(* a part that completes another line settles nothing.                     *)
LEMMA DataKeeps ==
  ASSUME Answered, NEW n \in Ipc!Conns, Ipc!Data(n)
  PROVE  Answered'
<1>1. /\ down[n] \in Seq(IpcCalls) /\ down[n] # <<>>
      /\ UNCHANGED <<via, socket, attached, up, loops, handled>>
  BY DEF Answered, IpcTypes, Ipc!Data, Ipc!daemon
<1>2. Head(down[n]) \in IpcCalls /\ Head(down[n]) \in handled
  BY <1>1, HeadTail DEF Answered, AnswersHandled
<1>3. down' = down \/ down' = [down EXCEPT ![n] = Tail(@)]
  BY DEF Ipc!Data, Ipc!PartArrives, Ipc!LineArrives
<1>4. \/ ipcCall' = ipcCall
      \/ ipcCall' = [ipcCall EXCEPT ![Head(down[n])] = IF @ = "pending" THEN "resolved" ELSE @]
  BY DEF Ipc!Data, Ipc!PartArrives, Ipc!LineArrives, Ipc!HandleResponse, Ipc!Settled
<1>5. IpcTypes'
  <2>1. Tail(down[n]) \in Seq(IpcCalls)
    BY <1>1, HeadTail
  <2>2. [down EXCEPT ![n] = Tail(down[n])] \in [Ipc!Conns -> Seq(IpcCalls)]
    BY <2>1, Replaced DEF Answered, IpcTypes
  <2>3. down' \in [Ipc!Conns -> Seq(IpcCalls)]
    BY <2>2, <1>3 DEF Answered, IpcTypes
  <2>4. /\ ipcCall' \in [IpcCalls -> {"idle", "connecting", "pending", "resolved", "rejected"}]
        /\ \A c \in IpcCalls : ipcCall'[c] = "connecting" => ipcCall[c] = "connecting"
    BY <1>2, <1>4 DEF Answered, IpcTypes
  <2> QED BY <1>1, <2>3, <2>4 DEF Answered, IpcTypes
<1>6. AnswersHandled'
  <2> SUFFICES ASSUME NEW m \in Ipc!Conns, NEW i \in 1..Len(down'[m]) PROVE down'[m][i] \in handled
    BY <1>1 DEF AnswersHandled
  <2>1. CASE m = n /\ down' = [down EXCEPT ![n] = Tail(@)]
    <3>1. down'[m] = Tail(down[n])
      BY <2>1 DEF Answered, IpcTypes
    <3>2. i + 1 \in 1..Len(down[n]) /\ down'[m][i] = down[n][i + 1]
      BY <3>1, <1>1, HeadTail
    <3> QED BY <3>2 DEF Answered, AnswersHandled
  <2>2. CASE m # n \/ down' = down
    BY <2>2, <1>3 DEF Answered, IpcTypes, AnswersHandled
  <2> QED BY <2>1, <2>2, <1>3
<1>7. Ipc!IpcOwnAnswer'
  BY <1>1, <1>2, <1>4 DEF Answered, IpcTypes, Ipc!IpcOwnAnswer
<1> QED BY <1>5, <1>6, <1>7 DEF Answered

(* What ends a connection takes answers away and adds none.                 *)
LEMMA EndsKeep ==
  ASSUME Answered, NEW n \in Ipc!Conns,
         Ipc!CloseEvent(n) \/ Ipc!ErrorEvent(n) \/ Ipc!DaemonHearsClose(n) \/ Ipc!Break(n)
  PROVE  Answered'
<1>1. UNCHANGED <<via, attached, loops, handled>> /\ socket' \in {socket, Ipc!NoConn}
  BY DEF Ipc!CloseEvent, Ipc!ErrorEvent, Ipc!DaemonHearsClose, Ipc!Break, Ipc!client, Ipc!daemon
<1>2. /\ ipcCall' \in [IpcCalls -> {"idle", "connecting", "pending", "resolved", "rejected"}]
      /\ \A c \in IpcCalls : ipcCall'[c] = ipcCall[c] \/ ipcCall'[c] = "rejected"
  BY DEF Answered, IpcTypes, Ipc!CloseEvent, Ipc!ErrorEvent, Ipc!DaemonHearsClose, Ipc!Break, Ipc!client
<1>3. /\ up' = up \/ up' = [up EXCEPT ![n] = <<>>]
      /\ down' = down \/ down' = [down EXCEPT ![n] = <<>>]
  BY DEF Answered, IpcTypes, Ipc!CloseEvent, Ipc!ErrorEvent, Ipc!DaemonHearsClose, Ipc!Break
<1>4. IpcTypes'
  <2>1. /\ [up EXCEPT ![n] = <<>>] \in [Ipc!Conns -> Seq(IpcCalls)]
        /\ [down EXCEPT ![n] = <<>>] \in [Ipc!Conns -> Seq(IpcCalls)]
    <3>1. <<>> \in Seq(IpcCalls)
      OBVIOUS
    <3> QED BY <3>1, Replaced DEF Answered, IpcTypes
  <2>2. up' \in [Ipc!Conns -> Seq(IpcCalls)] /\ down' \in [Ipc!Conns -> Seq(IpcCalls)]
    BY <2>1, <1>3 DEF Answered, IpcTypes
  <2>3. \A c \in IpcCalls : ipcCall'[c] = "connecting" => via'[c] \in Ipc!Conns
    BY <1>1, <1>2 DEF Answered, IpcTypes
  <2> QED BY <1>1, <1>2, <2>2, <2>3 DEF Answered, IpcTypes
<1>5. AnswersHandled'
  BY <1>1, <1>3 DEF Answered, IpcTypes, AnswersHandled
<1>6. Ipc!IpcOwnAnswer'
  BY <1>1, <1>2 DEF Answered, Ipc!IpcOwnAnswer
<1> QED BY <1>4, <1>5, <1>6 DEF Answered

(* A part of a line arrives: nothing is answered yet.                       *)
LEMMA ChunkKeeps ==
  ASSUME Answered, NEW n \in Ipc!Conns, Ipc!Chunk(n)
  PROVE  Answered'
<1>1. UNCHANGED <<ipcCall, via, socket, attached, down, handled>>
  BY DEF Ipc!Chunk, Ipc!client
<1>2. PICK k \in {1, Len(up[n])} :
        /\ loops' = loops \cup {[conn |-> n, rest |-> SubSeq(up[n], 1, k)]}
        /\ up' = [up EXCEPT ![n] = SubSeq(@, k + 1, Len(@))]
  BY DEF Ipc!Chunk
<1>3. up[n] \in Seq(IpcCalls) /\ Len(up[n]) \in Nat /\ Len(up[n]) > 0
  BY DEF Answered, IpcTypes, Ipc!Chunk
<1>4. /\ SubSeq(up[n], 1, k) \in Seq(IpcCalls) /\ SubSeq(up[n], 1, k) # <<>>
      /\ SubSeq(up[n], k + 1, Len(up[n])) \in Seq(IpcCalls)
  BY <1>3
<1>5. IpcTypes'
  <2>1. [up EXCEPT ![n] = SubSeq(up[n], k + 1, Len(up[n]))] \in [Ipc!Conns -> Seq(IpcCalls)]
    BY <1>4, Replaced DEF Answered, IpcTypes
  <2>2. up' \in [Ipc!Conns -> Seq(IpcCalls)]
    BY <1>2, <2>1
  <2>3. /\ loops' \subseteq [conn : Ipc!Conns, rest : Seq(IpcCalls)]
        /\ \A l \in loops' : l.rest # <<>>
    <3> DEFINE x == SubSeq(up[n], 1, k)
    <3>1. x \in Seq(IpcCalls) /\ x # <<>> /\ loops' = loops \cup {[conn |-> n, rest |-> x]}
      BY <1>2, <1>4
    <3> HIDE DEF x
    <3> QED BY <3>1 DEF Answered, IpcTypes
  <2> QED BY <1>1, <2>2, <2>3 DEF Answered, IpcTypes
<1> QED BY <1>1, <1>5 DEF Answered, AnswersHandled, Ipc!IpcOwnAnswer

(* The daemon answers what it has carried out by then.                      *)
LEMMA HandleKeeps ==
  ASSUME Answered, NEW l \in loops, Ipc!HandleRequest(l)
  PROVE  Answered'
<1> DEFINE c == Head(l.rest)
           n == l.conn
<1>1. n \in Ipc!Conns /\ l.rest \in Seq(IpcCalls) /\ l.rest # <<>>
  BY DEF Answered, IpcTypes
<1>2. c \in IpcCalls /\ Tail(l.rest) \in Seq(IpcCalls)
  BY <1>1, HeadTail
<1>3. /\ handled' = handled \cup {c}
      /\ down' = down \/ down' = [down EXCEPT ![n] = Append(@, c)]
      /\ UNCHANGED <<ipcCall, via, socket, attached, up>>
  BY DEF Ipc!HandleRequest, Ipc!client
<1>4. /\ loops' \subseteq [conn : Ipc!Conns, rest : Seq(IpcCalls)]
      /\ \A k \in loops' : k.rest # <<>>
  <2>1. CASE Len(l.rest) > 1
    <3>1. Tail(l.rest) # <<>>
      BY <1>1, <2>1, LongTail
    <3>2. loops' = (loops \ {l}) \cup {[l EXCEPT !.rest = Tail(@)]}
      BY <2>1 DEF Ipc!HandleRequest
    <3>3. /\ [l EXCEPT !.rest = Tail(@)] \in [conn : Ipc!Conns, rest : Seq(IpcCalls)]
          /\ [l EXCEPT !.rest = Tail(@)].rest = Tail(l.rest)
      BY <1>2 DEF Answered, IpcTypes
    <3> QED BY <3>1, <3>2, <3>3 DEF Answered, IpcTypes
  <2>2. CASE ~(Len(l.rest) > 1)
    BY <2>2 DEF Answered, IpcTypes, Ipc!HandleRequest
  <2> QED BY <2>1, <2>2
<1>5. down' \in [Ipc!Conns -> Seq(IpcCalls)]
  <2>1. down \in [Ipc!Conns -> Seq(IpcCalls)] /\ down[n] \in Seq(IpcCalls)
    BY <1>1 DEF Answered, IpcTypes
  <2>2. Append(down[n], c) \in Seq(IpcCalls)
    BY <2>1, <1>2
  <2>3. [down EXCEPT ![n] = Append(down[n], c)] \in [Ipc!Conns -> Seq(IpcCalls)]
    BY <2>1, <2>2, <1>1, Replaced
  <2> QED BY <1>3, <2>1, <2>3
<1>6. AnswersHandled'
  <2> SUFFICES ASSUME NEW m \in Ipc!Conns, NEW i \in 1..Len(down'[m]) PROVE down'[m][i] \in handled'
    BY DEF AnswersHandled
  <2>1. CASE m = n /\ down' = [down EXCEPT ![n] = Append(@, c)]
    <3>1. down'[m] = Append(down[n], c) /\ down[n] \in Seq(IpcCalls)
      BY <1>1, <2>1 DEF Answered, IpcTypes
    <3>2. (i \in 1..Len(down[n]) /\ down'[m][i] = down[n][i]) \/ down'[m][i] = c
      BY <3>1
    <3> QED BY <1>1, <1>3, <3>2 DEF Answered, AnswersHandled
  <2>2. CASE m # n \/ down' = down
    BY <2>2, <1>3 DEF Answered, IpcTypes, AnswersHandled
  <2> QED BY <2>1, <2>2, <1>3
<1>7. IpcTypes'
  BY <1>3, <1>4, <1>5 DEF Answered, IpcTypes
<1>8. Ipc!IpcOwnAnswer'
  BY <1>3 DEF Answered, Ipc!IpcOwnAnswer
<1> QED BY <1>6, <1>7, <1>8 DEF Answered

(* No step of client, daemon or connection resolves a request by another    *)
(* one's answer.                                                            *)
LEMMA AnsweredKeeps == Answered /\ [Ipc!Next]_(Ipc!vars) => Answered'
<1> SUFFICES ASSUME Answered, [Ipc!Next]_(Ipc!vars) PROVE Answered'
  OBVIOUS
<1>1. CASE \E c \in IpcCalls : Ipc!Request(c) \/ Ipc!Connected(c) \/ Ipc!ConnectFails(c)
  BY <1>1, CallsKeep
<1>2. CASE \E n \in Ipc!Conns : Ipc!Data(n)
  BY <1>2, DataKeeps
<1>3. CASE \E n \in Ipc!Conns : \/ Ipc!CloseEvent(n) \/ Ipc!ErrorEvent(n)
                                \/ Ipc!DaemonHearsClose(n) \/ Ipc!Break(n)
  BY <1>3, EndsKeep
<1>4. CASE \E n \in Ipc!Conns : Ipc!Chunk(n)
  BY <1>4, ChunkKeeps
<1>5. CASE \E l \in loops : Ipc!HandleRequest(l)
  BY <1>5, HandleKeeps
<1>6. CASE UNCHANGED Ipc!vars
  BY <1>6 DEF Ipc!vars, Ipc!client, Ipc!daemon, Answered, IpcTypes, AnswersHandled, Ipc!IpcOwnAnswer
<1> QED BY <1>1, <1>2, <1>3, <1>4, <1>5, <1>6 DEF Ipc!Next

-----------------------------------------------------------------------------
(* The connections: the handlers are on all that were ever made, and only    *)
(* those carry responses.                                                  *)
Wired ==
  /\ link \in [Ipc!Conns -> {"new", "open", "closed"}]
  /\ \A n \in Ipc!Conns : n \in attached <=> link[n] # "new"
  /\ \A n \in Ipc!Conns : down[n] # <<>> => n \in attached
  /\ socket # 0 => socket \in attached
  /\ told \cup subs \cup left \subseteq Ipc!Conns

TwoConns == \E n, m \in attached : n # m

(* On the only connection the part in the buffer is the beginning of the     *)
(* next line, or of one that the end of the connection cut off.             *)
PartIsNext ==
  \/ TwoConns
  \/ /\ crashed = FALSE
     /\ ipcBuffer # "none" =>
          /\ attached # {}
          /\ \A n \in attached :
               \/ down[n] # <<>> /\ Head(down[n]) = ipcBuffer
               \/ down[n] = <<>> /\ link[n] = "closed"

IpcInv == Answered /\ Wired /\ PartIsNext

(* A client starts without a connection.                                    *)
LEMMA InitIpc == Ipc!Init => IpcInv
<1> SUFFICES ASSUME Ipc!Init PROVE Wired /\ PartIsNext
  BY InitAnswered DEF IpcInv
<1> QED BY DEF Ipc!Init, Wired, PartIsNext, Ipc!NoLine, Ipc!NoConn

(* A connection that is made has the handlers of its own.                   *)
LEMMA CallsKeepWires ==
  ASSUME IpcInv, NEW c \in IpcCalls, Ipc!Request(c) \/ Ipc!Connected(c) \/ Ipc!ConnectFails(c)
  PROVE  Wired' /\ PartIsNext'
<1>1. CASE Ipc!Request(c) \/ Ipc!ConnectFails(c)
  <2>1. UNCHANGED <<link, attached, down, socket, told, subs, left, crashed, ipcBuffer>>
    BY <1>1 DEF Ipc!Request, Ipc!ConnectFails, Ipc!daemon
  <2> QED BY <2>1 DEF IpcInv, Wired, PartIsNext, TwoConns
<1>2. CASE Ipc!Connected(c)
  <2>1. PICK n \in Ipc!Conns : n = via[c]
    BY <1>2 DEF Ipc!Connected, IpcInv, Answered, IpcTypes
  <2>2. /\ link[n] = "new" /\ link' = [link EXCEPT ![n] = "open"] /\ socket' = n
        /\ attached' = attached \cup {n}
        /\ UNCHANGED <<ipcBuffer, crashed, told, subs, left, down>>
    BY <1>2, <2>1 DEF Ipc!Connected, Ipc!daemon
  <2>3. link'[n] = "open" /\ \A m \in Ipc!Conns \ {n} : link'[m] = link[m]
    BY <2>2 DEF IpcInv, Wired
  <2>4. n \notin attached
    BY <2>2 DEF IpcInv, Wired
  <2>5. Wired'
    BY <2>2, <2>3 DEF IpcInv, Wired
  <2>6. PartIsNext'
    <3>1. CASE attached = {}
      <4>1. crashed = FALSE /\ ipcBuffer = "none"
        BY <3>1 DEF IpcInv, PartIsNext, TwoConns
      <4> QED BY <2>2, <4>1 DEF PartIsNext
    <3>2. CASE attached # {}
      <4>1. TwoConns'
        BY <2>2, <2>4, <3>2 DEF TwoConns
      <4> QED BY <4>1 DEF PartIsNext
    <3> QED BY <3>1, <3>2
  <2> QED BY <2>5, <2>6
<1> QED BY <1>1, <1>2

(* What arrives is a part of the next line, or completes the part of it.     *)
LEMMA DataKeepsWires ==
  ASSUME IpcInv, NEW n \in Ipc!Conns, Ipc!Data(n)
  PROVE  Wired' /\ PartIsNext'
<1>1. /\ n \in attached /\ down[n] # <<>> /\ UNCHANGED <<link, socket, attached, told, subs, left>>
      /\ down' = down \/ down' = [down EXCEPT ![n] = Tail(@)]
  BY DEF Ipc!Data, Ipc!PartArrives, Ipc!LineArrives, Ipc!daemon
<1>2. \A m \in Ipc!Conns : down'[m] # <<>> => down[m] # <<>>
  BY <1>1 DEF IpcInv, Answered, IpcTypes
<1>3. Wired'
  BY <1>1, <1>2 DEF IpcInv, Wired
<1>4. ASSUME ~TwoConns PROVE PartIsNext'
  <2>1. \A m \in attached : m = n
    BY <1>1, <1>4 DEF TwoConns
  <2>2. crashed = FALSE /\ (ipcBuffer # "none" => Head(down[n]) = ipcBuffer)
    BY <1>1, <1>4, Zenon DEF IpcInv, PartIsNext
  <2>3. CASE Ipc!PartArrives(n)
    BY <1>1, <2>1, <2>2, <2>3 DEF Ipc!PartArrives, PartIsNext
  <2>4. CASE Ipc!LineArrives(n)
    <3>1. crashed' = FALSE /\ ipcBuffer' = "none"
      BY <2>2, <2>4 DEF Ipc!LineArrives, Ipc!NoLine
    <3> QED BY <3>1 DEF PartIsNext
  <2> QED BY <2>3, <2>4 DEF Ipc!Data
<1>5. PartIsNext'
  BY <1>1, <1>4 DEF PartIsNext, TwoConns
<1> QED BY <1>3, <1>5

(* A connection that ends keeps what was sent, or cuts it off.              *)
LEMMA EndsKeepWires ==
  ASSUME IpcInv, NEW n \in Ipc!Conns,
         Ipc!CloseEvent(n) \/ Ipc!ErrorEvent(n) \/ Ipc!DaemonHearsClose(n) \/ Ipc!Break(n)
  PROVE  Wired' /\ PartIsNext'
<1>1. CASE Ipc!CloseEvent(n) \/ Ipc!ErrorEvent(n) \/ Ipc!DaemonHearsClose(n)
  <2>1. /\ UNCHANGED <<link, attached, down, crashed, ipcBuffer>>
        /\ socket' \in {socket, 0} /\ (told \cup subs \cup left)' \subseteq Ipc!Conns
    BY <1>1 DEF Ipc!CloseEvent, Ipc!ErrorEvent, Ipc!DaemonHearsClose, Ipc!client, Ipc!daemon, Ipc!NoConn,
       IpcInv, Wired
  <2> QED BY <2>1 DEF IpcInv, Wired, PartIsNext, TwoConns
<1>2. CASE Ipc!Break(n)
  <2>1. /\ link[n] = "open" /\ link' = [link EXCEPT ![n] = "closed"]
        /\ UNCHANGED <<attached, socket, told, subs, left, crashed, ipcBuffer>>
    BY <1>2 DEF Ipc!Break, Ipc!client, Ipc!daemon
  <2>2. /\ link'[n] = "closed" /\ \A m \in Ipc!Conns \ {n} : link'[m] = link[m] /\ down'[m] = down[m]
        /\ down'[n] = <<>> \/ down'[n] = down[n]
    BY <1>2, <2>1 DEF Ipc!Break, IpcInv, Wired, Answered, IpcTypes
  <2>3. \A m \in Ipc!Conns : down'[m] # <<>> => down[m] # <<>>
    BY <2>2
  <2>4. Wired'
    <3>1. link' \in [Ipc!Conns -> {"new", "open", "closed"}]
      BY <2>1 DEF IpcInv, Wired
    <3>2. \A m \in Ipc!Conns : link'[m] # "new" <=> link[m] # "new"
      BY <2>1, <2>2
    <3> QED BY <2>1, <2>3, <3>1, <3>2 DEF IpcInv, Wired
  <2>5. ASSUME ~TwoConns PROVE PartIsNext'
    <3>1. /\ crashed = FALSE
          /\ ipcBuffer # "none" => /\ attached # {}
                                   /\ \A m \in attached : \/ down[m] # <<>> /\ Head(down[m]) = ipcBuffer
                                                          \/ down[m] = <<>> /\ link[m] = "closed"
      BY <2>5, Zenon DEF IpcInv, PartIsNext
    <3>2. \A m \in attached : m \in Ipc!Conns
      BY DEF IpcInv, Answered, IpcTypes
    <3>3. ASSUME ipcBuffer # "none", NEW m \in attached
          PROVE  \/ down'[m] # <<>> /\ Head(down'[m]) = ipcBuffer
                 \/ down'[m] = <<>> /\ link'[m] = "closed"
      <4>1. CASE down'[m] = down[m]
        BY <2>1, <2>2, <3>1, <3>2, <3>3, <4>1
      <4>2. CASE down'[m] # down[m]
        BY <2>2, <3>2, <4>2
      <4> QED BY <4>1, <4>2
    <3> QED BY <2>1, <3>1, <3>3 DEF PartIsNext
  <2>6. PartIsNext'
    BY <2>1, <2>5 DEF PartIsNext, TwoConns
  <2> QED BY <2>4, <2>6
<1> QED BY <1>1, <1>2

(* A part of a line leaves every connection as it is.                       *)
LEMMA ChunkKeepsWires ==
  ASSUME IpcInv, NEW n \in Ipc!Conns, Ipc!Chunk(n)
  PROVE  Wired' /\ PartIsNext'
<1>1. UNCHANGED <<link, attached, down, socket, told, subs, left, crashed, ipcBuffer>>
  BY DEF Ipc!Chunk, Ipc!client
<1> QED BY <1>1 DEF IpcInv, Wired, PartIsNext, TwoConns

(* A response goes behind what was sent before, on a connection that is open. *)
LEMMA HandleKeepsWires ==
  ASSUME IpcInv, NEW l \in loops, Ipc!HandleRequest(l)
  PROVE  Wired' /\ PartIsNext'
<1> DEFINE c == Head(l.rest)
           n == l.conn
<1>1. /\ n \in Ipc!Conns /\ UNCHANGED <<link, attached, socket, told, left, crashed, ipcBuffer>>
      /\ subs' \subseteq subs \cup {n}
      /\ down' = down \/ (link[n] = "open" /\ down' = [down EXCEPT ![n] = Append(@, c)])
  BY DEF Ipc!HandleRequest, Ipc!client, IpcInv, Answered, IpcTypes
<1>2. c \in IpcCalls
  BY HeadTail DEF IpcInv, Answered, IpcTypes
<1>3. CASE down' = down
  BY <1>1, <1>3 DEF IpcInv, Wired, PartIsNext, TwoConns
<1>4. CASE link[n] = "open" /\ down' = [down EXCEPT ![n] = Append(@, c)]
  <2>1. /\ down[n] \in Seq(IpcCalls) /\ down'[n] = Append(down[n], c)
        /\ \A m \in Ipc!Conns \ {n} : down'[m] = down[m]
    BY <1>1, <1>4 DEF IpcInv, Answered, IpcTypes
  <2>2. down[n] # <<>> => down'[n] # <<>> /\ Head(down'[n]) = Head(down[n])
    BY <1>2, <2>1
  <2>3. n \in attached
    BY <1>1, <1>4 DEF IpcInv, Wired
  <2>4. Wired'
    BY <1>1, <2>1, <2>3 DEF IpcInv, Wired
  <2>5. ASSUME ~TwoConns PROVE PartIsNext'
    <3>1. \A m \in attached : m = n
      BY <2>3, <2>5 DEF TwoConns
    <3>2. crashed = FALSE /\ (ipcBuffer # "none" => down[n] # <<>> /\ Head(down[n]) = ipcBuffer)
      BY <1>4, <2>3, <2>5 DEF IpcInv, PartIsNext
    <3> QED BY <1>1, <2>2, <2>3, <3>1, <3>2 DEF PartIsNext
  <2>6. PartIsNext'
    BY <1>1, <2>5 DEF PartIsNext, TwoConns
  <2> QED BY <2>4, <2>6
<1> QED BY <1>1, <1>3, <1>4

(* No step of client, daemon or connection breaks the invariant.            *)
LEMMA IpcKeeps == IpcInv /\ [Ipc!Next]_(Ipc!vars) => IpcInv'
<1> SUFFICES ASSUME IpcInv, [Ipc!Next]_(Ipc!vars) PROVE Wired' /\ PartIsNext'
  BY AnsweredKeeps DEF IpcInv
<1>1. CASE UNCHANGED Ipc!vars
  <2>1. UNCHANGED <<link, attached, down, socket, told, subs, left, crashed, ipcBuffer>>
    BY <1>1 DEF Ipc!vars, Ipc!client, Ipc!daemon
  <2> QED BY <2>1 DEF IpcInv, Wired, PartIsNext, TwoConns
<1>2. CASE Ipc!Next
  BY <1>2, CallsKeepWires, DataKeepsWires, EndsKeepWires, ChunkKeepsWires, HandleKeepsWires DEF Ipc!Next
<1> QED BY <1>1, <1>2

(* A step is one of the client of the daemon or leaves it as it is.         *)
LEMMA IpcSteps == [Next]_vars => [Ipc!Next]_(Ipc!vars)
<1> SUFFICES ASSUME [Next]_vars PROVE Ipc!Next \/ UNCHANGED ipcVars
  BY DEF ipcVars, Ipc!vars, Ipc!client, Ipc!daemon
<1>1. CASE UNCHANGED vars
  BY <1>1, Zenon DEF vars
<1>2. CASE Only("ipc") /\ Ipc!Next
  BY <1>2
<1>3. CASE \E p \in {"mcp", "lsp", "grok", "stream", "files", "voice"} : Only(p)
  BY <1>3 DEF Only
<1> QED BY <1>1, <1>2, <1>3, Zenon DEF Next

(* A call of the client is resolved by the answer to it, and on the only      *)
(* connection a client ever had each line is read (DaemonClient.handleResponse, *)
(* decodeLines, handleRequest).                                            *)
THEOREM IpcHolds == Spec => []IpcInv
<1>1. Init => IpcInv
  BY InitIpc DEF Init
<1> QED BY <1>1, IpcKeeps, IpcSteps, PTL DEF Spec

(* The invariant holds what the run checks of the client of the daemon.     *)
LEMMA IpcMeans == IpcInv => Ipc!TypeOK /\ Ipc!IpcOwnAnswer /\ Ipc!ParsesAlone
<1> SUFFICES ASSUME IpcInv PROVE Ipc!TypeOK /\ Ipc!ParsesAlone
  BY DEF IpcInv, Answered
<1>1. Ipc!TypeOK
  BY DEF IpcInv, Answered, IpcTypes, Wired, Ipc!TypeOK, Ipc!NoConn
<1>2. Ipc!ParsesAlone
  BY DEF IpcInv, PartIsNext, TwoConns, Ipc!ParsesAlone
<1> QED BY <1>1, <1>2

-----------------------------------------------------------------------------
(* The MCP clients.                                                        *)

(* A step is one of the MCP clients or leaves them as they are.             *)
LEMMA McpSteps == [Next]_vars => [Mcp!Next]_(Mcp!vars)
<1> SUFFICES ASSUME [Next]_vars PROVE Mcp!Next \/ UNCHANGED mcpVars
  BY DEF mcpVars, Mcp!vars
<1>1. CASE UNCHANGED vars
  BY <1>1, Zenon DEF vars
<1>2. CASE Only("mcp") /\ Mcp!Next
  BY <1>2
<1>3. CASE \E p \in {"ipc", "lsp", "grok", "stream", "files", "voice"} : Only(p)
  BY <1>3 DEF Only
<1> QED BY <1>1, <1>2, <1>3, Zenon DEF Next

-----------------------------------------------------------------------------
(* The MCP server.                                                         *)

TurnStates == {"idle", "initializing", "asking", "done", "failed"}

McpTypes ==
  /\ mcp \in [McpTurns -> TurnStates]
  /\ uses \in [McpTurns -> Mcp!Clients \cup {0}]
  /\ cached \in Mcp!Clients \cup {0}
  /\ config \in Nat \ {0}
  /\ made \in [Mcp!Clients -> [kind : {"none", "stdio", "sse"}, config : Nat]]
  /\ server \in [Mcp!Clients -> {"none", "running", "exited", "gone", "aborted"}]
  /\ pending \in [Mcp!Clients -> SUBSET McpTurns]

(* A turn's request is pending at the client it uses, and a client is made   *)
(* when its server is.                                                     *)
Pends ==
  /\ \A t \in McpTurns, k \in Mcp!Clients :
       t \in pending[k] => mcp[t] \in {"initializing", "asking"} /\ uses[t] = k
  /\ \A t \in McpTurns : mcp[t] = "initializing" => uses[t] \in Mcp!Clients
  /\ \A k \in Mcp!Clients : server[k] = "none" <=> made[k] = Mcp!NotMade
  /\ cached # 0 => server[cached] # "none"

(* As long as nothing overlaps, one turn at most initializes, no client is   *)
(* in the map by then, and it is made from the configuration in force.      *)
Alone ==
  overlap \/ /\ \A t \in McpTurns : mcp[t] = "initializing" => cached = 0 /\ made[uses[t]].config = config
             /\ \A t, u \in McpTurns : mcp[t] = "initializing" /\ mcp[u] = "initializing" => t = u
             /\ cached # 0 => made[cached].config = config
             /\ \A k \in Mcp!Clients : server[k] = "running" =>
                  k = cached \/ \E t \in McpTurns : uses[t] = k /\ mcp[t] \in {"initializing", "failed"}

McpInv == McpTypes /\ Pends /\ Alone

(* No client has the number that stands for none.                           *)
LEMMA NoMcpClient == 0 \notin Mcp!Clients /\ Mcp!Clients \subseteq Nat
BY ClientAssumption DEF Mcp!Clients

(* The daemon starts without an MCP client.                                 *)
LEMMA InitMcp == Mcp!Init => McpInv
BY ClientAssumption DEF Mcp!Init, McpInv, McpTypes, Pends, Alone, Mcp!NoClient, Mcp!Clients, Mcp!NotMade,
   TurnStates

(* A request is pending, or was refused at once.                           *)
LEMMA AskAt ==
  ASSUME McpTypes, Pends, NEW t \in McpTurns, mcp[t] = "idle", NEW k \in Mcp!Clients,
         NEW s \in {"initializing", "asking"}, Mcp!Ask(t, k, s)
  PROVE  /\ mcp' \in [McpTurns -> TurnStates] /\ mcp'[t] \in {s, "failed"}
         /\ \A u \in McpTurns \ {t} : mcp'[u] = mcp[u] /\ uses'[u] = uses[u]
         /\ uses' \in [McpTurns -> Mcp!Clients \cup {0}] /\ uses'[t] = k
         /\ pending' \in [Mcp!Clients -> SUBSET McpTurns]
         /\ \A u \in McpTurns, j \in Mcp!Clients :
              u \in pending'[j] => mcp'[u] \in {"initializing", "asking"} /\ uses'[u] = j
<1>1. uses' = [uses EXCEPT ![t] = k] /\ \A j \in Mcp!Clients : t \notin pending[j]
  BY DEF Mcp!Ask, Pends
<1>2. CASE mcp' = [mcp EXCEPT ![t] = s] /\ pending' = [pending EXCEPT ![k] = @ \cup {t}]
  BY <1>1, <1>2 DEF McpTypes, Pends, TurnStates
<1>3. CASE mcp' = [mcp EXCEPT ![t] = "failed"] /\ UNCHANGED pending
  BY <1>1, <1>3 DEF McpTypes, Pends, TurnStates
<1> QED BY <1>2, <1>3 DEF Mcp!Ask, Mcp!PostRejected

(* A turn asks by the client that is cached.                                *)
LEMMA UseCachedKeeps ==
  ASSUME McpInv, NEW t \in McpTurns, Mcp!UseCached(t)
  PROVE  McpInv'
<1>1. /\ UNCHANGED <<cached, config, made, server, overlap>> /\ mcp[t] = "idle"
      /\ cached # 0 /\ cached \in Mcp!Clients /\ Mcp!Ask(t, cached, "asking")
  BY DEF Mcp!UseCached, Mcp!NoClient, McpInv, McpTypes
<1>2. /\ mcp' \in [McpTurns -> TurnStates] /\ mcp'[t] \in {"asking", "failed"}
      /\ \A u \in McpTurns \ {t} : mcp'[u] = mcp[u] /\ uses'[u] = uses[u]
      /\ uses' \in [McpTurns -> Mcp!Clients \cup {0}]
      /\ pending' \in [Mcp!Clients -> SUBSET McpTurns]
      /\ \A u \in McpTurns, j \in Mcp!Clients :
           u \in pending'[j] => mcp'[u] \in {"initializing", "asking"} /\ uses'[u] = j
  <2>1. \A k \in Mcp!Clients : Mcp!Ask(t, k, "asking") =>
          /\ mcp' \in [McpTurns -> TurnStates] /\ mcp'[t] \in {"asking", "failed"}
          /\ \A u \in McpTurns \ {t} : mcp'[u] = mcp[u] /\ uses'[u] = uses[u]
          /\ uses' \in [McpTurns -> Mcp!Clients \cup {0}]
          /\ pending' \in [Mcp!Clients -> SUBSET McpTurns]
          /\ \A u \in McpTurns, j \in Mcp!Clients :
               u \in pending'[j] => mcp'[u] \in {"initializing", "asking"} /\ uses'[u] = j
    BY <1>1, AskAt DEF McpInv
  <2> QED BY <1>1, <2>1
<1>3. McpTypes'
  BY <1>1, <1>2 DEF McpInv, McpTypes
<1>4. Pends'
  BY <1>1, <1>2 DEF McpInv, Pends
<1>5. Alone'
  BY <1>1, <1>2 DEF McpInv, Alone
<1> QED BY <1>3, <1>4, <1>5 DEF McpInv

(* A client that is made while another turn initializes, or without one.    *)
LEMMA MakeClientKeeps ==
  ASSUME McpInv, NEW t \in McpTurns, Mcp!MakeClient(t)
  PROVE  McpInv'
<1>1. PICK k \in Mcp!Clients :
        /\ made[k] = Mcp!NotMade /\ mcp[t] = "idle" /\ cached = 0
        /\ overlap' = (overlap \/ Mcp!Initializing # {}) /\ UNCHANGED <<cached, config>>
        /\ Mcp!SpawnServer(t, k) \/ Mcp!StartStream(t, k)
  BY DEF Mcp!MakeClient, Mcp!Unmade, Mcp!NoClient
<1>2. PICK n \in {"stdio", "sse"} : made' = [made EXCEPT ![k] = [kind |-> n, config |-> config]]
  BY <1>1 DEF Mcp!SpawnServer, Mcp!StartStream
<1>3. /\ made' \in [Mcp!Clients -> [kind : {"none", "stdio", "sse"}, config : Nat]]
      /\ made'[k] # Mcp!NotMade /\ made'[k].config = config
      /\ \A j \in Mcp!Clients \ {k} : made'[j] = made[j]
  <2>1. [kind |-> n, config |-> config] \in [kind : {"none", "stdio", "sse"}, config : Nat]
    BY <1>2 DEF McpInv, McpTypes
  <2>2. [kind |-> n, config |-> config] # Mcp!NotMade
    BY <1>2 DEF Mcp!NotMade
  <2> QED BY <1>2, <2>1, <2>2 DEF McpInv, McpTypes
<1>4. \A j \in Mcp!Clients : t \notin pending[j]
  BY <1>1 DEF McpInv, Pends
<1>5. CASE server' = [server EXCEPT ![k] = "running"] /\ Mcp!Ask(t, k, "initializing")
  <2>1. server'[k] = "running" /\ \A j \in Mcp!Clients \ {k} : server'[j] = server[j]
    BY <1>5 DEF McpInv, McpTypes
  <2>2. /\ mcp' \in [McpTurns -> TurnStates] /\ mcp'[t] \in {"initializing", "failed"}
        /\ \A u \in McpTurns \ {t} : mcp'[u] = mcp[u] /\ uses'[u] = uses[u]
        /\ uses' \in [McpTurns -> Mcp!Clients \cup {0}] /\ uses'[t] = k
        /\ pending' \in [Mcp!Clients -> SUBSET McpTurns]
        /\ \A u \in McpTurns, j \in Mcp!Clients :
             u \in pending'[j] => mcp'[u] \in {"initializing", "asking"} /\ uses'[u] = j
    BY <1>1, <1>5, AskAt DEF McpInv
  <2>3. McpTypes'
    BY <1>1, <1>3, <1>5, <2>2 DEF McpInv, McpTypes
  <2>4. Pends'
    <3>1. \A j \in Mcp!Clients : server'[j] = "none" <=> made'[j] = Mcp!NotMade
      BY <1>3, <2>1 DEF McpInv, Pends
    <3>2. \A u \in McpTurns : mcp'[u] = "initializing" => uses'[u] \in Mcp!Clients
      BY <2>2 DEF McpInv, Pends
    <3> QED BY <1>1, <2>2, <3>1, <3>2 DEF Pends
  <2>5. ASSUME ~overlap' PROVE Alone'
    <3>1. ~overlap /\ \A u \in McpTurns : mcp[u] # "initializing"
      BY <1>1, <2>5 DEF Mcp!Initializing
    <3>2. \A u \in McpTurns : mcp'[u] = "initializing" => u = t
      BY <2>2, <3>1
    <3>3. ASSUME NEW j \in Mcp!Clients, server'[j] = "running"
          PROVE  \E u \in McpTurns : uses'[u] = j /\ mcp'[u] \in {"initializing", "failed"}
      <4>1. CASE j = k
        BY <2>2, <4>1
      <4>2. CASE j # k
        <5>1. PICK u \in McpTurns : uses[u] = j /\ mcp[u] \in {"initializing", "failed"}
          BY <1>1, <2>1, <3>1, <3>3, <4>2, NoMcpClient DEF McpInv, Alone
        <5>2. u # t
          BY <1>1, <5>1
        <5> QED BY <2>2, <5>1, <5>2
      <4> QED BY <4>1, <4>2
    <3> QED BY <1>1, <1>3, <2>2, <3>2, <3>3 DEF Alone
  <2>6. Alone'
    BY <2>5 DEF Alone
  <2> QED BY <2>3, <2>4, <2>6 DEF McpInv
<1>6. CASE /\ server' = [server EXCEPT ![k] = "gone"] /\ mcp' = [mcp EXCEPT ![t] = "failed"]
           /\ UNCHANGED <<uses, pending>>
  <2>1. /\ server'[k] = "gone" /\ \A j \in Mcp!Clients \ {k} : server'[j] = server[j]
        /\ mcp'[t] = "failed" /\ \A u \in McpTurns \ {t} : mcp'[u] = mcp[u]
    BY <1>6 DEF McpInv, McpTypes
  <2>2. McpTypes'
    BY <1>1, <1>3, <1>6 DEF McpInv, McpTypes, TurnStates
  <2>3. Pends'
    BY <1>1, <1>3, <1>4, <1>6, <2>1 DEF McpInv, Pends
  <2>4. ASSUME ~overlap' PROVE Alone'
    <3>1. ~overlap /\ \A u \in McpTurns : mcp[u] # "initializing"
      BY <1>1, <2>4 DEF Mcp!Initializing
    <3>2. \A u \in McpTurns : mcp'[u] # "initializing"
      BY <2>1, <3>1
    <3>3. ASSUME NEW j \in Mcp!Clients, server'[j] = "running"
          PROVE  \E u \in McpTurns : uses'[u] = j /\ mcp'[u] \in {"initializing", "failed"}
      <4>1. PICK u \in McpTurns : uses[u] = j /\ mcp[u] \in {"initializing", "failed"}
        BY <1>1, <2>1, <3>1, <3>3, NoMcpClient DEF McpInv, Alone
      <4> QED BY <1>6, <2>1, <4>1
    <3> QED BY <1>1, <3>2, <3>3 DEF Alone
  <2>5. Alone'
    BY <2>4 DEF Alone
  <2> QED BY <2>2, <2>3, <2>5 DEF McpInv
<1> QED BY <1>1, <1>5, <1>6 DEF Mcp!SpawnServer, Mcp!StartStream

(* The client of the turn that initialized is stored.                       *)
LEMMA McpInitializedKeeps ==
  ASSUME McpInv, NEW t \in McpTurns, Mcp!Initialized(t)
  PROVE  McpInv'
<1> DEFINE k == uses[t]
<1>1. /\ mcp[t] = "initializing" /\ k \in Mcp!Clients /\ server[k] \in {"running", "exited"}
      /\ cached' = k /\ UNCHANGED <<config, made, server, overlap, uses>>
  BY DEF Mcp!Initialized, Mcp!Stored, McpInv, Pends
<1>2. PICK s \in {"asking", "failed"} :
        /\ mcp' = [mcp EXCEPT ![t] = s]
        /\ \/ s = "asking" /\ pending' = pending
           \/ s = "failed" /\ pending' = [pending EXCEPT ![k] = @ \ {t}]
  BY DEF Mcp!Initialized
<1>3. /\ mcp'[t] = s /\ \A u \in McpTurns \ {t} : mcp'[u] = mcp[u]
      /\ pending' \in [Mcp!Clients -> SUBSET McpTurns]
      /\ \A j \in Mcp!Clients : pending'[j] \subseteq pending[j]
      /\ s = "failed" => t \notin pending'[k]
  BY <1>1, <1>2 DEF McpInv, McpTypes
<1>4. McpTypes'
  BY <1>1, <1>2, <1>3 DEF McpInv, McpTypes, TurnStates
<1>5. Pends'
  BY <1>1, <1>3 DEF McpInv, Pends
<1>6. ASSUME ~overlap PROVE Alone'
  <2>1. cached = 0 /\ made[k].config = config /\ \A u \in McpTurns : mcp[u] = "initializing" => u = t
    BY <1>1, <1>6 DEF McpInv, Alone
  <2>2. \A u \in McpTurns : mcp'[u] # "initializing"
    BY <1>3, <2>1
  <2>3. ASSUME NEW j \in Mcp!Clients, server'[j] = "running", j # k
        PROVE  \E u \in McpTurns : uses'[u] = j /\ mcp'[u] \in {"initializing", "failed"}
    <3>1. PICK u \in McpTurns : uses[u] = j /\ mcp[u] \in {"initializing", "failed"}
      BY <1>1, <1>6, <2>1, <2>3, NoMcpClient DEF McpInv, Alone
    <3> QED BY <1>1, <1>3, <2>3, <3>1
  <2> QED BY <1>1, <2>1, <2>2, <2>3 DEF Alone
<1>7. Alone'
  BY <1>1, <1>6 DEF Alone
<1> QED BY <1>4, <1>5, <1>7 DEF McpInv

(* A turn takes the answer it waited for.                                   *)
LEMMA ResolveMessageKeeps ==
  ASSUME McpInv, NEW t \in McpTurns, Mcp!ResolveMessage(t)
  PROVE  McpInv'
<1> DEFINE k == uses[t]
<1>1. /\ UNCHANGED <<uses, cached, config, made, server, overlap>>
      /\ mcp[t] \in {"asking", "initializing"} /\ pending' = [pending EXCEPT ![k] = @ \ {t}]
  BY DEF Mcp!ResolveMessage
<1>2. PICK s \in {"done", "failed"} :
        mcp' = [mcp EXCEPT ![t] = s] /\ (mcp[t] = "initializing" => s = "failed")
  BY DEF Mcp!ResolveMessage, Mcp!CommandAnswered, Mcp!InvokeAnswered, Mcp!ListMcpTools
<1>3. /\ mcp'[t] = s /\ \A u \in McpTurns \ {t} : mcp'[u] = mcp[u]
      /\ pending' \in [Mcp!Clients -> SUBSET McpTurns]
      /\ \A j \in Mcp!Clients : pending'[j] \subseteq pending[j] /\ (j = k => t \notin pending'[j])
  BY <1>1, <1>2 DEF McpInv, McpTypes
<1>4. McpTypes'
  BY <1>1, <1>2, <1>3 DEF McpInv, McpTypes, TurnStates
<1>5. Pends'
  BY <1>1, <1>3 DEF McpInv, Pends
<1>6. Alone'
  BY <1>1, <1>2, <1>3 DEF McpInv, Alone
<1> QED BY <1>4, <1>5, <1>6 DEF McpInv

(* A server that ends, with the requests pending at it rejected or not.      *)
LEMMA ServerEndsKeeps ==
  ASSUME McpInv, NEW k \in Mcp!Clients, server[k] # "none",
         NEW s \in {"running", "exited", "gone", "aborted"}, s = "running" => server[k] = "running",
         server' = [server EXCEPT ![k] = s],
         Mcp!RejectAll(k) \/ UNCHANGED <<mcp, pending>>,
         UNCHANGED <<uses, cached, config, made, overlap>>
  PROVE  McpInv'
<1>1. server'[k] = s /\ \A j \in Mcp!Clients \ {k} : server'[j] = server[j]
  BY DEF McpInv, McpTypes
<1>2. /\ mcp' \in [McpTurns -> TurnStates] /\ pending' \in [Mcp!Clients -> SUBSET McpTurns]
      /\ \A u \in McpTurns : mcp'[u] = mcp[u] \/ mcp'[u] = "failed"
      /\ \A u \in McpTurns, j \in Mcp!Clients : u \in pending'[j] => u \in pending[j] /\ mcp'[u] = mcp[u]
  <2>1. CASE Mcp!RejectAll(k)
    <3>1. /\ mcp' \in [McpTurns -> TurnStates] /\ pending' \in [Mcp!Clients -> SUBSET McpTurns]
          /\ \A u \in McpTurns : mcp'[u] = IF u \in pending[k] THEN "failed" ELSE mcp[u]
          /\ pending'[k] = {} /\ \A j \in Mcp!Clients \ {k} : pending'[j] = pending[j]
      BY <2>1 DEF Mcp!RejectAll, McpInv, McpTypes, TurnStates
    <3>2. \A u \in McpTurns, j \in Mcp!Clients : u \in pending[j] /\ u \in pending[k] => j = k
      BY DEF McpInv, Pends
    <3> QED BY <3>1, <3>2
  <2>2. CASE UNCHANGED <<mcp, pending>>
    BY <2>2 DEF McpInv, McpTypes
  <2> QED BY <2>1, <2>2
<1>3. McpTypes'
  BY <1>2 DEF McpInv, McpTypes
<1>4. Pends'
  BY <1>1, <1>2 DEF McpInv, Pends
<1>5. Alone'
  BY <1>1, <1>2 DEF McpInv, Alone
<1> QED BY <1>3, <1>4, <1>5 DEF McpInv

(* A server ends, its client hears of it, or it writes what is no answer.   *)
LEMMA McpEndsKeep ==
  ASSUME McpInv, NEW k \in Mcp!Clients, Mcp!ServerExits(k) \/ Mcp!ExitEvent(k) \/ Mcp!Noise(k)
  PROVE  McpInv'
<1>1. CASE Mcp!ServerExits(k)
  BY <1>1, ServerEndsKeeps DEF Mcp!ServerExits
<1>2. CASE Mcp!ExitEvent(k)
  BY <1>2, ServerEndsKeeps DEF Mcp!ExitEvent, Mcp!EndOfRequests
<1>3. CASE Mcp!Noise(k)
  <2>1. server[k] = "running" /\ UNCHANGED <<uses, cached, config, made, overlap>>
    BY <1>3 DEF Mcp!Noise
  <2>2. CASE UNCHANGED <<mcp, pending, server>>
    <3>1. server' = [server EXCEPT ![k] = "running"]
      BY <2>1, <2>2 DEF McpInv, McpTypes
    <3> QED BY <2>1, <2>2, <3>1, ServerEndsKeeps
  <2>3. CASE Mcp!RejectAll(k) /\ server' = [server EXCEPT ![k] = "gone"]
    BY <2>1, <2>3, ServerEndsKeeps
  <2> QED BY <1>3, <2>2, <2>3 DEF Mcp!Noise, Mcp!StreamEnds, Mcp!EndOfRequests
<1> QED BY <1>1, <1>2, <1>3

(* The client in the map is closed and the map emptied.                     *)
LEMMA ResetKeeps ==
  ASSUME McpInv, Mcp!ResetMcpClient
  PROVE  McpInv'
<1>1. /\ config' = config + 1 /\ overlap' = (overlap \/ Mcp!Initializing # {}) /\ cached' = 0
      /\ UNCHANGED <<uses, made>> /\ config' \in Nat \ {0}
  BY DEF Mcp!ResetMcpClient, Mcp!Deleted, Mcp!NoClient, McpInv, McpTypes
<1>2. ASSUME ~overlap' PROVE ~overlap /\ \A u \in McpTurns : mcp[u] # "initializing"
  BY <1>1, <1>2 DEF Mcp!Initializing
<1>3. CASE cached = 0 /\ UNCHANGED <<mcp, pending, server>>
  <2>1. McpTypes' /\ Pends'
    BY <1>1, <1>3 DEF McpInv, McpTypes, Pends
  <2>2. Alone'
    BY <1>1, <1>2, <1>3, NoMcpClient DEF McpInv, Alone
  <2> QED BY <2>1, <2>2 DEF McpInv
<1>4. CASE cached # 0 /\ Mcp!RejectAll(cached) /\ Mcp!CloseServer(cached)
  <2>1. PICK k \in Mcp!Clients : k = cached
    BY <1>4 DEF McpInv, McpTypes
  <2>2. /\ server' \in [Mcp!Clients -> {"none", "running", "exited", "gone", "aborted"}]
        /\ server'[k] \notin {"none", "running"} /\ \A j \in Mcp!Clients \ {k} : server'[j] = server[j]
    <3>1. server[k] # "none"
      BY <1>4, <2>1 DEF McpInv, Pends
    <3> QED BY <1>4, <2>1, <3>1 DEF Mcp!CloseServer, Mcp!Closed, McpInv, McpTypes
  <2>3. /\ mcp' \in [McpTurns -> TurnStates] /\ pending' \in [Mcp!Clients -> SUBSET McpTurns]
        /\ \A u \in McpTurns : mcp'[u] = IF u \in pending[k] THEN "failed" ELSE mcp[u]
        /\ pending'[k] = {} /\ \A j \in Mcp!Clients \ {k} : pending'[j] = pending[j]
    BY <1>4, <2>1 DEF Mcp!RejectAll, McpInv, McpTypes, TurnStates
  <2>4. \A u \in McpTurns, j \in Mcp!Clients : u \in pending'[j] => u \in pending[j] /\ mcp'[u] = mcp[u]
    <3>1. \A u \in McpTurns, j \in Mcp!Clients : u \in pending[j] /\ u \in pending[k] => j = k
      BY DEF McpInv, Pends
    <3> QED BY <2>3, <3>1
  <2>5. server[k] # "none"
    BY <1>4, <2>1 DEF McpInv, Pends
  <2>6. McpTypes'
    BY <1>1, <2>2, <2>3 DEF McpInv, McpTypes
  <2>7. Pends'
    BY <1>1, <2>2, <2>3, <2>4, <2>5 DEF McpInv, Pends
  <2>8. ASSUME ~overlap' PROVE Alone'
    <3>1. ~overlap /\ \A u \in McpTurns : mcp'[u] # "initializing"
      BY <1>2, <2>3, <2>8
    <3>2. ASSUME NEW j \in Mcp!Clients, server'[j] = "running"
          PROVE  \E u \in McpTurns : uses'[u] = j /\ mcp'[u] \in {"initializing", "failed"}
      <4>1. PICK u \in McpTurns : uses[u] = j /\ mcp[u] \in {"initializing", "failed"}
        BY <2>1, <2>2, <3>1, <3>2 DEF McpInv, Alone
      <4> QED BY <1>1, <1>2, <2>3, <2>8, <4>1
    <3> QED BY <1>1, <3>1, <3>2 DEF Alone
  <2>9. Alone'
    BY <2>8 DEF Alone
  <2> QED BY <2>6, <2>7, <2>9 DEF McpInv
<1> QED BY <1>3, <1>4 DEF Mcp!ResetMcpClient, Mcp!NoClient

(* No step of a turn, a server or the configuration breaks the invariant.   *)
LEMMA McpKeeps == McpInv /\ [Mcp!Next]_(Mcp!vars) => McpInv'
<1> SUFFICES ASSUME McpInv, [Mcp!Next]_(Mcp!vars) PROVE McpInv'
  OBVIOUS
<1>1. CASE UNCHANGED Mcp!vars
  BY <1>1 DEF Mcp!vars, McpInv, McpTypes, Pends, Alone
<1>2. CASE Mcp!Next
  BY <1>2, UseCachedKeeps, MakeClientKeeps, McpInitializedKeeps, ResolveMessageKeeps, McpEndsKeep,
     ResetKeeps DEF Mcp!Next
<1> QED BY <1>1, <1>2

(* While no two turns and no reset meet over an MCP server, none runs that    *)
(* nobody can close and the client in the map has the configuration in force  *)
(* (ensureMcpClient, resetMcpClient).                                      *)
THEOREM McpHolds == Spec => []McpInv
<1>1. Init => McpInv
  BY InitMcp DEF Init
<1> QED BY <1>1, McpKeeps, McpSteps, PTL DEF Spec

(* The invariant holds what the run checks of the MCP clients.              *)
LEMMA McpMeans == McpInv => Mcp!TypeOK /\ Mcp!NoStrays /\ Mcp!CurrentConfig
<1> SUFFICES ASSUME McpInv PROVE Mcp!TypeOK /\ Mcp!NoStrays /\ Mcp!CurrentConfig
  OBVIOUS
<1>1. Mcp!TypeOK
  BY DEF McpInv, McpTypes, Pends, TurnStates, Mcp!TypeOK, Mcp!NoClient
<1>2. Mcp!NoStrays
  BY DEF McpInv, Alone, Mcp!NoStrays
<1>3. Mcp!CurrentConfig
  BY DEF McpInv, Alone, Mcp!CurrentConfig, Mcp!NoClient
<1> QED BY <1>1, <1>2, <1>3

-----------------------------------------------------------------------------
(* The language server.                                                    *)

(* A step is one of the language server or its queries, or leaves them as   *)
(* they are.                                                                *)
LEMMA LspSteps == [Next]_vars => [Lsp!Next]_(Lsp!vars)
<1> SUFFICES ASSUME [Next]_vars PROVE Lsp!Next \/ UNCHANGED lspVars
  BY DEF lspVars, Lsp!vars
<1>1. CASE UNCHANGED vars
  BY <1>1, Zenon DEF vars
<1>2. CASE Only("lsp") /\ Lsp!Next
  BY <1>2
<1>3. CASE \E p \in {"ipc", "mcp", "grok", "stream", "files", "voice"} : Only(p)
  BY <1>3 DEF Only
<1> QED BY <1>1, <1>2, <1>3, Zenon DEF Next

-----------------------------------------------------------------------------
(* The language server.                                                    *)

LspTypes ==
  /\ query \in [Queries -> {"idle", "starting", "asking", "answered", "rejected"}]
  /\ client \in [Queries -> Lsp!Clients \cup {0}]
  /\ shared \in Lsp!Clients \cup {0}
  /\ lsp \in [Lsp!Clients -> {"none", "starting", "running", "exited", "gone"}]
  /\ waiting \in [Lsp!Clients -> SUBSET (Queries \cup {"initialize"})]
  /\ text \in Nat \ {0}
  /\ opened \in [Lsp!Clients -> Nat]
  /\ saw \in [Queries -> [asked : Nat, told : Nat]]

(* A query waits at its own client, and only once that has started.         *)
Waits ==
  /\ \A q \in Queries : query[q] \in {"starting", "asking"} =>
       client[q] \in Lsp!Clients /\ lsp[client[q]] # "none"
  /\ shared # 0 => lsp[shared] # "none"
  /\ \A q \in Queries : query[q] = "asking" => q \in waiting[client[q]]
  /\ \A k \in Lsp!Clients, q \in Queries : q \in waiting[k] => query[q] = "asking" /\ client[q] = k
  /\ \A k \in Lsp!Clients : lsp[k] = "none" => waiting[k] = {}
  /\ \A k \in Lsp!Clients : lsp[k] = "starting" => "initialize" \in waiting[k]
  /\ \A k \in Lsp!Clients : "initialize" \in waiting[k] => waiting[k] = {"initialize"}

(* The server that starts is the one that is shared, and a query waits for    *)
(* it; one that is no longer shared has had a query rejected.              *)
OneStarts ==
  \A k \in Lsp!Clients :
    /\ "initialize" \in waiting[k] =>
         shared = k /\ \E q \in Queries : query[q] = "starting" /\ client[q] = k
    /\ lsp[k] \in {"starting", "running"} /\ shared # k =>
         \E q \in Queries : query[q] = "rejected" /\ client[q] = k

(* What a client has sent is on disk or was, and who waits for an answer      *)
(* asked no earlier.                                                       *)
Sent ==
  /\ \A k \in Lsp!Clients : opened[k] <= text
  /\ \A q \in Queries, k \in Lsp!Clients :
       q \in waiting[k] => opened[k] \in 1..saw[q].asked

LspInv == LspTypes /\ Waits /\ OneStarts /\ Sent /\ Lsp!NeverAhead

(* The daemon starts without a language server.                             *)
LEMMA InitLsp == Lsp!Init => LspInv
BY ClientAssumption DEF Lsp!Init, LspInv, LspTypes, Waits, OneStarts, Sent, Lsp!NeverAhead, Lsp!NoClient,
   Lsp!Clients, Lsp!Nothing

(* No language server has the number that stands for none.                  *)
LEMMA NoServer == 0 \notin Lsp!Clients /\ Lsp!Clients \subseteq Nat
BY ClientAssumption DEF Lsp!Clients

(* A query gets the shared client, or one it starts.                        *)
LEMMA LspQueryKeeps ==
  ASSUME LspInv, NEW q \in Queries, Lsp!LspQuery(q)
  PROVE  LspInv'
<1>1. /\ UNCHANGED <<text, opened, saw>> /\ query[q] = "idle"
      /\ query' \in [Queries -> {"idle", "starting", "asking", "answered", "rejected"}]
      /\ query'[q] \in {"starting", "rejected"} /\ \A p \in Queries \ {q} : query'[p] = query[p]
  BY DEF Lsp!LspQuery, LspInv, LspTypes
<1>2. \A k \in Lsp!Clients : q \notin waiting[k]
  BY <1>1 DEF LspInv, Waits
<1>3. CASE UNCHANGED <<client, shared, lsp, waiting>> /\ query'[q] = "rejected"
  BY <1>1, <1>2, <1>3 DEF LspInv, LspTypes, Waits, OneStarts, Sent, Lsp!NeverAhead
<1>4. CASE shared # 0 /\ client' = [client EXCEPT ![q] = shared] /\ UNCHANGED <<shared, lsp, waiting>>
           /\ query'[q] = "starting"
  <2>1. client'[q] = shared /\ shared \in Lsp!Clients /\ \A p \in Queries \ {q} : client'[p] = client[p]
    BY <1>4 DEF LspInv, LspTypes
  <2>2. LspTypes'
    BY <1>1, <1>4, <2>1 DEF LspInv, LspTypes
  <2>3. Waits'
    BY <1>1, <1>2, <1>4, <2>1 DEF LspInv, LspTypes, Waits
  <2>4. OneStarts'
    BY <1>1, <1>4, <2>1 DEF LspInv, LspTypes, OneStarts
  <2>5. Sent' /\ Lsp!NeverAhead'
    BY <1>1, <1>4, <2>1 DEF LspInv, LspTypes, Sent, Lsp!NeverAhead
  <2> QED BY <2>2, <2>3, <2>4, <2>5 DEF LspInv
<1>5. CASE /\ shared = 0 /\ query'[q] = "starting"
           /\ \E k \in Lsp!Unused : /\ client' = [client EXCEPT ![q] = k]
                                    /\ shared' = k /\ Lsp!StartServer(k)
  <2>1. PICK k \in Lsp!Clients :
          /\ lsp[k] = "none" /\ client' = [client EXCEPT ![q] = k] /\ shared' = k
          /\ lsp' = [lsp EXCEPT ![k] = "starting"]
          /\ waiting' = [waiting EXCEPT ![k] = {"initialize"}]
    BY <1>5 DEF Lsp!Unused, Lsp!StartServer
  <2>2. /\ client'[q] = k /\ \A p \in Queries \ {q} : client'[p] = client[p]
        /\ waiting[k] = {} /\ waiting'[k] = {"initialize"} /\ lsp'[k] = "starting"
        /\ \A j \in Lsp!Clients \ {k} : waiting'[j] = waiting[j] /\ lsp'[j] = lsp[j]
    BY <2>1 DEF LspInv, LspTypes, Waits
  <2>3. LspTypes'
    BY <1>1, <1>5, <2>1 DEF LspInv, LspTypes
  <2>4. Waits'
    <3>1. \A p \in Queries : query[p] = "asking" => client[p] # k
      BY <2>2 DEF LspInv, Waits
    <3> QED BY <1>1, <1>2, <2>1, <2>2, <3>1, ClientAssumption DEF LspInv, LspTypes, Waits
  <2>5. OneStarts'
    <3>1. \A j \in Lsp!Clients : "initialize" \notin waiting[j] /\ shared # j
      BY <1>5, NoServer DEF LspInv, OneStarts
    <3>2. ASSUME NEW j \in Lsp!Clients, j # k, lsp'[j] \in {"starting", "running"}
          PROVE  \E p \in Queries : query'[p] = "rejected" /\ client'[p] = j
      <4>1. PICK p \in Queries : query[p] = "rejected" /\ client[p] = j
        BY <2>2, <3>1, <3>2 DEF LspInv, OneStarts
      <4>2. p # q
        BY <1>1, <4>1
      <4> QED BY <1>1, <2>2, <4>1, <4>2
    <3> QED BY <1>5, <2>1, <2>2, <3>1, <3>2 DEF OneStarts
  <2>6. Sent' /\ Lsp!NeverAhead'
    BY <1>1, <2>2, ClientAssumption DEF LspInv, LspTypes, Sent, Lsp!NeverAhead
  <2> QED BY <2>3, <2>4, <2>5, <2>6 DEF LspInv
<1>6. \/ UNCHANGED <<client, shared, lsp, waiting>> /\ query'[q] = "rejected"
      \/ query'[q] = "starting" /\ Lsp!GetShared(q)
  BY DEF Lsp!LspQuery, LspInv, LspTypes
<1> QED BY <1>3, <1>4, <1>5, <1>6 DEF Lsp!GetShared, Lsp!NoClient, Lsp!SharePromise, Lsp!SharedAtOnce

(* The language server that starts has answered.                            *)
LEMMA InitializedKeeps ==
  ASSUME LspInv, NEW k \in Lsp!Clients, Lsp!Initialized(k)
  PROVE  LspInv'
<1>1. /\ UNCHANGED <<query, client, shared, late, text, opened, saw>>
      /\ lsp[k] = "starting" /\ waiting[k] = {"initialize"} /\ shared = k
      /\ lsp' = [lsp EXCEPT ![k] = "running"]
      /\ waiting' = [waiting EXCEPT ![k] = @ \ {"initialize"}]
  BY DEF Lsp!Initialized, LspInv, Waits, OneStarts
<1>2. /\ waiting'[k] = {} /\ lsp'[k] = "running"
      /\ \A j \in Lsp!Clients \ {k} : waiting'[j] = waiting[j] /\ lsp'[j] = lsp[j]
  BY <1>1 DEF LspInv, LspTypes
<1>3. LspTypes'
  BY <1>1 DEF LspInv, LspTypes
<1>4. Waits'
  BY <1>1, <1>2, ClientAssumption DEF LspInv, LspTypes, Waits
<1>5. OneStarts' /\ Sent' /\ Lsp!NeverAhead'
  BY <1>1, <1>2 DEF LspInv, LspTypes, OneStarts, Sent, Lsp!NeverAhead
<1> QED BY <1>3, <1>4, <1>5 DEF LspInv

(* A query asks about the document that its client has sent, or sends now.  *)
LEMMA AskKeeps ==
  ASSUME LspInv, NEW q \in Queries, Lsp!Ask(q)
  PROVE  LspInv'
<1> DEFINE k == client[q]
           v == IF opened[k] = 0 THEN text ELSE opened[k]
<1>1. /\ UNCHANGED <<client, shared, lsp, late, text>>
      /\ query[q] = "starting" /\ k \in Lsp!Clients /\ "initialize" \notin waiting[k] /\ lsp[k] # "starting"
      /\ query' = [query EXCEPT ![q] = "asking"]
      /\ waiting' = [waiting EXCEPT ![k] = @ \cup {q}]
      /\ opened' = [opened EXCEPT ![k] = v]
      /\ saw' = [saw EXCEPT ![q].asked = text]
  BY DEF Lsp!Ask, Lsp!Started, Lsp!PrepareDocument, LspInv, Waits
<1>2. /\ query'[q] = "asking" /\ \A p \in Queries \ {q} : query'[p] = query[p] /\ saw'[p] = saw[p]
      /\ waiting'[k] = waiting[k] \cup {q} /\ opened'[k] = v
      /\ \A j \in Lsp!Clients \ {k} : waiting'[j] = waiting[j] /\ opened'[j] = opened[j]
      /\ saw'[q].asked = text
  BY <1>1 DEF LspInv, LspTypes
<1>3. /\ text \in Nat \ {0} /\ opened[k] \in Nat /\ opened[k] <= text
      /\ v \in Nat /\ v <= text /\ v \in 1..text
  <2>1. text \in Nat \ {0} /\ opened[k] \in Nat /\ opened[k] <= text
    BY <1>1 DEF LspInv, LspTypes, Sent
  <2> QED BY <2>1
<1> HIDE DEF v
<1>4. LspTypes'
  <2>1. [saw[q] EXCEPT !.asked = text] \in [asked : Nat, told : Nat]
    BY <1>3 DEF LspInv, LspTypes
  <2>2. saw' \in [Queries -> [asked : Nat, told : Nat]]
    BY <1>1, <2>1 DEF LspInv, LspTypes
  <2>3. opened' \in [Lsp!Clients -> Nat] /\ waiting' \in [Lsp!Clients -> SUBSET (Queries \cup {"initialize"})]
    BY <1>1, <1>3 DEF LspInv, LspTypes
  <2> QED BY <1>1, <2>2, <2>3 DEF LspInv, LspTypes
<1>5. \A j \in Lsp!Clients : q \notin waiting[j]
  BY <1>1 DEF LspInv, Waits
<1>6. lsp[k] # "none"
  BY <1>1 DEF LspInv, Waits
<1>7. Waits'
  BY <1>1, <1>2, <1>5, <1>6, ClientAssumption DEF LspInv, Waits
<1>8. OneStarts'
  BY <1>1, <1>2, ClientAssumption DEF LspInv, Waits, OneStarts
<1>9. Sent'
  <2>1. \A j \in Lsp!Clients : opened'[j] <= text'
    BY <1>1, <1>2, <1>3 DEF LspInv, Sent
  <2>2. ASSUME NEW p \in Queries, NEW j \in Lsp!Clients, p \in waiting'[j]
        PROVE  opened'[j] \in 1..saw'[p].asked
    <3>1. CASE p = q
      BY <1>1, <1>2, <1>3, <1>5, <2>2, <3>1
    <3>2. CASE p # q
      <4>1. p \in waiting[j] /\ opened[j] \in 1..saw[p].asked
        BY <1>2, <2>2, <3>2 DEF LspInv, Sent
      <4>2. opened'[j] = opened[j]
        BY <1>2, <4>1 DEF v
      <4> QED BY <1>2, <3>2, <4>1, <4>2
    <3> QED BY <3>1, <3>2
  <2> QED BY <2>1, <2>2 DEF Sent
<1>10. Lsp!NeverAhead'
  BY <1>1, <1>2 DEF LspInv, Lsp!NeverAhead
<1> QED BY <1>4, <1>7, <1>8, <1>9, <1>10 DEF LspInv

(* An answer is about the version that the client has sent.                 *)
LEMMA AnswerKeeps ==
  ASSUME LspInv, NEW q \in Queries, Lsp!Answer(q)
  PROVE  LspInv'
<1> DEFINE k == client[q]
<1>1. UNCHANGED <<client, shared, lsp, text, opened>> /\ k \in Lsp!Clients
  BY DEF Lsp!Answer, Lsp!NoClient, LspInv, LspTypes
<1>2. CASE UNCHANGED <<query, saw, waiting>>
  BY <1>1, <1>2 DEF LspInv, LspTypes, Waits, OneStarts, Sent, Lsp!NeverAhead
<1>3. CASE /\ q \in waiting[k]
           /\ query' = [query EXCEPT ![q] = "answered"]
           /\ saw' = [saw EXCEPT ![q].told = opened[k]]
           /\ waiting' = [waiting EXCEPT ![k] = @ \ {q}]
  <2>1. /\ query'[q] = "answered" /\ \A p \in Queries \ {q} : query'[p] = query[p] /\ saw'[p] = saw[p]
        /\ waiting'[k] = waiting[k] \ {q} /\ \A j \in Lsp!Clients \ {k} : waiting'[j] = waiting[j]
        /\ saw'[q].told = opened[k] /\ saw'[q].asked = saw[q].asked
    BY <1>1, <1>3 DEF LspInv, LspTypes
  <2>2. query[q] = "asking" /\ opened[k] \in 1..saw[q].asked /\ "initialize" \notin waiting[k]
    BY <1>1, <1>3, ClientAssumption DEF LspInv, Waits, Sent
  <2>3. LspTypes'
    <3>1. [saw[q] EXCEPT !.told = opened[k]] \in [asked : Nat, told : Nat]
      BY <1>1 DEF LspInv, LspTypes
    <3>2. saw' \in [Queries -> [asked : Nat, told : Nat]]
      BY <1>3, <3>1 DEF LspInv, LspTypes
    <3> QED BY <1>1, <1>3, <3>2 DEF LspInv, LspTypes
  <2>4. \A j \in Lsp!Clients \ {k} : q \notin waiting[j]
    BY <2>2 DEF LspInv, Waits
  <2>5. Waits'
    BY <1>1, <2>1, <2>2, <2>4, ClientAssumption DEF LspInv, Waits
  <2>6. OneStarts'
    BY <1>1, <2>1, <2>2, ClientAssumption DEF LspInv, OneStarts
  <2>7. Sent'
    BY <1>1, <2>1, <2>2, <2>4 DEF LspInv, Sent
  <2>8. Lsp!NeverAhead'
    BY <1>1, <2>1, <2>2 DEF LspInv, Lsp!NeverAhead
  <2> QED BY <2>3, <2>5, <2>6, <2>7, <2>8 DEF LspInv
<1> QED BY <1>2, <1>3 DEF Lsp!Answer

(* A query that is rejected, with or without its request, loses nothing that *)
(* others rely on.                                                         *)
LEMMA TimeOutKeeps ==
  ASSUME LspInv, NEW q \in Queries, Lsp!TimeOut(q)
  PROVE  LspInv'
<1> DEFINE k == client[q]
<1>1. /\ UNCHANGED <<client, shared, lsp, text, opened, saw>> /\ k \in Lsp!Clients /\ q \in waiting[k]
      /\ query' = [query EXCEPT ![q] = "rejected"]
      /\ waiting' = [waiting EXCEPT ![k] = @ \ {q}]
  BY DEF Lsp!TimeOut, Lsp!NoClient, LspInv, LspTypes
<1>2. /\ query'[q] = "rejected" /\ \A p \in Queries \ {q} : query'[p] = query[p]
      /\ waiting'[k] = waiting[k] \ {q} /\ \A j \in Lsp!Clients \ {k} : waiting'[j] = waiting[j]
  BY <1>1 DEF LspInv, LspTypes
<1>3. query[q] = "asking" /\ "initialize" \notin waiting[k]
  BY <1>1, ClientAssumption DEF LspInv, Waits
<1>4. LspTypes'
  BY <1>1 DEF LspInv, LspTypes
<1>5. Waits'
  BY <1>1, <1>2, <1>3, ClientAssumption DEF LspInv, Waits
<1>6. OneStarts'
  BY <1>1, <1>2, <1>3, ClientAssumption DEF LspInv, OneStarts
<1>7. Sent' /\ Lsp!NeverAhead'
  BY <1>1, <1>2 DEF LspInv, Sent, Lsp!NeverAhead
<1> QED BY <1>4, <1>5, <1>6, <1>7 DEF LspInv

(* When a start fails, every query that waits for it is rejected; the server *)
(* that may run is not shared any more.                                    *)
LEMMA StartFailedKeeps ==
  ASSUME LspInv, NEW k \in Lsp!Clients, "initialize" \in waiting[k], Lsp!StartFailed(k),
         lsp[k] # "none", NEW s \in {"running", "exited", "gone"},
         lsp' = [lsp EXCEPT ![k] = s],
         waiting' = [waiting EXCEPT ![k] = {}],
         UNCHANGED <<client, text, opened, saw>>
  PROVE  LspInv'
<1>1. /\ shared' = 0 /\ shared = k /\ waiting[k] = {"initialize"}
      /\ query' = [q \in Queries |-> IF query[q] = "starting" /\ client[q] = k
                                    THEN "rejected" ELSE query[q]]
  BY DEF Lsp!StartFailed, Lsp!NoClient, LspInv, Waits, OneStarts
<1>2. /\ lsp'[k] = s /\ waiting'[k] = {}
      /\ \A j \in Lsp!Clients \ {k} : lsp'[j] = lsp[j] /\ waiting'[j] = waiting[j]
      /\ \A q \in Queries : query'[q] = IF query[q] = "starting" /\ client[q] = k
                                       THEN "rejected" ELSE query[q]
  BY <1>1 DEF LspInv, LspTypes
<1>3. PICK p \in Queries : query[p] = "starting" /\ client[p] = k
  BY DEF LspInv, OneStarts
<1>4. \A j \in Lsp!Clients \ {k} : "initialize" \notin waiting[j]
  BY <1>1 DEF LspInv, OneStarts
<1>5. \A q \in Queries : query[q] = "asking" => client[q] # k
  BY <1>1, ClientAssumption DEF LspInv, Waits
<1>6. LspTypes'
  BY <1>1, <1>2 DEF LspInv, LspTypes
<1>7. Waits'
  BY <1>1, <1>2, <1>4, <1>5, ClientAssumption DEF LspInv, Waits
<1>8. OneStarts'
  <2>1. ASSUME NEW j \in Lsp!Clients, lsp'[j] \in {"starting", "running"}
        PROVE  \E q \in Queries : query'[q] = "rejected" /\ client'[q] = j
    <3>1. CASE j = k
      BY <1>2, <1>3, <3>1
    <3>2. CASE j # k
      <4>1. PICK q \in Queries : query[q] = "rejected" /\ client[q] = j
        BY <1>1, <1>2, <2>1, <3>2 DEF LspInv, OneStarts
      <4> QED BY <1>2, <4>1
    <3> QED BY <3>1, <3>2
  <2>2. \A j \in Lsp!Clients : "initialize" \notin waiting'[j]
    BY <1>2, <1>4
  <2> QED BY <2>1, <2>2 DEF OneStarts
<1>9. Sent' /\ Lsp!NeverAhead'
  BY <1>2 DEF LspInv, Sent, Lsp!NeverAhead
<1> QED BY <1>6, <1>7, <1>8, <1>9 DEF LspInv

(* The start of a language server takes too long, or its answer is given up.*)
LEMMA StartTimesOutKeeps ==
  ASSUME LspInv, NEW k \in Lsp!Clients, Lsp!StartTimesOut(k)
  PROVE  LspInv'
<1> DEFINE s == IF lsp[k] = "starting" THEN "running" ELSE lsp[k]
<1>1. /\ lsp[k] \in {"starting", "exited", "gone"} /\ "initialize" \in waiting[k] /\ Lsp!StartFailed(k)
      /\ waiting' = [waiting EXCEPT ![k] = @ \ {"initialize"}]
      /\ lsp' = [lsp EXCEPT ![k] = s] /\ UNCHANGED <<client, text, opened, saw>>
  BY DEF Lsp!StartTimesOut
<1>2. waiting[k] = {"initialize"} /\ waiting[k] \ {"initialize"} = {}
  BY <1>1 DEF LspInv, Waits
<1>3. waiting' = [waiting EXCEPT ![k] = {}] /\ s \in {"running", "exited", "gone"} /\ lsp[k] # "none"
  BY <1>1, <1>2
<1> HIDE DEF s
<1> QED BY <1>1, <1>3, StartFailedKeeps

(* A language server ends; its client does not know it yet.                 *)
LEMMA ExitsKeeps ==
  ASSUME LspInv, NEW k \in Lsp!Clients, Lsp!Exits(k)
  PROVE  LspInv'
<1>1. /\ UNCHANGED <<query, client, shared, waiting, text, opened, saw>> /\ lsp[k] # "none"
      /\ lsp' = [lsp EXCEPT ![k] = "exited"]
  BY DEF Lsp!Exits
<1>2. lsp'[k] = "exited" /\ \A j \in Lsp!Clients \ {k} : lsp'[j] = lsp[j]
  BY <1>1 DEF LspInv, LspTypes
<1>3. LspTypes' /\ Sent' /\ Lsp!NeverAhead'
  BY <1>1 DEF LspInv, LspTypes, Sent, Lsp!NeverAhead
<1>4. Waits' /\ OneStarts'
  BY <1>1, <1>2 DEF LspInv, LspTypes, Waits, OneStarts
<1> QED BY <1>3, <1>4 DEF LspInv

(* The client hears of the end: who waits for an answer fails.              *)
LEMMA ExitEventKeeps ==
  ASSUME LspInv, NEW k \in Lsp!Clients, Lsp!ExitEvent(k)
  PROVE  LspInv'
<1>1. /\ UNCHANGED <<client, text, opened, saw>> /\ lsp[k] = "exited"
      /\ lsp' = [lsp EXCEPT ![k] = "gone"] /\ Lsp!FailPending(k)
      /\ waiting' = [waiting EXCEPT ![k] = {}]
  BY DEF Lsp!ExitEvent, Lsp!EndPending, Lsp!FailPending
<1>2. CASE "initialize" \in waiting[k]
  <2>1. Lsp!StartFailed(k)
    BY <1>1, <1>2 DEF Lsp!FailPending
  <2> QED BY <1>1, <1>2, <2>1, StartFailedKeeps
<1>3. CASE "initialize" \notin waiting[k]
  <2>1. /\ UNCHANGED shared
        /\ query' = [q \in Queries |-> IF q \in waiting[k] THEN "rejected" ELSE query[q]]
    BY <1>1, <1>3 DEF Lsp!FailPending
  <2>2. /\ lsp'[k] = "gone" /\ waiting'[k] = {}
        /\ \A j \in Lsp!Clients \ {k} : lsp'[j] = lsp[j] /\ waiting'[j] = waiting[j]
        /\ \A q \in Queries : query'[q] = IF q \in waiting[k] THEN "rejected" ELSE query[q]
    BY <1>1, <2>1 DEF LspInv, LspTypes
  <2>3. \A q \in Queries : q \in waiting[k] => query[q] = "asking" /\ client[q] = k
    BY DEF LspInv, Waits
  <2>4. LspTypes'
    BY <1>1, <2>1, <2>2 DEF LspInv, LspTypes
  <2>5. Waits'
    BY <1>1, <1>3, <2>1, <2>2, <2>3, ClientAssumption DEF LspInv, Waits
  <2>6. OneStarts'
    BY <1>1, <1>3, <2>1, <2>2, <2>3 DEF LspInv, OneStarts
  <2>7. Sent' /\ Lsp!NeverAhead'
    BY <1>1, <2>2 DEF LspInv, Sent, Lsp!NeverAhead
  <2> QED BY <2>4, <2>5, <2>6, <2>7 DEF LspInv
<1> QED BY <1>2, <1>3

(* The document changes while queries wait: no server is ahead of it.       *)
LEMMA EditKeeps ==
  ASSUME LspInv, Lsp!Edit
  PROVE  LspInv'
<1>1. UNCHANGED <<query, client, shared, lsp, waiting, opened, saw>> /\ text' = text + 1 /\ text \in Nat \ {0}
  BY DEF Lsp!Edit, LspInv, LspTypes
<1>2. \A n \in Nat : n <= text => n <= text'
  BY <1>1
<1>3. LspTypes'
  BY <1>1 DEF LspInv, LspTypes
<1>4. Sent'
  BY <1>1, <1>2 DEF LspInv, LspTypes, Sent
<1>5. Waits' /\ OneStarts' /\ Lsp!NeverAhead'
  BY <1>1 DEF LspInv, Waits, OneStarts, Lsp!NeverAhead
<1> QED BY <1>3, <1>4, <1>5 DEF LspInv

(* No step of a query, a server, a timer or an editor breaks the invariant. *)
LEMMA LspKeeps == LspInv /\ [Lsp!Next]_(Lsp!vars) => LspInv'
<1> SUFFICES ASSUME LspInv, [Lsp!Next]_(Lsp!vars) PROVE LspInv'
  OBVIOUS
<1>1. CASE UNCHANGED Lsp!vars
  BY <1>1 DEF Lsp!vars, LspInv, LspTypes, Waits, OneStarts, Sent, Lsp!NeverAhead
<1>2. CASE Lsp!Next
  BY <1>2, LspQueryKeeps, AskKeeps, AnswerKeeps, TimeOutKeeps, InitializedKeeps, StartTimesOutKeeps,
     ExitsKeeps, ExitEventKeeps, EditKeeps DEF Lsp!Next
<1> QED BY <1>1, <1>2

(* Two language servers run together only when a query was rejected, no      *)
(* query is told of a later text than its own, and a query asks if and only  *)
(* if its request is pending (getSharedLspClient, StdioLspClient).          *)
THEOREM LspHolds == Spec => []LspInv
<1>1. Init => LspInv
  BY InitLsp DEF Init
<1> QED BY <1>1, LspKeeps, LspSteps, PTL DEF Spec

(* The invariant holds what the run checks of the language server.          *)
LEMMA LspMeans == LspInv => Lsp!TypeOK /\ Lsp!OneServer /\ Lsp!NeverAhead
<1> SUFFICES ASSUME LspInv PROVE Lsp!TypeOK /\ Lsp!OneServer
  BY DEF LspInv
<1>1. Lsp!TypeOK
  <2>1. \A q \in Queries : query[q] = "asking" <=> \E k \in Lsp!Clients : q \in waiting[k]
    BY DEF LspInv, Waits
  <2> QED BY <2>1 DEF LspInv, LspTypes, Lsp!TypeOK, Lsp!NoClient
<1>2. Lsp!OneServer
  BY DEF LspInv, OneStarts, Lsp!OneServer
<1> QED BY <1>1, <1>2

-----------------------------------------------------------------------------
(* The login to Grok.                                                      *)

(* A step is one of the requests and logins to Grok or leaves them as they  *)
(* are.                                                                     *)
LEMMA GrokSteps == [Next]_vars => [Grok!Next]_(Grok!vars)
<1> SUFFICES ASSUME [Next]_vars PROVE Grok!Next \/ UNCHANGED grokVars
  BY DEF grokVars, Grok!vars
<1>1. CASE UNCHANGED vars
  BY <1>1, Zenon DEF vars
<1>2. CASE Only("grok") /\ Grok!Next
  BY <1>2
<1>3. CASE \E p \in {"ipc", "mcp", "lsp", "stream", "files", "voice"} : Only(p)
  BY <1>3 DEF Only
<1> QED BY <1>1, <1>2, <1>3, Zenon DEF Next

-----------------------------------------------------------------------------
(* Grok.                                                                   *)

Pending(p) == grokPc[p] \in {"save", "writing"}

GrokTypes ==
  /\ file \in Grok!Tokens \cup {Grok!None, Grok!Torn}
  /\ expiring \subseteq Grok!Tokens
  /\ newest \in [Logins -> 0..MaxVersion]
  /\ grokPc \in [Grok!Procs -> {"idle", "refresh", "exchange", "save", "writing", "done"}]
  /\ holds = [p \in Grok!Procs |-> holds[p]]
  /\ \A p \in Grok!Procs : grokPc[p] = "refresh" \/ Pending(p) => holds[p] \in Grok!Tokens
  /\ \A p \in Grok!Procs : grokPc[p] = "refresh" => p \in GrokRequests
  /\ \A p \in Grok!Procs : grokPc[p] = "exchange" => p \in Logins

(* The server gives each version once, and who was given it is the only one   *)
(* to have it until it is in the file; nobody has a version it did not give. *)
GivenOnce ==
  /\ file \in Grok!Tokens => file.version <= newest[file.login]
  /\ \A p \in Grok!Procs : grokPc[p] = "refresh" => holds[p].version <= newest[holds[p].login]
  /\ \A p \in Grok!Procs : Pending(p) =>
       /\ holds[p].version = newest[holds[p].login]
       /\ file # holds[p]
       /\ \A q \in Grok!Procs : Pending(q) /\ holds[q].login = holds[p].login => q = p
       /\ \A q \in Grok!Procs : grokPc[q] = "refresh" => holds[q] # holds[p]

(* As long as nobody died, the last version of a login is in the file or with*)
(* who will save it, or another login came.                                *)
Alive(l) ==
  newest[l] > 0 /\ ~died =>
    \/ file = [login |-> l, version |-> newest[l]]
    \/ \E p \in Grok!Procs : Pending(p) /\ holds[p].login = l
    \/ \E k \in Logins \ {l} : newest[k] > 0

GrokInv ==
  /\ GrokTypes /\ GivenOnce
  /\ \A l \in Logins : Alive(l)
  /\ Grok!OwnLogin /\ Grok!TornOnlyWhileWritten

(* It starts with whole credentials nobody works on.                        *)
LEMMA InitGrok == Grok!Init => GrokInv
BY GrokAssumption DEF Grok!Init, GrokInv, GrokTypes, GivenOnce, Alive, Pending, Grok!OwnLogin,
   Grok!TornOnlyWhileWritten, Grok!Procs, Grok!None, Grok!Torn, Grok!Tokens, Grok!Writing

(* Tokens are a login and a version.                                       *)
LEMMA TokensAre ==
  ASSUME NEW t \in Grok!Tokens, NEW s \in Grok!Tokens
  PROVE  /\ t.login \in Logins /\ t.version \in 1..MaxVersion
         /\ t.login = s.login /\ t.version = s.version => t = s
         /\ t # Grok!Torn /\ t # Grok!None
         /\ t = [login |-> t.login, version |-> t.version]
BY GrokAssumption DEF Grok!Tokens, Grok!Torn, Grok!None

(* A request loads what the credentials file has.                           *)
LEMMA LoadKeeps ==
  ASSUME GrokInv, NEW r \in GrokRequests, Grok!Load(r)
  PROVE  GrokInv'
<1>1. /\ UNCHANGED <<file, expiring, newest, torn, died>> /\ r \in Grok!Procs /\ r \notin Logins
      /\ grokPc[r] = "idle" /\ ~Pending(r)
  BY GrokAssumption DEF Grok!Load, Grok!Procs, Pending
<1>2. \/ grokPc' = [grokPc EXCEPT ![r] = "done"] /\ holds' = holds
      \/ /\ file \in Grok!Tokens
         /\ holds' = [holds EXCEPT ![r] = file]
         /\ grokPc' = [grokPc EXCEPT ![r] = "refresh"] \/ grokPc' = [grokPc EXCEPT ![r] = "done"]
  BY DEF GrokInv, GrokTypes, Grok!Load, Grok!Fails
<1>3. \A p \in Grok!Procs \ {r} : grokPc'[p] = grokPc[p] /\ holds'[p] = holds[p]
  BY <1>1, <1>2 DEF GrokInv, GrokTypes
<1>4. /\ grokPc'[r] \in {"refresh", "done"}
      /\ (grokPc'[r] = "refresh" => holds'[r] = file /\ file \in Grok!Tokens)
  BY <1>1, <1>2 DEF GrokInv, GrokTypes
<1>5. \A p \in Grok!Procs : Pending(p)' <=> Pending(p)
  BY <1>1, <1>3, <1>4 DEF Pending
<1>6. GrokTypes'
  BY <1>1, <1>2, <1>3, <1>4, <1>5 DEF GrokInv, GrokTypes
<1>7. GivenOnce'
  BY <1>1, <1>3, <1>4, <1>5 DEF GrokInv, GivenOnce, Pending
<1>8. \A l \in Logins : Alive(l)'
  BY <1>1, <1>3, <1>5 DEF GrokInv, Alive, Pending
<1>9. Grok!OwnLogin' /\ Grok!TornOnlyWhileWritten'
  BY <1>1, <1>3, <1>4 DEF GrokInv, Grok!OwnLogin, Grok!TornOnlyWhileWritten, Grok!Writing, Grok!Procs
<1> QED BY <1>6, <1>7, <1>8, <1>9 DEF GrokInv

(* The server answers with the next version, or the refresh fails.          *)
LEMMA RefreshKeeps ==
  ASSUME GrokInv, NEW r \in GrokRequests, Grok!Refresh(r)
  PROVE  GrokInv'
<1> DEFINE l == holds[r].login
<1>1. /\ UNCHANGED <<file, expiring, torn, died>> /\ r \in Grok!Procs /\ r \notin Logins
      /\ grokPc[r] = "refresh" /\ holds[r] \in Grok!Tokens
      /\ newest \in [Logins -> 0..MaxVersion]
  BY GrokAssumption DEF Grok!Refresh, Grok!Procs, GrokInv, GrokTypes
<1>2. l \in Logins /\ holds[r].version \in 1..MaxVersion /\ holds[r].version <= newest[l]
  BY <1>1, TokensAre DEF GrokInv, GivenOnce
<1>a. newest[l] \in 0..MaxVersion
  BY <1>1, <1>2
<1>3. CASE grokPc' = [grokPc EXCEPT ![r] = "done"] /\ UNCHANGED <<newest, holds>>
  <2>1. \A p \in Grok!Procs : Pending(p)' <=> Pending(p)
    BY <1>1, <1>3 DEF GrokInv, GrokTypes, Pending
  <2>2. GrokTypes' /\ GivenOnce'
    BY <1>1, <1>3, <2>1 DEF GrokInv, GrokTypes, GivenOnce
  <2>3. \A k \in Logins : Alive(k)'
    BY <1>1, <1>3, <2>1 DEF GrokInv, Alive
  <2>4. Grok!OwnLogin' /\ Grok!TornOnlyWhileWritten'
    BY <1>1, <1>3 DEF GrokInv, GrokTypes, Grok!OwnLogin, Grok!TornOnlyWhileWritten, Grok!Writing, Grok!Procs
  <2> QED BY <2>2, <2>3, <2>4 DEF GrokInv
<1>4. CASE /\ holds[r].version = newest[l] /\ newest[l] < MaxVersion
           /\ newest' = [newest EXCEPT ![l] = @ + 1]
           /\ holds' = [holds EXCEPT ![r].version = newest[l] + 1]
           /\ grokPc' = [grokPc EXCEPT ![r] = "save"]
  <2>1. /\ holds'[r] = [login |-> l, version |-> newest[l] + 1]
        /\ holds' = [p \in Grok!Procs |-> holds'[p]]
        /\ \A p \in Grok!Procs \ {r} : grokPc'[p] = grokPc[p] /\ holds'[p] = holds[p]
        /\ grokPc'[r] = "save"
    BY <1>1, <1>4 DEF GrokInv, GrokTypes, Grok!Tokens
  <2>2. holds'[r] \in Grok!Tokens /\ holds'[r].login = l /\ holds'[r].version = newest[l] + 1
    BY <1>2, <1>a, <1>4, <2>1, GrokAssumption DEF Grok!Tokens
  <2>3. /\ newest' \in [Logins -> 0..MaxVersion] /\ newest'[l] = newest[l] + 1
        /\ \A k \in Logins \ {l} : newest'[k] = newest[k]
        /\ \A k \in Logins : newest[k] <= newest'[k]
    BY <1>1, <1>2, <1>4, GrokAssumption
  <2>4. Pending(r)' /\ \A p \in Grok!Procs \ {r} : Pending(p)' <=> Pending(p)
    BY <1>1, <2>1 DEF Pending
  <2>5. GrokTypes'
    BY <1>1, <1>4, <2>1, <2>2, <2>3, <2>4 DEF GrokInv, GrokTypes
  (* Nobody else has the version that was refreshed: it was in the file.    *)
  <2>6. \A p \in Grok!Procs : Pending(p) => holds[p].login # l
    <3> SUFFICES ASSUME NEW p \in Grok!Procs, Pending(p), holds[p].login = l PROVE FALSE
      OBVIOUS
    <3>1. holds[p].version = newest[l] /\ holds[r] # holds[p] /\ holds[p] \in Grok!Tokens
      BY <1>1 DEF GrokInv, GivenOnce, GrokTypes
    <3> QED BY <1>1, <1>4, <3>1, TokensAre
  <2>7. GivenOnce'
    <3>1. (file \in Grok!Tokens => file.version <= newest[file.login])'
      <4> SUFFICES ASSUME file \in Grok!Tokens PROVE file.version <= newest'[file.login]
        BY <1>1
      <4>1. file.login \in Logins /\ file.version \in 1..MaxVersion /\ file.version <= newest[file.login]
        BY TokensAre DEF GrokInv, GivenOnce
      <4>2. newest[file.login] \in 0..MaxVersion /\ newest'[file.login] \in 0..MaxVersion
        BY <1>1, <2>3, <4>1
      <4> QED BY <2>3, <4>1, <4>2
    <3>2. ASSUME NEW p \in Grok!Procs, grokPc'[p] = "refresh"
          PROVE  holds'[p].version <= newest'[holds'[p].login]
      <4>1. p # r /\ grokPc[p] = "refresh" /\ holds'[p] = holds[p] /\ holds[p] \in Grok!Tokens
        BY <2>1, <3>2 DEF GrokInv, GrokTypes
      <4>2. /\ holds[p].login \in Logins /\ holds[p].version \in 1..MaxVersion
            /\ holds[p].version <= newest[holds[p].login]
        BY <4>1, TokensAre DEF GrokInv, GivenOnce
      <4>3. newest[holds[p].login] \in 0..MaxVersion /\ newest'[holds[p].login] \in 0..MaxVersion
        BY <1>1, <2>3, <4>2
      <4> QED BY <2>3, <4>1, <4>2, <4>3
    <3>3. ASSUME NEW p \in Grok!Procs, Pending(p)'
          PROVE  /\ holds'[p].version = newest'[holds'[p].login]
                 /\ file' # holds'[p]
                 /\ \A q \in Grok!Procs : Pending(q)' /\ holds'[q].login = holds'[p].login => q = p
                 /\ \A q \in Grok!Procs : grokPc'[q] = "refresh" => holds'[q] # holds'[p]
      <4>1. CASE p = r
        <5>1. \A t \in Grok!Tokens : t.version <= newest[t.login] => t # holds'[r]
          BY <1>a, <2>2
        <5>2. file' # holds'[r]
          BY <1>1, <2>2, <5>1, TokensAre DEF GrokInv, GrokTypes, GivenOnce
        <5>3. ASSUME NEW q \in Grok!Procs, Pending(q)', holds'[q].login = l PROVE q = r
          BY <2>1, <2>4, <2>6, <5>3
        <5>4. ASSUME NEW q \in Grok!Procs, grokPc'[q] = "refresh" PROVE holds'[q] # holds'[r]
          BY <2>1, <5>1, <5>4 DEF GrokInv, GrokTypes, GivenOnce
        <5> QED BY <2>2, <2>3, <4>1, <5>2, <5>3, <5>4
      <4>2. CASE p # r
        <5>1. Pending(p) /\ holds'[p] = holds[p] /\ holds[p] \in Grok!Tokens /\ holds[p].login # l
          BY <2>1, <2>4, <2>6, <3>3, <4>2 DEF GrokInv, GrokTypes
        <5>2. holds[p].login \in Logins
          BY <5>1, TokensAre
        <5>3. /\ holds[p].version = newest[holds[p].login]
              /\ file # holds[p]
              /\ \A q \in Grok!Procs : Pending(q) /\ holds[q].login = holds[p].login => q = p
              /\ \A q \in Grok!Procs : grokPc[q] = "refresh" => holds[q] # holds[p]
          BY <5>1 DEF GrokInv, GivenOnce
        <5> QED BY <1>1, <2>1, <2>2, <2>3, <2>4, <5>1, <5>2, <5>3
      <4> QED BY <4>1, <4>2
    <3> QED BY <3>1, <3>2, <3>3 DEF GivenOnce
  <2>8. ASSUME NEW k \in Logins PROVE Alive(k)'
    <3>1. CASE k = l
      BY <1>1, <2>2, <2>4, <3>1 DEF Alive
    <3>2. CASE k # l
      <4>1. newest'[l] > 0
        BY <1>a, <2>3
      <4> QED BY <1>2, <3>2, <4>1 DEF Alive
    <3> QED BY <3>1, <3>2
  <2>9. Grok!OwnLogin' /\ Grok!TornOnlyWhileWritten'
    BY <1>1, <2>1 DEF GrokInv, Grok!OwnLogin, Grok!TornOnlyWhileWritten, Grok!Writing, Grok!Procs
  <2> QED BY <2>5, <2>7, <2>8, <2>9 DEF GrokInv
<1> QED BY <1>3, <1>4 DEF Grok!Refresh, Grok!Fails

(* A login goes its way; the code it accepts is its own.                    *)
LEMMA LoginKeeps ==
  ASSUME GrokInv, NEW l \in Logins, Grok!Login(l) \/ Grok!AskAgain(l) \/ Grok!Abandon(l)
  PROVE  GrokInv'
<1>1. /\ UNCHANGED <<file, expiring, newest, torn, died>> /\ l \in Grok!Procs /\ l \notin GrokRequests
      /\ grokPc[l] \in {"idle", "exchange"} /\ ~Pending(l)
  BY GrokAssumption DEF Grok!Login, Grok!AskAgain, Grok!Abandon, Grok!Procs, Pending
<1>2. /\ holds' = [p \in Grok!Procs |-> holds'[p]]
      /\ \A p \in Grok!Procs \ {l} : grokPc'[p] = grokPc[p] /\ holds'[p] = holds[p]
      /\ grokPc' \in [Grok!Procs -> {"idle", "refresh", "exchange", "save", "writing", "done"}]
      /\ grokPc'[l] \in {"idle", "exchange", "done"}
      /\ grokPc'[l] = "exchange" => holds'[l].login = l
  BY <1>1 DEF GrokInv, GrokTypes, Grok!Login, Grok!AskAgain, Grok!Abandon, Grok!Callback,
     Grok!ManualPaste, Grok!HandleXaiOAuthCode, Grok!StateMatches, Grok!Accepts, Grok!Accepted
<1>3. ~Pending(l)' /\ \A p \in Grok!Procs : Pending(p)' <=> Pending(p)
  BY <1>1, <1>2 DEF Pending
<1>4. GrokTypes'
  BY <1>1, <1>2, <1>3 DEF GrokInv, GrokTypes
<1>5. GivenOnce'
  BY <1>1, <1>2, <1>3 DEF GrokInv, GivenOnce
<1>6. \A k \in Logins : Alive(k)'
  BY <1>1, <1>2, <1>3 DEF GrokInv, Alive
<1>7. Grok!OwnLogin' /\ Grok!TornOnlyWhileWritten'
  BY <1>1, <1>2 DEF GrokInv, Grok!OwnLogin, Grok!TornOnlyWhileWritten, Grok!Writing, Grok!Procs
<1> QED BY <1>4, <1>5, <1>6, <1>7 DEF GrokInv

(* The first tokens of a login: nobody had any.                             *)
LEMMA ExchangeKeeps ==
  ASSUME GrokInv, NEW l \in Logins, Grok!Exchange(l)
  PROVE  GrokInv'
<1>1. /\ UNCHANGED <<file, expiring, torn, died>> /\ l \in Grok!Procs /\ l \notin GrokRequests
      /\ grokPc[l] = "exchange" /\ newest[l] = 0 /\ newest \in [Logins -> 0..MaxVersion]
      /\ newest' = [newest EXCEPT ![l] = 1]
  BY GrokAssumption DEF Grok!Exchange, Grok!Procs, GrokInv, GrokTypes
<1>2. /\ holds' = [p \in Grok!Procs |-> holds'[p]]
      /\ \A p \in Grok!Procs \ {l} : grokPc'[p] = grokPc[p] /\ holds'[p] = holds[p]
      /\ grokPc' \in [Grok!Procs -> {"idle", "refresh", "exchange", "save", "writing", "done"}]
      /\ grokPc'[l] = "save" /\ holds'[l] = [login |-> l, version |-> 1]
  BY <1>1 DEF GrokInv, GrokTypes, Grok!Exchange
<1>3. /\ newest' \in [Logins -> 0..MaxVersion] /\ newest'[l] = 1
      /\ \A k \in Logins \ {l} : newest'[k] = newest[k]
  BY <1>1, GrokAssumption
<1>4. holds'[l] \in Grok!Tokens /\ holds'[l].login = l /\ holds'[l].version = 1
  BY <1>2, GrokAssumption DEF Grok!Tokens
<1>5. Pending(l)' /\ \A p \in Grok!Procs \ {l} : Pending(p)' <=> Pending(p)
  BY <1>1, <1>2 DEF Pending
<1>6. GrokTypes'
  BY <1>1, <1>2, <1>3, <1>4, <1>5 DEF GrokInv, GrokTypes
<1>7. \A t \in Grok!Tokens : t.version <= newest[t.login] => t.login \in Logins \ {l}
  BY <1>1, TokensAre
<1>8. GivenOnce'
  <2>1. (file \in Grok!Tokens => file.version <= newest[file.login])'
    BY <1>1, <1>3, <1>7 DEF GrokInv, GivenOnce
  <2>2. ASSUME NEW p \in Grok!Procs, grokPc'[p] = "refresh"
        PROVE  p # l /\ holds'[p] \in Grok!Tokens /\ holds'[p].login \in Logins \ {l}
               /\ holds'[p].version <= newest'[holds'[p].login]
    BY <1>2, <1>3, <1>7, <2>2 DEF GrokInv, GivenOnce, GrokTypes
  <2>3. ASSUME NEW p \in Grok!Procs, p # l, Pending(p)'
        PROVE  /\ Pending(p) /\ holds'[p] = holds[p] /\ holds'[p].login \in Logins \ {l}
               /\ holds'[p].version = newest'[holds'[p].login]
    <3>1. holds[p] \in Grok!Tokens /\ holds[p].version = newest[holds[p].login] /\ Pending(p)
      BY <1>5, <2>3 DEF GrokInv, GivenOnce, GrokTypes
    <3>2. holds[p].login \in Logins /\ holds[p].version \in 1..MaxVersion
      BY <3>1, TokensAre
    <3>3. holds[p].login # l
      BY <1>1, <3>1, <3>2
    <3> QED BY <1>2, <1>3, <2>3, <3>1, <3>2, <3>3
  <2>4. ASSUME NEW p \in Grok!Procs, Pending(p)'
        PROVE  /\ holds'[p].version = newest'[holds'[p].login]
               /\ file' # holds'[p]
               /\ \A q \in Grok!Procs : Pending(q)' /\ holds'[q].login = holds'[p].login => q = p
               /\ \A q \in Grok!Procs : grokPc'[q] = "refresh" => holds'[q] # holds'[p]
    <3>1. CASE p = l
      <4>1. file' # holds'[l]
        BY <1>1, <1>4, <1>7 DEF GrokInv, GivenOnce
      <4> QED BY <1>3, <1>4, <2>2, <2>3, <3>1, <4>1
    <3>2. CASE p # l
      BY <1>1, <1>2, <1>4, <2>2, <2>3, <2>4, <3>2 DEF GrokInv, GivenOnce
    <3> QED BY <3>1, <3>2
  <2> QED BY <2>1, <2>2, <2>4 DEF GivenOnce
<1>9. ASSUME NEW k \in Logins PROVE Alive(k)'
  BY <1>1, <1>3, <1>4, <1>5 DEF Alive
<1>10. Grok!OwnLogin' /\ Grok!TornOnlyWhileWritten'
  BY <1>1, <1>2, <1>4 DEF GrokInv, Grok!OwnLogin, Grok!TornOnlyWhileWritten, Grok!Writing, Grok!Procs
<1> QED BY <1>6, <1>8, <1>9, <1>10 DEF GrokInv

(* While a write is under way the file is torn; who writes still has the     *)
(* tokens.                                                                 *)
LEMMA StartSaveKeeps ==
  ASSUME GrokInv, NEW p \in Grok!Procs, Grok!StartSave(p)
  PROVE  GrokInv'
<1>1. /\ UNCHANGED <<expiring, newest, holds, torn, died>> /\ Pending(p) /\ grokPc[p] = "save"
      /\ file' = Grok!Torn /\ grokPc' = [grokPc EXCEPT ![p] = "writing"]
  BY DEF Grok!StartSave, Pending
<1>2. grokPc'[p] = "writing" /\ \A q \in Grok!Procs \ {p} : grokPc'[q] = grokPc[q]
  BY <1>1 DEF GrokInv, GrokTypes
<1>3. \A q \in Grok!Procs : Pending(q)' <=> Pending(q)
  BY <1>1, <1>2 DEF Pending
<1>4. \A t \in Grok!Tokens : t # Grok!Torn
  BY TokensAre
<1>5. GrokTypes'
  BY <1>1, <1>2, <1>3 DEF GrokInv, GrokTypes
<1>6. GivenOnce'
  BY <1>1, <1>2, <1>3, <1>4 DEF GrokInv, GrokTypes, GivenOnce
<1>7. ASSUME NEW l \in Logins PROVE Alive(l)'
  <2>1. CASE holds[p].login = l
    BY <1>1, <1>3, <2>1 DEF Alive
  <2>2. CASE holds[p].login # l
    <3>1. holds[p] \in Grok!Tokens /\ newest[holds[p].login] = holds[p].version
      BY <1>1 DEF GrokInv, GrokTypes, GivenOnce
    <3>2. holds[p].login \in Logins /\ newest[holds[p].login] > 0
      BY <3>1, TokensAre, GrokAssumption
    <3> QED BY <1>1, <2>2, <3>2 DEF Alive
  <2> QED BY <2>1, <2>2
<1>8. Grok!OwnLogin' /\ Grok!TornOnlyWhileWritten'
  BY <1>1, <1>2 DEF GrokInv, Grok!OwnLogin, Grok!TornOnlyWhileWritten, Grok!Writing, Grok!Procs
<1> QED BY <1>5, <1>6, <1>7, <1>8 DEF GrokInv

(* What was written is the last version of its login.                       *)
LEMMA EndSaveKeeps ==
  ASSUME GrokInv, NEW p \in Grok!Procs, Grok!EndSave(p)
  PROVE  GrokInv'
<1>1. /\ UNCHANGED <<expiring, newest, holds, torn, died>> /\ Pending(p) /\ grokPc[p] = "writing"
      /\ file' = holds[p] /\ grokPc' = [grokPc EXCEPT ![p] = "done"]
  BY DEF Grok!EndSave, Grok!Fill, Pending
<1>2. grokPc'[p] = "done" /\ \A q \in Grok!Procs \ {p} : grokPc'[q] = grokPc[q]
  BY <1>1 DEF GrokInv, GrokTypes
<1>3. ~Pending(p)' /\ \A q \in Grok!Procs \ {p} : Pending(q)' <=> Pending(q)
  BY <1>1, <1>2 DEF Pending
<1>4. /\ holds[p] \in Grok!Tokens /\ newest[holds[p].login] = holds[p].version
      /\ holds[p].login \in Logins /\ newest[holds[p].login] > 0
      /\ holds[p] = [login |-> holds[p].login, version |-> newest[holds[p].login]]
      /\ holds[p] # Grok!Torn
  <2>1. holds[p] \in Grok!Tokens /\ newest[holds[p].login] = holds[p].version
    BY <1>1 DEF GrokInv, GrokTypes, GivenOnce
  <2> QED BY <2>1, TokensAre, GrokAssumption
<1>5. GrokTypes'
  BY <1>1, <1>2, <1>3, <1>4 DEF GrokInv, GrokTypes
<1>6. GivenOnce'
  <2>1. holds[p].version <= newest[holds[p].login]
    BY <1>4, TokensAre, GrokAssumption
  <2>2. \A q \in Grok!Procs : Pending(q)' => holds[q] # holds[p]
    BY <1>1, <1>3 DEF GrokInv, GivenOnce
  <2> QED BY <1>1, <1>2, <1>3, <2>1, <2>2 DEF GrokInv, GivenOnce
<1>7. ASSUME NEW l \in Logins PROVE Alive(l)'
  BY <1>1, <1>4 DEF Alive
<1>8. Grok!OwnLogin' /\ Grok!TornOnlyWhileWritten'
  BY <1>1, <1>2, <1>4 DEF GrokInv, Grok!OwnLogin, Grok!TornOnlyWhileWritten, Grok!Writing, Grok!Procs
<1> QED BY <1>5, <1>6, <1>7, <1>8 DEF GrokInv

(* The process of a request or login dies, perhaps in the middle of the     *)
(* file.                                                                    *)
LEMMA DieKeeps ==
  ASSUME GrokInv, NEW p \in Grok!Procs, Grok!Die(p)
  PROVE  GrokInv'
<1>1. /\ UNCHANGED <<file, expiring, newest, holds>> /\ Pending(p) /\ died'
      /\ torn' = (torn \/ grokPc[p] = "writing") /\ grokPc' = [grokPc EXCEPT ![p] = "done"]
  BY DEF Grok!Die, Pending
<1>2. grokPc'[p] = "done" /\ \A q \in Grok!Procs \ {p} : grokPc'[q] = grokPc[q]
  BY <1>1 DEF GrokInv, GrokTypes
<1>3. ~Pending(p)' /\ \A q \in Grok!Procs \ {p} : Pending(q)' <=> Pending(q)
  BY <1>1, <1>2 DEF Pending
<1>4. GrokTypes'
  BY <1>1, <1>2, <1>3 DEF GrokInv, GrokTypes
<1>5. GivenOnce'
  BY <1>1, <1>2, <1>3 DEF GrokInv, GivenOnce
<1>6. \A l \in Logins : Alive(l)'
  BY <1>1 DEF Alive
<1>7. Grok!OwnLogin' /\ Grok!TornOnlyWhileWritten'
  BY <1>1, <1>2 DEF GrokInv, Grok!OwnLogin, Grok!TornOnlyWhileWritten, Grok!Writing, Grok!Procs
<1> QED BY <1>4, <1>5, <1>6, <1>7 DEF GrokInv

(* No step of a request or login breaks the invariant.                      *)
LEMMA NextGrok == GrokInv /\ [Grok!Next]_(Grok!vars) => GrokInv'
<1> SUFFICES ASSUME GrokInv, [Grok!Next]_(Grok!vars) PROVE GrokInv'
  OBVIOUS
<1>1. CASE UNCHANGED Grok!vars
  BY <1>1 DEF Grok!vars, GrokInv, GrokTypes, GivenOnce, Alive, Pending, Grok!OwnLogin,
     Grok!TornOnlyWhileWritten, Grok!Writing
<1>2. CASE Grok!Expire
  BY <1>2 DEF Grok!Expire, GrokInv, GrokTypes, GivenOnce, Alive, Pending, Grok!OwnLogin,
     Grok!TornOnlyWhileWritten, Grok!Writing
<1> QED BY <1>1, <1>2, LoadKeeps, RefreshKeeps, LoginKeeps, ExchangeKeeps, StartSaveKeeps, EndSaveKeeps,
           DieKeeps DEF Grok!Next

(* The requests and logins to Grok never leave the invariant above: who may *)
(* write the credentials file, and what it may lack.                        *)
THEOREM GrokHolds == Spec => []GrokInv
<1>1. Init => GrokInv
  BY InitGrok DEF Init
<1>2. GrokInv /\ [Next]_vars => GrokInv'
  BY NextGrok, GrokSteps
<1> QED BY <1>1, <1>2, PTL DEF Spec

(* Nobody died, so what the file lacks is with one who saves it.            *)
LEMMA GrokMeans == GrokInv => /\ Grok!TypeOK /\ Grok!TornOnlyWhileWritten /\ Grok!Refreshable
                              /\ Grok!OwnLogin
<1> SUFFICES ASSUME GrokInv PROVE Grok!TypeOK /\ Grok!Refreshable
  BY DEF GrokInv
<1>1. Grok!TypeOK
  BY DEF GrokInv, GrokTypes, Grok!TypeOK
<1>2. ASSUME NEW l \in Logins, file \in Grok!Tokens, file.login = l, ~died, file.version < newest[l]
      PROVE  \E p \in Grok!Procs :
               \/ grokPc[p] \in {"save", "writing"} /\ holds[p] = [login |-> l, version |-> newest[l]]
               \/ p \in Logins \ {l} /\ newest[p] > 0
  <2>1. file.version \in 1..MaxVersion /\ newest[l] \in 0..MaxVersion
    BY <1>2, TokensAre DEF GrokInv, GrokTypes
  <2>2. newest[l] > 0 /\ file # [login |-> l, version |-> newest[l]]
    BY <1>2, <2>1, GrokAssumption
  <2>3. CASE \E k \in Logins \ {l} : newest[k] > 0
    BY <2>3 DEF Grok!Procs
  <2>4. CASE \E p \in Grok!Procs : Pending(p) /\ holds[p].login = l
    <3>1. PICK p \in Grok!Procs : Pending(p) /\ holds[p].login = l
      BY <2>4
    <3>2. holds[p] \in Grok!Tokens /\ holds[p].version = newest[l]
      BY <3>1 DEF GrokInv, GrokTypes, GivenOnce
    <3>3. holds[p] = [login |-> l, version |-> newest[l]]
      BY <3>1, <3>2, TokensAre
    <3> QED BY <3>1, <3>3 DEF Pending
  <2> QED BY <1>2, <2>2, <2>3, <2>4 DEF GrokInv, Alive
<1> QED BY <1>1, <1>2 DEF Grok!Refreshable

-----------------------------------------------------------------------------
(* The stream of an answer to a chat.                                      *)

(* A step is one of the stream of an answer or leaves it as it is.          *)
LEMMA StreamSteps == [Next]_vars => [Stream!Next]_(Stream!vars)
<1> SUFFICES ASSUME [Next]_vars PROVE Stream!Next \/ UNCHANGED streamVars
  BY DEF streamVars, Stream!vars
<1>1. CASE UNCHANGED vars
  BY <1>1, Zenon DEF vars
<1>2. CASE Only("stream") /\ Stream!Next
  BY <1>2
<1>3. CASE \E p \in {"ipc", "mcp", "lsp", "grok", "files", "voice"} : Only(p)
  BY <1>3 DEF Only
<1> QED BY <1>1, <1>2, <1>3, Zenon DEF Next

-----------------------------------------------------------------------------
(* The calls of Telegram: their texts and what becomes of them.             *)

TextSet == Stream!Texts \cup {Stream!NoText}

CallSet == [op : {"none", "send", "edit"}, msg : Nat, text : TextSet,
            at : {"none", "out", "back"}, ok : BOOLEAN]

(* The texts differ, but for a preview that was shown already.              *)
LEMMA TextsDiffer ==
  /\ Stream!Final \in Stream!Texts /\ Stream!Long \in Stream!Texts
  /\ Stream!Opening \in Stream!Texts /\ Stream!Rest \in Stream!Texts
  /\ \A n \in 1..MaxDeltas : Stream!Preview(n) \in Stream!Texts
  /\ Stream!Final # Stream!Long /\ Stream!Final # Stream!Opening /\ Stream!Final # Stream!Rest
  /\ Stream!Long # Stream!Opening /\ Stream!Long # Stream!Rest /\ Stream!Opening # Stream!Rest
  /\ \A n : /\ Stream!Preview(n) # Stream!Final /\ Stream!Preview(n) # Stream!Long
            /\ Stream!Preview(n) # Stream!Opening /\ Stream!Preview(n) # Stream!Rest
BY DEF Stream!Texts, Stream!Final, Stream!Long, Stream!Opening, Stream!Rest, Stream!Preview

(* A request is on its way when it is made.                                 *)
LEMMA RequestMade ==
  ASSUME NEW t \in TextSet, NEW m \in Nat
  PROVE  /\ Stream!SendMessage(t) \in CallSet /\ Stream!EditMessageText(m, t) \in CallSet
         /\ Stream!SendMessage(t).op = "send" /\ Stream!SendMessage(t).at = "out"
         /\ Stream!SendMessage(t).text = t /\ Stream!SendMessage(t).msg = 0
         /\ Stream!EditMessageText(m, t).op = "edit" /\ Stream!EditMessageText(m, t).at = "out"
         /\ Stream!EditMessageText(m, t).text = t /\ Stream!EditMessageText(m, t).msg = m
<1>1. ASSUME NEW o \in {"send", "edit"}, NEW n \in Nat, NEW b \in BOOLEAN
      PROVE  /\ [op |-> o, msg |-> n, text |-> t, at |-> "out", ok |-> b] \in CallSet
             /\ [op |-> o, msg |-> n, text |-> t, at |-> "out", ok |-> b].op = o
             /\ [op |-> o, msg |-> n, text |-> t, at |-> "out", ok |-> b].at = "out"
             /\ [op |-> o, msg |-> n, text |-> t, at |-> "out", ok |-> b].text = t
             /\ [op |-> o, msg |-> n, text |-> t, at |-> "out", ok |-> b].msg = n
  BY DEF CallSet
<1>2. FALSE \in BOOLEAN /\ "send" \in {"send", "edit"} /\ "edit" \in {"send", "edit"} /\ 0 \in Nat
  OBVIOUS
<1> QED BY <1>1, <1>2, Zenon DEF Stream!SendMessage, Stream!EditMessageText

(* What stands for no request.                                              *)
LEMMA NoCallIs ==
  /\ Stream!NoCall \in CallSet /\ Stream!NoCall.op = "none" /\ Stream!NoCall.at = "none"
  /\ Stream!NoCall.msg = 0 /\ Stream!NoCall.text = Stream!NoText
<1>1. ASSUME NEW b \in BOOLEAN
      PROVE  LET x == [op |-> "none", msg |-> 0, text |-> Stream!NoText, at |-> "none", ok |-> b]
             IN  x \in CallSet /\ x.op = "none" /\ x.at = "none" /\ x.msg = 0 /\ x.text = Stream!NoText
  BY DEF CallSet, TextSet
<1>2. FALSE \in BOOLEAN
  OBVIOUS
<1> QED BY <1>1, <1>2, Zenon DEF Stream!NoCall

(* What an answer changes of a request.                                     *)
LEMMA AnswerSets ==
  ASSUME streamCall \in [Stream!Actors -> CallSet], NEW a \in Stream!Actors, NEW b \in BOOLEAN,
         NEW m \in Nat, Stream!Answer(a, b, m)
  PROVE  /\ streamCall' \in [Stream!Actors -> CallSet]
         /\ streamCall'[a].op = streamCall[a].op /\ streamCall'[a].text = streamCall[a].text
         /\ streamCall'[a].at = "back" /\ streamCall'[a].ok = b /\ streamCall'[a].msg = m
         /\ \A c \in Stream!Actors \ {a} : streamCall'[c] = streamCall[c]
<1>1. PICK x \in CallSet : x = streamCall[a]
  OBVIOUS
<1>5. PICK y : y = [x EXCEPT !.at = "back", !.ok = b, !.msg = m]
  OBVIOUS
<1>2. streamCall' = [streamCall EXCEPT ![a] = y]
  BY <1>1, <1>5 DEF Stream!Answer
<1>3. y \in CallSet /\ y.op = x.op /\ y.text = x.text /\ y.at = "back" /\ y.ok = b /\ y.msg = m
  BY <1>5 DEF CallSet
<1>4. /\ streamCall'[a] = y /\ streamCall' \in [Stream!Actors -> CallSet]
      /\ \A c \in Stream!Actors \ {a} : streamCall'[c] = streamCall[c]
  BY <1>2, <1>3
<1> QED BY <1>1, <1>3, <1>4

-----------------------------------------------------------------------------
(* What holds however the calls of Telegram overlap and fail.               *)

StreamTypes ==
  /\ streamBuffer \in 0..MaxDeltas /\ messageId \in 0..Len(chat)
  /\ editTimer \in BOOLEAN /\ finished \in BOOLEAN /\ raced \in BOOLEAN
  /\ streamCall \in [Stream!Actors -> CallSet]
  /\ chat \in Seq(Stream!Texts)
  /\ phase \in {"running", "finishing", "done", "failed", "elsewhere"}
  /\ reply \in TextSet /\ daemon \in {"up", "down"} /\ streamFaults \in 0..MaxFaults

(* A request is about a text, and one that was answered about a message.    *)
Asked ==
  \A a \in Stream!Actors :
    /\ streamCall[a].op # "none" => streamCall[a].text \in Stream!Texts
    /\ streamCall[a].msg \in 0..Len(chat)
    /\ \/ streamCall[a].op = "edit"
       \/ streamCall[a].op = "send" /\ streamCall[a].at = "back" /\ streamCall[a].ok = TRUE
       => streamCall[a].msg \in 1..Len(chat)

(* A flush shows what the buffer held, and its message fails only by a fault. *)
Previews ==
  \A f \in Flushes :
    /\ streamCall[f] # Stream!NoCall => \E n \in 1..streamBuffer : streamCall[f].text = Stream!Preview(n)
    /\ streamCall[f].op = "send" /\ streamCall[f].at = "back" => streamCall[f].ok = TRUE \/ streamFaults > 0

Phases ==
  /\ phase \in {"running", "elsewhere"} => finished = FALSE
  /\ phase \notin {"running", "elsewhere"} => editTimer = FALSE \/ streamBuffer = 0
  /\ phase # "finishing" => streamCall["finish"] = Stream!NoCall
  /\ phase = "finishing" => streamCall["finish"] # Stream!NoCall

(* Without a race there is one call at a time, and the message is made once. *)
OneAtATime ==
  \/ raced = TRUE
  \/ /\ \A a, b \in Stream!Actors :
          streamCall[a] # Stream!NoCall /\ streamCall[b] # Stream!NoCall => a = b
     /\ \A f \in Flushes : streamCall[f].op = "send" => messageId = 0

DownByPreview == daemon = "down" => streamFaults > 0 /\ (messageId = 0 \/ raced = TRUE)

CallsInv == StreamTypes /\ Asked /\ Previews /\ Phases /\ OneAtATime /\ DownByPreview

(* The delivery is none of the flushes.                                     *)
LEMMA TheActors == Flushes \subseteq Stream!Actors /\ "finish" \in Stream!Actors /\ "finish" \notin Flushes
                   /\ \A a \in Stream!Actors : a \in Flushes \/ a = "finish"
BY ChatAssumption DEF Stream!Actors

(* One actor's call is replaced.                                           *)
LEMMA CallSets ==
  ASSUME StreamTypes, NEW a \in Stream!Actors, NEW x \in CallSet,
         streamCall' = [streamCall EXCEPT ![a] = x]
  PROVE  /\ streamCall' \in [Stream!Actors -> CallSet] /\ streamCall'[a] = x
         /\ \A b \in Stream!Actors \ {a} : streamCall'[b] = streamCall[b]
BY DEF StreamTypes

(* The numbers of messages and deltas.                                     *)
LEMMA Counts ==
  ASSUME StreamTypes
  PROVE  /\ Len(chat) \in Nat /\ streamBuffer \in Nat /\ messageId \in Nat /\ streamFaults \in Nat
         /\ streamBuffer <= MaxDeltas /\ messageId <= Len(chat) /\ streamFaults <= MaxFaults
         /\ MaxDeltas \in Nat /\ MaxFaults \in Nat
<1>1. chat \in Seq(Stream!Texts) /\ MaxDeltas \in Nat /\ MaxFaults \in Nat
  BY ChatAssumption DEF StreamTypes
<1>2. Len(chat) \in Nat
  BY <1>1
<1>3. streamBuffer \in 0..MaxDeltas /\ messageId \in 0..Len(chat) /\ streamFaults \in 0..MaxFaults
  BY DEF StreamTypes
<1> QED BY <1>1, <1>2, <1>3

(* A turn starts with an empty buffer and an empty chat.                    *)
LEMMA InitCalls == Stream!Init => CallsInv
<1> SUFFICES ASSUME Stream!Init PROVE CallsInv
  OBVIOUS
<1>1. /\ streamBuffer = 0 /\ messageId = 0 /\ editTimer = FALSE /\ finished = FALSE
      /\ streamCall = [a \in Stream!Actors |-> Stream!NoCall] /\ chat = <<>>
      /\ phase = "running" /\ reply = Stream!NoText /\ daemon = "up" /\ streamFaults = 0 /\ raced = FALSE
  BY Zenon DEF Stream!Init
<1>2. editTimer \in BOOLEAN /\ finished \in BOOLEAN /\ raced \in BOOLEAN
  BY <1>1, Zenon
<1>3. chat \in Seq(Stream!Texts) /\ Len(chat) = 0
  BY <1>1
<1>4. streamBuffer \in 0..MaxDeltas /\ messageId \in 0..Len(chat) /\ streamFaults \in 0..MaxFaults
  <2>1. streamBuffer = 0 /\ messageId = 0 /\ streamFaults = 0
    BY <1>1, Zenon
  <2> QED BY <1>3, <2>1, ChatAssumption
<1>5. \A a \in Stream!Actors : streamCall[a] = Stream!NoCall
  BY <1>1
<1>6. streamCall \in [Stream!Actors -> CallSet]
  BY <1>1, NoCallIs
<1>7. StreamTypes
  <2>1. phase = "running" /\ reply \in TextSet /\ daemon = "up"
    BY <1>1 DEF TextSet
  <2> QED BY <1>2, <1>3, <1>4, <1>6, <2>1 DEF StreamTypes
<1>8. Asked
  BY <1>3, <1>5, NoCallIs DEF Asked
<1>9. Previews
  BY <1>5, NoCallIs, TheActors DEF Previews
<1>10. Phases
  <2>1. phase = "running" /\ finished = FALSE
    BY <1>1, Zenon
  <2> QED BY <1>5, <2>1, TheActors, Zenon DEF Phases
<1>11. OneAtATime
  BY <1>5, NoCallIs, TheActors DEF OneAtATime
<1>12. DownByPreview
  BY <1>1 DEF DownByPreview
<1> QED BY <1>7, <1>8, <1>9, <1>10, <1>11, <1>12 DEF CallsInv

(* A delta fills the buffer and sets the timer.                             *)
LEMMA OnDeltaKeeps ==
  ASSUME CallsInv, Stream!OnDelta
  PROVE  CallsInv'
<1>1. /\ phase = "running" /\ streamBuffer < MaxDeltas /\ streamBuffer' = streamBuffer + 1
      /\ editTimer' = TRUE
      /\ UNCHANGED <<messageId, finished, streamCall, chat, phase, reply, daemon, streamFaults, raced>>
  BY Zenon DEF Stream!OnDelta
<1>2. streamBuffer' \in 0..MaxDeltas /\ \A n \in 1..streamBuffer : n \in 1..streamBuffer'
  <2>1. streamBuffer \in Nat /\ MaxDeltas \in Nat
    BY Counts DEF CallsInv
  <2> QED BY <1>1, <2>1
<1>3. StreamTypes'
  <2>1. editTimer' \in BOOLEAN
    BY <1>1, Zenon
  <2> QED BY <1>1, <1>2, <2>1 DEF CallsInv, StreamTypes
<1>4. Asked'
  BY <1>1 DEF CallsInv, Asked
<1>5. Previews'
  BY <1>1, <1>2 DEF CallsInv, Previews
<1>6. Phases'
  BY <1>1 DEF CallsInv, Phases
<1>7. OneAtATime' /\ DownByPreview'
  BY <1>1 DEF CallsInv, OneAtATime, DownByPreview
<1> QED BY <1>3, <1>4, <1>5, <1>6, <1>7 DEF CallsInv

(* A stream that is not active has no message and an empty buffer.          *)
LEMMA InactiveIs ==
  ASSUME CallsInv, phase = "running", ~Stream!IsActive
  PROVE  messageId = 0 /\ streamBuffer = 0 /\ finished = FALSE
<1>1. finished = FALSE
  BY Zenon DEF CallsInv, Phases
<1>2. messageId = 0 /\ ~(streamBuffer > 0)
  BY <1>1 DEF Stream!IsActive
<1> QED BY <1>1, <1>2, Counts DEF CallsInv

(* The turn ends without the stream.                                        *)
LEMMA TurnEndsKeep ==
  ASSUME CallsInv, Stream!DeliverByHandler \/ Stream!TurnEndsOtherwise
  PROVE  CallsInv'
<1>1. /\ phase = "running" /\ phase' \in {"elsewhere", "done"}
      /\ phase' = "done" => Stream!DeliverByHandler
      /\ UNCHANGED <<streamBuffer, messageId, editTimer, finished, streamCall, daemon, streamFaults, raced>>
  BY Zenon DEF Stream!DeliverByHandler, Stream!TurnEndsOtherwise
<1>2. phase' = "done" => streamBuffer = 0
  BY <1>1, InactiveIs DEF Stream!DeliverByHandler
<1>3. \/ UNCHANGED <<chat, reply>>
      \/ chat' = Append(chat, Stream!Final) /\ reply' = Stream!Final
  BY DEF Stream!DeliverByHandler, Stream!TurnEndsOtherwise
<1>4. /\ chat' \in Seq(Stream!Texts) /\ reply' \in TextSet
      /\ Len(chat) \in Nat /\ Len(chat') \in Nat /\ Len(chat) <= Len(chat')
  BY <1>3, TextsDiffer DEF CallsInv, StreamTypes, TextSet
<1>5. \A n : (n \in 0..Len(chat) => n \in 0..Len(chat')) /\ (n \in 1..Len(chat) => n \in 1..Len(chat'))
  BY <1>4
<1>6. StreamTypes'
  BY <1>1, <1>4, <1>5 DEF CallsInv, StreamTypes
<1>7. Asked'
  BY <1>1, <1>5 DEF CallsInv, Asked
<1>8. Previews' /\ OneAtATime' /\ DownByPreview'
  BY <1>1 DEF CallsInv, Previews, OneAtATime, DownByPreview
<1>9. Phases'
  BY <1>1, <1>2 DEF CallsInv, Phases
<1> QED BY <1>6, <1>7, <1>8, <1>9 DEF CallsInv

(* A call that replaces another one, or none.                               *)
LEMMA ReplacedCall ==
  ASSUME CallsInv, NEW a \in Stream!Actors, NEW x \in CallSet,
         streamCall' = [streamCall EXCEPT ![a] = x], UNCHANGED <<streamBuffer, chat, streamFaults>>,
         x.op # "none" => x.text \in Stream!Texts,
         x.msg \in 0..Len(chat), x.op = "edit" => x.msg \in 1..Len(chat), x.at # "back",
         a \in Flushes => x = Stream!NoCall \/ \E n \in 1..streamBuffer : x.text = Stream!Preview(n)
  PROVE  Asked' /\ Previews'
<1>1. /\ streamCall'[a] = x
      /\ \A b \in Stream!Actors \ {a} : streamCall'[b] = streamCall[b]
  BY CallSets DEF CallsInv
<1>2. Asked'
  BY <1>1 DEF CallsInv, Asked
<1>3. Previews'
  BY <1>1, TheActors DEF CallsInv, Previews
<1> QED BY <1>2, <1>3

(* Nothing is under way when no actor has a request.                        *)
LEMMA NoneUnderWay == ~Stream!UnderWay <=> \A a \in Stream!Actors : streamCall[a] = Stream!NoCall
BY DEF Stream!UnderWay

(* A call that starts beside none is no race.                               *)
LEMMA RacedIs ==
  ASSUME StreamTypes, raced' = (raced \/ Stream!UnderWay)
  PROVE  /\ raced' \in BOOLEAN /\ (raced = TRUE => raced' = TRUE)
         /\ raced' = TRUE \/ (raced # TRUE /\ ~Stream!UnderWay)
BY Zenon DEF StreamTypes

(* A flush makes the message, or edits the one there is.                    *)
LEMMA FlushKeeps ==
  ASSUME CallsInv, NEW f \in Flushes, Stream!Flush(f)
  PROVE  CallsInv'
<1>1. /\ daemon = "up" /\ streamCall[f] = Stream!NoCall /\ editTimer' = FALSE
      /\ UNCHANGED <<streamBuffer, messageId, finished, chat, phase, reply, daemon, streamFaults>>
      /\ \/ UNCHANGED <<streamCall, raced>>
         \/ /\ streamBuffer # 0 /\ raced' = (raced \/ Stream!UnderWay)
            /\ streamCall' = [streamCall EXCEPT ![f] =
                 IF messageId = 0 THEN Stream!SendMessage(Stream!Preview(streamBuffer))
                 ELSE Stream!EditMessageText(messageId, Stream!Preview(streamBuffer))]
  BY Zenon DEF Stream!Flush
<1>2. editTimer' \in BOOLEAN
  BY <1>1, Zenon
<1>3. CASE UNCHANGED <<streamCall, raced>>
  <2>1. StreamTypes'
    BY <1>1, <1>2, <1>3 DEF CallsInv, StreamTypes
  <2>2. Asked' /\ Previews' /\ OneAtATime' /\ DownByPreview'
    BY <1>1, <1>3 DEF CallsInv, Asked, Previews, OneAtATime, DownByPreview
  <2>3. Phases'
    BY <1>1, <1>3, Zenon DEF CallsInv, Phases
  <2> QED BY <2>1, <2>2, <2>3 DEF CallsInv
<1>4. ASSUME NEW x \in CallSet, streamCall' = [streamCall EXCEPT ![f] = x],
             raced' = (raced \/ Stream!UnderWay), streamBuffer # 0,
             x.op \in {"send", "edit"}, x.at = "out", x.text = Stream!Preview(streamBuffer),
             x.msg = messageId, x.op = "send" <=> messageId = 0
      PROVE  CallsInv'
  <2>1. /\ streamCall' \in [Stream!Actors -> CallSet] /\ streamCall'[f] = x
        /\ \A b \in Stream!Actors \ {f} : streamCall'[b] = streamCall[b]
    BY <1>4, CallSets, TheActors DEF CallsInv
  <2>2. streamBuffer \in 1..streamBuffer /\ x.text \in Stream!Texts
    <3>1. streamBuffer \in 1..MaxDeltas /\ streamBuffer \in 1..streamBuffer
      BY <1>4, Counts DEF CallsInv
    <3> QED BY <1>4, <3>1, TextsDiffer
  <2>3. x.msg \in 0..Len(chat) /\ (x.op = "edit" => x.msg \in 1..Len(chat))
    <3>1. messageId \in 0..Len(chat) /\ (messageId # 0 => messageId \in 1..Len(chat))
      BY Counts DEF CallsInv
    <3> QED BY <1>4, <3>1
  <2>4. Asked' /\ Previews'
    BY <1>1, <1>4, <2>2, <2>3, ReplacedCall, TheActors
  <2>5. raced' \in BOOLEAN /\ (raced' = TRUE \/ (raced # TRUE /\ ~Stream!UnderWay))
    BY <1>4, RacedIs DEF CallsInv
  <2>6. StreamTypes'
    BY <1>1, <1>2, <2>1, <2>5 DEF CallsInv, StreamTypes
  <2>7. Phases'
    <3>1. streamCall'["finish"] = streamCall["finish"]
      BY <2>1, TheActors
    <3> QED BY <1>1, <3>1, Zenon DEF CallsInv, Phases
  <2>8. OneAtATime'
    <3>1. CASE raced # TRUE /\ ~Stream!UnderWay
      <4>1. \A a \in Stream!Actors : streamCall[a] = Stream!NoCall
        BY <3>1, NoneUnderWay
      <4>2. \A b \in Stream!Actors : streamCall'[b] # Stream!NoCall => b = f
        BY <2>1, <4>1
      <4>3. \A g \in Flushes : streamCall'[g].op = "send" => messageId' = 0
        BY <1>1, <1>4, <2>1, <4>1, NoCallIs, TheActors
      <4> QED BY <4>2, <4>3 DEF OneAtATime
    <3>2. CASE raced' = TRUE
      BY <3>2 DEF OneAtATime
    <3> QED BY <2>5, <3>1, <3>2
  <2>9. DownByPreview'
    BY <1>1 DEF DownByPreview
  <2> QED BY <2>4, <2>6, <2>7, <2>8, <2>9 DEF CallsInv
<1>5. CASE /\ streamBuffer # 0 /\ raced' = (raced \/ Stream!UnderWay)
           /\ streamCall' = [streamCall EXCEPT ![f] =
                IF messageId = 0 THEN Stream!SendMessage(Stream!Preview(streamBuffer))
                ELSE Stream!EditMessageText(messageId, Stream!Preview(streamBuffer))]
  <2>1. Stream!Preview(streamBuffer) \in TextSet /\ messageId \in Nat
    <3>1. streamBuffer \in 1..MaxDeltas /\ messageId \in Nat
      BY <1>5, Counts DEF CallsInv
    <3> QED BY <3>1, TextsDiffer DEF TextSet
  <2>2. PICK t \in TextSet : t = Stream!Preview(streamBuffer)
    BY <2>1
  <2>3. CASE messageId = 0
    <3>1. PICK x \in CallSet : x = Stream!SendMessage(t)
      BY RequestMade, <2>1
    <3>2. x.op = "send" /\ x.at = "out" /\ x.text = t /\ x.msg = 0
      BY RequestMade, <3>1, <2>1
    <3> QED BY <1>4, <1>5, <2>2, <2>3, <3>1, <3>2
  <2>4. CASE messageId # 0
    <3>1. PICK x \in CallSet : x = Stream!EditMessageText(messageId, t)
      BY RequestMade, <2>1
    <3>2. x.op = "edit" /\ x.at = "out" /\ x.text = t /\ x.msg = messageId
      BY RequestMade, <3>1, <2>1
    <3> QED BY <1>4, <1>5, <2>2, <2>4, <3>1, <3>2
  <2> QED BY <2>3, <2>4
<1> QED BY <1>1, <1>3, <1>5

(* An answer to a flush: the message is there, or it is not and the daemon    *)
(* goes down, or its edit is over.                                         *)
LEMMA FlushGoesOnKeeps ==
  ASSUME CallsInv, NEW f \in Flushes, Stream!FlushGoesOn(f)
  PROVE  CallsInv'
<1>1. /\ daemon = "up"
      /\ UNCHANGED <<streamBuffer, editTimer, finished, chat, phase, reply, streamFaults, raced>>
      /\ streamCall[f].at = "back" /\ f \in Stream!Actors
  BY TheActors DEF Stream!FlushGoesOn, Stream!PreviewMade, Stream!PreviewFails, Stream!PreviewEdited
<1>2. streamCall[f] # Stream!NoCall
  BY <1>1, NoCallIs
<1>3. ASSUME NEW x \in CallSet, streamCall' = [streamCall EXCEPT ![f] = x],
             x.op # "send", x.at # "back", messageId' \in 0..Len(chat), daemon' \in {"up", "down"}
      PROVE  StreamTypes' /\ Phases' /\ OneAtATime'
  <2>1. /\ streamCall' \in [Stream!Actors -> CallSet] /\ streamCall'[f] = x
        /\ \A b \in Stream!Actors \ {f} : streamCall'[b] = streamCall[b]
    BY <1>1, <1>3, CallSets DEF CallsInv
  <2>2. StreamTypes'
    BY <1>1, <1>3, <2>1 DEF CallsInv, StreamTypes
  <2>3. Phases'
    <3>1. streamCall'["finish"] = streamCall["finish"]
      BY <2>1, TheActors
    <3> QED BY <1>1, <3>1, Zenon DEF CallsInv, Phases
  <2>4. OneAtATime'
    <3>1. CASE raced = TRUE
      BY <1>1, <3>1 DEF OneAtATime
    <3>2. CASE raced # TRUE
      <4>1. \A b \in Stream!Actors : streamCall[b] # Stream!NoCall => b = f
        BY <1>1, <1>2, <3>2 DEF CallsInv, OneAtATime
      <4>2. \A b \in Stream!Actors : streamCall'[b] # Stream!NoCall => b = f
        BY <2>1, <4>1
      <4>3. \A g \in Flushes : streamCall'[g].op # "send"
        BY <1>3, <2>1, <4>1, NoCallIs, TheActors
      <4> QED BY <4>2, <4>3 DEF OneAtATime
    <3> QED BY <3>1, <3>2
  <2> QED BY <2>2, <2>3, <2>4
<1>4. messageId \in 0..Len(chat)
  BY DEF CallsInv, StreamTypes
<1>5. CASE Stream!PreviewMade(f)
  <2>1. /\ streamCall[f].op = "send" /\ messageId' = streamCall[f].msg /\ daemon' = daemon
        /\ streamCall' = [streamCall EXCEPT ![f] =
             Stream!EditMessageText(streamCall[f].msg, Stream!Preview(streamBuffer))]
    BY <1>5, Zenon DEF Stream!PreviewMade
  <2>2. streamCall[f].ok = TRUE
    <3>1. streamCall[f] \in CallSet /\ streamCall[f].ok
      BY <1>1, <1>5, Zenon DEF Stream!PreviewMade, CallsInv, StreamTypes
    <3>2. streamCall[f].ok \in BOOLEAN
      BY <3>1 DEF CallSet
    <3> QED BY <3>1, <3>2, Zenon
  <2>3. streamCall[f].msg \in 1..Len(chat) /\ streamCall[f].msg \in 0..Len(chat)
    BY <1>1, <2>1, <2>2 DEF CallsInv, Asked
  <2>4. streamBuffer \in 1..streamBuffer /\ streamBuffer \in 1..MaxDeltas
    <3>1. \E n \in 1..streamBuffer : TRUE
      BY <1>2 DEF CallsInv, Previews
    <3>2. streamBuffer \in Nat /\ MaxDeltas \in Nat /\ streamBuffer <= MaxDeltas
      BY Counts DEF CallsInv
    <3> QED BY <3>1, <3>2
  <2>5. PICK m \in Nat : m = streamCall[f].msg
    BY <2>3, Counts DEF CallsInv
  <2>6. PICK t \in Stream!Texts : t = Stream!Preview(streamBuffer)
    BY <2>4, TextsDiffer
  <2>7. t \in TextSet
    BY <2>6 DEF TextSet
  <2>8. PICK x \in CallSet : x = Stream!EditMessageText(m, t)
    BY <2>7, RequestMade
  <2>9. x.op = "edit" /\ x.at = "out" /\ x.text = t /\ x.msg = m
    BY <2>7, <2>8, RequestMade
  <2>10. streamCall' = [streamCall EXCEPT ![f] = x]
    BY <2>1, <2>5, <2>6, <2>8
  <2>11. Asked' /\ Previews'
    BY <1>1, <2>3, <2>4, <2>5, <2>6, <2>9, <2>10, ReplacedCall
  <2>12. DownByPreview'
    BY <1>1, <2>1 DEF DownByPreview
  <2> QED BY <1>1, <1>3, <2>1, <2>3, <2>9, <2>10, <2>11, <2>12 DEF CallsInv
<1>6. CASE Stream!PreviewFails(f) \/ Stream!PreviewEdited(f)
  <2>1. /\ streamCall' = [streamCall EXCEPT ![f] = Stream!NoCall] /\ messageId' = messageId
        /\ daemon' \in {"up", "down"}
    BY <1>1, <1>6 DEF Stream!PreviewFails, Stream!PreviewEdited
  <2>2. Asked' /\ Previews'
    <3>1. 0 \in 0..Len(chat)
      BY Counts DEF CallsInv
    <3> QED BY <1>1, <2>1, <3>1, NoCallIs, ReplacedCall
  <2>3. DownByPreview'
    <3>1. CASE Stream!PreviewFails(f)
      <4>1. streamCall[f].op = "send" /\ streamCall[f].ok # TRUE
        BY <3>1, Zenon DEF Stream!PreviewFails
      <4>2. streamFaults > 0
        BY <1>1, <4>1 DEF CallsInv, Previews
      <4>3. messageId = 0 \/ raced = TRUE
        BY <1>1, <4>1 DEF CallsInv, OneAtATime
      <4> QED BY <1>1, <2>1, <4>2, <4>3 DEF DownByPreview
    <3>2. CASE Stream!PreviewEdited(f)
      BY <1>1, <3>2 DEF Stream!PreviewEdited, DownByPreview
    <3> QED BY <1>6, <3>1, <3>2
  <2>4. StreamTypes' /\ Phases' /\ OneAtATime'
    BY <1>3, <1>4, <2>1, NoCallIs
  <2> QED BY <2>2, <2>3, <2>4 DEF CallsInv
<1> QED BY <1>5, <1>6 DEF Stream!FlushGoesOn

(* The delivery asks for the final text to be sent or shown.                *)
LEMMA FinishKeeps ==
  ASSUME CallsInv, Stream!Finish
  PROVE  CallsInv'
<1>1. /\ daemon = "up" /\ phase = "running" /\ finished' = TRUE /\ editTimer' = FALSE
      /\ phase' = "finishing" /\ raced' = (raced \/ Stream!UnderWay)
      /\ UNCHANGED <<streamBuffer, messageId, chat, daemon, streamFaults>>
  BY Zenon DEF Stream!Finish, Stream!Closed
<1>2. PICK t \in {Stream!Preview(streamBuffer), Stream!Final, Stream!Long} \ {Stream!Preview(0)} :
        /\ reply' = t
        /\ streamCall' = [streamCall EXCEPT !["finish"] =
             IF messageId = 0 THEN Stream!SendMessage(t)
             ELSE Stream!EditMessageText(messageId, IF t = Stream!Long THEN Stream!Opening ELSE t)]
  BY Zenon DEF Stream!Finish
<1>3. PICK u \in Stream!Texts : u = IF messageId # 0 /\ t = Stream!Long THEN Stream!Opening ELSE t
  <2>1. t \in Stream!Texts
    <3>1. t = Stream!Preview(streamBuffer) => streamBuffer # 0
      OBVIOUS
    <3>2. streamBuffer # 0 => streamBuffer \in 1..MaxDeltas
      BY Counts DEF CallsInv
    <3> QED BY <3>1, <3>2, TextsDiffer
  <2> QED BY <2>1, TextsDiffer
<1>4. t \in Stream!Texts \cup {u} /\ t \in TextSet /\ u \in TextSet
  BY <1>3, TextsDiffer, Counts DEF TextSet, CallsInv
<1>5. PICK x \in CallSet :
        /\ streamCall' = [streamCall EXCEPT !["finish"] = x]
        /\ x.op \in {"send", "edit"} /\ x.at = "out" /\ x.text = u /\ x.msg = messageId
        /\ x.op = "edit" => messageId # 0
  <2>1. messageId \in Nat
    BY Counts DEF CallsInv
  <2>2. CASE messageId = 0
    <3>1. PICK x \in CallSet : x = Stream!SendMessage(u)
      BY <1>4, RequestMade, <2>1
    <3>2. x.op = "send" /\ x.at = "out" /\ x.text = u /\ x.msg = 0
      BY <1>4, RequestMade, <3>1, <2>1
    <3>3. streamCall' = [streamCall EXCEPT !["finish"] = x]
      BY <1>2, <1>3, <2>2, <3>1
    <3> QED BY <2>2, <3>2, <3>3
  <2>3. CASE messageId # 0
    <3>1. PICK x \in CallSet : x = Stream!EditMessageText(messageId, u)
      BY <1>4, RequestMade, <2>1
    <3>2. x.op = "edit" /\ x.at = "out" /\ x.text = u /\ x.msg = messageId
      BY <1>4, RequestMade, <3>1, <2>1
    <3>3. streamCall' = [streamCall EXCEPT !["finish"] = x]
      BY <1>2, <1>3, <2>3, <3>1
    <3> QED BY <2>3, <3>2, <3>3
  <2> QED BY <2>2, <2>3
<1>6. /\ streamCall' \in [Stream!Actors -> CallSet] /\ streamCall'["finish"] = x
      /\ \A b \in Stream!Actors \ {"finish"} : streamCall'[b] = streamCall[b]
  BY <1>5, CallSets, TheActors DEF CallsInv
<1>7. Asked' /\ Previews'
  <2>1. messageId \in 0..Len(chat) /\ (messageId # 0 => messageId \in 1..Len(chat))
    BY Counts DEF CallsInv
  <2> QED BY <1>1, <1>3, <1>5, <2>1, ReplacedCall, TheActors
<1>8. raced' \in BOOLEAN /\ (raced' = TRUE \/ (raced # TRUE /\ ~Stream!UnderWay))
  BY <1>1, RacedIs DEF CallsInv
<1>9. StreamTypes'
  <2>1. editTimer' \in BOOLEAN /\ finished' \in BOOLEAN
    BY <1>1, Zenon
  <2>2. reply' \in TextSet
    BY <1>2, <1>4
  <2> QED BY <1>1, <1>6, <1>8, <2>1, <2>2 DEF CallsInv, StreamTypes
<1>10. Phases'
  <2>1. x # Stream!NoCall
    BY <1>5, NoCallIs
  <2> QED BY <1>1, <1>6, <2>1, Zenon DEF Phases
<1>11. OneAtATime'
  <2>1. CASE raced # TRUE /\ ~Stream!UnderWay
    <3>1. \A a \in Stream!Actors : streamCall[a] = Stream!NoCall
      BY <2>1, NoneUnderWay
    <3>2. \A b \in Stream!Actors : streamCall'[b] # Stream!NoCall => b = "finish"
      BY <1>6, <3>1
    <3>3. \A g \in Flushes : streamCall'[g].op # "send"
      BY <1>6, <3>1, NoCallIs, TheActors
    <3> QED BY <3>2, <3>3 DEF OneAtATime
  <2>2. CASE raced' = TRUE
    BY <2>2 DEF OneAtATime
  <2> QED BY <1>8, <2>1, <2>2
<1>12. DownByPreview'
  BY <1>1 DEF DownByPreview
<1> QED BY <1>7, <1>9, <1>10, <1>11, <1>12 DEF CallsInv

(* The delivery goes on with the rest of a long text, with the text again, or *)
(* it ends.                                                                *)
LEMMA FinishGoesOnKeeps ==
  ASSUME CallsInv, Stream!FinishGoesOn
  PROVE  CallsInv'
<1> DEFINE c == streamCall["finish"]
<1>1. /\ daemon = "up" /\ c.at = "back" /\ "finish" \in Stream!Actors
      /\ UNCHANGED <<streamBuffer, messageId, editTimer, finished, chat, reply, daemon, streamFaults, raced>>
  BY TheActors DEF Stream!FinishGoesOn
<1>2. c # Stream!NoCall /\ phase = "finishing" /\ c \in CallSet
  BY <1>1, NoCallIs DEF CallsInv, Phases, StreamTypes
<1>3. PICK x \in CallSet :
        /\ streamCall' = [streamCall EXCEPT !["finish"] = x]
        /\ \/ x = Stream!NoCall /\ phase' \in {"done", "failed"}
           \/ /\ phase' = phase /\ x.op = "send" /\ x.at = "out" /\ x.msg = 0
              /\ x.text \in Stream!Texts
  <2>1. CASE \/ /\ streamCall' = [streamCall EXCEPT !["finish"] = Stream!SendMessage(Stream!Rest)]
                /\ phase' = phase
             \/ /\ streamCall' = [streamCall EXCEPT !["finish"] = Stream!SendMessage(c.text)]
                /\ c.op = "edit" /\ phase' = phase
    <3>1. PICK u \in Stream!Texts :
            streamCall' = [streamCall EXCEPT !["finish"] = Stream!SendMessage(u)] /\ phase' = phase
      <4>1. c.op = "edit" => c.text \in Stream!Texts
        BY <1>1 DEF CallsInv, Asked
      <4> QED BY <2>1, <4>1, TextsDiffer
    <3>2. u \in TextSet
      BY DEF TextSet
    <3>3. PICK x \in CallSet : x = Stream!SendMessage(u)
      BY <3>2, RequestMade, Counts DEF CallsInv
    <3>4. x.op = "send" /\ x.at = "out" /\ x.text = u /\ x.msg = 0
      BY <3>2, <3>3, RequestMade, Counts DEF CallsInv
    <3> QED BY <3>1, <3>3, <3>4
  <2>2. CASE streamCall' = [streamCall EXCEPT !["finish"] = Stream!NoCall] /\ phase' \in {"done", "failed"}
    BY <2>2, NoCallIs
  <2>3. \/ /\ streamCall' = [streamCall EXCEPT !["finish"] = Stream!SendMessage(Stream!Rest)]
           /\ phase' = phase
        \/ /\ streamCall' = [streamCall EXCEPT !["finish"] = Stream!SendMessage(c.text)]
           /\ c.op = "edit" /\ phase' = phase
        \/ streamCall' = [streamCall EXCEPT !["finish"] = Stream!NoCall] /\ phase' \in {"done", "failed"}
    BY Zenon DEF Stream!FinishGoesOn, Stream!FinishAnswered
  <2> QED BY <2>1, <2>2, <2>3
<1>4. /\ streamCall' \in [Stream!Actors -> CallSet] /\ streamCall'["finish"] = x
      /\ \A b \in Stream!Actors \ {"finish"} : streamCall'[b] = streamCall[b]
  BY <1>3, CallSets, TheActors DEF CallsInv
<1>5. Asked' /\ Previews'
  <2>1. 0 \in 0..Len(chat)
    BY Counts DEF CallsInv
  <2> QED BY <1>1, <1>3, <2>1, NoCallIs, ReplacedCall, TheActors
<1>6. StreamTypes'
  BY <1>1, <1>2, <1>3, <1>4 DEF CallsInv, StreamTypes
<1>7. Phases'
  <2>1. editTimer = FALSE \/ streamBuffer = 0
    BY <1>2, Zenon DEF CallsInv, Phases
  <2>2. phase' # "finishing" <=> x = Stream!NoCall
    BY <1>2, <1>3, NoCallIs
  <2>3. phase' \in {"finishing", "done", "failed"}
    BY <1>2, <1>3
  <2> QED BY <1>1, <1>4, <2>1, <2>2, <2>3 DEF Phases
<1>8. OneAtATime'
  <2>1. CASE raced = TRUE
    BY <1>1, <2>1 DEF OneAtATime
  <2>2. CASE raced # TRUE
    <3>1. \A b \in Stream!Actors : streamCall[b] # Stream!NoCall => b = "finish"
      BY <1>1, <1>2, <2>2 DEF CallsInv, OneAtATime
    <3>2. \A b \in Stream!Actors : streamCall'[b] # Stream!NoCall => b = "finish"
      BY <1>4, <3>1
    <3>3. \A g \in Flushes : streamCall'[g].op # "send"
      BY <3>2, NoCallIs, TheActors
    <3> QED BY <3>2, <3>3 DEF OneAtATime
  <2> QED BY <2>1, <2>2
<1>9. DownByPreview'
  BY <1>1 DEF DownByPreview
<1> QED BY <1>5, <1>6, <1>7, <1>8, <1>9 DEF CallsInv

(* Telegram answers a request: a message that cannot be sent is too long, or  *)
(* a fault.                                                                *)
LEMMA AnsweredCall ==
  ASSUME CallsInv, NEW a \in Stream!Actors, NEW b \in BOOLEAN, NEW m \in Nat, Stream!Answer(a, b, m),
         streamCall[a].at = "out", chat' \in Seq(Stream!Texts), Len(chat) <= Len(chat'),
         m \in 0..Len(chat'), streamCall[a].op = "edit" \/ b = TRUE => m \in 1..Len(chat'),
         UNCHANGED <<streamBuffer, messageId, editTimer, finished, phase, reply, daemon, raced>>,
         streamFaults' \in 0..MaxFaults, streamFaults <= streamFaults',
         \/ b = TRUE \/ streamFaults' > 0 \/ streamCall[a].op = "edit"
         \/ streamCall[a].text = Stream!Long
  PROVE  CallsInv'
<1>1. /\ streamCall' \in [Stream!Actors -> CallSet]
      /\ streamCall'[a].op = streamCall[a].op /\ streamCall'[a].text = streamCall[a].text
      /\ streamCall'[a].at = "back" /\ streamCall'[a].ok = b /\ streamCall'[a].msg = m
      /\ \A c \in Stream!Actors \ {a} : streamCall'[c] = streamCall[c]
  BY AnswerSets DEF CallsInv, StreamTypes
<1>2. streamCall[a] # Stream!NoCall /\ streamCall'[a] # Stream!NoCall
  BY <1>1, NoCallIs
<1>3. \A n : (n \in 0..Len(chat) => n \in 0..Len(chat')) /\ (n \in 1..Len(chat) => n \in 1..Len(chat'))
  <2>1. Len(chat) \in Nat /\ Len(chat') \in Nat
    BY Counts DEF CallsInv
  <2> QED BY <2>1
<1>4. StreamTypes'
  BY <1>1, <1>3 DEF CallsInv, StreamTypes
<1>5. Asked'
  <2>1. ASSUME NEW c \in Stream!Actors, c # a
        PROVE  /\ streamCall'[c].op # "none" => streamCall'[c].text \in Stream!Texts
               /\ streamCall'[c].msg \in 0..Len(chat')
               /\ \/ streamCall'[c].op = "edit"
                  \/ streamCall'[c].op = "send" /\ streamCall'[c].at = "back" /\ streamCall'[c].ok = TRUE
                  => streamCall'[c].msg \in 1..Len(chat')
    BY <1>1, <1>3, <2>1 DEF CallsInv, Asked
  <2>2. /\ streamCall'[a].op # "none" => streamCall'[a].text \in Stream!Texts
        /\ streamCall'[a].msg \in 0..Len(chat')
        /\ \/ streamCall'[a].op = "edit"
           \/ streamCall'[a].op = "send" /\ streamCall'[a].at = "back" /\ streamCall'[a].ok = TRUE
           => streamCall'[a].msg \in 1..Len(chat')
    BY <1>1 DEF CallsInv, Asked
  <2> QED BY <2>1, <2>2 DEF Asked
<1>6. Previews'
  <2>1. ASSUME NEW f \in Flushes
        PROVE  /\ streamCall'[f] # Stream!NoCall =>
                    \E n \in 1..streamBuffer' : streamCall'[f].text = Stream!Preview(n)
               /\ streamCall'[f].op = "send" /\ streamCall'[f].at = "back" =>
                    streamCall'[f].ok = TRUE \/ streamFaults' > 0
    <3>1. CASE f # a
      <4>1. streamFaults > 0 => streamFaults' > 0
        <5>1. streamFaults \in Nat /\ streamFaults' \in Nat
          BY Counts DEF CallsInv
        <5> QED BY <5>1
      <4> QED BY <1>1, <3>1, <4>1, TheActors DEF CallsInv, Previews
    <3>2. CASE f = a
      <4>1. PICK n \in 1..streamBuffer : streamCall[f].text = Stream!Preview(n)
        BY <1>2, <3>2 DEF CallsInv, Previews
      <4>2. streamCall[f].text # Stream!Long
        BY <4>1, TextsDiffer
      <4> QED BY <1>1, <3>2, <4>1, <4>2
    <3> QED BY <3>1, <3>2
  <2> QED BY <2>1 DEF Previews
<1>7. Phases'
  <2>1. streamCall'["finish"] = Stream!NoCall <=> streamCall["finish"] = Stream!NoCall
    BY <1>1, <1>2, TheActors
  <2> QED BY <2>1, Zenon DEF CallsInv, Phases
<1>8. OneAtATime'
  <2>1. \A c \in Stream!Actors : streamCall'[c] # Stream!NoCall => streamCall[c] # Stream!NoCall
    BY <1>1, <1>2
  <2>2. \A c \in Stream!Actors : streamCall'[c].op = streamCall[c].op
    BY <1>1
  <2> QED BY <2>1, <2>2, TheActors DEF CallsInv, OneAtATime
<1>9. DownByPreview'
  <2>1. streamFaults > 0 => streamFaults' > 0
    <3>1. streamFaults \in Nat /\ streamFaults' \in Nat
      BY Counts DEF CallsInv
    <3> QED BY <3>1
  <2> QED BY <2>1 DEF CallsInv, DownByPreview
<1> QED BY <1>4, <1>5, <1>6, <1>7, <1>8, <1>9 DEF CallsInv

(* What Telegram can do with a request that is on its way.                  *)
LEMMA AppliedIs ==
  ASSUME CallsInv, NEW a \in Stream!Actors, Stream!Applied(a)
  PROVE  /\ streamCall[a].at = "out"
         /\ UNCHANGED <<streamBuffer, messageId, editTimer, finished, phase, reply, daemon,
                         streamFaults, raced>>
         /\ \/ /\ streamCall[a].op = "send" /\ streamCall[a].text # Stream!Long
               /\ chat' = Append(chat, streamCall[a].text)
               /\ Stream!Answer(a, TRUE, Len(chat) + 1)
            \/ /\ streamCall[a].op = "edit" /\ chat[streamCall[a].msg] # streamCall[a].text
               /\ chat' = [chat EXCEPT ![streamCall[a].msg] = streamCall[a].text]
               /\ Stream!Answer(a, TRUE, streamCall[a].msg)
            \/ /\ streamCall[a].op = "send" /\ streamCall[a].text = Stream!Long
               /\ UNCHANGED chat /\ Stream!Answer(a, FALSE, 0)
            \/ /\ streamCall[a].op = "edit" /\ chat[streamCall[a].msg] = streamCall[a].text
               /\ UNCHANGED chat /\ Stream!Answer(a, FALSE, streamCall[a].msg)
BY Zenon DEF Stream!Applied

(* Telegram applies a request, or says why it cannot.                       *)
LEMMA AppliedKeeps ==
  ASSUME CallsInv, NEW a \in Stream!Actors, Stream!Applied(a)
  PROVE  CallsInv'
<1>1. /\ streamCall[a].at = "out" /\ streamFaults' = streamFaults
      /\ UNCHANGED <<streamBuffer, messageId, editTimer, finished, phase, reply, daemon, raced>>
  BY AppliedIs
<1>2. /\ chat \in Seq(Stream!Texts) /\ Len(chat) \in Nat /\ streamFaults' \in 0..MaxFaults
      /\ streamFaults <= streamFaults'
  BY <1>1, Counts DEF CallsInv, StreamTypes
<1>3. PICK n \in 0..Len(chat) : n = streamCall[a].msg
  BY DEF CallsInv, Asked
<1>4. CASE /\ streamCall[a].op = "send" /\ streamCall[a].text # Stream!Long
           /\ chat' = Append(chat, streamCall[a].text)
           /\ Stream!Answer(a, TRUE, Len(chat) + 1)
  <2>1. PICK b \in BOOLEAN : b = TRUE
    OBVIOUS
  <2>2. PICK m \in Nat : m = Len(chat) + 1
    BY <1>2
  <2>3. Stream!Answer(a, b, m)
    BY <1>4, <2>1, <2>2, Zenon
  <2>4. chat' \in Seq(Stream!Texts) /\ Len(chat') = Len(chat) + 1
    <3>1. streamCall[a].text \in Stream!Texts
      BY <1>4 DEF CallsInv, Asked
    <3> QED BY <1>2, <1>4, <3>1
  <2>5. m \in 1..Len(chat') /\ m \in 0..Len(chat') /\ Len(chat) <= Len(chat')
    BY <1>2, <2>2, <2>4
  <2> QED BY <1>1, <1>2, <2>1, <2>3, <2>4, <2>5, AnsweredCall
<1>5. CASE /\ streamCall[a].op = "edit"
           /\ chat' = [chat EXCEPT ![streamCall[a].msg] = streamCall[a].text]
           /\ Stream!Answer(a, TRUE, streamCall[a].msg)
  <2>1. PICK b \in BOOLEAN : b = TRUE
    OBVIOUS
  <2>2. Stream!Answer(a, b, n)
    BY <1>3, <1>5, <2>1, Zenon
  <2>3. n \in 1..Len(chat) /\ n \in Nat
    BY <1>2, <1>3, <1>5 DEF CallsInv, Asked
  <2>4. chat' \in Seq(Stream!Texts) /\ Len(chat') = Len(chat)
    <3>1. PICK t \in Stream!Texts : t = streamCall[a].text
      BY <1>5 DEF CallsInv, Asked
    <3>2. chat' = [chat EXCEPT ![n] = t]
      BY <1>3, <1>5, <3>1
    <3> QED BY <1>2, <2>3, <3>2, ExceptSeq
  <2>5. n \in 1..Len(chat') /\ n \in 0..Len(chat') /\ Len(chat) <= Len(chat')
    BY <1>2, <2>3, <2>4
  <2> QED BY <1>1, <1>2, <2>1, <2>2, <2>3, <2>4, <2>5, AnsweredCall
<1>6. CASE \/ /\ streamCall[a].op = "send" /\ streamCall[a].text = Stream!Long
              /\ UNCHANGED chat /\ Stream!Answer(a, FALSE, 0)
           \/ /\ streamCall[a].op = "edit"
              /\ UNCHANGED chat /\ Stream!Answer(a, FALSE, streamCall[a].msg)
  <2>1. PICK b \in BOOLEAN : b = FALSE
    OBVIOUS
  <2>2. PICK m \in 0..Len(chat) :
          /\ Stream!Answer(a, b, m) /\ (streamCall[a].op = "edit" => m = n)
    <3>1. 0 \in 0..Len(chat)
      BY <1>2
    <3> QED BY <1>3, <1>6, <2>1, <3>1, Zenon
  <2>3. streamCall[a].op = "edit" => m \in 1..Len(chat)
    BY <1>3, <2>2 DEF CallsInv, Asked
  <2>4. chat' = chat /\ (streamCall[a].op = "edit" \/ streamCall[a].text = Stream!Long)
    BY <1>6, Zenon
  <2>5. /\ m \in Nat /\ chat' \in Seq(Stream!Texts) /\ Len(chat) <= Len(chat')
        /\ m \in 0..Len(chat')
    BY <1>2, <2>4
  <2>6. b # TRUE
    BY <2>1, Zenon
  <2>7. streamCall[a].op = "edit" \/ b = TRUE => m \in 1..Len(chat')
    BY <2>3, <2>4, <2>6, Zenon
  <2> QED BY <1>1, <1>2, <2>2, <2>4, <2>5, <2>7, AnsweredCall
<1> QED BY <1>4, <1>5, <1>6, AppliedIs

(* Telegram refuses a request, or does not answer in time.                  *)
LEMMA StreamRefusedKeeps ==
  ASSUME CallsInv, NEW a \in Stream!Actors, Stream!Refused(a)
  PROVE  CallsInv'
<1>1. /\ streamCall[a].at = "out" /\ streamFaults < MaxFaults /\ streamFaults' = streamFaults + 1
      /\ Stream!Answer(a, FALSE, streamCall[a].msg)
      /\ UNCHANGED <<streamBuffer, messageId, editTimer, finished, chat, phase, reply, daemon, raced>>
  BY Zenon DEF Stream!Refused
<1>2. /\ chat \in Seq(Stream!Texts) /\ Len(chat) \in Nat
      /\ streamFaults' \in 0..MaxFaults /\ streamFaults <= streamFaults' /\ streamFaults' > 0
  <2>1. streamFaults \in Nat /\ MaxFaults \in Nat
    BY Counts DEF CallsInv
  <2>2. streamFaults' \in 0..MaxFaults /\ streamFaults <= streamFaults' /\ streamFaults' > 0
    BY <1>1, <2>1
  <2> QED BY <2>2, Counts DEF CallsInv, StreamTypes
<1>3. PICK m \in 0..Len(chat) : m = streamCall[a].msg
  BY DEF CallsInv, Asked
<1>4. streamCall[a].op = "edit" => m \in 1..Len(chat)
  BY <1>3 DEF CallsInv, Asked
<1>5. PICK b \in BOOLEAN : b = FALSE
  OBVIOUS
<1>6. Stream!Answer(a, b, m)
  BY <1>1, <1>3, <1>5, Zenon
<1>7. /\ UNCHANGED <<streamBuffer, messageId, editTimer, finished, phase, reply, daemon, raced>>
      /\ chat' = chat /\ streamCall[a].at = "out"
  BY <1>1, Zenon
<1>8. /\ m \in Nat /\ chat' \in Seq(Stream!Texts) /\ Len(chat) <= Len(chat')
      /\ m \in 0..Len(chat')
  BY <1>2, <1>7
<1>9. b # TRUE
  BY <1>5, Zenon
<1>10. streamCall[a].op = "edit" \/ b = TRUE => m \in 1..Len(chat')
  BY <1>4, <1>7, <1>9, Zenon
<1> QED BY <1>2, <1>6, <1>7, <1>8, <1>10, AnsweredCall

(* No step of stream, delivery or Telegram breaks what the calls are.       *)
LEMMA CallsInvKeeps == CallsInv /\ [Stream!Next]_(Stream!vars) => CallsInv'
<1> SUFFICES ASSUME CallsInv, [Stream!Next]_(Stream!vars) PROVE CallsInv'
  OBVIOUS
<1>1. CASE UNCHANGED Stream!vars
  <2>1. UNCHANGED <<streamBuffer, messageId, editTimer, finished, streamCall, chat, phase, reply, daemon,
                    streamFaults, raced>>
    BY <1>1, Zenon DEF Stream!vars
  <2>2. StreamTypes' /\ Asked' /\ Previews' /\ OneAtATime' /\ DownByPreview'
    BY <2>1 DEF CallsInv, StreamTypes, Asked, Previews, OneAtATime, DownByPreview
  <2>3. Phases'
    BY <2>1, Zenon DEF CallsInv, Phases
  <2> QED BY <2>2, <2>3 DEF CallsInv
<1>2. CASE Stream!Next
  BY <1>2, OnDeltaKeeps, FinishKeeps, FinishGoesOnKeeps, TurnEndsKeep, FlushKeeps, FlushGoesOnKeeps,
     AppliedKeeps, StreamRefusedKeeps DEF Stream!Next
<1> QED BY <1>1, <1>2

-----------------------------------------------------------------------------
(* What the chat shows while no calls overlap and none fails.               *)

Calm == raced # TRUE /\ streamFaults = 0

Shown == \E m \in 1..streamBuffer : chat = <<Stream!Preview(m)>>

(* Before the delivery there is nothing in the chat, or a preview, with its   *)
(* id on the way to the stream or known to it.                             *)
RunningShows ==
  phase = "running" =>
    \/ /\ messageId = 0 /\ chat = <<>>
       /\ \A f \in Flushes : streamCall[f] # Stream!NoCall =>
            streamCall[f].op = "send" /\ streamCall[f].at = "out"
    \/ /\ messageId = 0 /\ Shown
       /\ \E f \in Flushes : /\ streamCall[f].op = "send" /\ streamCall[f].at = "back"
                             /\ streamCall[f].msg = 1
    \/ /\ messageId = 1 /\ Shown
       /\ \A f \in Flushes : streamCall[f] # Stream!NoCall =>
            streamCall[f].op = "edit" /\ streamCall[f].msg = 1

(* What takes the place of the preview.                                     *)
FirstText == IF reply = Stream!Long THEN Stream!Opening ELSE reply

FinishShows ==
  phase = "finishing" /\ reply # Stream!Preview(streamBuffer) =>
    LET c == streamCall["finish"]
    IN /\ reply \in {Stream!Final, Stream!Long}
       /\ \/ c.at = "out" /\ c.op = "send" /\ c.text = reply /\ chat = <<>>
          \/ c.at = "back" /\ c.op = "send" /\ c.text = reply /\ reply = Stream!Final /\ chat = <<reply>>
          \/ c.at = "back" /\ c.op = "send" /\ c.text = reply /\ reply = Stream!Long /\ c.ok = FALSE
          \/ c.at = "out" /\ c.op = "edit" /\ c.msg = 1 /\ c.text = FirstText /\ Shown
          \/ c.at = "back" /\ c.op = "edit" /\ c.ok = TRUE /\ c.text = FirstText /\ chat = <<FirstText>>
          \/ /\ c.at = "out" /\ c.op = "send" /\ c.text = Stream!Rest
             /\ reply = Stream!Long /\ chat = <<Stream!Opening>>
          \/ /\ c.at = "back" /\ c.op = "send" /\ c.text = Stream!Rest
             /\ reply = Stream!Long /\ chat = <<Stream!Opening, Stream!Rest>>

DoneShows ==
  phase = "done" /\ reply # Stream!Preview(streamBuffer) =>
    /\ \A a \in Stream!Actors : streamCall[a] = Stream!NoCall
    /\ chat = IF reply = Stream!Long THEN <<Stream!Opening, Stream!Rest>> ELSE <<reply>>

Story == Calm => RunningShows /\ FinishShows /\ DoneShows

StreamInv == CallsInv /\ Story

(* Chats of one or two messages.                                           *)
LEMMA Chats12 ==
  /\ \A x : Append(<<>>, x) = <<x>> /\ <<x>>[1] = x /\ Len(<<x>>) = 1
  /\ \A x, y : Append(<<y>>, x) = <<y, x>> /\ [<<y>> EXCEPT ![1] = x] = <<x>>
  /\ Len(<<>>) = 0
<1>1. ASSUME NEW x, NEW y
      PROVE  /\ Append(<<>>, x) = <<x>> /\ <<x>>[1] = x /\ Len(<<x>>) = 1
             /\ Append(<<y>>, x) = <<y, x>> /\ [<<y>> EXCEPT ![1] = x] = <<x>>
  <2>1. <<x>>[1] = x /\ Len(<<x>>) = 1
    OBVIOUS
  <2>2. Append(<<>>, x) = <<x>>
    OBVIOUS
  <2>3. Append(<<y>>, x) = <<y, x>>
    <3>1. <<y>> \in Seq({x, y}) /\ <<y, x>> \in Seq({x, y}) /\ x \in {x, y} /\ Len(<<y>>) = 1
      OBVIOUS
    <3>2. PICK q \in Seq({x, y}) : q = <<y>>
      BY <3>1
    <3>3. /\ Append(q, x) \in Seq({x, y}) /\ Len(Append(q, x)) = 2
          /\ Append(q, x)[1] = y /\ Append(q, x)[2] = x
      BY <3>1, <3>2, AppendProperties
    <3>4. Len(<<y, x>>) = 2 /\ <<y, x>>[1] = y /\ <<y, x>>[2] = x
      OBVIOUS
    <3>5. \A i \in 1..2 : Append(q, x)[i] = <<y, x>>[i]
      BY <3>3, <3>4
    <3> QED BY <3>1, <3>2, <3>3, <3>4, <3>5, SeqEqual
  <2>4. [<<y>> EXCEPT ![1] = x] = <<x>>
    <3>1. <<y>> \in Seq({x, y}) /\ <<x>> \in Seq({x, y}) /\ 1 \in 1..Len(<<y>>) /\ x \in {x, y}
      OBVIOUS
    <3>2. PICK q \in Seq({x, y}) : q = <<y>>
      BY <3>1
    <3>3. /\ [q EXCEPT ![1] = x] \in Seq({x, y}) /\ Len([q EXCEPT ![1] = x]) = 1
          /\ [q EXCEPT ![1] = x][1] = x
      BY <3>1, <3>2, ExceptSeq
    <3>4. \A i \in 1..1 : [q EXCEPT ![1] = x][i] = <<x>>[i]
      BY <3>3, <2>1
    <3> QED BY <3>1, <3>2, <3>3, <3>4, <2>1, SeqEqual
  <2> QED BY <2>1, <2>2, <2>3, <2>4
<1>2. Len(<<>>) = 0
  OBVIOUS
<1> QED BY <1>1, <1>2

(* A chat shows nothing of a turn that starts.                              *)
LEMMA InitStream == Stream!Init => StreamInv
<1> SUFFICES ASSUME Stream!Init PROVE Story
  BY InitCalls DEF StreamInv
<1>1. /\ messageId = 0 /\ chat = <<>> /\ phase = "running"
      /\ streamCall = [a \in Stream!Actors |-> Stream!NoCall]
  BY Zenon DEF Stream!Init
<1>2. \A f \in Flushes : streamCall[f] = Stream!NoCall
  BY <1>1, TheActors
<1> QED BY <1>1, <1>2 DEF Story, RunningShows, FinishShows, DoneShows

(* Calm ends, it never comes back; and a calm stream has one call at most.   *)
LEMMA CalmAlone ==
  ASSUME CallsInv, Calm
  PROVE  \A a, b \in Stream!Actors :
           streamCall[a] # Stream!NoCall /\ streamCall[b] # Stream!NoCall => a = b
BY DEF CallsInv, OneAtATime, Calm

(* A delta shows nothing yet.                                               *)
LEMMA OnDeltaStory ==
  ASSUME CallsInv, Story, Stream!OnDelta
  PROVE  Story'
<1>1. /\ phase = "running" /\ streamBuffer' = streamBuffer + 1
      /\ UNCHANGED <<messageId, streamCall, chat, phase, reply, streamFaults, raced>>
  BY Zenon DEF Stream!OnDelta
<1>2. \A n \in 1..streamBuffer : n \in 1..streamBuffer'
  <2>1. streamBuffer \in Nat
    BY Counts DEF CallsInv
  <2> QED BY <1>1, <2>1
<1>3. Shown => Shown'
  BY <1>1, <1>2 DEF Shown
<1> QED BY <1>1, <1>3 DEF Story, Calm, RunningShows, FinishShows, DoneShows

(* The handler sends the text to a chat without a preview.                  *)
LEMMA TurnEndsStory ==
  ASSUME CallsInv, Story, Stream!DeliverByHandler \/ Stream!TurnEndsOtherwise
  PROVE  Story'
<1>1. CASE Stream!TurnEndsOtherwise
  <2>1. phase' = "elsewhere"
    BY <1>1, Zenon DEF Stream!TurnEndsOtherwise
  <2> QED BY <2>1 DEF Story, RunningShows, FinishShows, DoneShows
<1>2. CASE Stream!DeliverByHandler
  <2>1. /\ phase = "running" /\ reply' = Stream!Final /\ chat' = Append(chat, Stream!Final)
        /\ phase' = "done" /\ UNCHANGED <<streamCall, streamFaults, raced>>
    BY <1>2, Zenon DEF Stream!DeliverByHandler
  <2>2. messageId = 0 /\ streamBuffer = 0
    BY <1>2, <2>1, InactiveIs DEF Stream!DeliverByHandler
  <2>3. \A n : n \notin 1..streamBuffer
    BY <2>2
  <2>4. \A a \in Stream!Actors : streamCall[a] = Stream!NoCall
    BY <2>1, <2>3, TheActors DEF CallsInv, Previews, Phases
  <2>5. ASSUME Calm PROVE chat = <<>>
    BY <2>1, <2>2, <2>3, <2>5 DEF Story, RunningShows, Shown
  <2>6. Calm => chat' = <<Stream!Final>>
    BY <2>1, <2>5, Chats12
  <2>7. Calm' => Calm
    BY <2>1 DEF Calm
  <2> QED BY <2>1, <2>4, <2>6, <2>7, TextsDiffer DEF Story, RunningShows, FinishShows, DoneShows
<1> QED BY <1>1, <1>2

(* A flush beside no other call asks for the preview, or for its edit.      *)
LEMMA FlushStory ==
  ASSUME CallsInv, Story, CallsInv', NEW f \in Flushes, Stream!Flush(f)
  PROVE  Story'
<1>1. /\ editTimer /\ streamCall[f] = Stream!NoCall
      /\ UNCHANGED <<streamBuffer, messageId, chat, phase, reply, streamFaults>>
      /\ \/ UNCHANGED <<streamCall, raced>>
         \/ /\ streamBuffer # 0 /\ raced' = (raced \/ Stream!UnderWay)
            /\ streamCall' = [streamCall EXCEPT ![f] =
                 IF messageId = 0 THEN Stream!SendMessage(Stream!Preview(streamBuffer))
                 ELSE Stream!EditMessageText(messageId, Stream!Preview(streamBuffer))]
  BY Zenon DEF Stream!Flush
<1>2. CASE UNCHANGED <<streamCall, raced>>
  BY <1>1, <1>2 DEF Story, Calm, RunningShows, FinishShows, DoneShows, FirstText, Shown
<1>3. CASE /\ streamBuffer # 0 /\ raced' = (raced \/ Stream!UnderWay)
           /\ streamCall' = [streamCall EXCEPT ![f] =
                IF messageId = 0 THEN Stream!SendMessage(Stream!Preview(streamBuffer))
                ELSE Stream!EditMessageText(messageId, Stream!Preview(streamBuffer))]
  <2>1. phase \in {"running", "elsewhere"}
    <3>1. editTimer # FALSE
      BY <1>1, Zenon
    <3> QED BY <1>3, <3>1 DEF CallsInv, Phases
  <2>2. ASSUME Calm' PROVE Calm /\ \A a \in Stream!Actors : streamCall[a] = Stream!NoCall
    <3>1. raced # TRUE /\ ~Stream!UnderWay
      BY <1>3, <2>2, RacedIs DEF Calm, CallsInv
    <3>2. streamFaults = 0
      BY <1>1, <2>2 DEF Calm
    <3> QED BY <3>1, <3>2, NoneUnderWay DEF Calm
  <2>3. ASSUME Calm', phase = "running" PROVE RunningShows'
    <3> DEFINE x == streamCall'[f]
    <3>1. PICK t \in TextSet : t = Stream!Preview(streamBuffer)
      <4>1. streamBuffer \in 1..MaxDeltas
        BY <1>3, Counts DEF CallsInv
      <4> QED BY <4>1, TextsDiffer DEF TextSet
    <3>2. /\ x = IF messageId = 0 THEN Stream!SendMessage(t) ELSE Stream!EditMessageText(messageId, t)
          /\ \A b \in Stream!Actors \ {f} : streamCall'[b] = streamCall[b]
      BY <1>3, <3>1, TheActors DEF CallsInv, StreamTypes
    <3>3. /\ messageId = 0 => x.op = "send" /\ x.at = "out"
          /\ messageId # 0 => x.op = "edit" /\ x.msg = messageId
      BY <3>1, <3>2, RequestMade, Counts DEF CallsInv
    <3> HIDE DEF x
    <3>4. \A g \in Flushes \ {f} : streamCall'[g] = Stream!NoCall
      BY <2>2, <2>3, <3>2, TheActors
    <3>5. \/ messageId = 0 /\ chat = <<>>
          \/ messageId = 1 /\ Shown
      <4>1. \A g \in Flushes : streamCall[g].op # "send"
        BY <2>2, <2>3, NoCallIs, TheActors
      <4> QED BY <2>2, <2>3, <4>1 DEF Story, RunningShows
    <3>6. CASE messageId = 0 /\ chat = <<>>
      BY <1>1, <3>3, <3>4, <3>6 DEF RunningShows, x
    <3>7. CASE messageId = 1 /\ Shown
      <4>1. Shown'
        BY <1>1, <3>7 DEF Shown
      <4> QED BY <1>1, <3>3, <3>4, <3>7, <4>1 DEF RunningShows, x
    <3> QED BY <3>5, <3>6, <3>7
  <2> QED BY <1>1, <2>1, <2>3 DEF Story, RunningShows, FinishShows, DoneShows
<1> QED BY <1>1, <1>2, <1>3

(* The answer to a flush tells the stream of the preview, or its edit is    *)
(* over.                                                                    *)
LEMMA FlushGoesOnStory ==
  ASSUME CallsInv, Story, CallsInv', NEW f \in Flushes, Stream!FlushGoesOn(f)
  PROVE  Story'
<1>1. /\ UNCHANGED <<streamBuffer, chat, phase, reply, streamFaults, raced>>
      /\ streamCall[f].at = "back" /\ f \in Stream!Actors /\ f # "finish"
  BY TheActors DEF Stream!FlushGoesOn, Stream!PreviewMade, Stream!PreviewFails, Stream!PreviewEdited
<1>2. streamCall[f] # Stream!NoCall
  BY <1>1, NoCallIs
<1> SUFFICES ASSUME Calm' PROVE RunningShows' /\ FinishShows' /\ DoneShows'
  BY DEF Story
<1>3. Calm /\ RunningShows /\ FinishShows /\ DoneShows
  BY <1>1 DEF Calm, Story
<1>4. \A b \in Stream!Actors : streamCall[b] # Stream!NoCall => b = f
  BY <1>1, <1>2, <1>3, CalmAlone
<1>5. phase # "finishing"
  BY <1>1, <1>4, TheActors DEF CallsInv, Phases
<1>6. phase = "done" => reply = Stream!Preview(streamBuffer)
  BY <1>1, <1>2, <1>3 DEF DoneShows
<1>7. ASSUME phase = "running" PROVE RunningShows'
  <2>1. Shown => Shown'
    BY <1>1 DEF Shown
  <2>2. CASE /\ messageId = 0 /\ Shown /\ streamCall[f].op = "send" /\ streamCall[f].msg = 1
    <3>1. streamCall[f].ok = TRUE
      BY <1>1, <1>3, <2>2 DEF CallsInv, Previews, Calm
    <3>2. /\ messageId' = 1
          /\ streamCall' = [streamCall EXCEPT ![f] = Stream!EditMessageText(1, Stream!Preview(streamBuffer))]
      <4>1. ~Stream!PreviewFails(f)
        BY <3>1, Zenon DEF Stream!PreviewFails
      <4>2. ~Stream!PreviewEdited(f)
        BY <2>2 DEF Stream!PreviewEdited
      <4>3. Stream!PreviewMade(f)
        BY <4>1, <4>2 DEF Stream!FlushGoesOn
      <4>4. messageId' = streamCall[f].msg
        BY <4>3, Zenon DEF Stream!PreviewMade
      <4>5. streamCall' = [streamCall EXCEPT ![f] =
              Stream!EditMessageText(streamCall[f].msg, Stream!Preview(streamBuffer))]
        BY <4>3, Zenon DEF Stream!PreviewMade
      <4> QED BY <2>2, <4>4, <4>5
    <3>3. PICK t \in TextSet : t = Stream!Preview(streamBuffer)
      <4>1. PICK m \in 1..streamBuffer : TRUE
        BY <2>2 DEF Shown
      <4>2. streamBuffer \in Nat /\ streamBuffer <= MaxDeltas /\ MaxDeltas \in Nat
        BY Counts DEF CallsInv
      <4>3. streamBuffer \in 1..MaxDeltas
        BY <4>1, <4>2
      <4> QED BY <4>3, TextsDiffer DEF TextSet
    <3>4. streamCall'[f] = Stream!EditMessageText(1, t)
      BY <1>1, <3>2, <3>3 DEF CallsInv, StreamTypes
    <3>5. streamCall'[f].op = "edit" /\ streamCall'[f].msg = 1
      <4>1. 1 \in Nat
        OBVIOUS
      <4> QED BY <3>4, <4>1, RequestMade
    <3>6. \A g \in Flushes \ {f} : streamCall'[g] = Stream!NoCall
      BY <1>4, <3>2, TheActors DEF CallsInv, StreamTypes
    <3> QED BY <1>7, <2>1, <2>2, <3>2, <3>5, <3>6, <1>1 DEF RunningShows
  <2>3. CASE /\ messageId = 1 /\ Shown /\ streamCall[f].op = "edit"
    <3>1. messageId' = messageId /\ streamCall' = [streamCall EXCEPT ![f] = Stream!NoCall]
      BY <2>3 DEF Stream!FlushGoesOn, Stream!PreviewMade, Stream!PreviewFails, Stream!PreviewEdited
    <3>2. \A g \in Flushes : streamCall'[g] = Stream!NoCall
      BY <1>4, <3>1, TheActors DEF CallsInv, StreamTypes
    <3> QED BY <1>7, <2>1, <2>3, <3>1, <3>2, <1>1 DEF RunningShows
  <2>4. CASE /\ messageId = 0 /\ Shown
             /\ \E g \in Flushes : /\ streamCall[g].op = "send" /\ streamCall[g].at = "back"
                                   /\ streamCall[g].msg = 1
    <3>1. PICK g \in Flushes : streamCall[g].op = "send" /\ streamCall[g].msg = 1
      BY <2>4
    <3>2. g = f
      BY <1>4, <3>1, NoCallIs, TheActors
    <3> QED BY <2>2, <2>4, <3>1, <3>2
  <2>5. CASE /\ messageId = 1 /\ Shown
             /\ \A g \in Flushes : streamCall[g] # Stream!NoCall =>
                  streamCall[g].op = "edit" /\ streamCall[g].msg = 1
    BY <1>2, <2>3, <2>5
  <2> QED BY <1>1, <1>2, <1>3, <1>7, <2>4, <2>5 DEF RunningShows
<1> QED BY <1>1, <1>5, <1>6, <1>7 DEF RunningShows, FinishShows, DoneShows

(* The delivery starts with the chat as the stream left it.                 *)
LEMMA FinishStory ==
  ASSUME CallsInv, Story, CallsInv', Stream!Finish
  PROVE  Story'
<1>1. /\ phase = "running" /\ phase' = "finishing" /\ raced' = (raced \/ Stream!UnderWay)
      /\ UNCHANGED <<streamBuffer, messageId, chat, streamFaults>>
  BY Zenon DEF Stream!Finish
<1>2. PICK t \in {Stream!Preview(streamBuffer), Stream!Final, Stream!Long} :
        /\ reply' = t
        /\ streamCall' = [streamCall EXCEPT !["finish"] =
             IF messageId = 0 THEN Stream!SendMessage(t)
             ELSE Stream!EditMessageText(messageId, IF t = Stream!Long THEN Stream!Opening ELSE t)]
  BY Zenon DEF Stream!Finish
<1> SUFFICES ASSUME Calm', reply' # Stream!Preview(streamBuffer') PROVE FinishShows'
  BY <1>1 DEF Story, RunningShows, FinishShows, DoneShows
<1>3. t \in {Stream!Final, Stream!Long} /\ t \in TextSet
  BY <1>1, <1>2, TextsDiffer DEF TextSet
<1>4. Calm /\ \A a \in Stream!Actors : streamCall[a] = Stream!NoCall
  <2>1. raced # TRUE /\ ~Stream!UnderWay
    BY <1>1, RacedIs DEF Calm, CallsInv
  <2>2. streamFaults = 0
    BY <1>1 DEF Calm
  <2> QED BY <2>1, <2>2, NoneUnderWay DEF Calm
<1>5. \/ messageId = 0 /\ chat = <<>>
      \/ messageId = 1 /\ Shown
  <2>1. \A g \in Flushes : streamCall[g].op # "send"
    BY <1>4, NoCallIs, TheActors
  <2> QED BY <1>1, <1>4, <2>1 DEF Story, RunningShows
<1>6. CASE messageId = 0 /\ chat = <<>>
  <2>1. streamCall'["finish"] = Stream!SendMessage(t)
    BY <1>2, <1>6, TheActors DEF CallsInv, StreamTypes
  <2>2. /\ streamCall'["finish"].at = "out" /\ streamCall'["finish"].op = "send"
        /\ streamCall'["finish"].text = t
    BY <1>3, <2>1, RequestMade, Counts DEF CallsInv
  <2> QED BY <1>1, <1>2, <1>3, <1>6, <2>2 DEF FinishShows
<1>7. CASE messageId = 1 /\ Shown
  <2>1. PICK u \in TextSet : u = IF t = Stream!Long THEN Stream!Opening ELSE t
    BY <1>3, TextsDiffer DEF TextSet
  <2>2. streamCall'["finish"] = Stream!EditMessageText(1, u)
    BY <1>2, <1>7, <2>1, TheActors DEF CallsInv, StreamTypes
  <2>3. /\ streamCall'["finish"].at = "out" /\ streamCall'["finish"].op = "edit"
        /\ streamCall'["finish"].msg = 1 /\ streamCall'["finish"].text = u
    <3>1. 1 \in Nat
      OBVIOUS
    <3> QED BY <2>2, <3>1, RequestMade
  <2>4. u = FirstText'
    BY <1>2, <2>1 DEF FirstText
  <2>5. Shown'
    BY <1>1, <1>7 DEF Shown
  <2> QED BY <1>2, <1>3, <2>3, <2>4, <2>5 DEF FinishShows
<1> QED BY <1>5, <1>6, <1>7

(* An answer to the delivery: it goes on with the rest, or it is over.       *)
LEMMA FinishGoesOnStory ==
  ASSUME CallsInv, Story, CallsInv', Stream!FinishGoesOn
  PROVE  Story'
<1> DEFINE c == streamCall["finish"]
<1>1. /\ c.at = "back" /\ "finish" \in Stream!Actors
      /\ UNCHANGED <<streamBuffer, messageId, chat, reply, streamFaults, raced>>
  BY TheActors DEF Stream!FinishGoesOn
<1>2. c # Stream!NoCall /\ phase = "finishing"
  BY <1>1, NoCallIs DEF CallsInv, Phases
<1>3. \/ /\ c.text = Stream!Opening /\ phase' = phase
         /\ streamCall' = [streamCall EXCEPT !["finish"] = Stream!SendMessage(Stream!Rest)]
      \/ /\ c.text # Stream!Opening /\ c.op = "edit" /\ ~c.ok /\ phase' = phase
      \/ /\ c.text # Stream!Opening /\ c.op = "edit"
         /\ streamCall' = [streamCall EXCEPT !["finish"] = Stream!NoCall] /\ phase' = "done"
      \/ /\ c.op = "send" /\ streamCall' = [streamCall EXCEPT !["finish"] = Stream!NoCall]
         /\ phase' = IF c.ok THEN "done" ELSE "failed"
  BY Zenon DEF Stream!FinishGoesOn, Stream!FinishAnswered
<1> SUFFICES ASSUME Calm', reply # Stream!Preview(streamBuffer) PROVE FinishShows' /\ DoneShows'
  BY <1>1, <1>2, <1>3 DEF Story, RunningShows, FinishShows, DoneShows
<1>4. Calm /\ FinishShows
  BY <1>1 DEF Calm, Story
<1>5. \A b \in Stream!Actors : streamCall[b] # Stream!NoCall => b = "finish"
  BY <1>1, <1>2, <1>4, CalmAlone
<1>6. ASSUME streamCall' = [streamCall EXCEPT !["finish"] = Stream!NoCall]
      PROVE  \A a \in Stream!Actors : streamCall'[a] = Stream!NoCall
  BY <1>1, <1>5, <1>6 DEF CallsInv, StreamTypes
<1>7. CASE c.op = "send" /\ c.text = reply /\ reply = Stream!Final /\ chat = <<reply>>
  <2>1. c.text # Stream!Opening /\ c.op # "edit"
    BY <1>7, TextsDiffer
  <2>2. streamCall' = [streamCall EXCEPT !["finish"] = Stream!NoCall] /\ phase' \in {"done", "failed"}
    BY <1>3, <2>1
  <2>3. chat' = <<reply'>> /\ reply' # Stream!Long
    BY <1>1, <1>7, TextsDiffer
  <2> QED BY <1>6, <2>2, <2>3 DEF FinishShows, DoneShows
<1>8. CASE c.op = "send" /\ c.text = reply /\ reply = Stream!Long /\ c.ok = FALSE
  <2>1. c.text # Stream!Opening /\ c.op # "edit"
    BY <1>8, TextsDiffer
  <2>2. ~c.ok
    BY <1>8, Zenon
  <2>3. phase' = IF c.ok THEN "done" ELSE "failed"
    BY <1>3, <2>1
  <2>4. phase' = "failed"
    BY <2>2, <2>3, Zenon
  <2> QED BY <2>4 DEF FinishShows, DoneShows
<1>9. CASE c.op = "edit" /\ c.ok = TRUE /\ c.text = FirstText /\ chat = <<FirstText>>
  <2>1. c.op # "send"
    BY <1>9
  <2>2. c.ok
    BY <1>9, Zenon
  <2>3. CASE reply = Stream!Long
    <3>1. c.text = Stream!Opening /\ chat = <<Stream!Opening>>
      BY <1>9, <2>3 DEF FirstText
    <3>2. /\ phase' = "finishing"
          /\ streamCall' = [streamCall EXCEPT !["finish"] = Stream!SendMessage(Stream!Rest)]
      BY <1>2, <1>3, <2>1, <3>1
    <3>3. streamCall'["finish"] = Stream!SendMessage(Stream!Rest)
      BY <1>1, <3>2 DEF CallsInv, StreamTypes
    <3>4. /\ streamCall'["finish"].at = "out" /\ streamCall'["finish"].op = "send"
          /\ streamCall'["finish"].text = Stream!Rest
      <4>1. Stream!Rest \in TextSet /\ 0 \in Nat
        BY TextsDiffer DEF TextSet
      <4> QED BY <3>3, <4>1, RequestMade
    <3> QED BY <1>1, <2>3, <3>1, <3>2, <3>4 DEF FinishShows, DoneShows
  <2>4. CASE reply # Stream!Long
    <3>1. c.text = reply /\ chat = <<reply>> /\ reply = Stream!Final
      BY <1>1, <1>2, <1>4, <1>9, <2>4 DEF FirstText, FinishShows
    <3>2. c.text # Stream!Opening
      BY <3>1, TextsDiffer
    <3>3. streamCall' = [streamCall EXCEPT !["finish"] = Stream!NoCall] /\ phase' = "done"
      <4>1. ~(c.text # Stream!Opening /\ c.op = "edit" /\ ~c.ok /\ phase' = phase)
        BY <2>2, Zenon
      <4> HIDE DEF c
      <4> QED BY <1>3, <2>1, <3>2, <4>1, Zenon
    <3> QED BY <1>1, <1>6, <2>4, <3>1, <3>3 DEF FinishShows, DoneShows
  <2> QED BY <2>3, <2>4
<1>10. CASE /\ c.op = "send" /\ c.text = Stream!Rest
            /\ reply = Stream!Long /\ chat = <<Stream!Opening, Stream!Rest>>
  <2>1. c.text # Stream!Opening /\ c.op # "edit"
    BY <1>10, TextsDiffer
  <2>2. streamCall' = [streamCall EXCEPT !["finish"] = Stream!NoCall] /\ phase' \in {"done", "failed"}
    BY <1>3, <2>1
  <2> QED BY <1>1, <1>6, <1>10, <2>2 DEF FinishShows, DoneShows
<1> QED BY <1>1, <1>2, <1>4, <1>7, <1>8, <1>9, <1>10 DEF FinishShows

(* What Telegram answers with, when it answers.                             *)
LEMMA AnswerIs ==
  ASSUME CallsInv, NEW a \in Stream!Actors, Stream!Applied(a)
  PROVE  /\ streamCall[a].at = "out"
         /\ UNCHANGED <<streamBuffer, messageId, phase, reply, streamFaults, raced>>
         /\ streamCall' \in [Stream!Actors -> CallSet]
         /\ streamCall'[a].op = streamCall[a].op /\ streamCall'[a].text = streamCall[a].text
         /\ streamCall'[a].at = "back"
         /\ \A b \in Stream!Actors \ {a} : streamCall'[b] = streamCall[b]
         /\ \/ /\ streamCall[a].op = "send" /\ streamCall[a].text # Stream!Long
               /\ chat' = Append(chat, streamCall[a].text)
               /\ streamCall'[a].ok = TRUE /\ streamCall'[a].msg = Len(chat) + 1
            \/ /\ streamCall[a].op = "edit" /\ chat[streamCall[a].msg] # streamCall[a].text
               /\ chat' = [chat EXCEPT ![streamCall[a].msg] = streamCall[a].text]
               /\ streamCall'[a].ok = TRUE /\ streamCall'[a].msg = streamCall[a].msg
            \/ /\ streamCall[a].op = "send" /\ streamCall[a].text = Stream!Long
               /\ chat' = chat /\ streamCall'[a].ok = FALSE
            \/ /\ streamCall[a].op = "edit" /\ chat[streamCall[a].msg] = streamCall[a].text
               /\ chat' = chat /\ streamCall'[a].msg = streamCall[a].msg
<1>1. PICK n \in Nat : n = streamCall[a].msg
  BY Counts DEF CallsInv, Asked
<1>2. PICK k \in Nat : k = Len(chat) + 1
  BY Counts DEF CallsInv
<1>3. PICK yes \in BOOLEAN, no \in BOOLEAN : yes = TRUE /\ no = FALSE
  OBVIOUS
<1>4. streamCall \in [Stream!Actors -> CallSet]
  BY DEF CallsInv, StreamTypes
<1>5. PICK b \in BOOLEAN, m \in Nat :
        /\ Stream!Answer(a, b, m)
        /\ \/ /\ streamCall[a].op = "send" /\ streamCall[a].text # Stream!Long
              /\ chat' = Append(chat, streamCall[a].text) /\ b = TRUE /\ m = Len(chat) + 1
           \/ /\ streamCall[a].op = "edit" /\ chat[streamCall[a].msg] # streamCall[a].text
              /\ chat' = [chat EXCEPT ![streamCall[a].msg] = streamCall[a].text]
              /\ b = TRUE /\ m = streamCall[a].msg
           \/ /\ streamCall[a].op = "send" /\ streamCall[a].text = Stream!Long
              /\ chat' = chat /\ b = FALSE
           \/ /\ streamCall[a].op = "edit" /\ chat[streamCall[a].msg] = streamCall[a].text
              /\ chat' = chat /\ m = streamCall[a].msg
  <2>1. CASE /\ streamCall[a].op = "send" /\ streamCall[a].text # Stream!Long
             /\ chat' = Append(chat, streamCall[a].text)
             /\ Stream!Answer(a, TRUE, Len(chat) + 1)
    BY <1>2, <1>3, <2>1, Zenon
  <2>2. CASE /\ streamCall[a].op = "edit" /\ chat[streamCall[a].msg] # streamCall[a].text
             /\ chat' = [chat EXCEPT ![streamCall[a].msg] = streamCall[a].text]
             /\ Stream!Answer(a, TRUE, streamCall[a].msg)
    BY <1>1, <1>3, <2>2, Zenon
  <2>3. CASE /\ streamCall[a].op = "send" /\ streamCall[a].text = Stream!Long
             /\ UNCHANGED chat /\ Stream!Answer(a, FALSE, 0)
    <3>1. 0 \in Nat
      OBVIOUS
    <3> QED BY <1>3, <2>3, <3>1, Zenon
  <2>4. CASE /\ streamCall[a].op = "edit" /\ chat[streamCall[a].msg] = streamCall[a].text
             /\ UNCHANGED chat /\ Stream!Answer(a, FALSE, streamCall[a].msg)
    BY <1>1, <1>3, <2>4, Zenon
  <2> QED BY <2>1, <2>2, <2>3, <2>4, AppliedIs
<1>6. /\ streamCall' \in [Stream!Actors -> CallSet]
      /\ streamCall'[a].op = streamCall[a].op /\ streamCall'[a].text = streamCall[a].text
      /\ streamCall'[a].at = "back" /\ streamCall'[a].ok = b /\ streamCall'[a].msg = m
      /\ \A c \in Stream!Actors \ {a} : streamCall'[c] = streamCall[c]
  BY <1>4, <1>5, AnswerSets
<1>7. streamCall[a].at = "out" /\ UNCHANGED <<streamBuffer, messageId, phase, reply, streamFaults, raced>>
  BY AppliedIs
<1> QED BY <1>5, <1>6, <1>7, Zenon

(* The preview appears, or another takes its place.                         *)
LEMMA AppliedRunning ==
  ASSUME CallsInv, RunningShows, Calm, CallsInv', NEW a \in Stream!Actors, Stream!Applied(a),
         phase = "running"
  PROVE  RunningShows'
<1>1. streamCall[a] # Stream!NoCall /\ streamCall[a].at = "out"
  BY AnswerIs, NoCallIs
<1>2. a \in Flushes /\ \A b \in Stream!Actors : streamCall[b] # Stream!NoCall => b = a
  <2>1. a # "finish"
    BY <1>1 DEF CallsInv, Phases
  <2> QED BY <1>1, <2>1, CalmAlone, TheActors
<1>3. PICK n \in 1..streamBuffer : streamCall[a].text = Stream!Preview(n)
  BY <1>1, <1>2 DEF CallsInv, Previews
<1>4. streamCall[a].text # Stream!Long
  BY <1>3, TextsDiffer
<1>5. \A b \in Flushes \ {a} : streamCall'[b] = Stream!NoCall
  <2>1. \A b \in Stream!Actors \ {a} : streamCall'[b] = streamCall[b]
    BY AnswerIs
  <2> QED BY <1>2, <2>1, TheActors
<1>6. CASE /\ messageId = 0 /\ chat = <<>> /\ streamCall[a].op = "send"
  <2>1. /\ chat' = Append(chat, streamCall[a].text) /\ streamCall'[a].msg = Len(chat) + 1
        /\ streamCall'[a].op = "send" /\ streamCall'[a].at = "back"
        /\ UNCHANGED <<streamBuffer, messageId>>
    BY <1>4, <1>6, AnswerIs
  <2>2. chat' = <<Stream!Preview(n)>> /\ streamCall'[a].msg = 1
    BY <1>3, <1>6, <2>1, Chats12
  <2>3. Shown'
    BY <1>3, <2>1, <2>2 DEF Shown
  <2> QED BY <1>2, <1>6, <2>1, <2>2, <2>3 DEF RunningShows
<1>7. CASE /\ messageId = 1 /\ Shown /\ streamCall[a].op = "edit" /\ streamCall[a].msg = 1
  <2>1. /\ \/ chat' = chat \/ chat' = [chat EXCEPT ![1] = streamCall[a].text]
        /\ streamCall'[a].msg = 1 /\ streamCall'[a].op = "edit"
        /\ UNCHANGED <<streamBuffer, messageId>>
    BY <1>7, AnswerIs
  <2>2. PICK m \in 1..streamBuffer : chat = <<Stream!Preview(m)>>
    BY <1>7 DEF Shown
  <2>3. chat' = <<Stream!Preview(m)>> \/ chat' = <<Stream!Preview(n)>>
    BY <1>3, <2>1, <2>2, Chats12
  <2>4. Shown'
    BY <2>1, <2>2, <2>3, <1>3 DEF Shown
  <2> QED BY <1>5, <1>7, <2>1, <2>4 DEF RunningShows
<1>8. ASSUME NEW g \in Flushes, streamCall[g].op = "send", streamCall[g].at = "back"
      PROVE  FALSE
  BY <1>1, <1>2, <1>8, NoCallIs, TheActors
<1> QED BY <1>1, <1>2, <1>6, <1>7, <1>8 DEF RunningShows

(* The final text takes the place of the preview, or it is the first message. *)
LEMMA AppliedFinishing ==
  ASSUME CallsInv, FinishShows, Calm, CallsInv', NEW a \in Stream!Actors, Stream!Applied(a),
         phase = "finishing"
  PROVE  FinishShows'
<1> DEFINE c == streamCall["finish"]
<1>1. streamCall[a] # Stream!NoCall /\ streamCall[a].at = "out" /\ c # Stream!NoCall
  BY AnswerIs, NoCallIs DEF CallsInv, Phases
<1>2. a = "finish"
  BY <1>1, CalmAlone, TheActors
<1>3. UNCHANGED <<streamBuffer, phase, reply>> /\ c.at = "out" /\ c.at # "back"
  BY <1>1, <1>2, AnswerIs
<1> SUFFICES ASSUME reply # Stream!Preview(streamBuffer) PROVE FinishShows'
  BY <1>3 DEF FinishShows
<1>4. /\ streamCall'["finish"].op = c.op /\ streamCall'["finish"].text = c.text
      /\ streamCall'["finish"].at = "back"
      /\ \/ /\ c.op = "send" /\ c.text # Stream!Long
            /\ chat' = Append(chat, c.text) /\ streamCall'["finish"].ok = TRUE
         \/ /\ c.op = "edit" /\ chat[c.msg] # c.text
            /\ chat' = [chat EXCEPT ![c.msg] = c.text] /\ streamCall'["finish"].ok = TRUE
         \/ /\ c.op = "send" /\ c.text = Stream!Long /\ streamCall'["finish"].ok = FALSE
         \/ c.op = "edit" /\ chat[c.msg] = c.text
  BY <1>2, AnswerIs
<1>5. reply \in {Stream!Final, Stream!Long}
  BY DEF FinishShows
<1>6. CASE c.op = "send" /\ c.text = reply /\ chat = <<>>
  <2>1. CASE reply = Stream!Long
    BY <1>3, <1>4, <1>6, <2>1 DEF FinishShows
  <2>2. CASE reply # Stream!Long
    <3>1. chat' = <<reply>>
      BY <1>4, <1>6, <2>2, Chats12
    <3> QED BY <1>3, <1>4, <1>5, <1>6, <2>2, <3>1 DEF FinishShows
  <2> QED BY <2>1, <2>2
<1>7. CASE c.op = "edit" /\ c.msg = 1 /\ c.text = FirstText /\ Shown
  <2>1. PICK m \in 1..streamBuffer : chat = <<Stream!Preview(m)>>
    BY <1>7 DEF Shown
  <2>2. chat[1] = Stream!Preview(m) /\ FirstText # Stream!Preview(m)
    BY <1>5, <2>1, Chats12, TextsDiffer DEF FirstText
  <2>3. chat' = [chat EXCEPT ![1] = FirstText] /\ streamCall'["finish"].ok = TRUE
    BY <1>4, <1>7, <2>2
  <2>4. chat' = <<FirstText>> /\ FirstText' = FirstText
    BY <1>3, <2>1, <2>3, Chats12 DEF FirstText
  <2> QED BY <1>3, <1>4, <1>5, <1>7, <2>3, <2>4 DEF FinishShows
<1>8. CASE /\ c.op = "send" /\ c.text = Stream!Rest /\ reply = Stream!Long
           /\ chat = <<Stream!Opening>>
  <2>1. chat' = <<Stream!Opening, Stream!Rest>>
    BY <1>4, <1>8, TextsDiffer, Chats12
  <2> QED BY <1>3, <1>4, <1>8, <2>1 DEF FinishShows
<1> QED BY <1>3, <1>6, <1>7, <1>8 DEF FinishShows

(* What Telegram applies goes on with the story of the chat.                *)
LEMMA AppliedStory ==
  ASSUME CallsInv, Story, CallsInv', NEW a \in Stream!Actors, Stream!Applied(a)
  PROVE  Story'
<1>1. /\ UNCHANGED <<streamBuffer, phase, reply, streamFaults, raced>>
      /\ streamCall[a] # Stream!NoCall
  BY AnswerIs, NoCallIs
<1> SUFFICES ASSUME Calm' PROVE RunningShows' /\ FinishShows' /\ DoneShows'
  BY DEF Story
<1>2. Calm /\ RunningShows /\ FinishShows /\ DoneShows
  BY <1>1 DEF Calm, Story
<1>3. RunningShows'
  <2>1. CASE phase = "running"
    BY <1>2, <2>1, AppliedRunning
  <2>2. CASE phase # "running"
    BY <1>1, <2>2 DEF RunningShows
  <2> QED BY <2>1, <2>2
<1>4. FinishShows'
  <2>1. CASE phase = "finishing"
    BY <1>2, <2>1, AppliedFinishing
  <2>2. CASE phase # "finishing"
    BY <1>1, <2>2 DEF FinishShows
  <2> QED BY <2>1, <2>2
<1>5. DoneShows'
  BY <1>1, <1>2 DEF DoneShows
<1> QED BY <1>3, <1>4, <1>5

(* No step of stream, delivery or Telegram breaks the invariant.            *)
LEMMA StreamKeeps == StreamInv /\ [Stream!Next]_(Stream!vars) => StreamInv'
<1> SUFFICES ASSUME CallsInv, Story, CallsInv', [Stream!Next]_(Stream!vars) PROVE Story'
  BY CallsInvKeeps DEF StreamInv
<1>1. CASE UNCHANGED Stream!vars
  <2>1. UNCHANGED <<streamBuffer, messageId, streamCall, chat, phase, reply, streamFaults, raced>>
    BY <1>1, Zenon DEF Stream!vars
  <2> QED BY <2>1 DEF Story, Calm, RunningShows, FinishShows, DoneShows, FirstText, Shown
<1>2. ASSUME NEW a \in Stream!Actors, Stream!Refused(a) PROVE Story'
  <2>1. streamFaults' = streamFaults + 1
    BY <1>2, Zenon DEF Stream!Refused
  <2>2. streamFaults \in Nat
    BY Counts DEF CallsInv
  <2>3. streamFaults' # 0
    BY <2>1, <2>2
  <2> QED BY <2>3 DEF Story, Calm
<1>3. CASE Stream!Next
  BY <1>2, <1>3, OnDeltaStory, FinishStory, FinishGoesOnStory, TurnEndsStory, FlushStory, FlushGoesOnStory,
     AppliedStory DEF Stream!Next
<1> QED BY <1>1, <1>3

(* The calls of a stream and of the delivery never leave the invariant above:  *)
(* what each waits for, and what the chat shows while none overlap.          *)
THEOREM StreamHolds == Spec => []StreamInv
<1>1. Init => StreamInv
  BY InitStream DEF Init
<1>2. StreamInv /\ [Next]_vars => StreamInv'
  BY StreamSteps, StreamKeeps
<1> QED BY <1>1, <1>2, PTL DEF Spec

(* The invariant holds what the run checks of the stream.                   *)
LEMMA StreamMeans ==
  StreamInv => Stream!TypeOK /\ Stream!FinalOnce /\ Stream!DownByFirstPreview
<1> SUFFICES ASSUME StreamInv PROVE Stream!TypeOK /\ Stream!FinalOnce /\ Stream!DownByFirstPreview
  OBVIOUS
<1>1. Stream!TypeOK
  <2>1. ASSUME NEW a \in Stream!Actors
        PROVE  /\ streamCall[a].op \in {"none", "send", "edit"}
               /\ streamCall[a].at \in {"none", "out", "back"}
               /\ streamCall[a].text \in Stream!Texts \cup {Stream!NoText}
               /\ streamCall[a].msg \in 0..Len(chat)
    <3>1. PICK x \in CallSet : x = streamCall[a]
      BY DEF StreamInv, CallsInv, StreamTypes
    <3>2. /\ x.op \in {"none", "send", "edit"} /\ x.at \in {"none", "out", "back"}
          /\ x.text \in Stream!Texts \cup {Stream!NoText}
      BY DEF CallSet, TextSet
    <3>3. streamCall[a].msg \in 0..Len(chat)
      BY DEF StreamInv, CallsInv, Asked
    <3> QED BY <3>1, <3>2, <3>3
  <2> QED BY <2>1 DEF Stream!TypeOK, StreamInv, CallsInv, StreamTypes, TextSet
<1>2. Stream!FinalOnce
  <2>1. ~raced => raced # TRUE
    BY Zenon
  <2> QED BY <2>1, Zenon DEF Stream!FinalOnce, StreamInv, Story, Calm, DoneShows
<1>3. Stream!DownByFirstPreview
  BY Zenon DEF Stream!DownByFirstPreview, StreamInv, CallsInv, DownByPreview
<1> QED BY <1>1, <1>2, <1>3

-----------------------------------------------------------------------------
(* The files sent to a chat.                                               *)

(* A step is one of the sending tools or leaves them as they are.           *)
LEMMA FilesSteps == [Next]_vars => [Files!Next]_(Files!vars)
<1> SUFFICES ASSUME [Next]_vars PROVE Files!Next \/ UNCHANGED filesVars
  BY DEF filesVars, Files!vars
<1>1. CASE UNCHANGED vars
  BY <1>1, Zenon DEF vars
<1>2. CASE Only("files") /\ Files!Next
  BY <1>2
<1>3. CASE \E p \in {"ipc", "mcp", "lsp", "grok", "stream", "voice"} : Only(p)
  BY <1>3 DEF Only
<1> QED BY <1>1, <1>2, <1>3, Zenon DEF Next

-----------------------------------------------------------------------------
(* The tools that send to a chat.                                          *)

FilesTypes ==
  /\ sent \in [{"audio", "photo"} -> SUBSET Paths]
  /\ photos \in Seq([chat : Chats, by : FileCalls])
  /\ req \in [FileCalls -> Files!Requests \cup {Files!NoReq}]
  /\ filesPc \in [FileCalls -> {"idle", "parsed", "sending", "end"}]
  /\ result \in [FileCalls -> {"none", "ok", "deduplicated", "error"}]
  /\ delivered \in [FileCalls -> 0..1]
  /\ before \in [FileCalls -> SUBSET FileCalls]
  /\ forgotten \in BOOLEAN /\ crashes \in 0..MaxCrashes

(* Where a call is decides what it has put in its chat.                     *)
Goes ==
  /\ \A c \in FileCalls :
       filesPc[c] \in {"idle", "parsed", "sending"} => result[c] = "none" /\ delivered[c] = 0
  /\ \A c \in FileCalls : filesPc[c] # "idle" => req[c] \in Files!Requests
  /\ \A c \in FileCalls : result[c] = "ok" => delivered[c] = 1
  /\ \A c \in FileCalls : result[c] = "deduplicated" => delivered[c] = 0
  /\ \A c, d \in FileCalls : d \in before[c] => result[d] = "ok"

(* A path is marked exactly for the calls that reported to have sent it,     *)
(* as far as no torn file forgot it.                                       *)
Marked ==
  /\ \A d \in FileCalls : result[d] = "ok" /\ req[d].kind # "text" =>
       forgotten = TRUE \/ req[d].path \in sent[req[d].kind]
  /\ \A k \in {"audio", "photo"} : \A p \in sent[k] :
       \E d \in FileCalls : req[d].kind = k /\ req[d].path = p /\ result[d] = "ok"

(* A call that was not answered at once found no earlier report of its path. *)
Unreported ==
  \A c, d \in FileCalls :
    /\ filesPc[c] # "idle" /\ result[c] # "deduplicated" /\ d \in before[c]
    /\ req[c].kind # "text" /\ req[c].kind = req[d].kind /\ req[c].path = req[d].path
    => req[c].ignore \/ forgotten = TRUE

(* The log has one entry for each photo that was reported.                  *)
LoggedOnce ==
  /\ \A i, j \in 1..Len(photos) : photos[i].by = photos[j].by => i = j
  /\ \A i \in 1..Len(photos) :
       req[photos[i].by].kind = "photo" /\ result[photos[i].by] = "ok"
  /\ \A c \in FileCalls : req[c].kind = "photo" /\ result[c] = "ok" =>
       \E i \in 1..Len(photos) : photos[i].by = c

FilesInv == FilesTypes /\ Goes /\ Marked /\ Unreported /\ LoggedOnce

(* What a request says.                                                    *)
LEMMA RequestIs ==
  /\ \A r \in Files!Requests : r.kind \in {"text", "audio", "photo"} /\ r.chat \in Chats
  /\ \A r \in Files!Requests : r.kind # "text" => r.kind \in {"audio", "photo"} /\ r.path \in Paths
  /\ Files!NoReq.kind = "none"
BY DEF Files!Requests, Files!NoReq

(* What the log of photos is made of.                                       *)
LEMMA LogIs ==
  ASSUME FilesTypes
  PROVE  /\ DOMAIN photos = 1..Len(photos) /\ Len(photos) \in Nat
         /\ \A i \in 1..Len(photos) : /\ photos[i] \in [chat : Chats, by : FileCalls]
                                     /\ photos[i].by \in FileCalls
<1>1. ASSUME NEW S, NEW q \in Seq(S)
      PROVE  DOMAIN q = 1..Len(q) /\ Len(q) \in Nat /\ \A i \in 1..Len(q) : q[i] \in S
  OBVIOUS
<1>2. photos \in Seq([chat : Chats, by : FileCalls])
  BY DEF FilesTypes
<1>3. \A x \in [chat : Chats, by : FileCalls] : x.by \in FileCalls
  OBVIOUS
<1> QED BY <1>1, <1>2, <1>3

(* The component counts as this module does.                                *)
LEMMA SameCardinality == \A S : Files!Cardinality(S) = Cardinality(S)
BY DEF Files!Cardinality, Cardinality

(* It starts with nothing sent and no call made.                            *)
LEMMA InitFiles == Files!Init => FilesInv
<1> SUFFICES ASSUME Files!Init PROVE FilesInv
  OBVIOUS
<1>1. /\ sent = [k \in {"audio", "photo"} |-> {}] /\ photos = <<>>
      /\ req = [c \in FileCalls |-> Files!NoReq] /\ filesPc = [c \in FileCalls |-> "idle"]
      /\ result = [c \in FileCalls |-> "none"] /\ delivered = [c \in FileCalls |-> 0]
      /\ before = [c \in FileCalls |-> {}] /\ forgotten = FALSE /\ crashes = 0
  BY Zenon DEF Files!Init
<1>2. Len(photos) = 0 /\ photos \in Seq([chat : Chats, by : FileCalls])
  BY <1>1
<1>3. FilesTypes
  <2>1. crashes \in 0..MaxCrashes /\ forgotten \in BOOLEAN
    <3>1. crashes = 0 /\ forgotten = FALSE
      BY <1>1, Zenon
    <3>2. MaxCrashes \in Nat
      BY ChatAssumption
    <3>3. crashes \in 0..MaxCrashes
      BY <3>1, <3>2
    <3>4. forgotten \in BOOLEAN
      BY <3>1, Zenon
    <3> QED BY <3>3, <3>4, Zenon
  <2>2. /\ sent \in [{"audio", "photo"} -> SUBSET Paths]
        /\ req \in [FileCalls -> Files!Requests \cup {Files!NoReq}]
    BY <1>1
  <2>3. /\ filesPc \in [FileCalls -> {"idle", "parsed", "sending", "end"}]
        /\ result \in [FileCalls -> {"none", "ok", "deduplicated", "error"}]
        /\ delivered \in [FileCalls -> 0..1]
        /\ before \in [FileCalls -> SUBSET FileCalls]
    BY <1>1
  <2> QED BY <1>2, <2>1, <2>2, <2>3 DEF FilesTypes
<1>4. Goes
  BY <1>1 DEF Goes
<1>5. Marked
  BY <1>1 DEF Marked
<1>6. Unreported
  BY <1>1 DEF Unreported
<1>7. LoggedOnce
  BY <1>1, <1>2 DEF LoggedOnce
<1> QED BY <1>3, <1>4, <1>5, <1>6, <1>7 DEF FilesInv

(* A call begins, and its path was reported before or it is not known.      *)
LEMMA BeginKeeps ==
  ASSUME FilesInv, NEW c \in FileCalls, Files!Begin(c)
  PROVE  FilesInv'
<1>1. /\ filesPc[c] = "idle" /\ result[c] = "none" /\ delivered[c] = 0
      /\ UNCHANGED <<sent, photos, delivered, forgotten, crashes>>
  BY DEF Files!Begin, FilesInv, Goes
<1>2. PICK r \in Files!Requests :
        /\ req' = [req EXCEPT ![c] = r]
        /\ before' = [before EXCEPT ![c] = {d \in FileCalls : result[d] = "ok"}]
        /\ IF Files!AlreadySent(r) THEN Files!Answered(c, "deduplicated")
           ELSE /\ filesPc' = [filesPc EXCEPT ![c] =
                     IF r.kind = "text" /\ r.ignore THEN "parsed" ELSE "sending"]
                /\ UNCHANGED result
  BY DEF Files!Begin
<1>3. /\ req' \in [FileCalls -> Files!Requests \cup {Files!NoReq}] /\ req'[c] = r
      /\ \A d \in FileCalls \ {c} : req'[d] = req[d] /\ before'[d] = before[d]
      /\ before' \in [FileCalls -> SUBSET FileCalls]
      /\ \A d \in FileCalls : d \in before'[c] => result[d] = "ok"
  BY <1>2 DEF FilesInv, FilesTypes
<1>4. PICK s \in {"parsed", "sending", "end"}, a \in {"none", "deduplicated"} :
        /\ filesPc' = [filesPc EXCEPT ![c] = s] /\ result' = [result EXCEPT ![c] = a]
        /\ s # "end" => a = "none"
        /\ a = "none" => ~Files!AlreadySent(r)
  <2>1. CASE Files!AlreadySent(r)
    BY <1>2, <2>1 DEF Files!Answered
  <2>2. CASE ~Files!AlreadySent(r)
    <3>1. result' = [result EXCEPT ![c] = "none"]
      BY <1>1, <1>2, <2>2 DEF FilesInv, FilesTypes
    <3> QED BY <1>2, <2>2, <3>1
  <2> QED BY <2>1, <2>2
<1>5. /\ filesPc'[c] = s /\ result'[c] = a
      /\ \A d \in FileCalls \ {c} : filesPc'[d] = filesPc[d] /\ result'[d] = result[d]
      /\ \A d \in FileCalls : result'[d] = "ok" <=> result[d] = "ok"
  BY <1>1, <1>4 DEF FilesInv, FilesTypes
<1>6. FilesTypes'
  BY <1>1, <1>3, <1>4 DEF FilesInv, FilesTypes
<1>7. Goes'
  BY <1>1, <1>3, <1>4, <1>5 DEF FilesInv, Goes
<1>8. \A d \in FileCalls : result[d] = "ok" => d # c /\ req'[d] = req[d]
  BY <1>1, <1>3
<1>9. Marked'
  <2>1. ASSUME NEW k \in {"audio", "photo"}, NEW p \in sent'[k]
        PROVE  \E d \in FileCalls : req'[d].kind = k /\ req'[d].path = p /\ result'[d] = "ok"
    <3>1. PICK d \in FileCalls : req[d].kind = k /\ req[d].path = p /\ result[d] = "ok"
      BY <1>1, <2>1 DEF FilesInv, Marked
    <3> QED BY <1>5, <1>8, <3>1
  <2> QED BY <1>1, <1>5, <1>8, <2>1 DEF FilesInv, Marked
<1>10. Unreported'
  <2> SUFFICES ASSUME NEW e \in FileCalls, NEW d \in FileCalls,
                      filesPc'[e] # "idle", result'[e] # "deduplicated", d \in before'[e],
                      req'[e].kind # "text", req'[e].kind = req'[d].kind, req'[e].path = req'[d].path
               PROVE  req'[e].ignore \/ forgotten' = TRUE
    BY DEF Unreported
  <2>1. result[d] = "ok" /\ req'[d] = req[d]
    BY <1>3, <1>8 DEF FilesInv, Goes
  <2>2. CASE e = c
    <3>1. forgotten = TRUE \/ r.path \in sent[r.kind]
      BY <1>3, <2>1, <2>2 DEF FilesInv, Marked
    <3>2. ~Files!AlreadySent(r) /\ r.kind # "text"
      BY <1>3, <1>4, <1>5, <2>2
    <3>3. r.ignore \/ forgotten = TRUE
      BY <3>1, <3>2 DEF Files!AlreadySent
    <3> QED BY <1>1, <1>3, <2>2, <3>3
  <2>3. CASE e # c
    <3>1. req'[e] = req[e] /\ before'[e] = before[e] /\ filesPc'[e] = filesPc[e] /\ result'[e] = result[e]
      BY <1>3, <1>5, <2>3
    <3>2. req[e].ignore \/ forgotten = TRUE
      BY <2>1, <3>1, Zenon DEF FilesInv, Unreported
    <3> QED BY <1>1, <3>1, <3>2
  <2> QED BY <2>2, <2>3
<1>11. LoggedOnce'
  <2>1. \A i \in 1..Len(photos) : photos[i].by \in FileCalls
    BY LogIs DEF FilesInv
  <2>2. \A i \in 1..Len(photos) : photos[i].by # c
    BY <1>1 DEF FilesInv, LoggedOnce
  <2>3. \A d \in FileCalls : req'[d].kind = "photo" /\ result'[d] = "ok" =>
          \E i \in 1..Len(photos) : photos[i].by = d
    BY <1>5, <1>8 DEF FilesInv, LoggedOnce
  <2>4. \A i \in 1..Len(photos) : req'[photos[i].by].kind = "photo" /\ result'[photos[i].by] = "ok"
    BY <1>3, <1>5, <2>1, <2>2 DEF FilesInv, LoggedOnce
  <2> QED BY <1>1, <2>3, <2>4 DEF FilesInv, LoggedOnce
<1> QED BY <1>6, <1>7, <1>9, <1>10, <1>11 DEF FilesInv

(* What a call of Telegram that succeeded leaves.                           *)
LEMMA SucceedsKeeps ==
  ASSUME FilesInv, NEW c \in FileCalls, Files!Succeeds(c)
  PROVE  FilesInv'
<1> DEFINE r == req[c]
<1>1. /\ filesPc[c] \in {"parsed", "sending"} /\ result[c] = "none" /\ delivered[c] = 0
      /\ UNCHANGED <<req, before, forgotten, crashes>> /\ r \in Files!Requests
      /\ filesPc' = [filesPc EXCEPT ![c] = "end"] /\ result' = [result EXCEPT ![c] = "ok"]
      /\ delivered' = [delivered EXCEPT ![c] = @ + 1]
      /\ sent' = Files!Mark(r) /\ photos' = Files!LogPhoto(c)
  BY DEF Files!Succeeds, Files!Delivers, Files!Answered, FilesInv, Goes
<1>2. /\ filesPc'[c] = "end" /\ result'[c] = "ok" /\ delivered'[c] = 1
      /\ \A d \in FileCalls \ {c} : /\ filesPc'[d] = filesPc[d] /\ result'[d] = result[d]
                                    /\ delivered'[d] = delivered[d]
      /\ delivered' \in [FileCalls -> 0..1]
  <2>1. delivered[c] + 1 = 1
    BY <1>1
  <2>2. delivered' = [delivered EXCEPT ![c] = 1]
    BY <1>1, <2>1
  <2> QED BY <1>1, <2>2 DEF FilesInv, FilesTypes
<1>3. /\ sent' \in [{"audio", "photo"} -> SUBSET Paths]
      /\ \A k \in {"audio", "photo"} : sent[k] \subseteq sent'[k]
      /\ \A k \in {"audio", "photo"} : \A p \in sent'[k] : p \in sent[k] \/ (k = r.kind /\ p = r.path)
      /\ r.kind # "text" => r.path \in sent'[r.kind]
  <2>1. CASE r.kind = "text"
    BY <1>1, <2>1 DEF Files!Mark, FilesInv, FilesTypes
  <2>2. CASE r.kind # "text"
    <3>1. r.kind \in {"audio", "photo"} /\ r.path \in Paths
      BY <1>1, <2>2, RequestIs
    <3>2. sent' = [sent EXCEPT ![r.kind] = sent[r.kind] \cup {r.path}]
      BY <1>1, <2>2 DEF Files!Mark
    <3> HIDE DEF r
    <3> QED BY <3>1, <3>2 DEF FilesInv, FilesTypes
  <2> QED BY <2>1, <2>2
<1>4. \/ r.kind # "photo" /\ photos' = photos
      \/ r.kind = "photo" /\ photos' = Append(photos, [chat |-> r.chat, by |-> c])
  BY <1>1 DEF Files!LogPhoto
<1>5. photos' \in Seq([chat : Chats, by : FileCalls])
  <2>1. [chat |-> r.chat, by |-> c] \in [chat : Chats, by : FileCalls]
    BY <1>1, RequestIs
  <2>2. photos \in Seq([chat : Chats, by : FileCalls])
    BY DEF FilesInv, FilesTypes
  <2>3. Append(photos, [chat |-> r.chat, by |-> c]) \in Seq([chat : Chats, by : FileCalls])
    BY <2>1, <2>2
  <2> QED BY <1>4, <2>2, <2>3
<1>6. FilesTypes'
  BY <1>1, <1>2, <1>3, <1>5 DEF FilesInv, FilesTypes
<1>7. Goes'
  BY <1>1, <1>2 DEF FilesInv, Goes
<1>8. Marked'
  <2>1. ASSUME NEW d \in FileCalls, result'[d] = "ok", req'[d].kind # "text"
        PROVE  forgotten' = TRUE \/ req'[d].path \in sent'[req'[d].kind]
    <3>1. CASE d = c
      BY <1>1, <1>3, <2>1, <3>1
    <3>2. CASE d # c
      <4>1. req[d].kind \in {"audio", "photo"}
        <5>1. req[d] \in Files!Requests
          BY <1>2, <2>1, <3>2 DEF FilesInv, Goes, FilesTypes
        <5> QED BY <1>1, <2>1, <5>1, RequestIs
      <4>2. forgotten = TRUE \/ req[d].path \in sent[req[d].kind]
        BY <1>1, <1>2, <2>1, <3>2 DEF FilesInv, Marked
      <4> QED BY <1>1, <1>3, <4>1, <4>2
    <3> QED BY <3>1, <3>2
  <2>2. ASSUME NEW k \in {"audio", "photo"}, NEW p \in sent'[k]
        PROVE  \E d \in FileCalls : req'[d].kind = k /\ req'[d].path = p /\ result'[d] = "ok"
    <3>1. CASE p \in sent[k]
      <4>1. PICK d \in FileCalls : req[d].kind = k /\ req[d].path = p /\ result[d] = "ok"
        BY <3>1 DEF FilesInv, Marked
      <4> QED BY <1>1, <1>2, <4>1
    <3>2. CASE k = r.kind /\ p = r.path
      BY <1>1, <1>2, <3>2
    <3> QED BY <1>3, <2>2, <3>1, <3>2
  <2> QED BY <2>1, <2>2 DEF Marked
<1>9. Unreported'
  <2> SUFFICES ASSUME NEW e \in FileCalls, NEW d \in FileCalls,
                      filesPc'[e] # "idle", result'[e] # "deduplicated", d \in before'[e],
                      req'[e].kind # "text", req'[e].kind = req'[d].kind, req'[e].path = req'[d].path
               PROVE  req'[e].ignore \/ forgotten' = TRUE
    BY DEF Unreported
  <2>1. filesPc[e] # "idle" /\ result[e] # "deduplicated"
    BY <1>1, <1>2
  <2>2. req[e].ignore \/ forgotten = TRUE
    BY <1>1, <2>1, Zenon DEF FilesInv, Unreported
  <2> QED BY <1>1, <2>2
<1>10. LoggedOnce'
  <2>1. \A i \in 1..Len(photos) : photos[i].by \in FileCalls /\ photos[i].by # c
    BY <1>1, LogIs DEF FilesInv, LoggedOnce
  <2>2. CASE r.kind # "photo" /\ photos' = photos
    BY <1>1, <1>2, <2>1, <2>2 DEF FilesInv, LoggedOnce
  <2>3. CASE r.kind = "photo" /\ photos' = Append(photos, [chat |-> r.chat, by |-> c])
    <3> DEFINE x == [chat |-> r.chat, by |-> c]
               n == Len(photos)
    <3>1. /\ n \in Nat /\ Len(photos') = n + 1 /\ photos'[n + 1].by = c
          /\ \A i \in 1..n : photos'[i] = photos[i]
      <4>1. photos \in Seq([chat : Chats, by : FileCalls]) /\ x.by = c
        BY DEF FilesInv, FilesTypes
      <4>2. photos' = Append(photos, x)
        BY <2>3
      <4> HIDE DEF x
      <4> QED BY <4>1, <4>2
    <3> HIDE DEF n
    <3>2. \A i \in 1..Len(photos') : i = n + 1 \/ (i \in 1..n /\ photos'[i] = photos[i])
      BY <3>1
    <3>3. n + 1 \in 1..Len(photos') /\ \A i \in 1..n : i \in 1..Len(photos')
      BY <3>1
    <3>4. \A i, j \in 1..Len(photos') : photos'[i].by = photos'[j].by => i = j
      <4>1. \A i, j \in 1..n : photos[i].by = photos[j].by => i = j
        BY DEF FilesInv, LoggedOnce, n
      <4>2. \A i \in 1..n : photos[i].by # c
        BY <2>1 DEF n
      <4> QED BY <3>1, <3>2, <4>1, <4>2
    <3>5. \A i \in 1..Len(photos') : req'[photos'[i].by].kind = "photo" /\ result'[photos'[i].by] = "ok"
      <4>1. ASSUME NEW i \in 1..n PROVE req'[photos[i].by].kind = "photo" /\ result'[photos[i].by] = "ok"
        <5>1. i \in 1..Len(photos)
          BY DEF n
        <5> QED BY <1>1, <1>2, <2>1, <5>1 DEF FilesInv, LoggedOnce
      <4>2. req'[c].kind = "photo" /\ result'[c] = "ok"
        BY <1>1, <1>2, <2>3
      <4> QED BY <3>1, <3>2, <4>1, <4>2
    <3>6. ASSUME NEW d \in FileCalls, req'[d].kind = "photo", result'[d] = "ok"
          PROVE  \E i \in 1..Len(photos') : photos'[i].by = d
      <4>1. CASE d = c
        BY <3>1, <3>3, <4>1
      <4>2. CASE d # c
        <5>1. PICK i \in 1..n : photos[i].by = d
          BY <1>1, <1>2, <3>6, <4>2 DEF FilesInv, LoggedOnce, n
        <5> QED BY <3>1, <3>3, <5>1
      <4> QED BY <4>1, <4>2
    <3> QED BY <3>4, <3>5, <3>6 DEF LoggedOnce
  <2> QED BY <1>4, <2>2, <2>3
<1> QED BY <1>6, <1>7, <1>8, <1>9, <1>10 DEF FilesInv

(* Calls that end without a report, and a text that goes out plain.         *)
LEMMA OthersKeep ==
  ASSUME FilesInv, UNCHANGED <<photos, req, before>>,
         filesPc' \in [FileCalls -> {"idle", "parsed", "sending", "end"}],
         result' \in [FileCalls -> {"none", "ok", "deduplicated", "error"}],
         delivered' \in [FileCalls -> 0..1],
         \A c \in FileCalls : filesPc'[c] # "idle" <=> filesPc[c] # "idle",
         \A c \in FileCalls :
           filesPc'[c] \in {"idle", "parsed", "sending"} => result'[c] = "none" /\ delivered'[c] = 0,
         \A c \in FileCalls : result'[c] # result[c] => result'[c] = "error" /\ result[c] = "none",
         \A c \in FileCalls : delivered'[c] # delivered[c] => result[c] = "none",
         \/ UNCHANGED <<sent, forgotten>>
         \/ /\ forgotten' = TRUE /\ sent' \in [{"audio", "photo"} -> SUBSET Paths]
            /\ \A k \in {"audio", "photo"} : sent'[k] \subseteq sent[k],
         crashes' \in 0..MaxCrashes
  PROVE  FilesInv'
<1>1. \A c \in FileCalls : result'[c] = "ok" <=> result[c] = "ok"
  OBVIOUS
<1>2. \A c \in FileCalls : result'[c] = "deduplicated" <=> result[c] = "deduplicated"
  OBVIOUS
<1>3. FilesTypes'
  BY DEF FilesInv, FilesTypes
<1>4. Goes'
  <2>1. \A c \in FileCalls : result'[c] \in {"ok", "deduplicated"} => delivered'[c] = delivered[c]
    BY <1>1, <1>2
  <2> QED BY <1>1, <1>2, <2>1 DEF FilesInv, Goes
<1>5. Marked'
  <2>1. ASSUME NEW d \in FileCalls, result'[d] = "ok", req'[d].kind # "text"
        PROVE  forgotten' = TRUE \/ req'[d].path \in sent'[req'[d].kind]
    BY <1>1, <2>1 DEF FilesInv, Marked
  <2>2. ASSUME NEW k \in {"audio", "photo"}, NEW p \in sent'[k]
        PROVE  \E d \in FileCalls : req'[d].kind = k /\ req'[d].path = p /\ result'[d] = "ok"
    <3>1. p \in sent[k]
      BY <2>2
    <3>2. PICK d \in FileCalls : req[d].kind = k /\ req[d].path = p /\ result[d] = "ok"
      BY <3>1 DEF FilesInv, Marked
    <3> QED BY <1>1, <3>2
  <2> QED BY <2>1, <2>2 DEF Marked
<1>6. Unreported'
  <2> SUFFICES ASSUME NEW e \in FileCalls, NEW d \in FileCalls,
                      filesPc'[e] # "idle", result'[e] # "deduplicated", d \in before'[e],
                      req'[e].kind # "text", req'[e].kind = req'[d].kind, req'[e].path = req'[d].path
               PROVE  req'[e].ignore \/ forgotten' = TRUE
    BY DEF Unreported
  <2>1. filesPc[e] # "idle" /\ result[e] # "deduplicated" /\ req' = req /\ before' = before
    BY <1>2
  <2>2. req[e].ignore \/ forgotten = TRUE
    BY <2>1, Zenon DEF FilesInv, Unreported
  <2>3. forgotten = TRUE => forgotten' = TRUE
    OBVIOUS
  <2> QED BY <2>1, <2>2, <2>3
<1>7. LoggedOnce'
  <2>1. \A i \in 1..Len(photos) : photos[i].by \in FileCalls
    BY LogIs DEF FilesInv
  <2> QED BY <1>1, <2>1 DEF FilesInv, LoggedOnce
<1> QED BY <1>3, <1>4, <1>5, <1>6, <1>7 DEF FilesInv

(* Telegram refuses a file or its caption, or the answer is lost.           *)
LEMMA EndKeeps ==
  ASSUME FilesInv, NEW c \in FileCalls, Files!Refused(c) \/ Files!Unparsed(c) \/ Files!AnswerLost(c)
  PROVE  FilesInv'
<1>1. /\ filesPc[c] \in {"parsed", "sending"} /\ result[c] = "none" /\ delivered[c] = 0
      /\ UNCHANGED <<sent, photos, req, before, forgotten, crashes>>
  BY DEF Files!Refused, Files!Unparsed, Files!AnswerLost, Files!AfterRefusal, FilesInv, Goes
<1>2. PICK s \in {"sending", "end"}, a \in {"none", "error"}, n \in 0..1 :
        /\ filesPc' = [filesPc EXCEPT ![c] = s] /\ result' = [result EXCEPT ![c] = a]
        /\ delivered' = [delivered EXCEPT ![c] = n]
        /\ s = "sending" => a = "none" /\ n = 0
  <2>1. /\ result = [result EXCEPT ![c] = "none"] /\ delivered = [delivered EXCEPT ![c] = 0]
    BY <1>1 DEF FilesInv, FilesTypes
  <2>2. CASE Files!Refused(c)
    BY <2>1, <2>2 DEF Files!Refused, Files!AfterRefusal, Files!Answered
  <2>3. CASE Files!Unparsed(c)
    BY <2>1, <2>3 DEF Files!Unparsed
  <2>4. CASE Files!AnswerLost(c)
    <3>1. delivered' = [delivered EXCEPT ![c] = 1]
      <4>1. delivered[c] + 1 = 1
        BY <1>1
      <4> QED BY <2>4, <4>1 DEF Files!AnswerLost, Files!Delivers
    <3> QED BY <2>4, <3>1 DEF Files!AnswerLost, Files!AfterLost, Files!Answered
  <2> QED BY <2>2, <2>3, <2>4
<1>3. /\ filesPc' \in [FileCalls -> {"idle", "parsed", "sending", "end"}]
      /\ result' \in [FileCalls -> {"none", "ok", "deduplicated", "error"}]
      /\ delivered' \in [FileCalls -> 0..1]
      /\ filesPc'[c] = s /\ result'[c] = a /\ delivered'[c] = n
      /\ \A d \in FileCalls \ {c} : /\ filesPc'[d] = filesPc[d] /\ result'[d] = result[d]
                                    /\ delivered'[d] = delivered[d]
  BY <1>2 DEF FilesInv, FilesTypes
<1>4. \A d \in FileCalls :
        filesPc'[d] \in {"idle", "parsed", "sending"} => result'[d] = "none" /\ delivered'[d] = 0
  BY <1>2, <1>3 DEF FilesInv, Goes
<1>5. crashes' \in 0..MaxCrashes
  BY <1>1 DEF FilesInv, FilesTypes
<1>6. /\ \A d \in FileCalls : filesPc'[d] # "idle" <=> filesPc[d] # "idle"
      /\ \A d \in FileCalls : result'[d] # result[d] => result'[d] = "error" /\ result[d] = "none"
      /\ \A d \in FileCalls : delivered'[d] # delivered[d] => result[d] = "none"
  BY <1>1, <1>2, <1>3
<1> QED BY <1>1, <1>3, <1>4, <1>5, <1>6, OthersKeep

(* The daemon dies; what was on its way may have arrived.                   *)
LEMMA CrashKeeps ==
  ASSUME FilesInv, Files!Crash
  PROVE  FilesInv'
<1>1. PICK arrived \in SUBSET {c \in FileCalls : filesPc[c] \in {"parsed", "sending"}} :
        /\ delivered' = [c \in FileCalls |-> delivered[c] + IF c \in arrived THEN 1 ELSE 0]
        /\ \/ UNCHANGED <<sent, forgotten>>
           \/ \E c \in arrived : /\ req[c].kind # "text"
                                 /\ sent' = [sent EXCEPT ![req[c].kind] = {}]
                                 /\ forgotten' = TRUE
  BY DEF Files!Crash
<1>2. /\ UNCHANGED <<photos, req, result, before>> /\ crashes < MaxCrashes /\ crashes' = crashes + 1
      /\ filesPc' = [c \in FileCalls |-> IF filesPc[c] \in {"parsed", "sending"} THEN "end" ELSE filesPc[c]]
  BY DEF Files!Crash, Files!Interrupt
<1>3. \A c \in FileCalls : delivered'[c] = IF c \in arrived THEN 1 ELSE delivered[c]
  <2>1. \A c \in arrived : delivered[c] = 0
    BY DEF FilesInv, Goes
  <2>2. \A c \in FileCalls : delivered[c] \in 0..1
    BY DEF FilesInv, FilesTypes
  <2> QED BY <1>1, <2>1, <2>2
<1>4. delivered' \in [FileCalls -> 0..1]
  <2>1. DOMAIN delivered' = FileCalls /\ delivered' = [c \in FileCalls |-> delivered'[c]]
    BY <1>1
  <2>2. \A c \in FileCalls : delivered'[c] \in 0..1
    BY <1>3 DEF FilesInv, FilesTypes
  <2> QED BY <2>1, <2>2
<1>5. \A c \in FileCalls : delivered'[c] # delivered[c] => result[c] = "none"
  BY <1>3 DEF FilesInv, Goes
<1>6. \/ UNCHANGED <<sent, forgotten>>
      \/ /\ forgotten' = TRUE /\ sent' \in [{"audio", "photo"} -> SUBSET Paths]
         /\ \A k \in {"audio", "photo"} : sent'[k] \subseteq sent[k]
  <2>1. ASSUME NEW c \in arrived, sent' = [sent EXCEPT ![req[c].kind] = {}]
        PROVE  /\ sent' \in [{"audio", "photo"} -> SUBSET Paths]
               /\ \A k \in {"audio", "photo"} : sent'[k] \subseteq sent[k]
    <3> DEFINE k == req[c].kind
    <3>1. sent' = [sent EXCEPT ![k] = {}]
      BY <2>1
    <3> HIDE DEF k
    <3> QED BY <3>1 DEF FilesInv, FilesTypes
  <2> QED BY <1>1, <2>1
<1>7. crashes' \in 0..MaxCrashes
  BY <1>2, ChatAssumption DEF FilesInv, FilesTypes
<1>8. /\ filesPc' \in [FileCalls -> {"idle", "parsed", "sending", "end"}]
      /\ \A c \in FileCalls : filesPc'[c] # "idle" <=> filesPc[c] # "idle"
      /\ \A c \in FileCalls : filesPc'[c] \in {"idle", "parsed", "sending"} => filesPc[c] = "idle"
  BY <1>2 DEF FilesInv, FilesTypes
<1>9. \A c \in FileCalls :
        filesPc'[c] \in {"idle", "parsed", "sending"} => result'[c] = "none" /\ delivered'[c] = 0
  <2>1. \A c \in arrived : filesPc[c] # "idle"
    OBVIOUS
  <2> QED BY <1>2, <1>3, <1>8, <2>1 DEF FilesInv, Goes
<1>10. /\ result' \in [FileCalls -> {"none", "ok", "deduplicated", "error"}]
       /\ \A c \in FileCalls : result'[c] = result[c]
  BY <1>2 DEF FilesInv, FilesTypes
<1> QED BY <1>2, <1>4, <1>5, <1>6, <1>7, <1>8, <1>9, <1>10, OthersKeep

(* No step of a call, of Telegram or of a crash breaks the invariant.       *)
LEMMA FilesKeeps == FilesInv /\ [Files!Next]_(Files!vars) => FilesInv'
<1> SUFFICES ASSUME FilesInv, [Files!Next]_(Files!vars) PROVE FilesInv'
  OBVIOUS
<1>1. CASE UNCHANGED Files!vars
  <2>1. UNCHANGED <<sent, photos, req, filesPc, result, delivered, before, forgotten, crashes>>
    BY <1>1, Zenon DEF Files!vars
  <2>2. FilesTypes' /\ Goes' /\ Marked' /\ LoggedOnce'
    BY <2>1 DEF FilesInv, FilesTypes, Goes, Marked, LoggedOnce
  <2>3. Unreported'
    BY <2>1, Zenon DEF FilesInv, Unreported
  <2> QED BY <2>2, <2>3 DEF FilesInv
<1>2. CASE Files!Next
  BY <1>2, BeginKeeps, SucceedsKeeps, EndKeeps, CrashKeeps DEF Files!Next
<1> QED BY <1>1, <1>2

(* Whatever calls run together and wherever the daemon crashes, a path whose  *)
(* sending was reported is not sent again by a later call, no call sends      *)
(* twice, and "already sent" is true (TelegramSend, audioDedupState).       *)
THEOREM FilesHolds == Spec => []FilesInv
<1>1. Init => FilesInv
  BY InitFiles DEF Init
<1> QED BY <1>1, FilesKeeps, FilesSteps, PTL DEF Spec

(* The invariant holds what the run checks of the sending tools.            *)
LEMMA FilesMeans ==
  FilesInv => Files!TypeOK /\ Files!SentOnce /\ Files!OneMessageEach /\ Files!SaidSentWasSent
<1> SUFFICES ASSUME FilesInv
             PROVE  Files!TypeOK /\ Files!SentOnce /\ Files!OneMessageEach /\ Files!SaidSentWasSent
  OBVIOUS
<1>1. Files!TypeOK
  <2>1. \A i \in DOMAIN photos : photos[i] \in [chat : Chats, by : FileCalls]
    BY LogIs DEF FilesInv
  <2>2. delivered \in [FileCalls -> 0..2]
    <3>1. \A n \in 0..1 : n \in 0..2
      OBVIOUS
    <3> QED BY <3>1 DEF FilesInv, FilesTypes
  <2> QED BY <2>1, <2>2 DEF FilesInv, FilesTypes, Files!TypeOK
<1>2. Files!OneMessageEach
  BY DEF FilesInv, FilesTypes, Goes, Files!OneMessageEach
<1>3. Files!SentOnce
  <2> SUFFICES ASSUME NEW c \in FileCalls, NEW d \in FileCalls,
                      d \in before[c], delivered[c] > 0,
                      req[c].kind # "text", req[c].kind = req[d].kind, req[c].path = req[d].path
               PROVE  req[c].ignore \/ forgotten
    BY DEF Files!SentOnce
  <2>1. delivered[c] # 0
    BY DEF FilesInv, FilesTypes
  <2>2. filesPc[c] # "idle" /\ result[c] # "deduplicated"
    BY <2>1 DEF FilesInv, Goes
  <2>3. req[c].ignore \/ forgotten = TRUE
    BY <2>2, Zenon DEF FilesInv, Unreported
  <2> QED BY <2>3
<1>4. Files!SaidSentWasSent
  <2>1. ASSUME NEW k \in {"audio", "photo"}, NEW p \in sent[k]
        PROVE  \E d \in FileCalls : req[d].kind = k /\ req[d].path = p /\ result[d] = "ok" /\ delivered[d] > 0
    <3>1. PICK d \in FileCalls : req[d].kind = k /\ req[d].path = p /\ result[d] = "ok"
      BY DEF FilesInv, Marked
    <3>2. delivered[d] = 1
      BY <3>1 DEF FilesInv, Goes
    <3> QED BY <3>1, <3>2
  <2>2. ASSUME NEW c \in FileCalls
        PROVE  Cardinality({i \in DOMAIN photos : photos[i].by = c})
                 = IF req[c].kind = "photo" /\ result[c] = "ok" THEN 1 ELSE 0
    <3> DEFINE S == {i \in DOMAIN photos : photos[i].by = c}
    <3>1. DOMAIN photos = 1..Len(photos)
      BY LogIs DEF FilesInv
    <3>2. CASE req[c].kind = "photo" /\ result[c] = "ok"
      <4>1. PICK i \in 1..Len(photos) : photos[i].by = c
        BY <3>2 DEF FilesInv, LoggedOnce
      <4>2. S = {i}
        BY <3>1, <4>1 DEF FilesInv, LoggedOnce
      <4>3. Cardinality(S) = 1
        BY <4>2, FS_Singleton
      <4> QED BY <3>2, <4>3
    <3>3. CASE ~(req[c].kind = "photo" /\ result[c] = "ok")
      <4>1. S = {}
        BY <3>1, <3>3 DEF FilesInv, LoggedOnce
      <4>2. Cardinality(S) = 0
        BY <4>1, FS_EmptySet
      <4> QED BY <3>3, <4>2
    <3> QED BY <3>2, <3>3
  <2> QED BY <2>1, <2>2, SameCardinality DEF Files!SaidSentWasSent
<1> QED BY <1>1, <1>2, <1>3, <1>4

-----------------------------------------------------------------------------
(* The hotkey, the recording and the speech service.                       *)

(* A step is one of the voice input or leaves it as it is.                  *)
LEMMA VoiceSteps == [Next]_vars => [Voice!Next]_(Voice!vars)
<1> SUFFICES ASSUME [Next]_vars PROVE Voice!Next \/ UNCHANGED voiceVars
  BY DEF voiceVars, Voice!vars
<1>1. CASE UNCHANGED vars
  BY <1>1, Zenon DEF vars
<1>2. CASE Only("voice") /\ Voice!Next
  BY <1>2
<1>3. CASE \E p \in {"ipc", "mcp", "lsp", "grok", "stream", "files"} : Only(p)
  BY <1>3 DEF Only
<1> QED BY <1>1, <1>2, <1>3, Zenon DEF Next

-----------------------------------------------------------------------------
(* The voice hotkey and the container.                                     *)

Ups == {"absent", "starting", "ready", "stopped"}
Box(m, u, w) == [model |-> m, up |-> u, was |-> w]
Shaped(c) == c = Box(c.model, c.up, c.was) /\ c.up \in Ups /\ c.was \in BOOLEAN

Free == {"idle", "status", "transcribe", "done"}

VoiceTypes ==
  /\ held \subseteq Keys /\ pressed \subseteq Keys
  /\ xinput \in {"up", "down"} /\ lost \in BOOLEAN
  /\ recorder \in Uses \cup {"none"}
  /\ files \subseteq Uses
  /\ Shaped(container)
  /\ voicePc \in [Uses -> {"recording"} \cup Free \cup Voice!Deploying]
  /\ seen \in [Uses -> Ups]
  /\ cand \in [Uses -> 1 .. Len(Models)]
  /\ probes \in [Uses -> 0 .. MaxProbes - 1]
  /\ voiceFaults \in 0 .. MaxVoiceFaults

(* pressedKeys are the keys that are down unless xinput missed one, and a     *)
(* recording is on only as long as they are all of the hotkey.             *)
Microphone ==
  /\ ~lost => pressed = held
  /\ recorder # "none" => Keys \subseteq pressed /\ recorder \in files
  /\ \A u \in Uses : voicePc[u] = "recording" <=> recorder = u

(* A container that never answered belongs to a deployment which will remove *)
(* it or see it answer.                                                    *)
Owned ==
  /\ container.up = "absent" <=> container = Voice!Absent
  /\ container.up = "ready" => container.was
  /\ voiceFaults = 0 => \/ container = Voice!Absent \/ container.was
                        \/ \E u \in Uses : voicePc[u] \in {"probe", "drop"}

VoiceInv == VoiceTypes /\ Microphone /\ Owned

(* What a container is made of.                                             *)
LEMMA BoxIs ==
  ASSUME NEW m, NEW u \in Ups, NEW w \in BOOLEAN
  PROVE  Shaped(Box(m, u, w)) /\ Box(m, u, w).up = u /\ (Box(m, u, w).was <=> w)
BY DEF Shaped, Box

(* A container changes what it does.                                        *)
LEMMA BoxUp ==
  ASSUME NEW m, NEW u, NEW w, NEW x
  PROVE  [Box(m, u, w) EXCEPT !.up = x] = Box(m, x, w)
BY DEF Box

(* A container changes what it did once.                                    *)
LEMMA BoxWas ==
  ASSUME NEW m, NEW u, NEW w, NEW x
  PROVE  [Box(m, u, w) EXCEPT !.was = x] = Box(m, u, x)
BY DEF Box

(* A container that starts, answers, crashes or is stopped.                 *)
LEMMA BoxMoves ==
  ASSUME NEW c, Shaped(c), NEW x \in Ups, NEW t
  PROVE  /\ [c EXCEPT !.up = x] = Box(c.model, x, c.was)
         /\ [c EXCEPT !.up = x, !.was = t] = Box(c.model, x, t)
<1>1. c = Box(c.model, c.up, c.was)
  BY DEF Shaped
<1>2. [c EXCEPT !.up = x] = Box(c.model, x, c.was)
  BY <1>1, BoxUp
<1>3. [Box(c.model, x, c.was) EXCEPT !.was = t] = Box(c.model, x, t)
  BY BoxWas
<1>4. [c EXCEPT !.up = x, !.was = t] = [[c EXCEPT !.up = x] EXCEPT !.was = t]
  OBVIOUS
<1>5. [c EXCEPT !.up = x, !.was = t] = [Box(c.model, x, c.was) EXCEPT !.was = t]
  BY <1>2, <1>4
<1> QED BY <1>2, <1>3, <1>5

(* No container at all.                                                     *)
LEMMA NoBox == Voice!Absent = Box("none", "absent", FALSE)
BY DEF Voice!Absent, Voice!None, Box

(* It starts with no key held and no recording.                             *)
LEMMA InitVoice == Voice!Init => VoiceInv
<1> SUFFICES ASSUME Voice!Init PROVE VoiceInv
  OBVIOUS
<1>1. container = Voice!Absent /\ Shaped(container) /\ container.up = "absent" /\ ~container.was
  BY NoBox, BoxIs DEF Voice!Init, Ups
<1>2. cand \in [Uses -> 1 .. Len(Models)] /\ probes \in [Uses -> 0 .. MaxProbes - 1]
      /\ voiceFaults \in 0 .. MaxVoiceFaults
  BY VoiceAssumption DEF Voice!Init
<1>3. VoiceTypes
  BY <1>1, <1>2 DEF Voice!Init, VoiceTypes, Voice!None, Free, Ups
<1>4. Microphone
  BY VoiceAssumption DEF Voice!Init, Microphone, Voice!None
<1>5. Owned
  BY <1>1 DEF Owned
<1> QED BY <1>3, <1>4, <1>5 DEF VoiceInv

(* A step of one use: it goes somewhere else than to its recording.          *)
LEMMA Moves ==
  ASSUME VoiceInv, NEW u \in Uses, NEW where \in Free \cup Voice!Deploying,
         voicePc[u] # "recording", Voice!To(u, where)
  PROVE  /\ voicePc' \in [Uses -> {"recording"} \cup Free \cup Voice!Deploying]
         /\ voicePc'[u] = where
         /\ \A v \in Uses \ {u} : voicePc'[v] = voicePc[v]
         /\ \A v \in Uses : voicePc'[v] = "recording" <=> voicePc[v] = "recording"
BY DEF VoiceInv, VoiceTypes, Voice!To, Free, Voice!Deploying

(* Keys go down and up.                                                    *)
LEMMA PressKeeps ==
  ASSUME VoiceInv, NEW k \in Keys, Voice!Press(k)
  PROVE  VoiceInv'
<1>1. /\ UNCHANGED <<xinput, container, seen, cand, probes, voiceFaults>>
      /\ held' = held \cup {k} /\ lost' = (lost \/ xinput = "down")
      /\ pressed' = IF xinput = "up" THEN pressed \cup {k} ELSE pressed
  BY DEF Voice!Press, Voice!useVars
<1>2. CASE UNCHANGED <<recorder, files, voicePc>>
  BY <1>1, <1>2 DEF VoiceInv, VoiceTypes, Microphone, Owned
<1>3. CASE /\ Keys \subseteq pressed' /\ recorder = "none"
           /\ \E u \in Uses : Voice!KeyDown(u)
  <2>1. PICK u \in Uses : Voice!KeyDown(u)
    BY <1>3
  <2>2. /\ recorder' = u /\ files' = files \cup {u} /\ voicePc[u] = "idle" /\ u # "none"
        /\ voicePc' = [voicePc EXCEPT ![u] = "recording"]
    BY <2>1, VoiceAssumption DEF Voice!KeyDown, Voice!To
  <2>3. voicePc' \in [Uses -> {"recording"} \cup Free \cup Voice!Deploying]
    BY <2>2 DEF VoiceInv, VoiceTypes
  <2>4. VoiceTypes'
    BY <1>1, <2>2, <2>3 DEF VoiceInv, VoiceTypes
  <2>5. Microphone'
    <3>1. (~lost => pressed = held)'
      BY <1>1 DEF VoiceInv, VoiceTypes, Microphone
    <3>2. \A v \in Uses : voicePc'[v] = "recording" <=> recorder' = v
      BY <1>3, <2>2, VoiceAssumption DEF VoiceInv, VoiceTypes, Microphone
    <3> QED BY <1>3, <2>2, <3>1, <3>2 DEF Microphone
  <2>6. Owned'
    BY <1>1, <2>2 DEF VoiceInv, VoiceTypes, Owned
  <2> QED BY <2>4, <2>5, <2>6 DEF VoiceInv
<1> QED BY <1>2, <1>3 DEF Voice!Press, Voice!Nothing, Voice!None

(* A key is released, and xinput may not see it.                            *)
LEMMA ReleaseKeeps ==
  ASSUME VoiceInv, NEW k \in Keys, Voice!Release(k)
  PROVE  VoiceInv'
<1>1. /\ UNCHANGED <<xinput, container, seen, cand, probes, voiceFaults>>
      /\ k \in held /\ held' = held \ {k} /\ lost' = (lost \/ xinput = "down")
      /\ pressed' = IF xinput = "up" THEN pressed \ {k} ELSE pressed
  BY DEF Voice!Release, Voice!useVars
<1>2. CASE xinput = "up" /\ recorder # "none" /\ Voice!Released
  <2>1. /\ recorder \in Uses /\ recorder' = "none" /\ files' = files /\ voicePc[recorder] = "recording"
        /\ voicePc' = [voicePc EXCEPT ![recorder] = "status"]
    BY <1>2 DEF VoiceInv, VoiceTypes, Microphone, Voice!Release, Voice!StopRecording, Voice!To, Voice!None
  <2>2. voicePc' \in [Uses -> {"recording"} \cup Free \cup Voice!Deploying]
    BY <2>1 DEF VoiceInv, VoiceTypes, Free
  <2>3. VoiceTypes'
    BY <1>1, <2>1, <2>2 DEF VoiceInv, VoiceTypes
  <2>4. Microphone'
    BY <1>1, <1>2, <2>1, VoiceAssumption DEF VoiceInv, VoiceTypes, Microphone
  <2>5. Owned'
    BY <1>1, <2>1 DEF VoiceInv, VoiceTypes, Owned
  <2> QED BY <2>3, <2>4, <2>5 DEF VoiceInv
<1>3. CASE ~(xinput = "up" /\ recorder # "none" /\ Voice!Released)
  <2>1. UNCHANGED <<recorder, files, voicePc>>
    BY <1>3 DEF Voice!Release, Voice!Nothing, Voice!None
  <2> QED BY <1>1, <1>3, <2>1 DEF VoiceInv, VoiceTypes, Microphone, Owned, Voice!Released
<1> QED BY <1>2, <1>3

(* A use comes, is told to wait, or is answered: nothing it does is about the *)
(* container.                                                              *)
LEMMA UseKeeps ==
  ASSUME VoiceInv, NEW u \in Uses,
         Voice!UseService(u) \/ Voice!Notify(u) \/ Voice!Transcribe(u) \/ Voice!Look(u) \/ Voice!Check(u)
  PROVE  VoiceInv'
<1>1. /\ UNCHANGED <<held, pressed, xinput, lost, recorder, container, cand, probes>>
      /\ voicePc[u] \notin {"recording", "probe", "drop"}
  BY DEF Voice!UseService, Voice!Notify, Voice!Transcribe, Voice!Look, Voice!Check, Voice!keyVars,
     Voice!useVars
<1>2. PICK where \in Free \cup Voice!Deploying : Voice!To(u, where)
  BY DEF Voice!UseService, Voice!Notify, Voice!Transcribe, Voice!Look, Voice!Check, Voice!End, Free,
     Voice!Deploying
<1>3. /\ files' = files \/ files' = files \ {u}
      /\ seen' = seen \/ seen' = [seen EXCEPT ![u] = container.up]
      /\ voiceFaults' = voiceFaults \/ (voiceFaults < MaxVoiceFaults /\ voiceFaults' = voiceFaults + 1)
  BY DEF Voice!UseService, Voice!Notify, Voice!Transcribe, Voice!Look, Voice!Check, Voice!End,
     Voice!useVars, Voice!Fault
<1>4. VoiceTypes'
  <2>1. voiceFaults' \in 0 .. MaxVoiceFaults
    BY <1>3, VoiceAssumption DEF VoiceInv, VoiceTypes
  <2>2. seen' \in [Uses -> Ups]
    BY <1>3 DEF VoiceInv, VoiceTypes, Shaped, Ups
  <2> QED BY <1>1, <1>2, <1>3, <2>1, <2>2, Moves DEF VoiceInv, VoiceTypes
<1>5. Microphone'
  BY <1>1, <1>2, <1>3, Moves DEF VoiceInv, VoiceTypes, Microphone
<1>6. Owned'
  <2>1. voiceFaults' = 0 => voiceFaults = 0
    BY <1>3 DEF VoiceInv, VoiceTypes
  <2> QED BY <1>1, <1>2, <2>1, Moves DEF VoiceInv, VoiceTypes, Owned
<1> QED BY <1>4, <1>5, <1>6 DEF VoiceInv

(* A container of a deployment: made, probed, removed.                      *)
LEMMA DeployKeeps ==
  ASSUME VoiceInv, NEW u \in Uses, Voice!Clear(u) \/ Voice!Run(u) \/ Voice!Probe(u) \/ Voice!Drop(u)
  PROVE  VoiceInv'
<1>1. /\ UNCHANGED <<held, pressed, xinput, lost, recorder>>
      /\ voicePc[u] \notin {"recording"}
  BY DEF Voice!Clear, Voice!Run, Voice!Probe, Voice!Drop, Voice!keyVars
<1>2. PICK where \in Free \cup Voice!Deploying : Voice!To(u, where)
  <2>1. CASE Voice!Probe(u) /\ UNCHANGED voicePc
    <3>1. Voice!To(u, "probe")
      BY <2>1 DEF VoiceInv, VoiceTypes, Voice!Probe, Voice!To
    <3> QED BY <3>1 DEF Voice!Deploying
  <2>2. CASE ~(Voice!Probe(u) /\ UNCHANGED voicePc)
    BY <2>2 DEF Voice!Clear, Voice!Run, Voice!Probe, Voice!ProbeAgain, Voice!Drop, Voice!End, Free,
       Voice!Deploying
  <2> QED BY <2>1, <2>2
<1>3. /\ files' = files \/ files' = files \ {u}
      /\ seen' = seen \/ seen' = [seen EXCEPT ![u] = "absent"]
      /\ voiceFaults' = voiceFaults \/ (voiceFaults < MaxVoiceFaults /\ voiceFaults' = voiceFaults + 1)
      /\ cand' = cand \/ (cand[u] < Len(Models) /\ cand' = [cand EXCEPT ![u] = @ + 1])
  BY DEF Voice!Clear, Voice!Run, Voice!Probe, Voice!Drop, Voice!DropWhat, Voice!Remove, Voice!End,
     Voice!useVars, Voice!Fault
<1>4. cand' \in [Uses -> 1 .. Len(Models)]
  <2>1. cand[u] \in 1 .. Len(Models) /\ Len(Models) \in Nat
    BY VoiceAssumption DEF VoiceInv, VoiceTypes
  <2>2. cand[u] < Len(Models) => cand[u] + 1 \in 1 .. Len(Models)
    BY <2>1
  <2> QED BY <1>3, <2>2 DEF VoiceInv, VoiceTypes
<1>5. probes' \in [Uses -> 0 .. MaxProbes - 1]
  <2>1. probes[u] \in 0 .. MaxProbes - 1 /\ MaxProbes \in Nat \ {0}
    BY VoiceAssumption DEF VoiceInv, VoiceTypes
  <2>2. (probes[u] + 1) % MaxProbes \in 0 .. MaxProbes - 1 /\ 0 \in 0 .. MaxProbes - 1
    BY <2>1
  <2>3. \/ probes' = probes \/ probes' = [probes EXCEPT ![u] = 0]
        \/ probes' = [probes EXCEPT ![u] = (@ + 1) % MaxProbes]
    BY DEF Voice!Clear, Voice!Run, Voice!Probe, Voice!Drop, Voice!ProbeAgain, Voice!Reset
  <2> QED BY <2>2, <2>3 DEF VoiceInv, VoiceTypes
<1>6. /\ container' \in {container, Voice!Absent, Box(Models[cand[u]], "starting", FALSE)}
      /\ Shaped(container') /\ ~Voice!Absent.was /\ Voice!Absent.up = "absent"
      /\ container' = Voice!Absent <=> container'.up = "absent"
      /\ container'.up = "ready" => container' = container
  <2>1. container' \in {container, Voice!Absent, Box(Models[cand[u]], "starting", FALSE)}
    BY DEF Voice!Clear, Voice!Run, Voice!Probe, Voice!Drop, Voice!DropWhat, Voice!Remove, Box
  <2>2. Shaped(Voice!Absent) /\ Voice!Absent.up = "absent" /\ ~Voice!Absent.was
    BY NoBox, BoxIs DEF Ups
  <2>3. /\ Shaped(Box(Models[cand[u]], "starting", FALSE))
        /\ Box(Models[cand[u]], "starting", FALSE).up = "starting"
    BY BoxIs DEF Ups
  <2> QED BY <2>1, <2>2, <2>3 DEF VoiceInv, VoiceTypes, Owned
<1>7. VoiceTypes'
  <2>1. voiceFaults' \in 0 .. MaxVoiceFaults
    BY <1>3, VoiceAssumption DEF VoiceInv, VoiceTypes
  <2>2. seen' \in [Uses -> Ups]
    BY <1>3 DEF VoiceInv, VoiceTypes, Shaped, Ups
  <2> QED BY <1>1, <1>2, <1>3, <1>4, <1>5, <1>6, <2>1, <2>2, Moves DEF VoiceInv, VoiceTypes
<1>8. Microphone'
  BY <1>1, <1>2, <1>3, Moves DEF VoiceInv, VoiceTypes, Microphone
<1>9. Owned'
  <2>1. /\ voiceFaults' = 0 => voiceFaults = 0
        /\ voiceFaults' = 0 => ~Voice!Fault
    BY <1>3 DEF VoiceInv, VoiceTypes, Voice!Fault
  <2>2. \A v \in Uses \ {u} : voicePc'[v] = voicePc[v]
    BY <1>1, <1>2, Moves
  <2>3. ASSUME voiceFaults' = 0
        PROVE  \/ container' = Voice!Absent \/ container'.was
               \/ \E v \in Uses : voicePc'[v] \in {"probe", "drop"}
    <3>1. CASE Voice!Clear(u)
      <4>1. container' \in {container, Voice!Absent} /\ voicePc[u] = "clear"
        BY <3>1 DEF Voice!Clear, Voice!Remove
      <4> QED BY <2>1, <2>2, <2>3, <4>1 DEF VoiceInv, Owned
    <3>2. CASE Voice!Run(u)
      BY <1>1, <1>2, <3>2, Moves DEF VoiceInv, VoiceTypes, Voice!Run, Voice!To
    <3>3. CASE Voice!Probe(u)
      <4>1. container' = container
        BY <3>3 DEF Voice!Probe
      <4>2. voicePc'[u] \in {"probe", "drop"} \/ container.up = "ready"
        <5>1. voicePc[u] = "probe" /\ (voicePc' = voicePc \/ Voice!To(u, "drop") \/ container.up = "ready")
          BY <3>3 DEF Voice!Probe, Voice!ProbeAgain
        <5> QED BY <5>1 DEF VoiceInv, VoiceTypes, Voice!To
      <4> QED BY <2>1, <2>2, <2>3, <4>1, <4>2 DEF VoiceInv, Owned
    <3>4. CASE Voice!Drop(u)
      BY <2>1, <2>3, <3>4 DEF Voice!Drop, Voice!DropWhat, Voice!Remove
    <3> QED BY <3>1, <3>2, <3>3, <3>4
  <2> QED BY <1>6, <2>3 DEF VoiceInv, Owned
<1> QED BY <1>7, <1>8, <1>9 DEF VoiceInv

(* The container by itself: once it has answered it has answered.           *)
LEMMA ContainerKeeps ==
  ASSUME VoiceInv, Voice!Started \/ Voice!Crashes \/ Voice!StopContainer
  PROVE  VoiceInv'
<1>1. UNCHANGED <<held, pressed, xinput, lost, recorder, files, voicePc, seen, cand, probes>>
  BY DEF Voice!Started, Voice!Crashes, Voice!StopContainer, Voice!keyVars, Voice!useVars
<1>2. voiceFaults' \in 0 .. MaxVoiceFaults
  BY VoiceAssumption DEF VoiceInv, VoiceTypes, Voice!Started, Voice!Crashes, Voice!StopContainer, Voice!Fault
<1>3. /\ Shaped(container') /\ container'.up \in {"starting", "ready", "stopped"}
      /\ container'.up = "ready" => container'.was
      /\ container' # Voice!Absent
      /\ container'.was \/ voiceFaults' # 0
  <2>1. CASE Voice!Started
    <3> DEFINE t == TRUE
    <3>1. t /\ t \in BOOLEAN /\ container' = [container EXCEPT !.up = "ready", !.was = t]
      BY <2>1 DEF Voice!Started
    <3> HIDE DEF t
    <3>2. container' = Box(container.model, "ready", t)
      BY <3>1, BoxMoves DEF VoiceInv, VoiceTypes, Ups
    <3>3. Voice!Absent.up = "absent"
      BY NoBox, BoxIs DEF Ups
    <3>4. /\ Shaped(Box(container.model, "ready", t)) /\ Box(container.model, "ready", t).up = "ready"
          /\ Box(container.model, "ready", t).was <=> t
      BY <3>1, BoxIs DEF Ups
    <3>5. Shaped(container') /\ container'.up = "ready" /\ container'.was
      BY <3>1, <3>2, <3>4, Zenon
    <3> QED BY <3>3, <3>5
  <2>2. CASE Voice!Crashes \/ Voice!StopContainer
    <3>1. PICK x \in {"starting", "stopped"} : container' = [container EXCEPT !.up = x]
      BY <2>2 DEF Voice!Crashes, Voice!StopContainer
    <3>2. container' = Box(container.model, x, container.was) /\ container.was \in BOOLEAN
      BY <3>1, BoxMoves DEF VoiceInv, VoiceTypes, Ups, Shaped
    <3>3. Voice!Absent.up = "absent"
      BY NoBox, BoxIs DEF Ups
    <3>4. Shaped(container') /\ container'.up = x
      BY <3>2, BoxIs DEF Ups
    <3>5. voiceFaults' # 0
      BY <2>2 DEF VoiceInv, VoiceTypes, Voice!Crashes, Voice!StopContainer, Voice!Fault
    <3> QED BY <3>3, <3>4, <3>5
  <2> QED BY <2>1, <2>2
<1>5. VoiceTypes' /\ Microphone'
  BY <1>1, <1>2, <1>3 DEF VoiceInv, VoiceTypes, Microphone
<1>6. Owned'
  BY <1>3 DEF Owned
<1> QED BY <1>5, <1>6 DEF VoiceInv

(* No step of the hotkey, a use or the container breaks the invariant.      *)
LEMMA NextVoice == VoiceInv /\ [Voice!Next]_(Voice!vars) => VoiceInv'
<1> SUFFICES ASSUME VoiceInv, [Voice!Next]_(Voice!vars) PROVE VoiceInv'
  OBVIOUS
<1>1. CASE UNCHANGED Voice!vars
  BY <1>1 DEF Voice!vars, VoiceInv, VoiceTypes, Microphone, Owned
<1>2. CASE Voice!XinputDies \/ Voice!SpawnXinput
  <2>1. /\ UNCHANGED <<held, pressed, lost, recorder, files, container, voicePc, seen, cand, probes>>
        /\ xinput' \in {"up", "down"}
        /\ voiceFaults' = voiceFaults \/ (voiceFaults < MaxVoiceFaults /\ voiceFaults' = voiceFaults + 1)
    BY <1>2 DEF Voice!XinputDies, Voice!SpawnXinput, Voice!useVars, Voice!Fault
  <2>2. voiceFaults' \in 0 .. MaxVoiceFaults /\ (voiceFaults' = 0 => voiceFaults = 0)
    BY <2>1, VoiceAssumption DEF VoiceInv, VoiceTypes
  <2>3. VoiceTypes'
    BY <2>1, <2>2 DEF VoiceInv, VoiceTypes
  <2>4. Microphone' /\ Owned'
    BY <2>1, <2>2 DEF VoiceInv, Microphone, Owned
  <2> QED BY <2>3, <2>4 DEF VoiceInv
<1> QED BY <1>1, <1>2, PressKeeps, ReleaseKeeps, UseKeeps, DeployKeeps, ContainerKeeps
        DEF Voice!Next, Voice!Goes

(* The voice input never leaves the invariant above: who owns the           *)
(* microphone,                                                              *)
(* and what a container has answered.                                       *)
THEOREM VoiceHolds == Spec => []VoiceInv
<1>1. Init => VoiceInv
  BY InitVoice DEF Init
<1>2. VoiceInv /\ [Next]_vars => VoiceInv'
  BY NextVoice, VoiceSteps
<1> QED BY <1>1, <1>2, PTL DEF Spec

(* The invariant holds what the run checks of the voice input.              *)
LEMMA VoiceMeans == VoiceInv => Voice!TypeOK /\ Voice!MicOnlyWhileHeld /\ Voice!NoHalfContainer
<1> SUFFICES ASSUME VoiceInv PROVE Voice!TypeOK /\ Voice!MicOnlyWhileHeld /\ Voice!NoHalfContainer
  OBVIOUS
<1>1. probes \in [Uses -> 0 .. MaxProbes]
  BY VoiceAssumption DEF VoiceInv, VoiceTypes
<1>2. Voice!TypeOK
  BY <1>1 DEF VoiceInv, VoiceTypes, Microphone, Owned, Voice!TypeOK, Voice!None, Shaped, Ups, Free
<1> QED BY <1>2 DEF VoiceInv, VoiceTypes, Microphone, Owned, Voice!MicOnlyWhileHeld, Voice!None,
           Voice!NoHalfContainer, Voice!Deploying

-----------------------------------------------------------------------------
(* All of them.                                                            *)

(* What arrives is what was asked for or sent, whatever the order of the     *)
(* messages, the calls that fail and the crashes: a request of the CLI has   *)
(* its own answer, a login stores its own tokens, a language server knows    *)
(* the document it is asked about, a chat shows the final text and each      *)
(* file once.                                                              *)
THEOREM AnswersMatchHolds == Spec => []AnswersMatch
<1>1. IpcInv /\ McpInv /\ LspInv /\ GrokInv /\ StreamInv /\ FilesInv /\ VoiceInv => AnswersMatch
  BY IpcMeans, McpMeans, LspMeans, GrokMeans, StreamMeans, FilesMeans, VoiceMeans, Zenon
     DEF AnswersMatch, TypesOK, IpcOwnAnswer, IpcParsesAlone, LspNeverAhead, GrokOwnLogin, StreamFinalOnce,
         StreamDownByFirstPreview, FilesSentOnce, FilesOneMessageEach, FilesSaidSentWasSent
<1> QED BY <1>1, IpcHolds, McpHolds, LspHolds, GrokHolds, StreamHolds, FilesHolds, VoiceHolds, PTL

(* Nobody leaves anything behind: no MCP server no one can stop, no second    *)
(* language server, no half-written login, no open microphone, no container  *)
(* that half works.                                                        *)
THEOREM NothingStraysHolds == Spec => []NothingStrays
<1>1. McpInv /\ LspInv /\ GrokInv /\ VoiceInv => NothingStrays
  BY McpMeans, LspMeans, GrokMeans, VoiceMeans, Zenon
     DEF NothingStrays, McpNoStrays, McpCurrentConfig, LspOneServer, GrokTornOnlyWhileWritten,
         GrokRefreshable, MicOnlyWhileHeld, VoiceNoHalfContainer
<1> QED BY <1>1, McpHolds, LspHolds, GrokHolds, VoiceHolds, PTL
=============================================================================
