---------------------------- MODULE NetworkProofs ----------------------------
(***************************************************************************)
(* Proofs about the servers of any number of nodes and connections, with   *)
(* any of them broken and any node stopped at any time: the PeerSet lists  *)
(* who is served, and what it lists besides is left from before.  And of   *)
(* the nodes, which mine and announce as they please, with the steps of    *)
(* their goroutines in InsertBlock interleaved: as long as no call         *)
(* overwrites a better tip, nodes agree that hold each other's tips, and   *)
(* two nodes come to hold them.                                            *)
(***************************************************************************)
EXTENDS Network, ChainProofs

Message == Hash \cup {NoMessage}

Key == {<<"id", n>> : n \in Node}
         \cup {<<"addr", a, d>> : a \in Node \cup End, d \in {"out", "in"}}

Live(e) == handler[e] \notin {"none", "ended"}

ServerTypes ==
    /\ network \in [Node -> NetworkID]
    /\ dial \in [Bootnodes -> {"dial", "serve", "wait", "ended"}]
    /\ link \in [Conn -> {<<>>} \cup {<<b>> : b \in Bootnodes}]
    /\ handler \in [End -> {"none", "accept", "add", "greet", "read", "remove", "ended"}]
    /\ open \subseteq End /\ greeted \subseteq End
    /\ inbox \in [End -> Seq(Message)]
    /\ peers \in [Node -> SUBSET [key : Key, end : End]]
    /\ ctx \in [Node -> {"running", "done", "unlistened", "closed"}]

Places == {"idle", "validate", "hasBlock", "parentWork", "store", "compare", "setTip",
           "announce"}

\* A handler inserts the block it has read before it reads on.
NodeTypes ==
    /\ mines \in [Node -> Nat]
    /\ pc \in [Caller -> Places]
    /\ arg \in [Caller -> Hash \cup {ZeroHash}]
    /\ work = [p \in Caller |-> work[p]]
    /\ \A p \in Caller : pc[p] # "idle" => arg[p] \in Hash
    /\ \A p \in Caller : pc[p] = "announce" => p[2] = "run"
    /\ \A e \in End : pc[e] # "idle" => handler[e] = "read"

\* How the variables agree about one end of a connection.
EndInv(e) ==
    /\ handler[e] = "none" <=> ~InUse(e[1])
    /\ handler[e] \in {"none", "ended"} => e \notin open /\ inbox[e] = <<>>
    /\ e \in greeted => handler[e] \in {"read", "remove", "ended"}
    /\ e[2] = "out" /\ Live(e) => dial[link[e[1]][1]] = "serve"

\* A dialLoop serves one connection at a time.
OneConnection ==
    \A e, f \in End :
      e[2] = "out" /\ f[2] = "out" /\ Live(e) /\ Live(f) /\ link[e[1]] = link[f[1]]
        => e = f

\* An entry is listed under the address of its own node's end of a connection,
\* for peers are entered before they have an ID, and it goes with the handler
\* unless the peer has got one by then.
EntryInv(n, p) ==
    /\ p.key = AddrKey(p.end)
    /\ InUse(p.end[1]) /\ NodeOf(p.end) = n
    /\ handler[p.end] \in {"greet", "read", "remove", "ended"}
    /\ handler[p.end] = "ended" => p.end \in greeted

\* A PeerSet is a map.
IsPeerMap(S) == \A p, q \in S : p.key = q.key => p = q

\* The inductive invariant.
ServerInv ==
    /\ ServerTypes
    /\ NodeTypes
    /\ \A e \in End : EndInv(e)
    /\ OneConnection
    /\ \A n \in Node : IsPeerMap(peers[n]) /\ \A p \in peers[n] : EntryInv(n, p)
    /\ ServedPeersListed

-----------------------------------------------------------------------------
LEMMA EndFacts ==
    ASSUME NEW e \in End
    PROVE  /\ e[1] \in Conn /\ e[2] \in {"out", "in"} /\ e = <<e[1], e[2]>>
           /\ Other(e) \in End /\ Other(Other(e)) = e /\ Other(e)[1] = e[1]
           /\ Other(e)[2] # e[2]
  BY DEF End, Other

LEMMA CallerFacts ==
    /\ \A n \in Node : Run(n) \in Caller /\ Run(n)[1] = n /\ Run(n)[2] = "run"
                       /\ HostOf(Run(n)) = n
    /\ \A e \in End : e \in Caller /\ e[2] # "run" /\ HostOf(e) = NodeOf(e)
    /\ \A p \in Caller : \/ p[2] = "run" /\ p[1] \in Node /\ p = Run(p[1])
                         \/ p[2] # "run" /\ p \in End
  BY EndFacts DEF Caller, Run, HostOf, End

LEMMA BootnodeFacts ==
    ASSUME NEW b \in Bootnodes
    PROVE  b[1] \in Node /\ b[2] \in Node /\ b[1] # b[2] /\ b = <<b[1], b[2]>>
  BY ServerAssumption

LEMMA LinkFacts ==
    ASSUME ServerTypes, NEW c \in Conn, InUse(c)
    PROVE  link[c][1] \in Bootnodes /\ link[c] = <<link[c][1]>>
  BY DEF ServerTypes, InUse

LEMMA NodeOfType ==
    ASSUME ServerTypes, NEW e \in End, InUse(e[1])
    PROVE  /\ NodeOf(e) \in Node /\ RemoteOf(e) \in Node
           /\ e[2] = "out" => NodeOf(e) = link[e[1]][1][1] /\ RemoteOf(e) = link[e[1]][1][2]
<1>1. link[e[1]][1] \in Bootnodes
  BY EndFacts, LinkFacts
<1>2. Other(e) \in End /\ Other(e)[1] = e[1] /\ e[2] \in {"out", "in"} /\ Other(e)[2] # e[2]
      /\ Other(e)[2] \in {"out", "in"}
  BY EndFacts
<1> QED BY <1>1, <1>2, BootnodeFacts DEF NodeOf, RemoteOf

\* Two ends at one node have the same remote address only when they are the
\* node's ends of connections to the same bootnode.
LEMMA KeysTell ==
    ASSUME ServerTypes, NEW e \in End, NEW f \in End, InUse(e[1]), InUse(f[1]),
           NodeOf(e) = NodeOf(f), AddrKey(e) = AddrKey(f)
    PROVE  \/ e = f
           \/ e[2] = "out" /\ f[2] = "out" /\ link[e[1]] = link[f[1]]
<1>1. e[2] = f[2]
  BY DEF AddrKey
<1>2. CASE e[2] = "in"
  BY <1>1, <1>2 DEF AddrKey
<1>3. CASE e[2] = "out"
  <2>1. RemoteOf(e) = RemoteOf(f)
    BY <1>1, <1>3 DEF AddrKey
  <2>2. /\ link[e[1]][1][1] = link[f[1]][1][1]
        /\ link[e[1]][1][2] = link[f[1]][1][2]
    <3>1. f[2] = "out"
      BY <1>1, <1>3
    <3>2. /\ NodeOf(e) = link[e[1]][1][1] /\ RemoteOf(e) = link[e[1]][1][2]
          /\ NodeOf(f) = link[f[1]][1][1] /\ RemoteOf(f) = link[f[1]][1][2]
      BY <1>3, <3>1, NodeOfType
    <3> QED BY <2>1, <3>2
  <2>3. /\ link[e[1]][1] \in Bootnodes /\ link[e[1]] = <<link[e[1]][1]>>
        /\ link[f[1]][1] \in Bootnodes /\ link[f[1]] = <<link[f[1]][1]>>
    BY EndFacts, LinkFacts
  <2>4. link[e[1]][1] = link[f[1]][1]
    BY <2>2, <2>3, BootnodeFacts
  <2> QED BY <1>1, <1>3, <2>3, <2>4
<1> QED BY <1>2, <1>3, EndFacts

\* Sending leaves an inbox as it is or makes it longer.
LEMMA SentType ==
    ASSUME inbox \in [End -> Seq(Message)], NEW ends, NEW msg \in Message
    PROVE  /\ Sent(ends, msg) \in [End -> Seq(Message)]
           /\ \A e \in End : e \notin open => Sent(ends, msg)[e] = inbox[e]
  BY DEF Sent

-----------------------------------------------------------------------------
LEMMA ServerInitInv == NetworkInit => ServerInv
<1> SUFFICES ASSUME NetworkInit PROVE ServerInv
  OBVIOUS
<1>1. ServerTypes
  BY DEF NetworkInit, ServerInit, ServerTypes
<1>2a. NodeTypes
  <2>1. \A p \in Caller : pc[p] = "idle" /\ arg[p] = ZeroHash
    BY DEF NetworkInit
  <2>2. /\ pc \in [Caller -> Places] /\ arg \in [Caller -> Hash \cup {ZeroHash}]
        /\ work = [p \in Caller |-> work[p]]
    BY DEF NetworkInit, Places
  <2>3. mines \in [Node -> Nat]
    BY NetworkAssumption DEF NetworkInit
  <2> QED BY <2>1, <2>2, <2>3, CallerFacts DEF NodeTypes
<1>2. \A e \in End : EndInv(e)
  BY EndFacts DEF NetworkInit, ServerInit, EndInv, InUse, Live
<1>3. OneConnection /\ ServedPeersListed
  BY DEF NetworkInit, ServerInit, OneConnection, Live, ServedPeersListed
<1>4. \A n \in Node : peers[n] = {}
  BY DEF NetworkInit, ServerInit
<1> QED BY <1>1, <1>2a, <1>2, <1>3, <1>4 DEF ServerInv, IsPeerMap

\* Where a handler may go without touching the PeerSet.
Moves(l, m) ==
    \/ l = m
    \/ l = "accept" /\ m \in {"add", "ended"}
    \/ l \in {"greet", "read"} /\ m \in {"read", "remove"}

\* Steps that make no connection and leave the PeerSets alone.
LEMMA KeepsInv ==
    ASSUME ServerInv, ServerTypes', NodeTypes',
           UNCHANGED <<link, peers>>, open' \subseteq open, greeted \subseteq greeted',
           \A b \in Bootnodes : dial[b] = "serve" => dial'[b] = "serve",
           \A e \in End :
             /\ Moves(handler[e], handler'[e])
             /\ handler'[e] \in {"none", "ended"} => e \notin open' /\ inbox'[e] = <<>>
             /\ e \in greeted' \ greeted => handler'[e] \in {"read", "remove"}
    PROVE  ServerInv'
<1>1. ASSUME NEW e \in End PROVE EndInv(e)'
  <2>1. handler'[e] = "none" <=> handler[e] = "none"
    BY DEF Moves
  <2>2. e \in greeted' => handler'[e] \in {"read", "remove", "ended"}
    BY DEF Moves, ServerInv, EndInv
  <2>3. ASSUME e[2] = "out" /\ Live(e)' PROVE dial'[link[e[1]][1]] = "serve"
    <3>1. Live(e) /\ InUse(e[1])
      BY <2>3 DEF Moves, Live, ServerInv, EndInv
    <3>2. dial[link[e[1]][1]] = "serve"
      BY <2>3, <3>1 DEF ServerInv, EndInv
    <3>3. link[e[1]][1] \in Bootnodes
      BY <3>1, EndFacts, LinkFacts DEF ServerInv
    <3> QED BY <3>2, <3>3
  <2> QED BY <2>1, <2>2, <2>3 DEF EndInv, ServerInv, InUse
<1>2. OneConnection'
  BY DEF OneConnection, ServerInv, Live, Moves
<1>3. ASSUME NEW n \in Node, NEW p \in peers[n] PROVE EntryInv(n, p)'
  <2>1. p.end \in End /\ EntryInv(n, p)
    BY DEF ServerInv, ServerTypes
  <2>2. handler'[p.end] \in {"greet", "read", "remove", "ended"}
    BY <2>1 DEF EntryInv, Moves
  <2>3. handler'[p.end] = "ended" => p.end \in greeted'
    BY <2>1 DEF EntryInv, Moves
  <2> QED BY <2>1, <2>2, <2>3 DEF EntryInv, AddrKey, NodeOf, RemoteOf, InUse
<1>4. ServedPeersListed'
  BY DEF ServedPeersListed, ServerInv, Moves, NodeOf
<1> QED BY <1>1, <1>2, <1>3, <1>4 DEF ServerInv, IsPeerMap

\* A handler that is inserting a block stays where it is.
LEMMA NodeTypesKept ==
    ASSUME NodeTypes, UNCHANGED nodeVars,
           \A e \in End : pc[e] # "idle" => handler'[e] = handler[e]
    PROVE  NodeTypes'
  BY DEF NodeTypes, nodeVars, callVars

LEMMA AcceptInv ==
    ASSUME ServerInv, NEW e \in End, pc[e] = "idle", Accept(e), UNCHANGED nodeVars
    PROVE  ServerInv'
<1>0. inbox' \in [End -> Seq(Message)]
  <2>1. inbox \in [End -> Seq(Message)] /\ <<>> \in Seq(Message)
    BY DEF ServerInv, ServerTypes
  <2> QED BY <2>1 DEF Accept
<1>1. ServerTypes' /\ NodeTypes'
  <2>1. ServerTypes'
    BY <1>0 DEF ServerInv, ServerTypes, Accept, Goto
  <2> QED BY <2>1, NodeTypesKept DEF ServerInv, ServerTypes, Accept, Goto
<1>2. ASSUME NEW f \in End
      PROVE  /\ Moves(handler[f], handler'[f])
             /\ handler'[f] \in {"none", "ended"} => f \notin open' /\ inbox'[f] = <<>>
  BY DEF ServerInv, ServerTypes, EndInv, Accept, Goto, Moves
<1> QED BY <1>1, <1>2, KeepsInv DEF Accept

LEMMA GreetInv ==
    ASSUME ServerInv, NEW e \in End, pc[e] = "idle", Greet(e), UNCHANGED nodeVars
    PROVE  ServerInv'
<1>1. /\ inbox' \in [End -> Seq(Message)]
      /\ \A f \in End : f \notin open => inbox'[f] = inbox[f]
  BY SentType DEF ServerInv, ServerTypes, Greet, Message
<1>2. ServerTypes' /\ NodeTypes'
  <2>1. ServerTypes'
    BY <1>1 DEF ServerInv, ServerTypes, Greet, Goto
  <2> QED BY <2>1, NodeTypesKept DEF ServerInv, ServerTypes, Greet, Goto
<1>3. ASSUME NEW f \in End
      PROVE  /\ Moves(handler[f], handler'[f])
             /\ handler'[f] \in {"none", "ended"} => f \notin open' /\ inbox'[f] = <<>>
  <2>1. /\ handler[e] = "greet" /\ handler'[e] = "read"
        /\ f # e => handler'[f] = handler[f]
    BY DEF ServerInv, ServerTypes, Greet, Goto
  <2>2. handler[f] \in {"none", "ended"} => f \notin open /\ inbox[f] = <<>>
    BY DEF ServerInv, EndInv
  <2>3. open' = open
    BY DEF Greet
  <2> QED BY <1>1, <2>1, <2>2, <2>3 DEF Moves
<1> QED BY <1>2, <1>3, KeepsInv DEF Greet

\* Reading a message, whatever it is.
LEMMA ReadTypes ==
    ASSUME ServerInv, NEW e \in End, CanRead(e),
           inbox' = [inbox EXCEPT ![e] = Tail(@)], ReadOn(e)
    PROVE  /\ Head(inbox[e]) \in Message
           /\ inbox' \in [End -> Seq(Message)]
           /\ handler' \in [End -> {"none", "accept", "add", "greet", "read", "remove", "ended"}]
           /\ \A f \in End :
                /\ Moves(handler[f], handler'[f])
                /\ handler'[f] \in {"none", "ended"} => f \notin open /\ inbox'[f] = <<>>
           /\ handler'[e] \in {"read", "remove"}
<1>1. inbox[e] \in Seq(Message) /\ inbox[e] # <<>> /\ handler[e] = "read"
  BY DEF ServerInv, ServerTypes, CanRead
<1>2. Head(inbox[e]) \in Message /\ Tail(inbox[e]) \in Seq(Message)
  BY <1>1
<1>3. inbox' \in [End -> Seq(Message)]
  BY <1>2 DEF ServerInv, ServerTypes
<1> QED BY <1>1, <1>2, <1>3 DEF ServerInv, ServerTypes, EndInv, ReadOn, Goto, Moves

LEMMA ReadHelloInv ==
    ASSUME ServerInv, NEW e \in End, pc[e] = "idle", ReadHello(e), UNCHANGED nodeVars
    PROVE  ServerInv'
<1>1. /\ inbox' \in [End -> Seq(Message)]
      /\ handler' \in [End -> {"none", "accept", "add", "greet", "read", "remove", "ended"}]
      /\ \A f \in End :
           /\ Moves(handler[f], handler'[f])
           /\ handler'[f] \in {"none", "ended"} => f \notin open /\ inbox'[f] = <<>>
      /\ handler'[e] \in {"read", "remove"}
  BY ReadTypes DEF ReadHello
<1>2. open' \subseteq open /\ greeted' = greeted \cup {e}
  BY DEF ReadHello
<1>3. ServerTypes' /\ NodeTypes'
  <2>1. ServerTypes'
    BY <1>1, <1>2 DEF ServerInv, ServerTypes, ReadHello
  <2> QED BY <2>1, NodeTypesKept DEF ServerInv, ServerTypes, ReadHello, ReadOn, Goto
<1> QED BY <1>1, <1>2, <1>3, KeepsInv DEF ReadHello

LEMMA ReadNewBlockInv ==
    ASSUME ServerInv, NEW e \in End, ReadNewBlock(e)
    PROVE  ServerInv'
<1> DEFINE h == Head(inbox[e])
<1>1. inbox \in [End -> Seq(Message)] /\ inbox[e] # <<>> /\ handler[e] = "read" /\ h \in Hash
  <2>1. inbox \in [End -> Seq(Message)] /\ inbox[e] # <<>> /\ h # NoMessage
        /\ handler[e] = "read"
    BY DEF ReadNewBlock, CanRead, ServerInv, ServerTypes
  <2>2. h \in Message
    BY <2>1
  <2> QED BY <2>1, <2>2 DEF Message
<1>2. inbox' = [inbox EXCEPT ![e] = Tail(@)]
      /\ UNCHANGED <<network, dial, link, open, greeted, peers, ctx>>
  BY DEF ReadNewBlock
<1>3. Tail(inbox[e]) \in Seq(Message)
  BY <1>1
<1>4. inbox' \in [End -> Seq(Message)]
  BY <1>1, <1>2, <1>3
<1>5. /\ handler' \in [End -> {"none", "accept", "add", "greet", "read", "remove", "ended"}]
      /\ \A f \in End : Moves(handler[f], handler'[f]) /\ (f # e => handler'[f] = handler[f])
      /\ handler'[e] \in {"read", "remove"}
  BY <1>1 DEF ReadNewBlock, ServerInv, ServerTypes, ReadOn, Goto, Moves
<1>6. \A f \in End : handler'[f] \in {"none", "ended"} => f \notin open /\ inbox'[f] = <<>>
  BY <1>1, <1>2, <1>5 DEF ServerInv, EndInv
<1>7. NodeTypes'
  <2>0. NodeTypes /\ pc[e] = "idle" /\ mines' = mines
    BY DEF ServerInv, ReadNewBlock
  <2>1. CASE HasBlock(Store(e), h)
    <3>1. UNCHANGED <<pc, arg, work>>
      BY <2>1 DEF ReadNewBlock, callVars
    <3> QED BY <1>5, <2>0, <3>1 DEF NodeTypes
  <2>2. CASE ~HasBlock(Store(e), h)
    <3>1. /\ pc' = [pc EXCEPT ![e] = "validate"] /\ arg' = [arg EXCEPT ![e] = h]
          /\ work' = work /\ handler' = handler
      BY <2>2 DEF ReadNewBlock, Begin
    <3>2. "validate" \in Places /\ \A f \in End : f \in Caller
      BY CallerFacts DEF Places
    <3> QED BY <1>1, <2>0, <3>1, <3>2 DEF NodeTypes
  <2> QED BY <2>1, <2>2
<1>8. ServerTypes'
  BY <1>2, <1>4, <1>5 DEF ServerInv, ServerTypes
<1> QED BY <1>2, <1>5, <1>6, <1>7, <1>8, KeepsInv

\* The steps of InsertBlock either lead to the next one or return.
LEMMA InsertStepMoves ==
    ASSUME NodeTypes, NEW p \in Caller, InsertStep(p)
    PROVE  /\ pc[p] \in Places \ {"idle", "announce"}
           /\ \/ \E l \in Places \ {"idle"} : Continue(p, l) /\ (l = "announce" => p[2] = "run")
              \/ Return(p)
           /\ \E w : work' = [work EXCEPT ![p] = w]
<1>1. work = [work EXCEPT ![p] = work[p]]
  BY DEF NodeTypes
<1> QED BY <1>1 DEF InsertStep, Validate, CheckKnown, ParentWork, StoreBlock, Compare, SetTip,
                    Return, Places

LEMMA InsertStepInv ==
    ASSUME ServerInv, NEW p \in Caller, InsertStep(p)
    PROVE  ServerInv'
<1>0. NodeTypes
  BY DEF ServerInv
<1>1. UNCHANGED <<network, dial, link, open, inbox, greeted, peers, ctx, mines>>
  BY DEF InsertStep
<1>2. /\ handler' = handler \/ (p \in End /\ ReadOn(p))
      /\ NodeTypes'
  <2>1. PICK w : work' = [work EXCEPT ![p] = w]
    BY <1>0, InsertStepMoves
  <2>2. pc[p] # "idle"
    BY <1>0, InsertStepMoves
  <2>3. ASSUME NEW l \in Places \ {"idle"}, Continue(p, l), l = "announce" => p[2] = "run"
        PROVE  handler' = handler /\ NodeTypes'
    BY <1>0, <1>1, <2>1, <2>2, <2>3 DEF Continue, NodeTypes
  <2>4. CASE Return(p)
    <3>1. handler' = handler \/ (p \in End /\ ReadOn(p))
      BY <2>4, CallerFacts DEF Return
    <3>2. \A e \in End : e # p => handler'[e] = handler[e]
      BY <3>1 DEF ReadOn, Goto, ServerInv, ServerTypes
    <3>3. /\ pc' = [pc EXCEPT ![p] = "idle"] /\ arg' = [arg EXCEPT ![p] = ZeroHash]
          /\ work' = [work EXCEPT ![p] = 0]
      BY <2>4 DEF Return
    <3>4. \A e \in End : e \in Caller
      BY CallerFacts
    <3> QED BY <1>0, <1>1, <3>1, <3>2, <3>3, <3>4 DEF NodeTypes, Places
  <2> QED BY <1>0, <2>3, <2>4, InsertStepMoves
<1>3. p \in End => handler[p] = "read"
  BY <1>0, InsertStepMoves DEF NodeTypes
<1>4. /\ handler' \in [End -> {"none", "accept", "add", "greet", "read", "remove", "ended"}]
      /\ \A f \in End : Moves(handler[f], handler'[f])
                       /\ (handler'[f] = handler[f] \/ handler'[f] \in {"read", "remove"})
  BY <1>2, <1>3 DEF ReadOn, Goto, ServerInv, ServerTypes, Moves
<1>5. ServerTypes'
  BY <1>1, <1>4 DEF ServerInv, ServerTypes
<1>6. \A f \in End : handler'[f] \in {"none", "ended"} => f \notin open /\ inbox[f] = <<>>
  BY <1>4 DEF ServerInv, EndInv
<1> QED BY <1>1, <1>2, <1>4, <1>5, <1>6, KeepsInv

LEMMA ReadFailsInv ==
    ASSUME ServerInv, NEW e \in End, pc[e] = "idle", ReadFails(e), UNCHANGED nodeVars
    PROVE  ServerInv'
<1>1. ServerTypes' /\ NodeTypes'
  <2>1. ServerTypes'
    BY DEF ServerInv, ServerTypes, ReadFails, Goto
  <2> QED BY <2>1, NodeTypesKept DEF ServerInv, ServerTypes, ReadFails, Goto
<1>2. ASSUME NEW f \in End
      PROVE  /\ Moves(handler[f], handler'[f])
             /\ handler'[f] \in {"none", "ended"} => f \notin open' /\ inbox'[f] = <<>>
  BY DEF ServerInv, ServerTypes, EndInv, ReadFails, Goto, Moves
<1> QED BY <1>1, <1>2, KeepsInv DEF ReadFails

LEMMA BreakInv ==
    ASSUME ServerInv, NEW c \in Conn, Break(c), UNCHANGED nodeVars
    PROVE  ServerInv'
<1>0. inbox' \in [End -> Seq(Message)]
  <2>1. inbox \in [End -> Seq(Message)] /\ <<>> \in Seq(Message)
    BY DEF ServerInv, ServerTypes
  <2> QED BY <2>1 DEF Break
<1>1. ServerTypes' /\ NodeTypes'
  <2>1. ServerTypes'
    BY <1>0 DEF ServerInv, ServerTypes, Break
  <2> QED BY <2>1, NodeTypesKept DEF ServerInv, Break
<1>2. ASSUME NEW f \in End
      PROVE  /\ Moves(handler[f], handler'[f])
             /\ handler'[f] \in {"none", "ended"} => f \notin open' /\ inbox'[f] = <<>>
  <2>1. handler'[f] = handler[f] /\ open' \subseteq open
    BY DEF Break
  <2>2. handler[f] \in {"none", "ended"} => f \notin open /\ inbox[f] = <<>>
    BY DEF ServerInv, EndInv
  <2>3. inbox'[f] = inbox[f] \/ inbox'[f] = <<>>
    BY DEF ServerInv, ServerTypes, Break
  <2> QED BY <2>1, <2>2, <2>3 DEF Moves
<1> QED BY <1>1, <1>2, KeepsInv DEF Break

LEMMA CtxInv ==
    ASSUME ServerInv, NEW n \in Node, Stop(n) \/ Closing(n), UNCHANGED nodeVars
    PROVE  ServerInv'
<1>1. ServerTypes' /\ NodeTypes'
  <2>1. ServerTypes'
    BY DEF ServerInv, ServerTypes, Stop, Closing, CloseListener, CloseConns, connVars
  <2>2. UNCHANGED handler
    BY DEF Stop, Closing, CloseListener, CloseConns, connVars
  <2> QED BY <2>1, <2>2, NodeTypesKept DEF ServerInv
<1>2. /\ open' \subseteq open
      /\ UNCHANGED <<link, peers, dial, greeted, handler, inbox>>
  BY DEF Stop, Closing, CloseListener, CloseConns, connVars
<1>3. ASSUME NEW f \in End
      PROVE  /\ Moves(handler[f], handler'[f])
             /\ handler'[f] \in {"none", "ended"} => f \notin open' /\ inbox'[f] = <<>>
  BY <1>2 DEF ServerInv, EndInv, Moves
<1> QED BY <1>1, <1>2, <1>3, KeepsInv

LEMMA RedialInv ==
    ASSUME ServerInv, NEW b \in Bootnodes, DialFails(b) \/ NextDial(b), UNCHANGED nodeVars
    PROVE  ServerInv'
<1>1. ServerTypes' /\ NodeTypes'
  <2>1. ServerTypes'
    BY DEF ServerInv, ServerTypes, DialFails, NextDial, connVars
  <2>2. UNCHANGED handler
    BY DEF DialFails, NextDial, connVars
  <2> QED BY <2>1, <2>2, NodeTypesKept DEF ServerInv
<1>2. /\ UNCHANGED <<link, peers, greeted, handler, inbox, open>>
      /\ \A a \in Bootnodes : dial[a] = "serve" => dial'[a] = "serve"
  BY DEF ServerInv, ServerTypes, DialFails, NextDial, connVars
<1>3. ASSUME NEW f \in End
      PROVE  /\ Moves(handler[f], handler'[f])
             /\ handler'[f] \in {"none", "ended"} => f \notin open' /\ inbox'[f] = <<>>
  BY <1>2 DEF ServerInv, EndInv, Moves
<1> QED BY <1>1, <1>2, <1>3, KeepsInv

\* Mining and announcing leave the servers alone, but for the inboxes.
LEMMA MiningInv ==
    ASSUME ServerInv, NEW n \in Node, Seal(n) \/ Announce(n)
    PROVE  ServerInv'
<1>0. Run(n) \in Caller /\ Run(n)[2] = "run" /\ \A e \in End : e # Run(n)
  BY CallerFacts
<1>1. /\ UNCHANGED <<network, dial, link, handler, open, greeted, peers, ctx>>
      /\ NodeTypes'
      /\ inbox' \in [End -> Seq(Message)]
      /\ \A f \in End : f \notin open => inbox'[f] = inbox[f]
  <2>1. CASE Seal(n)
    <3>1. PICK h \in Hash : Begin(Run(n), h)
      BY <2>1 DEF Seal
    <3>2. UNCHANGED <<network, dial, link, handler, open, greeted, peers, ctx, inbox, mines>>
      BY <2>1 DEF Seal, serverVars, connVars
    <3> QED BY <1>0, <3>1, <3>2 DEF ServerInv, ServerTypes, NodeTypes, Begin, Places
  <2>2. CASE Announce(n)
    <3>1. arg[Run(n)] \in Message
      BY <1>0, <2>2 DEF ServerInv, NodeTypes, Announce, Message
    <3>2. /\ inbox' \in [End -> Seq(Message)]
          /\ \A f \in End : f \notin open => inbox'[f] = inbox[f]
      BY <2>2, <3>1, SentType DEF ServerInv, ServerTypes, Announce, Broadcast
    <3>3. NodeTypes' /\ handler' = handler
      BY <1>0, <2>2 DEF ServerInv, NodeTypes, Announce, Return, Places
    <3> QED BY <2>2, <3>2, <3>3 DEF Announce
  <2> QED BY <2>1, <2>2
<1>2. ServerTypes'
  BY <1>1 DEF ServerInv, ServerTypes
<1>3. ASSUME NEW f \in End
      PROVE  /\ Moves(handler[f], handler'[f])
             /\ handler'[f] \in {"none", "ended"} => f \notin open' /\ inbox'[f] = <<>>
  BY <1>1 DEF ServerInv, EndInv, Moves
<1> QED BY <1>1, <1>2, <1>3, KeepsInv

-----------------------------------------------------------------------------
LEMMA DialInv ==
    ASSUME ServerInv, NEW b \in Bootnodes, Dial(b), UNCHANGED nodeVars
    PROVE  ServerInv'
<1>1. PICK c \in Conn :
        /\ dial[b] = "dial" /\ ~InUse(c)
        /\ link' = [link EXCEPT ![c] = <<b>>]
        /\ handler' = [handler EXCEPT ![<<c, "out">>] = "add", ![<<c, "in">>] = "accept"]
        /\ open' = open \cup {<<c, "out">>, <<c, "in">>}
        /\ dial' = [dial EXCEPT ![b] = "serve"]
        /\ UNCHANGED <<network, inbox, greeted, peers, ctx>>
  BY DEF Dial
<1> DEFINE o == <<c, "out">>
           i == <<c, "in">>
<1>2. o \in End /\ i \in End /\ o # i /\ o[1] = c /\ i[1] = c /\ o[2] = "out" /\ i[2] = "in"
  BY DEF End
<1>3. \A f \in End : f[1] = c => f = o \/ f = i
  BY EndFacts
<1>4. /\ handler[o] = "none" /\ handler[i] = "none" /\ o \notin greeted /\ i \notin greeted
      /\ handler'[o] = "add" /\ handler'[i] = "accept"
  BY <1>1, <1>2 DEF ServerInv, ServerTypes, EndInv
<1>5. ASSUME NEW f \in End, f[1] # c
      PROVE  /\ handler'[f] = handler[f] /\ link'[f[1]] = link[f[1]]
             /\ f \in open' <=> f \in open
             /\ NodeOf(f)' = NodeOf(f) /\ AddrKey(f)' = AddrKey(f)
  <2>1. f # o /\ f # i
    BY <1>2, <1>5
  <2>2. f[1] \in Conn /\ Other(f)[1] = f[1]
    BY EndFacts
  <2>3. handler'[f] = handler[f] /\ link'[f[1]] = link[f[1]] /\ (f \in open' <=> f \in open)
    BY <1>1, <1>5, <2>1, <2>2 DEF ServerInv, ServerTypes
  <2> QED BY <2>2, <2>3 DEF NodeOf, AddrKey, RemoteOf
<1>6. link'[c] = <<b>> /\ link'[c] # <<>> /\ link'[c][1] = b
  BY <1>1 DEF ServerInv, ServerTypes
<1>7. ServerTypes' /\ NodeTypes'
  <2>1. ServerTypes'
    BY <1>1, <1>2 DEF ServerInv, ServerTypes
  <2>2. \A f \in End : pc[f] # "idle" => handler'[f] = handler[f]
    <3>1. pc[o] = "idle" /\ pc[i] = "idle"
      BY <1>2, <1>4 DEF ServerInv, NodeTypes
    <3> QED BY <1>1, <1>2, <3>1 DEF ServerInv, ServerTypes
  <2> QED BY <2>1, <2>2, NodeTypesKept DEF ServerInv
<1>8. ASSUME NEW f \in End PROVE EndInv(f)'
  <2>1. CASE f[1] = c
    <3>1. f = o \/ f = i
      BY <1>3, <2>1
    <3>2. dial'[b] = "serve"
      BY <1>1 DEF ServerInv, ServerTypes
    <3> QED BY <1>1, <1>2, <1>4, <1>6, <3>1, <3>2 DEF EndInv, InUse
  <2>2. CASE f[1] # c
    <3>1. InUse(f[1])' <=> InUse(f[1])
      BY <1>5, <2>2 DEF InUse
    <3>2. ASSUME f[2] = "out" /\ Live(f) PROVE dial'[link[f[1]][1]] = "serve"
      <4>1. dial[link[f[1]][1]] = "serve" /\ InUse(f[1])
        BY <3>2 DEF ServerInv, EndInv, Live
      <4>2. link[f[1]][1] \in Bootnodes
        BY <4>1, EndFacts, LinkFacts DEF ServerInv
      <4> QED BY <1>1, <4>1, <4>2 DEF ServerInv, ServerTypes
    <3>3. handler'[f] = handler[f] /\ (f \in open' <=> f \in open) /\ EndInv(f)
      BY <1>5, <2>2 DEF ServerInv
    <3>4. greeted' = greeted /\ inbox' = inbox
      BY <1>1
    <3>5. Live(f)' => Live(f)
      BY <3>3 DEF Live
    <3> QED BY <3>1, <3>2, <3>3, <3>4, <3>5, <1>5, <2>2 DEF EndInv
  <2> QED BY <2>1, <2>2
<1>9. OneConnection'
  <2> SUFFICES ASSUME NEW e \in End, NEW f \in End, e[2] = "out", f[2] = "out",
                      Live(e)', Live(f)', link'[e[1]] = link'[f[1]]
               PROVE  e = f
    BY DEF OneConnection
  <2>1. ASSUME NEW g \in End, g[1] # c, g[2] = "out", Live(g)'
        PROVE  Live(g) /\ link'[g[1]] = link[g[1]] /\ link[g[1]] # <<b>>
    <3>1. Live(g) /\ link'[g[1]] = link[g[1]]
      BY <1>5, <2>1 DEF Live
    <3>2. dial[link[g[1]][1]] = "serve"
      BY <2>1, <3>1 DEF ServerInv, EndInv
    <3> QED BY <1>1, <3>1, <3>2
  <2>2. CASE e[1] = c /\ f[1] = c
    BY <1>2, <1>3, <2>2
  <2>3. CASE e[1] # c /\ f[1] # c
    BY <2>1, <2>3 DEF ServerInv, OneConnection
  <2> QED BY <1>6, <2>1, <2>2, <2>3
<1>10. ASSUME NEW n \in Node, NEW p \in peers[n] PROVE EntryInv(n, p)'
  <2>1. p.end \in End /\ EntryInv(n, p)
    BY DEF ServerInv, ServerTypes
  <2>2. p.end[1] # c
    BY <1>1, <2>1 DEF EntryInv
  <2> QED BY <1>1, <1>5, <2>1, <2>2 DEF EntryInv, InUse
<1>11. ServedPeersListed'
  <2> SUFFICES ASSUME NEW f \in End, handler'[f] \in {"greet", "read", "remove"}
               PROVE  \E p \in peers'[NodeOf(f)'] : p.end = f
    BY DEF ServedPeersListed
  <2>1. f[1] # c
    BY <1>3, <1>4
  <2> QED BY <1>1, <1>5, <2>1 DEF ServerInv, ServedPeersListed
<1> QED BY <1>1, <1>7, <1>8, <1>9, <1>10, <1>11 DEF ServerInv, IsPeerMap

\* Two ends that are served at one node at one time have different keys.
LEMMA LiveKeysDiffer ==
    ASSUME ServerInv, NEW e \in End, NEW f \in End, Live(e), Live(f), e # f,
           NodeOf(e) = NodeOf(f)
    PROVE  AddrKey(e) # AddrKey(f)
<1>1. InUse(e[1]) /\ InUse(f[1])
  BY DEF ServerInv, EndInv, Live
<1> QED BY <1>1, KeysTell DEF ServerInv, OneConnection

LEMMA AddPeerInv ==
    ASSUME ServerInv, NEW e \in End, pc[e] = "idle", AddPeer(e), UNCHANGED nodeVars
    PROVE  ServerInv'
<1> DEFINE n == NodeOf(e)
           key == AddrKey(e)
           entry == [key |-> key, end |-> e]
<1>1. handler[e] = "add" /\ InUse(e[1]) /\ e \notin greeted /\ Live(e)
  BY DEF AddPeer, ServerInv, EndInv, Live
<1>2. n \in Node /\ RemoteOf(e) \in Node
  BY <1>1, NodeOfType DEF ServerInv
<1>3. key \in Key
  BY <1>2, EndFacts DEF AddrKey, Key
<1>4. peers' = [peers EXCEPT ![n] = Without(n, key) \cup {entry}]
  BY <1>1 DEF AddPeer, peerKey
<1>5. /\ handler' = [handler EXCEPT ![e] = "greet"]
      /\ UNCHANGED <<network, dial, link, open, inbox, greeted, ctx>>
  BY DEF AddPeer, Goto
<1>6. ServerTypes' /\ NodeTypes'
  <2>1. ServerTypes'
    BY <1>2, <1>3, <1>4, <1>5 DEF ServerInv, ServerTypes, Without
  <2> QED BY <1>5, <2>1, NodeTypesKept DEF ServerInv, ServerTypes
<1>7. \A f \in End : /\ f # e => handler'[f] = handler[f]
                     /\ NodeOf(f)' = NodeOf(f) /\ AddrKey(f)' = AddrKey(f)
                     /\ Live(f)' <=> Live(f)
  BY <1>1, <1>5 DEF ServerInv, ServerTypes, NodeOf, RemoteOf, AddrKey, Live
<1>8. handler'[e] = "greet"
  BY <1>5 DEF ServerInv, ServerTypes
<1>9. ASSUME NEW f \in End PROVE EndInv(f)'
  BY <1>1, <1>5, <1>7, <1>8 DEF ServerInv, EndInv, InUse, Live
<1>10. OneConnection'
  BY <1>5, <1>7 DEF ServerInv, OneConnection
<1>11. ASSUME NEW m \in Node, NEW p \in peers'[m]
       PROVE  (p = entry /\ m = n) \/ (p \in peers[m] /\ (m = n => p.key # key))
  BY <1>2, <1>4, <1>11 DEF Without, ServerInv, ServerTypes
<1>12. ASSUME NEW m \in Node, NEW p \in peers'[m] PROVE EntryInv(m, p)'
  <2>1. CASE p = entry /\ m = n
    BY <1>1, <1>5, <1>7, <1>8, <2>1 DEF EntryInv, InUse
  <2>2. CASE p \in peers[m]
    <3>1. p.end \in End /\ EntryInv(m, p)
      BY <2>2 DEF ServerInv, ServerTypes
    <3>2. p.end # e
      BY <1>1, <3>1 DEF EntryInv
    <3> QED BY <1>5, <1>7, <3>1, <3>2 DEF EntryInv, InUse
  <2> QED BY <1>11, <2>1, <2>2
<1>13. \A m \in Node : IsPeerMap(peers'[m])
  BY <1>11 DEF ServerInv, IsPeerMap
<1>14. ServedPeersListed'
  <2> SUFFICES ASSUME NEW f \in End, handler'[f] \in {"greet", "read", "remove"}
               PROVE  \E p \in peers'[NodeOf(f)] : p.end = f
    BY <1>7 DEF ServedPeersListed
  <2>1. CASE f = e
    <3>1. entry \in peers'[n] /\ entry.end = e
      BY <1>2, <1>4 DEF ServerInv, ServerTypes
    <3> QED BY <2>1, <3>1
  <2>2. CASE f # e
    <3>1. handler[f] \in {"greet", "read", "remove"} /\ Live(f) /\ InUse(f[1])
      BY <1>7, <2>2 DEF Live, ServerInv, EndInv
    <3>2. NodeOf(f) \in Node
      BY <3>1, NodeOfType DEF ServerInv
    <3>3. PICK p \in peers[NodeOf(f)] : p.end = f
      BY <3>1 DEF ServerInv, ServedPeersListed
    <3>4. p.key = AddrKey(f)
      BY <3>2, <3>3 DEF ServerInv, EntryInv
    <3>5. NodeOf(f) = n => p.key # key
      BY <1>1, <2>2, <3>1, <3>4, LiveKeysDiffer
    <3>6. p \in peers'[NodeOf(f)]
      BY <1>2, <1>4, <3>2, <3>3, <3>5 DEF Without, ServerInv, ServerTypes
    <3> QED BY <3>3, <3>6
  <2> QED BY <2>1, <2>2
<1> QED BY <1>6, <1>9, <1>10, <1>12, <1>13, <1>14 DEF ServerInv

LEMMA RemovePeerInv ==
    ASSUME ServerInv, NEW e \in End, pc[e] = "idle", RemovePeer(e), UNCHANGED nodeVars
    PROVE  ServerInv'
<1> DEFINE n == NodeOf(e)
           key == peerKey(e)
<1>1. handler[e] = "remove" /\ InUse(e[1]) /\ Live(e)
  BY DEF RemovePeer, ServerInv, EndInv, Live
<1>2. n \in Node /\ RemoteOf(e) \in Node
  BY <1>1, NodeOfType DEF ServerInv
<1>3. /\ peers' = [peers EXCEPT ![n] = Without(n, key)]
      /\ open' = open \ {e}
      /\ dial' = IF e[2] = "out" THEN [dial EXCEPT ![link[e[1]][1]] = "wait"] ELSE dial
      /\ inbox' = [inbox EXCEPT ![e] = <<>>]
      /\ handler' = [handler EXCEPT ![e] = "ended"]
      /\ UNCHANGED <<network, link, greeted, ctx>>
  BY DEF RemovePeer, Goto
<1>4. inbox' \in [End -> Seq(Message)]
  <2>1. inbox \in [End -> Seq(Message)] /\ <<>> \in Seq(Message)
    BY DEF ServerInv, ServerTypes
  <2> QED BY <1>3, <2>1
<1>5. ServerTypes' /\ NodeTypes'
  <2>1. ServerTypes'
    BY <1>2, <1>3, <1>4 DEF ServerInv, ServerTypes, Without
  <2> QED BY <1>3, <2>1, NodeTypesKept DEF ServerInv, ServerTypes
<1>6. \A f \in End : /\ f # e => handler'[f] = handler[f] /\ inbox'[f] = inbox[f]
                     /\ NodeOf(f)' = NodeOf(f) /\ AddrKey(f)' = AddrKey(f)
                     /\ Live(f)' => Live(f) /\ f # e
  BY <1>3 DEF ServerInv, ServerTypes, NodeOf, RemoteOf, AddrKey, Live
<1>7. handler'[e] = "ended" /\ inbox'[e] = <<>> /\ e \notin open'
  BY <1>3 DEF ServerInv, ServerTypes
<1>8. ASSUME NEW f \in End PROVE EndInv(f)'
  <2>1. ASSUME f[2] = "out", Live(f)' PROVE dial'[link[f[1]][1]] = "serve"
    <3>1. Live(f) /\ f # e /\ dial[link[f[1]][1]] = "serve" /\ InUse(f[1])
      BY <1>6, <2>1 DEF ServerInv, EndInv, Live
    <3>2. ASSUME e[2] = "out" PROVE link[f[1]][1] # link[e[1]][1]
      <4>1. link[f[1]] = <<link[f[1]][1]>> /\ link[e[1]] = <<link[e[1]][1]>>
        BY <1>1, <3>1, EndFacts, LinkFacts DEF ServerInv
      <4> QED BY <1>1, <2>1, <3>1, <3>2, <4>1 DEF ServerInv, OneConnection
    <3>3. link[f[1]][1] \in Bootnodes
      BY <3>1, EndFacts, LinkFacts DEF ServerInv
    <3> QED BY <1>3, <3>1, <3>2, <3>3 DEF ServerInv, ServerTypes
  <2> QED BY <1>1, <1>3, <1>6, <1>7, <2>1 DEF ServerInv, EndInv, InUse
<1>9. OneConnection'
  BY <1>3, <1>6 DEF ServerInv, OneConnection
<1>10. ASSUME NEW m \in Node, NEW p \in peers'[m]
       PROVE  p \in peers[m] /\ (m = n => p.key # key)
  BY <1>2, <1>3, <1>10 DEF Without, ServerInv, ServerTypes
<1>11. ASSUME NEW m \in Node, NEW p \in peers'[m] PROVE EntryInv(m, p)'
  <2>1. p.end \in End /\ EntryInv(m, p)
    BY <1>10 DEF ServerInv, ServerTypes
  <2>2. CASE p.end = e
    <3>1. m = n /\ p.key = AddrKey(e)
      BY <2>1, <2>2 DEF EntryInv
    <3>2. e \in greeted
      BY <1>10, <3>1 DEF peerKey
    <3> QED BY <1>3, <1>6, <1>7, <2>1, <2>2, <3>2 DEF EntryInv, InUse
  <2>3. CASE p.end # e
    BY <1>3, <1>6, <2>1, <2>3 DEF EntryInv, InUse
  <2> QED BY <2>2, <2>3
<1>12. \A m \in Node : IsPeerMap(peers'[m])
  BY <1>10 DEF ServerInv, IsPeerMap
<1>13. ServedPeersListed'
  <2> SUFFICES ASSUME NEW f \in End, handler'[f] \in {"greet", "read", "remove"}
               PROVE  \E p \in peers'[NodeOf(f)] : p.end = f
    BY <1>6 DEF ServedPeersListed
  <2>1. f # e /\ handler[f] \in {"greet", "read", "remove"} /\ Live(f) /\ InUse(f[1])
    BY <1>6, <1>7 DEF Live, ServerInv, EndInv
  <2>2. NodeOf(f) \in Node
    BY <2>1, NodeOfType DEF ServerInv
  <2>3. PICK p \in peers[NodeOf(f)] : p.end = f
    BY <2>1 DEF ServerInv, ServedPeersListed
  <2>4. p.key = AddrKey(f)
    BY <2>2, <2>3 DEF ServerInv, EntryInv
  <2>5. NodeOf(f) = n => p.key # key
    <3>1. CASE e \in greeted
      BY <2>4, <3>1 DEF peerKey, AddrKey
    <3>2. CASE e \notin greeted
      BY <1>1, <2>1, <2>4, <3>2, LiveKeysDiffer DEF peerKey
    <3> QED BY <3>1, <3>2
  <2>6. p \in peers'[NodeOf(f)]
    BY <1>2, <1>3, <2>2, <2>3, <2>5 DEF Without, ServerInv, ServerTypes
  <2> QED BY <2>3, <2>6
<1> QED BY <1>5, <1>8, <1>9, <1>11, <1>12, <1>13 DEF ServerInv

LEMMA ServerNext == ASSUME ServerInv, [NetworkNext]_networkVars PROVE ServerInv'
<1>1. ASSUME NEW e \in End, Serve(e) PROVE ServerInv'
  <2>1. CASE pc[e] = "idle" /\ ServerStep(Handle(e))
    BY <2>1, AcceptInv, AddPeerInv, GreetInv, ReadHelloInv, ReadFailsInv, RemovePeerInv
    DEF ServerStep, Handle
  <2> QED BY <1>1, <2>1, ReadNewBlockInv, InsertStepInv, CallerFacts DEF Serve
<1>2. ASSUME NEW n \in Node,
             Seal(n) \/ Work(n) \/ ServerStep(Stop(n)) \/ ServerStep(Closing(n))
      PROVE  ServerInv'
  BY <1>2, MiningInv, CtxInv, InsertStepInv, CallerFacts DEF ServerStep, Work
<1>3. ASSUME NEW b \in Bootnodes, ServerStep(Dialling(b)) PROVE ServerInv'
  BY <1>3, DialInv, RedialInv DEF ServerStep, Dialling
<1>4. ASSUME NEW c \in Conn, ServerStep(Break(c)) PROVE ServerInv'
  BY <1>4, BreakInv DEF ServerStep
<1>5. CASE UNCHANGED networkVars
  <2>1. UNCHANGED <<network, dial, link, handler, open, inbox, greeted, peers, ctx,
                    mines, pc, arg, work>>
    BY <1>5 DEF networkVars, serverVars, connVars, nodeVars, callVars
  <2>2. ServerTypes' /\ NodeTypes'
    BY <2>1 DEF ServerInv, ServerTypes, NodeTypes
  <2>3. \A f \in End : /\ Moves(handler[f], handler'[f])
                       /\ handler'[f] \in {"none", "ended"} => f \notin open' /\ inbox'[f] = <<>>
    BY <2>1 DEF ServerInv, EndInv, Moves
  <2> QED BY <2>1, <2>2, <2>3, KeepsInv
<1> QED BY <1>1, <1>2, <1>3, <1>4, <1>5 DEF NetworkNext

LEMMA ServerInvariance == NetworkSpec => []ServerInv
  BY ServerInitInv, ServerNext, PTL DEF NetworkSpec

-----------------------------------------------------------------------------
\* The goroutines of the servers agree about each connection: a dialLoop serves
\* the one it made, and what has ended is closed and has nothing left to read.
THEOREM ServerTypeCorrect == NetworkSpec => []ServerTypeOK
<1>1. ServerInv => ServerTypeOK
  <2> SUFFICES ASSUME ServerInv PROVE ServerTypeOK
    OBVIOUS
  <2>1. \A n \in Node, p \in UNION {peers[m] : m \in Node} :
          p \in peers[n] => p.end \in End /\ NodeOf(p.end) = n
    BY DEF ServerInv, ServerTypes, EntryInv
  <2>2. \A c \in Conn : link[c] = <<>> \/ \E b \in Bootnodes : link[c] = <<b>>
    BY DEF ServerInv, ServerTypes
  <2>3. \A e \in End :
          /\ handler[e] = "none" <=> ~InUse(e[1])
          /\ handler[e] \in {"none", "ended"} => e \notin open /\ inbox[e] = <<>>
          /\ e[2] = "out" /\ handler[e] \notin {"none", "ended"} =>
               dial[link[e[1]][1]] = "serve"
    BY DEF ServerInv, EndInv, Live
  <2> QED BY <2>1, <2>2, <2>3 DEF ServerTypeOK, ServerInv, ServerTypes
<1> QED BY <1>1, ServerInvariance, PTL

\* Who is being served is in the PeerSet, so that a broadcast reaches it, for
\* any number of nodes and connections, breaking at any time.
THEOREM PeersListed == NetworkSpec => []ServedPeersListed
<1>1. ServerInv => ServedPeersListed
  BY DEF ServerInv
<1> QED BY <1>1, ServerInvariance, PTL

\* Entries are left behind only by peers that said hello, one per bootnode.
THEOREM FewLeftBehind == NetworkSpec => []EntriesLeftBehind
<1>1. ServerInv => EntriesLeftBehind
  <2> SUFFICES ASSUME ServerInv, NEW n \in Node, NEW p \in peers[n],
                      handler[p.end] = "ended"
               PROVE  /\ p.end \in greeted
                      /\ p.end[2] = "out" =>
                           \A q \in peers[n] :
                             q.end[2] = "out" /\ RemoteOf(q.end) = RemoteOf(p.end) => q = p
    BY DEF EntriesLeftBehind
  <2>1. EntryInv(n, p) /\ \A q \in peers[n] : EntryInv(n, q)
    BY DEF ServerInv
  <2>2. ASSUME p.end[2] = "out", NEW q \in peers[n], q.end[2] = "out",
               RemoteOf(q.end) = RemoteOf(p.end)
        PROVE  q = p
    <3>1. p.key = q.key
      BY <2>1, <2>2 DEF EntryInv, AddrKey
    <3> QED BY <3>1 DEF ServerInv, IsPeerMap
  <2> QED BY <2>1, <2>2 DEF EntryInv
<1> QED BY <1>1, ServerInvariance, PTL

-----------------------------------------------------------------------------
\* The stores, whose blocks several goroutines insert at once.

Validated == {"hasBlock", "parentWork", "store", "compare", "setTip", "announce"}
Comparing == {"compare", "setTip"}

\* A store's contents with a tip.
Sound(s) == Consistent(s) /\ s.currentTip # ZeroHash /\ s.genesisHash # ZeroHash

\* Two snapshots give a block the same work.
SameWork(s, t) == \A h \in s.blocks \cap t.blocks : s.totalWork[h] = t.totalWork[h]

\* What a call of InsertBlock has learnt stays true while others go on.
CallInv(p) ==
    /\ pc[p] \in Validated =>
         /\ ValidAlone(Header[arg[p]]) /\ ValidParent(Store(p), Header[arg[p]])
         /\ Header[arg[p]].timestamp <= MaxHeight + MaxFuture
    /\ pc[p] = "store" => work[p] = AddWork(Store(p), arg[p])
    /\ pc[p] \in Comparing \cup {"announce"} => arg[p] \in Store(p).blocks
    /\ pc[p] \in Comparing => work[p] = Store(p).totalWork[arg[p]]

\* A block that was not compared with the tip is about to be, and the tip is the
\* best of the others, unless it was overwritten.
StoreInv(n) ==
    /\ Sound(chain[n])
    /\ n \notin overwritten => Selected(chain[n])
    /\ \A h \in chain[n].blocks \ chain[n].decided :
         \E p \in Caller : pc[p] \in Comparing /\ arg[p] = h /\ HostOf(p) = n

StoresInv ==
    /\ chain = [n \in Node |-> chain[n]]
    /\ \A n \in Node : StoreInv(n)
    /\ \A m, n \in Node : SameWork(chain[m], chain[n])
    /\ \A p \in Caller : CallInv(p)

LEMMA GenesisSound ==
    ASSUME NEW g \in Hash, Header[g].height = 0, ValidAlone(Header[g]),
           ValidParent(Empty, Header[g])
    PROVE  /\ Sound(GenesisChain(g)) /\ Selected(GenesisChain(g))
           /\ GenesisChain(g).blocks = {g} /\ GenesisChain(g).currentTip = g
           /\ GenesisChain(g).genesisHash = g /\ GenesisChain(g).decided = {g}
           /\ GenesisChain(g).totalWork[g] = AddWork(Empty, g)
<1> DEFINE w == CalcBlockWork(Header[g].target)
           stored == WithBlock(Empty, g, AddWork(Empty, g))
<1>1. w \in Nat /\ g # ZeroHash
  BY HeaderType, CalcBlockWorkType
<1>2. AddWork(Empty, g) = w
  BY <1>1 DEF AddWork
<1>3. Selected(Empty) /\ Consistent(Empty)
  BY EmptyConsistent DEF Empty, Selected, BestOfDecided
<1>4. Consistent(stored) /\ Selected(stored)
  BY <1>3, WithBlockConsistent, StoreSelects
<1>5. /\ stored.currentTip = g /\ stored.blocks = {g} /\ stored.decided = {g}
      /\ stored.genesisHash = g /\ stored.totalWork[g] = AddWork(Empty, g)
  BY DEF WithBlock, Empty
<1>6. GenesisChain(g) = Decided(stored, g, g)
  BY <1>2 DEF GenesisChain, WithTip
<1>7. Consistent(Decided(stored, g, g)) /\ Selected(Decided(stored, g, g))
  BY <1>4, <1>5, DecidedConsistent, SetTipSelects
<1>8. /\ Decided(stored, g, g).currentTip = g /\ Decided(stored, g, g).blocks = {g}
      /\ Decided(stored, g, g).decided = {g} /\ Decided(stored, g, g).genesisHash = g
      /\ Decided(stored, g, g).totalWork[g] = AddWork(Empty, g)
  BY <1>5 DEF Decided
<1> QED BY <1>1, <1>6, <1>7, <1>8 DEF Sound

\* The work of a block is the same wherever its chain is.
LEMMA AddWorkAgrees ==
    ASSUME NEW s, NEW t, Consistent(s), Consistent(t), SameWork(s, t),
           NEW h \in s.blocks, ValidParent(t, Header[h])
    PROVE  s.totalWork[h] = AddWork(t, h)
<1>1. h \in Hash /\ s.totalWork[h] = AddWork(s, h) /\ ValidParent(s, Header[h])
  BY DEF Consistent, IsStore, WorkSums, ChainRules
<1>2. ASSUME Header[h].height > 0
      PROVE  Header[h].parentHash \in s.blocks \cap t.blocks
  BY <1>1, <1>2, HeaderType DEF ValidParent, HasBlock
<1> QED BY <1>1, <1>2 DEF AddWork, SameWork

\* Two snapshots go on agreeing when one of them gets a block.
LEMMA GrownSameWork ==
    ASSUME NEW s, NEW t, NEW u, Consistent(s), Consistent(t), Consistent(u), SameWork(s, t),
           Extends(u, t), NEW h \in Hash, u.blocks \subseteq t.blocks \cup {h},
           ValidParent(t, Header[h])
    PROVE  SameWork(s, u) /\ SameWork(u, s)
<1>1. ASSUME NEW b \in s.blocks \cap u.blocks PROVE s.totalWork[b] = u.totalWork[b]
  <2>1. CASE b \in t.blocks
    BY <1>1, <2>1 DEF Extends, SameWork
  <2>2. CASE b \notin t.blocks
    <3>1. b = h
      BY <1>1, <2>2
    <3>2. s.totalWork[h] = AddWork(t, h)
      BY <1>1, <3>1, AddWorkAgrees
    <3>3. AddWork(u, h) = AddWork(t, h)
      BY ChecksPersist
    <3>4. u.totalWork[h] = AddWork(u, h)
      BY <1>1, <3>1 DEF Consistent, WorkSums
    <3> QED BY <3>1, <3>2, <3>3, <3>4
  <2> QED BY <2>1, <2>2
<1> QED BY <1>1 DEF SameWork

-----------------------------------------------------------------------------
\* A step of the servers, whichever.
Serving ==
    \/ \E n \in Node : Stop(n) \/ Closing(n)
    \/ \E e \in End : pc[e] = "idle" /\ Handle(e)
    \/ \E b \in Bootnodes : Dialling(b)
    \/ \E c \in Conn : Break(c)

LEMMA NextSplit ==
    ASSUME NetworkNext
    PROVE  \/ ServerStep(Serving)
           \/ \E n \in Node : Seal(n) \/ Announce(n)
           \/ \E e \in End : ReadNewBlock(e)
           \/ \E p \in Caller : InsertStep(p)
<1>1. ASSUME NEW n \in Node, ServerStep(Stop(n)) \/ ServerStep(Closing(n))
      PROVE  ServerStep(Serving)
  BY <1>1 DEF ServerStep, Serving
<1>2. ASSUME NEW e \in End, pc[e] = "idle", ServerStep(Handle(e)) PROVE ServerStep(Serving)
  BY <1>2 DEF ServerStep, Serving
<1>3. ASSUME NEW b \in Bootnodes, ServerStep(Dialling(b)) PROVE ServerStep(Serving)
  BY <1>3 DEF ServerStep, Serving
<1>4. ASSUME NEW c \in Conn, ServerStep(Break(c)) PROVE ServerStep(Serving)
  BY <1>4 DEF ServerStep, Serving
<1>5. ASSUME NEW n \in Node, Work(n)
      PROVE  Announce(n) \/ \E p \in Caller : InsertStep(p)
  BY <1>5, CallerFacts DEF Work
<1>6. ASSUME NEW e \in End, Serve(e)
      PROVE  \/ ServerStep(Serving) \/ ReadNewBlock(e)
             \/ \E p \in Caller : InsertStep(p)
  BY <1>2, <1>6, CallerFacts DEF Serve
<1> QED BY <1>1, <1>3, <1>4, <1>5, <1>6 DEF NetworkNext

\* A connection stays the one it is.
LEMMA LinkKept ==
    ASSUME ServerInv, [NetworkNext]_networkVars, NEW e \in End, InUse(e[1])
    PROVE  /\ link'[e[1]] = link[e[1]] /\ InUse(e[1])'
           /\ NodeOf(e)' = NodeOf(e) /\ RemoteOf(e)' = RemoteOf(e)
<1>0. e[1] \in Conn /\ Other(e)[1] = e[1]
  BY EndFacts
<1>1. ASSUME Serving PROVE link'[e[1]] = link[e[1]]
  <2>1. ASSUME NEW b \in Bootnodes, Dial(b) PROVE link'[e[1]] = link[e[1]]
    BY <1>0, <2>1 DEF Dial, InUse, ServerInv, ServerTypes
  <2>2. ASSUME NEW b \in Bootnodes, DialFails(b) \/ NextDial(b) PROVE link' = link
    BY <2>2 DEF DialFails, NextDial, connVars
  <2>3. ASSUME NEW f \in End, Handle(f) PROVE link' = link
    BY <2>3 DEF Handle, Accept, AddPeer, Greet, ReadHello, ReadFails, RemovePeer
  <2>4. ASSUME NEW n \in Node, Stop(n) \/ Closing(n) PROVE link' = link
    BY <2>4 DEF Stop, Closing, CloseListener, CloseConns, connVars
  <2>5. ASSUME NEW c \in Conn, Break(c) PROVE link' = link
    BY <2>5 DEF Break
  <2> QED BY <1>1, <2>1, <2>2, <2>3, <2>4, <2>5 DEF Serving, Dialling
<1>2. ASSUME NEW n \in Node, Seal(n) \/ Announce(n) PROVE link' = link
  BY <1>2 DEF Seal, Announce, serverVars, connVars
<1>3. ASSUME NEW f \in End, ReadNewBlock(f) PROVE link' = link
  BY <1>3 DEF ReadNewBlock
<1>4. ASSUME NEW p \in Caller, InsertStep(p) PROVE link' = link
  BY <1>4 DEF InsertStep
<1>5. ASSUME UNCHANGED networkVars PROVE link' = link
  BY <1>5 DEF networkVars, serverVars, connVars
<1>6. link'[e[1]] = link[e[1]]
  BY <1>1, <1>2, <1>3, <1>4, <1>5, NextSplit DEF ServerStep
<1> QED BY <1>0, <1>6 DEF InUse, NodeOf, RemoteOf

\* A goroutine that is inserting a block does it at one node.
LEMMA HostFacts ==
    ASSUME ServerInv, NEW p \in Caller, pc[p] # "idle"
    PROVE  /\ HostOf(p) \in Node /\ arg[p] \in Hash
           /\ p \in End => InUse(p[1]) /\ HostOf(p) = NodeOf(p)
<1>1. arg[p] \in Hash
  BY DEF ServerInv, NodeTypes
<1>2. CASE p[2] = "run"
  BY <1>1, <1>2, CallerFacts DEF HostOf
<1>3. CASE p[2] # "run"
  <2>1. p \in End /\ handler[p] = "read"
    BY <1>3, CallerFacts DEF ServerInv, NodeTypes
  <2>2. InUse(p[1])
    BY <2>1 DEF ServerInv, EndInv
  <2> QED BY <1>1, <1>3, <2>1, <2>2, NodeOfType DEF HostOf, ServerInv
<1> QED BY <1>2, <1>3

LEMMA HostKept ==
    ASSUME ServerInv, [NetworkNext]_networkVars, NEW p \in Caller, pc[p] # "idle"
    PROVE  HostOf(p)' = HostOf(p)
<1>1. CASE p[2] = "run"
  BY <1>1 DEF HostOf
<1>2. CASE p[2] # "run"
  BY <1>2, CallerFacts, HostFacts, LinkKept DEF HostOf
<1> QED BY <1>1, <1>2

-----------------------------------------------------------------------------
LEMMA StoresInit == NetworkInit => StoresInv
<1> SUFFICES ASSUME NetworkInit PROVE StoresInv
  OBVIOUS
<1>1. PICK g \in Geneses : chain = [n \in Node |-> GenesisChain(g[n])]
  BY DEF NetworkInit
<1>2. ASSUME NEW n \in Node
      PROVE  /\ g[n] \in Hash /\ Sound(chain[n]) /\ Selected(chain[n])
             /\ chain[n].blocks = {g[n]} /\ chain[n].decided = {g[n]}
             /\ chain[n].totalWork[g[n]] = AddWork(Empty, g[n])
  BY <1>1, NetworkAssumption, GenesisSound
<1>3. ASSUME NEW m \in Node, NEW n \in Node PROVE SameWork(chain[m], chain[n])
  BY <1>2 DEF SameWork
<1>4. ASSUME NEW p \in Caller PROVE CallInv(p)
  BY DEF NetworkInit, CallInv, Validated, Comparing
<1> QED BY <1>1, <1>2, <1>3, <1>4 DEF StoresInv, StoreInv

\* A call that takes no step loses nothing by those of the others.
LEMMA CallKept ==
    ASSUME ServerInv, [NetworkNext]_networkVars,
           \A n \in Node : Extends(chain'[n], chain[n]),
           NEW p \in Caller, CallInv(p),
           pc'[p] = pc[p], arg'[p] = arg[p], work'[p] = work[p]
    PROVE  CallInv(p)'
<1>1. CASE pc[p] = "idle"
  BY <1>1 DEF CallInv, Validated, Comparing
<1>2. CASE pc[p] # "idle"
  <2>1. HostOf(p)' = HostOf(p) /\ HostOf(p) \in Node /\ arg[p] \in Hash
    BY <1>2, HostFacts, HostKept
  <2>2. Extends(Store(p)', Store(p))
    BY <2>1 DEF Store
  <2>3. pc[p] \in Validated =>
          /\ ValidParent(Store(p)', Header[arg[p]])
          /\ AddWork(Store(p)', arg[p]) = AddWork(Store(p), arg[p])
    BY <2>1, <2>2, ChecksPersist DEF CallInv
  <2>4. pc[p] \in Comparing \cup {"announce"} =>
          /\ arg[p] \in Store(p)'.blocks
          /\ Store(p)'.totalWork[arg[p]] = Store(p).totalWork[arg[p]]
    BY <2>2 DEF CallInv, Extends
  <2>5. CallInv(p)' <=>
          /\ pc[p] \in Validated =>
               /\ ValidAlone(Header[arg[p]]) /\ ValidParent(Store(p)', Header[arg[p]])
               /\ Header[arg[p]].timestamp <= MaxHeight + MaxFuture
          /\ pc[p] = "store" => work[p] = AddWork(Store(p)', arg[p])
          /\ pc[p] \in Comparing \cup {"announce"} => arg[p] \in Store(p)'.blocks
          /\ pc[p] \in Comparing => work[p] = Store(p)'.totalWork[arg[p]]
    BY DEF CallInv, Validated, Comparing, ValidAlone, ValidParent, AddWork
  <2> QED BY <2>3, <2>4, <2>5 DEF CallInv, Validated, Comparing
<1> QED BY <1>1, <1>2

\* A step of one goroutine, on the store of one node.
LEMMA StoresStep ==
    ASSUME ServerInv, StoresInv, [NetworkNext]_networkVars,
           NEW q \in Caller, NEW n \in Node, NEW t,
           chain' = [chain EXCEPT ![n] = t],
           Sound(t), Extends(t, chain[n]), t.genesisHash = chain[n].genesisHash,
           overwritten \subseteq overwritten', overwritten' \subseteq overwritten \cup {n},
           n \notin overwritten' => Selected(t),
           \A m \in Node : SameWork(chain[m], t) /\ SameWork(t, chain[m]),
           \A p \in Caller : p # q => pc'[p] = pc[p] /\ arg'[p] = arg[p] /\ work'[p] = work[p],
           (\A m \in Node : Extends(chain'[m], chain[m])) => CallInv(q)',
           pc[q] \in Comparing => HostOf(q) = n,
           \A h \in t.blocks \ t.decided :
             \/ /\ h \in chain[n].blocks \ chain[n].decided
                /\ pc[q] \in Comparing /\ arg[q] = h => pc'[q] \in Comparing /\ arg'[q] = h
             \/ pc'[q] \in Comparing /\ arg'[q] = h /\ HostOf(q)' = n
    PROVE  /\ StoresInv'
           /\ \A m \in Node : /\ Extends(chain'[m], chain[m])
                              /\ chain'[m].genesisHash = chain[m].genesisHash
<1>1. /\ chain'[n] = t /\ \A m \in Node : m # n => chain'[m] = chain[m]
      /\ chain' = [m \in Node |-> chain'[m]]
  BY DEF StoresInv
<1>2. \A m \in Node : Extends(chain[m], chain[m])
  BY DEF Extends
<1>3. \A m \in Node : /\ Extends(chain'[m], chain[m])
                      /\ chain'[m].genesisHash = chain[m].genesisHash
  BY <1>1, <1>2
<1>4. ASSUME NEW p \in Caller PROVE CallInv(p)'
  <2>1. CASE p = q
    BY <1>3, <2>1
  <2>2. CASE p # q
    BY <1>3, <2>2, CallKept DEF StoresInv
  <2> QED BY <2>1, <2>2
<1>5. \A l, m \in Node : SameWork(chain'[l], chain'[m])
  <2>1. SameWork(t, t)
    BY DEF SameWork
  <2> QED BY <1>1, <2>1 DEF StoresInv
<1>6. ASSUME NEW p \in Caller, NEW m \in Node, pc[p] \in Comparing, HostOf(p) = m,
             p # q \/ (pc'[q] \in Comparing /\ arg'[q] = arg[q])
      PROVE  pc'[p] \in Comparing /\ arg'[p] = arg[p] /\ HostOf(p)' = m
  <2>1. pc[p] # "idle"
    BY <1>6 DEF Comparing
  <2> QED BY <1>6, <2>1, HostKept
<1>7. ASSUME NEW m \in Node PROVE StoreInv(m)'
  <2>1. Sound(chain'[m])
    BY <1>1 DEF StoresInv, StoreInv
  <2>2. m \notin overwritten' => Selected(chain'[m])
    BY <1>1 DEF StoresInv, StoreInv
  <2>3. ASSUME NEW h \in chain[m].blocks \ chain[m].decided,
               m # n \/ (pc[q] \in Comparing /\ arg[q] = h =>
                           pc'[q] \in Comparing /\ arg'[q] = h)
        PROVE  \E p \in Caller : pc'[p] \in Comparing /\ arg'[p] = h /\ HostOf(p)' = m
    <3>1. PICK p \in Caller : pc[p] \in Comparing /\ arg[p] = h /\ HostOf(p) = m
      BY DEF StoresInv, StoreInv
    <3>2. p # q \/ (pc'[q] \in Comparing /\ arg'[q] = arg[q])
      BY <2>3, <3>1
    <3> QED BY <1>6, <3>1, <3>2
  <2>4. ASSUME NEW h \in chain'[m].blocks \ chain'[m].decided
        PROVE  \E p \in Caller : pc'[p] \in Comparing /\ arg'[p] = h /\ HostOf(p)' = m
    <3>1. CASE m # n
      BY <1>1, <2>3, <3>1
    <3>2. CASE m = n
      <4>1. h \in t.blocks \ t.decided
        BY <1>1, <3>2
      <4>2. CASE /\ h \in chain[n].blocks \ chain[n].decided
                 /\ pc[q] \in Comparing /\ arg[q] = h => pc'[q] \in Comparing /\ arg'[q] = h
        BY <2>3, <3>2, <4>2
      <4>3. CASE pc'[q] \in Comparing /\ arg'[q] = h /\ HostOf(q)' = n
        BY <3>2, <4>3
      <4> QED BY <4>1, <4>2, <4>3
    <3> QED BY <3>1, <3>2
  <2> QED BY <2>1, <2>2, <2>4 DEF StoreInv, Sound, Selected, Consistent, Coherent, HeightIndex,
                                  ChainRules, WorkSums, ValidAlone, ValidParent, AddWork,
                                  BestOfDecided, HasBlock
<1> QED BY <1>1, <1>3, <1>4, <1>5, <1>7 DEF StoresInv, SameWork

\* A step that leaves the stores alone.
LEMMA StoresLeft ==
    ASSUME ServerInv, StoresInv, [NetworkNext]_networkVars, UNCHANGED <<chain, overwritten>>,
           NEW q \in Caller,
           \A p \in Caller : p # q => pc'[p] = pc[p] /\ arg'[p] = arg[p] /\ work'[p] = work[p],
           (\A m \in Node : Extends(chain'[m], chain[m])) => CallInv(q)',
           pc[q] \in Comparing => pc'[q] \in Comparing /\ arg'[q] = arg[q]
    PROVE  /\ StoresInv'
           /\ \A m \in Node : /\ Extends(chain'[m], chain[m])
                              /\ chain'[m].genesisHash = chain[m].genesisHash
<1>1. CASE \A n \in Node : FALSE
  <2>1. \A p \in Caller : CallInv(p)'
    BY <1>1, CallKept DEF StoresInv
  <2> QED BY <1>1, <2>1 DEF StoresInv
<1>2. ASSUME NEW n \in Node, pc[q] \in Comparing => HostOf(q) = n
      PROVE  /\ StoresInv'
             /\ \A m \in Node : /\ Extends(chain'[m], chain[m])
                                /\ chain'[m].genesisHash = chain[m].genesisHash
  <2> DEFINE t == chain[n]
  <2>1. chain' = [chain EXCEPT ![n] = t]
    BY DEF StoresInv
  <2>2. Extends(t, t) /\ Sound(t) /\ (n \notin overwritten => Selected(t))
    BY DEF Extends, StoresInv, StoreInv
  <2>3. \A m \in Node : SameWork(chain[m], t) /\ SameWork(t, chain[m])
    BY DEF StoresInv
  <2>4. \A h \in t.blocks \ t.decided :
          /\ h \in chain[n].blocks \ chain[n].decided
          /\ pc[q] \in Comparing /\ arg[q] = h => pc'[q] \in Comparing /\ arg'[q] = h
    OBVIOUS
  <2> HIDE DEF t
  <2>5. t.genesisHash = chain[n].genesisHash /\ Extends(t, chain[n])
    BY <2>2 DEF t
  <2> QED BY <1>2, <2>1, <2>2, <2>3, <2>4, <2>5, StoresStep
<1>3. pc[q] \in Comparing => HostOf(q) \in Node
  BY HostFacts DEF Comparing
<1> QED BY <1>1, <1>2, <1>3

\* A goroutine's step concerns its own call.
LEMMA InsertStepOwn ==
    ASSUME ServerInv, NEW q \in Caller, InsertStep(q)
    PROVE  \A p \in Caller : p # q => pc'[p] = pc[p] /\ arg'[p] = arg[p] /\ work'[p] = work[p]
<1>1. NodeTypes
  BY DEF ServerInv
<1> QED BY <1>1, InsertStepMoves DEF Continue, Return, NodeTypes

\* The steps that only look at the store, or have lost.
LEMMA LookingStores ==
    ASSUME ServerInv, StoresInv, [NetworkNext]_networkVars, NEW q \in Caller, InsertStep(q),
           \/ Validate(q) \/ CheckKnown(q) \/ ParentWork(q) \/ (Compare(q) /\ Wins(q))
    PROVE  /\ StoresInv'
           /\ \A m \in Node : /\ Extends(chain'[m], chain[m])
                              /\ chain'[m].genesisHash = chain[m].genesisHash
<1>0. /\ pc \in [Caller -> Places] /\ arg \in [Caller -> Hash \cup {ZeroHash}]
      /\ work = [p \in Caller |-> work[p]] /\ CallInv(q)
  BY DEF ServerInv, NodeTypes, StoresInv
<1>1. UNCHANGED <<chain, overwritten>>
  BY DEF Validate, CheckKnown, ParentWork, Compare
<1>2. /\ pc[q] # "idle" /\ HostOf(q)' = HostOf(q) /\ HostOf(q) \in Node /\ arg[q] \in Hash
      /\ Store(q)' = Store(q)
  <2>1. pc[q] # "idle"
    BY DEF Validate, CheckKnown, ParentWork, Compare
  <2> QED BY <1>1, <2>1, HostKept, HostFacts DEF Store
<1>3. CASE Return(q)
  <2>1. pc'[q] = "idle"
    BY <1>0, <1>3 DEF Return
  <2>2. CallInv(q)'
    BY <2>1 DEF CallInv, Validated, Comparing
  <2>3. pc[q] \notin Comparing
    BY <1>0, <2>1 DEF Validate, CheckKnown, ParentWork, Compare, Continue, Comparing
  <2> QED BY <1>1, <2>2, <2>3, InsertStepOwn, StoresLeft
<1>4. ASSUME NEW l \in Validated, Continue(q, l)
      PROVE  /\ pc'[q] = l /\ arg'[q] = arg[q]
             /\ CallInv(q)' <=>
                  /\ ValidAlone(Header[arg[q]]) /\ ValidParent(Store(q), Header[arg[q]])
                  /\ Header[arg[q]].timestamp <= MaxHeight + MaxFuture
                  /\ l = "store" => work'[q] = AddWork(Store(q), arg[q])
                  /\ l \in Comparing \cup {"announce"} => arg[q] \in Store(q).blocks
                  /\ l \in Comparing => work'[q] = Store(q).totalWork[arg[q]]
  <2>1. pc'[q] = l /\ arg'[q] = arg[q]
    BY <1>0, <1>4 DEF Continue
  <2>2. CallInv(q)' <=>
          /\ l \in Validated =>
               /\ ValidAlone(Header[arg[q]]) /\ ValidParent(Store(q)', Header[arg[q]])
               /\ Header[arg[q]].timestamp <= MaxHeight + MaxFuture
          /\ l = "store" => work'[q] = AddWork(Store(q)', arg[q])
          /\ l \in Comparing \cup {"announce"} => arg[q] \in Store(q)'.blocks
          /\ l \in Comparing => work'[q] = Store(q)'.totalWork[arg[q]]
    BY <2>1 DEF CallInv, Validated, Comparing, ValidAlone, ValidParent, AddWork
  <2> QED BY <1>2, <1>4, <2>1, <2>2
<1>5. CASE Validate(q) /\ ValidateHeader(Store(q), Header[arg[q]], MaxHeight)
  <2>1. Continue(q, "hasBlock") /\ pc[q] = "validate"
    BY <1>5 DEF Validate
  <2>2. CallInv(q)'
    BY <1>4, <1>5, <2>1 DEF ValidateHeader, Validated, Comparing
  <2>3. pc[q] \notin Comparing
    BY <2>1 DEF Comparing
  <2> QED BY <1>1, <2>2, <2>3, InsertStepOwn, StoresLeft
<1>6. CASE CheckKnown(q) /\ ~HasBlock(Store(q), arg[q])
  <2>1. Continue(q, "parentWork") /\ pc[q] = "hasBlock"
    BY <1>6 DEF CheckKnown
  <2>2. CallInv(q)'
    BY <1>0, <1>4, <2>1 DEF CallInv, Validated, Comparing
  <2>3. pc[q] \notin Comparing
    BY <2>1 DEF Comparing
  <2> QED BY <1>1, <2>2, <2>3, InsertStepOwn, StoresLeft
<1>7. CASE ParentWork(q) /\ ~Return(q)
  <2>1. Continue(q, "store") /\ pc[q] = "parentWork"
        /\ work' = [work EXCEPT ![q] = AddWork(Store(q), arg[q])]
    BY <1>7 DEF ParentWork
  <2>2. work'[q] = AddWork(Store(q), arg[q])
    BY <1>0, <2>1
  <2>3. CallInv(q)'
    BY <1>0, <1>4, <2>1, <2>2 DEF CallInv, Validated, Comparing
  <2>4. pc[q] \notin Comparing
    BY <2>1 DEF Comparing
  <2> QED BY <1>1, <2>3, <2>4, InsertStepOwn, StoresLeft
<1>8. CASE Compare(q) /\ Wins(q)
  <2>1. Continue(q, "setTip") /\ pc[q] = "compare" /\ work' = work
    BY <1>8 DEF Compare
  <2>2. CallInv(q)' /\ pc'[q] = "setTip" /\ arg'[q] = arg[q]
    BY <1>0, <1>4, <2>1 DEF CallInv, Validated, Comparing
  <2>3. pc'[q] \in Comparing
    BY <2>2 DEF Comparing
  <2> QED BY <1>1, <2>2, <2>3, InsertStepOwn, StoresLeft
<1> QED BY <1>3, <1>5, <1>6, <1>7, <1>8 DEF Validate, CheckKnown

LEMMA StoreBlockStores ==
    ASSUME ServerInv, StoresInv, [NetworkNext]_networkVars, NEW q \in Caller, InsertStep(q),
           StoreBlock(q)
    PROVE  /\ StoresInv'
           /\ \A m \in Node : /\ Extends(chain'[m], chain[m])
                              /\ chain'[m].genesisHash = chain[m].genesisHash
<1> DEFINE n == HostOf(q)
           s == chain[n]
           h == arg[q]
           t == WithBlock(s, h, AddWork(s, h))
<1>1. /\ pc[q] = "store" /\ n \in Node /\ h \in Hash /\ HostOf(q)' = n
      /\ UNCHANGED <<work, overwritten>> /\ Continue(q, "compare")
  BY HostFacts, HostKept DEF StoreBlock
<1>2. /\ ValidAlone(Header[h]) /\ ValidParent(s, Header[h]) /\ work[q] = AddWork(s, h)
      /\ Header[h].timestamp <= MaxHeight + MaxFuture
  BY <1>1 DEF StoresInv, CallInv, Validated, Store
<1>3. Sound(s) /\ (n \notin overwritten => Selected(s))
  BY <1>1 DEF StoresInv, StoreInv
<1>4. chain' = [chain EXCEPT ![n] = t] /\ chain'[n] = t
  <2>1. chain' = [chain EXCEPT ![n] = t]
    BY <1>2 DEF StoreBlock, SetStore, Store
  <2> QED BY <1>1, <2>1 DEF StoresInv
<1>5. /\ t.currentTip = s.currentTip /\ t.genesisHash = s.genesisHash
      /\ t.decided = s.decided /\ t.blocks = s.blocks \cup {h}
      /\ t.totalWork[h] = AddWork(s, h)
  BY <1>3 DEF WithBlock, Sound
<1>6. Consistent(t) /\ Extends(t, s)
  BY <1>1, <1>2, <1>3, WithBlockConsistent, WithBlockExtends DEF Sound
<1>7. Sound(t)
  BY <1>3, <1>5, <1>6 DEF Sound
<1>8. n \notin overwritten' => Selected(t)
  BY <1>1, <1>2, <1>3, StoreSelects DEF Sound
<1> HIDE DEF t
<1>9. ASSUME NEW m \in Node PROVE SameWork(chain[m], t) /\ SameWork(t, chain[m])
  BY <1>1, <1>2, <1>3, <1>5, <1>6, GrownSameWork DEF StoresInv, StoreInv, Sound
<1>10. /\ pc'[q] = "compare" /\ arg'[q] = h /\ work'[q] = work[q]
  BY <1>1 DEF Continue, ServerInv, NodeTypes
<1>11. CallInv(q)'
  <2>1. ValidParent(t, Header[h])
    BY <1>1, <1>2, <1>6, ChecksPersist
  <2>2. Store(q)' = t
    BY <1>1, <1>4 DEF Store
  <2>3. CallInv(q)' <=>
          /\ ValidAlone(Header[h]) /\ ValidParent(Store(q)', Header[h])
          /\ Header[h].timestamp <= MaxHeight + MaxFuture
          /\ h \in Store(q)'.blocks /\ work'[q] = Store(q)'.totalWork[h]
    BY <1>10 DEF CallInv, Validated, Comparing, ValidAlone, ValidParent, AddWork
  <2> QED BY <1>2, <1>5, <1>10, <2>1, <2>2, <2>3
<1>12. pc[q] \notin Comparing /\ pc'[q] \in Comparing
  BY <1>1, <1>10 DEF Comparing
<1>13. \A b \in t.blocks \ t.decided :
         b \in s.blocks \ s.decided \/ b = h
  BY <1>5
<1> QED BY <1>1, <1>4, <1>5, <1>6, <1>7, <1>8, <1>9, <1>10, <1>11, <1>12, <1>13,
           InsertStepOwn, StoresStep

\* The steps that finish the comparison.
LEMMA DecidingStores ==
    ASSUME ServerInv, StoresInv, [NetworkNext]_networkVars, NEW q \in Caller, InsertStep(q),
           (Compare(q) /\ ~Wins(q)) \/ SetTip(q)
    PROVE  /\ StoresInv'
           /\ \A m \in Node : /\ Extends(chain'[m], chain[m])
                              /\ chain'[m].genesisHash = chain[m].genesisHash
<1> DEFINE n == HostOf(q)
           s == chain[n]
           h == arg[q]
           tip == IF pc[q] = "setTip" THEN h ELSE s.currentTip
           t == Decided(s, h, tip)
<1>1. /\ pc[q] \in Comparing /\ n \in Node /\ h \in Hash /\ HostOf(q)' = n
  <2>1. pc[q] \in Comparing
    BY DEF Compare, SetTip, Comparing
  <2> QED BY <2>1, HostFacts, HostKept DEF Comparing
<1>2. /\ ValidAlone(Header[h]) /\ ValidParent(s, Header[h])
      /\ Header[h].timestamp <= MaxHeight + MaxFuture
      /\ h \in s.blocks /\ work[q] = s.totalWork[h]
  BY <1>1 DEF StoresInv, CallInv, Validated, Comparing, Store
<1>3. Sound(s) /\ (n \notin overwritten => Selected(s))
  BY <1>1 DEF StoresInv, StoreInv
<1>4. chain' = [chain EXCEPT ![n] = t] /\ chain'[n] = t
  <2>1. chain' = [chain EXCEPT ![n] = t]
    BY DEF Compare, SetTip, SetStore, Store, WithTip
  <2> QED BY <1>1, <2>1 DEF StoresInv
<1>5. /\ t.currentTip = tip /\ t.genesisHash = s.genesisHash
      /\ t.decided = s.decided \cup {h} /\ t.blocks = s.blocks /\ t.totalWork = s.totalWork
  BY DEF Decided
<1>6. s.currentTip \in s.blocks /\ TipWork(s) = s.totalWork[s.currentTip]
  BY <1>3 DEF Sound, Consistent, Coherent, TipWork
<1>7. Consistent(t) /\ Extends(t, s) /\ tip # ZeroHash
  <2>1. tip \in s.blocks /\ tip # ZeroHash
    BY <1>1, <1>2, <1>3, <1>6, HeaderType DEF Sound
  <2> QED BY <1>2, <1>3, <2>1, DecidedConsistent DEF Sound
<1>8. Sound(t)
  BY <1>3, <1>5, <1>7 DEF Sound
<1>9. Wins(q) <=> h = s.currentTip \/ Beats(s, h, s.currentTip)
  BY <1>2, <1>6 DEF Wins, SelectBestChainByTotalWork, Beats, Store
<1>10. /\ overwritten \subseteq overwritten' /\ overwritten' \subseteq overwritten \cup {n}
       /\ n \notin overwritten' => Selected(t)
  <2>1. CASE Compare(q) /\ ~Wins(q)
    <3>1. overwritten' = overwritten /\ tip = s.currentTip /\ ~Beats(s, h, s.currentTip)
      BY <1>9, <2>1 DEF Compare
    <3> QED BY <1>2, <1>3, <3>1, SideSelects DEF Sound
  <2>2. CASE SetTip(q)
    <3>1. /\ tip = h
          /\ overwritten' = IF Wins(q) THEN overwritten ELSE overwritten \cup {n}
      BY <2>2 DEF SetTip
    <3> QED BY <1>2, <1>3, <1>9, <3>1, SetTipSelects DEF Sound
  <2> QED BY <2>1, <2>2
<1> HIDE DEF t
<1>11. ASSUME NEW m \in Node PROVE SameWork(chain[m], t) /\ SameWork(t, chain[m])
  BY <1>1, <1>5 DEF StoresInv, SameWork
<1>12. CallInv(q)'
  <2>1. CASE pc'[q] = "idle"
    BY <2>1 DEF CallInv, Validated, Comparing
  <2>2. CASE pc'[q] = "announce" /\ arg'[q] = h
    <3>1. ValidParent(t, Header[h]) /\ h \in t.blocks
      BY <1>1, <1>2, <1>5, <1>7, ChecksPersist
    <3>2. Store(q)' = t
      BY <1>1, <1>4 DEF Store
    <3>3. CallInv(q)' <=>
            /\ ValidAlone(Header[h]) /\ ValidParent(Store(q)', Header[h])
            /\ Header[h].timestamp <= MaxHeight + MaxFuture
            /\ h \in Store(q)'.blocks
      BY <2>2 DEF CallInv, Validated, Comparing, ValidAlone, ValidParent, AddWork
    <3> QED BY <1>2, <3>1, <3>2, <3>3
  <2>3. pc \in [Caller -> Places] /\ arg \in [Caller -> Hash \cup {ZeroHash}]
    BY DEF ServerInv, NodeTypes
  <2> QED BY <2>1, <2>2, <2>3 DEF Compare, SetTip, Continue, Return
<1>13. \A b \in t.blocks \ t.decided : b \in s.blocks \ s.decided /\ b # h
  BY <1>5
<1> QED BY <1>1, <1>4, <1>5, <1>7, <1>8, <1>10, <1>11, <1>12, <1>13, InsertStepOwn, StoresStep

LEMMA InsertStores ==
    ASSUME ServerInv, StoresInv, [NetworkNext]_networkVars, NEW q \in Caller, InsertStep(q)
    PROVE  /\ StoresInv'
           /\ \A m \in Node : /\ Extends(chain'[m], chain[m])
                              /\ chain'[m].genesisHash = chain[m].genesisHash
  BY LookingStores, StoreBlockStores, DecidingStores DEF InsertStep

LEMMA StoresNext ==
    ASSUME ServerInv, StoresInv, [NetworkNext]_networkVars
    PROVE  /\ StoresInv'
           /\ \A m \in Node : /\ Extends(chain'[m], chain[m])
                              /\ chain'[m].genesisHash = chain[m].genesisHash
<1>0. /\ pc \in [Caller -> Places] /\ arg \in [Caller -> Hash \cup {ZeroHash}]
      /\ work = [p \in Caller |-> work[p]]
  BY DEF ServerInv, NodeTypes
<1>1. CASE UNCHANGED <<chain, overwritten, callVars>>
  <2>1. \A n \in Node : Extends(chain'[n], chain[n])
    BY <1>1 DEF Extends
  <2>2. \A p \in Caller : CallInv(p)'
    BY <1>1, <2>1, CallKept DEF StoresInv, callVars
  <2>3. ASSUME NEW p \in Caller, pc[p] \in Comparing PROVE HostOf(p)' = HostOf(p)
    BY <2>3, HostKept DEF Comparing
  <2>4. \A n \in Node : StoreInv(n)'
    BY <1>1, <2>3 DEF StoresInv, StoreInv, callVars
  <2> QED BY <1>1, <2>1, <2>2, <2>4 DEF StoresInv
<1>2. ASSUME ServerStep(Serving) PROVE UNCHANGED <<chain, overwritten, callVars>>
  BY <1>2 DEF ServerStep, nodeVars
<1>3. ASSUME NEW n \in Node, Seal(n) \/ Announce(n)
      PROVE  /\ StoresInv'
             /\ \A m \in Node : /\ Extends(chain'[m], chain[m])
                                /\ chain'[m].genesisHash = chain[m].genesisHash
  <2> DEFINE q == Run(n)
  <2>1. q \in Caller /\ UNCHANGED <<chain, overwritten>>
    BY <1>3, CallerFacts DEF Seal, Announce
  <2>2. /\ pc[q] \in {"idle", "announce"} /\ pc'[q] \in {"idle", "validate"}
        /\ \A p \in Caller : p # q => pc'[p] = pc[p] /\ arg'[p] = arg[p] /\ work'[p] = work[p]
    BY <1>0, <1>3, <2>1 DEF Seal, Announce, Begin, Return
  <2>3. CallInv(q)' /\ pc[q] \notin Comparing
    BY <2>2 DEF CallInv, Validated, Comparing
  <2> QED BY <2>1, <2>2, <2>3, StoresLeft
<1>4. ASSUME NEW e \in End, ReadNewBlock(e)
      PROVE  /\ StoresInv'
             /\ \A m \in Node : /\ Extends(chain'[m], chain[m])
                                /\ chain'[m].genesisHash = chain[m].genesisHash
  <2>1. e \in Caller /\ UNCHANGED <<chain, overwritten>>
    BY <1>4, CallerFacts DEF ReadNewBlock
  <2>2. /\ pc[e] = "idle" /\ pc'[e] \in {"idle", "validate"}
        /\ \A p \in Caller : p # e => pc'[p] = pc[p] /\ arg'[p] = arg[p] /\ work'[p] = work[p]
    BY <1>0, <1>4, <2>1 DEF ReadNewBlock, Begin, callVars
  <2>3. CallInv(e)' /\ pc[e] \notin Comparing
    BY <2>2 DEF CallInv, Validated, Comparing
  <2> QED BY <2>1, <2>2, <2>3, StoresLeft
<1>5. ASSUME UNCHANGED networkVars PROVE UNCHANGED <<chain, overwritten, callVars>>
  BY <1>5 DEF networkVars, nodeVars
<1> QED BY <1>1, <1>2, <1>3, <1>4, <1>5, InsertStores, NextSplit
-----------------------------------------------------------------------------
\* Agreement of two nodes.  Nothing is announced twice or asked for again, so
\* all rests on this: what a node has announced and the other one lacks comes
\* to it over one connection that has every block behind its parent, counting
\* the one that its handler is inserting.

TwoNodes == \A l, m, n \in Node : l = m \/ m = n \/ l = n
OneNetwork == \A i, j \in NetworkID : i = j

AllRunning == \A n \in Node : ctx[n] = "running"
SameGenesis == \A m, n \in Node : chain[m].genesisHash = chain[n].genesisHash
Undisturbed == lossless /\ AllRunning /\ SameGenesis

Parent(h) == Header[h].parentHash
Held(n) == chain[n].blocks

\* The blocks of a sequence of messages.
Told(q) == {q[i] : i \in DOMAIN q} \ {NoMessage}

\* Every block of the sequence is behind its parent, or has it in K.
InOrder(q, K) ==
    \A i \in DOMAIN q :
      \/ q[i] = NoMessage
      \/ Parent(q[i]) \in K
      \/ \E j \in 1..(i - 1) : q[j] = Parent(q[i])

\* What has come, or is coming, to an end and is not in the node's store yet.
Early == {"validate", "hasBlock", "parentWork", "store"}
Pending(e) == IF pc[e] \in Early THEN <<arg[e]>> \o inbox[e] ELSE inbox[e]

\* The blocks that are on the way to a node.
AtNode(n) == {e \in End : InUse(e[1]) /\ NodeOf(e) = n}
Coming(n) == UNION {Told(Pending(e)) : e \in AtNode(n)}

\* A node announces only what it has inserted.
Announceable(h) ==
    Header[h].height > 0 /\ Header[h].timestamp <= MaxHeight + MaxFuture

\* The block an end's handler is inserting.
Taken(e) == IF pc[e] = "idle" THEN {} ELSE {arg[e]}

AnnouncedInv ==
    /\ \A n \in Node : pc[Run(n)] # "idle" => Header[arg[Run(n)]].height > 0
    /\ \A e \in End : \A h \in Told(inbox[e]) \cup Taken(e) :
         h \in Held(RemoteOf(e)) /\ Announceable(h)

\* A connection is open at both ends or at none, and carries messages only when
\* it is open and its ends are in the PeerSets.
Intact(e) ==
    /\ e \in open <=> Other(e) \in open
    /\ e \notin open => inbox[e] = <<>>
    /\ handler[e] = "remove" => e \notin open
    /\ inbox[e] # <<>> \/ pc[e] # "idle" => handler[Other(e)] \notin {"accept", "add"}

\* One connection brings all that is on the way to the node and new to it, and
\* each block behind its parent.
Carrier(n, e) ==
    /\ Coming(n) \subseteq Told(Pending(e)) \cup Held(n)
    /\ InOrder(Pending(e), Held(n))

Covered(n) == Coming(n) \subseteq Held(n) \/ \E e \in AtNode(n) : Carrier(n, e)

\* What a node builds on is held by the other one, or on the way to it.
News(n) == IF pc[Run(n)] = "announce" THEN {arg[Run(n)]} ELSE {}

Reaching(m, n) ==
    LET reached == Held(m) \cup Coming(m)
    IN  /\ chain[n].currentTip \in reached \cup News(n)
        /\ pc[Run(n)] # "idle" => Parent(arg[Run(n)]) \in reached

Connected ==
    /\ \A e \in End : pc[e] # "idle" => e \in open
    /\ \A n \in Node : Covered(n)
    /\ \A m, n \in Node : m # n => Reaching(m, n)

\* The inductive invariant.
AgreementInv ==
    /\ ServerInv
    /\ StoresInv
    /\ AnnouncedInv
    /\ AllRunning => \A e \in End : Intact(e)
    /\ Undisturbed => Connected

-----------------------------------------------------------------------------
\* What a sequence of messages tells, and in which order.
LEMMA ToldFacts ==
    ASSUME NEW q \in Seq(Message)
    PROVE  /\ Told(q) \subseteq Hash
           /\ \A m \in Message : Told(Append(q, m)) = Told(q) \cup ({m} \ {NoMessage})
           /\ q # <<>> => Told(q) = Told(Tail(q)) \cup ({Head(q)} \ {NoMessage})
<1>1. Told(q) \subseteq Hash
  BY DEF Told, Message
<1>2. ASSUME NEW m \in Message PROVE Told(Append(q, m)) = Told(q) \cup ({m} \ {NoMessage})
  <2> DEFINE r == Append(q, m)
  <2>1. /\ Len(q) \in Nat /\ DOMAIN q = 1..Len(q) /\ DOMAIN r = 1..(Len(q) + 1)
        /\ r[Len(q) + 1] = m /\ \A i \in 1..Len(q) : r[i] = q[i]
    OBVIOUS
  <2>2. DOMAIN r = DOMAIN q \cup {Len(q) + 1}
    BY <2>1
  <2>3. {r[i] : i \in DOMAIN r} = {q[i] : i \in DOMAIN q} \cup {m}
    BY <2>1, <2>2
  <2> QED BY <2>3 DEF Told
<1>3. ASSUME q # <<>> PROVE Told(q) = Told(Tail(q)) \cup ({Head(q)} \ {NoMessage})
  <2> DEFINE r == Tail(q)
  <2>1. /\ Len(q) \in Nat \ {0} /\ DOMAIN q = 1..Len(q) /\ DOMAIN r = 1..(Len(q) - 1)
        /\ q[1] = Head(q) /\ \A i \in 1..(Len(q) - 1) : r[i] = q[i + 1]
    BY <1>3
  <2>2. ASSUME NEW i \in DOMAIN q PROVE i = 1 \/ (i - 1 \in DOMAIN r /\ q[i] = r[i - 1])
    BY <2>1
  <2>3. {q[i] : i \in DOMAIN q} = {r[i] : i \in DOMAIN r} \cup {Head(q)}
    <3>1. ASSUME NEW i \in DOMAIN r PROVE i + 1 \in DOMAIN q /\ q[i + 1] = r[i]
      BY <2>1
    <3>2. 1 \in DOMAIN q
      BY <2>1
    <3> HIDE DEF r
    <3> QED BY <2>1, <2>2, <3>1, <3>2
  <2> QED BY <2>3 DEF Told
<1> QED BY <1>1, <1>2, <1>3

LEMMA InOrderGrows ==
    ASSUME NEW q, NEW K, NEW L, K \subseteq L, InOrder(q, K)
    PROVE  InOrder(q, L)
  BY DEF InOrder

\* All is in order when every parent is held.
LEMMA InOrderHeld ==
    ASSUME NEW q, NEW K, \A h \in Told(q) : Parent(h) \in K
    PROVE  InOrder(q, K)
  BY DEF InOrder, Told

LEMMA InOrderAppend ==
    ASSUME NEW q \in Seq(Message), NEW K, InOrder(q, K), NEW m \in Message,
           m = NoMessage \/ Parent(m) \in K \cup Told(q)
    PROVE  InOrder(Append(q, m), K)
<1> DEFINE r == Append(q, m)
<1>1. /\ Len(q) \in Nat /\ DOMAIN q = 1..Len(q) /\ DOMAIN r = 1..(Len(q) + 1)
      /\ r[Len(q) + 1] = m /\ \A i \in 1..Len(q) : r[i] = q[i]
  OBVIOUS
<1>2. ASSUME NEW i \in DOMAIN r
      PROVE  \/ r[i] = NoMessage
             \/ Parent(r[i]) \in K
             \/ \E j \in 1..(i - 1) : r[j] = Parent(r[i])
  <2>1. CASE i \in DOMAIN q
    <3>1. r[i] = q[i] /\ \A j \in 1..(i - 1) : r[j] = q[j]
      BY <1>1, <2>1
    <3> HIDE DEF r
    <3> QED BY <2>1, <3>1 DEF InOrder
  <2>2. CASE i = Len(q) + 1
    <3>1. r[i] = m /\ i - 1 = Len(q) /\ \A j \in 1..Len(q) : r[j] = q[j]
      BY <1>1, <2>2
    <3>2. Parent(m) \in Told(q) => \E j \in 1..Len(q) : q[j] = Parent(m)
      BY <1>1 DEF Told
    <3> HIDE DEF r
    <3> QED BY <3>1, <3>2
  <2> QED BY <1>1, <1>2, <2>1, <2>2
<1> QED BY <1>2 DEF InOrder

LEMMA InOrderTail ==
    ASSUME NEW q \in Seq(Message), q # <<>>, NEW K, NEW L, K \subseteq L, InOrder(q, K),
           \A h \in Told(q) : Parent(h) \in Hash,
           Head(q) = NoMessage \/ Head(q) \in L
    PROVE  InOrder(Tail(q), L)
<1> DEFINE r == Tail(q)
<1>1. /\ Len(q) \in Nat \ {0} /\ DOMAIN q = 1..Len(q) /\ DOMAIN r = 1..(Len(q) - 1)
      /\ q[1] = Head(q) /\ \A i \in 1..(Len(q) - 1) : r[i] = q[i + 1]
  OBVIOUS
<1>2. ASSUME NEW i \in DOMAIN r, r[i] # NoMessage
      PROVE  \/ Parent(r[i]) \in L
             \/ \E j \in 1..(i - 1) : r[j] = Parent(r[i])
  <2>1. i + 1 \in DOMAIN q /\ r[i] = q[i + 1] /\ i \in Nat \ {0}
    BY <1>1
  <2>2. Parent(q[i + 1]) \in Hash
    BY <1>2, <2>1 DEF Told
  <2>3. Parent(q[i + 1]) \in K \/ \E j \in 1..i : q[j] = Parent(q[i + 1])
    BY <1>2, <2>1 DEF InOrder
  <2>4. CASE Parent(q[i + 1]) \in K
    BY <2>1, <2>4
  <2>5. ASSUME NEW j \in 1..i, q[j] = Parent(q[i + 1])
        PROVE  \/ Parent(r[i]) \in L
               \/ \E k \in 1..(i - 1) : r[k] = Parent(r[i])
    <3>1. CASE j = 1
      BY <1>1, <2>1, <2>2, <2>5, <3>1, NetworkAssumption
    <3>2. CASE j # 1
      <4>1. j - 1 \in 1..(i - 1) /\ r[j - 1] = q[j]
        BY <1>1, <2>1, <3>2
      <4> HIDE DEF r
      <4> QED BY <2>1, <2>5, <4>1
    <3> QED BY <3>1, <3>2
  <2> QED BY <2>3, <2>4, <2>5
<1> QED BY <1>2 DEF InOrder

\* A block put before what is in an inbox.
LEMMA PutBefore ==
    ASSUME NEW q \in Seq(Message), NEW h \in Message
    PROVE  LET r == <<h>> \o q
           IN  /\ r \in Seq(Message) /\ r # <<>> /\ Head(r) = h /\ Tail(r) = q
               /\ \A m \in Message : <<h>> \o Append(q, m) = Append(r, m)
               /\ q # <<>> => <<Head(q)>> \o Tail(q) = q
<1> DEFINE r == <<h>> \o q
<1>1. <<h>> \in Seq(Message) /\ Len(<<h>>) = 1
  OBVIOUS
<1>2. r \in Seq(Message) /\ Len(r) = 1 + Len(q) /\ r[1] = h
      /\ \A i \in 1..Len(q) : r[i + 1] = q[i]
  BY <1>1
<1>3. r # <<>> /\ Head(r) = h /\ Tail(r) = q
  BY <1>2
<1>4. ASSUME NEW m \in Message PROVE <<h>> \o Append(q, m) = Append(r, m)
  BY <1>1
<1>5. q # <<>> => <<Head(q)>> \o Tail(q) = q
  OBVIOUS
<1> QED BY <1>2, <1>3, <1>4, <1>5

\* What the servers do to an inbox: they tell no blocks, and read none.
Relays(q, r) ==
    \/ r = q
    \/ r = <<>>
    \/ r = Append(q, NoMessage)
    \/ q # <<>> /\ Head(q) = NoMessage /\ r = Tail(q)

LEMMA ServingRelays ==
    ASSUME ServerInv, Serving, NEW f \in End
    PROVE  Relays(inbox[f], inbox'[f])
<1>0. inbox \in [End -> Seq(Message)]
  BY DEF ServerInv, ServerTypes
<1>1. ASSUME NEW e \in End, Handle(e) PROVE Relays(inbox[f], inbox'[f])
  <2>1. CASE Accept(e)
    BY <1>0, <2>1 DEF Accept, Relays
  <2>2. CASE AddPeer(e) \/ ReadFails(e)
    BY <2>2 DEF AddPeer, ReadFails, Relays
  <2>3. CASE Greet(e)
    BY <2>3 DEF Greet, Sent, Relays
  <2>4. CASE ReadHello(e)
    BY <1>0, <2>4 DEF ReadHello, CanRead, Relays
  <2>5. CASE RemovePeer(e)
    BY <1>0, <2>5 DEF RemovePeer, Relays
  <2> QED BY <1>1, <2>1, <2>2, <2>3, <2>4, <2>5 DEF Handle
<1>2. ASSUME NEW n \in Node, Stop(n) \/ Closing(n) PROVE inbox' = inbox
  BY <1>2 DEF Stop, Closing, CloseListener, CloseConns, connVars
<1>3. ASSUME NEW b \in Bootnodes, Dialling(b) PROVE inbox' = inbox
  BY <1>3 DEF Dialling, Dial, DialFails, NextDial, connVars
<1>4. ASSUME NEW c \in Conn, Break(c) PROVE Relays(inbox[f], inbox'[f])
  BY <1>0, <1>4 DEF Break, Relays
<1> QED BY <1>1, <1>2, <1>3, <1>4 DEF Serving, Relays

LEMMA RelayedTold ==
    ASSUME NEW q \in Seq(Message), NEW r, Relays(q, r)
    PROVE  Told(r) \subseteq Told(q)
<1>1. Told(<<>>) = {}
  BY DEF Told
<1>2. Told(Append(q, NoMessage)) = Told(q)
  <2>1. NoMessage \in Message
    BY DEF Message
  <2>2. Told(Append(q, NoMessage)) = Told(q) \cup ({NoMessage} \ {NoMessage})
    BY <2>1, ToldFacts
  <2>3. {NoMessage} \ {NoMessage} = {}
    OBVIOUS
  <2> QED BY <2>2, <2>3
<1>3. ASSUME q # <<>> PROVE Told(Tail(q)) \subseteq Told(q)
  BY <1>3, ToldFacts
<1> QED BY <1>1, <1>2, <1>3 DEF Relays

\* Only an end in use has an inbox with anything in it.
LEMMA TellingInUse ==
    ASSUME ServerInv, NEW e \in End, inbox[e] # <<>> \/ Told(inbox[e]) # {}
    PROVE  InUse(e[1]) /\ Live(e)
<1>1. inbox[e] # <<>>
  BY DEF Told
<1> QED BY <1>1 DEF ServerInv, EndInv, Live

-----------------------------------------------------------------------------
\* A broadcast goes to the other ends of the open connections that are listed.
LEMMA BroadcastFacts ==
    ASSUME ServerInv, NEW n \in Node, NEW msg, NEW e \in End
    PROVE  LET q == Broadcast(n, msg)[e]
           IN  /\ \/ q = inbox[e]
                  \/ /\ q = Append(inbox[e], msg)
                     /\ InUse(e[1]) /\ RemoteOf(e) = n
                     /\ e \in open /\ Other(e) \in open
                     /\ handler[Other(e)] \in {"greet", "read", "remove"}
               /\ /\ InUse(e[1]) /\ RemoteOf(e) = n /\ e \in open /\ Other(e) \in open
                  /\ handler[Other(e)] \in {"greet", "read", "remove"}
                  => q = Append(inbox[e], msg)
<1> DEFINE f == Other(e)
           listed == {p.end : p \in peers[n]}
<1>1. f \in End /\ f[1] = e[1] /\ NodeOf(f) = RemoteOf(e)
  BY EndFacts DEF RemoteOf
<1>2. Broadcast(n, msg)[e] =
        IF f \in listed \cap open /\ e \in open THEN Append(inbox[e], msg) ELSE inbox[e]
  BY DEF Broadcast, Sent
<1>3. ASSUME f \in listed, f \in open
      PROVE  InUse(e[1]) /\ RemoteOf(e) = n /\ handler[f] \in {"greet", "read", "remove"}
  <2>1. PICK p \in peers[n] : p.end = f
    BY <1>3
  <2>2. EntryInv(n, p)
    BY DEF ServerInv
  <2>3. handler[f] # "ended"
    BY <1>1, <1>3 DEF ServerInv, EndInv
  <2> QED BY <1>1, <2>1, <2>2, <2>3 DEF EntryInv
<1>4. ASSUME RemoteOf(e) = n, handler[f] \in {"greet", "read", "remove"} PROVE f \in listed
  BY <1>1, <1>4 DEF ServerInv, ServedPeersListed
<1> HIDE DEF f, listed
<1>5. \/ Broadcast(n, msg)[e] = inbox[e]
      \/ /\ Broadcast(n, msg)[e] = Append(inbox[e], msg)
         /\ InUse(e[1]) /\ RemoteOf(e) = n
         /\ e \in open /\ f \in open
         /\ handler[f] \in {"greet", "read", "remove"}
  BY <1>2, <1>3
<1>6. /\ InUse(e[1]) /\ RemoteOf(e) = n /\ e \in open /\ f \in open
      /\ handler[f] \in {"greet", "read", "remove"}
      => Broadcast(n, msg)[e] = Append(inbox[e], msg)
  BY <1>2, <1>4
<1> QED BY <1>5, <1>6 DEF f

LEMMA AnnouncedInit == NetworkInit => AnnouncedInv
<1> SUFFICES ASSUME NetworkInit PROVE AnnouncedInv
  OBVIOUS
<1>1. \A p \in Caller : pc[p] = "idle"
  BY DEF NetworkInit
<1>2. \A e \in End : Told(inbox[e]) = {}
  BY DEF NetworkInit, ServerInit, Told
<1> QED BY <1>1, <1>2, CallerFacts DEF AnnouncedInv, Taken

LEMMA AnnouncedNext ==
    ASSUME ServerInv, StoresInv, AnnouncedInv, [NetworkNext]_networkVars
    PROVE  AnnouncedInv'
<1>0. \A n \in Node : Held(n) \subseteq Held(n)'
  BY StoresNext DEF Extends, Held
<1> DEFINE Above(n) == pc[Run(n)] # "idle" => Header[arg[Run(n)]].height > 0
<1>1. /\ pc \in [Caller -> Places] /\ arg \in [Caller -> Hash \cup {ZeroHash}]
      /\ inbox \in [End -> Seq(Message)]
      /\ \A n \in Node : Run(n) \in Caller /\ \A e \in End : e # Run(n)
      /\ \A e \in End : e \in Caller
  BY CallerFacts DEF ServerInv, NodeTypes, ServerTypes
<1>2. ASSUME NEW e \in End, NEW h \in Told(inbox[e]) \cup Taken(e)
      PROVE  h \in Held(RemoteOf(e))' /\ Announceable(h)
  <2>1. InUse(e[1])
    BY <1>1, <1>2, TellingInUse, HostFacts DEF Taken
  <2>2. RemoteOf(e)' = RemoteOf(e) /\ RemoteOf(e) \in Node
    BY <2>1, LinkKept, NodeOfType DEF ServerInv
  <2>3. h \in Held(RemoteOf(e)) /\ Announceable(h)
    BY <1>2 DEF AnnouncedInv
  <2>4. Held(RemoteOf(e)) \subseteq Held(RemoteOf(e))'
    BY <1>0, <2>2 DEF Held
  <2> QED BY <2>3, <2>4
<1>3. ASSUME \A e \in End : Told(inbox'[e]) \cup Taken(e)' \subseteq Told(inbox[e]) \cup Taken(e),
             \A n \in Node : Above(n)'
      PROVE  AnnouncedInv'
  <2>1. \A e \in End : \A h \in Told(inbox'[e]) \cup Taken(e)' :
          h \in Held(RemoteOf(e))' /\ Announceable(h)
    BY <1>2, <1>3
  <2> QED BY <1>3, <2>1 DEF AnnouncedInv, Told, Announceable, Run
<1>4. ASSUME UNCHANGED <<pc, arg>> PROVE \A n \in Node : Above(n)'
  BY <1>4 DEF AnnouncedInv, Run
<1>5. CASE ServerStep(Serving)
  <2>1. ASSUME NEW e \in End PROVE Told(inbox'[e]) \subseteq Told(inbox[e])
    BY <1>1, <1>5, ServingRelays, RelayedTold DEF ServerStep
  <2>2. UNCHANGED <<pc, arg>>
    BY <1>5 DEF ServerStep, nodeVars, callVars
  <2> QED BY <1>3, <1>4, <2>1, <2>2 DEF Taken
<1>6. ASSUME NEW m \in Node, Seal(m) PROVE AnnouncedInv'
  <2>1. PICK h \in Hash : /\ pc' = [pc EXCEPT ![Run(m)] = "validate"]
                          /\ arg' = [arg EXCEPT ![Run(m)] = h]
                          /\ inbox' = inbox
                          /\ Header[h].height \in 1..mines[m]
    BY <1>6 DEF Seal, Begin, serverVars, connVars
  <2>2. Header[h].height > 0
    BY <2>1
  <2>3. \A e \in End : Taken(e)' = Taken(e)
    BY <1>1, <2>1 DEF Taken
  <2>4. ASSUME NEW n \in Node PROVE Above(n)'
    <3>1. n # m => Run(n) # Run(m)
      BY DEF Run
    <3> QED BY <1>1, <2>1, <2>2, <3>1 DEF AnnouncedInv, Run
  <2> QED BY <1>3, <2>1, <2>3, <2>4
<1>7. ASSUME NEW m \in Node, Announce(m) PROVE AnnouncedInv'
  <2> DEFINE h == arg[Run(m)]
  <2>1. /\ pc[Run(m)] = "announce" /\ inbox' = Broadcast(m, h)
        /\ pc' = [pc EXCEPT ![Run(m)] = "idle"]
        /\ arg' = [arg EXCEPT ![Run(m)] = ZeroHash]
        /\ chain' = chain
    BY <1>7 DEF Announce, Return
  <2>2. h \in Held(m) /\ Announceable(h) /\ h \in Message
    <3>1. CallInv(Run(m)) /\ HostOf(Run(m)) = m /\ Header[h].height > 0 /\ h \in Hash
      BY <1>1, <2>1, CallerFacts, HostFacts DEF StoresInv, AnnouncedInv
    <3> QED BY <2>1, <3>1 DEF CallInv, Validated, Comparing, Announceable, Held, Store, Message
  <2>3. ASSUME NEW n \in Node PROVE Above(n)'
    <3>1. n # m => Run(n) # Run(m)
      BY DEF Run
    <3> QED BY <1>1, <2>1, <3>1 DEF AnnouncedInv, Run
  <2>4. \A e \in End : Taken(e)' = Taken(e)
    BY <1>1, <2>1 DEF Taken
  <2>5. ASSUME NEW e \in End, NEW b \in Told(inbox'[e]) \cup Taken(e)'
        PROVE  b \in Held(RemoteOf(e))' /\ Announceable(b)
    <3>1. CASE b \in Told(inbox[e]) \cup Taken(e)
      BY <1>2, <3>1
    <3>2. CASE b \notin Told(inbox[e]) \cup Taken(e)
      <4>1. /\ inbox'[e] = Append(inbox[e], h)
            /\ InUse(e[1]) /\ RemoteOf(e) = m
        BY <2>1, <2>4, <2>5, <3>2, BroadcastFacts
      <4>2. b = h
        BY <1>1, <2>2, <2>4, <2>5, <3>2, <4>1, ToldFacts
      <4>3. RemoteOf(e)' = m
        BY <4>1, LinkKept
      <4>4. h \in Held(m)'
        BY <1>0, <2>2
      <4>5. Held(RemoteOf(e))' = Held(m)'
        BY <4>3 DEF Held
      <4> QED BY <2>2, <4>2, <4>4, <4>5
    <3> QED BY <3>1, <3>2
  <2> QED BY <2>3, <2>5 DEF AnnouncedInv, Told, Announceable, Run
<1>8. ASSUME NEW e \in End, ReadNewBlock(e) PROVE AnnouncedInv'
  <2>1. /\ inbox[e] # <<>> /\ Head(inbox[e]) # NoMessage /\ pc[e] = "idle"
        /\ inbox' = [inbox EXCEPT ![e] = Tail(@)]
        /\ \/ UNCHANGED <<pc, arg>>
           \/ /\ pc' = [pc EXCEPT ![e] = "validate"]
              /\ arg' = [arg EXCEPT ![e] = Head(inbox[e])]
    BY <1>8 DEF ReadNewBlock, CanRead, Begin, callVars
  <2>2. Told(inbox[e]) = Told(Tail(inbox[e])) \cup ({Head(inbox[e])} \ {NoMessage})
    BY <1>1, <2>1, ToldFacts
  <2>3. ASSUME NEW f \in End
        PROVE  Told(inbox'[f]) \cup Taken(f)' \subseteq Told(inbox[f]) \cup Taken(f)
    <3>1. CASE f = e
      BY <1>1, <2>1, <2>2, <3>1 DEF Taken
    <3>2. CASE f # e
      BY <1>1, <2>1, <3>2 DEF Taken
    <3> QED BY <3>1, <3>2
  <2>4. ASSUME NEW n \in Node PROVE Above(n)'
    BY <1>1, <2>1 DEF AnnouncedInv, Run
  <2> QED BY <1>3, <2>3, <2>4
<1>9. ASSUME NEW p \in Caller, InsertStep(p) PROVE AnnouncedInv'
  <2>1. /\ inbox' = inbox /\ \A q \in Caller : q # p => pc'[q] = pc[q] /\ arg'[q] = arg[q]
        /\ pc[p] # "idle" /\ (pc'[p] = "idle" \/ arg'[p] = arg[p])
    <3>1. NodeTypes
      BY DEF ServerInv
    <3> QED BY <1>1, <1>9, <3>1, InsertStepOwn, InsertStepMoves DEF InsertStep, Continue, Return
  <2>2. \A e \in End : Taken(e)' \subseteq Taken(e)
    BY <1>1, <2>1 DEF Taken
  <2>3. ASSUME NEW n \in Node PROVE Above(n)'
    <3>1. Run(n) \in Caller /\ Above(n)
      BY <1>1 DEF AnnouncedInv
    <3> QED BY <2>1, <3>1 DEF Run
  <2> QED BY <1>3, <2>1, <2>2, <2>3
<1>10. CASE UNCHANGED networkVars
  BY <1>3, <1>4, <1>10 DEF networkVars, serverVars, connVars, nodeVars, callVars, Taken
<1> QED BY <1>5, <1>6, <1>7, <1>8, <1>9, <1>10, NextSplit

-----------------------------------------------------------------------------
\* A node that was told to stop stays stopped.
LEMMA StoppedStays ==
    ASSUME ServerInv, [NetworkNext]_networkVars, AllRunning'
    PROVE  AllRunning /\ ~\E n \in Node : Stop(n) \/ Closing(n)
<1>0. ctx \in [Node -> {"running", "done", "unlistened", "closed"}]
  BY DEF ServerInv, ServerTypes
<1>1. ASSUME NEW n \in Node, Stop(n) \/ Closing(n) PROVE FALSE
  BY <1>0, <1>1 DEF Stop, Closing, CloseListener, CloseConns, AllRunning
<1>2. ASSUME Serving PROVE ctx' = ctx
  <2>1. ASSUME NEW b \in Bootnodes, Dialling(b) PROVE ctx' = ctx
    BY <2>1 DEF Dialling, Dial, DialFails, NextDial
  <2>2. ASSUME NEW f \in End, Handle(f) PROVE ctx' = ctx
    BY <2>2 DEF Handle, Accept, AddPeer, Greet, ReadHello, ReadFails, RemovePeer
  <2>3. ASSUME NEW c \in Conn, Break(c) PROVE ctx' = ctx
    BY <2>3 DEF Break
  <2> QED BY <1>1, <1>2, <2>1, <2>2, <2>3 DEF Serving
<1>3. ASSUME NEW n \in Node, Seal(n) \/ Announce(n) PROVE ctx' = ctx
  BY <1>3 DEF Seal, Announce, serverVars
<1>4. ASSUME NEW e \in End, ReadNewBlock(e) PROVE ctx' = ctx
  BY <1>4 DEF ReadNewBlock
<1>5. ASSUME NEW p \in Caller, InsertStep(p) PROVE ctx' = ctx
  BY <1>5 DEF InsertStep
<1>6. ASSUME UNCHANGED networkVars PROVE ctx' = ctx
  BY <1>6 DEF networkVars, serverVars
<1> QED BY <1>1, <1>2, <1>3, <1>4, <1>5, <1>6, NextSplit DEF ServerStep, AllRunning

\* Steps that open and close nothing.
LEMMA IntactKept ==
    ASSUME ServerInv, \A e \in End : Intact(e), open' = open,
           \A f \in End :
             /\ handler'[f] = "remove" => handler[f] = "remove" \/ f \notin open
             /\ handler'[f] \in {"accept", "add"} => handler[f] \in {"accept", "add"}
             /\ \/ inbox'[f] = inbox[f]
                \/ inbox[f] # <<>>
                \/ inbox'[f] = <<>>
                \/ f \in open /\ handler[Other(f)] \notin {"accept", "add"}
             /\ f \notin open => inbox'[f] = inbox[f]
             /\ pc'[f] # "idle" => pc[f] # "idle" \/ inbox[f] # <<>>
    PROVE  \A e \in End : Intact(e)'
<1> SUFFICES ASSUME NEW e \in End PROVE Intact(e)'
  OBVIOUS
<1> DEFINE f == Other(e)
<1>1. f \in End
  BY EndFacts
<1>2. Intact(e) /\ Intact(f)
  BY <1>1
<1>3. inbox'[e] # <<>> \/ pc'[e] # "idle" => handler[f] \notin {"accept", "add"}
  BY <1>2 DEF Intact
<1>4. inbox'[e] # <<>> \/ pc'[e] # "idle" => handler'[f] \notin {"accept", "add"}
  BY <1>1, <1>3
<1> QED BY <1>2, <1>4 DEF Intact

LEMMA IntactHandle ==
    ASSUME ServerInv, \A f \in End : Intact(f), OneNetwork, AllRunning,
           NEW e \in End, Handle(e), pc' = pc
    PROVE  \A f \in End : Intact(f)'
<1>0. /\ handler \in [End -> {"none", "accept", "add", "greet", "read", "remove", "ended"}]
      /\ inbox \in [End -> Seq(Message)]
      /\ network \in [Node -> NetworkID]
  BY DEF ServerInv, ServerTypes
<1>1. ASSUME handler[e] # "none" PROVE NodeOf(e) \in Node /\ RemoteOf(e) \in Node
  BY <1>1, NodeOfType DEF ServerInv, EndInv
<1>2. CASE Accept(e)
  <2>1. Listening(NodeOf(e))
    BY <1>1, <1>2 DEF Accept, Listening, AllRunning
  <2>2. handler' = [handler EXCEPT ![e] = "add"] /\ UNCHANGED <<open, inbox>>
        /\ handler[e] = "accept"
    BY <1>2, <2>1 DEF Accept, Goto
  <2> QED BY <1>0, <2>2, IntactKept
<1>3. CASE AddPeer(e)
  <2>1. handler' = [handler EXCEPT ![e] = "greet"] /\ UNCHANGED <<open, inbox>>
    BY <1>3 DEF AddPeer, Goto
  <2> QED BY <1>0, <2>1, IntactKept
<1>4. CASE Greet(e)
  <2>1. handler' = [handler EXCEPT ![e] = "read"] /\ open' = open /\ handler[e] = "greet"
        /\ inbox' = Sent({e}, NoMessage)
    BY <1>4 DEF Greet, Goto
  <2>2. \A f \in End : inbox'[f] = inbox[f] \/ (f \in open /\ Other(f) = e)
    BY <2>1 DEF Sent
  <2>3. \A f \in End : handler'[f] \in {handler[f], "read"}
    BY <1>0, <2>1
  <2>4. \A f \in End : inbox'[f] = inbox[f]
                       \/ (f \in open /\ handler[Other(f)] \notin {"accept", "add"})
    BY <2>1, <2>2
  <2>5. \A f \in End : f \notin open => inbox'[f] = inbox[f]
    BY <2>2
  <2> QED BY <2>1, <2>3, <2>4, <2>5, IntactKept
<1>5. CASE ReadHello(e)
  <2>1. CanRead(e) /\ inbox' = [inbox EXCEPT ![e] = Tail(@)] /\ ReadOn(e)
    BY <1>5 DEF ReadHello
  <2>2. NodeOf(e) \in Node /\ RemoteOf(e) \in Node
    BY <1>1, <2>1 DEF CanRead
  <2>3. open' = open
    BY <1>0, <1>5, <2>2 DEF ReadHello, OneNetwork
  <2>4. handler' = [handler EXCEPT ![e] = "read"]
    BY <2>1, <2>2 DEF ReadOn, Goto, Done, AllRunning
  <2> QED BY <1>0, <2>1, <2>3, <2>4, IntactKept DEF CanRead
<1>6. CASE ReadFails(e)
  <2>1. handler' = [handler EXCEPT ![e] = "remove"] /\ UNCHANGED <<open, inbox>>
        /\ (e \notin open \/ Other(e) \notin open)
    BY <1>6 DEF ReadFails, Goto
  <2>2. e \notin open
    BY <2>1 DEF Intact
  <2> QED BY <1>0, <2>1, <2>2, IntactKept
<1>7. CASE RemovePeer(e)
  <2>1. handler[e] = "remove" /\ handler' = [handler EXCEPT ![e] = "ended"]
        /\ open' = open \ {e} /\ inbox' = [inbox EXCEPT ![e] = <<>>]
    BY <1>7 DEF RemovePeer, Goto
  <2>2. e \notin open /\ inbox[e] = <<>>
    BY <2>1 DEF Intact
  <2>3. open' = open
    BY <2>1, <2>2
  <2>4. \A f \in End : inbox'[f] = inbox[f]
    BY <1>0, <2>1, <2>2
  <2>5. \A f \in End : handler'[f] \in {handler[f], "ended"}
    BY <1>0, <2>1
  <2> QED BY <2>3, <2>4, <2>5, IntactKept
<1> QED BY <1>2, <1>3, <1>4, <1>5, <1>6, <1>7 DEF Handle

LEMMA IntactDial ==
    ASSUME ServerInv, \A f \in End : Intact(f), NEW b \in Bootnodes, Dial(b), pc' = pc
    PROVE  \A f \in End : Intact(f)'
<1>1. PICK c \in Conn :
        /\ ~InUse(c)
        /\ handler' = [handler EXCEPT ![<<c, "out">>] = "add", ![<<c, "in">>] = "accept"]
        /\ open' = open \cup {<<c, "out">>, <<c, "in">>}
        /\ inbox' = inbox
  BY DEF Dial
<1> SUFFICES ASSUME NEW e \in End PROVE Intact(e)'
  OBVIOUS
<1>2. CASE e[1] = c
  <2>0. \A f \in End : f[1] = c => f = <<c, "out">> \/ f = <<c, "in">>
    BY EndFacts
  <2>1. e \in open' /\ Other(e) \in open'
    <3>1. Other(e) \in End /\ Other(e)[1] = c
      BY <1>2, EndFacts
    <3> QED BY <1>1, <1>2, <2>0, <3>1
  <2>2. handler'[e] \in {"add", "accept"}
    BY <1>1, <1>2, <2>0 DEF End, ServerInv, ServerTypes
  <2>3. inbox'[e] = <<>> /\ pc'[e] = "idle"
    BY <1>1, <1>2 DEF ServerInv, EndInv, NodeTypes
  <2> QED BY <2>1, <2>2, <2>3 DEF Intact
<1>3. CASE e[1] # c
  <2>1. Other(e) \in End /\ Other(e)[1] # c
    BY <1>3, EndFacts
  <2>2. \A f \in End : f[1] # c => handler'[f] = handler[f] /\ (f \in open' <=> f \in open)
    BY <1>1 DEF ServerInv, ServerTypes
  <2>3. Intact(e)
    OBVIOUS
  <2> QED BY <1>1, <1>3, <2>1, <2>2, <2>3 DEF Intact
<1> QED BY <1>2, <1>3

LEMMA IntactBreak ==
    ASSUME ServerInv, \A f \in End : Intact(f), NEW c \in Conn, Break(c), pc' = pc
    PROVE  \A f \in End : Intact(f)'
<1>1. /\ open' = open \ {<<c, "out">>, <<c, "in">>}
      /\ inbox' = [inbox EXCEPT ![<<c, "out">>] = <<>>, ![<<c, "in">>] = <<>>]
      /\ handler' = handler
  BY DEF Break
<1> SUFFICES ASSUME NEW e \in End PROVE Intact(e)'
  OBVIOUS
<1>2. CASE e[1] = c
  <2>0. \A f \in End : f[1] = c => f = <<c, "out">> \/ f = <<c, "in">>
    BY EndFacts
  <2>1. e \notin open' /\ Other(e) \notin open'
    <3>1. Other(e) \in End /\ Other(e)[1] = c
      BY <1>2, EndFacts
    <3> QED BY <1>1, <1>2, <2>0, <3>1
  <2>2. inbox'[e] = <<>>
    BY <1>1, <1>2, <2>0 DEF End, ServerInv, ServerTypes
  <2> QED BY <1>1, <2>1, <2>2 DEF Intact
<1>3. CASE e[1] # c
  <2>1. Other(e) \in End /\ Other(e)[1] # c
    BY <1>3, EndFacts
  <2>2. \A f \in End : f[1] # c => inbox'[f] = inbox[f] /\ (f \in open' <=> f \in open)
    BY <1>1 DEF ServerInv, ServerTypes
  <2>3. Intact(e)
    OBVIOUS
  <2> QED BY <1>1, <1>3, <2>1, <2>2, <2>3 DEF Intact
<1> QED BY <1>2, <1>3

LEMMA IntactNext ==
    ASSUME ServerInv, AllRunning => \A e \in End : Intact(e), OneNetwork,
           [NetworkNext]_networkVars, AllRunning'
    PROVE  \A e \in End : Intact(e)'
<1>1. /\ AllRunning /\ ~\E n \in Node : Stop(n) \/ Closing(n)
      /\ \A e \in End : Intact(e)
  BY StoppedStays
<1>2. CASE ServerStep(Serving)
  <2>0. pc' = pc
    BY <1>2 DEF ServerStep, nodeVars, callVars
  <2>1. ASSUME NEW b \in Bootnodes, Dialling(b) PROVE \A e \in End : Intact(e)'
    <3>1. CASE Dial(b)
      BY <1>1, <2>0, <3>1, IntactDial
    <3>2. CASE DialFails(b) \/ NextDial(b)
      <4>1. UNCHANGED <<handler, open, inbox>>
        BY <3>2 DEF DialFails, NextDial, connVars
      <4> QED BY <1>1, <2>0, <4>1, IntactKept
    <3> QED BY <2>1, <3>1, <3>2 DEF Dialling
  <2>2. ASSUME NEW e \in End, Handle(e) PROVE \A f \in End : Intact(f)'
    BY <1>1, <2>0, <2>2, IntactHandle
  <2>3. ASSUME NEW c \in Conn, Break(c) PROVE \A f \in End : Intact(f)'
    BY <1>1, <2>0, <2>3, IntactBreak
  <2> QED BY <1>1, <1>2, <2>1, <2>2, <2>3 DEF ServerStep, Serving
<1>3. ASSUME NEW n \in Node, Seal(n) \/ Announce(n) PROVE \A e \in End : Intact(e)'
  <2>1. UNCHANGED <<handler, open>>
    BY <1>3 DEF Seal, Announce, Return, Run, serverVars, connVars
  <2>2. \A f \in End : \/ inbox'[f] = inbox[f]
                       \/ f \in open /\ handler[Other(f)] \in {"greet", "read", "remove"}
    BY <1>3, BroadcastFacts DEF Seal, Announce, serverVars, connVars
  <2>3. \A f \in End : pc'[f] = pc[f]
    BY <1>3, CallerFacts DEF Seal, Announce, Begin, Return, ServerInv, NodeTypes
  <2> QED BY <1>1, <2>1, <2>2, <2>3, IntactKept
<1>4. ASSUME NEW e \in End, ReadNewBlock(e) PROVE \A f \in End : Intact(f)'
  <2>1. CanRead(e) /\ inbox' = [inbox EXCEPT ![e] = Tail(@)] /\ open' = open
        /\ (handler' = handler \/ ReadOn(e))
    BY <1>4 DEF ReadNewBlock
  <2>2. NodeOf(e) \in Node
    BY <2>1, TellingInUse, NodeOfType DEF CanRead, ServerInv
  <2>3. handler' = handler \/ handler' = [handler EXCEPT ![e] = "read"]
    BY <1>1, <2>1, <2>2 DEF ReadOn, Goto, Done, AllRunning
  <2>4. ASSUME NEW f \in End
        PROVE  /\ handler'[f] \in {handler[f], "read"}
               /\ inbox'[f] = inbox[f] \/ (inbox[f] # <<>> /\ f \in open)
    BY <2>1, <2>3 DEF CanRead, ServerInv, ServerTypes
  <2>5. \A f \in End : pc'[f] # "idle" => pc[f] # "idle" \/ inbox[f] # <<>>
    <3>1. inbox[e] # <<>>
      BY <2>1 DEF CanRead
    <3>2. \A f \in End : f # e => pc'[f] = pc[f]
      BY <1>4, CallerFacts DEF ReadNewBlock, Begin, callVars, ServerInv, NodeTypes
    <3> QED BY <3>1, <3>2
  <2> QED BY <1>1, <2>1, <2>4, <2>5, IntactKept
<1>5. ASSUME NEW p \in Caller, InsertStep(p) PROVE \A f \in End : Intact(f)'
  <2>0. NodeTypes
    BY DEF ServerInv
  <2>1. UNCHANGED <<open, inbox>> /\ pc[p] # "idle"
    BY <1>5, <2>0, InsertStepMoves DEF InsertStep
  <2>2. handler' = handler \/ (p \in End /\ handler' = [handler EXCEPT ![p] = "read"])
    <3>1. CASE Return(p) /\ p[2] # "run"
      <4>1. p \in End /\ NodeOf(p) \in Node
        BY <2>1, <3>1, CallerFacts, HostFacts
      <4> QED BY <1>1, <3>1, <4>1 DEF Return, ReadOn, Goto, Done, AllRunning
    <3>2. CASE Return(p) /\ p[2] = "run"
      BY <3>2 DEF Return
    <3>3. ASSUME NEW l, Continue(p, l) PROVE handler' = handler
      BY <3>3 DEF Continue
    <3> QED BY <1>5, <2>0, <3>1, <3>2, <3>3, InsertStepMoves
  <2>3. \A f \in End : handler'[f] \in {handler[f], "read"}
    BY <2>2 DEF ServerInv, ServerTypes
  <2>4. \A f \in End : pc'[f] # "idle" => pc[f] # "idle"
    BY <1>5, <2>1, InsertStepOwn, CallerFacts
  <2> QED BY <1>1, <2>1, <2>3, <2>4, IntactKept
<1>6. CASE UNCHANGED networkVars
  <2>1. UNCHANGED <<handler, open, inbox, pc>>
    BY <1>6 DEF networkVars, serverVars, connVars, nodeVars, callVars
  <2> QED BY <1>1, <2>1, IntactKept
<1> QED BY <1>2, <1>3, <1>4, <1>5, <1>6, NextSplit

LEMMA UndisturbedBefore ==
    ASSUME ServerInv, StoresInv, [NetworkNext]_networkVars, Undisturbed'
    PROVE  Undisturbed /\ AllRunning
<1>1. AllRunning
  BY StoppedStays DEF Undisturbed
<1>2. SameGenesis
  <2>1. \A m, n \in Node : chain'[m].genesisHash = chain'[n].genesisHash
    BY DEF Undisturbed, SameGenesis
  <2> QED BY <2>1, StoresNext DEF SameGenesis
<1>3. lossless
  <2>1. lossless'
    BY DEF Undisturbed
  <2>2. ASSUME ServerStep(Serving) PROVE lossless
    BY <2>1, <2>2, Zenon DEF ServerStep
  <2>3. ASSUME NEW n \in Node, Seal(n) PROVE lossless
    BY <2>1, <2>3 DEF Seal
  <2>4. ASSUME NEW n \in Node, Announce(n) PROVE lossless
    BY <2>1, <2>4, Zenon DEF Announce
  <2>5. ASSUME NEW e \in End, ReadNewBlock(e) PROVE lossless
    BY <2>1, <2>5 DEF ReadNewBlock
  <2>6. ASSUME NEW p \in Caller, InsertStep(p) PROVE lossless
    BY <2>1, <2>6 DEF InsertStep
  <2>7. ASSUME UNCHANGED networkVars PROVE lossless
    BY <2>1, <2>7 DEF networkVars
  <2> QED BY <2>2, <2>3, <2>4, <2>5, <2>6, <2>7, NextSplit
<1> QED BY <1>1, <1>2, <1>3 DEF Undisturbed

\* A block that is announced is held with its parent where it comes from.
LEMMA HeldWithParent ==
    ASSUME StoresInv, NEW n \in Node, NEW h \in Held(n), Announceable(h)
    PROVE  /\ h \in Hash /\ Parent(h) \in Hash /\ Parent(h) \in Held(n)
           /\ ValidAlone(Header[h]) /\ ValidParent(chain[n], Header[h])
<1>1. Consistent(chain[n])
  BY DEF StoresInv, StoreInv, Sound
<1>2. h \in Hash /\ Held(n) \subseteq Hash
  BY <1>1 DEF Held, Consistent, IsStore
<1>3. ValidAlone(Header[h]) /\ ValidParent(chain[n], Header[h])
  BY <1>1 DEF Held, Consistent, ChainRules
<1>4. Parent(h) \in Held(n)
  BY <1>2, <1>3, HeaderType DEF Announceable, ValidParent, HasBlock, Parent, Held
<1> QED BY <1>2, <1>3, <1>4

LEMMA TellingFacts ==
    ASSUME ServerInv, StoresInv, AnnouncedInv, NEW e \in End,
           NEW h \in Told(inbox[e]) \cup Taken(e)
    PROVE  /\ InUse(e[1]) /\ RemoteOf(e) \in Node /\ h \in Held(RemoteOf(e))
           /\ Announceable(h) /\ h \in Hash /\ Parent(h) \in Hash
<1>1. InUse(e[1]) /\ RemoteOf(e) \in Node
  BY TellingInUse, NodeOfType, HostFacts, CallerFacts DEF ServerInv, Taken
<1>2. h \in Held(RemoteOf(e)) /\ Announceable(h)
  BY DEF AnnouncedInv
<1> QED BY <1>1, <1>2, HeldWithParent

LEMMA PendingFacts ==
    ASSUME ServerInv, NEW e \in End
    PROVE  /\ Pending(e) \in Seq(Message) /\ inbox[e] \in Seq(Message)
           /\ Told(Pending(e)) \subseteq Told(inbox[e]) \cup Taken(e)
           /\ pc[e] \in Early =>
                /\ arg[e] \in Message \ {NoMessage} /\ Pending(e) # <<>>
                /\ Head(Pending(e)) = arg[e] /\ Tail(Pending(e)) = inbox[e]
           /\ Pending(e) # <<>> => pc[e] # "idle" \/ inbox[e] # <<>>
<1>1. inbox[e] \in Seq(Message) /\ e \in Caller
  BY CallerFacts DEF ServerInv, ServerTypes
<1>2. CASE pc[e] \notin Early
  BY <1>1, <1>2 DEF Pending
<1>3. CASE pc[e] \in Early
  <2>1. pc[e] # "idle"
    BY <1>3 DEF Early
  <2>2. arg[e] \in Message \ {NoMessage} /\ Taken(e) = {arg[e]}
    BY <1>1, <2>1, NetworkAssumption DEF ServerInv, NodeTypes, Message, Taken
  <2>3. /\ Pending(e) \in Seq(Message) /\ Pending(e) # <<>>
        /\ Head(Pending(e)) = arg[e] /\ Tail(Pending(e)) = inbox[e]
    BY <1>1, <1>3, <2>2, PutBefore DEF Pending
  <2>4. Told(Pending(e)) = Told(inbox[e]) \cup ({arg[e]} \ {NoMessage})
    BY <2>3, ToldFacts
  <2> QED BY <1>1, <2>1, <2>2, <2>3, <2>4
<1> QED BY <1>2, <1>3

\* Every node accepts what another one has announced, once it has the parent.
LEMMA Accepted ==
    ASSUME StoresInv, NEW m \in Node, NEW n \in Node, NEW h \in Held(m), Announceable(h),
           Parent(h) \in Held(n)
    PROVE  ValidateHeader(chain[n], Header[h], MaxHeight)
<1>1. h \in Hash /\ ValidAlone(Header[h]) /\ ValidParent(chain[m], Header[h])
  BY HeldWithParent
<1>2. ValidParent(chain[n], Header[h])
  BY <1>1, HeaderType DEF ValidParent, Announceable, HasBlock, Parent, Held
<1> QED BY <1>1, <1>2 DEF ValidateHeader, Announceable

\* Two different nodes are at the two ends of every connection.
LEMMA EndsApart ==
    ASSUME ServerInv, TwoNodes, NEW e \in End, InUse(e[1]),
           NEW m \in Node, NEW n \in Node, m # n, RemoteOf(e) = n
    PROVE  e \in AtNode(m) /\ e \notin AtNode(n)
<1>1. NodeOf(e) \in Node
  BY NodeOfType DEF ServerInv
<1>2. NodeOf(e) # RemoteOf(e)
  <2>1. link[e[1]][1] \in Bootnodes
    BY EndFacts, LinkFacts DEF ServerInv
  <2> QED BY <2>1, BootnodeFacts, EndFacts DEF NodeOf, RemoteOf, Other
<1> QED BY <1>1, <1>2 DEF TwoNodes, AtNode

LEMMA AtNodeGrows ==
    ASSUME ServerInv, [NetworkNext]_networkVars, NEW n \in Node, NEW e \in End
    PROVE  /\ e \in AtNode(n) => e \in AtNode(n)'
           /\ e \in AtNode(n)' => e \in AtNode(n) \/ ~InUse(e[1])
  BY LinkKept DEF AtNode

\* What comes to a node comes to the ends it has already.
LEMMA ComingNext ==
    ASSUME ServerInv, StoresInv, AnnouncedInv, [NetworkNext]_networkVars, NEW n \in Node,
           \A e \in End : ~InUse(e[1]) => Told(Pending(e)') \subseteq Told(Pending(e))
    PROVE  /\ \A h \in Coming(n)' : \E e \in AtNode(n) : h \in Told(Pending(e)')
           /\ \A e \in AtNode(n) : e \in End /\ Told(Pending(e)') \subseteq Coming(n)'
           /\ \A e \in AtNode(n) : Told(Pending(e)) \subseteq Coming(n)
<1>1. Coming(n)' = UNION {Told(Pending(e)') : e \in AtNode(n)'}
  BY DEF Coming, Told
<1>2. AtNode(n)' \subseteq End /\ AtNode(n) \subseteq End
  BY DEF AtNode
<1>3. ASSUME NEW h \in Coming(n)' PROVE \E e \in AtNode(n) : h \in Told(Pending(e)')
  <2>1. PICK e \in AtNode(n)' : h \in Told(Pending(e)')
    BY <1>1
  <2>2. InUse(e[1])
    <3>1. ASSUME ~InUse(e[1]) PROVE FALSE
      <4>1. h \in Told(inbox[e]) \cup Taken(e)
        BY <1>2, <2>1, <3>1, PendingFacts
      <4> QED BY <1>2, <3>1, <4>1, TellingFacts
    <3> QED BY <3>1
  <2> QED BY <1>2, <2>1, <2>2, AtNodeGrows
<1> QED BY <1>1, <1>2, <1>3, AtNodeGrows DEF Coming

\* Steps that bring nothing new and take nothing in.
LEMMA SameCovered ==
    ASSUME ServerInv, StoresInv, AnnouncedInv, [NetworkNext]_networkVars,
           NEW n \in Node, Covered(n), Held(n) \subseteq Held(n)',
           \A e \in End : Told(Pending(e)') = Told(Pending(e)),
           \A e \in AtNode(n) : InOrder(Pending(e), Held(n)) => InOrder(Pending(e)', Held(n))
    PROVE  Covered(n)' /\ Coming(n)' = Coming(n)
<1>1. Coming(n)' = Coming(n)
  BY ComingNext DEF Coming
<1>2. CASE Coming(n) \subseteq Held(n)
  BY <1>1, <1>2 DEF Covered
<1>3. ASSUME NEW e \in AtNode(n), Carrier(n, e) PROVE Covered(n)'
  <2>1. e \in End /\ e \in AtNode(n)'
    BY AtNodeGrows DEF AtNode
  <2>2. InOrder(Pending(e)', Held(n)')
    BY <1>3, InOrderGrows DEF Carrier
  <2>3. Coming(n)' \subseteq Told(Pending(e)') \cup Held(n)'
    BY <1>1, <1>3, <2>1 DEF Carrier
  <2>4. Carrier(n, e)'
    BY <2>2, <2>3 DEF Carrier, InOrder, Told, Parent
  <2> QED BY <2>1, <2>4 DEF Covered
<1> QED BY <1>1, <1>2, <1>3 DEF Covered

\* The first block that has come to an end is done with.
LEMMA ArrivedCovered ==
    ASSUME ServerInv, StoresInv, AnnouncedInv, [NetworkNext]_networkVars,
           \A k \in Node : Covered(k), \A k \in Node : Held(k) \subseteq Held(k)',
           NEW n \in Node, NEW e \in End, e \in AtNode(n), NEW h \in Hash,
           Pending(e) # <<>>, Head(Pending(e)) = h, Pending(e)' = Tail(Pending(e)),
           \A f \in End : f # e => Pending(f)' = Pending(f),
           Parent(h) \in Held(n) => h \in Held(n)',
           NEW m \in Node
    PROVE  Covered(m)' /\ Held(m) \cup Coming(m) \subseteq Held(m)' \cup Coming(m)'
<1>1. /\ Pending(e) \in Seq(Message) /\ h # NoMessage
      /\ Told(Pending(e)) = Told(Pending(e)') \cup {h}
  <2>1. Pending(e) \in Seq(Message) /\ h # NoMessage
    BY PendingFacts, NetworkAssumption
  <2>2. Told(Pending(e)) = Told(Tail(Pending(e))) \cup ({h} \ {NoMessage})
    BY <2>1, ToldFacts
  <2> QED BY <2>1, <2>2
<1>2. \A f \in End : Told(Pending(f)') \subseteq Told(Pending(f))
  BY <1>1
<1>3. /\ \A b \in Coming(m)' : \E f \in AtNode(m) : b \in Told(Pending(f)')
      /\ \A f \in AtNode(m) : f \in End /\ Told(Pending(f)') \subseteq Coming(m)'
      /\ \A f \in AtNode(m) : Told(Pending(f)) \subseteq Coming(m)
  BY <1>2, ComingNext
<1>4. Coming(m)' \subseteq Coming(m)
  BY <1>2, <1>3
<1>5. ASSUME Coming(m) \subseteq Held(m)
      PROVE  Covered(m)' /\ Held(m) \cup Coming(m) \subseteq Held(m)' \cup Coming(m)'
  <2>1. Held(m) \subseteq Held(m)'
    OBVIOUS
  <2>2. Coming(m)' \subseteq Held(m)'
    BY <1>4, <1>5, <2>1
  <2> QED BY <1>5, <2>1, <2>2 DEF Covered
<1>6. ASSUME NEW f \in AtNode(m), Carrier(m, f)
      PROVE  Covered(m)' /\ Held(m) \cup Coming(m) \subseteq Held(m)' \cup Coming(m)'
  <2>0. f \in End /\ f \in AtNode(m)' /\ Held(m) \subseteq Held(m)'
    BY <1>3, AtNodeGrows
  <2>1. /\ Coming(m) \subseteq Told(Pending(f)') \cup Held(m)'
        /\ InOrder(Pending(f)', Held(m)')
    <3>1. CASE f = e
      <4>1. m = n
        BY <3>1 DEF AtNode
      <4>2. Parent(h) \in Held(n)
        <5>1. 1 \in DOMAIN Pending(e) /\ Pending(e)[1] = h
          BY <1>1
        <5>2. ~\E j \in 1..(1 - 1) : Pending(e)[j] = Parent(h)
          OBVIOUS
        <5>3. InOrder(Pending(e), Held(n))
          BY <1>6, <3>1, <4>1 DEF Carrier
        <5> QED BY <1>1, <5>1, <5>2, <5>3 DEF InOrder
      <4>3. h \in Held(n)'
        BY <4>2
      <4>4. \A b \in Told(Pending(e)) : Parent(b) \in Hash
        BY PendingFacts, TellingFacts
      <4>5. InOrder(Tail(Pending(e)), Held(n)')
        BY <1>1, <1>6, <2>0, <3>1, <4>1, <4>3, <4>4, InOrderTail DEF Carrier
      <4> QED BY <1>1, <1>6, <2>0, <3>1, <4>1, <4>3, <4>5 DEF Carrier
    <3>2. CASE f # e
      <4>1. Pending(f)' = Pending(f)
        BY <2>0, <3>2
      <4>2. InOrder(Pending(f)', Held(m)')
        BY <1>6, <2>0, <4>1, InOrderGrows DEF Carrier
      <4> QED BY <1>6, <2>0, <4>1, <4>2 DEF Carrier
    <3> QED BY <3>1, <3>2
  <2>2. Carrier(m, f)'
    <3>1. Coming(m)' \subseteq Told(Pending(f)') \cup Held(m)'
      BY <1>4, <2>1
    <3> QED BY <2>1, <3>1 DEF Carrier, InOrder, Told, Parent
  <2>3. Covered(m)'
    BY <2>0, <2>2 DEF Covered
  <2> QED BY <1>3, <2>0, <2>1, <2>3
<1> QED BY <1>5, <1>6 DEF Covered

LEMMA ReachingKept ==
    ASSUME NEW m \in Node, NEW n \in Node, Reaching(m, n),
           Held(m) \cup Coming(m) \subseteq Held(m)' \cup Coming(m)',
           chain'[n].currentTip \in {chain[n].currentTip} \cup Held(m)' \cup News(n)',
           News(n) \subseteq News(n)' \cup Held(m)' \cup Coming(m)',
           pc'[Run(n)] # "idle" =>
             \/ pc[Run(n)] # "idle" /\ arg'[Run(n)] = arg[Run(n)]
             \/ Parent(arg'[Run(n)]) \in Held(m)' \cup Coming(m)'
    PROVE  Reaching(m, n)'
<1> DEFINE reached == Held(m) \cup Coming(m)
<1>1. Reaching(m, n)' <=>
        /\ chain'[n].currentTip \in reached' \cup News(n)'
        /\ pc'[Run(n)] # "idle" => Parent(arg'[Run(n)]) \in reached'
  BY DEF Reaching, Parent, Run
<1>2. /\ chain[n].currentTip \in reached \cup News(n)
      /\ pc[Run(n)] # "idle" => Parent(arg[Run(n)]) \in reached
  BY DEF Reaching
<1> QED BY <1>1, <1>2

-----------------------------------------------------------------------------
\* A relay that loses no block keeps the order.
LEMMA RelayedOrder ==
    ASSUME NEW q \in Seq(Message), NEW r, Relays(q, r), Told(q) # {} => r # <<>>,
           \A h \in Told(q) : Parent(h) \in Hash, NEW K
    PROVE  Told(r) = Told(q) /\ (InOrder(q, K) => InOrder(r, K))
<1>1. CASE r = q
  BY <1>1
<1>2. CASE r = <<>>
  BY <1>2 DEF Told, InOrder
<1>3. CASE r = Append(q, NoMessage)
  <2>1. NoMessage \in Message /\ {NoMessage} \ {NoMessage} = {}
    BY DEF Message
  <2>2. Told(r) = Told(q) \cup ({NoMessage} \ {NoMessage})
    BY <1>3, <2>1, ToldFacts
  <2>3. InOrder(q, K) => InOrder(r, K)
    BY <1>3, <2>1, InOrderAppend
  <2> QED BY <2>1, <2>2, <2>3
<1>4. CASE q # <<>> /\ Head(q) = NoMessage /\ r = Tail(q)
  <2>1. {NoMessage} \ {NoMessage} = {}
    OBVIOUS
  <2>2. Told(q) = Told(r) \cup ({NoMessage} \ {NoMessage})
    BY <1>4, ToldFacts
  <2>3. InOrder(q, K) => InOrder(r, K)
    BY <1>4, InOrderTail
  <2> QED BY <2>1, <2>2, <2>3
<1> QED BY <1>1, <1>2, <1>3, <1>4 DEF Relays

\* What the servers do to an end whose handler is inserting a block.
LEMMA ActiveInbox ==
    ASSUME ServerInv, Serving, NEW e \in End, pc[e] # "idle", e \in open'
    PROVE  inbox'[e] = inbox[e] \/ inbox'[e] = Append(inbox[e], NoMessage)
<1>0. inbox \in [End -> Seq(Message)]
  BY DEF ServerInv, ServerTypes
<1>1. ASSUME NEW f \in End, pc[f] = "idle", Handle(f)
      PROVE  inbox'[e] = inbox[e] \/ inbox'[e] = Append(inbox[e], NoMessage)
  <2>0. f # e
    BY <1>1
  <2>1. CASE Accept(f) \/ ReadHello(f) \/ RemovePeer(f)
    BY <1>0, <2>0, <2>1 DEF Accept, ReadHello, RemovePeer
  <2>2. CASE AddPeer(f) \/ ReadFails(f)
    BY <2>2 DEF AddPeer, ReadFails
  <2>3. CASE Greet(f)
    BY <2>3 DEF Greet, Sent
  <2> QED BY <1>1, <2>1, <2>2, <2>3 DEF Handle
<1>2. ASSUME NEW n \in Node, Stop(n) \/ Closing(n) PROVE inbox' = inbox
  BY <1>2 DEF Stop, Closing, CloseListener, CloseConns, connVars
<1>3. ASSUME NEW b \in Bootnodes, Dialling(b) PROVE inbox' = inbox
  BY <1>3 DEF Dialling, Dial, DialFails, NextDial, connVars
<1>4. ASSUME NEW c \in Conn, Break(c) PROVE inbox'[e] = inbox[e]
  BY <1>0, <1>4 DEF Break
<1> QED BY <1>1, <1>2, <1>3, <1>4 DEF Serving

LEMMA ServingConnected ==
    ASSUME ServerInv, StoresInv, AnnouncedInv, Connected,
           [NetworkNext]_networkVars, ServerStep(Serving), lossless'
    PROVE  Connected'
<1>1. UNCHANGED <<chain, pc, arg>> /\ Serving
  BY DEF ServerStep, nodeVars, callVars
<1>2. \A e \in End : /\ HasNews(e) => inbox'[e] # <<>>
                     /\ pc[e] # "idle" => e \in open'
  BY Zenon DEF ServerStep
<1>3. ASSUME NEW e \in End, NEW K
      PROVE  /\ Told(Pending(e)') = Told(Pending(e))
             /\ InOrder(Pending(e), K) => InOrder(Pending(e)', K)
  <2>1. /\ Pending(e) \in Seq(Message) /\ inbox[e] \in Seq(Message)
        /\ NoMessage \in Message
        /\ \A h \in Told(Pending(e)) : Parent(h) \in Hash
    BY PendingFacts, TellingFacts DEF Message
  <2>2. /\ Relays(Pending(e), Pending(e)')
        /\ Told(Pending(e)) # {} => Pending(e)' # <<>>
    <3>1. CASE pc[e] \notin Early
      <4>1. Pending(e) = inbox[e] /\ Pending(e)' = inbox'[e]
        BY <1>1, <3>1 DEF Pending, Early
      <4>2. Told(inbox[e]) # {} => inbox'[e] # <<>>
        BY <1>2 DEF HasNews, Told
      <4> QED BY <1>1, <4>1, <4>2, ServingRelays
    <3>2. CASE pc[e] \in Early
      <4>1. pc[e] # "idle" /\ arg[e] \in Message
        BY <3>2, PendingFacts DEF Early
      <4>2. inbox'[e] = inbox[e] \/ inbox'[e] = Append(inbox[e], NoMessage)
        BY <1>1, <1>2, <4>1, ActiveInbox
      <4>3. Pending(e) = <<arg[e]>> \o inbox[e] /\ Pending(e)' = <<arg[e]>> \o inbox'[e]
        BY <1>1, <3>2 DEF Pending, Early
      <4>4. /\ Pending(e)' = Pending(e) \/ Pending(e)' = Append(Pending(e), NoMessage)
            /\ Pending(e) # <<>>
        <5>1. <<arg[e]>> \o Append(inbox[e], NoMessage) = Append(<<arg[e]>> \o inbox[e], NoMessage)
          BY <2>1, <4>1, PutBefore
        <5>2. Pending(e) # <<>>
          BY <3>2, PendingFacts
        <5> QED BY <4>2, <4>3, <5>1, <5>2
      <4>5. Append(Pending(e), NoMessage) # <<>>
        BY <2>1
      <4> QED BY <4>4, <4>5 DEF Relays
    <3> QED BY <3>1, <3>2
  <2> QED BY <2>1, <2>2, RelayedOrder
<1>4. ASSUME NEW n \in Node
      PROVE  /\ Covered(n)' /\ Coming(n)' = Coming(n) /\ Held(n)' = Held(n)
             /\ News(n)' = News(n) /\ pc'[Run(n)] = pc[Run(n)] /\ arg'[Run(n)] = arg[Run(n)]
  <2>1. Held(n)' = Held(n) /\ \A e \in AtNode(n) : e \in End
    BY <1>1 DEF Held, AtNode
  <2>2. Covered(n)' /\ Coming(n)' = Coming(n)
    BY <1>3, <2>1, SameCovered DEF Connected
  <2> QED BY <1>1, <2>1, <2>2 DEF News, Run
<1>5. ASSUME NEW m \in Node, NEW n \in Node, m # n PROVE Reaching(m, n)'
  BY <1>1, <1>4, <1>5, ReachingKept DEF Connected
<1>6. \A e \in End : pc'[e] # "idle" => e \in open'
  BY <1>1, <1>2
<1> QED BY <1>4, <1>5, <1>6 DEF Connected

\* A node's own mining leaves its connections alone.
LEMMA OwnStepConnected ==
    ASSUME ServerInv, StoresInv, AnnouncedInv, Connected, [NetworkNext]_networkVars,
           UNCHANGED <<inbox, open>>, \A e \in End : pc'[e] = pc[e] /\ arg'[e] = arg[e],
           NEW n \in Node,
           \A k \in Node : k # n => /\ pc'[Run(k)] = pc[Run(k)] /\ arg'[Run(k)] = arg[Run(k)]
                                    /\ chain'[k].currentTip = chain[k].currentTip,
           chain'[n].currentTip \in {chain[n].currentTip} \cup News(n)',
           News(n) = {},
           pc'[Run(n)] # "idle" => \/ pc[Run(n)] # "idle" /\ arg'[Run(n)] = arg[Run(n)]
                                   \/ Parent(arg'[Run(n)]) = chain[n].currentTip
    PROVE  Connected'
<1>1. \A k \in Node : Held(k) \subseteq Held(k)'
  BY StoresNext DEF Extends, Held
<1>2. \A e \in End : Pending(e)' = Pending(e)
  BY DEF Pending
<1>3. ASSUME NEW k \in Node PROVE Covered(k)' /\ Coming(k)' = Coming(k)
  <2>1. \A e \in AtNode(k) : e \in End
    BY DEF AtNode
  <2> QED BY <1>1, <1>2, <2>1, SameCovered DEF Connected
<1>4. ASSUME NEW m \in Node, NEW k \in Node, m # k PROVE Reaching(m, k)'
  <2>1. Reaching(m, k) /\ Held(m) \cup Coming(m) \subseteq Held(m)' \cup Coming(m)'
    BY <1>1, <1>3, <1>4 DEF Connected
  <2>2. CASE k = n
    <3>1. chain[n].currentTip \in Held(m) \cup Coming(m)
      BY <2>1, <2>2 DEF Reaching
    <3> QED BY <2>1, <2>2, <3>1, ReachingKept
  <2>3. CASE k # n
    <3>1. News(k)' = News(k)
      BY <2>3 DEF News, Run
    <3> QED BY <2>1, <2>3, <3>1, ReachingKept
  <2> QED BY <2>2, <2>3
<1>5. \A e \in End : pc'[e] # "idle" => e \in open'
  BY DEF Connected
<1> QED BY <1>3, <1>4, <1>5 DEF Connected

LEMMA SealConnected ==
    ASSUME ServerInv, StoresInv, AnnouncedInv, Connected, [NetworkNext]_networkVars,
           NEW n \in Node, Seal(n)
    PROVE  Connected'
<1>1. PICK h \in Hash : /\ pc' = [pc EXCEPT ![Run(n)] = "validate"]
                       /\ arg' = [arg EXCEPT ![Run(n)] = h]
                       /\ Parent(h) = chain[n].currentTip
  BY DEF Seal, Begin, Parent
<1>2. UNCHANGED <<inbox, open, chain>> /\ pc[Run(n)] = "idle"
  BY DEF Seal, serverVars, connVars
<1>3. /\ pc \in [Caller -> Places] /\ arg \in [Caller -> Hash \cup {ZeroHash}]
      /\ Run(n) \in Caller /\ \A e \in End : e \in Caller /\ e # Run(n)
      /\ \A k \in Node : Run(k) \in Caller /\ (k # n => Run(k) # Run(n))
  BY CallerFacts DEF ServerInv, NodeTypes
<1>4. News(n) = {}
  BY <1>2 DEF News
<1> QED BY <1>1, <1>2, <1>3, <1>4, OwnStepConnected

\* Only a step that sets the tip changes it.
LEMMA TipMoves ==
    ASSUME ServerInv, StoresInv, NEW p \in Caller, InsertStep(p), NEW k \in Node
    PROVE  \/ chain'[k].currentTip = chain[k].currentTip
           \/ /\ k = HostOf(p) /\ chain'[k].currentTip = arg[p]
              /\ p[2] = "run" => pc'[p] = "announce" /\ arg'[p] = arg[p]
<1>1. chain = [n \in Node |-> chain[n]] /\ pc \in [Caller -> Places]
      /\ arg \in [Caller -> Hash \cup {ZeroHash}]
  BY DEF StoresInv, ServerInv, NodeTypes
<1>2. CASE chain' = chain
  BY <1>2
<1>3. ASSUME NEW t, chain' = [chain EXCEPT ![HostOf(p)] = t], t.currentTip = Store(p).currentTip
      PROVE  chain'[k].currentTip = chain[k].currentTip
  BY <1>1, <1>3 DEF Store
<1>4. CASE StoreBlock(p)
  <2>1. pc[p] # "idle"
    BY <1>4 DEF StoreBlock
  <2>2. Sound(Store(p))
    BY <2>1, HostFacts DEF StoresInv, StoreInv, Store
  <2>3. WithBlock(Store(p), arg[p], work[p]).currentTip = Store(p).currentTip
    BY <2>2 DEF WithBlock, Sound
  <2> QED BY <1>3, <1>4, <2>3 DEF StoreBlock, SetStore
<1>5. CASE Compare(p) /\ ~Wins(p)
  <2>1. Decided(Store(p), arg[p], Store(p).currentTip).currentTip = Store(p).currentTip
    BY DEF Decided
  <2> QED BY <1>3, <1>5, <2>1 DEF Compare, SetStore
<1>6. CASE SetTip(p)
  <2>1. chain' = [chain EXCEPT ![HostOf(p)] = WithTip(Store(p), arg[p])]
    BY <1>6 DEF SetTip, SetStore
  <2>2. WithTip(Store(p), arg[p]).currentTip = arg[p]
    BY DEF WithTip, Decided
  <2>3. p[2] = "run" => pc'[p] = "announce" /\ arg'[p] = arg[p]
    BY <1>1, <1>6 DEF SetTip, Continue
  <2>4. k = HostOf(p) => chain'[k].currentTip = arg[p]
    BY <1>1, <2>1, <2>2
  <2>5. k # HostOf(p) => chain'[k] = chain[k]
    BY <1>1, <2>1
  <2> QED BY <2>3, <2>4, <2>5
<1>7. CASE Validate(p) \/ CheckKnown(p) \/ ParentWork(p) \/ (Compare(p) /\ Wins(p))
  BY <1>2, <1>7 DEF Validate, CheckKnown, ParentWork, Compare
<1> QED BY <1>4, <1>5, <1>6, <1>7 DEF InsertStep

LEMMA RunConnected ==
    ASSUME ServerInv, StoresInv, AnnouncedInv, Connected, [NetworkNext]_networkVars,
           NEW n \in Node, InsertStep(Run(n))
    PROVE  Connected'
<1> DEFINE p == Run(n)
<1>1. /\ p \in Caller /\ p[2] = "run" /\ HostOf(p) = n
      /\ \A e \in End : e \in Caller /\ e # p
      /\ \A k \in Node : Run(k) \in Caller /\ (k # n => Run(k) # p)
  BY CallerFacts
<1>2. /\ UNCHANGED <<inbox, open>>
      /\ \A q \in Caller : q # p => pc'[q] = pc[q] /\ arg'[q] = arg[q]
  BY <1>1, InsertStepOwn DEF InsertStep
<1>3. /\ pc[p] \notin {"idle", "announce"} /\ (pc'[p] # "idle" => arg'[p] = arg[p])
      /\ pc \in [Caller -> Places] /\ arg \in [Caller -> Hash \cup {ZeroHash}]
  <2>1. NodeTypes
    BY DEF ServerInv
  <2> QED BY <1>1, <2>1, InsertStepMoves DEF Continue, Return, NodeTypes
<1>4. News(n) = {}
  BY <1>3 DEF News
<1>5. chain'[n].currentTip \in {chain[n].currentTip} \cup News(n)'
  BY <1>1, TipMoves DEF News, Run
<1>6. \A k \in Node : k # n => chain'[k].currentTip = chain[k].currentTip
  BY <1>1, TipMoves
<1> QED BY <1>1, <1>2, <1>3, <1>4, <1>5, <1>6, OwnStepConnected

\* A handler that is done with looking has stored its block, or knows it, or has
\* no parent for it.
LEMMA LeavesEarly ==
    ASSUME ServerInv, StoresInv, [NetworkNext]_networkVars, NEW p \in Caller, InsertStep(p),
           pc[p] \in Early, pc'[p] \notin Early
    PROVE  \/ arg[p] \in Held(HostOf(p))'
           \/ ~ValidateHeader(Store(p), Header[arg[p]], MaxHeight)
<1>1. pc \in [Caller -> Places] /\ CallInv(p) /\ pc[p] # "idle"
  BY DEF ServerInv, NodeTypes, StoresInv, Early
<1>2. HostOf(p) \in Node /\ HostOf(p)' = HostOf(p) /\ arg[p] \in Hash
  BY <1>1, HostFacts, HostKept
<1>3. \A l \in Early : Continue(p, l) => pc'[p] = l
  BY <1>1 DEF Continue
<1>4. CASE Validate(p)
  BY <1>3, <1>4 DEF Validate, Continue, Early
<1>5. CASE CheckKnown(p)
  <2>1. HasBlock(Store(p), arg[p]) /\ chain' = chain
    BY <1>1, <1>5 DEF CheckKnown, Continue, Early
  <2> QED BY <1>2, <2>1 DEF HasBlock, Held, Store
<1>6. CASE ParentWork(p)
  <2>1. ValidParent(Store(p), Header[arg[p]])
    BY <1>1, <1>6 DEF ParentWork, CallInv, Validated
  <2>2. Header[arg[p]].height > 0 => HasBlock(Store(p), Header[arg[p]].parentHash)
    BY <1>2, <2>1, HeaderType DEF ValidParent
  <2>3. pc'[p] = "store"
    BY <1>1, <1>6, <2>2 DEF ParentWork, Continue
  <2> QED BY <2>3 DEF Early
<1>7. CASE StoreBlock(p)
  <2>1. chain' = [chain EXCEPT ![HostOf(p)] = WithBlock(Store(p), arg[p], work[p])]
    BY <1>7 DEF StoreBlock, SetStore
  <2>2. arg[p] \in WithBlock(Store(p), arg[p], work[p]).blocks
    BY DEF WithBlock
  <2>3. chain'[HostOf(p)] = WithBlock(Store(p), arg[p], work[p])
    BY <1>2, <2>1 DEF StoresInv
  <2> QED BY <1>2, <2>2, <2>3 DEF Held
<1>8. CASE Compare(p) \/ SetTip(p)
  BY <1>8 DEF Compare, SetTip, Early
<1> QED BY <1>4, <1>5, <1>6, <1>7, <1>8 DEF InsertStep

\* A handler may make the block it has read the tip; the other node holds it.
LEMMA HandlerConnected ==
    ASSUME ServerInv, StoresInv, AnnouncedInv, Connected, TwoNodes, [NetworkNext]_networkVars,
           NEW e \in End, InUse(e[1]), NEW h \in Held(RemoteOf(e)),
           \A f \in End : pc'[f] # "idle" => f \in open',
           \A k \in Node : Covered(k)' /\ Held(k) \cup Coming(k) \subseteq Held(k)' \cup Coming(k)',
           \A k \in Node : pc'[Run(k)] = pc[Run(k)] /\ arg'[Run(k)] = arg[Run(k)],
           \A k \in Node : \/ chain'[k].currentTip = chain[k].currentTip
                           \/ k = NodeOf(e) /\ chain'[k].currentTip = h
    PROVE  Connected'
<1>1. \A k \in Node : Held(k) \subseteq Held(k)' /\ News(k)' = News(k)
  BY StoresNext DEF Extends, Held, News, Run
<1>2. RemoteOf(e) \in Node /\ NodeOf(e) # RemoteOf(e)
  <2>1. link[e[1]][1] \in Bootnodes /\ RemoteOf(e) \in Node
    BY EndFacts, LinkFacts, NodeOfType DEF ServerInv
  <2> QED BY <2>1, BootnodeFacts, EndFacts DEF NodeOf, RemoteOf, Other
<1>3. ASSUME NEW m \in Node, NEW k \in Node, m # k PROVE Reaching(m, k)'
  <2>1. Reaching(m, k)
    BY <1>3 DEF Connected
  <2>2. chain'[k].currentTip \in {chain[k].currentTip} \cup Held(m)'
    <3>1. k = NodeOf(e) => RemoteOf(e) = m
      BY <1>2, <1>3 DEF TwoNodes
    <3>2. RemoteOf(e) = m => h \in Held(m)'
      BY <1>1
    <3> QED BY <3>1, <3>2
  <2> QED BY <1>1, <2>1, <2>2, ReachingKept
<1> QED BY <1>3 DEF Connected

LEMMA HandlerStepConnected ==
    ASSUME ServerInv, StoresInv, AnnouncedInv, Connected, TwoNodes, [NetworkNext]_networkVars,
           NEW e \in End, InsertStep(e)
    PROVE  Connected'
<1>0. PICK n \in Node, h \in Hash : n = NodeOf(e) /\ h = arg[e] /\ pc[e] # "idle"
  <2>1. e \in Caller /\ NodeTypes
    BY CallerFacts DEF ServerInv
  <2>2. pc[e] # "idle"
    BY <2>1, InsertStepMoves
  <2> QED BY <2>1, <2>2, CallerFacts, HostFacts
<1>1. /\ e \in Caller /\ HostOf(e) = n /\ e[2] # "run"
      /\ NodeTypes /\ pc \in [Caller -> Places] /\ arg \in [Caller -> Hash \cup {ZeroHash}]
  BY <1>0, CallerFacts DEF ServerInv, NodeTypes
<1>2. /\ pc[e] # "idle" /\ UNCHANGED <<inbox, open>>
      /\ \/ pc'[e] = "idle"
         \/ pc'[e] \in Places /\ arg'[e] = h
  BY <1>0, <1>1, InsertStepMoves DEF InsertStep, Continue, Return
<1>3. /\ InUse(e[1]) /\ e \in AtNode(n)
      /\ h \in Held(RemoteOf(e)) /\ Announceable(h) /\ RemoteOf(e) \in Node
  <2>1. InUse(e[1])
    BY <1>1, <1>2, HostFacts
  <2>2. h \in Taken(e)
    BY <1>0 DEF Taken
  <2> QED BY <1>0, <2>1, <2>2, TellingFacts DEF AtNode
<1>4. /\ \A f \in End : f \in Caller /\ (f # e => pc'[f] = pc[f] /\ arg'[f] = arg[f])
      /\ \A k \in Node : pc'[Run(k)] = pc[Run(k)] /\ arg'[Run(k)] = arg[Run(k)]
  BY <1>1, InsertStepOwn, CallerFacts
<1>5. \A k \in Node : Held(k) \subseteq Held(k)'
  BY StoresNext DEF Extends, Held
<1>6. \A f \in End : f # e => Pending(f)' = Pending(f)
  BY <1>2, <1>4 DEF Pending
<1>7. pc[e] \notin Early => pc'[e] \notin Early
  BY <1>1 DEF InsertStep, Validate, CheckKnown, ParentWork, StoreBlock, Compare, SetTip,
              Continue, Return, Early
<1>8. ASSUME NEW k \in Node
      PROVE  Covered(k)' /\ Held(k) \cup Coming(k) \subseteq Held(k)' \cup Coming(k)'
  <2>1. CASE pc[e] \in Early /\ pc'[e] \notin Early
    <3>1. Pending(e) # <<>> /\ Head(Pending(e)) = h /\ Pending(e)' = Tail(Pending(e))
      <4>1. Pending(e)' = inbox[e]
        BY <1>2, <2>1 DEF Pending
      <4> QED BY <1>0, <2>1, <4>1, PendingFacts
    <3>2. Parent(h) \in Held(n) => h \in Held(n)'
      <4>1. Parent(h) \in Held(n) => ValidateHeader(Store(e), Header[h], MaxHeight)
        BY <1>0, <1>1, <1>3, Accepted DEF Store
      <4>2. \/ h \in Held(n)'
            \/ ~ValidateHeader(Store(e), Header[h], MaxHeight)
        <5>1. Held(HostOf(e))' = Held(n)'
          BY <1>1, <1>2, HostKept DEF Held
        <5> QED BY <1>0, <1>1, <2>1, <5>1, LeavesEarly
      <4> QED BY <4>1, <4>2
    <3>3. \A j \in Node : Covered(j)
      BY DEF Connected
    <3> QED BY <1>3, <1>5, <1>6, <3>1, <3>2, <3>3, ArrivedCovered
  <2>2. CASE pc[e] \in Early => pc'[e] \in Early
    <3>1. Pending(e)' = Pending(e)
      BY <1>0, <1>2, <1>7, <2>2 DEF Pending, Early
    <3>2. \A f \in End : Pending(f)' = Pending(f)
      BY <1>6, <3>1
    <3>3. \A f \in AtNode(k) : f \in End
      BY DEF AtNode
    <3>4. Covered(k)' /\ Coming(k)' = Coming(k)
      BY <1>5, <3>2, <3>3, SameCovered DEF Connected
    <3> QED BY <1>5, <3>4
  <2> QED BY <2>1, <2>2
<1>9. \A f \in End : pc'[f] # "idle" => f \in open'
  BY <1>2, <1>4 DEF Connected
<1>10. \A k \in Node : \/ chain'[k].currentTip = chain[k].currentTip
                       \/ k = n /\ chain'[k].currentTip = h
  BY <1>0, <1>1, TipMoves
<1> QED BY <1>0, <1>3, <1>4, <1>8, <1>9, <1>10, HandlerConnected

\* What is read is held from then on, or is being inserted.
LEMMA ReadConnected ==
    ASSUME ServerInv, StoresInv, AnnouncedInv, Connected, TwoNodes, [NetworkNext]_networkVars,
           NEW e \in End, ReadNewBlock(e)
    PROVE  Connected'
<1>0. PICK n, h : n = NodeOf(e) /\ h = Head(inbox[e])
  OBVIOUS
<1>1. /\ e \in Caller /\ HostOf(e) = n
      /\ pc \in [Caller -> Places] /\ arg \in [Caller -> Hash \cup {ZeroHash}]
      /\ inbox \in [End -> Seq(Message)]
  BY <1>0, CallerFacts DEF ServerInv, NodeTypes, ServerTypes
<1>2. /\ pc[e] = "idle" /\ e \in open /\ UNCHANGED <<open, chain>>
      /\ inbox[e] \in Seq(Message) /\ inbox[e] # <<>> /\ h \in Hash /\ h # NoMessage
      /\ inbox' = [inbox EXCEPT ![e] = Tail(@)]
  <2>1. /\ pc[e] = "idle" /\ e \in open /\ UNCHANGED <<open, chain>>
        /\ inbox[e] # <<>> /\ h # NoMessage
        /\ inbox' = [inbox EXCEPT ![e] = Tail(@)]
    BY <1>0 DEF ReadNewBlock, CanRead
  <2>2. inbox[e] \in Seq(Message) /\ h \in Message
    BY <1>0, <1>1, <2>1
  <2> QED BY <2>1, <2>2 DEF Message
<1>3. /\ n \in Node /\ InUse(e[1]) /\ e \in AtNode(n)
      /\ h \in Held(RemoteOf(e)) /\ Announceable(h)
  <2>1. h \in Told(inbox[e])
    <3>1. Told(inbox[e]) = Told(Tail(inbox[e])) \cup ({h} \ {NoMessage})
      BY <1>0, <1>2, ToldFacts
    <3> QED BY <1>2, <3>1
  <2>2. InUse(e[1]) /\ h \in Held(RemoteOf(e)) /\ Announceable(h)
    BY <2>1, TellingFacts
  <2> QED BY <1>0, <2>2, NodeOfType DEF ServerInv, AtNode
<1>4. /\ \A f \in End : f \in Caller /\ (f # e => /\ pc'[f] = pc[f] /\ arg'[f] = arg[f]
                                                  /\ inbox'[f] = inbox[f])
      /\ \A k \in Node : pc'[Run(k)] = pc[Run(k)] /\ arg'[Run(k)] = arg[Run(k)]
  <2>1. \A p \in Caller : p # e => pc'[p] = pc[p] /\ arg'[p] = arg[p]
    BY <1>1 DEF ReadNewBlock, Begin, callVars
  <2>2. \A f \in End : f # e => inbox'[f] = inbox[f]
    BY <1>1, <1>2
  <2>3. \A k \in Node : Run(k) \in Caller /\ Run(k) # e
    BY CallerFacts
  <2>4. \A f \in End : f \in Caller
    BY CallerFacts
  <2> QED BY <2>1, <2>2, <2>3, <2>4, Zenon
<1>5. \A k \in Node : Held(k) \subseteq Held(k)'
  BY StoresNext DEF Extends, Held
<1>6. \A f \in End : f # e => Pending(f)' = Pending(f)
  BY <1>4 DEF Pending
<1>7. inbox'[e] = Tail(inbox[e]) /\ Pending(e) = inbox[e]
  BY <1>1, <1>2 DEF Pending, Early
<1>8. ASSUME NEW k \in Node
      PROVE  Covered(k)' /\ Held(k) \cup Coming(k) \subseteq Held(k)' \cup Coming(k)'
  <2>1. CASE HasBlock(Store(e), h)
    <3>1. Pending(e)' = Tail(Pending(e))
      <4>1. pc'[e] = "idle"
        BY <1>0, <1>2, <2>1 DEF ReadNewBlock, callVars
      <4> QED BY <1>7, <4>1 DEF Pending, Early
    <3>2. h \in Held(n)'
      BY <1>1, <1>2, <2>1 DEF HasBlock, Store, Held
    <3>3. \A j \in Node : Covered(j)
      BY DEF Connected
    <3>4. Pending(e) # <<>> /\ Head(Pending(e)) = h
      BY <1>0, <1>2, <1>7
    <3>5. h \in Hash
      BY <1>2
    <3> QED BY <1>3, <1>5, <1>6, <3>1, <3>2, <3>3, <3>4, <3>5, ArrivedCovered
  <2>2. CASE ~HasBlock(Store(e), h)
    <3>1. pc'[e] = "validate" /\ arg'[e] = h
      BY <1>0, <1>1, <2>2 DEF ReadNewBlock, Begin
    <3>2. Pending(e)' = <<h>> \o Tail(inbox[e])
      BY <1>7, <3>1 DEF Pending, Early
    <3>3. Pending(e)' = Pending(e)
      <4>1. h \in Message
        BY <1>2 DEF Message
      <4> QED BY <1>0, <1>2, <1>7, <3>2, <4>1, PutBefore
    <3>4. \A f \in End : Pending(f)' = Pending(f)
      BY <1>6, <3>3
    <3>5. \A f \in AtNode(k) : f \in End
      BY DEF AtNode
    <3>6. Covered(k)' /\ Coming(k)' = Coming(k)
      BY <1>5, <3>4, <3>5, SameCovered DEF Connected
    <3> QED BY <1>5, <3>6
  <2> QED BY <2>1, <2>2
<1>9. \A f \in End : pc'[f] # "idle" => f \in open'
  BY <1>2, <1>4 DEF Connected
<1>10. \A k \in Node : chain'[k].currentTip = chain[k].currentTip
  BY <1>2
<1> QED BY <1>3, <1>4, <1>8, <1>9, <1>10, HandlerConnected

\* An announcement reaches the other node behind whatever it needs.
LEMMA AnnounceConnected ==
    ASSUME ServerInv, StoresInv, AnnouncedInv, Connected, \A e \in End : Intact(e), TwoNodes,
           [NetworkNext]_networkVars, NEW n \in Node, Announce(n), lossless'
    PROVE  Connected'
<1> DEFINE h == arg[Run(n)]
<1>1. /\ pc[Run(n)] = "announce" /\ inbox' = Broadcast(n, h)
      /\ UNCHANGED <<chain, open, link>>
      /\ pc \in [Caller -> Places] /\ arg \in [Caller -> Hash \cup {ZeroHash}]
      /\ Run(n) \in Caller /\ HostOf(Run(n)) = n
  BY CallerFacts DEF Announce, ServerInv, NodeTypes
<1>2. /\ h \in Held(n) /\ Announceable(h) /\ h \in Hash /\ h \in Message /\ h # NoMessage
      /\ inbox \in [End -> Seq(Message)]
  <2>1. CallInv(Run(n)) /\ Header[h].height > 0 /\ h \in Hash
    BY <1>1, HostFacts DEF StoresInv, AnnouncedInv
  <2>2. h \in Held(n) /\ Announceable(h)
    BY <1>1, <2>1 DEF CallInv, Validated, Comparing, Announceable, Held, Store
  <2> QED BY <2>1, <2>2, NetworkAssumption DEF ServerInv, ServerTypes, Message
<1>3. /\ pc'[Run(n)] = "idle"
      /\ \A k \in Node : k # n => pc'[Run(k)] = pc[Run(k)] /\ arg'[Run(k)] = arg[Run(k)]
      /\ \A e \in End : pc'[e] = pc[e] /\ arg'[e] = arg[e]
  <2>1. \A p \in Caller : p # Run(n) => pc'[p] = pc[p] /\ arg'[p] = arg[p]
    BY <1>1 DEF Announce, Return
  <2>2. pc'[Run(n)] = "idle"
    BY <1>1 DEF Announce, Return
  <2>3. \A k \in Node : k # n => Run(k) \in Caller /\ Run(k) # Run(n)
    BY CallerFacts DEF Run
  <2>4. \A e \in End : e \in Caller /\ e # Run(n)
    BY CallerFacts
  <2> QED BY <2>1, <2>2, <2>3, <2>4
<1>4. \A m \in Node : Held(m)' = Held(m) /\ AtNode(m)' = AtNode(m)
  BY <1>1 DEF Held, AtNode, InUse, NodeOf
\* What is put into an inbox is pending behind all that was.
<1>5. ASSUME NEW e \in End
      PROVE  /\ Pending(e) \in Seq(Message)
             /\ inbox'[e] = inbox[e] => Pending(e)' = Pending(e)
             /\ inbox'[e] = Append(inbox[e], h) => Pending(e)' = Append(Pending(e), h)
             /\ Told(Append(Pending(e), h)) = Told(Pending(e)) \cup {h}
             /\ inbox'[e] = inbox[e] \/ inbox'[e] = Append(inbox[e], h)
  <2>1. Pending(e) \in Seq(Message) /\ inbox[e] \in Seq(Message)
        /\ (pc[e] \in Early => arg[e] \in Message)
    BY PendingFacts
  <2>2. inbox'[e] = inbox[e] \/ inbox'[e] = Append(inbox[e], h)
    BY <1>1, BroadcastFacts
  <2>3. inbox'[e] = inbox[e] => Pending(e)' = Pending(e)
    BY <1>3 DEF Pending
  <2>4. ASSUME inbox'[e] = Append(inbox[e], h) PROVE Pending(e)' = Append(Pending(e), h)
    <3>1. CASE pc[e] \in Early
      <4>1. Pending(e)' = <<arg[e]>> \o Append(inbox[e], h) /\ Pending(e) = <<arg[e]>> \o inbox[e]
        BY <1>3, <2>4, <3>1 DEF Pending
      <4>2. <<arg[e]>> \o Append(inbox[e], h) = Append(<<arg[e]>> \o inbox[e], h)
        BY <1>2, <2>1, <3>1, PutBefore
      <4> QED BY <4>1, <4>2
    <3>2. CASE pc[e] \notin Early
      BY <1>3, <2>4, <3>2 DEF Pending
    <3> QED BY <3>1, <3>2
  <2>5. Told(Append(Pending(e), h)) = Told(Pending(e)) \cup {h}
    <3>1. Told(Append(Pending(e), h)) = Told(Pending(e)) \cup ({h} \ {NoMessage})
      BY <1>2, <2>1, ToldFacts
    <3>2. {h} \ {NoMessage} = {h}
      BY <1>2
    <3> QED BY <3>1, <3>2
  <2> QED BY <2>1, <2>2, <2>3, <2>4, <2>5
\* At the sender's own ends nothing changes.
<1>6. ASSUME NEW e \in AtNode(n) PROVE e \in End /\ Pending(e)' = Pending(e)
  <2>1. e \in End /\ InUse(e[1]) /\ NodeOf(e) = n
    BY DEF AtNode
  <2>2. RemoteOf(e) # n
    <3>1. link[e[1]][1] \in Bootnodes
      BY <2>1, EndFacts, LinkFacts DEF ServerInv
    <3> QED BY <2>1, <3>1, BootnodeFacts, EndFacts DEF NodeOf, RemoteOf, Other
  <2>3. inbox'[e] = inbox[e]
    BY <1>1, <2>1, <2>2, BroadcastFacts
  <2> QED BY <1>5, <2>1, <2>3
<1>7. Coming(n)' = Coming(n) /\ Covered(n)'
  <2>1. Coming(n)' = UNION {Told(Pending(e)') : e \in AtNode(n)'}
    BY DEF Coming, Told
  <2>2. \A e \in AtNode(n) : Told(Pending(e)') = Told(Pending(e))
    BY <1>6
  <2>3. Coming(n)' = Coming(n)
    BY <1>4, <2>1, <2>2 DEF Coming
  <2>4. ASSUME NEW e \in AtNode(n), Carrier(n, e) PROVE Carrier(n, e)'
    <3>1. Coming(n)' \subseteq Told(Pending(e)') \cup Held(n)' /\ InOrder(Pending(e)', Held(n)')
      BY <1>4, <1>6, <2>3, <2>4 DEF Carrier
    <3> QED BY <3>1 DEF Carrier, InOrder, Told, Parent
  <2> QED BY <1>4, <2>3, <2>4 DEF Connected, Covered
<1>8. ASSUME NEW m \in Node, m # n
      PROVE  Covered(m)' /\ Reaching(m, n)' /\ Reaching(n, m)'
  <2>0. Reaching(m, n) /\ Reaching(n, m) /\ Covered(m)
    BY <1>8 DEF Connected
  <2>1. \A e \in End : \/ Told(Pending(e)') = Told(Pending(e))
                       \/ Told(Pending(e)') = Told(Pending(e)) \cup {h}
    BY <1>5
  <2>2. PICK c \in AtNode(m) : c \in End /\ Pending(c)' = Append(Pending(c), h)
    <3>1. \E e \in End : inbox'[e] # inbox[e] /\ NodeOf(e) = m
      <4>1. \A k \in Node \ {n} : \E e \in End : inbox'[e] # inbox[e] /\ NodeOf(e) = k
        BY Zenon DEF Announce
      <4> QED BY <1>8, <4>1
    <3>2. PICK e \in End : inbox'[e] # inbox[e] /\ NodeOf(e) = m
      BY <3>1
    <3>3. e \in AtNode(m)
      BY <1>1, <3>2, BroadcastFacts DEF AtNode
    <3> QED BY <1>5, <3>2, <3>3
  <2>3. Told(Pending(c)') = Told(Pending(c)) \cup {h}
    BY <1>5, <2>2
  <2>4. Coming(m)' = Coming(m) \cup {h}
    <3>1. Coming(m)' = UNION {Told(Pending(e)') : e \in AtNode(m)}
      <4>1. Coming(m)' = UNION {Told(Pending(e)') : e \in AtNode(m)'}
        BY DEF Coming, Told
      <4> QED BY <1>4, <4>1
    <3>2. \A e \in AtNode(m) : e \in End
      BY DEF AtNode
    <3>3. Coming(m)' \subseteq Coming(m) \cup {h}
      BY <2>1, <3>1, <3>2 DEF Coming
    <3>4. h \in Coming(m)'
      BY <2>2, <2>3, <3>1
    <3>5. Coming(m) \subseteq Coming(m)'
      BY <2>1, <3>1, <3>2 DEF Coming
    <3> QED BY <3>3, <3>4, <3>5
  <2>5. Parent(h) \in Held(m) \cup Coming(m)
    BY <1>1, <2>0 DEF Reaching
  <2>6. ASSUME NEW e \in AtNode(m), e \in End, Pending(e)' = Append(Pending(e), h),
               Coming(m) \subseteq Told(Pending(e)) \cup Held(m),
               InOrder(Pending(e), Held(m))
        PROVE  Covered(m)'
    <3>1. Told(Pending(e)') = Told(Pending(e)) \cup {h}
      BY <1>5, <2>6
    <3>2. InOrder(Append(Pending(e), h), Held(m))
      BY <1>2, <1>5, <2>5, <2>6, InOrderAppend
    <3>3. Coming(m)' \subseteq Told(Pending(e)') \cup Held(m)'
      BY <1>4, <2>4, <2>6, <3>1
    <3>4. InOrder(Pending(e)', Held(m)')
      BY <1>4, <2>6, <3>2
    <3>5. Carrier(m, e)'
      BY <3>3, <3>4 DEF Carrier, InOrder, Told, Parent
    <3> QED BY <1>4, <2>6, <3>5 DEF Covered
  <2>7. Covered(m)'
    <3>1. CASE Coming(m) \subseteq Held(m)
      <4>1. ASSUME NEW b \in Told(Pending(c)) PROVE Parent(b) \in Held(m)
        <5>1. b \in Coming(m)
          BY <2>2, <4>1 DEF Coming
        <5>2. Announceable(b)
          BY <2>2, <4>1, PendingFacts, TellingFacts
        <5> QED BY <3>1, <5>1, <5>2, HeldWithParent
      <4>2. InOrder(Pending(c), Held(m))
        BY <4>1, InOrderHeld
      <4> QED BY <2>2, <2>6, <3>1, <4>2
    <3>2. ASSUME NEW e \in AtNode(m), Carrier(m, e), ~(Coming(m) \subseteq Held(m))
          PROVE  Covered(m)'
      <4>1. e \in End /\ InUse(e[1]) /\ NodeOf(e) = m
        BY <3>2 DEF AtNode
      <4>2. Told(Pending(e)) # {}
        BY <3>2 DEF Carrier
      <4>3. inbox[e] # <<>> \/ pc[e] # "idle"
        <5>1. Pending(e) # <<>>
          BY <4>2 DEF Told
        <5> QED BY <4>1, <5>1, PendingFacts
      <4>4. Other(e) \in End /\ Other(Other(e)) = e /\ InUse(Other(e)[1])
        BY <4>1, EndFacts
      <4>5. /\ e \in open /\ Other(e) \in open
            /\ handler[Other(e)] \notin {"accept", "add", "remove"}
        <5>1. e \in open
          BY <4>1, <4>3 DEF Intact, Connected
        <5>2. Other(e) \in open
          BY <4>1, <5>1 DEF Intact
        <5>3. handler[Other(e)] \notin {"accept", "add"}
          BY <4>1, <4>3 DEF Intact
        <5>4. handler[Other(e)] # "remove"
          BY <4>4, <5>2 DEF Intact
        <5> QED BY <5>1, <5>2, <5>3, <5>4
      <4>6. handler[Other(e)] \notin {"none", "ended"}
        BY <4>4, <4>5 DEF ServerInv, EndInv
      <4>7. handler[Other(e)] \in {"greet", "read", "remove"}
        BY <4>4, <4>5, <4>6 DEF ServerInv, ServerTypes
      <4>8. RemoteOf(e) = n
        <5>1. link[e[1]][1] \in Bootnodes
          BY <4>1, EndFacts, LinkFacts DEF ServerInv
        <5>2. RemoteOf(e) \in Node
          BY <4>1, NodeOfType DEF ServerInv
        <5>3. NodeOf(e) # RemoteOf(e)
          BY <4>1, <5>1, BootnodeFacts, EndFacts DEF NodeOf, RemoteOf, Other
        <5> QED BY <1>8, <4>1, <5>2, <5>3 DEF TwoNodes
      <4>9. inbox'[e] = Append(inbox[e], h)
        BY <1>1, <4>1, <4>5, <4>7, <4>8, BroadcastFacts
      <4> QED BY <1>5, <2>6, <3>2, <4>1, <4>9 DEF Carrier
    <3> QED BY <2>0, <3>1, <3>2 DEF Covered
  <2>8. Reaching(m, n)'
    <3>1. Reaching(m, n)' <=>
            /\ chain'[n].currentTip \in Held(m)' \cup Coming(m)' \cup News(n)'
            /\ pc'[Run(n)] # "idle" => Parent(arg'[Run(n)]) \in Held(m)' \cup Coming(m)'
      BY DEF Reaching, Parent, Run
    <3>2. chain[n].currentTip \in Held(m) \cup Coming(m) \cup {h}
      BY <1>1, <2>0 DEF Reaching, News
    <3> QED BY <1>1, <1>3, <1>4, <2>4, <3>1, <3>2
  <2>9. Reaching(n, m)'
    <3>1. /\ Held(n) \cup Coming(n) \subseteq Held(n)' \cup Coming(n)'
          /\ chain'[m].currentTip = chain[m].currentTip
          /\ pc'[Run(m)] = pc[Run(m)] /\ arg'[Run(m)] = arg[Run(m)]
          /\ News(m)' = News(m)
      BY <1>1, <1>3, <1>4, <1>7, <1>8 DEF News, Run
    <3> QED BY <1>8, <2>0, <3>1, ReachingKept
  <2> QED BY <2>7, <2>8, <2>9
<1>9. ASSUME NEW k \in Node, NEW m \in Node, k # m PROVE Reaching(k, m)'
  <2>1. k = n \/ m = n
    BY <1>9 DEF TwoNodes
  <2> QED BY <1>8, <1>9, <2>1
<1>10. \A e \in End : pc'[e] # "idle" => e \in open'
  BY <1>1, <1>3 DEF Connected
<1> QED BY <1>7, <1>8, <1>9, <1>10 DEF Connected

LEMMA ConnectedNext ==
    ASSUME TwoNodes, OneNetwork, ServerInv, StoresInv, AnnouncedInv,
           AllRunning => \A e \in End : Intact(e), Undisturbed => Connected,
           [NetworkNext]_networkVars, Undisturbed'
    PROVE  Connected'
<1>1. Connected /\ (\A e \in End : Intact(e)) /\ lossless'
  BY UndisturbedBefore DEF Undisturbed
<1>2. CASE UNCHANGED networkVars
  <2>1. UNCHANGED <<inbox, open, link, chain, pc, arg>>
    BY <1>2 DEF networkVars, serverVars, connVars, nodeVars, callVars
  <2>2. \A e \in End : Pending(e)' = Pending(e)
    BY <2>1 DEF Pending
  <2>3. ASSUME NEW n \in Node
        PROVE  Held(n)' = Held(n) /\ News(n)' = News(n) /\ Covered(n)' /\ Coming(n)' = Coming(n)
    <3>1. Held(n)' = Held(n) /\ News(n)' = News(n) /\ \A e \in AtNode(n) : e \in End
      BY <2>1 DEF Held, News, Run, AtNode
    <3>2. Covered(n)' /\ Coming(n)' = Coming(n)
      BY <1>1, <2>2, <3>1, SameCovered DEF Connected
    <3> QED BY <3>1, <3>2
  <2>4. ASSUME NEW m \in Node, NEW n \in Node, m # n PROVE Reaching(m, n)'
    <3>1. Reaching(m, n)
      BY <1>1, <2>4 DEF Connected
    <3>2. pc'[Run(n)] = pc[Run(n)] /\ arg'[Run(n)] = arg[Run(n)]
          /\ chain'[n].currentTip = chain[n].currentTip
      BY <2>1 DEF Run
    <3> QED BY <2>3, <3>1, <3>2, ReachingKept
  <2>5. \A e \in End : pc'[e] # "idle" => e \in open'
    BY <1>1, <2>1 DEF Connected
  <2> QED BY <2>3, <2>4, <2>5 DEF Connected
<1>3. ASSUME NEW p \in Caller, InsertStep(p) PROVE Connected'
  <2>1. CASE p[2] = "run"
    BY <1>1, <1>3, <2>1, CallerFacts, RunConnected
  <2>2. CASE p[2] # "run"
    BY <1>1, <1>3, <2>2, CallerFacts, HandlerStepConnected
  <2> QED BY <2>1, <2>2
<1> QED BY <1>1, <1>2, <1>3, ServingConnected, SealConnected, AnnounceConnected,
           ReadConnected, NextSplit

LEMMA ConnectedInit == NetworkInit /\ SameGenesis => Connected
<1> SUFFICES ASSUME NetworkInit, SameGenesis PROVE Connected
  OBVIOUS
<1>1. /\ \A p \in Caller : pc[p] = "idle"
      /\ \A e \in End : inbox[e] = <<>>
  BY DEF NetworkInit, ServerInit
<1>2. \A n \in Node : Coming(n) = {}
  <2>1. \A e \in End : Told(Pending(e)) = {}
    BY <1>1, CallerFacts DEF Told, Pending, Early
  <2> QED BY <2>1 DEF Coming, AtNode
<1>3. PICK g \in Geneses : chain = [n \in Node |-> GenesisChain(g[n])]
  BY DEF NetworkInit
<1>4. ASSUME NEW n \in Node
      PROVE  /\ chain[n].blocks = {g[n]} /\ chain[n].currentTip = g[n]
             /\ chain[n].genesisHash = g[n]
  BY <1>3, NetworkAssumption, GenesisSound
<1>5. ASSUME NEW m \in Node, NEW n \in Node PROVE Reaching(m, n)
  <2>1. pc[Run(n)] = "idle"
    BY <1>1, CallerFacts
  <2> QED BY <1>4, <2>1 DEF Reaching, SameGenesis, Held
<1>6. \A n \in Node : Covered(n)
  BY <1>2 DEF Covered
<1> QED BY <1>1, <1>5, <1>6, CallerFacts DEF Connected

LEMMA IntactInit == NetworkInit => \A e \in End : Intact(e)
  BY EndFacts, CallerFacts DEF NetworkInit, ServerInit, Intact

LEMMA AgreementInvInit == NetworkInit => AgreementInv
  BY ServerInitInv, StoresInit, AnnouncedInit, IntactInit, ConnectedInit
  DEF AgreementInv, Undisturbed

LEMMA AgreementInvNext ==
    ASSUME TwoNodes, OneNetwork, AgreementInv, [NetworkNext]_networkVars
    PROVE  AgreementInv'
<1>1. ServerInv' /\ StoresInv' /\ AnnouncedInv'
  BY ServerNext, StoresNext, AnnouncedNext DEF AgreementInv
<1>2. AllRunning' => \A e \in End : Intact(e)'
  BY IntactNext DEF AgreementInv
<1>3. Undisturbed' => Connected'
  BY ConnectedNext DEF AgreementInv
<1> QED BY <1>1, <1>2, <1>3 DEF AgreementInv

\* Of two nodes that have compared each other's tips, and whose tips are the best
\* of what they have compared, neither has another one.
LEMMA ComparedAgree ==
    ASSUME NEW s, NEW t, Sound(s), Sound(t), Selected(s), Selected(t), SameWork(s, t),
           s.currentTip \in t.decided, t.currentTip \in s.decided
    PROVE  s.currentTip = t.currentTip
<1> DEFINE a == s.currentTip
           b == t.currentTip
<1>1. /\ a \in s.blocks /\ b \in t.blocks /\ a \in t.blocks /\ b \in s.blocks
  BY DEF Sound, Consistent, Coherent
<1>2. ~Beats(s, b, a) /\ ~Beats(t, a, b)
  BY DEF Selected, BestOfDecided
<1>3. s.totalWork[a] = t.totalWork[a] /\ s.totalWork[b] = t.totalWork[b]
  BY <1>1 DEF SameWork
<1>4. /\ a \in Nat /\ b \in Nat /\ s.totalWork[a] \in Nat /\ s.totalWork[b] \in Nat
  BY <1>1, WorkIsNumber DEF Sound
<1> QED BY <1>2, <1>3, <1>4 DEF Beats, Better

\* What is inserted and not being inserted has been compared.
LEMMA InsertedCompared ==
    ASSUME StoresInv, NEW n \in Node, NEW h \in Inserted(n)
    PROVE  h \in chain[n].decided
<1>1. h \in chain[n].blocks
  BY DEF Inserted
<1>2. ASSUME h \notin chain[n].decided PROVE FALSE
  <2>1. PICK p \in Caller : pc[p] \in Comparing /\ arg[p] = h /\ HostOf(p) = n
    BY <1>1, <1>2 DEF StoresInv, StoreInv
  <2>2. pc[p] # "idle"
    BY <2>1 DEF Comparing
  <2> QED BY <2>1, <2>2 DEF Inserted
<1> QED BY <1>2

LEMMA AgreementFollows == AgreementInv => Agreement
<1> SUFFICES ASSUME AgreementInv, lossless, Quiet, overwritten = {}, AllRunning, SameGenesis,
                    NEW m \in Node, NEW n \in Node, m # n
             PROVE  chain[m].currentTip = chain[n].currentTip
  BY Zenon DEF Agreement, AllRunning, SameGenesis
<1>1. Connected /\ StoresInv /\ ServerInv
  BY DEF AgreementInv, Undisturbed
<1>2. /\ \A e \in End : pc[e] = "idle"
      /\ \A k \in Node : pc[Run(k)] \in {"idle", "validate"}
      /\ \A p \in Caller : pc[p] \notin Comparing
  BY CallerFacts DEF Quiet, Comparing
<1>3. \A k \in Node : Coming(k) = {} /\ News(k) = {}
  <2>1. ASSUME NEW e \in End PROVE Told(Pending(e)) = {}
    <3>1. Pending(e) = inbox[e]
      BY <1>2 DEF Pending, Early
    <3>2. ASSUME Told(inbox[e]) # {} PROVE FALSE
      <4>1. HasNews(e)
        BY <3>2 DEF HasNews, Told
      <4>2. handler[e] = "ended"
        BY <4>1 DEF Quiet
      <4> QED BY <1>1, <3>2, <4>2, TellingInUse DEF Live
    <3> QED BY <3>1, <3>2
  <2> QED BY <1>2, <2>1 DEF Coming, AtNode, News
<1>4. chain[n].currentTip \in Held(m) /\ chain[m].currentTip \in Held(n)
  BY <1>1, <1>3 DEF Connected, Reaching
<1>5. ASSUME NEW k \in Node
      PROVE  Sound(chain[k]) /\ Selected(chain[k]) /\ Held(k) \subseteq chain[k].decided
  BY <1>1, <1>2 DEF StoresInv, StoreInv, Held
<1> QED BY <1>1, <1>4, <1>5, ComparedAgree DEF StoresInv

\* Two nodes of one network whose connections lose nothing and of which no call of
\* InsertBlock overwrote a better tip agree on the tip once what was announced has
\* been read and inserted, whatever they mined and when, over however many
\* connections, in whatever order they were announced to, and however Run and the
\* handlers took turns within their calls.
THEOREM TwoNodesAgree ==
    ASSUME TwoNodes, OneNetwork
    PROVE  NetworkSpec => []Agreement
<1>1. AgreementInv /\ [NetworkNext]_networkVars => AgreementInv'
  BY AgreementInvNext
<1> QED BY <1>1, AgreementInvInit, AgreementFollows, PTL DEF NetworkSpec

-----------------------------------------------------------------------------
LEMMA StoresInvariance == NetworkSpec => [](ServerInv /\ StoresInv)
<1>1. NetworkInit => ServerInv /\ StoresInv
  BY ServerInitInv, StoresInit
<1>2. ServerInv /\ StoresInv /\ [NetworkNext]_networkVars => (ServerInv /\ StoresInv)'
  BY ServerNext, StoresNext
<1> QED BY <1>1, <1>2, PTL DEF NetworkSpec

\* Any number of nodes, of any networks, whose connections break and which stop
\* at any time, with the calls of InsertBlock of each node interleaved: nodes that
\* have inserted each other's tips, and of which no call overwrote a better tip,
\* have the same tip.
THEOREM TipsAgreeWhenHeld == NetworkSpec => []TipsConverge
<1>1. StoresInv => TipsConverge
  <2> SUFFICES ASSUME StoresInv, NEW m \in Node \ overwritten, NEW n \in Node \ overwritten,
                      chain[m].currentTip \in Inserted(n), chain[n].currentTip \in Inserted(m)
               PROVE  chain[m].currentTip = chain[n].currentTip
    BY DEF TipsConverge
  <2>1. /\ Sound(chain[m]) /\ Selected(chain[m]) /\ Sound(chain[n]) /\ Selected(chain[n])
        /\ SameWork(chain[m], chain[n])
    BY DEF StoresInv, StoreInv
  <2>2. chain[m].currentTip \in chain[n].decided /\ chain[n].currentTip \in chain[m].decided
    BY InsertedCompared
  <2> QED BY <2>1, <2>2, ComparedAgree
<1> QED BY <1>1, StoresInvariance, PTL
=============================================================================
