------------------------------- MODULE Server --------------------------------
(***************************************************************************)
(* pkg/p2p: the TCP server of every node, and the network between them.    *)
(*                                                                         *)
(* A node dials each of its bootnodes again and again and accepts whoever  *)
(* dials it.  Each end of a connection has a goroutine, handleConn, that   *)
(* enters a Peer into the node's PeerSet, sends a hello, and then reads    *)
(* and handles one message at a time until reading fails.  The entry's key *)
(* is the remote address as long as the peer's ID is not known, and the ID *)
(* afterwards.                                                             *)
(*                                                                         *)
(* A connection delivers in order what was sent before it broke.  Of the   *)
(* messages, status, ping and pong change nothing but log lines and fields *)
(* nobody reads; they are left out, and a Send is taken not to block.      *)
(***************************************************************************)
EXTENDS Naturals, Sequences

CONSTANTS
    Node,
    Bootnodes,      \* the pairs <<n, m>> such that m is a bootnode of n
    NetworkID,      \* the values of cfg.Network
    MaxConns,       \* bound: the number of connections ever made
    Breaking,       \* bound: the connections the network may drop
    Stopping,       \* bound: the nodes that may be told to stop
    NoMessage       \* the payload of a hello

ASSUME ServerAssumption ==
    /\ Bootnodes \subseteq {b \in Node \X Node : b[1] # b[2]}
    /\ MaxConns \in Nat
    /\ Stopping \subseteq Node

Conn == 1..MaxConns
End == Conn \X {"out", "in"}
Other(e) == <<e[1], IF e[2] = "out" THEN "in" ELSE "out">>

VARIABLES
    network,        \* cfg.Network of each node
    dial,           \* where each dialLoop is
    link,           \* the bootnode each connection was made to, as <<>> or <<b>>
    handler,        \* where handleConn is, for each end
    open,           \* the ends their own node has not closed
    inbox,          \* the messages that are on the way to, or lie at, an end
    greeted,        \* the ends whose Peer has an ID
    peers,          \* the PeerSet of each node
    ctx             \* how far each node has got with shutting down

connVars == <<link, handler, open, inbox, greeted>>
serverVars == <<network, dial, connVars, peers, ctx>>

-----------------------------------------------------------------------------
NodeOf(e) == link[e[1]][1][IF e[2] = "out" THEN 1 ELSE 2]
RemoteOf(e) == NodeOf(Other(e))
InUse(c) == link[c] # <<>>

Done(n) == ctx[n] # "running"
Listening(n) == ctx[n] \in {"running", "done"}

\* Mutant of AddrKey: the port and the direction are left out.
AddrKeyHost(e) == <<"addr", RemoteOf(e)>>

\* The remote address and the direction: a bootnode's address is the same
\* for every connection to it, one that dialled has a port of its own.
AddrKey(e) == <<"addr", IF e[2] = "out" THEN RemoteOf(e) ELSE e, e[2]>>

peerKey(e) == IF e \in greeted THEN <<"id", RemoteOf(e)>> ELSE AddrKey(e)

Without(n, key) == {p \in peers[n] : p.key # key}

Goto(e, l) == handler' = [handler EXCEPT ![e] = l]

\* The inboxes after node n has sent msg to these of its ends.
Sent(ends, msg) ==
    [e \in End |-> IF Other(e) \in ends \cap open /\ e \in open
                   THEN Append(inbox[e], msg) ELSE inbox[e]]

\* Server.Broadcast: to every entry of the PeerSet, errors ignored.
Broadcast(n, msg) == Sent({p.end : p \in peers[n]}, msg)

ServerInit ==
    /\ network \in [Node -> NetworkID]
    /\ dial = [b \in Bootnodes |-> "dial"]
    /\ link = [c \in Conn |-> <<>>]
    /\ handler = [e \in End |-> "none"]
    /\ open = {} /\ greeted = {}
    /\ inbox = [e \in End |-> <<>>]
    /\ peers = [n \in Node |-> {}]
    /\ ctx = [n \in Node |-> "running"]

\* The connection is established, which a context that is done by now does not
\* prevent; the accepting side learns of it in Accept.
Dial(b) ==
    /\ dial[b] = "dial" /\ Listening(b[2])
    /\ \E c \in Conn :
         /\ ~InUse(c) /\ \A d \in 1..(c - 1) : InUse(d)
         /\ link' = [link EXCEPT ![c] = <<b>>]
         /\ handler' = [handler EXCEPT ![<<c, "out">>] = "add", ![<<c, "in">>] = "accept"]
         /\ open' = open \cup {<<c, "out">>, <<c, "in">>}
    /\ dial' = [dial EXCEPT ![b] = "serve"]
    /\ UNCHANGED <<network, inbox, greeted, peers, ctx>>

DialFails(b) ==
    /\ dial[b] = "dial"
    /\ dial' = [dial EXCEPT ![b] = "wait"]
    /\ UNCHANGED <<network, connVars, peers, ctx>>

\* The ticker fires, and the context is not done; or it is, wherever the loop
\* looks for it.
NextDial(b) ==
    \/ /\ dial[b] = "wait" /\ ~Done(b[1])
       /\ dial' = [dial EXCEPT ![b] = "dial"]
       /\ UNCHANGED <<network, connVars, peers, ctx>>
    \/ /\ dial[b] = "wait" /\ Done(b[1])
       /\ dial' = [dial EXCEPT ![b] = "ended"]
       /\ UNCHANGED <<network, connVars, peers, ctx>>

\* acceptLoop, or the listener's end before the connection was accepted.
Accept(e) ==
    /\ handler[e] = "accept"
    /\ IF Listening(NodeOf(e))
       THEN Goto(e, "add") /\ UNCHANGED <<open, inbox>>
       ELSE Goto(e, "ended") /\ open' = open \ {e} /\ inbox' = [inbox EXCEPT ![e] = <<>>]
    /\ UNCHANGED <<network, dial, link, greeted, peers, ctx>>

AddPeer(e) ==
    /\ handler[e] = "add"
    /\ LET n == NodeOf(e)
           key == peerKey(e)
       IN  peers' = [peers EXCEPT ![n] = Without(n, key) \cup {[key |-> key, end |-> e]}]
    /\ Goto(e, "greet")
    /\ UNCHANGED <<network, dial, link, open, inbox, greeted, ctx>>

Greet(e) ==
    /\ handler[e] = "greet"
    /\ inbox' = Sent({e}, NoMessage)
    /\ Goto(e, "read")
    /\ UNCHANGED <<network, dial, link, open, greeted, peers, ctx>>

\* After a message: handleConn looks at the context, and reads on.
ReadOn(e) == Goto(e, IF Done(NodeOf(e)) THEN "remove" ELSE "read")

CanRead(e) == handler[e] = "read" /\ e \in open /\ inbox[e] # <<>>

\* OnHello: a peer of another network is hung up on.
ReadHello(e) ==
    /\ CanRead(e) /\ Head(inbox[e]) = NoMessage
    /\ inbox' = [inbox EXCEPT ![e] = Tail(@)]
    /\ greeted' = greeted \cup {e}
    /\ open' = IF network[RemoteOf(e)] # network[NodeOf(e)] THEN open \ {e} ELSE open
    /\ ReadOn(e)
    /\ UNCHANGED <<network, dial, link, peers, ctx>>

\* The node has closed its end, or the remote one has and nothing is left.
ReadFails(e) ==
    /\ handler[e] = "read"
    /\ e \notin open \/ (inbox[e] = <<>> /\ Other(e) \notin open)
    /\ Goto(e, "remove")
    /\ UNCHANGED <<network, dial, link, open, inbox, greeted, peers, ctx>>

\* Mutant of RemovePeer: the connection is not closed.
RemovePeerOnly(e) ==
    /\ handler[e] = "remove"
    /\ peers' = [peers EXCEPT ![NodeOf(e)] = Without(NodeOf(e), peerKey(e))]
    /\ dial' = IF e[2] = "out" THEN [dial EXCEPT ![link[e[1]][1]] = "wait"] ELSE dial
    /\ Goto(e, "ended")
    /\ UNCHANGED <<network, link, open, inbox, greeted, ctx>>

\* Mutant of RemovePeer: the dialLoop ends with its first connection.
RemovePeerLast(e) ==
    /\ handler[e] = "remove"
    /\ peers' = [peers EXCEPT ![NodeOf(e)] = Without(NodeOf(e), peerKey(e))]
    /\ open' = open \ {e}
    /\ dial' = IF e[2] = "out" THEN [dial EXCEPT ![link[e[1]][1]] = "ended"] ELSE dial
    /\ inbox' = [inbox EXCEPT ![e] = <<>>]
    /\ Goto(e, "ended")
    /\ UNCHANGED <<network, link, greeted, ctx>>

\* Mutant of RemovePeer: the entry is looked for under the ID.
RemovePeerByID(e) ==
    /\ handler[e] = "remove"
    /\ peers' = [peers EXCEPT ![NodeOf(e)] = Without(NodeOf(e), <<"id", RemoteOf(e)>>)]
    /\ open' = open \ {e}
    /\ dial' = IF e[2] = "out" THEN [dial EXCEPT ![link[e[1]][1]] = "wait"] ELSE dial
    /\ inbox' = [inbox EXCEPT ![e] = <<>>]
    /\ Goto(e, "ended")
    /\ UNCHANGED <<network, link, greeted, ctx>>

\* handleConn returns: the entry under the peer's present key is deleted and
\* the connection closed.
RemovePeer(e) ==
    /\ handler[e] = "remove"
    /\ peers' = [peers EXCEPT ![NodeOf(e)] = Without(NodeOf(e), peerKey(e))]
    /\ open' = open \ {e}
    /\ dial' = IF e[2] = "out" THEN [dial EXCEPT ![link[e[1]][1]] = "wait"] ELSE dial
    /\ inbox' = [inbox EXCEPT ![e] = <<>>]
    /\ Goto(e, "ended")
    /\ UNCHANGED <<network, link, greeted, ctx>>

\* The network drops a connection, and what was on the way: both ends see
\* the other one closed.
Break(c) ==
    /\ c \in Breaking
    /\ {<<c, "out">>, <<c, "in">>} \subseteq open
    /\ open' = open \ {<<c, "out">>, <<c, "in">>}
    /\ inbox' = [inbox EXCEPT ![<<c, "out">>] = <<>>, ![<<c, "in">>] = <<>>]
    /\ UNCHANGED <<network, dial, link, handler, greeted, peers, ctx>>

Stop(n) ==
    /\ n \in Stopping
    /\ ctx[n] = "running"
    /\ ctx' = [ctx EXCEPT ![n] = "done"]
    /\ UNCHANGED <<network, dial, connVars, peers>>

CloseListener(n) ==
    /\ ctx[n] = "done"
    /\ ctx' = [ctx EXCEPT ![n] = "unlistened"]
    /\ UNCHANGED <<network, dial, connVars, peers>>

\* Mutant of CloseConns: the connections are left to themselves.
CloseNothing(n) ==
    /\ ctx[n] = "unlistened"
    /\ ctx' = [ctx EXCEPT ![n] = "closed"]
    /\ UNCHANGED <<network, dial, connVars, peers>>

\* Every connection that is in the PeerSet at this moment is closed.
CloseConns(n) ==
    /\ ctx[n] = "unlistened"
    /\ ctx' = [ctx EXCEPT ![n] = "closed"]
    /\ open' = open \ {p.end : p \in peers[n]}
    /\ UNCHANGED <<network, dial, link, handler, inbox, greeted, peers>>

\* What the goroutines of the servers do by themselves.
Handle(e) ==
    \/ Accept(e)
    \/ AddPeer(e)
    \/ Greet(e)
    \/ ReadHello(e)
    \/ ReadFails(e)
    \/ RemovePeer(e)

Dialling(b) == Dial(b) \/ DialFails(b) \/ NextDial(b)

Closing(n) == CloseListener(n) \/ CloseConns(n)

-----------------------------------------------------------------------------
ServerTypeOK ==
    /\ network \in [Node -> NetworkID]
    /\ dial \in [Bootnodes -> {"dial", "serve", "wait", "ended"}]
    /\ \A c \in Conn : link[c] = <<>> \/ \E b \in Bootnodes : link[c] = <<b>>
    /\ handler \in [End -> {"none", "accept", "add", "greet", "read", "remove", "ended"}]
    /\ open \subseteq End /\ greeted \subseteq End
    /\ \A n \in Node, p \in UNION {peers[m] : m \in Node} :
         p \in peers[n] => p.end \in End /\ NodeOf(p.end) = n
    /\ ctx \in [Node -> {"running", "done", "unlistened", "closed"}]
    /\ \A e \in End :
         /\ handler[e] = "none" <=> ~InUse(e[1])
         /\ handler[e] \in {"none", "ended"} => e \notin open /\ inbox[e] = <<>>
         /\ e[2] = "out" /\ handler[e] \notin {"none", "ended"} => dial[link[e[1]][1]] = "serve"

\* A broadcast reaches every connection somebody is serving: although an entry
\* is added under one key and deleted under another, and connections to one
\* bootnode follow each other under one key, no connection loses its entry
\* before its handler ends.
ServedPeersListed ==
    \A e \in End :
      handler[e] \in {"greet", "read", "remove"} =>
        \E p \in peers[NodeOf(e)] : p.end = e

\* An entry outlives its connection only when the peer had said hello, for it
\* was added under the address and is deleted under the ID; what outgoing
\* connections leave behind is one entry per bootnode, which the next
\* connection replaces.
EntriesLeftBehind ==
    \A n \in Node : \A p \in peers[n] :
      handler[p.end] = "ended" =>
        /\ p.end \in greeted
        /\ p.end[2] = "out" =>
             \A q \in peers[n] :
               q.end[2] = "out" /\ RemoteOf(q.end) = RemoteOf(p.end) => q = p

\* A bootnode is dialled, and dialled again when it refused or the connection
\* to it was lost, until it answers, for as long as both nodes run.
BootnodesRedialled ==
    \A b \in Bootnodes :
      dial[b] # "serve" ~>
        \/ dial[b] = "serve"
        \/ Done(b[1]) \/ Done(b[2])
        \/ \A c \in Conn : InUse(c)

\* When the context of a server is done all its goroutines end, although a
\* connection may be established, or enter the PeerSet, after the connections
\* of the PeerSet have been closed.
ServerStops ==
    \A n \in Node :
      Done(n) ~> /\ \A e \in End :
                      InUse(e[1]) /\ NodeOf(e) = n => handler[e] = "ended"
                 /\ \A b \in Bootnodes : b[1] = n => dial[b] = "ended"
=============================================================================
