------------------------------- MODULE Network -------------------------------
(***************************************************************************)
(* pkg/node and pkg/p2p together: nodes that mine, announce the blocks     *)
(* that became their tips, and insert what they hear.                      *)
(*                                                                         *)
(* Each node starts from a genesis block it sealed itself, or found in its *)
(* datadir.  Node.Run and the handler of every connection insert blocks    *)
(* into the one store of their node, each by a call of InsertBlock that is *)
(* the sequence of steps of module Validator; the calls of one node        *)
(* interleave.  All clocks agree, no node restarts (module Node), and      *)
(* chain.json can always be written.                                       *)
(***************************************************************************)
EXTENDS Server, Rules

CONSTANTS
    Geneses,        \* what the nodes may start from, as functions
    Bits,           \* cfg.Genesis.Bits
    MaxHeight,      \* bound: nothing is mined above this height
    Mining          \* bound: up to which height each node may mine, as functions;
                    \* height 0 is a node run with --no-mine

ASSUME NetworkAssumption ==
    /\ Geneses \subseteq [Node -> {h \in Hash : Header[h].height = 0 /\ ValidAlone(Header[h])
                                                 /\ ValidParent(Empty, Header[h])}]
    /\ MaxHeight \in Nat
    /\ Mining \subseteq [Node -> 0..MaxHeight]
    /\ NoMessage \notin Hash

\* The goroutines that insert blocks: Node.Run of each node, and the handlers.
Caller == (Node \X {"run"}) \cup End
Run(n) == <<n, "run">>
HostOf(p) == IF p[2] = "run" THEN p[1] ELSE NodeOf(p)

VARIABLES
    mines,          \* the bound of each node
    chain,          \* the contents of each node's store
    pc,             \* where each goroutine is in InsertBlock; Run is at
                    \* "validate" from when it mines, at "announce" when the
                    \* block became the tip
    arg,            \* the block it is inserting, or ZeroHash
    work,           \* its local totalWork, once computed
    lossless,       \* history: whether no announced block has failed to reach
                    \* a node, or was lost with its connection, or was still
                    \* being inserted when the connection was
    overwritten     \* history: the nodes where a call made its block the tip
                    \* over one that had become the tip since it compared them,
                    \* and that it would not have replaced

callVars == <<pc, arg, work>>
nodeVars == <<mines, chain, callVars, overwritten>>
networkVars == <<serverVars, nodeVars, lossless>>

-----------------------------------------------------------------------------
\* InitGenesis on an empty datadir.
GenesisChain(g) == WithTip(WithBlock(Empty, g, CalcBlockWork(Header[g].target)), g)

NetworkInit ==
    /\ ServerInit
    /\ mines \in Mining
    /\ \E g \in Geneses : chain = [n \in Node |-> GenesisChain(g[n])]
    /\ pc = [p \in Caller |-> "idle"]
    /\ arg = [p \in Caller |-> ZeroHash]
    /\ work = [p \in Caller |-> 0]
    /\ lossless = TRUE /\ overwritten = {}

HasNews(e) == \E i \in DOMAIN inbox[e] : inbox[e][i] # NoMessage

\* A step of the servers; it may end a connection with a block unread.
ServerStep(A) ==
    /\ A
    /\ lossless' = (lossless /\ \A e \in End :
                      /\ HasNews(e) => handler'[e] # "ended" /\ inbox'[e] # <<>>
                      /\ pc[e] # "idle" => e \in open')
    /\ UNCHANGED nodeVars

-----------------------------------------------------------------------------
\* InsertBlock(store, block) in goroutine p: each step holds the store's lock.
Store(p) == chain[HostOf(p)]
SetStore(p, s) == chain' = [chain EXCEPT ![HostOf(p)] = s]

Begin(p, h) ==
    /\ pc' = [pc EXCEPT ![p] = "validate"]
    /\ arg' = [arg EXCEPT ![p] = h]
    /\ UNCHANGED work

Continue(p, l) ==
    /\ pc' = [pc EXCEPT ![p] = l]
    /\ UNCHANGED <<handler, arg>>

\* A handler reads on when the call has returned.
Return(p) ==
    /\ pc' = [pc EXCEPT ![p] = "idle"]
    /\ arg' = [arg EXCEPT ![p] = ZeroHash]
    /\ work' = [work EXCEPT ![p] = 0]
    /\ IF p[2] = "run" THEN UNCHANGED handler ELSE ReadOn(p)

Validate(p) ==
    /\ pc[p] = "validate"
    /\ IF ValidateHeader(Store(p), Header[arg[p]], MaxHeight)
       THEN Continue(p, "hasBlock") /\ UNCHANGED work
       ELSE Return(p)
    /\ UNCHANGED <<chain, overwritten>>

CheckKnown(p) ==
    /\ pc[p] = "hasBlock"
    /\ IF HasBlock(Store(p), arg[p])
       THEN Return(p)
       ELSE Continue(p, "parentWork") /\ UNCHANGED work
    /\ UNCHANGED <<chain, overwritten>>

ParentWork(p) ==
    /\ pc[p] = "parentWork"
    /\ IF Header[arg[p]].height > 0 /\ ~HasBlock(Store(p), Header[arg[p]].parentHash)
       THEN Return(p)
       ELSE Continue(p, "store") /\ work' = [work EXCEPT ![p] = AddWork(Store(p), arg[p])]
    /\ UNCHANGED <<chain, overwritten>>

StoreBlock(p) ==
    /\ pc[p] = "store"
    /\ SetStore(p, WithBlock(Store(p), arg[p], work[p]))
    /\ Continue(p, "compare")
    /\ UNCHANGED <<work, overwritten>>

\* Whether the block beats the tip of this moment.
Wins(p) ==
    SelectBestChainByTotalWork(Store(p).currentTip, TipWork(Store(p)), arg[p], work[p])
      = arg[p]

Compare(p) ==
    /\ pc[p] = "compare"
    /\ IF Wins(p)
       THEN Continue(p, "setTip") /\ UNCHANGED <<chain, work>>
       ELSE SetStore(p, Decided(Store(p), arg[p], Store(p).currentTip)) /\ Return(p)
    /\ UNCHANGED overwritten

\* Acts on what Compare decided.  Run goes on to announce the block.
SetTip(p) ==
    /\ pc[p] = "setTip"
    /\ SetStore(p, WithTip(Store(p), arg[p]))
    /\ overwritten' = IF Wins(p) THEN overwritten ELSE overwritten \cup {HostOf(p)}
    /\ IF p[2] = "run"
       THEN Continue(p, "announce") /\ UNCHANGED work
       ELSE Return(p)

InsertStep(p) ==
    /\ \/ Validate(p)
       \/ CheckKnown(p)
       \/ ParentWork(p)
       \/ StoreBlock(p)
       \/ Compare(p)
       \/ SetTip(p)
    /\ UNCHANGED <<network, dial, link, open, inbox, greeted, peers, ctx, mines, lossless>>

-----------------------------------------------------------------------------
\* mineNextBlock takes the tip of this moment.
Seal(n) ==
    /\ pc[Run(n)] = "idle" /\ ~Done(n)
    /\ \E h \in Hash :
         /\ Header[h].parentHash = chain[n].currentTip
         /\ Header[h].height \in 1..mines[n]
         /\ Header[h].target = Bits
         /\ ValidAlone(Header[h])
         /\ Begin(Run(n), h)
    /\ UNCHANGED <<serverVars, mines, chain, lossless, overwritten>>

Announce(n) ==
    /\ pc[Run(n)] = "announce"
    /\ inbox' = Broadcast(n, arg[Run(n)])
    /\ Return(Run(n))
    /\ lossless' = (lossless /\ \A m \in Node \ {n} :
                      \E e \in End : inbox'[e] # inbox[e] /\ NodeOf(e) = m)
    /\ UNCHANGED <<network, dial, link, open, greeted, peers, ctx, mines, chain,
                   overwritten>>

\* onNewBlock, up to its own look at HasBlock: the block is known, or a call
\* of InsertBlock begins.  Nothing is passed on, and a block without its
\* parent is gone.
ReadNewBlock(e) ==
    /\ pc[e] = "idle"
    /\ CanRead(e) /\ Head(inbox[e]) # NoMessage
    /\ inbox' = [inbox EXCEPT ![e] = Tail(@)]
    /\ IF HasBlock(Store(e), Head(inbox[e]))
       THEN ReadOn(e) /\ UNCHANGED callVars
       ELSE Begin(e, Head(inbox[e])) /\ UNCHANGED handler
    /\ UNCHANGED <<network, dial, link, open, greeted, peers, ctx, mines, chain, lossless,
                   overwritten>>

Work(n) == InsertStep(Run(n)) \/ Announce(n)

\* The goroutine of one end; it handles one message at a time.
Serve(e) ==
    \/ pc[e] = "idle" /\ ServerStep(Handle(e))
    \/ ReadNewBlock(e)
    \/ InsertStep(e)

NetworkNext ==
    \/ \E n \in Node : Seal(n) \/ Work(n) \/ ServerStep(Stop(n)) \/ ServerStep(Closing(n))
    \/ \E e \in End : Serve(e)
    \/ \E b \in Bootnodes : ServerStep(Dialling(b))
    \/ \E c \in Conn : ServerStep(Break(c))

NetworkSpec == NetworkInit /\ [][NetworkNext]_networkVars

\* The Go scheduler runs every runnable goroutine; a dial that is tried over
\* and over while the other node listens succeeds in the end.
FairNetworkSpec ==
    /\ NetworkSpec
    /\ \A n \in Node : WF_networkVars(Work(n)) /\ WF_networkVars(ServerStep(Closing(n)))
    /\ \A e \in End : WF_networkVars(Serve(e))
    /\ \A b \in Bootnodes :
         /\ WF_networkVars(ServerStep(Dialling(b)))
         /\ SF_networkVars(ServerStep(Dial(b)))

-----------------------------------------------------------------------------
\* Nobody is inserting a block but Run the one it mines, nothing is being
\* announced, and no announced block waits to be read.
Quiet ==
    /\ \A p \in Caller : pc[p] = "idle" \/ (p[2] = "run" /\ pc[p] = "validate")
    /\ \A e \in End : HasNews(e) => handler[e] = "ended"

\* As long as connections lose nothing and no call of InsertBlock overwrites a
\* better tip that was set after it looked, two nodes of one network with one
\* genesis agree on the tip once what was announced has been read and inserted.
\* It is so although each mines on the tip of an earlier moment, inserts its own
\* blocks between the steps of its handlers, hears the other's blocks in another
\* order than they were made, may read a child over one connection while another
\* handler is still inserting the parent, and never hears of a mined block that
\* did not become its maker's tip.  The overlap the property excludes is the one
\* of run "race" and does happen; every other overlap of Run and the handlers is
\* allowed.  It is so of two nodes only: a third one that hears a block of the
\* second before the block of the first that it is made on drops it for good.
Agreement ==
    (/\ lossless /\ Quiet /\ overwritten = {}
     /\ \A n \in Node : ctx[n] = "running"
     /\ \A m, n \in Node : chain[m].genesisHash = chain[n].genesisHash) =>
       \A m, n \in Node : chain[m].currentTip = chain[n].currentTip

\* What node n has inserted, and is not inserting at this moment.
Inserted(n) ==
    chain[n].blocks \ {arg[p] : p \in {q \in Caller : pc[q] # "idle" /\ HostOf(q) = n}}

\* Which of two tips a node keeps does not depend on the order in which it heard
\* the blocks, on how its goroutines took turns, or on what else it holds: two
\* nodes that have each inserted the other's tip have the same one, of however
\* many nodes, also when the two tie in work, each mined its own one first,
\* messages were lost or calls are in progress, unless a call has overwritten a
\* better tip of one of them, as it does in run "race".
TipsConverge ==
    \A m, n \in Node \ overwritten :
      (/\ chain[m].currentTip \in Inserted(n)
       /\ chain[n].currentTip \in Inserted(m)) =>
         chain[m].currentTip = chain[n].currentTip

\* README.md:338 "Pattern 2: second mining node joining the first node": when
\* a connection to a bootnode comes to stay, the two nodes come to share a
\* block.
JoinersShareBlocks ==
    \A b \in Bootnodes :
      <>[](/\ dial[b] = "serve" /\ ~Done(b[1]) /\ ~Done(b[2])
           /\ \E c \in Conn : link[c] = <<b>> /\ {<<c, "out">>, <<c, "in">>} \subseteq open)
        => <>(chain[b[1]].blocks \cap chain[b[2]].blocks # {})
=============================================================================
