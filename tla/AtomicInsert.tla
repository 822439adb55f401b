---------------------------- MODULE AtomicInsert ----------------------------
(***************************************************************************)
(* What a call of Validator.InsertBlock promises, without its steps: the   *)
(* block takes effect at one moment between the call and its return.  A    *)
(* rewrite of the file may fail, and then the caller hears of an error; a  *)
(* restart finds the chain as it was saved.                                *)
(*                                                                         *)
(* What a chain is, and which blocks it accepts, is left open.             *)
(***************************************************************************)
EXTENDS Integers

CONSTANTS
    Caller,             \* the goroutines that insert
    Block,
    None,               \* no block yet
    NoChain,            \* the chain without a block
    Accepts(_, _, _),   \* whether a chain accepts a block at a time
    Has(_, _),          \* whether a chain holds a block
    Half(_, _),         \* the chain with the block, not compared with the tip
    Whole(_, _),        \* the chain with the block, compared with the tip
    TipOf(_)

VARIABLES
    chain,              \* the chain as the callers see it
    saved,              \* the chain a restart finds
    time,
    block,              \* the block each caller inserts
    state               \* how far each call has got, or how it returned

atomicVars == <<chain, saved, time, block, state>>

\* A call is made; it is made and has taken effect, with the block as the
\* new tip or without.
InProgress == {"called", "won", "lost"}

AtomicInit ==
    /\ chain = NoChain /\ saved = NoChain
    /\ time \in Nat
    /\ block = [p \in Caller |-> None]
    /\ state = [p \in Caller |-> "idle"]

Becomes(p, s) == state' = [state EXCEPT ![p] = s]

Submit(p) ==
    /\ state[p] \notin InProgress
    /\ Becomes(p, "called")
    /\ \E b \in Block : block' = [block EXCEPT ![p] = b]
    /\ UNCHANGED <<chain, saved, time>>

\* The block is refused by the chain of this moment, or known to it.
Decline(p) ==
    /\ state[p] = "called"
    /\ \/ ~Accepts(chain, block[p], time) /\ Becomes(p, "error")
       \/ Accepts(chain, block[p], time) /\ Has(chain, block[p]) /\ Becomes(p, "known")
    /\ UNCHANGED <<chain, saved, time, block>>

New(p) == Accepts(chain, block[p], time) /\ ~Has(chain, block[p])

\* A restart that comes now finds the block, and no decision on it.
TakeEffect(p) ==
    /\ state[p] = "called" /\ New(p)
    /\ chain' = Whole(chain, block[p])
    /\ saved' = Half(chain, block[p])
    /\ Becomes(p, IF TipOf(chain') = block[p] THEN "won" ELSE "lost")
    /\ UNCHANGED <<time, block>>

\* The block is not written: it is kept in memory, and never decided upon.
BreakOff(p) ==
    /\ state[p] = "called" /\ New(p)
    /\ chain' = Half(chain, block[p])
    /\ Becomes(p, "error")
    /\ UNCHANGED <<saved, time, block>>

\* Only a call that moved the tip has something left to save, which may fail.
Return(p) ==
    /\ \/ state[p] = "lost" /\ Becomes(p, "side") /\ UNCHANGED saved
       \/ state[p] = "won" /\ Becomes(p, "tip") /\ saved' = chain
       \/ state[p] = "won" /\ Becomes(p, "error") /\ UNCHANGED saved
    /\ UNCHANGED <<chain, time, block>>

Pass == time' = time + 1 /\ UNCHANGED <<block, chain, saved, state>>

Restart ==
    /\ block' = [p \in Caller |-> None]
    /\ state' = [p \in Caller |-> "idle"]
    /\ chain' = saved
    /\ UNCHANGED <<saved, time>>

AtomicNext ==
    \/ Restart
    \/ Pass
    \/ \E p \in Caller :
         Submit(p) \/ Decline(p) \/ TakeEffect(p) \/ BreakOff(p) \/ Return(p)

AtomicSpec == AtomicInit /\ [][AtomicNext]_atomicVars
=============================================================================
