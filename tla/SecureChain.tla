----------------------------- MODULE SecureChain -----------------------------
(***************************************************************************)
(* The hash chain of svalin_pki (secure_chain.rs) over the trust-store     *)
(* state (trust_store.rs), as operators on values.                         *)
(*                                                                         *)
(* Sha512 is taken to be collision free, so a block digest stands for      *)
(* everything it covers: the transaction of the block and, through         *)
(* previous_block_hash, every block before it.  A block is therefore       *)
(* represented by its history, the sequence of the certificates added by   *)
(* the blocks up to and including this one:                                *)
(*    sequence            = its length,                                    *)
(*    previous_block_hash = the history without its last element,          *)
(*    transaction         = Transaction::Add of its last element,          *)
(*    resulting_state     = the set of its elements.                       *)
(* Two blocks with one history are one block; two blocks with the same     *)
(* sequence and different histories are a fork.                            *)
(*                                                                         *)
(* Left out here: the clock tests of check (secure_chain.rs:138-152, see   *)
(* Certificates for them), the signature and the signer lookup (every      *)
(* block is signed by the root user, whose certificate is in every state)  *)
(* and Transaction::RemoveExpired, which no code packages.                 *)
(***************************************************************************)
EXTENDS Integers, SequencesExt

\* "No block": the last_block = None of an empty chain (sequence 0).
NoBlock == << >>

\* UncheckedBlock::sequence, and Chain::sequence when applied to last_block.
Sequence(block) == Len(block)

\* The block that previous_block_hash commits to.
PreviousBlock(block) == SubSeq(block, 1, Len(block) - 1)

\* The certificate of the block's Transaction::Add.
Transaction(block) == block[Len(block)]

\* The state that resulting_state commits to.
ResultingState(block) == { block[i] : i \in 1 .. Len(block) }

(***************************************************************************)
(* A chain in memory: struct Chain, its last_block and its state.          *)
(***************************************************************************)
\* Chain::import: the exported state must have the digest of last_block.
Import(block) == [last |-> block, state |-> ResultingState(block)]

\* State::check for Transaction::Add: the certificate is not yet known.
StateCheck(state, cert) == cert \notin state

\* State::apply for Transaction::Add.
StateApply(state, cert) == state \cup {cert}

\* Chain::package: the block that adds cert to chain.
Package(chain, cert) == Append(chain.last, cert)

\* Faulty variant: only the transaction is checked against the state.
CheckTransactionOnly(chain, block) == StateCheck(chain.state, Transaction(block))

\* Chain::check accepts block as the next block of chain.
Check(chain, block) ==
    /\ Sequence(block) = Sequence(chain.last) + 1
    /\ PreviousBlock(block) = chain.last
    /\ StateCheck(chain.state, Transaction(block))
    /\ StateApply(chain.state, Transaction(block)) = ResultingState(block)

\* Faulty variant: apply does not compare the state it reached.
ApplyPanicsNever(chain, block) == FALSE

\* Chain::apply panics: the state after block is not the one it commits to.
\* Nothing else is tested, neither the sequence nor previous_block_hash.
ApplyPanics(chain, block) ==
    StateApply(chain.state, Transaction(block)) # ResultingState(block)

\* Faulty variant: last_block is not replaced.
ApplyStateOnly(chain, block) ==
    [last  |-> chain.last, state |-> StateApply(chain.state, Transaction(block))]

\* Chain::apply: the state is changed first, last_block only without a panic.
Apply(chain, block) ==
    [last  |-> IF ApplyPanics(chain, block) THEN chain.last ELSE block,
     state |-> StateApply(chain.state, Transaction(block))]

\* Chain::digest: last_block and state; equal for equal chains only.
Digest(chain) == <<chain.last, chain.state>>

=============================================================================
