----------------------------- MODULE DrawEvidence -----------------------------
(***************************************************************************)
(* The evidence of an instant draw of one group of candidates: the         *)
(* commitment (services/sales/draw/commitment_store), the draws that rest  *)
(* on it (draw_engine), its anchor (anchor) and the contract DrawRegistry. *)
(*                                                                         *)
(* A commitment fixes a secret nonce, a roster and a future round of a     *)
(* public beacon.  Candidates are drawn one by one under its nonce; who    *)
(* finds everybody drawn sends the nonce to the chain and opens it.  A     *)
(* commitment can be voided and made again.  One action is one statement   *)
(* or one call; the last UPDATEs name the group, not the commitment they   *)
(* have read.  Which unit is drawn is left to SalesUnits.                  *)
(***************************************************************************)
EXTENDS Naturals, Sequences

CONSTANTS
    Candidates,
    NoDraw,          \* who has locked the row of the commitment
    MaxCommits,      \* bound: commitments made
    MaxDeaths        \* bound: calls that die half way

ASSUME EvidenceAssumption ==
    /\ NoDraw \notin Candidates
    /\ MaxCommits \in Nat /\ MaxDeaths \in Nat

VARIABLES
    enlisted,        \* sales_draw_candidates of the group
    commitment,      \* its row of sales_draw_commitments
    roster,          \* the roster each commitment was made for (numbered by their nonces)
    beacon,          \* nonces whose beacon round is published
    drawnUnder,      \* under which nonce a candidate was drawn, 0: not drawn
    lockedBy,        \* whose transaction has locked the row
    drawing,         \* the draw of each candidate, and the finalisation at its end
    clerk,           \* a commit_draw under way
    reader,          \* a _reconcile_anchor under way
    txs,             \* transactions sent to the chain, in the order of the account's nonces
    registry,        \* _draws[drawId] of DrawRegistry
    open,            \* history: nonces anybody may know
    voided,          \* nonces in sales_draw_commitment_voids
    crossed,         \* history: a commitment was voided under a call
    deaths           \* calls that died so far

evidenceVars == <<enlisted, commitment, roster, beacon, drawnUnder, lockedBy, drawing, clerk,
                  reader, txs, registry, open, voided, crossed, deaths>>

-----------------------------------------------------------------------------
(* Types                                                                   *)

Serials == 1..MaxCommits           \* nonces, as they are made
AnchorState == {"none", "anchored", "pending", "failed"}
Anchors == [state : AnchorState, tx : Nat]
NoAnchor == [state |-> "none", tx |-> 0]

Commitments == [n : Serials \cup {0}, final : BOOLEAN, commit : Anchors, reveal : Anchors]
NoCommitment == [n |-> 0, final |-> FALSE, commit |-> NoAnchor, reveal |-> NoAnchor]
Committed == commitment.n # 0

\* A call: where it is, the nonce it has read, what its transaction came to.
Calls == [at : {"idle", "read", "check", "count", "look", "send", "receipt", "write"},
          n : Serials \cup {0}, anchor : Anchors]
NotCalled == [at |-> "idle", n |-> 0, anchor |-> NoAnchor]

EvidenceTypeOK ==
    /\ enlisted \subseteq Candidates
    /\ commitment \in Commitments
    /\ roster \in [Serials -> SUBSET Candidates] /\ beacon \subseteq Serials
    /\ drawnUnder \in [Candidates -> Serials \cup {0}]
    /\ lockedBy \in Candidates \cup {NoDraw}
    /\ drawing \in [Candidates -> Calls]
    /\ lockedBy # NoDraw => drawing[lockedBy].at = "check"
    /\ clerk \in [call : Calls, listed : SUBSET Candidates]
    /\ reader \in [at : {"idle", "write"}, of : {"commit", "reveal"}, anchor : Anchors]
    /\ txs \in Seq([of : {"commit", "reveal"}, n : Serials, state : AnchorState])
    /\ registry \in [commit : Serials \cup {0}, reveal : Serials \cup {0}]
    /\ open \subseteq Serials /\ voided \subseteq Serials
    /\ crossed \in BOOLEAN /\ deaths \in 0..MaxDeaths

EvidenceInit ==
    /\ enlisted = {}
    /\ commitment = NoCommitment
    /\ roster = [n \in Serials |-> {}] /\ beacon = {}
    /\ drawnUnder = [c \in Candidates |-> 0]
    /\ lockedBy = NoDraw
    /\ drawing = [c \in Candidates |-> NotCalled]
    /\ clerk = [call |-> NotCalled, listed |-> {}]
    /\ reader = [at |-> "idle", of |-> "commit", anchor |-> NoAnchor]
    /\ txs = <<>> /\ registry = [commit |-> 0, reveal |-> 0]
    /\ open = {} /\ voided = {}
    /\ crossed = FALSE /\ deaths = 0

rows == <<enlisted, commitment, roster, drawnUnder, voided>>
chain == <<txs, registry>>
calls == <<drawing, clerk, reader>>
notes == <<beacon, open, crossed, deaths>>

Drawing(c, call) == drawing' = [drawing EXCEPT ![c] = call]
Reaches(call, at) == [call EXCEPT !.at = at]
Clerk(call) == clerk' = [clerk EXCEPT !.call = call]

-----------------------------------------------------------------------------
(* The chain                                                               *)

\* What commitDraw and revealDraw accept: one commitment per group for ever, one
\* reveal, of the nonce that was committed.
Accepts(of, n) == IF of = "commit" THEN registry.commit = 0
                  ELSE registry.commit = n /\ registry.reveal = 0

\* _send: an estimate on the chain as it is now, then the transaction.
Sent(of, n, anchor) ==
    /\ anchor.tx = 0 => anchor.state = "failed" /\ UNCHANGED txs
    /\ anchor.tx # 0 => /\ Accepts(of, n)
                        /\ anchor = [state |-> "pending", tx |-> Len(txs) + 1]
                        /\ txs' = Append(txs, [of |-> of, n |-> n, state |-> "pending"])
Sending == {[state |-> "failed", tx |-> 0], [state |-> "pending", tx |-> Len(txs) + 1]}

\* Where a call goes on: without a transaction it notes the failure at once.
After(anchor) == IF anchor.tx = 0 THEN "write" ELSE "receipt"

\* The receipt when the wait is over (mutant: a transaction that is sent counts).
ReceiptUnseen(anchor) == [anchor EXCEPT !.state = "anchored"]
Receipt(anchor) == [anchor EXCEPT !.state = txs[anchor.tx].state]

\* What _send returns: the receipt, or "failed" when the node can not be asked,
\* whatever becomes of the transaction.
Heard(anchor) == {Receipt(anchor), [state |-> "failed", tx |-> 0]}

\* The transactions of one account are executed in their order.
Mine(i) ==
    /\ txs[i].state = "pending" /\ \A j \in 1..(i - 1) : txs[j].state # "pending"
    /\ IF Accepts(txs[i].of, txs[i].n)
       THEN /\ txs' = [txs EXCEPT ![i].state = "anchored"]
            /\ registry' = [registry EXCEPT ![txs[i].of] = txs[i].n]
       ELSE txs' = [txs EXCEPT ![i].state = "failed"] /\ UNCHANGED registry
    /\ UNCHANGED <<rows, lockedBy, calls, notes>>

-----------------------------------------------------------------------------
(* Candidates, the commitment, its end                                     *)

AddCandidate(c) ==
    /\ c \notin enlisted
    /\ enlisted' = enlisted \cup {c}
    /\ UNCHANGED <<commitment, roster, drawnUnder, voided, lockedBy, calls, chain, notes>>

\* The endpoint reads the roster ...
CommitReads ==
    /\ clerk.call.at = "idle" /\ enlisted # {}
    /\ clerk' = [call |-> Reaches(NotCalled, "read"), listed |-> enlisted]
    /\ UNCHANGED <<rows, lockedBy, drawing, reader, chain, notes>>

IsNext(n) == roster[n] = {} /\ \A m \in 1..(n - 1) : roster[m] # {}

\* ... and commit_draw inserts it, unless there is a commitment.
CommitInserts ==
    /\ clerk.call.at = "read"
    /\ IF Committed THEN Clerk(NotCalled) /\ UNCHANGED <<commitment, roster>>
       ELSE \E n \in Serials :
              /\ IsNext(n)
              /\ commitment' = [NoCommitment EXCEPT !.n = n]
              /\ roster' = [roster EXCEPT ![n] = clerk.listed]
              /\ Clerk([NotCalled EXCEPT !.at = "send", !.n = n])
    /\ UNCHANGED <<enlisted, drawnUnder, voided, lockedBy, drawing, reader, chain, notes>>

CommitSends ==
    /\ clerk.call.at = "send"
    /\ \E anchor \in Sending :
          /\ Sent("commit", clerk.call.n, anchor)
          /\ Clerk([clerk.call EXCEPT !.anchor = anchor, !.at = After(anchor)])
    /\ UNCHANGED <<rows, lockedBy, drawing, reader, registry, notes>>

CommitWaits ==
    /\ clerk.call.at = "receipt"
    /\ \E anchor \in Heard(clerk.call.anchor) :
          Clerk([clerk.call EXCEPT !.anchor = anchor, !.at = "write"])
    /\ UNCHANGED <<rows, lockedBy, drawing, reader, chain, notes>>

CommitWrites ==
    /\ clerk.call.at = "write" /\ lockedBy = NoDraw
    /\ commitment' = IF Committed THEN [commitment EXCEPT !.commit = clerk.call.anchor]
                     ELSE commitment
    /\ clerk' = [call |-> NotCalled, listed |-> {}]
    /\ UNCHANGED <<enlisted, roster, drawnUnder, voided, lockedBy, drawing, reader, chain, notes>>

Busy == \/ clerk.call.at # "idle" \/ reader.at # "idle"
        \/ \E c \in Candidates : drawing[c].at # "idle"

\* void_commitment waits for a draw that has locked the row.
VoidCommitment ==
    /\ Committed /\ lockedBy = NoDraw
    /\ voided' = voided \cup {commitment.n}
    /\ commitment' = NoCommitment
    /\ crossed' = (crossed \/ Busy)
    /\ UNCHANGED <<enlisted, roster, drawnUnder, lockedBy, calls, chain, beacon, open, deaths>>

\* A reader of the public page finds a pending anchor whose receipt is there ...
ReaderAsks(of) ==
    /\ reader.at = "idle"
    /\ commitment[of].state = "pending" /\ txs[commitment[of].tx].state # "pending"
    /\ reader' = [at |-> "write", of |-> of, anchor |-> Receipt(commitment[of])]
    /\ UNCHANGED <<rows, lockedBy, drawing, clerk, chain, notes>>

\* ... and notes it on the row of the group.
ReaderWrites ==
    /\ reader.at = "write" /\ lockedBy = NoDraw
    /\ commitment' = IF Committed THEN [commitment EXCEPT ![reader.of].state = reader.anchor.state]
                     ELSE commitment
    /\ reader' = [at |-> "idle", of |-> "commit", anchor |-> NoAnchor]
    /\ UNCHANGED <<enlisted, roster, drawnUnder, voided, lockedBy, drawing, clerk, chain, notes>>

-----------------------------------------------------------------------------
(* draw_for_candidate                                                      *)

\* reveal_commitment, its SELECT ...
DrawReads(c) ==
    /\ drawing[c].at = "idle" /\ c \in enlisted /\ drawnUnder[c] = 0 /\ Committed
    /\ Drawing(c, [NotCalled EXCEPT !.at = "read", !.n = commitment.n])
    /\ UNCHANGED <<rows, lockedBy, clerk, reader, chain, notes>>

\* ... and its UPDATE, which holds the row, if there is one, until the draw ends.
DrawLocks(c) ==
    /\ drawing[c].at = "read"
    /\ IF Committed THEN lockedBy = NoDraw /\ lockedBy' = c ELSE UNCHANGED lockedBy
    /\ Drawing(c, Reaches(drawing[c], "check"))
    /\ UNCHANGED <<rows, clerk, reader, chain, notes>>

\* The live roster is the one committed to (mutant: it is not looked at).
SameRosterAny(n) == TRUE
SameRoster(n) == enlisted = roster[n]

\* The transaction ends, and with it the lock.
Unlocks(c) == lockedBy' = IF lockedBy = c THEN NoDraw ELSE lockedBy

\* The beacon has spoken and the roster stands: the candidate is drawn.
DrawCommits(c) ==
    LET n == drawing[c].n
    IN  /\ drawing[c].at = "check"
        /\ IF n \in beacon /\ SameRoster(n)
           THEN drawnUnder' = [drawnUnder EXCEPT ![c] = n] /\ Drawing(c, Reaches(drawing[c], "count"))
           ELSE Drawing(c, NotCalled) /\ UNCHANGED drawnUnder
        /\ Unlocks(c)
        /\ UNCHANGED <<enlisted, commitment, roster, voided, clerk, reader, chain, notes>>

\* No candidate is left (mutant: the caller takes himself for the last).
NobodyLeftAny(c) == TRUE
NobodyLeft(c) == \A d \in enlisted : drawnUnder[d] # 0

FinalCounts(c) ==
    /\ drawing[c].at = "count"
    /\ Drawing(c, IF NobodyLeft(c) THEN Reaches(drawing[c], "look") ELSE NotCalled)
    /\ UNCHANGED <<rows, lockedBy, clerk, reader, chain, notes>>

\* finalize_draw reads the commitment the group has now.
FinalLooks(c) ==
    /\ drawing[c].at = "look"
    /\ Drawing(c, IF Committed /\ ~commitment.final
                  THEN [drawing[c] EXCEPT !.at = "send", !.n = commitment.n] ELSE NotCalled)
    /\ UNCHANGED <<rows, lockedBy, clerk, reader, chain, notes>>

\* A nonce that is sent is one anybody may read.
FinalSends(c) ==
    /\ drawing[c].at = "send"
    /\ \E anchor \in Sending :
          /\ Sent("reveal", drawing[c].n, anchor)
          /\ Drawing(c, [drawing[c] EXCEPT !.anchor = anchor, !.at = After(anchor)])
          /\ open' = IF anchor.tx = 0 THEN open ELSE open \cup {drawing[c].n}
    /\ UNCHANGED <<rows, lockedBy, clerk, reader, registry, beacon, crossed, deaths>>

FinalWaits(c) ==
    /\ drawing[c].at = "receipt"
    /\ \E anchor \in Heard(drawing[c].anchor) :
          Drawing(c, [drawing[c] EXCEPT !.anchor = anchor, !.at = "write"])
    /\ UNCHANGED <<rows, lockedBy, clerk, reader, chain, notes>>

\* The public page shows the nonce from here on.
FinalWrites(c) ==
    /\ drawing[c].at = "write" /\ lockedBy = NoDraw
    /\ IF Committed
       THEN /\ commitment' = [commitment EXCEPT !.final = TRUE, !.reveal = drawing[c].anchor]
            /\ open' = open \cup {commitment.n}
       ELSE UNCHANGED <<commitment, open>>
    /\ Drawing(c, NotCalled)
    /\ UNCHANGED <<enlisted, roster, drawnUnder, voided, lockedBy, clerk, reader, chain,
                   beacon, crossed, deaths>>

\* A draw or a commit_draw dies with its process; what it has committed stays.
Dies ==
    /\ deaths < MaxDeaths /\ deaths' = deaths + 1
    /\ \/ clerk.call.at # "idle" /\ Clerk(NotCalled) /\ UNCHANGED <<drawing, lockedBy>>
       \/ \E c \in Candidates : drawing[c].at # "idle" /\ Drawing(c, NotCalled) /\ Unlocks(c)
                                /\ UNCHANGED clerk
    /\ UNCHANGED <<rows, reader, chain, beacon, open, crossed>>

BeaconPublishes(n) ==
    /\ roster[n] # {} /\ n \notin beacon
    /\ beacon' = beacon \cup {n}
    /\ UNCHANGED <<rows, lockedBy, calls, chain, open, crossed, deaths>>

-----------------------------------------------------------------------------

EvidenceNext ==
    \/ \E c \in Candidates :
          \/ AddCandidate(c) \/ DrawReads(c) \/ DrawLocks(c) \/ DrawCommits(c)
          \/ FinalCounts(c) \/ FinalLooks(c) \/ FinalSends(c) \/ FinalWaits(c) \/ FinalWrites(c)
    \/ CommitReads \/ CommitInserts \/ CommitSends \/ CommitWaits \/ CommitWrites
    \/ VoidCommitment \/ Dies
    \/ \E of \in {"commit", "reveal"} : ReaderAsks(of)
    \/ ReaderWrites
    \/ \E n \in Serials : BeaconPublishes(n)
    \/ \E i \in 1..Len(txs) : Mine(i)

EvidenceSpec == EvidenceInit /\ [][EvidenceNext]_evidenceVars

-----------------------------------------------------------------------------
(* Properties                                                              *)

\* The nonce is public, on the page or through the chain, only once everybody on
\* its roster is drawn; unless the commitment was voided under a call.
OpenIsOver == ~crossed => \A n \in open : \A c \in roster[n] : drawnUnder[c] # 0

\* Nobody is drawn who was not on the roster committed to, or under a nonce that is
\* public or was voided, unless it was voided under the draw.
DrawnInSecret ==
    [][\A c \in Candidates :
          drawnUnder'[c] # drawnUnder[c] =>
             /\ c \in roster[drawnUnder'[c]]
             /\ ~crossed => drawnUnder'[c] \notin open \cup voided]_evidenceVars

\* The row tells the truth.  What it says is on the chain is there, and is this
\* commitment, unless that was voided under a call; and when everybody on the roster
\* is drawn and no call is left or has died, it is final: one of the last draws sees
\* that it was the last.
RowIsTrue ==
    ~crossed =>
       /\ commitment.commit.state = "anchored" => registry.commit = commitment.n
       /\ commitment.reveal.state = "anchored" => registry.reveal = commitment.n
       /\ /\ deaths = 0 /\ Committed
          /\ enlisted = roster[commitment.n]
          /\ \A c \in enlisted : drawnUnder[c] = commitment.n
          /\ \A c \in Candidates : drawing[c].at = "idle"
          => commitment.final

\* What the public sees: the nonce not before it may, and the truth about the draw
\* and its anchor, both of the above.
EvidenceIsTrue == OpenIsOver /\ RowIsTrue
==============================================================================
