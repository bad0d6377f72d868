------------------------- MODULE DrawEvidence_proofs -------------------------
(***************************************************************************)
(* Proofs about DrawEvidence, for any candidates and any number of         *)
(* commitments and deaths.  The inductive invariant has three parts: where *)
(* transactions are; that what calls, draws and the public know of a       *)
(* commitment is of one that was made, and, unless a commitment was voided *)
(* under a call, of the one the group has; and what an anchor tells of the *)
(* registry.                                                               *)
(***************************************************************************)
EXTENDS DrawEvidence, SequenceTheorems, TLAPS

Kinds == {"commit", "reveal"}
Places == {"idle", "read", "check", "count", "look", "send", "receipt", "write"}
Transactions == [of : Kinds, n : Serials, state : AnchorState]

\* An anchor names a transaction that was sent, and a pending one does name one; who
\* sends has a nonce to send.
Placed(anchor) == anchor.tx \in 0..Len(txs) /\ (anchor.state = "pending" => anchor.tx # 0)
Sends(call) == call.at \in {"send", "receipt", "write"}
CallPlaced(call) ==
    /\ Placed(call.anchor)
    /\ call.at = "receipt" => call.anchor.tx # 0
    /\ Sends(call) => call.n # 0

AnchorsPlaced ==
    /\ Placed(commitment.commit) /\ Placed(commitment.reveal)
    /\ CallPlaced(clerk.call)
    /\ \A c \in Candidates : CallPlaced(drawing[c])

TypeInv == EvidenceTypeOK /\ AnchorsPlaced /\ reader.anchor.state # "pending"

\* A commitment that was made, and one whose roster is drawn.
Made(n) == n \in Serials /\ roster[n] # {}
Over(n) == \A d \in roster[n] : drawnUnder[d] # 0

NoncesMade ==
    /\ Committed => Made(commitment.n) /\ commitment.n \notin voided
    /\ \A n \in open \cup voided : Made(n)
    /\ \A c \in Candidates : drawing[c].at # "idle" => Made(drawing[c].n)
    /\ \A c \in Candidates : drawnUnder[c] # 0 => Made(drawnUnder[c]) /\ c \in enlisted

RostersEnlisted ==
    /\ \A n \in Serials : roster[n] \subseteq enlisted
    /\ clerk.listed \subseteq enlisted
    /\ clerk.call.at = "read" => clerk.listed # {}

DrawsEnlisted ==
    \A c \in Candidates :
        /\ drawing[c].at # "idle" => c \in enlisted
        /\ drawing[c].at \in {"read", "check"} => drawnUnder[c] = 0

\* Calls work for the commitment the group has.
CallsCurrent ==
    ~crossed =>
        /\ \A c \in Candidates : drawing[c].at # "idle" => drawing[c].n = commitment.n
        /\ Sends(clerk.call) => clerk.call.n = commitment.n

\* A finalisation has seen everybody drawn.
Late == {"look", "send", "receipt", "write"}
LateIsOver == ~crossed => \A c \in Candidates : drawing[c].at \in Late => Over(drawing[c].n)

\* While a draw is over and not final, a draw of it is on its way to its end.
Complete == /\ Committed /\ enlisted = roster[commitment.n]
            /\ \A c \in enlisted : drawnUnder[c] = commitment.n
OnItsWay(c) == drawing[c].at \in Late \cup {"count"}
LastSees == ~crossed /\ deaths = 0 /\ Complete => commitment.final \/ \E c \in Candidates : OnItsWay(c)

GroupInv == /\ NoncesMade /\ RostersEnlisted /\ DrawsEnlisted /\ CallsCurrent
            /\ LateIsOver /\ LastSees /\ OpenIsOver

\* What the chain holds of a group; a transaction that is anchored is what it holds.
OnChain(of) == IF of = "commit" THEN registry.commit ELSE registry.reveal
TxsRight == \A i \in 1..Len(txs) : txs[i].state = "anchored" => OnChain(txs[i].of) = txs[i].n

\* An anchor is that of a transaction of this kind and nonce, and anchored if the
\* chain holds them.
Right(anchor, of, n) ==
    /\ anchor.tx # 0 => txs[anchor.tx].of = of /\ txs[anchor.tx].n = n
    /\ anchor.state = "anchored" => n # 0 /\ OnChain(of) = n

Told == {"receipt", "write"}
NoneLeft == ~Committed => commitment = NoCommitment
RowRight == ~crossed => /\ Right(commitment.commit, "commit", commitment.n)
                        /\ Right(commitment.reveal, "reveal", commitment.n)
ClerkRight == ~crossed /\ clerk.call.at \in Told => Right(clerk.call.anchor, "commit", clerk.call.n)
DrawsRight == ~crossed => \A c \in Candidates :
                 drawing[c].at \in Told => Right(drawing[c].anchor, "reveal", drawing[c].n)
ReaderRight ==
    ~crossed /\ reader.at = "write" =>
        /\ Committed
        /\ reader.anchor.state = "anchored" => OnChain(reader.of) = commitment.n

AnchorInv == TxsRight /\ NoneLeft /\ RowRight /\ ClerkRight /\ DrawsRight /\ ReaderRight
IInv == TypeInv /\ GroupInv /\ AnchorInv

-----------------------------------------------------------------------------
(* Data.                                                                   *)

\* Anchors, calls and commitments are records of their fields.
LEMMA AnchorFields ==
  /\ NoAnchor \in Anchors /\ NoAnchor.state = "none" /\ NoAnchor.tx = 0
  /\ \A a \in Anchors : a.state \in AnchorState /\ a.tx \in Nat
  /\ \A st \in AnchorState, tx \in Nat :
       /\ [state |-> st, tx |-> tx] \in Anchors
       /\ [state |-> st, tx |-> tx].state = st /\ [state |-> st, tx |-> tx].tx = tx
  /\ \A a \in Anchors, st \in AnchorState :
       /\ [a EXCEPT !.state = st] \in Anchors
       /\ [a EXCEPT !.state = st].state = st /\ [a EXCEPT !.state = st].tx = a.tx
  BY DEF NoAnchor, Anchors, AnchorState

\* A call that has not begun.
LEMMA NotCalledFields ==
  /\ NotCalled \in Calls /\ NotCalled.at = "idle" /\ NotCalled.n = 0 /\ NotCalled.anchor = NoAnchor
  BY AnchorFields DEF NotCalled, Calls

\* A call's fields, and a call that has reached another place.
LEMMA CallFields ==
  ASSUME NEW call \in Calls
  PROVE  /\ call.at \in Places /\ call.n \in Serials \cup {0} /\ call.anchor \in Anchors
         /\ \A at \in Places : /\ Reaches(call, at) \in Calls /\ Reaches(call, at).at = at
                               /\ Reaches(call, at).n = call.n
                               /\ Reaches(call, at).anchor = call.anchor
  BY DEF Calls, Places, Reaches

\* A commitment's fields, and one whose anchor is noted.
LEMMA CommitmentFields ==
  ASSUME NEW row \in Commitments
  PROVE  /\ row.n \in Serials \cup {0} /\ row.final \in BOOLEAN
         /\ row.commit \in Anchors /\ row.reveal \in Anchors
         /\ \A a \in Anchors : /\ [row EXCEPT !.commit = a] \in Commitments
                               /\ [row EXCEPT !.commit = a].n = row.n
                               /\ [row EXCEPT !.commit = a].final = row.final
                               /\ [row EXCEPT !.commit = a].commit = a
                               /\ [row EXCEPT !.commit = a].reveal = row.reveal
  BY DEF Commitments

\* A row without a commitment, and a new one.
LEMMA NewCommitments ==
  /\ NoCommitment \in Commitments
  /\ NoCommitment.n = 0 /\ NoCommitment.commit = NoAnchor /\ NoCommitment.reveal = NoAnchor
  /\ \A n \in Serials : LET row == [NoCommitment EXCEPT !.n = n]
                        IN  /\ row \in Commitments /\ row.n = n /\ row.final = FALSE
                            /\ row.commit = NoAnchor /\ row.reveal = NoAnchor
  BY AnchorFields DEF NoCommitment, Commitments

\* A draw goes on, the others do not.
LEMMA OneDraw ==
  ASSUME TypeInv, NEW c \in Candidates, NEW call \in Calls, Drawing(c, call)
  PROVE  /\ drawing' \in [Candidates -> Calls]
         /\ drawing'[c] = call
         /\ \A d \in Candidates \ {c} : drawing'[d] = drawing[d]
  BY DEF TypeInv, EvidenceTypeOK, Drawing

\* The clerk's call goes on with the roster it has read.
LEMMA ClerkGoes ==
  ASSUME TypeInv, NEW call \in Calls, Clerk(call)
  PROVE  /\ clerk' \in [call : Calls, listed : SUBSET Candidates]
         /\ clerk'.call = call /\ clerk'.listed = clerk.listed
  BY DEF TypeInv, EvidenceTypeOK, Clerk

\* The parts of the type invariant that are used most.
LEMMA EvidenceParts ==
  ASSUME TypeInv
  PROVE  /\ drawing \in [Candidates -> Calls] /\ clerk.call \in Calls
         /\ clerk.listed \subseteq Candidates /\ commitment \in Commitments
         /\ txs \in Seq(Transactions) /\ Len(txs) \in Nat
         /\ reader.of \in Kinds /\ reader.anchor \in Anchors
         /\ roster \in [Serials -> SUBSET Candidates]
         /\ drawnUnder \in [Candidates -> Serials \cup {0}]
         /\ registry.commit \in Serials \cup {0} /\ registry.reveal \in Serials \cup {0}
         /\ \A i \in 1..Len(txs) : /\ txs[i] \in Transactions /\ txs[i].of \in Kinds
                                   /\ txs[i].n \in Serials /\ txs[i].state \in AnchorState
  <1>1. txs \in Seq(Transactions)
    BY DEF TypeInv, EvidenceTypeOK, Transactions, Kinds
  <1>2. \A i \in 1..Len(txs) : txs[i] \in Transactions
    BY <1>1, ElementOfSeq
  <1>3. Len(txs) \in Nat
    BY <1>1
  <1> QED
    BY <1>1, <1>2, <1>3 DEF TypeInv, EvidenceTypeOK, Transactions, Kinds

\* What _send leaves: the transactions there were stay as they were.
LEMMA SentTypes ==
  ASSUME TypeInv, NEW of \in Kinds, NEW n \in Serials, NEW anchor \in Sending, Sent(of, n, anchor)
  PROVE  /\ txs' \in Seq(Transactions) /\ Len(txs') \in Nat /\ Len(txs) <= Len(txs')
         /\ \A i \in 1..Len(txs) : txs'[i] = txs[i]
         /\ anchor \in Anchors /\ anchor.tx \in 0..Len(txs')
         /\ anchor.state \in {"failed", "pending"} /\ (anchor.state = "pending" => anchor.tx # 0)
         /\ anchor.tx # 0 => /\ Accepts(of, n) /\ Len(txs') = Len(txs) + 1 /\ anchor.tx = Len(txs')
                             /\ txs'[anchor.tx] = [of |-> of, n |-> n, state |-> "pending"]
         /\ After(anchor) \in Places
         /\ After(anchor) = "receipt" => anchor.tx # 0
  <1>1. txs \in Seq(Transactions) /\ Len(txs) \in Nat
    BY EvidenceParts
  <1>2. /\ anchor \in Anchors /\ anchor.state \in {"failed", "pending"}
        /\ anchor.state = "pending" => anchor.tx = Len(txs) + 1
        /\ anchor.state = "failed" => anchor.tx = 0
    BY <1>1 DEF Sending, Anchors, AnchorState
  <1>3. CASE anchor.tx = 0
    BY <1>1, <1>2, <1>3 DEF Sent, After, Places
  <1>4. CASE anchor.tx # 0
    <2> DEFINE t == [of |-> of, n |-> n, state |-> "pending"]
    <2>1. t \in Transactions /\ txs' = Append(txs, t) /\ Accepts(of, n)
      BY <1>4 DEF Sent, Transactions, AnchorState
    <2>2. /\ txs' \in Seq(Transactions) /\ Len(txs') = Len(txs) + 1
          /\ \A i \in 1..Len(txs) : txs'[i] = txs[i]
          /\ txs'[Len(txs) + 1] = t
      BY <1>1, <2>1, AppendProperties
    <2>3. anchor.tx = Len(txs) + 1
      BY <1>2, <1>4
    <2> QED
      BY <1>1, <1>2, <1>4, <2>1, <2>2, <2>3 DEF After, Places
  <1> QED
    BY <1>3, <1>4

\* What _send hears of a transaction is a state of it, or nothing.
LEMMA HeardTypes ==
  ASSUME TypeInv, NEW anchor \in Anchors, Placed(anchor), anchor.tx # 0, NEW a \in Heard(anchor)
  PROVE  a \in Anchors /\ (a.state # "pending" \/ a.tx # 0) /\ a.tx \in {0, anchor.tx}
         /\ (a.tx = 0 => a.state = "failed")
         /\ (a.tx # 0 => a.state = txs[anchor.tx].state)
  <1>1. txs[anchor.tx].state \in AnchorState
    BY EvidenceParts, AnchorFields DEF Placed
  <1>2. Receipt(anchor) \in Anchors /\ Receipt(anchor).tx = anchor.tx
        /\ Receipt(anchor).state = txs[anchor.tx].state
    BY <1>1, AnchorFields DEF Receipt
  <1>3. [state |-> "failed", tx |-> 0] \in Anchors
    BY DEF Anchors, AnchorState
  <1> QED
    BY <1>2, <1>3 DEF Heard

\* A reader corrects the state of one of the two anchors.
LEMMA ReaderNotes ==
  ASSUME TypeInv, ReaderWrites
  PROVE  /\ commitment' \in Commitments /\ commitment'.n = commitment.n /\ commitment'.final = commitment.final
         /\ commitment'.commit.tx = commitment.commit.tx /\ commitment'.reveal.tx = commitment.reveal.tx
         /\ commitment'.commit.state = IF Committed /\ reader.of = "commit"
                                       THEN reader.anchor.state ELSE commitment.commit.state
         /\ commitment'.reveal.state = IF Committed /\ reader.of = "reveal"
                                       THEN reader.anchor.state ELSE commitment.reveal.state
  <1>1. commitment \in Commitments /\ reader.of \in Kinds /\ reader.anchor.state \in AnchorState
    BY EvidenceParts, AnchorFields
  <1>2. CASE Committed /\ reader.of = "commit"
    <2>1. commitment' = [commitment EXCEPT !.commit.state = reader.anchor.state]
      BY <1>2 DEF ReaderWrites
    <2> QED
      BY <1>1, <1>2, <2>1 DEF Commitments, Anchors
  <1>3. CASE Committed /\ reader.of = "reveal"
    <2>1. commitment' = [commitment EXCEPT !.reveal.state = reader.anchor.state]
      BY <1>3 DEF ReaderWrites
    <2> QED
      BY <1>1, <1>3, <2>1 DEF Commitments, Anchors
  <1>4. CASE ~Committed
    BY <1>1, <1>4 DEF ReaderWrites
  <1> QED
    BY <1>1, <1>2, <1>3, <1>4 DEF Kinds

-----------------------------------------------------------------------------
(* Types.                                                                  *)

\* The start.
LEMMA TypesAtStart == EvidenceInit => TypeInv
  <1> SUFFICES ASSUME EvidenceInit PROVE TypeInv
    OBVIOUS
  <1>1. /\ drawing \in [Candidates -> Calls] /\ clerk \in [call : Calls, listed : SUBSET Candidates]
        /\ clerk.call = NotCalled /\ \A c \in Candidates : drawing[c] = NotCalled
    BY NotCalledFields DEF EvidenceInit
  <1>2. commitment \in Commitments /\ commitment.commit = NoAnchor /\ commitment.reveal = NoAnchor
    BY NewCommitments DEF EvidenceInit
  <1>3. reader \in [at : {"idle", "write"}, of : {"commit", "reveal"}, anchor : Anchors]
    BY AnchorFields DEF EvidenceInit
  <1>4. txs \in Seq([of : {"commit", "reveal"}, n : Serials, state : AnchorState]) /\ Len(txs) = 0
    BY DEF EvidenceInit
  <1>5. Placed(NoAnchor) /\ CallPlaced(NotCalled)
    BY <1>4, AnchorFields, NotCalledFields DEF Placed, CallPlaced, Sends
  <1>6. EvidenceTypeOK
    <2>1. /\ roster \in [Serials -> SUBSET Candidates] /\ drawnUnder \in [Candidates -> Serials \cup {0}]
          /\ registry \in [commit : Serials \cup {0}, reveal : Serials \cup {0}]
          /\ enlisted \subseteq Candidates /\ beacon \subseteq Serials
          /\ open \subseteq Serials /\ voided \subseteq Serials
      BY DEF EvidenceInit
    <2>2. deaths \in 0..MaxDeaths
      <3>1. deaths = 0
        BY DEF EvidenceInit
      <3> QED
        BY <3>1, EvidenceAssumption
    <2>3. crossed \in BOOLEAN /\ lockedBy = NoDraw
      BY Zenon DEF EvidenceInit
    <2> QED
      BY <1>1, <1>2, <1>3, <1>4, <2>1, <2>2, <2>3, Zenon DEF EvidenceTypeOK
  <1>7. reader.anchor.state # "pending"
    BY AnchorFields DEF EvidenceInit
  <1> QED
    BY <1>1, <1>2, <1>5, <1>6, <1>7 DEF TypeInv, AnchorsPlaced

\* A transaction that is mined is the same transaction.
LEMMA MinedTypes ==
  ASSUME TypeInv, NEW i \in 1..Len(txs), Mine(i)
  PROVE  /\ txs' \in Seq(Transactions) /\ Len(txs') = Len(txs)
         /\ \A j \in 1..Len(txs) : txs'[j].of = txs[j].of /\ txs'[j].n = txs[j].n
         /\ \A j \in 1..Len(txs) \ {i} : txs'[j] = txs[j]
         /\ txs'[i].state = IF Accepts(txs[i].of, txs[i].n) THEN "anchored" ELSE "failed"
         /\ registry' \in [commit : Serials \cup {0}, reveal : Serials \cup {0}]
         /\ registry' = IF Accepts(txs[i].of, txs[i].n)
                        THEN [registry EXCEPT ![txs[i].of] = txs[i].n] ELSE registry
  <1>1. txs \in Seq(Transactions) /\ txs[i] \in Transactions
    BY EvidenceParts
  <1>2. PICK st \in {"anchored", "failed"} :
          /\ txs' = [txs EXCEPT ![i] = [txs[i] EXCEPT !.state = st]]
          /\ st = IF Accepts(txs[i].of, txs[i].n) THEN "anchored" ELSE "failed"
    BY <1>1 DEF Mine
  <1> DEFINE t == [txs[i] EXCEPT !.state = st]
  <1>3. t \in Transactions /\ t.of = txs[i].of /\ t.n = txs[i].n /\ t.state = st
    BY <1>1 DEF Transactions, AnchorState
  <1>4. /\ txs' \in Seq(Transactions) /\ Len(txs') = Len(txs)
        /\ \A j \in 1..Len(txs) : txs'[j] = IF j = i THEN t ELSE txs[j]
    BY <1>1, <1>2, <1>3, ExceptSeq
  <1>5. registry' = IF Accepts(txs[i].of, txs[i].n)
                    THEN [registry EXCEPT ![txs[i].of] = txs[i].n] ELSE registry
    BY DEF Mine
  <1>6. registry' \in [commit : Serials \cup {0}, reveal : Serials \cup {0}]
    <2>1. registry \in [commit : Serials \cup {0}, reveal : Serials \cup {0}]
      BY DEF TypeInv, EvidenceTypeOK
    <2>2. CASE txs[i].of = "commit"
      BY <1>5, <2>1, <2>2, EvidenceParts
    <2>3. CASE txs[i].of = "reveal"
      BY <1>5, <2>1, <2>3, EvidenceParts
    <2> QED
      BY <2>2, <2>3, EvidenceParts DEF Kinds
  <1> QED
    BY <1>2, <1>3, <1>4, <1>5, <1>6

\* The calls of a draw that touch the draw's own variables.
LEMMA DrawTypes ==
  ASSUME TypeInv, NEW c \in Candidates, NEW call \in Calls, Drawing(c, call), CallPlaced(call),
         lockedBy' \in Candidates \cup {NoDraw},
         lockedBy' # NoDraw => drawing'[lockedBy'].at = "check",
         drawnUnder' \in [Candidates -> Serials \cup {0}],
         open' \subseteq Serials,
         UNCHANGED <<enlisted, commitment, roster, voided, clerk, reader, chain, beacon, crossed, deaths>>
  PROVE  TypeInv'
  <1>1. /\ drawing' \in [Candidates -> Calls] /\ drawing'[c] = call
        /\ \A d \in Candidates \ {c} : drawing'[d] = drawing[d]
    BY OneDraw
  <1>2. EvidenceTypeOK'
    BY <1>1 DEF TypeInv, EvidenceTypeOK, chain
  <1>3. AnchorsPlaced'
    BY <1>1 DEF TypeInv, AnchorsPlaced, CallPlaced, Placed, Sends, chain
  <1> QED
    BY <1>2, <1>3 DEF TypeInv

\* What is unlocked stays a draw's lock.
LEMMA LocksKept ==
  ASSUME TypeInv, NEW c \in Candidates, NEW call \in Calls, Drawing(c, call)
  PROVE  /\ drawing[c].at # "check" /\ lockedBy' = lockedBy =>
              lockedBy' \in Candidates \cup {NoDraw}
              /\ (lockedBy' # NoDraw => drawing'[lockedBy'].at = "check")
         /\ Unlocks(c) =>
              lockedBy' \in Candidates \cup {NoDraw}
              /\ (lockedBy' # NoDraw => drawing'[lockedBy'].at = "check")
  BY OneDraw, EvidenceAssumption DEF TypeInv, EvidenceTypeOK, Unlocks

\* The steps of a draw.
LEMMA DrawStepTypes ==
  ASSUME TypeInv, NEW c \in Candidates,
         DrawReads(c) \/ DrawLocks(c) \/ DrawCommits(c) \/ FinalCounts(c) \/ FinalLooks(c)
  PROVE  TypeInv'
  <1>1. /\ drawing[c] \in Calls /\ commitment.n \in Serials \cup {0}
        /\ drawnUnder \in [Candidates -> Serials \cup {0}] /\ open \subseteq Serials
        /\ drawing[c].n \in Serials \cup {0} /\ CallPlaced(drawing[c]) /\ Placed(NoAnchor)
    <2>1. drawing[c] \in Calls /\ commitment \in Commitments /\ 0 \in 0..Len(txs)
          /\ drawnUnder \in [Candidates -> Serials \cup {0}] /\ open \subseteq Serials
      BY EvidenceParts DEF TypeInv, EvidenceTypeOK
    <2>2. CallPlaced(drawing[c])
      BY DEF TypeInv, AnchorsPlaced
    <2>3. Placed(NoAnchor)
      BY <2>1, AnchorFields DEF Placed
    <2>4. commitment.n \in Serials \cup {0} /\ drawing[c].n \in Serials \cup {0}
      BY <2>1, CallFields, CommitmentFields
    <2> QED
      BY <2>1, <2>2, <2>3, <2>4
  <1>2. CallPlaced(NotCalled)
    BY <1>1, NotCalledFields DEF CallPlaced, Sends
  <1>3. /\ \A at \in {"check", "count", "look"} :
             LET call == Reaches(drawing[c], at)
             IN  call \in Calls /\ call.at = at /\ CallPlaced(call)
        /\ \A call \in {NotCalled, drawing[c]}, at \in {"read", "send"} :
             LET new == [call EXCEPT !.at = at, !.n = commitment.n]
             IN  commitment.n # 0 => new \in Calls /\ new.at = at /\ CallPlaced(new)
    <2>1. ASSUME NEW call \in Calls, CallPlaced(call), NEW at \in {"check", "count", "look"}
          PROVE  LET new == Reaches(call, at)
                 IN  new \in Calls /\ new.at = at /\ CallPlaced(new)
      BY <2>1 DEF CallPlaced, Placed, Sends, Calls, Reaches
    <2>2. ASSUME NEW call \in Calls, CallPlaced(call), NEW at \in {"read", "send"}, commitment.n # 0
          PROVE  LET new == [call EXCEPT !.at = at, !.n = commitment.n]
                 IN  new \in Calls /\ new.at = at /\ CallPlaced(new)
      BY <1>1, <2>2 DEF CallPlaced, Placed, Sends, Calls, Places
    <2>3. \A call \in {NotCalled, drawing[c]} : call \in Calls /\ CallPlaced(call)
      BY <1>1, <1>2, NotCalledFields, Zenon
    <2> QED
      BY <1>1, <2>1, <2>2, <2>3
  <1>4. CASE DrawReads(c)
    <2>1. PICK call \in Calls : CallPlaced(call) /\ Drawing(c, call)
      BY <1>3, <1>4 DEF DrawReads, Committed
    <2>2. drawing[c].at # "check" /\ lockedBy' = lockedBy
          /\ UNCHANGED <<enlisted, commitment, roster, drawnUnder, voided, clerk, reader, chain,
                         beacon, open, crossed, deaths>>
      BY <1>4 DEF DrawReads, rows, notes
    <2> QED
      BY <1>1, <2>1, <2>2, LocksKept, DrawTypes
  <1>5. CASE DrawLocks(c)
    <2>1. PICK call \in Calls : CallPlaced(call) /\ Drawing(c, call) /\ call.at = "check"
      BY <1>3, <1>5 DEF DrawLocks, Places
    <2>2. drawing[c].at # "check"
          /\ (lockedBy' = c \/ lockedBy' = lockedBy)
          /\ UNCHANGED <<enlisted, commitment, roster, drawnUnder, voided, clerk, reader, chain,
                         beacon, open, crossed, deaths>>
      BY <1>5 DEF DrawLocks, rows, notes
    <2>3. lockedBy' \in Candidates \cup {NoDraw}
          /\ (lockedBy' # NoDraw => drawing'[lockedBy'].at = "check")
      BY <2>1, <2>2, LocksKept, OneDraw
    <2> QED
      BY <1>1, <2>1, <2>2, <2>3, DrawTypes
  <1>6. CASE DrawCommits(c)
    <2>1. PICK call \in Calls : CallPlaced(call) /\ Drawing(c, call)
      BY <1>2, <1>3, <1>6, NotCalledFields DEF DrawCommits, Places
    <2>2. Unlocks(c) /\ drawnUnder' \in [Candidates -> Serials \cup {0}]
          /\ UNCHANGED <<enlisted, commitment, roster, voided, clerk, reader, chain,
                         beacon, open, crossed, deaths>>
      BY <1>1, <1>6 DEF DrawCommits, notes
    <2> QED
      BY <1>1, <2>1, <2>2, LocksKept, DrawTypes
  <1>7. CASE FinalCounts(c)
    <2>1. PICK call \in Calls : CallPlaced(call) /\ Drawing(c, call)
      BY <1>2, <1>3, <1>7, NotCalledFields DEF FinalCounts, Places
    <2>2. drawing[c].at # "check" /\ lockedBy' = lockedBy
          /\ UNCHANGED <<enlisted, commitment, roster, drawnUnder, voided, clerk, reader, chain,
                         beacon, open, crossed, deaths>>
      BY <1>7 DEF FinalCounts, rows, notes
    <2> QED
      BY <1>1, <2>1, <2>2, LocksKept, DrawTypes
  <1>8. CASE FinalLooks(c)
    <2>1. PICK call \in Calls : CallPlaced(call) /\ Drawing(c, call)
      BY <1>2, <1>3, <1>8, NotCalledFields DEF FinalLooks, Committed
    <2>2. drawing[c].at # "check" /\ lockedBy' = lockedBy
          /\ UNCHANGED <<enlisted, commitment, roster, drawnUnder, voided, clerk, reader, chain,
                         beacon, open, crossed, deaths>>
      BY <1>8 DEF FinalLooks, rows, notes
    <2> QED
      BY <1>1, <2>1, <2>2, LocksKept, DrawTypes
  <1> QED
    BY <1>4, <1>5, <1>6, <1>7, <1>8

\* The steps of a finalisation that send, wait and write.
LEMMA FinalStepTypes ==
  ASSUME TypeInv, NEW c \in Candidates, FinalSends(c) \/ FinalWaits(c) \/ FinalWrites(c)
  PROVE  TypeInv'
  <1>1. /\ drawing[c] \in Calls /\ drawing[c].anchor \in Anchors /\ CallPlaced(drawing[c])
        /\ Placed(drawing[c].anchor) /\ drawing[c].n \in Serials /\ drawing[c].n # 0
        /\ commitment \in Commitments
    <2>1. drawing[c] \in Calls /\ CallPlaced(drawing[c]) /\ commitment \in Commitments
      BY EvidenceParts DEF TypeInv, AnchorsPlaced
    <2>2. Sends(drawing[c])
      BY DEF FinalSends, FinalWaits, FinalWrites, Sends
    <2> QED
      BY <2>1, <2>2, CallFields DEF CallPlaced
  <1>2. drawing[c].at # "check"
    BY DEF FinalSends, FinalWaits, FinalWrites
  <1>3. CASE FinalSends(c)
    <2>1. PICK anchor \in Sending :
            /\ Sent("reveal", drawing[c].n, anchor)
            /\ Drawing(c, [drawing[c] EXCEPT !.anchor = anchor, !.at = After(anchor)])
            /\ open' = IF anchor.tx = 0 THEN open ELSE open \cup {drawing[c].n}
      BY <1>3 DEF FinalSends
    <2> DEFINE call == [drawing[c] EXCEPT !.anchor = anchor, !.at = After(anchor)]
    <2>2. /\ txs' \in Seq(Transactions) /\ Len(txs') \in Nat /\ Len(txs) <= Len(txs')
          /\ anchor \in Anchors /\ anchor.tx \in 0..Len(txs')
          /\ (anchor.state = "pending" => anchor.tx # 0)
          /\ After(anchor) \in Places
          /\ (After(anchor) = "receipt" => anchor.tx # 0)
      BY <1>1, <2>1, SentTypes DEF Kinds
    <2>3. call \in Calls /\ call.n = drawing[c].n /\ call.anchor = anchor /\ call.at = After(anchor)
      BY <1>1, <2>2 DEF Calls, Places
    <2>4. /\ drawing' \in [Candidates -> Calls] /\ drawing'[c] = call
          /\ \A d \in Candidates \ {c} : drawing'[d] = drawing[d]
      BY <2>1, <2>3, OneDraw
    <2>5. lockedBy' \in Candidates \cup {NoDraw} /\ (lockedBy' # NoDraw => drawing'[lockedBy'].at = "check")
      BY <1>2, <1>3, <2>1, <2>3, LocksKept DEF FinalSends
    <2>6. /\ UNCHANGED <<enlisted, commitment, roster, drawnUnder, voided, clerk, reader, registry,
                         beacon, crossed, deaths>>
          /\ open' \subseteq Serials
      BY <1>1, <1>3, <2>1 DEF FinalSends, rows, TypeInv, EvidenceTypeOK
    <2>7. EvidenceTypeOK'
      BY <2>2, <2>4, <2>5, <2>6 DEF TypeInv, EvidenceTypeOK, Transactions, Kinds
    <2>8. AnchorsPlaced'
      <3>1. \A d \in Candidates \ {c} : CallPlaced(drawing[d])
        BY DEF TypeInv, AnchorsPlaced
      <3>2. \A d \in Candidates \ {c} : CallPlaced(drawing[d])'
        BY <2>2, <2>4, <3>1, EvidenceParts DEF CallPlaced, Placed, Sends
      <3>3. CallPlaced(drawing[c])'
        <4> HIDE DEF call
        <4> QED
          BY <1>1, <2>2, <2>3, <2>4 DEF CallPlaced, Placed, Sends
      <3>4. Placed(commitment.commit)' /\ Placed(commitment.reveal)' /\ CallPlaced(clerk.call)'
        BY <2>2, <2>6, EvidenceParts DEF TypeInv, AnchorsPlaced, CallPlaced, Placed, Sends
      <3> QED
        BY <3>2, <3>3, <3>4 DEF AnchorsPlaced
    <2> QED
      BY <2>6, <2>7, <2>8 DEF TypeInv
  <1>4. CASE FinalWaits(c)
    <2>1. PICK anchor \in Heard(drawing[c].anchor) :
            Drawing(c, [drawing[c] EXCEPT !.anchor = anchor, !.at = "write"])
      BY <1>4 DEF FinalWaits
    <2> DEFINE call == [drawing[c] EXCEPT !.anchor = anchor, !.at = "write"]
    <2>2. /\ anchor \in Anchors /\ (anchor.state # "pending" \/ anchor.tx # 0)
          /\ anchor.tx \in {0, drawing[c].anchor.tx}
      BY <1>1, <1>4, HeardTypes DEF FinalWaits, CallPlaced
    <2>3. call \in Calls /\ call.n = drawing[c].n /\ call.anchor = anchor /\ call.at = "write"
      BY <1>1, <2>2 DEF Calls
    <2>4. CallPlaced(call)
      BY <1>1, <2>2, <2>3, EvidenceParts DEF CallPlaced, Placed, Sends
    <2>5. Drawing(c, call)
      BY <2>1
    <2>6. /\ lockedBy' = lockedBy
          /\ UNCHANGED <<enlisted, commitment, roster, drawnUnder, voided, clerk, reader, chain,
                         beacon, open, crossed, deaths>>
          /\ open \subseteq Serials /\ drawnUnder \in [Candidates -> Serials \cup {0}]
      BY <1>4, EvidenceParts DEF FinalWaits, rows, notes, TypeInv, EvidenceTypeOK
    <2> HIDE DEF call
    <2> QED
      BY <1>2, <2>3, <2>4, <2>5, <2>6, LocksKept, DrawTypes
  <1>5. CASE FinalWrites(c)
    <2>1. Drawing(c, NotCalled) /\ NotCalled \in Calls
      BY <1>5, NotCalledFields DEF FinalWrites
    <2>2. /\ drawing' \in [Candidates -> Calls] /\ drawing'[c] = NotCalled
          /\ \A d \in Candidates \ {c} : drawing'[d] = drawing[d]
      BY <2>1, OneDraw
    <2>3. lockedBy' \in Candidates \cup {NoDraw} /\ (lockedBy' # NoDraw => drawing'[lockedBy'].at = "check")
      BY <1>2, <1>5, <2>1, LocksKept DEF FinalWrites
    <2>4. /\ commitment' \in Commitments /\ commitment'.commit = commitment.commit
          /\ commitment'.reveal \in {commitment.reveal, drawing[c].anchor}
      <3>1. CASE Committed
        <4>1. commitment' = [commitment EXCEPT !.final = TRUE, !.reveal = drawing[c].anchor]
          BY <1>5, <3>1 DEF FinalWrites
        <4> QED
          BY <1>1, <4>1 DEF Commitments
      <3>2. CASE ~Committed
        <4>1. commitment' = commitment
          BY <1>5, <3>2 DEF FinalWrites
        <4> QED
          BY <1>1, <4>1
      <3> QED
        BY <3>1, <3>2
    <2>5. open' \subseteq Serials
      <3>1. open \subseteq Serials
        BY DEF TypeInv, EvidenceTypeOK
      <3>2. Committed => commitment.n \in Serials
        BY <1>1, CommitmentFields DEF Committed
      <3> QED
        BY <1>5, <3>1, <3>2 DEF FinalWrites
    <2>6. UNCHANGED <<enlisted, roster, drawnUnder, voided, clerk, reader, txs, registry, beacon,
                      crossed, deaths>>
      BY <1>5 DEF FinalWrites, chain
    <2>7. EvidenceTypeOK'
      BY <2>2, <2>3, <2>4, <2>5, <2>6 DEF TypeInv, EvidenceTypeOK
    <2>8. AnchorsPlaced'
      <3>1. Placed(commitment'.commit) /\ Placed(commitment'.reveal)
        BY <1>1, <2>4 DEF TypeInv, AnchorsPlaced, Placed
      <3>2. Placed(NoAnchor)
        BY EvidenceParts, AnchorFields DEF Placed
      <3>3. CallPlaced(NotCalled)
        BY <3>2, NotCalledFields DEF CallPlaced, Sends, Placed
      <3> QED
        BY <2>2, <2>6, <3>1, <3>3 DEF TypeInv, AnchorsPlaced, CallPlaced, Placed, Sends
    <2> QED
      BY <2>6, <2>7, <2>8 DEF TypeInv
  <1> QED
    BY <1>3, <1>4, <1>5

\* The clerk's steps: the commitment changes, and the clerk's own call.
LEMMA ClerkStepTypes ==
  ASSUME TypeInv, CommitReads \/ CommitInserts \/ CommitSends \/ CommitWaits \/ CommitWrites
  PROVE  TypeInv'
  <1>1. /\ clerk.call \in Calls /\ clerk.call.anchor \in Anchors /\ CallPlaced(clerk.call)
        /\ Placed(clerk.call.anchor) /\ commitment \in Commitments
        /\ Placed(NoAnchor) /\ CallPlaced(NotCalled)
    <2>1. Placed(NoAnchor)
      BY EvidenceParts, AnchorFields DEF Placed
    <2>2. clerk.call \in Calls /\ CallPlaced(clerk.call) /\ commitment \in Commitments
      BY EvidenceParts DEF TypeInv, AnchorsPlaced
    <2> QED
      BY <2>1, <2>2, CallFields, NotCalledFields DEF CallPlaced, Sends
  <1>2. CASE CommitReads
    <2> DEFINE call == Reaches(NotCalled, "read")
    <2>1. call \in Calls /\ call.anchor = NoAnchor /\ call.at = "read"
      BY AnchorFields DEF NotCalled, Reaches, Calls
    <2>2. clerk'.call = call /\ clerk' \in [call : Calls, listed : SUBSET Candidates]
      BY <1>2, <2>1 DEF CommitReads, TypeInv, EvidenceTypeOK
    <2>3. CallPlaced(clerk.call)'
      <3> HIDE DEF call
      <3> QED
        BY <1>1, <1>2, <2>1, <2>2 DEF CallPlaced, Placed, Sends, CommitReads, chain
    <2> QED
      BY <1>2, <2>2, <2>3 DEF TypeInv, EvidenceTypeOK, AnchorsPlaced, CallPlaced, Placed, Sends,
         CommitReads, rows, chain, notes
  <1>3. CASE CommitInserts
    <2>1. CASE Committed
      <3>1. Clerk(NotCalled) /\ UNCHANGED <<commitment, roster>>
        BY <1>3, <2>1 DEF CommitInserts
      <3>2. clerk' \in [call : Calls, listed : SUBSET Candidates] /\ clerk'.call = NotCalled
        BY <3>1, ClerkGoes, NotCalledFields
      <3> QED
        BY <1>1, <1>3, <3>1, <3>2 DEF TypeInv, EvidenceTypeOK, AnchorsPlaced, CallPlaced, Placed, Sends,
           CommitInserts, chain, notes
    <2>2. CASE ~Committed
      <3>1. PICK n \in Serials :
              /\ commitment' = [NoCommitment EXCEPT !.n = n]
              /\ roster' = [roster EXCEPT ![n] = clerk.listed]
              /\ Clerk([NotCalled EXCEPT !.at = "send", !.n = n])
        BY <1>3, <2>2 DEF CommitInserts
      <3>2. n # 0
        BY EvidenceAssumption DEF Serials
      <3> DEFINE call == [NotCalled EXCEPT !.at = "send", !.n = n]
      <3>3. call \in Calls /\ call.n = n /\ call.anchor = NoAnchor /\ call.at = "send"
        BY AnchorFields DEF NotCalled, Calls
      <3>4. clerk' \in [call : Calls, listed : SUBSET Candidates] /\ clerk'.call = call
        BY <3>1, <3>3, ClerkGoes
      <3>5. commitment' \in Commitments /\ commitment'.commit = NoAnchor /\ commitment'.reveal = NoAnchor
        BY <3>1, NewCommitments
      <3>6. roster' \in [Serials -> SUBSET Candidates]
        BY <3>1, EvidenceParts
      <3>7. CallPlaced(clerk.call)'
        <4> HIDE DEF call
        <4> QED
          BY <1>1, <1>3, <3>2, <3>3, <3>4 DEF CallPlaced, Placed, Sends, CommitInserts, chain
      <3> QED
        BY <1>1, <1>3, <3>4, <3>5, <3>6, <3>7 DEF TypeInv, EvidenceTypeOK, AnchorsPlaced, CallPlaced,
           Placed, Sends, CommitInserts, chain, notes
    <2> QED
      BY <2>1, <2>2
  <1>4. CASE CommitSends
    <2>1. PICK anchor \in Sending :
            /\ Sent("commit", clerk.call.n, anchor)
            /\ Clerk([clerk.call EXCEPT !.anchor = anchor, !.at = After(anchor)])
      BY <1>4 DEF CommitSends
    <2> DEFINE call == [clerk.call EXCEPT !.anchor = anchor, !.at = After(anchor)]
    <2>2. clerk.call.n \in Serials /\ clerk.call.n # 0
      BY <1>1, <1>4, CallFields DEF CommitSends, CallPlaced, Sends
    <2>3. /\ txs' \in Seq(Transactions) /\ Len(txs') \in Nat /\ Len(txs) <= Len(txs')
          /\ anchor \in Anchors /\ anchor.tx \in 0..Len(txs')
          /\ (anchor.state = "pending" => anchor.tx # 0)
          /\ After(anchor) \in Places
          /\ (After(anchor) = "receipt" => anchor.tx # 0)
      BY <2>1, <2>2, SentTypes DEF Kinds
    <2>4. call \in Calls /\ call.n = clerk.call.n /\ call.anchor = anchor /\ call.at = After(anchor)
      BY <1>1, <2>3 DEF Calls, Places
    <2>5. clerk' \in [call : Calls, listed : SUBSET Candidates] /\ clerk'.call = call
      BY <2>1, <2>4, ClerkGoes
    <2>6. UNCHANGED <<enlisted, commitment, roster, drawnUnder, voided, lockedBy, drawing, reader,
                      registry, beacon, open, crossed, deaths>>
      BY <1>4 DEF CommitSends, rows, notes
    <2>7. EvidenceTypeOK'
      BY <2>3, <2>5, <2>6 DEF TypeInv, EvidenceTypeOK, Transactions, Kinds
    <2>8. CallPlaced(clerk.call)'
      <3> HIDE DEF call
      <3> QED
        BY <2>2, <2>3, <2>4, <2>5 DEF CallPlaced, Placed, Sends
    <2>9. AnchorsPlaced'
      BY <2>3, <2>6, <2>8, EvidenceParts DEF TypeInv, AnchorsPlaced, CallPlaced, Placed, Sends
    <2> QED
      BY <2>6, <2>7, <2>9 DEF TypeInv
  <1>5. CASE CommitWaits
    <2>1. PICK anchor \in Heard(clerk.call.anchor) :
            Clerk([clerk.call EXCEPT !.anchor = anchor, !.at = "write"])
      BY <1>5 DEF CommitWaits
    <2> DEFINE call == [clerk.call EXCEPT !.anchor = anchor, !.at = "write"]
    <2>2. /\ anchor \in Anchors /\ (anchor.state # "pending" \/ anchor.tx # 0)
          /\ anchor.tx \in {0, clerk.call.anchor.tx} /\ clerk.call.n # 0
      BY <1>1, <1>5, HeardTypes DEF CommitWaits, CallPlaced, Sends
    <2>3. call \in Calls /\ call.n = clerk.call.n /\ call.anchor = anchor /\ call.at = "write"
      BY <1>1, <2>2 DEF Calls
    <2>4. clerk' \in [call : Calls, listed : SUBSET Candidates] /\ clerk'.call = call
      BY <2>1, <2>3, ClerkGoes
    <2>5. CallPlaced(call)
      BY <1>1, <2>2, <2>3, EvidenceParts DEF CallPlaced, Placed, Sends
    <2>6. UNCHANGED <<rows, lockedBy, drawing, reader, chain, notes>>
      BY <1>5 DEF CommitWaits
    <2> HIDE DEF call
    <2> QED
      BY <2>4, <2>5, <2>6 DEF TypeInv, EvidenceTypeOK, AnchorsPlaced, CallPlaced, Placed, Sends,
         rows, chain, notes
  <1>6. CASE CommitWrites
    <2>1. commitment' \in Commitments /\ commitment'.commit \in {commitment.commit, clerk.call.anchor}
          /\ commitment'.reveal = commitment.reveal
      <3>1. CASE Committed
        BY <1>1, <1>6, <3>1, CommitmentFields DEF CommitWrites
      <3>2. CASE ~Committed
        BY <1>1, <1>6, <3>2 DEF CommitWrites
      <3> QED
        BY <3>1, <3>2
    <2>2. clerk' \in [call : Calls, listed : SUBSET Candidates] /\ clerk'.call = NotCalled
      BY <1>6, NotCalledFields DEF CommitWrites
    <2> QED
      BY <1>1, <1>6, <2>1, <2>2 DEF TypeInv, EvidenceTypeOK, AnchorsPlaced, CallPlaced, Placed, Sends,
         CommitWrites, chain, notes
  <1> QED
    BY <1>2, <1>3, <1>4, <1>5, <1>6

\* The page's reader, the chain, the void and the rest of the world.
LEMMA OtherStepTypes ==
  ASSUME TypeInv,
         \/ \E c \in Candidates : AddCandidate(c)
         \/ VoidCommitment \/ Dies \/ ReaderWrites
         \/ \E of \in Kinds : ReaderAsks(of)
         \/ \E n \in Serials : BeaconPublishes(n)
         \/ \E i \in 1..Len(txs) : Mine(i)
         \/ UNCHANGED evidenceVars
  PROVE  TypeInv'
  <1>1. Placed(NoAnchor) /\ CallPlaced(NotCalled)
    BY EvidenceParts, AnchorFields, NotCalledFields DEF Placed, CallPlaced, Sends
  <1>2. ASSUME NEW c \in Candidates, AddCandidate(c) PROVE TypeInv'
    BY <1>2 DEF AddCandidate, TypeInv, EvidenceTypeOK, AnchorsPlaced, CallPlaced, Placed, Sends,
       calls, chain, notes
  <1>3. CASE VoidCommitment
    <2>1. commitment' = NoCommitment /\ voided' \subseteq Serials /\ crossed' \in BOOLEAN
      BY <1>3, EvidenceParts, CommitmentFields DEF VoidCommitment, Committed, TypeInv, EvidenceTypeOK
    <2>2. UNCHANGED <<enlisted, roster, drawnUnder, lockedBy, drawing, clerk, reader, txs, registry,
                      beacon, open, deaths>>
      BY <1>3 DEF VoidCommitment, calls, chain
    <2>3. EvidenceTypeOK'
      BY <2>1, <2>2, NewCommitments DEF TypeInv, EvidenceTypeOK
    <2>4. AnchorsPlaced'
      BY <1>1, <2>1, <2>2, NewCommitments DEF TypeInv, AnchorsPlaced, CallPlaced, Placed, Sends
    <2> QED
      BY <2>2, <2>3, <2>4 DEF TypeInv
  <1>4. CASE Dies
    <2>1. deaths' \in 0..MaxDeaths
      BY <1>4, EvidenceAssumption DEF Dies, TypeInv, EvidenceTypeOK
    <2>2. CASE Clerk(NotCalled) /\ UNCHANGED <<drawing, lockedBy>>
      <3>1. clerk' \in [call : Calls, listed : SUBSET Candidates] /\ clerk'.call = NotCalled
        BY <2>2, ClerkGoes, NotCalledFields
      <3> QED
        BY <1>1, <1>4, <2>1, <2>2, <3>1 DEF Dies, TypeInv, EvidenceTypeOK, AnchorsPlaced, CallPlaced,
           Placed, Sends, rows, chain
    <2>3. CASE \E c \in Candidates : Drawing(c, NotCalled) /\ Unlocks(c) /\ UNCHANGED clerk
      <3>1. PICK c \in Candidates : Drawing(c, NotCalled) /\ Unlocks(c) /\ UNCHANGED clerk
        BY <2>3
      <3>2. /\ drawing' \in [Candidates -> Calls] /\ drawing'[c] = NotCalled
            /\ \A d \in Candidates \ {c} : drawing'[d] = drawing[d]
        BY <3>1, OneDraw, NotCalledFields
      <3>3. lockedBy' \in Candidates \cup {NoDraw} /\ (lockedBy' # NoDraw => drawing'[lockedBy'].at = "check")
        BY <3>1, LocksKept, NotCalledFields
      <3>4. UNCHANGED <<rows, reader, chain, beacon, open, crossed>>
        BY <1>4 DEF Dies
      <3>5. EvidenceTypeOK'
        BY <2>1, <3>1, <3>2, <3>3, <3>4 DEF TypeInv, EvidenceTypeOK, rows, chain
      <3>6. AnchorsPlaced'
        BY <1>1, <3>1, <3>2, <3>4 DEF TypeInv, AnchorsPlaced, CallPlaced, Placed, Sends, rows, chain
      <3> QED
        BY <3>4, <3>5, <3>6 DEF TypeInv
    <2> QED
      BY <1>4, <2>2, <2>3 DEF Dies
  <1>5. CASE ReaderWrites
    <2>1. /\ commitment' \in Commitments
          /\ commitment'.commit.tx = commitment.commit.tx /\ commitment'.reveal.tx = commitment.reveal.tx
          /\ commitment'.commit.state \in {commitment.commit.state, reader.anchor.state}
          /\ commitment'.reveal.state \in {commitment.reveal.state, reader.anchor.state}
      BY <1>5, ReaderNotes
    <2>2. /\ reader' = [at |-> "idle", of |-> "commit", anchor |-> NoAnchor]
          /\ UNCHANGED <<enlisted, roster, drawnUnder, voided, lockedBy, drawing, clerk, chain, notes>>
      BY <1>5 DEF ReaderWrites
    <2>3. reader.anchor.state # "pending"
      BY <1>5 DEF ReaderWrites, TypeInv
    <2>4. EvidenceTypeOK'
      BY <2>1, <2>2, AnchorFields DEF TypeInv, EvidenceTypeOK, chain, notes
    <2>5. AnchorsPlaced'
      BY <2>1, <2>2, <2>3 DEF TypeInv, AnchorsPlaced, CallPlaced, Placed, Sends, chain
    <2> QED
      BY <2>2, <2>4, <2>5, AnchorFields DEF TypeInv
  <1>6. ASSUME NEW of \in Kinds, ReaderAsks(of) PROVE TypeInv'
    <2> DEFINE asked == commitment[of]
    <2>1. asked \in Anchors /\ Placed(asked) /\ asked.state = "pending" /\ asked.tx # 0
      <3>1. CASE of = "commit"
        BY <1>6, <3>1, EvidenceParts, CommitmentFields DEF ReaderAsks, TypeInv, AnchorsPlaced, Placed
      <3>2. CASE of = "reveal"
        BY <1>6, <3>2, EvidenceParts, CommitmentFields DEF ReaderAsks, TypeInv, AnchorsPlaced, Placed
      <3> QED
        BY <3>1, <3>2 DEF Kinds
    <2>2. txs[asked.tx].state \in AnchorState \ {"pending"}
      BY <1>6, <2>1, EvidenceParts, AnchorFields DEF Placed, ReaderAsks
    <2>3. Receipt(asked) \in Anchors /\ Receipt(asked).state = txs[asked.tx].state
      BY <2>1, <2>2, AnchorFields DEF Receipt
    <2>4. /\ reader' = [at |-> "write", of |-> of, anchor |-> Receipt(asked)]
          /\ UNCHANGED <<rows, lockedBy, drawing, clerk, chain, notes>>
      BY <1>6 DEF ReaderAsks
    <2>5. reader' \in [at : {"idle", "write"}, of : {"commit", "reveal"}, anchor : Anchors]
          /\ reader'.anchor.state # "pending"
      BY <2>2, <2>3, <2>4 DEF Kinds
    <2> QED
      BY <2>4, <2>5 DEF TypeInv, EvidenceTypeOK, AnchorsPlaced, CallPlaced, Placed, Sends, rows, chain, notes
  <1>7. ASSUME NEW n \in Serials, BeaconPublishes(n) PROVE TypeInv'
    BY <1>7 DEF BeaconPublishes, TypeInv, EvidenceTypeOK, AnchorsPlaced, CallPlaced, Placed, Sends,
       rows, calls, chain
  <1>8. ASSUME NEW i \in 1..Len(txs), Mine(i) PROVE TypeInv'
    <2>1. /\ txs' \in Seq(Transactions) /\ Len(txs') = Len(txs)
          /\ registry' \in [commit : Serials \cup {0}, reveal : Serials \cup {0}]
      BY <1>8, MinedTypes
    <2>2. UNCHANGED <<rows, lockedBy, calls, notes>>
      BY <1>8 DEF Mine
    <2>3. EvidenceTypeOK'
      BY <2>1, <2>2 DEF TypeInv, EvidenceTypeOK, Transactions, Kinds, rows, calls, notes
    <2>4. AnchorsPlaced'
      BY <2>1, <2>2 DEF TypeInv, AnchorsPlaced, CallPlaced, Placed, Sends, rows, calls
    <2> QED
      BY <2>2, <2>3, <2>4 DEF TypeInv, calls
  <1>9. CASE UNCHANGED evidenceVars
    BY <1>9 DEF evidenceVars, TypeInv, EvidenceTypeOK, AnchorsPlaced, CallPlaced, Placed, Sends
  <1> QED
    BY <1>2, <1>3, <1>4, <1>5, <1>6, <1>7, <1>8, <1>9

\* Every step keeps the types.
LEMMA TypesKept == TypeInv /\ [EvidenceNext]_evidenceVars => TypeInv'
  BY DrawStepTypes, FinalStepTypes, ClerkStepTypes, OtherStepTypes DEF EvidenceNext, Kinds

-----------------------------------------------------------------------------
(* The group.                                                              *)

\* A draw goes on: what the new call must be for the rest to stand.
LEMMA DrawGoes ==
  ASSUME TypeInv, GroupInv, NEW c \in Candidates, NEW call \in Calls, Drawing(c, call),
         NEW shown \in Serials \cup {0},
         call.at # "idle" => Made(call.n) /\ c \in enlisted /\ (~crossed => call.n = commitment.n),
         call.at \in {"read", "check"} => drawnUnder[c] = 0,
         ~crossed /\ call.at \in Late => Over(call.n),
         OnItsWay(c) /\ ~crossed /\ deaths = 0 /\ Complete
            => call.at \in Late \cup {"count"} \/ commitment'.final,
         open' \subseteq open \cup {shown},
         shown \in open' \ open => Made(shown) /\ (~crossed => Over(shown)),
         commitment'.n = commitment.n, commitment.final => commitment'.final,
         UNCHANGED <<enlisted, roster, drawnUnder, voided, clerk, crossed, deaths>>
  PROVE  GroupInv'
  <1>1. /\ drawing'[c] = call
        /\ \A d \in Candidates \ {c} : drawing'[d] = drawing[d]
    BY OneDraw
  <1>2. NoncesMade'
    BY <1>1 DEF GroupInv, NoncesMade, Made, Committed
  <1>3. RostersEnlisted'
    BY DEF GroupInv, RostersEnlisted
  <1>4. DrawsEnlisted'
    BY <1>1 DEF GroupInv, DrawsEnlisted
  <1>5. CallsCurrent'
    BY <1>1 DEF GroupInv, CallsCurrent, Sends
  <1>6. LateIsOver'
    BY <1>1 DEF GroupInv, LateIsOver, Over
  <1>7. LastSees'
    BY <1>1 DEF GroupInv, LastSees, Complete, OnItsWay, Committed
  <1>8. OpenIsOver'
    BY DEF GroupInv, OpenIsOver, Over
  <1> QED
    BY <1>2, <1>3, <1>4, <1>5, <1>6, <1>7, <1>8 DEF GroupInv

\* A step of the clerk or a reader that leaves the nonces and the draws alone.
LEMMA ClerkGoesOn ==
  ASSUME GroupInv, UNCHANGED <<enlisted, roster, drawnUnder, voided, open, crossed, deaths, drawing>>,
         commitment'.n = commitment.n, commitment'.final = commitment.final,
         clerk'.listed \subseteq enlisted,
         clerk'.call.at = "read" => clerk'.listed # {},
         Sends(clerk'.call) /\ ~crossed => clerk'.call.n = commitment.n
  PROVE  GroupInv'
  <1>1. NoncesMade' /\ RostersEnlisted' /\ DrawsEnlisted'
    BY DEF GroupInv, NoncesMade, Made, Committed, RostersEnlisted, DrawsEnlisted
  <1>2. CallsCurrent'
    BY DEF GroupInv, CallsCurrent, Sends
  <1>3. LateIsOver' /\ OpenIsOver'
    BY DEF GroupInv, LateIsOver, OpenIsOver, Over
  <1>4. LastSees'
    BY DEF GroupInv, LastSees, Complete, OnItsWay, Committed
  <1> QED
    BY <1>1, <1>2, <1>3, <1>4 DEF GroupInv

\* The start.
LEMMA GroupAtStart == EvidenceInit => GroupInv
  <1> SUFFICES ASSUME EvidenceInit PROVE GroupInv
    OBVIOUS
  <1>1. /\ ~Committed /\ open = {} /\ voided = {} /\ clerk.listed = {} /\ clerk.call = NotCalled
        /\ \A c \in Candidates : drawing[c] = NotCalled /\ drawnUnder[c] = 0
        /\ \A n \in Serials : roster[n] = {}
    BY NewCommitments DEF EvidenceInit, Committed
  <1> QED
    BY <1>1, NotCalledFields DEF GroupInv, NoncesMade, RostersEnlisted, DrawsEnlisted, CallsCurrent,
       LateIsOver, LastSees, OpenIsOver, Late, Sends, Complete

\* The steps of a draw before it commits, and its call's way to the end.
LEMMA DrawStepGroup ==
  ASSUME TypeInv, GroupInv, NEW c \in Candidates,
         DrawReads(c) \/ DrawLocks(c) \/ FinalCounts(c) \/ FinalLooks(c) \/ FinalWaits(c)
  PROVE  GroupInv'
  <1>0. /\ drawing[c] \in Calls /\ NotCalled \in Calls /\ NotCalled.at = "idle"
        /\ commitment.n \in Serials \cup {0} /\ 0 \in Serials \cup {0}
    BY EvidenceParts, NotCalledFields, CommitmentFields
  <1>1. UNCHANGED <<enlisted, commitment, roster, drawnUnder, voided, clerk, open, crossed, deaths>>
    BY DEF DrawReads, DrawLocks, FinalCounts, FinalLooks, FinalWaits, rows, notes
  <1>2. drawing[c].at # "idle" =>
          /\ Made(drawing[c].n) /\ c \in enlisted
          /\ ~crossed => drawing[c].n = commitment.n
    BY DEF GroupInv, NoncesMade, DrawsEnlisted, CallsCurrent
  <1>3. CASE DrawReads(c)
    <2> DEFINE call == [NotCalled EXCEPT !.at = "read", !.n = commitment.n]
    <2>1. call \in Calls /\ call.at = "read" /\ call.n = commitment.n
      BY <1>0 DEF Calls
    <2>2. Drawing(c, call) /\ Made(commitment.n) /\ c \in enlisted /\ drawnUnder[c] = 0 /\ ~OnItsWay(c)
      BY <1>3 DEF DrawReads, GroupInv, NoncesMade, OnItsWay, Late
    <2> HIDE DEF call
    <2> QED
      BY <1>0, <1>1, <2>1, <2>2, DrawGoes DEF Late
  <1>4. CASE DrawLocks(c)
    <2> DEFINE call == Reaches(drawing[c], "check")
    <2>1. call \in Calls /\ call.at = "check" /\ call.n = drawing[c].n
      BY <1>0 DEF Calls, Reaches
    <2>2. Drawing(c, call) /\ drawing[c].at = "read" /\ drawnUnder[c] = 0 /\ ~OnItsWay(c)
      BY <1>4 DEF DrawLocks, GroupInv, DrawsEnlisted, OnItsWay, Late
    <2> HIDE DEF call
    <2> QED
      BY <1>0, <1>1, <1>2, <2>1, <2>2, DrawGoes DEF Late
  <1>5. CASE FinalCounts(c)
    <2>1. drawing[c].at = "count"
      BY <1>5 DEF FinalCounts
    <2>2. CASE NobodyLeft(c)
      <3> DEFINE call == Reaches(drawing[c], "look")
      <3>1. call \in Calls /\ call.at = "look" /\ call.n = drawing[c].n
        BY <1>0 DEF Calls, Reaches
      <3>2. Drawing(c, call)
        BY <1>5, <2>2 DEF FinalCounts
      <3>3. Over(drawing[c].n)
        BY <1>2, <2>1, <2>2 DEF GroupInv, RostersEnlisted, Over, NobodyLeft, Made
      <3> HIDE DEF call
      <3> QED
        BY <1>0, <1>1, <1>2, <2>1, <3>1, <3>2, <3>3, DrawGoes DEF Late
    <2>3. CASE ~NobodyLeft(c)
      <3>1. Drawing(c, NotCalled)
        BY <1>5, <2>3 DEF FinalCounts
      <3>2. ~Complete
        <4>1. PICK d \in enlisted : drawnUnder[d] = 0
          BY <2>3 DEF NobodyLeft
        <4> QED
          BY <4>1 DEF Complete, Committed
      <3> QED
        BY <1>0, <1>1, <3>1, <3>2, DrawGoes DEF Late
    <2> QED
      BY <2>2, <2>3
  <1>6. CASE FinalLooks(c)
    <2>1. drawing[c].at = "look"
      BY <1>6 DEF FinalLooks
    <2>2. CASE Committed /\ ~commitment.final
      <3> DEFINE call == [drawing[c] EXCEPT !.at = "send", !.n = commitment.n]
      <3>1. call \in Calls /\ call.at = "send" /\ call.n = commitment.n
        BY <1>0 DEF Calls
      <3>2. Drawing(c, call)
        BY <1>6, <2>2 DEF FinalLooks
      <3>3. Made(commitment.n) /\ (~crossed => Over(commitment.n))
        BY <1>2, <2>1, <2>2 DEF GroupInv, NoncesMade, LateIsOver, Late, Over
      <3> HIDE DEF call
      <3> QED
        BY <1>0, <1>1, <1>2, <2>1, <3>1, <3>2, <3>3, DrawGoes DEF Late
    <2>3. CASE ~(Committed /\ ~commitment.final)
      <3>1. Drawing(c, NotCalled)
        BY <1>6, <2>3 DEF FinalLooks
      <3> QED
        BY <1>0, <1>1, <2>3, <3>1, DrawGoes DEF Late, Complete
    <2> QED
      BY <2>2, <2>3
  <1>7. CASE FinalWaits(c)
    <2>1. PICK anchor \in Heard(drawing[c].anchor) :
            Drawing(c, [drawing[c] EXCEPT !.anchor = anchor, !.at = "write"])
      BY <1>7 DEF FinalWaits
    <2> DEFINE call == [drawing[c] EXCEPT !.anchor = anchor, !.at = "write"]
    <2>2. drawing[c].at = "receipt" /\ anchor \in Anchors
      BY <1>0, <1>7, HeardTypes, CallFields DEF FinalWaits, TypeInv, AnchorsPlaced, CallPlaced
    <2>3. call \in Calls /\ call.at = "write" /\ call.n = drawing[c].n
      BY <1>0, <2>2 DEF Calls
    <2>4. Drawing(c, call)
      BY <2>1
    <2>5. ~crossed => Over(drawing[c].n)
      BY <2>2 DEF GroupInv, LateIsOver, Late
    <2> HIDE DEF call
    <2> QED
      BY <1>0, <1>1, <1>2, <2>2, <2>3, <2>4, <2>5, DrawGoes DEF Late
  <1> QED
    BY <1>3, <1>4, <1>5, <1>6, <1>7

\* A draw commits: its candidate was not drawn yet, so nobody knows the nonce.
LEMMA DrawCommitsGroup ==
  ASSUME TypeInv, GroupInv, NEW c \in Candidates, DrawCommits(c)
  PROVE  GroupInv'
  <1> DEFINE n == drawing[c].n
  <1>0. /\ drawing[c] \in Calls /\ NotCalled \in Calls /\ NotCalled.at = "idle"
        /\ 0 \in Serials \cup {0}
    BY EvidenceParts, NotCalledFields
  <1>1. UNCHANGED <<enlisted, commitment, roster, voided, clerk, open, crossed, deaths>>
    BY DEF DrawCommits, notes
  <1>2. /\ drawing[c].at = "check" /\ Made(n) /\ c \in enlisted /\ drawnUnder[c] = 0 /\ ~OnItsWay(c)
        /\ ~crossed => n = commitment.n
    BY DEF DrawCommits, GroupInv, NoncesMade, DrawsEnlisted, CallsCurrent, OnItsWay, Late
  <1>3. CASE n \in beacon /\ SameRoster(n)
    <2> DEFINE call == Reaches(drawing[c], "count")
    <2>1. call \in Calls /\ call.at = "count" /\ call.n = n
      BY <1>0 DEF Calls, Reaches
    <2>2. Drawing(c, call) /\ drawnUnder' = [drawnUnder EXCEPT ![c] = n]
      BY <1>3 DEF DrawCommits
    <2> HIDE DEF call
    <2>3. /\ drawing'[c] = call
          /\ \A d \in Candidates \ {c} : drawing'[d] = drawing[d]
      BY <2>1, <2>2, OneDraw
    <2>4. drawnUnder'[c] = n /\ n # 0 /\ \A d \in Candidates \ {c} : drawnUnder'[d] = drawnUnder[d]
      BY <1>2, <2>2, EvidenceParts, EvidenceAssumption DEF Made, Serials
    <2>5. \A d \in Candidates : drawnUnder[d] # 0 => drawnUnder'[d] # 0
      BY <1>2, <2>4
    <2>6. \A m \in Serials : Over(m) => Over(m)'
      BY <1>1, <2>5, EvidenceParts DEF Over
    <2>7. NoncesMade'
      BY <1>1, <1>2, <2>1, <2>3, <2>4 DEF GroupInv, NoncesMade, Made, Committed
    <2>8. RostersEnlisted' /\ DrawsEnlisted'
      BY <1>1, <1>2, <2>1, <2>3, <2>4 DEF GroupInv, RostersEnlisted, DrawsEnlisted
    <2>9. CallsCurrent'
      BY <1>1, <1>2, <2>1, <2>3 DEF GroupInv, CallsCurrent, Sends
    <2>10. LateIsOver'
      <3>1. ASSUME NEW d \in Candidates, ~crossed, drawing'[d].at \in Late
            PROVE  \A e \in roster[drawing'[d].n] : drawnUnder'[e] # 0
        <4>1. d # c /\ drawing'[d] = drawing[d]
          BY <2>1, <2>3, <3>1 DEF Late
        <4>2. Over(drawing[d].n) /\ drawing[d].n \in Serials
          BY <3>1, <4>1 DEF GroupInv, LateIsOver, NoncesMade, Made, Late
        <4> QED
          BY <2>5, <4>1, <4>2, EvidenceParts DEF Over
      <3> QED
        BY <1>1, <3>1 DEF LateIsOver, Over
    <2>11. LastSees'
      BY <2>1, <2>3 DEF LastSees, OnItsWay
    <2>12. OpenIsOver'
      BY <1>1, <2>6 DEF GroupInv, OpenIsOver, NoncesMade, Made, Over
    <2> QED
      BY <2>7, <2>8, <2>9, <2>10, <2>11, <2>12 DEF GroupInv
  <1>4. CASE ~(n \in beacon /\ SameRoster(n))
    <2>1. Drawing(c, NotCalled) /\ drawnUnder' = drawnUnder
      BY <1>4 DEF DrawCommits
    <2> QED
      BY <1>0, <1>1, <1>2, <2>1, DrawGoes DEF Late
  <1> QED
    BY <1>3, <1>4

\* The reveal is sent, and the draw is final: the nonce is shown, and it is over.
LEMMA FinalShows ==
  ASSUME TypeInv, GroupInv, NEW c \in Candidates, FinalSends(c) \/ FinalWrites(c)
  PROVE  GroupInv'
  <1>0. /\ drawing[c] \in Calls /\ NotCalled \in Calls /\ NotCalled.at = "idle"
        /\ commitment \in Commitments /\ drawing[c].anchor \in Anchors /\ 0 \in Serials \cup {0}
    BY EvidenceParts, NotCalledFields, CallFields
  <1>1. UNCHANGED <<enlisted, roster, drawnUnder, voided, clerk, crossed, deaths>>
    BY DEF FinalSends, FinalWrites, rows
  <1>2. /\ Made(drawing[c].n) /\ c \in enlisted
        /\ ~crossed => drawing[c].n = commitment.n /\ Over(drawing[c].n)
    BY DEF FinalSends, FinalWrites, GroupInv, NoncesMade, DrawsEnlisted, CallsCurrent, LateIsOver, Late
  <1>3. CASE FinalSends(c)
    <2>1. PICK anchor \in Sending :
            /\ Sent("reveal", drawing[c].n, anchor)
            /\ Drawing(c, [drawing[c] EXCEPT !.anchor = anchor, !.at = After(anchor)])
            /\ open' = IF anchor.tx = 0 THEN open ELSE open \cup {drawing[c].n}
      BY <1>3 DEF FinalSends
    <2> DEFINE call == [drawing[c] EXCEPT !.anchor = anchor, !.at = After(anchor)]
    <2>2. anchor \in Anchors /\ After(anchor) \in {"write", "receipt"}
      BY <1>2, <2>1, SentTypes DEF Kinds, Made, After
    <2>3. call \in Calls /\ call.n = drawing[c].n /\ call.at \in {"write", "receipt"}
      BY <1>0, <2>2 DEF Calls
    <2>4. Drawing(c, call)
      BY <2>1
    <2>5. commitment' = commitment /\ open' \subseteq open \cup {drawing[c].n}
      BY <1>3, <2>1 DEF FinalSends, rows
    <2> HIDE DEF call
    <2> QED
      BY <1>0, <1>1, <1>2, <2>3, <2>4, <2>5, DrawGoes DEF Late, Made
  <1>4. CASE FinalWrites(c)
    <2>1. Drawing(c, NotCalled)
      BY <1>4 DEF FinalWrites
    <2>2. CASE Committed
      <3>1. commitment' = [commitment EXCEPT !.final = TRUE, !.reveal = drawing[c].anchor]
            /\ open' = open \cup {commitment.n}
        BY <1>4, <2>2 DEF FinalWrites
      <3>2. commitment'.n = commitment.n /\ commitment'.final
        BY <1>0, <3>1 DEF Commitments
      <3>3. Made(commitment.n) /\ (~crossed => Over(commitment.n))
        BY <1>2, <2>2 DEF GroupInv, NoncesMade, Over
      <3> QED
        BY <1>0, <1>1, <2>1, <3>1, <3>2, <3>3, DrawGoes DEF Late, Made
    <2>3. CASE ~Committed
      <3>1. UNCHANGED <<commitment, open>>
        BY <1>4, <2>3 DEF FinalWrites
      <3> QED
        BY <1>0, <1>1, <2>1, <2>3, <3>1, DrawGoes DEF Late, Complete
    <2> QED
      BY <2>2, <2>3
  <1> QED
    BY <1>3, <1>4

\* The clerk's steps that make no commitment.
LEMMA ClerkStepGroup ==
  ASSUME TypeInv, GroupInv, CommitReads \/ CommitSends \/ CommitWaits \/ CommitWrites
  PROVE  GroupInv'
  <1>0. /\ clerk.call \in Calls /\ clerk.call.anchor \in Anchors /\ commitment \in Commitments
        /\ clerk.listed \subseteq enlisted
    BY EvidenceParts, CallFields DEF GroupInv, RostersEnlisted
  <1>1. UNCHANGED <<enlisted, roster, drawnUnder, voided, open, crossed, deaths, drawing>>
    BY DEF CommitReads, CommitSends, CommitWaits, CommitWrites, rows, notes
  <1>2. Sends(clerk.call) => clerk.call.n # 0 /\ clerk.call.n \in Serials
                             /\ (~crossed => clerk.call.n = commitment.n)
    BY <1>0, CallFields DEF GroupInv, CallsCurrent, TypeInv, AnchorsPlaced, CallPlaced
  <1>3. CASE CommitReads
    <2>1. clerk'.call.at = "read" /\ clerk'.listed = enlisted /\ enlisted # {} /\ commitment' = commitment
      <3>1. Reaches(NotCalled, "read").at = "read"
        BY DEF NotCalled, Reaches
      <3> QED
        BY <1>3, <3>1 DEF CommitReads, rows
    <2> QED
      BY <1>1, <2>1, ClerkGoesOn DEF Sends
  <1>4. CASE CommitSends
    <2>1. PICK anchor \in Sending :
            /\ Sent("commit", clerk.call.n, anchor)
            /\ Clerk([clerk.call EXCEPT !.anchor = anchor, !.at = After(anchor)])
      BY <1>4 DEF CommitSends
    <2> DEFINE call == [clerk.call EXCEPT !.anchor = anchor, !.at = After(anchor)]
    <2>2. anchor \in Anchors /\ After(anchor) \in {"write", "receipt"}
      BY <1>2, <1>4, <2>1, SentTypes DEF CommitSends, Sends, Kinds, After
    <2>3. call \in Calls /\ call.n = clerk.call.n /\ call.at \in {"write", "receipt"}
      BY <1>0, <2>2 DEF Calls
    <2>4. clerk'.call = call /\ clerk'.listed = clerk.listed
      BY <2>1, <2>3, ClerkGoes
    <2>5. commitment' = commitment /\ Sends(clerk.call)
      BY <1>4 DEF CommitSends, rows, Sends
    <2> HIDE DEF call
    <2> QED
      BY <1>0, <1>1, <1>2, <2>3, <2>4, <2>5, ClerkGoesOn
  <1>5. CASE CommitWaits
    <2>1. PICK anchor \in Heard(clerk.call.anchor) :
            Clerk([clerk.call EXCEPT !.anchor = anchor, !.at = "write"])
      BY <1>5 DEF CommitWaits
    <2> DEFINE call == [clerk.call EXCEPT !.anchor = anchor, !.at = "write"]
    <2>2. anchor \in Anchors
      BY <1>0, <1>5, HeardTypes DEF CommitWaits, TypeInv, AnchorsPlaced, CallPlaced
    <2>3. call \in Calls /\ call.n = clerk.call.n /\ call.at = "write"
      BY <1>0, <2>2 DEF Calls
    <2>4. clerk'.call = call /\ clerk'.listed = clerk.listed
      BY <2>1, <2>3, ClerkGoes
    <2>5. commitment' = commitment /\ Sends(clerk.call)
      BY <1>5 DEF CommitWaits, rows, Sends
    <2> HIDE DEF call
    <2> QED
      BY <1>0, <1>1, <1>2, <2>3, <2>4, <2>5, ClerkGoesOn
  <1>6. CASE CommitWrites
    <2>1. commitment'.n = commitment.n /\ commitment'.final = commitment.final
      <3>1. CASE Committed
        BY <1>0, <1>6, <3>1, CommitmentFields DEF CommitWrites
      <3>2. CASE ~Committed
        BY <1>6, <3>2 DEF CommitWrites
      <3> QED
        BY <3>1, <3>2
    <2>2. clerk'.call = NotCalled /\ clerk'.listed = {}
      BY <1>6 DEF CommitWrites
    <2> QED
      BY <1>1, <2>1, <2>2, NotCalledFields, ClerkGoesOn DEF Sends
  <1> QED
    BY <1>3, <1>4, <1>5, <1>6

\* A commitment is made under a nonce nobody has: no draw is complete with it, and
\* no call of an earlier one is left, unless that was voided under a call.
LEMMA CommitInsertsGroup ==
  ASSUME TypeInv, GroupInv, CommitInserts
  PROVE  GroupInv'
  <1>0. UNCHANGED <<enlisted, drawnUnder, voided, drawing, open, crossed, deaths>>
    BY DEF CommitInserts, notes
  <1>1. CASE Committed
    <2>1. Clerk(NotCalled) /\ UNCHANGED <<commitment, roster>>
      BY <1>1 DEF CommitInserts
    <2>2. clerk'.call = NotCalled /\ clerk'.listed = clerk.listed /\ clerk.listed \subseteq enlisted
      BY <2>1, ClerkGoes, NotCalledFields DEF GroupInv, RostersEnlisted
    <2> QED
      BY <1>0, <2>1, <2>2, NotCalledFields, ClerkGoesOn DEF Sends
  <1>2. CASE ~Committed
    <2>1. PICK n \in Serials :
            /\ roster[n] = {}
            /\ commitment' = [NoCommitment EXCEPT !.n = n]
            /\ roster' = [roster EXCEPT ![n] = clerk.listed]
            /\ Clerk([NotCalled EXCEPT !.at = "send", !.n = n])
      BY <1>2 DEF CommitInserts, IsNext
    <2> DEFINE call == [NotCalled EXCEPT !.at = "send", !.n = n]
    <2>2. call \in Calls /\ call.at = "send" /\ call.n = n
      BY AnchorFields DEF NotCalled, Calls
    <2>3. clerk'.call = call /\ clerk'.listed = clerk.listed
      BY <2>1, <2>2, ClerkGoes
    <2>4. commitment'.n = n /\ n # 0
      BY <2>1, NewCommitments, EvidenceAssumption DEF Serials
    <2>5. clerk.listed # {} /\ clerk.listed \subseteq enlisted
      BY DEF CommitInserts, GroupInv, RostersEnlisted
    <2>6. roster'[n] = clerk.listed /\ \A m \in Serials \ {n} : roster'[m] = roster[m]
      BY <2>1, EvidenceParts
    <2>7. \A m : Made(m) => m # n /\ Made(m)' /\ roster'[m] = roster[m]
      BY <2>1, <2>6 DEF Made
    <2> HIDE DEF call
    <2>8. NoncesMade'
      <3>1. Made(n)' /\ n \notin voided
        BY <2>1, <2>5, <2>6, <2>7 DEF Made, GroupInv, NoncesMade
      <3> QED
        BY <1>0, <2>4, <2>7, <3>1 DEF GroupInv, NoncesMade
    <2>9. RostersEnlisted' /\ DrawsEnlisted'
      BY <1>0, <2>2, <2>3, <2>5, <2>6 DEF GroupInv, RostersEnlisted, DrawsEnlisted
    <2>10. ~crossed => \A c \in Candidates : drawing[c].at = "idle"
      <3>1. commitment.n = 0 /\ 0 \notin Serials
        BY <1>2, EvidenceAssumption DEF Committed, Serials
      <3>2. ASSUME ~crossed, NEW c \in Candidates, drawing[c].at # "idle" PROVE FALSE
        <4>1. drawing[c].n = commitment.n /\ drawing[c].n \in Serials
          BY <3>2 DEF GroupInv, CallsCurrent, NoncesMade, Made
        <4> QED
          BY <3>1, <4>1
      <3> QED
        BY <3>2
    <2>11. CallsCurrent' /\ LateIsOver'
      BY <1>0, <2>2, <2>3, <2>4, <2>10 DEF CallsCurrent, LateIsOver, Late, Sends
    <2>12. LastSees'
      <3>1. PICK d \in enlisted : TRUE
        BY <2>5
      <3>2. d \in Candidates
        BY DEF TypeInv, EvidenceTypeOK
      <3>3. drawnUnder[d] # n
        BY <2>4, <2>7, <3>2 DEF GroupInv, NoncesMade
      <3> QED
        BY <1>0, <2>4, <3>1, <3>3 DEF LastSees, Complete
    <2>13. OpenIsOver'
      BY <1>0, <2>7 DEF GroupInv, OpenIsOver, NoncesMade
    <2> QED
      BY <2>8, <2>9, <2>11, <2>12, <2>13 DEF GroupInv
  <1> QED
    BY <1>1, <1>2

\* A candidate is enlisted: the draw under way is not complete any more.
LEMMA AddGroup ==
  ASSUME TypeInv, GroupInv, NEW c \in Candidates, AddCandidate(c)
  PROVE  GroupInv'
  <1>1. /\ enlisted' = enlisted \cup {c} /\ c \notin enlisted
        /\ UNCHANGED <<commitment, roster, drawnUnder, voided, drawing, clerk, open, crossed, deaths>>
    BY DEF AddCandidate, calls, notes
  <1>2. drawnUnder[c] = 0
    BY <1>1 DEF GroupInv, NoncesMade
  <1>3. ~Complete'
    BY <1>1, <1>2 DEF Complete, Committed
  <1>4. NoncesMade' /\ RostersEnlisted' /\ DrawsEnlisted'
    BY <1>1 DEF GroupInv, NoncesMade, Made, Committed, RostersEnlisted, DrawsEnlisted
  <1>5. CallsCurrent' /\ LateIsOver' /\ OpenIsOver'
    BY <1>1 DEF GroupInv, CallsCurrent, LateIsOver, OpenIsOver, Over, Sends
  <1> QED
    BY <1>3, <1>4, <1>5 DEF GroupInv, LastSees

\* A commitment is voided, under a call or not.
LEMMA VoidGroup ==
  ASSUME TypeInv, GroupInv, VoidCommitment
  PROVE  GroupInv'
  <1>1. /\ Committed /\ voided' = voided \cup {commitment.n} /\ ~Committed'
        /\ UNCHANGED <<enlisted, roster, drawnUnder, drawing, clerk, open, deaths>>
        /\ ~crossed' => ~crossed /\ \A c \in Candidates : drawing[c].at = "idle"
        /\ ~crossed' => clerk.call.at = "idle"
    BY NewCommitments DEF VoidCommitment, Committed, calls, Busy
  <1>2. NoncesMade' /\ RostersEnlisted' /\ DrawsEnlisted'
    BY <1>1 DEF GroupInv, NoncesMade, Made, RostersEnlisted, DrawsEnlisted
  <1>3. CallsCurrent' /\ LateIsOver' /\ OpenIsOver' /\ LastSees'
    BY <1>1 DEF GroupInv, CallsCurrent, LateIsOver, OpenIsOver, LastSees, Complete, Over, Sends, Late
  <1> QED
    BY <1>2, <1>3 DEF GroupInv

\* A call dies; the draws it leaves unfinished are not counted on any more.
LEMMA DiesGroup ==
  ASSUME TypeInv, GroupInv, Dies
  PROVE  GroupInv'
  <1>1. /\ UNCHANGED <<enlisted, commitment, roster, drawnUnder, voided, open, crossed>>
        /\ deaths' = deaths + 1
    BY DEF Dies, rows
  <1>2. /\ \A c \in Candidates : drawing'[c] = drawing[c] \/ drawing'[c].at = "idle"
        /\ clerk'.listed = clerk.listed /\ (clerk'.call = clerk.call \/ clerk'.call.at = "idle")
    <2>1. CASE Clerk(NotCalled) /\ UNCHANGED drawing
      BY <2>1, ClerkGoes, NotCalledFields
    <2>2. CASE \E c \in Candidates : Drawing(c, NotCalled) /\ UNCHANGED clerk
      BY <2>2, OneDraw, NotCalledFields
    <2> QED
      BY <2>1, <2>2 DEF Dies
  <1>3. NoncesMade' /\ RostersEnlisted' /\ DrawsEnlisted'
    BY <1>1, <1>2 DEF GroupInv, NoncesMade, Made, Committed, RostersEnlisted, DrawsEnlisted
  <1>4. CallsCurrent' /\ LateIsOver' /\ OpenIsOver'
    BY <1>1, <1>2 DEF GroupInv, CallsCurrent, LateIsOver, OpenIsOver, Over, Sends, Late
  <1>5. LastSees'
    BY <1>1 DEF LastSees, TypeInv, EvidenceTypeOK
  <1> QED
    BY <1>3, <1>4, <1>5 DEF GroupInv

\* Steps that leave the group alone.
LEMMA OtherStepGroup ==
  ASSUME TypeInv, GroupInv,
         \/ ReaderWrites
         \/ \E of \in Kinds : ReaderAsks(of)
         \/ \E n \in Serials : BeaconPublishes(n)
         \/ \E i \in 1..Len(txs) : Mine(i)
         \/ UNCHANGED evidenceVars
  PROVE  GroupInv'
  <1>1. /\ UNCHANGED <<enlisted, roster, drawnUnder, voided, open, crossed, deaths, drawing, clerk>>
        /\ ReaderWrites \/ commitment' = commitment
    BY DEF ReaderWrites, ReaderAsks, BeaconPublishes, Mine, evidenceVars, rows, calls, notes
  <1>2. commitment'.n = commitment.n /\ commitment'.final = commitment.final
    BY <1>1, ReaderNotes
  <1>3. /\ clerk.listed \subseteq enlisted /\ (clerk.call.at = "read" => clerk.listed # {})
        /\ Sends(clerk.call) /\ ~crossed => clerk.call.n = commitment.n
    BY DEF GroupInv, RostersEnlisted, CallsCurrent
  <1> QED
    BY <1>1, <1>2, <1>3, ClerkGoesOn

\* Every step keeps what is known of the group.
LEMMA GroupKept == TypeInv /\ GroupInv /\ [EvidenceNext]_evidenceVars => GroupInv'
  BY DrawStepGroup, DrawCommitsGroup, FinalShows, ClerkStepGroup, CommitInsertsGroup, AddGroup,
     VoidGroup, DiesGroup, OtherStepGroup DEF EvidenceNext, Kinds

-----------------------------------------------------------------------------
(* The anchors.                                                            *)

\* What the contract holds after a step.
OnChainThen(of) == IF of = "commit" THEN registry'.commit ELSE registry'.reveal

\* The chain goes on: transactions keep what they are for, the contract what it holds.
ChainGrows ==
    /\ Len(txs') \in Nat /\ Len(txs) <= Len(txs')
    /\ \A i \in 1..Len(txs) : txs'[i].of = txs[i].of /\ txs'[i].n = txs[i].n
    /\ \A of \in Kinds : OnChain(of) # 0 => OnChainThen(of) = OnChain(of)

\* What Right says after a step.
RightThen(anchor, of, n) ==
    /\ anchor.tx # 0 => txs'[anchor.tx].of = of /\ txs'[anchor.tx].n = n
    /\ anchor.state = "anchored" => n # 0 /\ OnChainThen(of) = n

\* A chain that stays as it is has gone on.
LEMMA ChainStays == ASSUME TypeInv, UNCHANGED chain PROVE ChainGrows
  BY EvidenceParts DEF ChainGrows, OnChain, OnChainThen, chain

\* An anchor that was right stays right.
LEMMA RightStays ==
  ASSUME TypeInv, ChainGrows, NEW anchor \in Anchors, Placed(anchor), NEW of \in Kinds, NEW n,
         Right(anchor, of, n)
  PROVE  RightThen(anchor, of, n)
  <1>1. Len(txs) \in Nat /\ anchor.tx \in 0..Len(txs)
    BY EvidenceParts DEF Placed
  <1>2. ASSUME anchor.tx # 0 PROVE txs'[anchor.tx].of = of /\ txs'[anchor.tx].n = n
    <2>1. anchor.tx \in 1..Len(txs)
      BY <1>1, <1>2
    <2> QED
      BY <1>2, <2>1 DEF ChainGrows, Right
  <1>3. ASSUME anchor.state = "anchored" PROVE n # 0 /\ OnChainThen(of) = n
    <2>1. n # 0 /\ OnChain(of) = n
      BY <1>3 DEF Right
    <2>2. OnChain(of) # 0 => OnChainThen(of) = OnChain(of)
      BY DEF ChainGrows
    <2> QED
      BY <2>1, <2>2, Zenon
  <1> QED
    BY <1>2, <1>3 DEF RightThen

\* An anchor nothing was sent for is right.
LEMMA NothingIsRight ==
  ASSUME NEW anchor, anchor.tx = 0, anchor.state # "anchored", NEW of, NEW n
  PROVE  Right(anchor, of, n) /\ RightThen(anchor, of, n)
  BY DEF Right, RightThen

\* The row stays right when nobody writes it.
LEMMA RowStays ==
  ASSUME TypeInv, AnchorInv, ChainGrows, crossed' = crossed, commitment' = commitment
  PROVE  RowRight' /\ NoneLeft'
  <1>1. /\ commitment.commit \in Anchors /\ Placed(commitment.commit)
        /\ commitment.reveal \in Anchors /\ Placed(commitment.reveal)
    BY EvidenceParts, CommitmentFields DEF TypeInv, AnchorsPlaced
  <1>2. ~crossed => /\ RightThen(commitment.commit, "commit", commitment.n)
                    /\ RightThen(commitment.reveal, "reveal", commitment.n)
    BY <1>1, RightStays DEF AnchorInv, RowRight, Kinds
  <1>3. RowRight'
    BY <1>2 DEF RowRight, Right, RightThen, OnChain, OnChainThen
  <1> QED
    BY <1>3 DEF AnchorInv, NoneLeft, Committed

\* A row that is made anew has no anchors to be wrong.
LEMMA RowGone ==
  ASSUME commitment' \in Commitments, commitment'.commit = NoAnchor, commitment'.reveal = NoAnchor
  PROVE  RowRight'
  BY AnchorFields DEF RowRight, Right

\* The clerk keeps its anchor, or has none to tell of.
LEMMA ClerkStays ==
  ASSUME TypeInv, AnchorInv, ChainGrows, crossed' = crossed,
         clerk'.call = clerk.call \/ clerk'.call.at \notin Told
  PROVE  ClerkRight'
  <1>1. CASE clerk'.call.at \notin Told
    BY <1>1 DEF ClerkRight
  <1>2. CASE clerk'.call = clerk.call
    <2>1. clerk.call.anchor \in Anchors /\ Placed(clerk.call.anchor)
      BY EvidenceParts, CallFields DEF TypeInv, AnchorsPlaced, CallPlaced
    <2>2. ~crossed /\ clerk.call.at \in Told => RightThen(clerk.call.anchor, "commit", clerk.call.n)
      BY <2>1, RightStays DEF AnchorInv, ClerkRight, Kinds
    <2> QED
      BY <1>2, <2>2 DEF ClerkRight, Right, RightThen, OnChain, OnChainThen
  <1> QED
    BY <1>1, <1>2

\* A draw keeps its anchor, has none to tell of, or has a right one.
LEMMA DrawsStay ==
  ASSUME TypeInv, AnchorInv, ChainGrows, crossed' = crossed,
         \A c \in Candidates :
            \/ drawing'[c] = drawing[c] \/ drawing'[c].at \notin Told
            \/ ~crossed => RightThen(drawing'[c].anchor, "reveal", drawing'[c].n)
  PROVE  DrawsRight'
  <1>1. ASSUME ~crossed, NEW c \in Candidates, drawing'[c].at \in Told
        PROVE  RightThen(drawing'[c].anchor, "reveal", drawing'[c].n)
    <2>1. CASE drawing'[c] = drawing[c]
      <3>1. drawing[c].anchor \in Anchors /\ Placed(drawing[c].anchor)
        BY EvidenceParts, CallFields DEF TypeInv, AnchorsPlaced, CallPlaced
      <3>2. RightThen(drawing[c].anchor, "reveal", drawing[c].n)
        BY <1>1, <2>1, <3>1, RightStays DEF AnchorInv, DrawsRight, Kinds
      <3> QED
        BY <2>1, <3>2
    <2> QED
      BY <1>1, <2>1
  <1> QED
    BY <1>1 DEF DrawsRight, Right, RightThen, OnChain, OnChainThen

\* The reader keeps what it has found of the group's commitment.
LEMMA ReaderStays ==
  ASSUME TypeInv, AnchorInv, ChainGrows, crossed' = crossed, reader' = reader,
         commitment'.n = commitment.n
  PROVE  ReaderRight'
  <1>1. reader.of \in Kinds
    BY EvidenceParts
  <1>2. ASSUME ~crossed, reader.at = "write"
        PROVE  /\ commitment.n # 0
               /\ reader.anchor.state = "anchored" => OnChainThen(reader.of) = commitment.n
    <2>1. commitment.n # 0 /\ (reader.anchor.state = "anchored" => OnChain(reader.of) = commitment.n)
      BY <1>2 DEF AnchorInv, ReaderRight, Committed
    <2>2. OnChain(reader.of) # 0 => OnChainThen(reader.of) = OnChain(reader.of)
      BY <1>1 DEF ChainGrows
    <2> QED
      BY <2>1, <2>2, Zenon
  <1> QED
    BY <1>2 DEF ReaderRight, OnChain, OnChainThen, Committed

\* A transaction is sent: the anchor it leaves is right for what it was sent for.
LEMMA SentRight ==
  ASSUME TypeInv, AnchorInv, NEW of \in Kinds, NEW n \in Serials, NEW anchor \in Sending,
         Sent(of, n, anchor), registry' = registry
  PROVE  ChainGrows /\ TxsRight' /\ RightThen(anchor, of, n)
  <1>1. /\ Len(txs) \in Nat /\ Len(txs') \in Nat /\ Len(txs) <= Len(txs')
        /\ \A i \in 1..Len(txs) : txs'[i] = txs[i]
        /\ anchor.state \in {"failed", "pending"}
    BY EvidenceParts, SentTypes
  <1>2. \A k \in Kinds : OnChainThen(k) = OnChain(k)
    BY DEF OnChain, OnChainThen
  <1>3. ChainGrows
    BY <1>1, <1>2 DEF ChainGrows
  <1>4. CASE anchor.tx = 0
    <2>1. txs' = txs
      BY <1>4 DEF Sent
    <2>2. TxsRight'
      BY <2>1 DEF AnchorInv, TxsRight, OnChain, OnChainThen
    <2> QED
      BY <1>1, <1>3, <1>4, <2>2, NothingIsRight
  <1>5. CASE anchor.tx # 0
    <2>1. /\ Len(txs') = Len(txs) + 1 /\ anchor.tx = Len(txs')
          /\ txs'[anchor.tx] = [of |-> of, n |-> n, state |-> "pending"]
      BY <1>5, SentTypes
    <2>2. txs'[anchor.tx].of = of /\ txs'[anchor.tx].n = n /\ txs'[anchor.tx].state = "pending"
      BY <2>1
    <2>3. TxsRight'
      <3>1. ASSUME NEW i \in 1..Len(txs'), txs'[i].state = "anchored"
            PROVE  OnChainThen(txs'[i].of) = txs'[i].n
        <4>1. i \in 1..Len(txs) /\ txs'[i] = txs[i]
          BY <1>1, <2>1, <2>2, <3>1
        <4>2. OnChain(txs[i].of) = txs[i].n
          BY <3>1, <4>1 DEF AnchorInv, TxsRight
        <4> QED
          BY <4>1, <4>2 DEF OnChain, OnChainThen
      <3> QED
        BY <3>1 DEF TxsRight, OnChain, OnChainThen
    <2> QED
      BY <1>1, <1>3, <2>2, <2>3 DEF RightThen
  <1> QED
    BY <1>4, <1>5

\* A transaction is mined: the contract takes one commitment and its reveal, once.
LEMMA MinedRight ==
  ASSUME TypeInv, AnchorInv, NEW i \in 1..Len(txs), Mine(i)
  PROVE  ChainGrows /\ TxsRight'
  <1> DEFINE of == txs[i].of
             n == txs[i].n
  <1>1. /\ of \in Kinds /\ n \in Serials /\ Len(txs) \in Nat
        /\ registry \in [commit : Serials \cup {0}, reveal : Serials \cup {0}]
    BY EvidenceParts DEF TypeInv, EvidenceTypeOK
  <1>2. /\ Len(txs') = Len(txs)
        /\ \A j \in 1..Len(txs) : txs'[j].of = txs[j].of /\ txs'[j].n = txs[j].n
        /\ \A j \in 1..Len(txs) \ {i} : txs'[j] = txs[j]
        /\ txs'[i].state = IF Accepts(of, n) THEN "anchored" ELSE "failed"
        /\ registry' = IF Accepts(of, n) THEN [registry EXCEPT ![of] = n] ELSE registry
    BY MinedTypes
  <1>3. Accepts(of, n) => OnChain(of) = 0
    BY <1>1 DEF Accepts, OnChain, OnChainThen, Kinds
  <1>4. /\ Accepts(of, n) => OnChainThen(of) = n
        /\ \A k \in Kinds : k # of \/ ~Accepts(of, n) => OnChainThen(k) = OnChain(k)
    <2>1. CASE ~Accepts(of, n)
      BY <1>2, <2>1 DEF OnChain, OnChainThen
    <2>2. CASE Accepts(of, n) /\ of = "commit"
      <3>1. registry' = [registry EXCEPT !.commit = n]
        BY <1>2, <2>2
      <3> QED
        BY <1>1, <2>2, <3>1 DEF OnChain, OnChainThen, Kinds
    <2>3. CASE Accepts(of, n) /\ of = "reveal"
      <3>1. registry' = [registry EXCEPT !.reveal = n]
        BY <1>2, <2>3
      <3> QED
        BY <1>1, <2>3, <3>1 DEF OnChain, OnChainThen, Kinds
    <2> QED
      BY <1>1, <2>1, <2>2, <2>3 DEF Kinds
  <1>5. \A k \in Kinds : OnChain(k) # 0 => OnChainThen(k) = OnChain(k)
    BY <1>3, <1>4
  <1>6. ChainGrows
    BY <1>1, <1>2, <1>5 DEF ChainGrows
  <1>7. ASSUME NEW j \in 1..Len(txs), txs'[j].state = "anchored"
        PROVE  OnChainThen(txs[j].of) = txs[j].n
    <2>1. CASE j = i
      <3>1. Accepts(of, n)
        BY <1>2, <1>7, <2>1
      <3> QED
        BY <1>4, <2>1, <3>1
    <2>2. CASE j # i
      <3>1. txs'[j] = txs[j]
        BY <1>2, <2>2
      <3>2. OnChain(txs[j].of) = txs[j].n
        BY <1>7, <3>1 DEF AnchorInv, TxsRight
      <3>3. txs[j].of \in Kinds /\ txs[j].n # 0
        <4>1. txs[j].of \in Kinds /\ txs[j].n \in Serials
          BY EvidenceParts
        <4> QED
          BY <4>1, EvidenceAssumption DEF Serials
      <3> QED
        BY <1>5, <3>2, <3>3
    <2> QED
      BY <2>1, <2>2
  <1>8. TxsRight'
    <2>1. ASSUME NEW j \in 1..Len(txs'), txs'[j].state = "anchored"
          PROVE  OnChainThen(txs'[j].of) = txs'[j].n
      <3>1. j \in 1..Len(txs) /\ txs'[j].of = txs[j].of /\ txs'[j].n = txs[j].n
        BY <1>2
      <3>2. OnChainThen(txs[j].of) = txs[j].n
        BY <1>7, <2>1, <3>1
      <3> QED
        BY <3>1, <3>2 DEF OnChain, OnChainThen
    <2> QED
      BY <2>1 DEF TxsRight, OnChain, OnChainThen
  <1> QED
    BY <1>6, <1>8

\* What a call hears of its transaction is right.
LEMMA HeardRight ==
  ASSUME TypeInv, AnchorInv, NEW anchor \in Anchors, Placed(anchor), anchor.tx # 0,
         NEW of \in Kinds, NEW n, Right(anchor, of, n), NEW a \in Heard(anchor), UNCHANGED chain
  PROVE  RightThen(a, of, n)
  <1>1. /\ a.tx \in {0, anchor.tx} /\ (a.tx = 0 => a.state = "failed")
        /\ (a.tx # 0 => a.state = txs[anchor.tx].state)
    BY HeardTypes
  <1>2. Len(txs) \in Nat /\ anchor.tx \in 1..Len(txs)
    BY EvidenceParts DEF Placed
  <1>3. txs[anchor.tx].of = of /\ txs[anchor.tx].n = n /\ n # 0
    <2>1. txs[anchor.tx].of = of /\ txs[anchor.tx].n = n /\ txs[anchor.tx].n \in Serials
      BY <1>2, EvidenceParts DEF Right
    <2> QED
      BY <2>1, EvidenceAssumption DEF Serials
  <1>4. txs[anchor.tx].state = "anchored" => OnChain(of) = n
    BY <1>2, <1>3 DEF AnchorInv, TxsRight
  <1> QED
    BY <1>1, <1>3, <1>4 DEF RightThen, OnChain, OnChainThen, chain

\* Nothing is known at the start, and nothing is wrong.
LEMMA AnchorsAtStart == EvidenceInit => AnchorInv
  <1> SUFFICES ASSUME EvidenceInit PROVE AnchorInv
    OBVIOUS
  <1>1. /\ Len(txs) = 0 /\ commitment = NoCommitment /\ clerk.call = NotCalled /\ reader.at = "idle"
        /\ \A c \in Candidates : drawing[c] = NotCalled
    BY DEF EvidenceInit
  <1>2. /\ commitment.commit = NoAnchor /\ commitment.reveal = NoAnchor /\ NotCalled.at \notin Told
    BY <1>1, NewCommitments, NotCalledFields DEF Told
  <1>3. RowRight
    BY <1>2, AnchorFields DEF RowRight, Right
  <1> QED
    BY <1>1, <1>2, <1>3 DEF AnchorInv, TxsRight, NoneLeft, ClerkRight, DrawsRight, ReaderRight

\* The steps of a draw before it sends anything.
LEMMA DrawStepAnchors ==
  ASSUME TypeInv, AnchorInv, NEW c \in Candidates,
         DrawReads(c) \/ DrawLocks(c) \/ DrawCommits(c) \/ FinalCounts(c) \/ FinalLooks(c)
  PROVE  AnchorInv'
  <1>1. UNCHANGED <<commitment, clerk, reader, chain, crossed>>
    BY DEF DrawReads, DrawLocks, DrawCommits, FinalCounts, FinalLooks, rows, notes
  <1>2. PICK call \in Calls : Drawing(c, call) /\ call.at \notin Told
    <2>1. /\ drawing[c] \in Calls /\ NotCalled \in Calls /\ NotCalled.at = "idle"
          /\ commitment.n \in Serials \cup {0}
      BY EvidenceParts, NotCalledFields, CommitmentFields
    <2>2. \A at \in {"check", "count", "look"} :
             Reaches(drawing[c], at) \in Calls /\ Reaches(drawing[c], at).at = at
      BY <2>1, CallFields DEF Places
    <2>3. \A old \in Calls, at \in {"read", "send"} :
             LET new == [old EXCEPT !.at = at, !.n = commitment.n]
             IN  new \in Calls /\ new.at = at
      BY <2>1 DEF Calls
    <2>4. \A at \in Told : at \notin {"idle", "read", "check", "count", "look", "send"}
      BY DEF Told
    <2>5. CASE DrawReads(c)
      BY <2>1, <2>3, <2>4, <2>5 DEF DrawReads
    <2>6. CASE DrawLocks(c)
      BY <2>2, <2>4, <2>6 DEF DrawLocks
    <2>7. CASE DrawCommits(c)
      BY <2>1, <2>2, <2>4, <2>7 DEF DrawCommits
    <2>8. CASE FinalCounts(c)
      BY <2>1, <2>2, <2>4, <2>8 DEF FinalCounts
    <2>9. CASE FinalLooks(c)
      BY <2>1, <2>3, <2>4, <2>9 DEF FinalLooks
    <2> QED
      BY <2>5, <2>6, <2>7, <2>8, <2>9
  <1>3. \A d \in Candidates : drawing'[d] = drawing[d] \/ drawing'[d].at \notin Told
    BY <1>2, OneDraw
  <1>4. ChainGrows /\ TxsRight'
    BY <1>1, ChainStays DEF AnchorInv, TxsRight, OnChain, chain
  <1> QED
    BY <1>1, <1>3, <1>4, RowStays, ClerkStays, DrawsStay, ReaderStays DEF AnchorInv

\* The finalisation: its anchor is that of the nonce it has sent.
LEMMA FinalAnchors ==
  ASSUME TypeInv, GroupInv, AnchorInv, NEW c \in Candidates,
         FinalSends(c) \/ FinalWaits(c) \/ FinalWrites(c)
  PROVE  AnchorInv'
  <1>1. /\ drawing[c] \in Calls /\ drawing[c].anchor \in Anchors /\ Placed(drawing[c].anchor)
        /\ drawing[c].at = "receipt" => drawing[c].anchor.tx # 0
        /\ ~crossed /\ drawing[c].at \in Told => Right(drawing[c].anchor, "reveal", drawing[c].n)
    BY EvidenceParts, CallFields DEF TypeInv, AnchorsPlaced, CallPlaced, AnchorInv, DrawsRight
  <1>2. drawing[c].at # "idle" => /\ drawing[c].n \in Serials
                                  /\ ~crossed => drawing[c].n = commitment.n
    BY DEF GroupInv, NoncesMade, Made, CallsCurrent
  <1>3. CASE FinalSends(c)
    <2>1. PICK anchor \in Sending :
            /\ Sent("reveal", drawing[c].n, anchor)
            /\ Drawing(c, [drawing[c] EXCEPT !.anchor = anchor, !.at = After(anchor)])
      BY <1>3 DEF FinalSends
    <2>2. /\ UNCHANGED <<commitment, clerk, reader, registry, crossed>> /\ drawing[c].at = "send"
      BY <1>3 DEF FinalSends, rows
    <2> DEFINE call == [drawing[c] EXCEPT !.anchor = anchor, !.at = After(anchor)]
    <2>3. anchor \in Anchors /\ After(anchor) \in Places
      BY <1>2, <2>1, <2>2, SentTypes DEF Kinds
    <2>4. call \in Calls /\ call.n = drawing[c].n /\ call.anchor = anchor /\ Drawing(c, call)
      BY <1>1, <2>1, <2>3 DEF Calls, Places
    <2> HIDE DEF call
    <2>5. ChainGrows /\ TxsRight' /\ RightThen(anchor, "reveal", drawing[c].n)
      BY <1>2, <2>1, <2>2, SentRight DEF Kinds
    <2>6. \A d \in Candidates : \/ drawing'[d] = drawing[d]
                                \/ RightThen(drawing'[d].anchor, "reveal", drawing'[d].n)
      BY <2>4, <2>5, OneDraw
    <2> QED
      BY <2>2, <2>5, <2>6, RowStays, ClerkStays, DrawsStay, ReaderStays DEF AnchorInv
  <1>4. CASE FinalWaits(c)
    <2>1. PICK anchor \in Heard(drawing[c].anchor) :
            Drawing(c, [drawing[c] EXCEPT !.anchor = anchor, !.at = "write"])
      BY <1>4 DEF FinalWaits
    <2>2. UNCHANGED <<commitment, clerk, reader, chain, crossed>> /\ drawing[c].at = "receipt"
      BY <1>4 DEF FinalWaits, rows, notes
    <2> DEFINE call == [drawing[c] EXCEPT !.anchor = anchor, !.at = "write"]
    <2>3. anchor \in Anchors
      BY <1>1, <2>1, <2>2, HeardTypes
    <2>4. call \in Calls /\ call.n = drawing[c].n /\ call.anchor = anchor /\ Drawing(c, call)
      BY <1>1, <2>1, <2>3 DEF Calls
    <2> HIDE DEF call
    <2>5. ~crossed => RightThen(anchor, "reveal", drawing[c].n)
      BY <1>1, <2>1, <2>2, HeardRight DEF Kinds, Told
    <2>6. ChainGrows /\ TxsRight'
      BY <2>2, ChainStays DEF AnchorInv, TxsRight, OnChain, chain
    <2>7. \A d \in Candidates : \/ drawing'[d] = drawing[d]
                                \/ ~crossed => RightThen(drawing'[d].anchor, "reveal", drawing'[d].n)
      BY <2>4, <2>5, OneDraw
    <2> QED
      BY <2>2, <2>6, <2>7, RowStays, ClerkStays, DrawsStay, ReaderStays DEF AnchorInv
  <1>5. CASE FinalWrites(c)
    <2>1. /\ UNCHANGED <<clerk, reader, chain, crossed>> /\ drawing[c].at = "write"
          /\ Drawing(c, NotCalled)
      BY <1>5 DEF FinalWrites
    <2>2. ChainGrows /\ TxsRight'
      BY <2>1, ChainStays DEF AnchorInv, TxsRight, OnChain, chain
    <2>3. \A d \in Candidates : drawing'[d] = drawing[d] \/ drawing'[d].at \notin Told
      BY <2>1, OneDraw, NotCalledFields DEF Told
    <2>4. ClerkRight' /\ DrawsRight'
      BY <2>1, <2>2, <2>3, ClerkStays, DrawsStay
    <2>5. CASE ~Committed
      <3>1. commitment' = commitment
        BY <1>5, <2>5 DEF FinalWrites
      <3> QED
        BY <2>1, <2>2, <2>4, <3>1, RowStays, ReaderStays DEF AnchorInv
    <2>6. CASE Committed
      <3>1. commitment' = [commitment EXCEPT !.final = TRUE, !.reveal = drawing[c].anchor]
        BY <1>5, <2>6 DEF FinalWrites
      <3>2. /\ commitment'.n = commitment.n /\ commitment'.commit = commitment.commit
            /\ commitment'.reveal = drawing[c].anchor
        BY <1>1, <3>1, EvidenceParts DEF Commitments
      <3>3. crossed \/ ( /\ commitment.n = drawing[c].n
                         /\ Right(drawing[c].anchor, "reveal", drawing[c].n))
        BY <1>1, <1>2, <2>1 DEF Told
      <3>4. RowRight'
        BY <2>1, <3>2, <3>3 DEF AnchorInv, RowRight, Right, OnChain, chain
      <3>5. NoneLeft'
        BY <2>6, <3>2 DEF NoneLeft, Committed
      <3> QED
        BY <2>1, <2>2, <2>4, <3>2, <3>4, <3>5, ReaderStays DEF AnchorInv
    <2> QED
      BY <2>5, <2>6
  <1> QED
    BY <1>3, <1>4, <1>5

\* The clerk's commit_draw.
LEMMA ClerkStepAnchors ==
  ASSUME TypeInv, GroupInv, AnchorInv,
         CommitReads \/ CommitInserts \/ CommitSends \/ CommitWaits \/ CommitWrites
  PROVE  AnchorInv'
  <1>1. /\ clerk.call \in Calls /\ clerk.call.anchor \in Anchors /\ Placed(clerk.call.anchor)
        /\ clerk.call.at = "receipt" => clerk.call.anchor.tx # 0
        /\ ~crossed /\ clerk.call.at \in Told => Right(clerk.call.anchor, "commit", clerk.call.n)
        /\ Sends(clerk.call) => clerk.call.n \in Serials
        /\ Sends(clerk.call) /\ ~crossed => clerk.call.n = commitment.n
    <2>1. clerk.call.n \in Serials \cup {0}
      BY EvidenceParts, CallFields
    <2> QED
      BY <2>1, EvidenceParts, CallFields
         DEF TypeInv, AnchorsPlaced, CallPlaced, AnchorInv, ClerkRight, GroupInv, CallsCurrent
  <1>2. /\ UNCHANGED <<drawing, reader, registry, crossed>>
        /\ CommitSends \/ UNCHANGED chain
    BY DEF CommitReads, CommitInserts, CommitSends, CommitWaits, CommitWrites, chain, notes
  <1>3. ~CommitSends => ChainGrows /\ TxsRight'
    BY <1>2, ChainStays DEF AnchorInv, TxsRight, OnChain, chain
  <1>4. CASE CommitReads
    <2>1. commitment' = commitment /\ clerk' = [call |-> Reaches(NotCalled, "read"), listed |-> enlisted]
          /\ UNCHANGED chain
      BY <1>4 DEF CommitReads, rows
    <2>2. clerk'.call.at \notin Told
      BY <2>1, NotCalledFields, CallFields DEF Told, Places
    <2>3. ChainGrows /\ TxsRight'
      BY <2>1, <1>2, ChainStays DEF AnchorInv, TxsRight, OnChain, chain
    <2> QED
      BY <1>2, <2>1, <2>2, <2>3, RowStays, ClerkStays, DrawsStay, ReaderStays DEF AnchorInv
  <1>5. CASE CommitInserts
    <2>1. UNCHANGED chain
      BY <1>5 DEF CommitInserts
    <2>2. ChainGrows /\ TxsRight'
      BY <2>1, <1>2, ChainStays DEF AnchorInv, TxsRight, OnChain, chain
    <2>3. CASE Committed
      <3>1. Clerk(NotCalled) /\ commitment' = commitment
        BY <1>5, <2>3 DEF CommitInserts
      <3>2. clerk'.call.at \notin Told
        BY <3>1, NotCalledFields, ClerkGoes DEF Told
      <3> QED
        BY <1>2, <2>2, <3>1, <3>2, RowStays, ClerkStays, DrawsStay, ReaderStays DEF AnchorInv
    <2>4. CASE ~Committed
      <3>1. PICK n \in Serials :
              /\ commitment' = [NoCommitment EXCEPT !.n = n]
              /\ Clerk([NotCalled EXCEPT !.at = "send", !.n = n])
        BY <1>5, <2>4 DEF CommitInserts
      <3> DEFINE call == [NotCalled EXCEPT !.at = "send", !.n = n]
      <3>2. call \in Calls /\ call.at = "send"
        BY AnchorFields DEF NotCalled, Calls
      <3>3. clerk'.call.at \notin Told
        BY <3>1, <3>2, ClerkGoes DEF Told
      <3>4. RowRight' /\ NoneLeft'
        <4>1. commitment' \in Commitments /\ commitment'.commit = NoAnchor
              /\ commitment'.reveal = NoAnchor /\ commitment'.n = n /\ n # 0
          BY <3>1, NewCommitments, EvidenceAssumption DEF Serials
        <4> QED
          BY <4>1, RowGone DEF NoneLeft, Committed
      <3>5. ReaderRight'
        BY <1>2, <2>4 DEF AnchorInv, ReaderRight
      <3> QED
        BY <1>2, <2>2, <3>3, <3>4, <3>5, ClerkStays, DrawsStay DEF AnchorInv
    <2> QED
      BY <2>3, <2>4
  <1>6. CASE CommitSends
    <2>1. PICK anchor \in Sending :
            /\ Sent("commit", clerk.call.n, anchor)
            /\ Clerk([clerk.call EXCEPT !.anchor = anchor, !.at = After(anchor)])
      BY <1>6 DEF CommitSends
    <2>2. commitment' = commitment /\ clerk.call.n \in Serials
      BY <1>1, <1>6 DEF CommitSends, rows, Sends
    <2> DEFINE call == [clerk.call EXCEPT !.anchor = anchor, !.at = After(anchor)]
    <2>3. anchor \in Anchors /\ After(anchor) \in Places
      BY <2>1, <2>2, SentTypes DEF Kinds
    <2>4. call \in Calls /\ call.n = clerk.call.n /\ call.anchor = anchor /\ Clerk(call)
      BY <1>1, <2>1, <2>3 DEF Calls, Places
    <2> HIDE DEF call
    <2>5. ChainGrows /\ TxsRight' /\ RightThen(anchor, "commit", clerk.call.n)
      BY <1>2, <2>1, <2>2, SentRight DEF Kinds
    <2>6. clerk'.call = call
      BY <2>4, ClerkGoes
    <2>7. ClerkRight'
      BY <2>4, <2>5, <2>6 DEF ClerkRight, Right, RightThen, OnChain, OnChainThen
    <2> QED
      BY <1>2, <2>2, <2>5, <2>7, RowStays, DrawsStay, ReaderStays DEF AnchorInv
  <1>7. CASE CommitWaits
    <2>1. PICK anchor \in Heard(clerk.call.anchor) :
            Clerk([clerk.call EXCEPT !.anchor = anchor, !.at = "write"])
      BY <1>7 DEF CommitWaits
    <2>2. commitment' = commitment /\ clerk.call.at = "receipt" /\ UNCHANGED chain
      BY <1>7 DEF CommitWaits, rows
    <2> DEFINE call == [clerk.call EXCEPT !.anchor = anchor, !.at = "write"]
    <2>3. anchor \in Anchors
      BY <1>1, <2>1, <2>2, HeardTypes
    <2>4. call \in Calls /\ call.n = clerk.call.n /\ call.anchor = anchor /\ Clerk(call)
      BY <1>1, <2>1, <2>3 DEF Calls
    <2> HIDE DEF call
    <2>5. ~crossed => RightThen(anchor, "commit", clerk.call.n)
      BY <1>1, <2>1, <2>2, HeardRight DEF Kinds, Told
    <2>6. ChainGrows /\ TxsRight'
      BY <2>2, <1>2, ChainStays DEF AnchorInv, TxsRight, OnChain, chain
    <2>7. clerk'.call = call
      BY <2>4, ClerkGoes
    <2>8. ClerkRight'
      BY <1>2, <2>4, <2>5, <2>7 DEF ClerkRight, Right, RightThen, OnChain, OnChainThen
    <2> QED
      BY <1>2, <2>2, <2>6, <2>8, RowStays, DrawsStay, ReaderStays DEF AnchorInv
  <1>8. CASE CommitWrites
    <2>1. /\ UNCHANGED chain /\ clerk.call.at = "write" /\ clerk'.call = NotCalled
          /\ commitment' = IF Committed THEN [commitment EXCEPT !.commit = clerk.call.anchor]
                           ELSE commitment
      BY <1>8 DEF CommitWrites
    <2>2. ChainGrows /\ TxsRight'
      BY <2>1, <1>2, ChainStays DEF AnchorInv, TxsRight, OnChain, chain
    <2>3. clerk'.call.at \notin Told
      BY <2>1, NotCalledFields DEF Told
    <2>4. ClerkRight' /\ DrawsRight'
      BY <1>2, <2>2, <2>3, ClerkStays, DrawsStay
    <2>5. CASE ~Committed
      BY <1>2, <2>1, <2>2, <2>4, <2>5, RowStays, ReaderStays DEF AnchorInv
    <2>6. CASE Committed
      <3>1. /\ commitment'.n = commitment.n /\ commitment'.reveal = commitment.reveal
            /\ commitment'.commit = clerk.call.anchor
        BY <1>1, <2>1, <2>6, EvidenceParts, CommitmentFields
      <3>2. ~crossed => Right(clerk.call.anchor, "commit", commitment.n)
        BY <1>1, <2>1 DEF Told, Sends
      <3>3. RowRight'
        BY <1>2, <2>1, <3>1, <3>2 DEF AnchorInv, RowRight, Right, OnChain, chain
      <3>4. NoneLeft'
        BY <2>6, <3>1 DEF NoneLeft, Committed
      <3> QED
        BY <1>2, <2>2, <2>4, <3>1, <3>3, <3>4, ReaderStays DEF AnchorInv
    <2> QED
      BY <2>5, <2>6
  <1> QED
    BY <1>4, <1>5, <1>6, <1>7, <1>8

\* A commitment that is voided leaves no anchor behind, and no call it does not cross.
LEMMA VoidAnchors ==
  ASSUME TypeInv, AnchorInv, VoidCommitment
  PROVE  AnchorInv'
  <1>1. /\ commitment' = NoCommitment /\ UNCHANGED <<drawing, clerk, reader, txs, registry>>
        /\ ~crossed' => /\ clerk.call.at = "idle" /\ reader.at = "idle"
                        /\ \A c \in Candidates : drawing[c].at = "idle"
    BY DEF VoidCommitment, calls, chain, Busy
  <1>2. RowRight'
    BY <1>1, NewCommitments, RowGone
  <1>3. TxsRight' /\ NoneLeft'
    BY <1>1 DEF AnchorInv, TxsRight, OnChain, NoneLeft
  <1>4. ClerkRight' /\ DrawsRight' /\ ReaderRight'
    BY <1>1 DEF ClerkRight, DrawsRight, ReaderRight, Told
  <1> QED
    BY <1>2, <1>3, <1>4 DEF AnchorInv

\* The reader asks for the receipt of the anchor the row names ...
LEMMA AskAnchors ==
  ASSUME TypeInv, AnchorInv, NEW of \in Kinds, ReaderAsks(of)
  PROVE  AnchorInv'
  <1> DEFINE asked == commitment[of]
  <1>1. /\ UNCHANGED <<commitment, drawing, clerk, chain, crossed>>
        /\ reader' = [at |-> "write", of |-> of, anchor |-> Receipt(asked)]
        /\ asked.state = "pending" /\ txs[asked.tx].state # "pending"
    BY DEF ReaderAsks, rows, notes
  <1>2. /\ asked \in Anchors /\ Placed(asked) /\ asked.tx # 0
        /\ ~crossed => Right(asked, of, commitment.n)
    <2>1. CASE of = "commit"
      BY <1>1, <2>1, EvidenceParts, CommitmentFields DEF TypeInv, AnchorsPlaced, Placed, AnchorInv, RowRight
    <2>2. CASE of = "reveal"
      BY <1>1, <2>2, EvidenceParts, CommitmentFields DEF TypeInv, AnchorsPlaced, Placed, AnchorInv, RowRight
    <2> QED
      BY <2>1, <2>2 DEF Kinds
  <1>3. asked.tx \in 1..Len(txs)
    BY <1>2, EvidenceParts DEF Placed
  <1>4. Receipt(asked).state = txs[asked.tx].state
    BY <1>2, <1>3, EvidenceParts, AnchorFields DEF Receipt
  <1>5. Committed
    BY <1>1, <1>2, NewCommitments, AnchorFields DEF AnchorInv, NoneLeft, Kinds
  <1>6. ~crossed /\ Receipt(asked).state = "anchored" => OnChain(of) = commitment.n
    BY <1>2, <1>3, <1>4 DEF AnchorInv, TxsRight, Right
  <1>7. ChainGrows /\ TxsRight'
    BY <1>1, ChainStays DEF AnchorInv, TxsRight, OnChain, chain
  <1>8. ReaderRight'
    BY <1>1, <1>5, <1>6 DEF ReaderRight, OnChain, Committed, chain
  <1> QED
    BY <1>1, <1>7, <1>8, RowStays, ClerkStays, DrawsStay DEF AnchorInv

\* ... and notes what it was.
LEMMA NoteAnchors ==
  ASSUME TypeInv, AnchorInv, ReaderWrites
  PROVE  AnchorInv'
  <1>1. /\ UNCHANGED <<drawing, clerk, chain, crossed>>
        /\ reader.at = "write" /\ reader'.at = "idle"
    BY DEF ReaderWrites, notes
  <1>2. /\ commitment'.n = commitment.n
        /\ commitment'.commit.tx = commitment.commit.tx /\ commitment'.reveal.tx = commitment.reveal.tx
        /\ commitment'.commit.state = IF Committed /\ reader.of = "commit"
                                      THEN reader.anchor.state ELSE commitment.commit.state
        /\ commitment'.reveal.state = IF Committed /\ reader.of = "reveal"
                                      THEN reader.anchor.state ELSE commitment.reveal.state
    BY ReaderNotes
  <1>3. ChainGrows /\ TxsRight'
    BY <1>1, ChainStays DEF AnchorInv, TxsRight, OnChain, chain
  <1>4. RowRight'
    <2>1. ASSUME ~crossed PROVE Right(commitment'.commit, "commit", commitment.n)
      BY <1>1, <1>2, <2>1 DEF AnchorInv, RowRight, ReaderRight, Right, Committed, OnChain
    <2>2. ASSUME ~crossed PROVE Right(commitment'.reveal, "reveal", commitment.n)
      BY <1>1, <1>2, <2>2 DEF AnchorInv, RowRight, ReaderRight, Right, Committed, OnChain
    <2> QED
      BY <1>1, <1>2, <2>1, <2>2 DEF RowRight, Right, OnChain, chain
  <1>5. NoneLeft'
    <2>1. CASE Committed
      BY <1>2, <2>1 DEF NoneLeft, Committed
    <2>2. CASE ~Committed
      <3>1. commitment' = commitment
        BY <2>2 DEF ReaderWrites
      <3> QED
        BY <2>2, <3>1 DEF AnchorInv, NoneLeft, Committed
    <2> QED
      BY <2>1, <2>2
  <1>6. ReaderRight'
    BY <1>1 DEF ReaderRight
  <1> QED
    BY <1>1, <1>3, <1>4, <1>5, <1>6, ClerkStays, DrawsStay DEF AnchorInv

\* The other steps: the chain goes on, a call dies, or nothing here changes.
LEMMA OtherStepAnchors ==
  ASSUME TypeInv, AnchorInv,
         \/ \E c \in Candidates : AddCandidate(c)
         \/ \E n \in Serials : BeaconPublishes(n)
         \/ \E i \in 1..Len(txs) : Mine(i)
         \/ Dies
         \/ UNCHANGED evidenceVars
  PROVE  AnchorInv'
  <1>1. /\ UNCHANGED <<commitment, reader, crossed>>
        /\ UNCHANGED chain \/ \E i \in 1..Len(txs) : Mine(i)
    BY DEF AddCandidate, BeaconPublishes, Mine, Dies, evidenceVars, rows, calls, notes, chain
  <1>2. ChainGrows /\ TxsRight'
    <2>1. CASE UNCHANGED chain
      BY <2>1, ChainStays DEF AnchorInv, TxsRight, OnChain, chain
    <2>2. CASE \E i \in 1..Len(txs) : Mine(i)
      BY <2>2, MinedRight
    <2> QED
      BY <1>1, <2>1, <2>2
  <1>3. /\ clerk'.call = clerk.call \/ clerk'.call.at \notin Told
        /\ \A c \in Candidates : drawing'[c] = drawing[c] \/ drawing'[c].at \notin Told
    <2>1. CASE Dies
      <3>1. CASE Clerk(NotCalled) /\ UNCHANGED drawing
        BY <3>1, ClerkGoes, NotCalledFields DEF Told
      <3>2. CASE \E c \in Candidates : Drawing(c, NotCalled) /\ UNCHANGED clerk
        BY <3>2, OneDraw, NotCalledFields DEF Told
      <3> QED
        BY <2>1, <3>1, <3>2 DEF Dies
    <2>2. CASE ~Dies
      <3>1. UNCHANGED <<drawing, clerk>>
        BY <2>2 DEF AddCandidate, BeaconPublishes, Mine, evidenceVars, calls
      <3> QED
        BY <3>1
    <2> QED
      BY <2>1, <2>2
  <1> QED
    BY <1>1, <1>2, <1>3, RowStays, ClerkStays, DrawsStay, ReaderStays DEF AnchorInv

\* Every step keeps the anchors right.
LEMMA AnchorsKept == TypeInv /\ GroupInv /\ AnchorInv /\ [EvidenceNext]_evidenceVars => AnchorInv'
  BY DrawStepAnchors, FinalAnchors, ClerkStepAnchors, VoidAnchors, AskAnchors, NoteAnchors,
     OtherStepAnchors DEF EvidenceNext, Kinds

-----------------------------------------------------------------------------
(* Theorems.                                                               *)

\* The inductive invariant: the types, the group's nonces and draws, the anchors.
THEOREM EvidenceInvariance == EvidenceSpec => []IInv
  <1>1. EvidenceInit => IInv
    BY TypesAtStart, GroupAtStart, AnchorsAtStart DEF IInv
  <1>2. IInv /\ [EvidenceNext]_evidenceVars => IInv'
    BY TypesKept, GroupKept, AnchorsKept DEF IInv
  <1> QED
    BY <1>1, <1>2, PTL DEF EvidenceSpec

\* Types.
THEOREM EvidenceTypesHold == EvidenceSpec => []EvidenceTypeOK
  <1>1. IInv => EvidenceTypeOK
    BY DEF IInv, TypeInv
  <1> QED
    BY <1>1, EvidenceInvariance, PTL

\* The public page and the chain tell the nonce only when the draw is over, and the row
\* tells the truth about the draw and its anchors, for any number of candidates, of
\* commitments and of calls that die.
THEOREM EvidenceHolds == EvidenceSpec => []EvidenceIsTrue
  <1>1. IInv => EvidenceIsTrue
    <2> SUFFICES ASSUME IInv PROVE EvidenceIsTrue
      OBVIOUS
    <2>1. OpenIsOver
      BY DEF IInv, GroupInv
    <2>2. ASSUME ~crossed
          PROVE  /\ commitment.commit.state = "anchored" => registry.commit = commitment.n
                 /\ commitment.reveal.state = "anchored" => registry.reveal = commitment.n
      BY <2>2 DEF IInv, AnchorInv, RowRight, Right, OnChain
    <2>3. ASSUME ~crossed, deaths = 0, Committed, enlisted = roster[commitment.n],
                 \A c \in enlisted : drawnUnder[c] = commitment.n,
                 \A c \in Candidates : drawing[c].at = "idle"
          PROVE  commitment.final
      BY <2>3 DEF IInv, GroupInv, LastSees, Complete, OnItsWay, Late
    <2> QED
      BY <2>1, <2>2, <2>3 DEF EvidenceIsTrue, RowIsTrue
  <1> QED
    BY <1>1, EvidenceInvariance, PTL

\* Nobody is drawn under a nonce that is public or voided, or off the roster it was
\* made for.
THEOREM DrawsInSecret == EvidenceSpec => DrawnInSecret
  <1>1. IInv /\ [EvidenceNext]_evidenceVars =>
          [\A c \in Candidates :
             drawnUnder'[c] # drawnUnder[c] =>
                /\ c \in roster[drawnUnder'[c]]
                /\ ~crossed => drawnUnder'[c] \notin open \cup voided]_evidenceVars
    <2> SUFFICES ASSUME IInv, EvidenceNext, NEW c \in Candidates, drawnUnder'[c] # drawnUnder[c]
                 PROVE  /\ c \in roster[drawnUnder'[c]]
                        /\ ~crossed => drawnUnder'[c] \notin open \cup voided
      OBVIOUS
    <2>1. DrawCommits(c) /\ drawing[c].n \in beacon /\ SameRoster(drawing[c].n)
          /\ drawnUnder'[c] = drawing[c].n
      <3>1. PICK d \in Candidates : DrawCommits(d)
        BY DEF EvidenceNext, AddCandidate, DrawReads, DrawLocks, FinalCounts, FinalLooks, FinalSends,
           FinalWaits, FinalWrites, CommitReads, CommitInserts, CommitSends, CommitWaits, CommitWrites,
           VoidCommitment, Dies, ReaderAsks, ReaderWrites, BeaconPublishes, Mine, rows
      <3>2. drawing[d].n \in beacon /\ SameRoster(drawing[d].n)
            /\ drawnUnder' = [drawnUnder EXCEPT ![d] = drawing[d].n]
        BY <3>1 DEF DrawCommits
      <3> QED
        BY <3>1, <3>2, EvidenceParts DEF IInv
    <2>2. /\ c \in enlisted /\ drawnUnder[c] = 0
          /\ ~crossed => drawing[c].n = commitment.n /\ Committed
          /\ drawing[c].n \in Serials
      <3>1. drawing[c].at = "check" /\ drawing[c].n \in Serials
        BY <2>1 DEF DrawCommits, IInv, GroupInv, NoncesMade, Made
      <3>2. 0 \notin Serials
        BY EvidenceAssumption DEF Serials
      <3> QED
        BY <3>1, <3>2 DEF IInv, GroupInv, DrawsEnlisted, CallsCurrent, Committed
    <2>3. c \in roster[drawing[c].n]
      BY <2>1, <2>2 DEF SameRoster
    <2>4. ~crossed => drawing[c].n \notin open
      BY <2>2, <2>3 DEF IInv, GroupInv, OpenIsOver
    <2>5. ~crossed => drawing[c].n \notin voided
      BY <2>2 DEF IInv, GroupInv, NoncesMade
    <2> QED
      BY <2>1, <2>3, <2>4, <2>5
  <1> QED
    BY <1>1, EvidenceInvariance, PTL DEF EvidenceSpec, DrawnInSecret
=============================================================================
