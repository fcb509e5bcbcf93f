------------------------ MODULE KeeperCollect_proofs ------------------------
(***************************************************************************)
(* Proofs about the collecting half of the keeper (KeeperCollect): its     *)
(* state file and the chain agree after any crash, lost answer or late     *)
(* transaction, for any number of rounds, snapshots, secrets and faults.   *)
(*                                                                         *)
(* The argument.  What could break the agreement is a transaction that     *)
(* lands when nobody waits for it any more, so the invariant says of each  *)
(* one in flight what it can still do.  An open carries a secret that is   *)
(* on disk.  A close carries no more snapshots than the disk has.  A       *)
(* commit carries those the chain fixed, and the file keeps its round.  An *)
(* abandon sent while the window was open could hit a round that was       *)
(* closed and seeded since; but a transaction lives for a minute and a     *)
(* seeded round can only be abandoned after a week, during which another   *)
(* snapshot comes due: the keeper, which sends an abandon only once it     *)
(* was taken, has then more snapshots than the chain fixed, cannot adopt   *)
(* the window and so buys nothing for it (AbandonOK).                      *)
(***************************************************************************)
EXTENDS KeeperCollect, SequenceTheorems, TLAPS

(* Transactions that may still land. *)
Flying == stray \cup Unresolved

Status(r) == intent[r].status
InHand(r) == disk.round # None /\ disk.round.id = r

(* Rounds are decided one after the other. *)
Ordered ==
    \A r \in Rounds :
        /\ r > next => Status(r) = "none"
        /\ r < next => Status(r) \in {"abandoned", "committed"}
        /\ r = next => Status(r) \notin {"abandoned", "committed"}

(* A header is the snapshots of a committed round; before the close there are none. *)
HeadersFixed ==
    \A r \in Rounds :
        /\ header[r] = IF Status(r) = "committed" THEN intent[r].head ELSE None
        /\ Status(r) \in {"none", "open"} => intent[r].head = << >>

(* What an open in flight may reveal is on disk. *)
OpenOK(tx) ==
    tx.kind = "open" /\ ~lost /\ Status(tx.id) = "none" => InHand(tx.id) /\ disk.round.secret = tx.secret

(* A close in flight carries a prefix of the snapshots of a round still open to the keeper. *)
CloseOK(tx) ==
    tx.kind = "close" =>
        /\ Status(tx.id) # "none"
        /\ Collecting(tx.id, "OPEN") => Len(tx.snaps) <= Len(disk.round.snaps)

StaleSeeded(r) == Status(r) = "seeded" /\ intent[r].age = "week"

(* An abandon in flight that could hit a seeded round was sent by a keeper that cannot adopt it any more. *)
AbandonOK(tx) ==
    tx.kind = "abandon" =>
        /\ Status(tx.id) # "none"
        /\ InHand(tx.id) /\ StaleSeeded(tx.id) =>
              disk.round.status = "OPEN" /\ Len(intent[tx.id].head) < Len(disk.round.snaps)

(* A commit in flight carries the snapshots the chain fixed, and the keeper waits to see it. *)
CommitOK(tx) ==
    tx.kind = "commit" =>
        /\ Status(tx.id) \notin {"none", "open"}
        /\ tx.snaps = intent[tx.id].head
        /\ ~lost /\ Status(tx.id) \notin {"committed", "abandoned"} => Collecting(tx.id, "PREPARED")

TxOK(tx) == OpenOK(tx) /\ CloseOK(tx) /\ AbandonOK(tx) /\ CommitOK(tx)

FlyingOK == \A tx \in Flying : TxOK(tx)

(* A round open to the keeper may be closed to the chain, with no more snapshots than it has. *)
OpenRoundOK ==
    disk.round # None /\ disk.round.status = "OPEN" =>
        LET r == disk.round.id
        IN /\ disk.round.due => Len(disk.round.snaps) < MaxSnapshots
           /\ Status(r) \notin {"none", "open"} => Len(intent[r].head) <= Len(disk.round.snaps)
           /\ StaleSeeded(r) /\ ~disk.round.due => Len(intent[r].head) < Len(disk.round.snaps)

ClosedRoundOK ==
    PastOpen => /\ Status(disk.round.id) \notin {"none", "open"}
                /\ intent[disk.round.id].head = disk.round.snaps

(* A window once seen was opened. *)
ConfirmedIsThere == confirmed # None => Status(confirmed) # "none"

(* What a step that waits knows. *)
WaitingOK ==
    pc = "waiting" =>
        LET tx == call.tx
        IN /\ tx.kind = "close" => Collecting(tx.id, "OPEN")
           /\ tx.kind = "seed" => Collecting(tx.id, "CLOSED")
           /\ tx.kind = "abandon" => disk.round = None \/ disk.round.id = tx.id
           /\ call.outcome = "landed" /\ tx.kind = "close" => Status(tx.id) \notin {"none", "open"}
           /\ call.outcome = "landed" /\ tx.kind = "abandon" => Status(tx.id) = "abandoned"

Core ==
    /\ Ordered
    /\ HeadersFixed
    /\ SecretSaved
    /\ FlyingOK
    /\ OpenRoundOK
    /\ ClosedRoundOK
    /\ ConfirmedIsThere
    /\ BoughtForIsKept
    /\ CommittedTracked

IInv == TypeOK /\ WaitingOK /\ Core

----------------------------------------------------------------------------
(* Helpers. *)

(* The snapshots of a round are a sequence no longer than the bound ... *)
LEMMA SnapsAreSequences ==
    ASSUME NEW s \in Snaps
    PROVE  s \in Seq(Readings) /\ Len(s) \in Nat /\ Len(s) <= MaxSnapshots
<1>1. PICK n \in 0 .. MaxSnapshots : s \in [1 .. n -> Readings]
  BY DEF Snaps
<1>2. n \in Nat /\ n <= MaxSnapshots
  BY <1>1, KeeperAssumption DEF KeeperAssumption
<1>3. s \in Seq(Readings)
  BY <1>1, <1>2, SeqDef
<1>4. Len(s) = n
  BY <1>1, <1>2, <1>3, LenProperties
<1>5. QED
  BY <1>2, <1>3, <1>4

(* ... and every such sequence is one. *)
LEMMA FitsInSnaps ==
    ASSUME NEW s \in Seq(Readings), Len(s) <= MaxSnapshots
    PROVE  s \in Snaps
<1>1. Len(s) \in 0 .. MaxSnapshots /\ s \in [1 .. Len(s) -> Readings]
  BY LenProperties, KeeperAssumption DEF KeeperAssumption
<1>2. QED
  BY <1>1 DEF Snaps

(* A round starts without a snapshot ... *)
LEMMA NoSnapshots == << >> \in Snaps /\ Len(<< >>) = 0
<1>1. << >> \in Seq(Readings) /\ Len(<< >>) = 0
  BY EmptySeq
<1>2. 0 <= MaxSnapshots
  BY KeeperAssumption DEF KeeperAssumption
<1>3. << >> \in Snaps
  BY <1>1, <1>2, FitsInSnaps
<1>4. QED
  BY <1>1, <1>3

(* ... and one more fits while there is room. *)
LEMMA SnapshotsGrow ==
    ASSUME NEW s \in Snaps, NEW x \in Readings, Len(s) < MaxSnapshots
    PROVE  Append(s, x) \in Snaps /\ Len(Append(s, x)) = Len(s) + 1
<1>1. s \in Seq(Readings) /\ Len(s) \in Nat
  BY SnapsAreSequences
<1>2. Append(s, x) \in Seq(Readings) /\ Len(Append(s, x)) = Len(s) + 1
  BY <1>1, AppendProperties
<1>3. Len(s) + 1 <= MaxSnapshots
  BY <1>1, KeeperAssumption DEF KeeperAssumption
<1>4. QED
  BY <1>2, <1>3, FitsInSnaps

(* No round, secret, snapshot list or round on disk is "None". *)
LEMMA NoneIsNone ==
    /\ None \notin Rounds /\ None \notin Secrets /\ None \notin Snaps /\ None \notin ActiveRound
BY KeeperAssumption DEF KeeperAssumption, Rounds

(* A round on disk after one of its fields changed. *)
LEMMA RoundExcept ==
    ASSUME NEW x \in ActiveRound, NEW v, NEW w
    PROVE  /\ [x EXCEPT !.due = v] =
                 [id |-> x.id, status |-> x.status, secret |-> x.secret, snaps |-> x.snaps, due |-> v]
           /\ [x EXCEPT !.status = v] =
                 [id |-> x.id, status |-> v, secret |-> x.secret, snaps |-> x.snaps, due |-> x.due]
           /\ [x EXCEPT !.snaps = w, !.due = v] =
                 [id |-> x.id, status |-> x.status, secret |-> x.secret, snaps |-> w, due |-> v]
<1>1. x = [id |-> x.id, status |-> x.status, secret |-> x.secret, snaps |-> x.snaps, due |-> x.due]
  BY DEF ActiveRound
<1>2. [x EXCEPT !.due = v] =
         [id |-> x.id, status |-> x.status, secret |-> x.secret, snaps |-> x.snaps, due |-> v]
  BY <1>1
<1>3. [x EXCEPT !.status = v] =
         [id |-> x.id, status |-> v, secret |-> x.secret, snaps |-> x.snaps, due |-> x.due]
  BY <1>1
<1>4. [x EXCEPT !.snaps = w] =
         [id |-> x.id, status |-> x.status, secret |-> x.secret, snaps |-> w, due |-> x.due]
  BY <1>1
<1>5. [x EXCEPT !.snaps = w, !.due = v] = [[x EXCEPT !.snaps = w] EXCEPT !.due = v]
  OBVIOUS
<1>6. [[x EXCEPT !.snaps = w] EXCEPT !.due = v] =
         [id |-> x.id, status |-> x.status, secret |-> x.secret, snaps |-> w, due |-> v]
  <2> DEFINE y == [x EXCEPT !.snaps = w]
  <2>1. y = [id |-> x.id, status |-> x.status, secret |-> x.secret, snaps |-> w, due |-> x.due]
    BY <1>4
  <2>2. /\ y.id = x.id /\ y.status = x.status /\ y.secret = x.secret /\ y.snaps = w
        /\ y = [id |-> y.id, status |-> y.status, secret |-> y.secret, snaps |-> y.snaps, due |-> y.due]
    BY <2>1
  <2> HIDE DEF y
  <2>3. [y EXCEPT !.due = v] = [id |-> y.id, status |-> y.status, secret |-> y.secret, snaps |-> y.snaps, due |-> v]
    BY <2>2
  <2>4. QED
    BY <2>2, <2>3 DEF y
<1>7. QED
  BY <1>2, <1>3, <1>5, <1>6

(* The three parts of TypeOK. *)
Chain ==
    /\ next \in 0 .. MaxRounds
    /\ intent \in [Rounds -> [status : {"none", "open", "closed", "seeded", "committed", "abandoned"},
                              secret : Secrets \cup {None}, head : Snaps,
                              age : {"new", "ripe", "expired", "day", "week"}]]
    /\ header \in [Rounds -> Snaps \cup {None}]

Statuses == {"none", "open", "closed", "seeded", "committed", "abandoned"}

Process ==
    /\ confirmed \in Rounds \cup {None}
    /\ pc \in {"down", "idle", "waiting"}
    /\ IF pc = "waiting"
         THEN call \in [tx : Tx, outcome : {"sent", "landed", "refused"}]
         ELSE call = NoCall
    /\ stray \subseteq Tx

(* Kinds of transactions and what they carry. *)
LEMMA TxFields ==
    ASSUME NEW tx \in Tx
    PROVE  /\ tx.id \in Rounds /\ tx.kind \in {"open", "close", "seed", "abandon", "commit"}
           /\ tx.kind \in {"open", "commit"} => tx.secret \in Secrets
           /\ tx.kind \in {"close", "commit"} => tx.snaps \in Snaps
BY DEF Tx

(* The accounts of one round after a transaction for it. *)
LEMMA AccountsAfter ==
    ASSUME Chain, NEW tx \in Tx, Apply(tx)
    PROVE  /\ \A r \in Rounds : r # tx.id => intent'[r] = intent[r]
           /\ Status(tx.id)' = StatusAfter[tx.kind]
           /\ intent'[tx.id].secret = IF tx.kind = "open" THEN tx.secret ELSE intent[tx.id].secret
           /\ intent'[tx.id].head = IF tx.kind = "close" THEN tx.snaps ELSE intent[tx.id].head
           /\ tx.kind \in {"close", "seed"} => intent'[tx.id].age = "new"
           /\ next' = IF tx.kind \in {"abandon", "commit"} THEN next + 1 ELSE next
           /\ header' = IF tx.kind = "commit" THEN [header EXCEPT ![tx.id] = tx.snaps] ELSE header
<1>1. tx.id \in Rounds
  BY TxFields
<1>2. QED
  BY <1>1 DEF Apply, Chain, Status

(* The chain keeps its types. *)
LEMMA ChainTyped ==
    ASSUME Chain, NEW tx \in Tx, Apply(tx), tx.kind \in {"abandon", "commit"} => tx.id = next
    PROVE  Chain'
<1>1. /\ tx.id \in Rounds /\ tx.kind \in {"open", "close", "seed", "abandon", "commit"}
      /\ tx.kind \in {"open", "commit"} => tx.secret \in Secrets
      /\ tx.kind \in {"close", "commit"} => tx.snaps \in Snaps
  BY TxFields
<1>2. next' \in 0 .. MaxRounds
  BY <1>1, KeeperAssumption DEF Apply, Chain, Rounds, KeeperAssumption
<1>3. header' \in [Rounds -> Snaps \cup {None}]
  BY <1>1 DEF Apply, Chain
<1>4. StatusAfter[tx.kind] \in Statuses
  BY <1>1 DEF StatusAfter, Statuses
<1>5. intent' \in [Rounds -> [status : Statuses, secret : Secrets \cup {None}, head : Snaps,
                              age : {"new", "ripe", "expired", "day", "week"}]]
  BY <1>1, <1>4 DEF Apply, Chain, Statuses
<1>6. QED
  BY <1>2, <1>3, <1>5 DEF Chain, Statuses

----------------------------------------------------------------------------
(* A transaction lands. *)

(* What the keeper and its transactions are told stays so while the chain moves. *)
LandsBeside(tx) ==
    /\ Chain /\ disk \in [round : ActiveRound \cup {None}, done : SUBSET Rounds]
    /\ Core /\ confirmed \in Rounds \cup {None}
    /\ tx \in Tx /\ Accepts(tx) /\ Apply(tx)
    /\ UNCHANGED <<disk, confirmed, lost>>
    /\ Flying \subseteq Tx /\ Flying' \subseteq Flying

(***************************************************************************)
(* Any transaction: an open finds its secret on disk, a close has no more  *)
(* snapshots than the disk, an abandon that hits a seeded round finds the  *)
(* keeper unable to adopt it, and a commit has the snapshots the chain     *)
(* fixed.                                                                  *)
(***************************************************************************)
LEMMA LandKeeps ==
    ASSUME NEW tx, LandsBeside(tx), tx \in Flying \/ tx.kind = "seed"
    PROVE  Core'
<1> DEFINE r == tx.id
<1>0. /\ Chain /\ disk \in [round : ActiveRound \cup {None}, done : SUBSET Rounds]
      /\ Core /\ confirmed \in Rounds \cup {None} /\ tx \in Tx /\ Accepts(tx) /\ Apply(tx)
      /\ disk' = disk /\ confirmed' = confirmed /\ lost' = lost
      /\ Flying \subseteq Tx /\ Flying' \subseteq Flying
  BY DEF LandsBeside
<1>a. /\ Ordered /\ HeadersFixed /\ SecretSaved /\ FlyingOK /\ OpenRoundOK /\ ClosedRoundOK
      /\ ConfirmedIsThere /\ BoughtForIsKept /\ CommittedTracked
  BY <1>0 DEF Core
<1>b. /\ r \in Rounds /\ r \in Nat /\ next \in Nat /\ MaxRounds \in Nat
      /\ tx.kind \in {"open", "close", "seed", "abandon", "commit"}
      /\ tx.kind = "commit" => tx.snaps \in Snaps
  BY <1>0, TxFields, KeeperAssumption DEF Rounds, Chain, KeeperAssumption
<1>c. tx \in Flying => TxOK(tx)
  BY <1>a DEF FlyingOK
<1>d. \A q \in Rounds : Status(q) \in Statuses
  BY <1>0 DEF Chain, Status, Statuses
(* The accounts before ... *)
<1>1. /\ tx.kind = "open" => r = next /\ Status(r) = "none"
      /\ tx.kind = "close" => Status(r) = "open"
      /\ tx.kind = "seed" => Status(r) = "closed"
      /\ tx.kind = "abandon" =>
            /\ r = next
            /\ \/ Status(r) \in {"open", "closed"}
               \/ StaleSeeded(r)
      /\ tx.kind = "commit" => r = next /\ Status(r) = "seeded"
  BY <1>0, <1>b DEF Accepts, Abandonable, Status, StaleSeeded
(* ... and after. *)
<1>2. /\ \A q \in Rounds : q # r => intent'[q] = intent[q]
      /\ Status(r)' = StatusAfter[tx.kind]
      /\ intent'[r].secret = IF tx.kind = "open" THEN tx.secret ELSE intent[r].secret
      /\ intent'[r].head = IF tx.kind = "close" THEN tx.snaps ELSE intent[r].head
      /\ tx.kind \in {"close", "seed"} => intent'[r].age = "new"
      /\ next' = IF tx.kind \in {"abandon", "commit"} THEN next + 1 ELSE next
      /\ header' = IF tx.kind = "commit" THEN [header EXCEPT ![r] = tx.snaps] ELSE header
  BY <1>0, AccountsAfter
<1>3. /\ tx.kind = "open" => Status(r)' = "open"
      /\ tx.kind = "close" => Status(r)' = "closed"
      /\ tx.kind = "seed" => Status(r)' = "seeded"
      /\ tx.kind = "abandon" => Status(r)' = "abandoned"
      /\ tx.kind = "commit" => Status(r)' = "committed"
  BY <1>2 DEF StatusAfter
<1>4. \A q \in Rounds : q # r => Status(q)' = Status(q) /\ (StaleSeeded(q)' <=> StaleSeeded(q))
  BY <1>2 DEF Status, StaleSeeded
<1>5. ~StaleSeeded(r)'
  BY <1>2, <1>3, <1>b DEF Status, StaleSeeded
<1>6. \A q \in Rounds : q # r => header'[q] = header[q]
  BY <1>0, <1>2, <1>b DEF Chain
<1>7. header'[r] = IF tx.kind = "commit" THEN tx.snaps ELSE header[r]
  BY <1>0, <1>2, <1>b DEF Chain
<1>8. /\ \A q : InHand(q)' <=> InHand(q)
      /\ \A q, st : Collecting(q, st)' <=> Collecting(q, st)
  BY <1>0 DEF InHand, Collecting
<1>9. disk.round # None => disk.round.id \in Rounds /\ disk.round \in ActiveRound
  BY <1>0 DEF ActiveRound
<1>10. \A q \in Rounds : q \in Nat
  BY <1>b DEF Rounds
<1>11. Ordered'
  BY <1>1, <1>2, <1>3, <1>4, <1>a, <1>b, <1>10 DEF Ordered
<1>12. HeadersFixed'
  <2> SUFFICES ASSUME NEW q \in Rounds
               PROVE  /\ header'[q] = IF Status(q)' = "committed" THEN intent'[q].head ELSE None
                      /\ Status(q)' \in {"none", "open"} => intent'[q].head = << >>
    BY DEF HeadersFixed
  <2>0. /\ header[q] = IF Status(q) = "committed" THEN intent[q].head ELSE None
        /\ Status(q) \in {"none", "open"} => intent[q].head = << >>
    BY <1>a DEF HeadersFixed
  <2>1. CASE q = r /\ tx.kind = "commit"
    BY <1>1, <1>2, <1>3, <1>7, <1>b, <1>c, <2>1 DEF TxOK, CommitOK
  <2>2. CASE q = r /\ tx.kind # "commit"
    BY <1>1, <1>2, <1>3, <1>7, <1>b, <2>0, <2>2 DEF StaleSeeded
  <2>3. CASE q # r
    BY <1>2, <1>4, <1>6, <2>0, <2>3
  <2>4. QED
    BY <2>1, <2>2, <2>3
<1>13. SecretSaved'
  <2> SUFFICES ASSUME ~lost, NEW q \in Rounds, Status(q)' \in {"open", "closed", "seeded"}
               PROVE  InHand(q) /\ disk.round.secret = intent'[q].secret
    BY <1>0 DEF SecretSaved, Status, InHand
  <2>1. CASE q = r /\ tx.kind = "open"
    BY <1>1, <1>2, <1>c, <2>1 DEF TxOK, OpenOK
  <2>2. CASE q = r /\ tx.kind # "open"
    BY <1>1, <1>2, <1>3, <1>a, <1>b, <2>2 DEF SecretSaved, InHand, Status, StaleSeeded
  <2>3. CASE q # r
    BY <1>2, <1>4, <1>a, <2>3 DEF SecretSaved, InHand, Status
  <2>4. QED
    BY <2>1, <2>2, <2>3
<1>14. FlyingOK'
  <2> SUFFICES ASSUME NEW t \in Flying
               PROVE  TxOK(t)'
    BY <1>0 DEF FlyingOK
  <2>1. TxOK(t) /\ t.id \in Rounds
    BY <1>0, <1>a, TxFields DEF FlyingOK
  <2>2. OpenOK(t)'
    BY <1>0, <1>1, <1>3, <1>4, <1>8, <1>b, <2>1 DEF TxOK, OpenOK
  <2>3. CloseOK(t)'
    BY <1>0, <1>1, <1>3, <1>4, <1>8, <1>b, <2>1 DEF TxOK, CloseOK
  <2>4. AbandonOK(t)'
    BY <1>0, <1>1, <1>2, <1>3, <1>4, <1>5, <1>8, <1>b, <2>1 DEF TxOK, AbandonOK
  <2>5. CommitOK(t)'
    BY <1>0, <1>1, <1>2, <1>3, <1>4, <1>8, <1>b, <2>1 DEF TxOK, CommitOK, StaleSeeded
  <2>6. QED
    BY <2>2, <2>3, <2>4, <2>5 DEF TxOK
<1>15. OpenRoundOK'
  <2> SUFFICES ASSUME disk.round # None, disk.round.status = "OPEN"
               PROVE  LET q == disk.round.id
                      IN /\ disk.round.due => Len(disk.round.snaps) < MaxSnapshots
                         /\ Status(q)' \notin {"none", "open"} => Len(intent'[q].head) <= Len(disk.round.snaps)
                         /\ StaleSeeded(q)' /\ ~disk.round.due => Len(intent'[q].head) < Len(disk.round.snaps)
    BY <1>0 DEF OpenRoundOK
  <2> DEFINE q == disk.round.id
  <2>1. /\ disk.round.due => Len(disk.round.snaps) < MaxSnapshots
        /\ Status(q) \notin {"none", "open"} => Len(intent[q].head) <= Len(disk.round.snaps)
        /\ StaleSeeded(q) /\ ~disk.round.due => Len(intent[q].head) < Len(disk.round.snaps)
    BY <1>a DEF OpenRoundOK
  <2>2. q \in Rounds /\ Len(disk.round.snaps) \in Nat /\ Len(<< >>) = 0
    BY <1>9, SnapsAreSequences, NoSnapshots DEF ActiveRound
  <2>3. Status(q)' \notin {"none", "open"} => Len(intent'[q].head) <= Len(disk.round.snaps)
    <3>1. CASE q = r /\ tx.kind = "close"
      BY <1>0, <1>2, <1>c, <2>2, <3>1 DEF TxOK, CloseOK, Collecting
    <3>2. CASE q = r /\ tx.kind # "close"
      BY <1>1, <1>2, <1>3, <1>a, <1>b, <2>1, <2>2, <3>2 DEF HeadersFixed, StaleSeeded
    <3>3. CASE q # r
      BY <1>0, <1>2, <1>4, <2>1, <2>2, <3>3
    <3>4. QED
      BY <3>1, <3>2, <3>3
  <2>4. StaleSeeded(q)' => intent'[q].head = intent[q].head /\ StaleSeeded(q)
    BY <1>0, <1>2, <1>4, <1>5, <2>2
  <2>5. QED
    BY <2>1, <2>3, <2>4
<1>16. ClosedRoundOK'
  BY <1>0, <1>1, <1>2, <1>3, <1>4, <1>9, <1>a, <1>b DEF ClosedRoundOK, PastOpen, StaleSeeded
<1>17. ConfirmedIsThere'
  BY <1>0, <1>1, <1>2, <1>3, <1>4, <1>9, <1>a, <1>b DEF ConfirmedIsThere, Status
<1>18. BoughtForIsKept'
  BY <1>0, <1>1, <1>3, <1>4, <1>9, <1>a, <1>b, <1>c DEF BoughtForIsKept, Status, TxOK, AbandonOK, InHand, StaleSeeded
<1>19. CommittedTracked'
  BY <1>0, <1>1, <1>6, <1>7, <1>8, <1>a, <1>b, <1>c, NoneIsNone DEF CommittedTracked, TxOK, CommitOK
<1>20. QED
  BY <1>11, <1>12, <1>13, <1>14, <1>15, <1>16, <1>17, <1>18, <1>19 DEF Core

----------------------------------------------------------------------------
(* Time passes. *)

(* What the file has of the round, but for its snapshot being due. *)
SameRound ==
    /\ disk'.done = disk.done /\ lost' = lost
    /\ disk'.round = None <=> disk.round = None
    /\ disk.round # None =>
          /\ disk'.round.id = disk.round.id /\ disk'.round.status = disk.round.status
          /\ disk'.round.secret = disk.round.secret /\ disk'.round.snaps = disk.round.snaps

(* A snapshot becomes due: the file keeps the round otherwise. *)
LEMMA DueIsDue ==
    ASSUME disk \in [round : ActiveRound \cup {None}, done : SUBSET Rounds],
           SnapshotComesDue, lost' = lost
    PROVE  /\ SameRound
           /\ disk' \in [round : ActiveRound \cup {None}, done : SUBSET Rounds]
           /\ disk.round # None /\ disk.round.status = "OPEN" =>
                 disk'.round.due /\ Len(disk.round.snaps) < MaxSnapshots
<1>1. CASE disk.round # None /\ disk.round.status = "OPEN"
  <2> DEFINE d == [id |-> disk.round.id, status |-> disk.round.status, secret |-> disk.round.secret,
                   snaps |-> disk.round.snaps, due |-> TRUE]
  <2>1. disk.round \in ActiveRound
    BY <1>1
  <2>2. [disk.round EXCEPT !.due = TRUE] = d /\ d \in ActiveRound
    <3>1. [disk.round EXCEPT !.due = TRUE] = d
      BY <2>1, RoundExcept
    <3>2. disk.round.id \in Rounds /\ disk.round.status \in {"OPEN", "CLOSED", "SEEDED", "FUNDED", "PREPARED"}
          /\ disk.round.secret \in Secrets /\ disk.round.snaps \in Snaps
      BY <2>1 DEF ActiveRound
    <3>3. d \in ActiveRound
      BY <3>2 DEF ActiveRound
    <3>4. QED
      BY <3>1, <3>3
  <2>3. disk' = [disk EXCEPT !.round = [disk.round EXCEPT !.due = TRUE]]
    BY <1>1 DEF SnapshotComesDue
  <2>4. disk' = [round |-> d, done |-> disk.done]
    BY <2>2, <2>3
  <2>5. d # None
    BY <2>2, NoneIsNone
  <2>6. Len(disk.round.snaps) < MaxSnapshots
    BY <1>1 DEF SnapshotComesDue
  <2>7. QED
    BY <1>1, <2>2, <2>4, <2>5, <2>6 DEF SameRound
<1>2. CASE ~(disk.round # None /\ disk.round.status = "OPEN")
  BY <1>2 DEF SnapshotComesDue, SameRound
<1>3. QED
  BY <1>1, <1>2

(* An intent grows older; if it gets old enough to be abandoned, nothing is in flight any more. *)
LEMMA TimeKeeps ==
    ASSUME Core,
           disk \in [round : ActiveRound \cup {None}, done : SUBSET Rounds],
           SameRound,
           disk' = disk \/ SnapshotComesDue,
           next' = next /\ header' = header,
           confirmed' = confirmed, confirmed \in Rounds \cup {None},
           \A q \in Rounds :
              /\ Status(q)' = Status(q) /\ intent'[q].secret = intent[q].secret /\ intent'[q].head = intent[q].head
              /\ StaleSeeded(q)' => StaleSeeded(q) \/ (Flying' = {} /\ SnapshotComesDue),
           Flying \subseteq Tx, Flying' \subseteq Flying
    PROVE  Core'
<1>a. /\ Ordered /\ HeadersFixed /\ SecretSaved /\ FlyingOK /\ OpenRoundOK /\ ClosedRoundOK
      /\ ConfirmedIsThere /\ BoughtForIsKept /\ CommittedTracked
  BY DEF Core
<1>b. disk.round # None => disk.round.id \in Rounds
  BY DEF ActiveRound
<1>c. /\ \A q : InHand(q)' <=> InHand(q)
      /\ \A q, st : Collecting(q, st)' <=> Collecting(q, st)
  BY DEF SameRound, InHand, Collecting
<1>1. Ordered'
  BY <1>a DEF Ordered
<1>2. HeadersFixed'
  BY <1>a DEF HeadersFixed
<1>3. SecretSaved'
  BY <1>a DEF SecretSaved, Status, SameRound
<1>4. FlyingOK'
  <2> SUFFICES ASSUME NEW t \in Flying'
               PROVE  TxOK(t)'
    BY DEF FlyingOK
  <2>1. TxOK(t) /\ t.id \in Rounds
    BY <1>a, TxFields DEF FlyingOK
  <2>2. OpenOK(t)'
    BY <1>c, <2>1 DEF TxOK, OpenOK, SameRound, InHand
  <2>3. CloseOK(t)'
    BY <1>c, <2>1 DEF TxOK, CloseOK, SameRound, Collecting
  <2>4. AbandonOK(t)'
    BY <1>c, <2>1 DEF TxOK, AbandonOK, SameRound, InHand
  <2>5. CommitOK(t)'
    BY <1>c, <2>1 DEF TxOK, CommitOK, SameRound
  <2>6. QED
    BY <2>2, <2>3, <2>4, <2>5 DEF TxOK
<1>5. OpenRoundOK'
  <2> SUFFICES ASSUME disk'.round # None, disk'.round.status = "OPEN"
               PROVE  /\ disk'.round.due => Len(disk'.round.snaps) < MaxSnapshots
                      /\ Status(disk.round.id)' \notin {"none", "open"} => Len(intent'[disk'.round.id].head) <= Len(disk'.round.snaps)
                      /\ StaleSeeded(disk.round.id)' /\ ~disk'.round.due => Len(intent'[disk'.round.id].head) < Len(disk'.round.snaps)
    BY DEF OpenRoundOK
  <2>1. /\ disk.round.due => Len(disk.round.snaps) < MaxSnapshots
        /\ Status(disk.round.id) \notin {"none", "open"} => Len(intent[disk.round.id].head) <= Len(disk.round.snaps)
        /\ StaleSeeded(disk.round.id) /\ ~disk.round.due => Len(intent[disk.round.id].head) < Len(disk.round.snaps)
    BY <1>a DEF OpenRoundOK, SameRound
  <2>2. disk.round # None /\ disk.round.status = "OPEN" /\ disk'.round.snaps = disk.round.snaps /\ disk'.round.id = disk.round.id
    BY DEF SameRound
  <2>3. disk' = disk \/ (disk'.round.due /\ Len(disk.round.snaps) < MaxSnapshots)
    BY <2>2, DueIsDue DEF SameRound
  <2> DEFINE q == disk.round.id
  <2>4. q \in Rounds /\ disk'.round.id = q
    BY <1>b, <2>2
  <2>5. intent'[q].head = intent[q].head /\ intent'[q].status = intent[q].status
    BY <2>4 DEF Status
  <2>6. Status(q)' = intent[q].status /\ Status(q) = intent[q].status
    BY <2>4, <2>5 DEF Status
  <2>7. disk'.round.due => Len(disk.round.snaps) < MaxSnapshots
    BY <2>1, <2>3
  <2>8. StaleSeeded(q)' => StaleSeeded(q) \/ SnapshotComesDue
    BY <2>4 DEF StaleSeeded, Status
  <2>9. SnapshotComesDue => disk'.round.due
    BY <2>2, DueIsDue DEF SameRound
  <2>10. disk' = disk \/ disk'.round.due
    BY <2>9
  <2>11. ~disk'.round.due => ~disk.round.due
    BY <2>10
  <2>12. QED
    BY <2>1, <2>2, <2>4, <2>5, <2>6, <2>7, <2>8, <2>9, <2>11
<1>6. ClosedRoundOK'
  BY <1>a, <1>b DEF ClosedRoundOK, PastOpen, SameRound, Status
<1>7. ConfirmedIsThere'
  BY <1>a DEF ConfirmedIsThere, Status
<1>8. BoughtForIsKept'
  BY <1>a, <1>b DEF BoughtForIsKept, SameRound, Status
<1>9. CommittedTracked'
  BY <1>a, <1>c DEF CommittedTracked, SameRound
<1>10. QED
  BY <1>1, <1>2, <1>3, <1>4, <1>5, <1>6, <1>7, <1>8, <1>9 DEF Core

----------------------------------------------------------------------------
(* The keeper's own steps. *)

(* A step that only sends, or only learns what became of what it sent. *)
LEMMA SendKeeps ==
    ASSUME Core, UNCHANGED <<chain, disk, lost>>, ConfirmedIsThere',
           \A t \in Flying' : t \in Flying \/ TxOK(t)
    PROVE  Core'
<1>1. next' = next /\ intent' = intent /\ header' = header /\ disk' = disk /\ lost' = lost
  BY DEF chain
<1>2. FlyingOK'
  <2> SUFFICES ASSUME NEW t \in Flying'
               PROVE  TxOK(t)'
    BY DEF FlyingOK
  <2>1. TxOK(t)
    BY DEF Core, FlyingOK
  <2>2. QED
    BY <1>1, <2>1 DEF TxOK, OpenOK, CloseOK, AbandonOK, CommitOK, InHand, Collecting, StaleSeeded, Status
<1>3. Ordered' /\ HeadersFixed' /\ SecretSaved'
  BY <1>1 DEF Core, Ordered, HeadersFixed, SecretSaved, Status
<1>4. OpenRoundOK' /\ ClosedRoundOK'
  BY <1>1 DEF Core, OpenRoundOK, ClosedRoundOK, PastOpen, StaleSeeded, Status
<1>5. BoughtForIsKept' /\ CommittedTracked'
  BY <1>1 DEF Core, BoughtForIsKept, CommittedTracked, Collecting
<1>6. QED
  BY <1>2, <1>3, <1>4, <1>5 DEF Core

(* The round ended on the chain and leaves the file; a committed one goes on the paying list. *)
LEMMA ForgetKeeps ==
    ASSUME Core, Chain, UNCHANGED <<chain, lost>>, ConfirmedIsThere', Flying \subseteq Tx, Flying' \subseteq Flying,
           disk \in [round : ActiveRound \cup {None}, done : SUBSET Rounds],
           NEW done, disk' = [round |-> None, done |-> done],
           \/ disk.round = None /\ done = disk.done
           \/ disk.round # None /\ Status(disk.round.id) = "abandoned" /\ done = disk.done
           \/ disk.round # None /\ Status(disk.round.id) = "committed" /\ done = disk.done \cup {disk.round.id}
    PROVE  Core'
<1>a. /\ Ordered /\ HeadersFixed /\ SecretSaved /\ FlyingOK /\ OpenRoundOK /\ ClosedRoundOK
      /\ ConfirmedIsThere /\ BoughtForIsKept /\ CommittedTracked
  BY DEF Core
<1>1. next' = next /\ intent' = intent /\ header' = header /\ lost' = lost
      /\ disk'.round = None /\ disk'.done = done
  BY DEF chain
<1>2. disk.round # None => disk.round.id \in Rounds /\ Status(disk.round.id) \in {"abandoned", "committed"}
  BY DEF ActiveRound
<1>3. Ordered' /\ HeadersFixed'
  BY <1>1, <1>a DEF Ordered, HeadersFixed, Status
<1>4. SecretSaved'
  BY <1>1, <1>2, <1>a DEF SecretSaved, Status
<1>5. FlyingOK'
  <2> SUFFICES ASSUME NEW t \in Flying'
               PROVE  TxOK(t)'
    BY DEF FlyingOK
  <2>1. TxOK(t) /\ t.id \in Rounds
    BY <1>a, TxFields DEF FlyingOK
  <2>2. OpenOK(t)'
    BY <1>1, <1>2, <2>1 DEF TxOK, OpenOK, InHand, Status
  <2>3. CloseOK(t)'
    BY <1>1, <2>1 DEF TxOK, CloseOK, Collecting, Status
  <2>4. AbandonOK(t)'
    BY <1>1, <2>1 DEF TxOK, AbandonOK, InHand, Status
  <2>5. CommitOK(t)'
    BY <1>1, <1>2, <2>1 DEF TxOK, CommitOK, Collecting, Status
  <2>6. QED
    BY <2>2, <2>3, <2>4, <2>5 DEF TxOK
<1>6. OpenRoundOK' /\ ClosedRoundOK' /\ BoughtForIsKept'
  BY <1>1 DEF OpenRoundOK, ClosedRoundOK, PastOpen, BoughtForIsKept
<1>7. CommittedTracked'
  <2>1. \A q \in Rounds : header[q] # None <=> Status(q) = "committed"
    BY <1>a, NoneIsNone DEF HeadersFixed, Chain
  <2>2. ASSUME NEW q \in done
        PROVE  header'[q] # None
    BY <1>1, <1>2, <1>a, <2>1, <2>2 DEF CommittedTracked
  <2>3. ASSUME ~lost, NEW q \in Rounds, header[q] # None
        PROVE  q \in done
    BY <1>2, <1>a, <2>1, <2>3 DEF CommittedTracked, Collecting
  <2>4. QED
    BY <1>1, <2>2, <2>3 DEF CommittedTracked
<1>8. QED
  BY <1>3, <1>4, <1>5, <1>6, <1>7 DEF Core

(* The round on disk moves on, with the snapshots the chain fixed. *)
LEMMA AdvanceKeeps ==
    ASSUME Core, UNCHANGED <<chain, lost>>, ConfirmedIsThere', Flying \subseteq Tx, Flying' \subseteq Flying,
           disk \in [round : ActiveRound \cup {None}, done : SUBSET Rounds],
           disk.round # None, disk.round.status # "PREPARED",
           NEW to \in {"CLOSED", "SEEDED", "FUNDED", "PREPARED"}, SetStatus(to),
           Status(disk.round.id) \notin {"none", "open"},
           intent[disk.round.id].head = disk.round.snaps,
           to # "CLOSED" => Status(disk.round.id) \in {"seeded", "committed"}
    PROVE  Core' /\ disk' \in [round : ActiveRound \cup {None}, done : SUBSET Rounds]
<1>a. /\ Ordered /\ HeadersFixed /\ SecretSaved /\ FlyingOK /\ OpenRoundOK /\ ClosedRoundOK
      /\ ConfirmedIsThere /\ BoughtForIsKept /\ CommittedTracked
  BY DEF Core
<1> DEFINE x == disk.round
           y == [id |-> x.id, status |-> to, secret |-> x.secret, snaps |-> x.snaps, due |-> x.due]
<1>0. x \in ActiveRound
  OBVIOUS
<1>1. disk' = [round |-> y, done |-> disk.done] /\ y \in ActiveRound
  <2>1. [x EXCEPT !.status = to] = y
    BY <1>0, RoundExcept
  <2>2. disk' = [disk EXCEPT !.round = [x EXCEPT !.status = to]]
    BY DEF SetStatus
  <2>3. y \in ActiveRound
    BY <1>0 DEF ActiveRound
  <2>4. QED
    BY <2>1, <2>2, <2>3
<1>2. next' = next /\ intent' = intent /\ header' = header /\ lost' = lost
  BY DEF chain
<1>3. /\ disk'.round # None /\ disk'.done = disk.done
      /\ disk'.round.id = x.id /\ disk'.round.status = to /\ disk'.round.secret = x.secret /\ disk'.round.snaps = x.snaps
      /\ x.id \in Rounds /\ Len(x.snaps) \in Nat
  BY <1>0, <1>1, NoneIsNone, SnapsAreSequences DEF ActiveRound
<1> HIDE DEF x, y
<1>4. Ordered' /\ HeadersFixed'
  BY <1>2, <1>a DEF Ordered, HeadersFixed, Status
<1>5. SecretSaved'
  BY <1>2, <1>3, <1>a DEF SecretSaved, x
<1>6. FlyingOK'
  <2> SUFFICES ASSUME NEW t \in Flying'
               PROVE  TxOK(t)'
    BY DEF FlyingOK
  <2>1. TxOK(t) /\ t.id \in Rounds
    BY <1>a, TxFields DEF FlyingOK
  <2>2. OpenOK(t)'
    BY <1>2, <1>3, <2>1 DEF TxOK, OpenOK, InHand, Status, x
  <2>3. CloseOK(t)'
    BY <1>2, <1>3, <2>1 DEF TxOK, CloseOK, Collecting, Status
  <2>4. AbandonOK(t)'
    BY <1>2, <1>3, <2>1 DEF TxOK, AbandonOK, InHand, StaleSeeded, Status, x
  <2>5. CommitOK(t)'
    BY <1>2, <2>1 DEF TxOK, CommitOK, Collecting, Status
  <2>6. QED
    BY <2>2, <2>3, <2>4, <2>5 DEF TxOK
<1>7. OpenRoundOK' /\ ClosedRoundOK' /\ BoughtForIsKept'
  BY <1>2, <1>3 DEF OpenRoundOK, ClosedRoundOK, PastOpen, BoughtForIsKept, Status, x
<1>8. CommittedTracked'
  BY <1>2, <1>3, <1>a DEF CommittedTracked, Collecting, x
<1>9. QED
  BY <1>1, <1>4, <1>5, <1>6, <1>7, <1>8 DEF Core

(* One more snapshot in an open window. *)
LEMMA SnapshotKeeps ==
    ASSUME Core, UNCHANGED <<chain, lost>>, ConfirmedIsThere', Flying \subseteq Tx, Flying' \subseteq Flying,
           disk \in [round : ActiveRound \cup {None}, done : SUBSET Rounds], Chain,
           disk.round # None, disk.round.status = "OPEN", disk.round.due,
           NEW reading \in Readings,
           disk' = [disk EXCEPT !.round = [disk.round EXCEPT !.snaps = Append(disk.round.snaps, reading), !.due = FALSE]]
    PROVE  Core' /\ disk' \in [round : ActiveRound \cup {None}, done : SUBSET Rounds]
<1>a. /\ Ordered /\ HeadersFixed /\ SecretSaved /\ FlyingOK /\ OpenRoundOK /\ ClosedRoundOK
      /\ ConfirmedIsThere /\ BoughtForIsKept /\ CommittedTracked
  BY DEF Core
<1> DEFINE x == disk.round
           more == Append(x.snaps, reading)
           y == [id |-> x.id, status |-> x.status, secret |-> x.secret, snaps |-> more, due |-> FALSE]
<1>0. x \in ActiveRound /\ x.snaps \in Snaps /\ Len(x.snaps) < MaxSnapshots
  BY <1>a DEF ActiveRound, OpenRoundOK
<1>1. more \in Snaps /\ Len(more) = Len(x.snaps) + 1 /\ Len(x.snaps) \in Nat
  BY <1>0, SnapshotsGrow, SnapsAreSequences
<1> HIDE DEF more
<1>2. disk' = [round |-> y, done |-> disk.done] /\ y \in ActiveRound
  <2>1. [x EXCEPT !.snaps = more, !.due = FALSE] = y
    BY <1>0, RoundExcept
  <2>2. disk' = [disk EXCEPT !.round = [x EXCEPT !.snaps = more, !.due = FALSE]]
    BY DEF more
  <2>3. x.id \in Rounds /\ x.status \in {"OPEN", "CLOSED", "SEEDED", "FUNDED", "PREPARED"} /\ x.secret \in Secrets
    BY <1>0 DEF ActiveRound
  <2>4. y \in ActiveRound
    BY <1>1, <2>3 DEF ActiveRound
  <2>5. QED
    BY <2>1, <2>2, <2>4
<1> HIDE DEF y
<1>3. next' = next /\ intent' = intent /\ header' = header /\ lost' = lost
  BY DEF chain
<1>4. /\ disk'.round # None /\ disk'.done = disk.done
      /\ disk'.round.id = x.id /\ disk'.round.status = "OPEN" /\ disk'.round.secret = x.secret /\ disk'.round.snaps = more
      /\ x.id \in Rounds /\ x.status = "OPEN"
  <2>1. disk'.round = y /\ disk'.done = disk.done
    BY <1>2
  <2>2. y # None
    BY <1>2, NoneIsNone
  <2>3. x.id \in Rounds /\ x.status = "OPEN"
    BY <1>0 DEF ActiveRound
  <2>4. y.id = x.id /\ y.status = x.status /\ y.secret = x.secret /\ y.snaps = more
    BY DEF y
  <2>5. QED
    BY <2>1, <2>2, <2>3, <2>4
<1>b. ~disk'.round.due
  <2>1. disk'.round = y
    BY <1>2
  <2>2. ~y.due
    BY DEF y
  <2>3. QED
    BY <2>1, <2>2
<1>5. \A q \in Rounds : Len(intent[q].head) \in Nat
  BY SnapsAreSequences DEF Chain
<1> HIDE DEF x
<1>6. Ordered' /\ HeadersFixed'
  BY <1>3, <1>a DEF Ordered, HeadersFixed, Status
<1>7. SecretSaved'
  BY <1>3, <1>4, <1>a DEF SecretSaved, x
<1>8. FlyingOK'
  <2> SUFFICES ASSUME NEW t \in Flying'
               PROVE  TxOK(t)'
    BY DEF FlyingOK
  <2>1. TxOK(t) /\ t.id \in Rounds /\ (t.kind = "close" => Len(t.snaps) \in Nat)
    BY <1>a, TxFields, SnapsAreSequences DEF FlyingOK
  <2>2. OpenOK(t)'
    BY <1>3, <1>4, <2>1 DEF TxOK, OpenOK, InHand, Status, x
  <2>3. CloseOK(t)'
    BY <1>1, <1>3, <1>4, <2>1 DEF TxOK, CloseOK, Collecting, Status, x
  <2>4. AbandonOK(t)'
    BY <1>1, <1>3, <1>4, <1>5, <2>1 DEF TxOK, AbandonOK, InHand, StaleSeeded, Status, x
  <2>5. CommitOK(t)'
    BY <1>3, <1>4, <2>1 DEF TxOK, CommitOK, Collecting, Status, x
  <2>6. QED
    BY <2>2, <2>3, <2>4, <2>5 DEF TxOK
<1>9. OpenRoundOK'
  <2>1. Status(x.id) \notin {"none", "open"} => Len(intent[x.id].head) <= Len(x.snaps)
    BY <1>a, <1>4 DEF OpenRoundOK, x
  <2>2. Status(x.id) \notin {"none", "open"} => Len(intent[x.id].head) < Len(more)
    BY <1>1, <1>4, <1>5, <2>1
  <2>3. QED
    BY <1>1, <1>3, <1>4, <1>5, <1>b, <2>2 DEF OpenRoundOK, StaleSeeded, Status
<1>10. ClosedRoundOK' /\ BoughtForIsKept'
  BY <1>4 DEF ClosedRoundOK, PastOpen, BoughtForIsKept
<1>11. CommittedTracked'
  BY <1>3, <1>4, <1>a DEF CommittedTracked, Collecting, x
<1>12. QED
  BY <1>2, <1>6, <1>7, <1>8, <1>9, <1>10, <1>11 DEF Core

(* A new round on disk, for an intent that is not there yet. *)
LEMMA OpenKeeps ==
    ASSUME Core, UNCHANGED <<chain, lost>>, ConfirmedIsThere', Flying \subseteq Tx, Chain,
           disk \in [round : ActiveRound \cup {None}, done : SUBSET Rounds],
           disk.round = None, next \in Rounds, Status(next) = "none", NEW secret \in Secrets,
           SetRound(NewRound(next, secret)),
           Flying' \subseteq Flying \cup {OpenTx(next, secret)}
    PROVE  Core' /\ disk' \in [round : ActiveRound \cup {None}, done : SUBSET Rounds]
<1>a. /\ Ordered /\ HeadersFixed /\ SecretSaved /\ FlyingOK /\ OpenRoundOK /\ ClosedRoundOK
      /\ ConfirmedIsThere /\ BoughtForIsKept /\ CommittedTracked
  BY DEF Core
<1> DEFINE y == NewRound(next, secret)
<1>1. disk' = [round |-> y, done |-> disk.done] /\ y \in ActiveRound
  BY NoSnapshots DEF SetRound, NewRound, ActiveRound
<1>2. next' = next /\ intent' = intent /\ header' = header /\ lost' = lost
  BY DEF chain
<1>3. /\ disk'.round # None /\ disk'.done = disk.done
      /\ disk'.round.id = next /\ disk'.round.status = "OPEN" /\ disk'.round.secret = secret /\ disk'.round.snaps = << >>
  BY <1>1, NoneIsNone DEF NewRound
<1> HIDE DEF y
<1>4. Ordered' /\ HeadersFixed'
  BY <1>2, <1>a DEF Ordered, HeadersFixed, Status
<1>5. SecretSaved'
  BY <1>2, <1>a DEF SecretSaved
<1>6. FlyingOK'
  <2>1. ASSUME NEW t \in Flying
        PROVE  TxOK(t)'
    <3>1. TxOK(t) /\ t.id \in Rounds
      BY <1>a, TxFields DEF FlyingOK
    <3>2. OpenOK(t)'
      BY <1>2, <3>1 DEF TxOK, OpenOK, InHand, Status
    <3>3. CloseOK(t)'
      BY <1>2, <1>3, <3>1 DEF TxOK, CloseOK, Collecting, Status
    <3>4. AbandonOK(t)'
      BY <1>2, <1>3, <3>1 DEF TxOK, AbandonOK, InHand, Status
    <3>5. CommitOK(t)'
      BY <1>2, <3>1 DEF TxOK, CommitOK, Collecting, Status
    <3>6. QED
      BY <3>2, <3>3, <3>4, <3>5 DEF TxOK
  <2>2. ASSUME NEW t \in Flying'
        PROVE  TxOK(t)'
    <3>1. CASE t \in Flying
      BY <2>1, <3>1
    <3>2. CASE t = OpenTx(next, secret)
      BY <1>2, <1>3, <3>2 DEF TxOK, OpenTx, OpenOK, CloseOK, AbandonOK, CommitOK, InHand
    <3>3. QED
      BY <3>1, <3>2
  <2>3. QED
    BY <2>2 DEF FlyingOK
<1>7. OpenRoundOK'
  <2>1. Len(<< >>) = 0 /\ 0 < MaxSnapshots
    BY NoSnapshots, KeeperAssumption DEF KeeperAssumption
  <2>2. QED
    BY <1>2, <1>3, <2>1 DEF OpenRoundOK, StaleSeeded, Status
<1>8. ClosedRoundOK' /\ BoughtForIsKept'
  BY <1>3 DEF ClosedRoundOK, PastOpen, BoughtForIsKept
<1>9. CommittedTracked'
  BY <1>2, <1>3, <1>a DEF CommittedTracked, Collecting, HeadersFixed
<1>10. QED
  BY <1>1, <1>4, <1>5, <1>6, <1>7, <1>8, <1>9 DEF Core

----------------------------------------------------------------------------
(* Every step of the specification. *)

(* The types, part by part. *)
LEMMA TypeParts ==
    TypeOK <=> /\ Chain
               /\ disk \in [round : ActiveRound \cup {None}, done : SUBSET Rounds]
               /\ Process
               /\ lost \in BOOLEAN /\ faults \in 0 .. MaxFaults
BY DEF TypeOK, Chain, Process

(* What is in flight is a transaction. *)
LEMMA FlyingTyped ==
    ASSUME Process
    PROVE  Flying \subseteq Tx
BY DEF Process, Flying, Unresolved, Pending

(* Only what is waited for and undecided is in flight beside the strays. *)
LEMMA FlyingWhen ==
    /\ pc # "waiting" => Flying = stray
    /\ pc = "waiting" /\ call.outcome # "sent" => Flying = stray
    /\ pc = "waiting" /\ call.outcome = "sent" => Flying = stray \cup {call.tx}
BY DEF Flying, Unresolved, Pending

(* A step that sends is then waiting for what it sent. *)
LEMMA Sends ==
    ASSUME Process, NEW tx \in Tx, Send(tx), stray' = stray, confirmed' \in Rounds \cup {None}
    PROVE  Process' /\ Flying' \subseteq Flying \cup {tx} /\ call'.tx = tx /\ call'.outcome = "sent"
<1>1. pc' = "waiting" /\ call' = [tx |-> tx, outcome |-> "sent"]
  BY DEF Send
<1>2. call'.tx = tx /\ call'.outcome = "sent"
  BY <1>1
<1>3. Flying' = stray' \cup {tx}
  BY <1>1, <1>2 DEF Flying, Unresolved, Pending
<1>4. stray \subseteq Flying
  BY DEF Flying
<1>5. call' \in [tx : Tx, outcome : {"sent", "landed", "refused"}]
  BY <1>1
<1>6. Process'
  BY <1>1, <1>5 DEF Process
<1>7. QED
  BY <1>2, <1>3, <1>4, <1>6

(* A step that returns waits for nothing. *)
LEMMA Returns ==
    ASSUME Process, pc' \in {"idle", "down"}, call' = NoCall, stray' \subseteq Flying, confirmed' \in Rounds \cup {None}
    PROVE  Process' /\ Flying' \subseteq Flying /\ WaitingOK'
<1>1. Flying' = stray'
  BY DEF Flying, Unresolved, Pending
<1>2. QED
  BY <1>1, FlyingTyped DEF Process, WaitingOK

(* What a waiting step knows stays true while nothing it knows is undone. *)
LEMMA WaitsOn ==
    ASSUME WaitingOK, Process, SameRound, pc' = pc,
           pc = "waiting" => /\ call'.tx = call.tx
                             /\ call'.outcome = "landed" =>
                                   call.outcome = "landed" \/ intent'[call.tx.id].status = StatusAfter[call.tx.kind],
           \A q \in Rounds :
              /\ Status(q) \notin {"none", "open"} => Status(q)' \notin {"none", "open"}
              /\ Status(q) = "abandoned" => Status(q)' = "abandoned"
    PROVE  WaitingOK'
<1> SUFFICES ASSUME pc = "waiting"
             PROVE  WaitingOK'
  BY DEF WaitingOK
<1> DEFINE tx == call.tx
<1>1. tx \in Tx /\ tx.id \in Rounds
  BY TxFields DEF Process
<1>2. /\ call'.tx = tx
      /\ call'.outcome = "landed" =>
            \/ call.outcome = "landed"
            \/ /\ tx.kind = "close" => intent'[tx.id].status = "closed"
               /\ tx.kind = "abandon" => intent'[tx.id].status = "abandoned"
  BY DEF StatusAfter
<1>3. /\ \A q : InHand(q)' <=> InHand(q)
      /\ \A q, st : Collecting(q, st)' <=> Collecting(q, st)
      /\ disk'.round = None <=> disk.round = None
      /\ disk.round # None => disk'.round.id = disk.round.id
  BY DEF SameRound, InHand, Collecting
<1>4. /\ tx.kind = "close" => Collecting(tx.id, "OPEN")
      /\ tx.kind = "seed" => Collecting(tx.id, "CLOSED")
      /\ tx.kind = "abandon" => disk.round = None \/ disk.round.id = tx.id
      /\ call.outcome = "landed" /\ tx.kind = "close" => Status(tx.id) \notin {"none", "open"}
      /\ call.outcome = "landed" /\ tx.kind = "abandon" => Status(tx.id) = "abandoned"
  BY DEF WaitingOK
<1> HIDE DEF tx
<1>5. Status(tx.id)' = intent'[call'.tx.id].status /\ Status(tx.id) = intent[tx.id].status
  BY <1>2 DEF Status, tx
<1>6. QED
  BY <1>1, <1>2, <1>3, <1>4, <1>5 DEF WaitingOK, Status, Collecting

(* Nothing leads back to a window that is not closed, or away from an abandoned round. *)
LEMMA StatusesAdvance ==
    ASSUME Chain, NEW tx \in Tx, Accepts(tx), Apply(tx)
    PROVE  \A q \in Rounds :
              /\ Status(q) \notin {"none", "open"} => Status(q)' \notin {"none", "open"}
              /\ Status(q) = "abandoned" => Status(q)' = "abandoned"
<1>1. tx.id \in Rounds /\ tx.kind \in {"open", "close", "seed", "abandon", "commit"}
  BY TxFields
<1>2. /\ \A r \in Rounds : r # tx.id => intent'[r] = intent[r]
      /\ Status(tx.id)' = StatusAfter[tx.kind]
  BY AccountsAfter
<1>3. /\ tx.kind = "open" => Status(tx.id) = "none"
      /\ Status(tx.id) # "abandoned"
  BY <1>1 DEF Accepts, Abandonable, Status
<1>4. tx.kind # "open" => Status(tx.id)' \notin {"none", "open"}
  BY <1>1, <1>2 DEF StatusAfter
<1>5. QED
  BY <1>1, <1>2, <1>3, <1>4 DEF Status

(* A transaction lands: what remains to be shown is who waited for it. *)
LEMMA Lands ==
    ASSUME IInv, NEW tx \in Tx, tx \in Flying \/ tx.kind = "seed", Accepts(tx), Apply(tx),
           UNCHANGED <<disk, confirmed, pc, lost, faults>>, Flying' \subseteq Flying,
           Process',
           pc = "waiting" => call'.tx = call.tx /\ (call'.outcome = "landed" => call.outcome = "landed" \/ call.tx = tx)
    PROVE  IInv'
<1>1. /\ Chain /\ disk \in [round : ActiveRound \cup {None}, done : SUBSET Rounds]
      /\ Process /\ Core /\ WaitingOK
  BY TypeParts DEF IInv
<1>2. Chain'
  BY <1>1, ChainTyped DEF Accepts
<1>3. LandsBeside(tx)
  BY <1>1, FlyingTyped DEF LandsBeside, Process
<1>4. Core'
  BY <1>3, LandKeeps
<1>5. TypeOK'
  BY <1>2, TypeParts DEF IInv, TypeOK, Chain, Process
<1>6. SameRound
  BY DEF SameRound
<1>7. intent'[tx.id].status = StatusAfter[tx.kind]
  BY <1>1, AccountsAfter DEF Status
<1>8. WaitingOK'
  BY <1>1, <1>6, <1>7, StatusesAdvance, WaitsOn
<1>9. QED
  BY <1>4, <1>5, <1>8 DEF IInv

(* The transaction the step waits for lands. *)
LEMMA LandStep == IInv /\ Land => IInv'
<1> SUFFICES ASSUME IInv, Land
             PROVE  IInv'
  OBVIOUS
<1>1. Process
  BY TypeParts DEF IInv
<1>2. /\ pc = "waiting" /\ call.outcome = "sent" /\ Accepts(call.tx) /\ Apply(call.tx)
      /\ call' = [call EXCEPT !.outcome = "landed"]
      /\ UNCHANGED <<disk, confirmed, pc, lost, faults>> /\ stray' = stray
  BY DEF Land, Pending
<1>3. call \in [tx : Tx, outcome : {"sent", "landed", "refused"}]
  BY <1>1, <1>2 DEF Process
<1>4. call'.tx = call.tx /\ call'.outcome = "landed" /\ call' \in [tx : Tx, outcome : {"sent", "landed", "refused"}]
  BY <1>2, <1>3
<1>5. call.tx \in Tx /\ call.tx \in Flying
  BY <1>2, <1>3, FlyingWhen
<1>6. Flying' \subseteq Flying
  BY <1>2, <1>4 DEF Flying, Unresolved, Pending
<1>7. Process'
  BY <1>1, <1>2, <1>4 DEF Process
<1>8. QED
  BY <1>2, <1>4, <1>5, <1>6, <1>7, Lands

(* One that nobody waits for lands. *)
LEMMA LandStrayStep == IInv /\ LandStray => IInv'
<1> SUFFICES ASSUME IInv, NEW tx \in stray, Accepts(tx), Apply(tx), stray' = stray \ {tx},
                    UNCHANGED <<disk, confirmed, pc, call, lost, faults>>
             PROVE  IInv'
  BY DEF LandStray
<1>1. Process
  BY TypeParts DEF IInv
<1>2. tx \in Tx /\ tx \in Flying
  BY <1>1 DEF Process, Flying
<1>3. Flying' \subseteq Flying
  BY DEF Flying, Unresolved, Pending
<1>4. Process'
  BY <1>1 DEF Process
<1>5. QED
  BY <1>2, <1>3, <1>4, Lands

(* Somebody records the seed. *)
LEMMA AnyoneSeedsStep == ASSUME IInv, NEW r \in Rounds, AnyoneSeeds(r) PROVE IInv'
<1> DEFINE tx == [kind |-> "seed", id |-> r]
<1>1. /\ Accepts(tx) /\ Apply(tx)
      /\ UNCHANGED <<disk, confirmed, pc, call, stray, lost, faults>>
  BY DEF AnyoneSeeds
<1>2. tx \in Tx /\ tx.kind = "seed"
  BY DEF Tx
<1> HIDE DEF tx
<1>3. Process
  BY TypeParts DEF IInv
<1>4. Flying' \subseteq Flying
  BY <1>1 DEF Flying, Unresolved, Pending
<1>5. Process'
  BY <1>1, <1>3 DEF Process
<1>6. QED
  BY <1>1, <1>2, <1>4, <1>5, Lands

(* A transaction that is refused, or dropped, does nothing. *)
LEMMA RefuseStep == IInv /\ Refuse => IInv'
<1> SUFFICES ASSUME IInv, Refuse
             PROVE  IInv'
  OBVIOUS
<1>1. /\ Chain /\ disk \in [round : ActiveRound \cup {None}, done : SUBSET Rounds]
      /\ Process /\ Core /\ WaitingOK
  BY TypeParts DEF IInv
<1>2. /\ pc = "waiting" /\ call.outcome = "sent"
      /\ call' = [call EXCEPT !.outcome = "refused"]
      /\ UNCHANGED <<chain, disk, confirmed, pc, stray, lost, faults>>
  BY DEF Refuse, Pending
<1>3. next' = next /\ intent' = intent /\ header' = header
  BY <1>2 DEF chain
<1>4. call \in [tx : Tx, outcome : {"sent", "landed", "refused"}]
  BY <1>1, <1>2 DEF Process
<1>5. call'.tx = call.tx /\ call'.outcome = "refused" /\ call' \in [tx : Tx, outcome : {"sent", "landed", "refused"}]
  BY <1>2, <1>4
<1>6. \A t \in Flying' : t \in Flying
  BY <1>2, <1>5 DEF Flying, Unresolved, Pending
<1>7. TypeOK'
  BY <1>2, <1>3, <1>5 DEF IInv, TypeOK
<1>8. ConfirmedIsThere'
  BY <1>1, <1>2, <1>3 DEF Core, ConfirmedIsThere, Status
<1>9. Core'
  BY <1>1, <1>2, <1>6, <1>8, SendKeeps
<1>10. WaitingOK'
  BY <1>1, <1>2, <1>3, <1>5, WaitsOn DEF SameRound, Status
<1>11. QED
  BY <1>7, <1>9, <1>10 DEF IInv

(* A transaction nobody waits for is dropped. *)
LEMMA DropStrayStep == IInv /\ DropStray => IInv'
<1> SUFFICES ASSUME IInv, stray' \subseteq stray, UNCHANGED <<chain, disk, confirmed, pc, call, lost, faults>>
             PROVE  IInv'
  BY DEF DropStray
<1>1. /\ Process /\ Core /\ WaitingOK
  BY TypeParts DEF IInv
<1>3. next' = next /\ intent' = intent /\ header' = header
  BY DEF chain
<1>6. \A t \in Flying' : t \in Flying
  BY DEF Flying, Unresolved, Pending
<1>7. TypeOK'
  BY <1>3 DEF IInv, TypeOK
<1>8. ConfirmedIsThere'
  BY <1>1, <1>3 DEF Core, ConfirmedIsThere, Status
<1>9. Core'
  BY <1>1, <1>6, <1>8, SendKeeps
<1>10. WaitingOK'
  BY <1>1, <1>3, WaitsOn DEF SameRound, Status
<1>11. QED
  BY <1>7, <1>9, <1>10 DEF IInv

(* Time passes: an intent may grow older, a snapshot become due and transactions die out. *)
LEMMA TimeStep ==
    ASSUME IInv, next' = next, header' = header, Chain',
           disk' = disk \/ SnapshotComesDue,
           UNCHANGED <<confirmed, pc, lost, faults>>,
           \A q \in Rounds :
              /\ Status(q)' = Status(q) /\ intent'[q].secret = intent[q].secret /\ intent'[q].head = intent[q].head
              /\ StaleSeeded(q)' => StaleSeeded(q) \/ (Flying' = {} /\ SnapshotComesDue),
           stray' \subseteq stray,
           pc # "waiting" => call' = call,
           pc = "waiting" => call'.tx = call.tx /\ call'.outcome \in {call.outcome, "refused"}
                                /\ call' \in [tx : Tx, outcome : {"sent", "landed", "refused"}]
    PROVE  IInv'
<1>1. /\ Chain /\ disk \in [round : ActiveRound \cup {None}, done : SUBSET Rounds]
      /\ Process /\ Core /\ WaitingOK /\ lost \in BOOLEAN /\ faults \in 0 .. MaxFaults
  BY TypeParts DEF IInv
<1>2. SameRound /\ disk' \in [round : ActiveRound \cup {None}, done : SUBSET Rounds]
  <2>1. CASE disk' = disk
    BY <1>1, <2>1 DEF SameRound
  <2>2. CASE SnapshotComesDue
    BY <1>1, <2>2, DueIsDue
  <2>3. QED
    BY <2>1, <2>2
<1>3. Flying \subseteq Tx /\ Flying' \subseteq Flying
  <2>1. Flying' \subseteq Flying
    BY DEF Flying, Unresolved, Pending
  <2>2. QED
    BY <1>1, <2>1, FlyingTyped
<1>4. confirmed \in Rounds \cup {None}
  BY <1>1 DEF Process
<1>5. Core'
  BY <1>1, <1>2, <1>3, <1>4, TimeKeeps
<1>6. Process'
  BY <1>1, <1>4 DEF Process
<1>7. WaitingOK'
  BY <1>1, <1>2, WaitsOn
<1>8. TypeOK'
  BY <1>1, <1>2, <1>6 DEF TypeOK, Chain, Process
<1>9. QED
  BY <1>5, <1>7, <1>8 DEF IInv

(* An intent grows older. *)
LEMMA GrowsOlder ==
    ASSUME Chain, NEW r \in Rounds, NEW status, NEW from, NEW to \in {"ripe", "expired", "day", "week"},
           Grow(r, status, from, to)
    PROVE  /\ Chain' /\ next' = next /\ header' = header /\ UNCHANGED <<confirmed, pc, lost, faults>>
           /\ \A q \in Rounds :
                 /\ Status(q)' = Status(q) /\ intent'[q].secret = intent[q].secret /\ intent'[q].head = intent[q].head
                 /\ status # "seeded" => (StaleSeeded(q)' => StaleSeeded(q))
<1>1. intent' = [intent EXCEPT ![r].age = to] /\ intent[r].status = status
  BY DEF Grow
<1>2. \A q \in Rounds :
         /\ intent'[q].status = intent[q].status /\ intent'[q].secret = intent[q].secret /\ intent'[q].head = intent[q].head
         /\ q # r => intent'[q] = intent[q]
  BY <1>1 DEF Chain
<1>3. intent' \in [Rounds -> [status : {"none", "open", "closed", "seeded", "committed", "abandoned"},
                              secret : Secrets \cup {None}, head : Snaps,
                              age : {"new", "ripe", "expired", "day", "week"}]]
  BY <1>1 DEF Chain
<1>4. QED
  BY <1>1, <1>2, <1>3 DEF Grow, Chain, Status, StaleSeeded

(* One of the long waits: nothing is in flight after it. *)
LEMMA LongWaits ==
    ASSUME IInv, NEW r \in Rounds, NEW status, NEW from, NEW to \in {"ripe", "expired", "day", "week"},
           Grow(r, status, from, to), LongWait
    PROVE  IInv'
<1>1. Chain /\ Process
  BY TypeParts DEF IInv
<1>2. /\ Chain' /\ next' = next /\ header' = header /\ UNCHANGED <<confirmed, pc, lost, faults>>
      /\ \A q \in Rounds : Status(q)' = Status(q) /\ intent'[q].secret = intent[q].secret /\ intent'[q].head = intent[q].head
  BY <1>1, GrowsOlder
<1>3. /\ stray' = {} /\ SnapshotComesDue
      /\ call' = IF pc = "waiting" /\ call.outcome = "sent" THEN [call EXCEPT !.outcome = "refused"] ELSE call
  BY DEF LongWait, Pending
<1>4. pc = "waiting" => call \in [tx : Tx, outcome : {"sent", "landed", "refused"}]
  BY <1>1 DEF Process
<1>5. pc = "waiting" => /\ call'.tx = call.tx /\ call'.outcome # "sent" /\ call'.outcome \in {call.outcome, "refused"}
                        /\ call' \in [tx : Tx, outcome : {"sent", "landed", "refused"}]
  BY <1>3, <1>4
<1>6. Flying' = {}
  BY <1>2, <1>3, <1>5 DEF Flying, Unresolved, Pending
<1>7. pc # "waiting" => call' = call
  BY <1>3
<1>8. QED
  BY <1>2, <1>3, <1>5, <1>6, <1>7, TimeStep

(* The seed's block is produced. *)
LEMMA SeedBlockStep == ASSUME IInv, NEW r \in Rounds, SeedBlock(r) PROVE IInv'
<1>1. Chain /\ Process
  BY TypeParts DEF IInv
<1>2. Grow(r, "closed", "new", "ripe") /\ disk' = disk /\ call' = call /\ stray' = stray
  BY DEF SeedBlock
<1>3. /\ Chain' /\ next' = next /\ header' = header /\ UNCHANGED <<confirmed, pc, lost, faults>>
      /\ \A q \in Rounds :
            /\ Status(q)' = Status(q) /\ intent'[q].secret = intent[q].secret /\ intent'[q].head = intent[q].head
            /\ StaleSeeded(q)' => StaleSeeded(q)
  BY <1>1, <1>2, GrowsOlder
<1>4. pc = "waiting" => call \in [tx : Tx, outcome : {"sent", "landed", "refused"}]
  BY <1>1 DEF Process
<1>5. QED
  BY <1>2, <1>3, <1>4, TimeStep

(* The block ages out, a day or a week passes. *)
LEMMA WaitSteps ==
    ASSUME IInv, NEW r \in Rounds, AgeOut(r) \/ DayLater(r) \/ WeekLater(r)
    PROVE  IInv'
<1>1. CASE AgeOut(r)
  BY <1>1, LongWaits DEF AgeOut
<1>2. CASE DayLater(r)
  BY <1>2, LongWaits DEF DayLater
<1>3. CASE WeekLater(r)
  BY <1>3, LongWaits DEF WeekLater
<1>4. QED
  BY <1>1, <1>2, <1>3

(* The next snapshot becomes due. *)
LEMMA SnapshotDueStep == IInv /\ SnapshotDue => IInv'
<1> SUFFICES ASSUME IInv, SnapshotDue
             PROVE  IInv'
  OBVIOUS
<1>1. Chain /\ Process
  BY TypeParts DEF IInv
<1>2. SnapshotComesDue /\ next' = next /\ intent' = intent /\ header' = header
      /\ UNCHANGED <<confirmed, pc, call, stray, lost, faults>>
  BY DEF SnapshotDue, chain
<1>3. Chain' /\ \A q \in Rounds :
            /\ Status(q)' = Status(q) /\ intent'[q].secret = intent[q].secret /\ intent'[q].head = intent[q].head
            /\ StaleSeeded(q)' => StaleSeeded(q)
  BY <1>1, <1>2 DEF Chain, Status, StaleSeeded
<1>4. pc = "waiting" => call \in [tx : Tx, outcome : {"sent", "landed", "refused"}]
  BY <1>1 DEF Process
<1>5. QED
  BY <1>2, <1>3, <1>4, TimeStep

(* A step that sends a transaction and leaves file and chain alone. *)
LEMMA SendStep ==
    ASSUME IInv, NEW tx \in Tx, Send(tx), TxOK(tx), UNCHANGED <<chain, disk, stray, lost, faults>>,
           confirmed' \in Rounds \cup {None}, ConfirmedIsThere',
           tx.kind = "close" => Collecting(tx.id, "OPEN"),
           tx.kind = "seed" => Collecting(tx.id, "CLOSED"),
           tx.kind = "abandon" => disk.round = None \/ disk.round.id = tx.id
    PROVE  IInv'
<1>1. Chain /\ Process /\ Core
  BY TypeParts DEF IInv
<1>2. next' = next /\ intent' = intent /\ header' = header /\ disk' = disk
  BY DEF chain
<1>3. Process' /\ Flying' \subseteq Flying \cup {tx} /\ call'.tx = tx /\ call'.outcome = "sent"
  BY <1>1, Sends
<1>4. Core'
  <2>1. \A t \in Flying' : t \in Flying \/ TxOK(t)
    BY <1>3
  <2>2. QED
    BY <1>1, <2>1, SendKeeps
<1>5. TypeOK'
  BY <1>2, <1>3 DEF IInv, TypeOK, Process
<1>6. WaitingOK'
  BY <1>2, <1>3 DEF WaitingOK, Collecting
<1>7. QED
  BY <1>4, <1>5, <1>6 DEF IInv

(* A step that returns and leaves file and chain alone. *)
LEMMA ReturnStep ==
    ASSUME IInv, pc' \in {"idle", "down"}, call' = NoCall, stray' \subseteq Flying,
           UNCHANGED <<chain, disk, lost>>, faults' \in 0 .. MaxFaults,
           confirmed' \in {confirmed, None}
    PROVE  IInv'
<1>1. Chain /\ Process /\ Core
  BY TypeParts DEF IInv
<1>2. next' = next /\ intent' = intent /\ header' = header /\ disk' = disk
  BY DEF chain
<1>3. confirmed' \in Rounds \cup {None}
  BY <1>1 DEF Process
<1>4. Process' /\ Flying' \subseteq Flying /\ WaitingOK'
  BY <1>1, <1>3, Returns
<1>5. ConfirmedIsThere'
  BY <1>1, <1>2 DEF Core, ConfirmedIsThere, Status
<1>6. Core'
  <2>1. \A t \in Flying' : t \in Flying \/ TxOK(t)
    BY <1>4
  <2>2. QED
    BY <1>1, <1>5, <2>1, SendKeeps
<1>7. TypeOK'
  BY <1>2, <1>4 DEF IInv, TypeOK, Process
<1>8. QED
  BY <1>4, <1>6, <1>7 DEF IInv

(* openRound: file and transaction name the same secret. *)
LEMMA OpenRoundStep == ASSUME IInv, NEW secret \in Secrets, OpenRound(secret) PROVE IInv'
<1>1. /\ Chain /\ disk \in [round : ActiveRound \cup {None}, done : SUBSET Rounds]
      /\ Process /\ Core /\ lost \in BOOLEAN /\ faults \in 0 .. MaxFaults
  BY TypeParts DEF IInv
<1> DEFINE tx == OpenTx(next, secret)
<1>2. /\ disk.round = None /\ next \in Rounds /\ Status(next) = "none"
      /\ SetRound(NewRound(next, secret)) /\ Send(tx)
      /\ UNCHANGED <<chain, confirmed, stray, lost, faults>>
  BY DEF OpenRound, Status
<1>3. tx \in Tx /\ tx.kind = "open"
  BY <1>2 DEF Tx, OpenTx
<1> HIDE DEF tx
<1>4. confirmed \in Rounds \cup {None} /\ Flying \subseteq Tx
  BY <1>1, FlyingTyped DEF Process
<1>5. Process' /\ Flying' \subseteq Flying \cup {tx} /\ call'.tx = tx /\ call'.outcome = "sent"
  BY <1>1, <1>2, <1>3, <1>4, Sends
<1>6. next' = next /\ intent' = intent /\ header' = header
  BY <1>2 DEF chain
<1>7. ConfirmedIsThere'
  BY <1>1, <1>2, <1>6 DEF Core, ConfirmedIsThere, Status
<1>8. Core' /\ disk' \in [round : ActiveRound \cup {None}, done : SUBSET Rounds]
  BY <1>1, <1>2, <1>4, <1>5, <1>7, OpenKeeps DEF tx
<1>9. TypeOK'
  BY <1>1, <1>2, <1>5, <1>6, <1>8 DEF TypeOK, Chain, Process
<1>10. WaitingOK'
  BY <1>3, <1>5 DEF WaitingOK
<1>11. QED
  BY <1>8, <1>9, <1>10 DEF IInv

(* abandonOrphan: there is no round on disk to lose. *)
LEMMA AbandonOrphanStep == IInv /\ AbandonOrphan => IInv'
<1> SUFFICES ASSUME IInv, AbandonOrphan
             PROVE  IInv'
  OBVIOUS
<1> DEFINE tx == [kind |-> "abandon", id |-> next]
<1>1. Process /\ Core
  BY TypeParts DEF IInv
<1>2. /\ disk.round = None /\ next \in Rounds /\ Status(next) # "none" /\ Send(tx)
      /\ UNCHANGED <<chain, disk, confirmed, stray, lost, faults>>
  BY DEF AbandonOrphan, Status
<1>3. tx \in Tx /\ tx.kind = "abandon" /\ tx.id = next
  BY <1>2 DEF Tx
<1> HIDE DEF tx
<1>4. TxOK(tx)
  BY <1>2, <1>3 DEF TxOK, OpenOK, CloseOK, AbandonOK, CommitOK, InHand
<1>5. confirmed' \in Rounds \cup {None} /\ ConfirmedIsThere'
  BY <1>1, <1>2 DEF Process, Core, ConfirmedIsThere, Status, chain
<1>6. QED
  BY <1>2, <1>3, <1>4, <1>5, SendStep

(* collect, when the intent is missing: the same secret is sent again. *)
LEMMA OpenAgainStep == ASSUME IInv, NEW r \in Rounds, OpenAgain(r) PROVE IInv'
<1> DEFINE tx == OpenTx(r, disk.round.secret)
<1>1. Process /\ Core /\ disk \in [round : ActiveRound \cup {None}, done : SUBSET Rounds]
  BY TypeParts DEF IInv
<1>2. /\ Collecting(r, "OPEN") /\ Send(tx)
      /\ UNCHANGED <<chain, disk, confirmed, stray, lost, faults>>
  BY DEF OpenAgain
<1>3. tx \in Tx /\ tx.kind = "open" /\ tx.id = r /\ tx.secret = disk.round.secret
  BY <1>1, <1>2 DEF Tx, OpenTx, Collecting, ActiveRound
<1> HIDE DEF tx
<1>4. TxOK(tx)
  BY <1>2, <1>3 DEF TxOK, OpenOK, CloseOK, AbandonOK, CommitOK, InHand, Collecting
<1>5. confirmed' \in Rounds \cup {None} /\ ConfirmedIsThere'
  BY <1>1, <1>2 DEF Process, Core, ConfirmedIsThere, Status, chain
<1>6. QED
  BY <1>2, <1>3, <1>4, <1>5, SendStep

(* A step within the window knows that it was opened. *)
LEMMA WindowSeen ==
    ASSUME IInv, NEW r \in Rounds, InWindow(r)
    PROVE  /\ Collecting(r, "OPEN") /\ Status(r) # "none" /\ UNCHANGED <<chain, stray, lost, faults>>
           /\ confirmed' \in Rounds \cup {None} /\ ConfirmedIsThere' /\ confirmed' = r
<1>1. Collecting(r, "OPEN") /\ Status(r) # "none" /\ confirmed' = r /\ UNCHANGED <<chain, stray, lost, faults>>
  BY NoneIsNone DEF InWindow, IInv, Core, ConfirmedIsThere, Status
<1>2. QED
  BY <1>1 DEF ConfirmedIsThere, Status, chain

(* closeWindow sends the snapshots on disk. *)
LEMMA CloseWindowStep == ASSUME IInv, NEW r \in Rounds, CloseWindow(r) PROVE IInv'
<1> DEFINE tx == [kind |-> "close", id |-> r, snaps |-> disk.round.snaps]
<1>1. disk \in [round : ActiveRound \cup {None}, done : SUBSET Rounds]
  BY TypeParts DEF IInv
<1>2. /\ Collecting(r, "OPEN") /\ Status(r) # "none" /\ Send(tx)
      /\ UNCHANGED <<chain, disk, stray, lost, faults>>
      /\ confirmed' \in Rounds \cup {None} /\ ConfirmedIsThere'
  BY WindowSeen DEF CloseWindow
<1>3. tx \in Tx /\ tx.kind = "close" /\ tx.id = r /\ tx.snaps = disk.round.snaps /\ Len(tx.snaps) \in Nat
  <2>1. disk.round.snaps \in Snaps
    BY <1>1, <1>2 DEF Collecting, ActiveRound
  <2>2. QED
    BY <2>1, SnapsAreSequences DEF Tx
<1> HIDE DEF tx
<1>4. TxOK(tx)
  BY <1>2, <1>3 DEF TxOK, OpenOK, CloseOK, AbandonOK, CommitOK
<1>5. QED
  BY <1>2, <1>3, <1>4, SendStep

(* A window open for too long is abandoned; if it was closed meanwhile, the keeper has taken more snapshots since. *)
LEMMA GiveUpWindowStep == ASSUME IInv, NEW r \in Rounds, GiveUpWindow(r) PROVE IInv'
<1> DEFINE tx == [kind |-> "abandon", id |-> r]
<1>2. /\ Collecting(r, "OPEN") /\ Status(r) # "none" /\ Send(tx) /\ ~disk.round.due
      /\ UNCHANGED <<chain, disk, stray, lost, faults>>
      /\ confirmed' \in Rounds \cup {None} /\ ConfirmedIsThere'
  BY WindowSeen DEF GiveUpWindow
<1>3. tx \in Tx /\ tx.kind = "abandon" /\ tx.id = r
  BY DEF Tx
<1> HIDE DEF tx
<1>4. StaleSeeded(r) => Len(intent[r].head) < Len(disk.round.snaps)
  BY <1>2 DEF IInv, Core, OpenRoundOK, Collecting
<1>5. TxOK(tx)
  BY <1>2, <1>3, <1>4 DEF TxOK, OpenOK, CloseOK, AbandonOK, CommitOK, Collecting
<1>6. QED
  BY <1>2, <1>3, <1>5, SendStep DEF Collecting

(* seed sends record_seed. *)
LEMMA RecordSeedStep == ASSUME IInv, NEW r \in Rounds, RecordSeed(r) PROVE IInv'
<1> DEFINE tx == [kind |-> "seed", id |-> r]
<1>1. Process /\ Core
  BY TypeParts DEF IInv
<1>2. /\ Collecting(r, "CLOSED") /\ Send(tx)
      /\ UNCHANGED <<chain, disk, confirmed, stray, lost, faults>>
  BY DEF RecordSeed
<1>3. tx \in Tx /\ tx.kind = "seed" /\ tx.id = r
  BY DEF Tx
<1> HIDE DEF tx
<1>4. TxOK(tx)
  BY <1>3 DEF TxOK, OpenOK, CloseOK, AbandonOK, CommitOK
<1>5. confirmed' \in Rounds \cup {None} /\ ConfirmedIsThere'
  BY <1>1, <1>2 DEF Process, Core, ConfirmedIsThere, Status, chain
<1>6. QED
  BY <1>2, <1>3, <1>4, <1>5, SendStep

(* commit sends the snapshots on disk, which are those the chain fixed. *)
LEMMA CommitStep == ASSUME IInv, NEW r \in Rounds, Commit(r) PROVE IInv'
<1> DEFINE tx == [kind |-> "commit", id |-> r, secret |-> disk.round.secret, snaps |-> disk.round.snaps]
<1>1. Process /\ Core /\ disk \in [round : ActiveRound \cup {None}, done : SUBSET Rounds]
  BY TypeParts DEF IInv
<1>2. /\ Collecting(r, "PREPARED") /\ Send(tx)
      /\ UNCHANGED <<chain, disk, confirmed, stray, lost, faults>>
  BY DEF Commit
<1>3. tx \in Tx /\ tx.kind = "commit" /\ tx.id = r /\ tx.snaps = disk.round.snaps
  BY <1>1, <1>2 DEF Tx, Collecting, ActiveRound
<1> HIDE DEF tx
<1>4. Status(r) \notin {"none", "open"} /\ intent[r].head = disk.round.snaps
  BY <1>1, <1>2 DEF Core, ClosedRoundOK, PastOpen, Collecting
<1>5. TxOK(tx)
  BY <1>2, <1>3, <1>4 DEF TxOK, OpenOK, CloseOK, AbandonOK, CommitOK
<1>6. confirmed' \in Rounds \cup {None} /\ ConfirmedIsThere'
  BY <1>1, <1>2 DEF Process, Core, ConfirmedIsThere, Status, chain
<1>7. QED
  BY <1>2, <1>3, <1>5, <1>6, SendStep

(* Steps that only learn what became of a transaction. *)
LEMMA LearnSteps ==
    ASSUME IInv, OpenLanded \/ Refused
    PROVE  IInv'
<1>1. faults \in 0 .. MaxFaults /\ stray \subseteq Flying
  BY TypeParts DEF IInv, Flying
<1>2. pc' \in {"idle", "down"} /\ call' = NoCall /\ stray' = stray
      /\ UNCHANGED <<chain, disk, lost>> /\ faults' = faults /\ confirmed' = confirmed
  BY DEF OpenLanded, Refused, Return
<1>3. QED
  BY <1>1, <1>2, ReturnStep

(* A seed that aged out a day ago: the round, closed on the chain, is abandoned. *)
LEMMA SeedRefusedStep == IInv /\ SeedRefused => IInv'
<1> SUFFICES ASSUME IInv, SeedRefused
             PROVE  IInv'
  OBVIOUS
<1>1. /\ Process /\ Core /\ WaitingOK /\ faults \in 0 .. MaxFaults /\ stray \subseteq Flying
  BY TypeParts DEF IInv, Flying
<1>2. /\ pc = "waiting" /\ call.tx.kind = "seed"
      /\ UNCHANGED <<chain, disk, confirmed, stray, lost, faults>>
  BY DEF SeedRefused, Answered
<1>3. Collecting(call.tx.id, "CLOSED") /\ call.tx.id \in Rounds
  BY <1>1, <1>2, TxFields DEF WaitingOK, Process
<1>4. CASE Status(call.tx.id) = "closed" /\ intent[call.tx.id].age = "day"
  <2> DEFINE tx == [kind |-> "abandon", id |-> call.tx.id]
  <2>1. Send(tx)
    BY <1>4 DEF SeedRefused, Status
  <2>2. tx \in Tx /\ tx.kind = "abandon" /\ tx.id = call.tx.id
    BY <1>3 DEF Tx
  <2> HIDE DEF tx
  <2>3. TxOK(tx)
    BY <1>4, <2>2 DEF TxOK, OpenOK, CloseOK, AbandonOK, CommitOK, StaleSeeded
  <2>4. confirmed' \in Rounds \cup {None} /\ ConfirmedIsThere'
    BY <1>1, <1>2 DEF Process, Core, ConfirmedIsThere, Status, chain
  <2>5. QED
    BY <1>2, <1>3, <2>1, <2>2, <2>3, <2>4, SendStep DEF Collecting
<1>5. CASE ~(Status(call.tx.id) = "closed" /\ intent[call.tx.id].age = "day")
  <2>1. pc' \in {"idle", "down"} /\ call' = NoCall
    BY <1>5 DEF SeedRefused, Status, Return
  <2>2. QED
    BY <1>1, <1>2, <2>1, ReturnStep
<1>6. QED
  BY <1>4, <1>5

(* The steps that move the round on disk along. *)
LEMMA AdvanceStep ==
    ASSUME IInv, UNCHANGED <<chain, stray, lost, faults>>, confirmed' \in {confirmed, None},
           pc' = "idle" /\ call' = NoCall,
           disk.round # None, disk.round.status # "PREPARED",
           NEW to \in {"CLOSED", "SEEDED", "FUNDED", "PREPARED"}, SetStatus(to),
           Status(disk.round.id) \notin {"none", "open"},
           intent[disk.round.id].head = disk.round.snaps,
           to # "CLOSED" => Status(disk.round.id) \in {"seeded", "committed"}
    PROVE  IInv'
<1>1. /\ Chain /\ disk \in [round : ActiveRound \cup {None}, done : SUBSET Rounds]
      /\ Process /\ Core /\ lost \in BOOLEAN /\ faults \in 0 .. MaxFaults
  BY TypeParts DEF IInv
<1>2. next' = next /\ intent' = intent /\ header' = header
  BY DEF chain
<1>3. confirmed' \in Rounds \cup {None} /\ stray \subseteq Flying /\ Flying \subseteq Tx
  BY <1>1, FlyingTyped DEF Process, Flying
<1>4. Process' /\ Flying' \subseteq Flying /\ WaitingOK'
  BY <1>1, <1>3, Returns
<1>5. ConfirmedIsThere'
  BY <1>1, <1>2 DEF Core, ConfirmedIsThere, Status
<1>6. Core' /\ disk' \in [round : ActiveRound \cup {None}, done : SUBSET Rounds]
  BY <1>1, <1>3, <1>4, <1>5, AdvanceKeeps
<1>7. TypeOK'
  BY <1>1, <1>2, <1>4, <1>6 DEF TypeOK, Chain, Process
<1>8. QED
  BY <1>4, <1>6, <1>7 DEF IInv

(* adoptClosedWindow, when a restarted keeper finds the window closed. *)
LEMMA AdoptClosedStep == ASSUME IInv, NEW r \in Rounds, AdoptClosed(r) PROVE IInv'
<1>1. /\ pc = "idle" /\ call' = call /\ pc' = pc
      /\ disk.round # None /\ disk.round.id = r /\ disk.round.status = "OPEN"
      /\ Status(r) \notin {"none", "open"} /\ intent[r].head = disk.round.snaps
      /\ SetStatus("CLOSED") /\ UNCHANGED <<chain, stray, lost, faults>> /\ confirmed' = confirmed
  BY DEF AdoptClosed, Idle, Collecting, Adoptable, Status
<1>2. call' = NoCall
  BY <1>1, TypeParts DEF IInv, Process
<1>3. QED
  BY <1>1, <1>2, AdvanceStep

(* adoptClosedWindow, when the close was answered. *)
LEMMA CloseLandedStep == IInv /\ CloseLanded => IInv'
<1> SUFFICES ASSUME IInv, CloseLanded
             PROVE  IInv'
  OBVIOUS
<1>1. /\ pc = "waiting" /\ call.outcome = "landed" /\ call.tx.kind = "close"
      /\ pc' = "idle" /\ call' = NoCall
      /\ intent[disk.round.id].head = disk.round.snaps
      /\ SetStatus("CLOSED") /\ UNCHANGED <<chain, stray, lost, faults>> /\ confirmed' = None
  BY DEF CloseLanded, Answered, Adoptable, Return
<1>2. Collecting(call.tx.id, "OPEN") /\ Status(call.tx.id) \notin {"none", "open"}
  BY <1>1 DEF IInv, WaitingOK
<1>3. disk.round # None /\ disk.round.id = call.tx.id /\ disk.round.status = "OPEN"
  BY <1>2 DEF Collecting
<1>4. QED
  BY <1>1, <1>2, <1>3, AdvanceStep

(* A round on disk that is past its window has a closed intent with its snapshots. *)
LEMMA BuyAndReserveStep == ASSUME IInv, NEW r \in Rounds, BuyAndReserve(r) PROVE IInv'
<1>1. /\ pc = "idle" /\ call' = call /\ pc' = pc
      /\ disk.round # None /\ disk.round.id = r /\ disk.round.status = "SEEDED"
      /\ SetStatus("FUNDED") /\ UNCHANGED <<chain, stray, lost, faults>> /\ confirmed' = confirmed
  BY DEF BuyAndReserve, Idle, Collecting
<1>2. call' = NoCall
  BY <1>1, TypeParts DEF IInv, Process
<1>3. /\ Status(disk.round.id) \in {"seeded", "committed"} /\ intent[disk.round.id].head = disk.round.snaps
  BY <1>1 DEF IInv, Core, ClosedRoundOK, PastOpen, BoughtForIsKept, Status
<1>4. QED
  BY <1>1, <1>2, <1>3, AdvanceStep

(* prepare goes on from what was bought. *)
LEMMA PrepareStep == ASSUME IInv, NEW r \in Rounds, Prepare(r) PROVE IInv'
<1>1. /\ pc = "idle" /\ call' = call /\ pc' = pc
      /\ disk.round # None /\ disk.round.id = r /\ disk.round.status = "FUNDED"
      /\ SetStatus("PREPARED") /\ UNCHANGED <<chain, stray, lost, faults>> /\ confirmed' = confirmed
  BY DEF Prepare, Idle, Collecting
<1>2. call' = NoCall
  BY <1>1, TypeParts DEF IInv, Process
<1>3. /\ Status(disk.round.id) \in {"seeded", "committed"} /\ intent[disk.round.id].head = disk.round.snaps
  BY <1>1 DEF IInv, Core, ClosedRoundOK, PastOpen, BoughtForIsKept, Status
<1>4. QED
  BY <1>1, <1>2, <1>3, AdvanceStep

(* The steps after which there is no round on disk. *)
LEMMA ForgetStep ==
    ASSUME IInv, UNCHANGED <<chain, stray, lost, faults>>, confirmed' \in {confirmed, None},
           pc' = "idle" /\ call' = NoCall,
           NEW done, disk' = [round |-> None, done |-> done],
           \/ disk.round = None /\ done = disk.done
           \/ disk.round # None /\ Status(disk.round.id) = "abandoned" /\ done = disk.done
           \/ disk.round # None /\ Status(disk.round.id) = "committed" /\ done = disk.done \cup {disk.round.id}
    PROVE  IInv'
<1>1. /\ Chain /\ disk \in [round : ActiveRound \cup {None}, done : SUBSET Rounds]
      /\ Process /\ Core /\ lost \in BOOLEAN /\ faults \in 0 .. MaxFaults
  BY TypeParts DEF IInv
<1>2. next' = next /\ intent' = intent /\ header' = header
  BY DEF chain
<1>3. confirmed' \in Rounds \cup {None} /\ stray \subseteq Flying /\ Flying \subseteq Tx
  BY <1>1, FlyingTyped DEF Process, Flying
<1>4. Process' /\ Flying' \subseteq Flying /\ WaitingOK'
  BY <1>1, <1>3, Returns
<1>5. ConfirmedIsThere'
  BY <1>1, <1>2 DEF Core, ConfirmedIsThere, Status
<1>6. Core'
  BY <1>1, <1>3, <1>4, <1>5, ForgetKeeps
<1>7. disk' \in [round : ActiveRound \cup {None}, done : SUBSET Rounds]
  BY <1>1 DEF ActiveRound
<1>8. TypeOK'
  BY <1>1, <1>2, <1>4, <1>7 DEF TypeOK, Chain, Process
<1>9. QED
  BY <1>4, <1>6, <1>8 DEF IInv

(* The abandoned round leaves the file. *)
LEMMA AbandonLandedStep == IInv /\ AbandonLanded => IInv'
<1> SUFFICES ASSUME IInv, AbandonLanded
             PROVE  IInv'
  OBVIOUS
<1>1. /\ pc = "waiting" /\ call.outcome = "landed" /\ call.tx.kind = "abandon"
      /\ pc' = "idle" /\ call' = NoCall /\ SetRound(None)
      /\ UNCHANGED <<chain, stray, lost, faults>> /\ confirmed' \in {confirmed, None}
  BY DEF AbandonLanded, Answered, Return
<1>2. (disk.round = None \/ disk.round.id = call.tx.id) /\ Status(call.tx.id) = "abandoned"
  BY <1>1 DEF IInv, WaitingOK
<1>3. disk' = [round |-> None, done |-> disk.done]
  BY <1>1, TypeParts DEF IInv, SetRound
<1>4. QED
  BY <1>1, <1>2, <1>3, ForgetStep

(* A seeded round goes on, one abandoned on the chain leaves the file. *)
LEMMA SeedSeenStep == ASSUME IInv, NEW r \in Rounds, SeedSeen(r) PROVE IInv'
<1>1. /\ disk.round # None /\ disk.round.id = r /\ disk.round.status = "CLOSED"
      /\ pc' = "idle" /\ call' = NoCall /\ UNCHANGED <<chain, stray, lost, faults>>
  BY DEF SeedSeen, Collecting, Return
<1>2. CASE Status(r) = "seeded" /\ SetStatus("SEEDED") /\ confirmed' = confirmed
  <2>1. intent[r].head = disk.round.snaps
    BY <1>1 DEF IInv, Core, ClosedRoundOK, PastOpen
  <2>2. QED
    BY <1>1, <1>2, <2>1, AdvanceStep
<1>3. CASE Status(r) = "abandoned" /\ SetRound(None) /\ confirmed' = None
  <2>1. disk' = [round |-> None, done |-> disk.done]
    BY <1>3, TypeParts DEF IInv, SetRound
  <2>2. QED
    BY <1>1, <1>3, <2>1, ForgetStep
<1>4. QED
  BY <1>2, <1>3 DEF SeedSeen, Status

(* The committed round goes on the paying list. *)
LEMMA CommittedStep == ASSUME IInv, NEW r \in Rounds, Committed(r) PROVE IInv'
<1>1. /\ disk.round # None /\ disk.round.id = r /\ disk.round.status = "PREPARED"
      /\ header[r] = disk.round.snaps
      /\ disk' = [round |-> None, done |-> disk.done \cup {r}]
      /\ pc' = "idle" /\ call' = NoCall /\ UNCHANGED <<chain, stray, lost, faults>> /\ confirmed' = confirmed
  BY DEF Committed, Collecting, Return
<1>2. header[r] # None
  <2>1. disk.round \in ActiveRound
    BY <1>1, TypeParts DEF IInv
  <2>2. disk.round.snaps \in Snaps
    BY <2>1 DEF ActiveRound
  <2>3. QED
    BY <1>1, <2>2, NoneIsNone
<1>3. Status(r) = "committed"
  BY <1>2 DEF IInv, Core, HeadersFixed
<1>4. QED
  BY <1>1, <1>3, ForgetStep

(* takeSnapshot in an open window. *)
LEMMA TakeSnapshotStep == ASSUME IInv, NEW r \in Rounds, NEW reading \in Readings, TakeSnapshot(r, reading) PROVE IInv'
<1>1. /\ Chain /\ disk \in [round : ActiveRound \cup {None}, done : SUBSET Rounds]
      /\ Process /\ Core /\ WaitingOK /\ lost \in BOOLEAN /\ faults \in 0 .. MaxFaults
  BY TypeParts DEF IInv
<1>2. /\ Collecting(r, "OPEN") /\ disk.round.due /\ pc = "idle"
      /\ UNCHANGED <<chain, stray, lost, faults, pc, call>>
      /\ confirmed' \in Rounds \cup {None} /\ ConfirmedIsThere'
  BY WindowSeen DEF TakeSnapshot, InWindow, Idle
<1>3. disk' = [disk EXCEPT !.round.snaps = Append(disk.round.snaps, reading), !.round.due = FALSE]
  BY DEF TakeSnapshot
<1>4. disk' = [disk EXCEPT !.round = [disk.round EXCEPT !.snaps = Append(disk.round.snaps, reading), !.due = FALSE]]
  BY <1>1, <1>3
<1>5. next' = next /\ intent' = intent /\ header' = header
  BY <1>2 DEF chain
<1>6. Flying \subseteq Tx /\ Flying' \subseteq Flying
  BY <1>1, <1>2, FlyingTyped DEF Flying, Unresolved, Pending
<1>7. Core' /\ disk' \in [round : ActiveRound \cup {None}, done : SUBSET Rounds]
  BY <1>1, <1>2, <1>4, <1>6, SnapshotKeeps DEF Collecting
<1>8. TypeOK'
  BY <1>1, <1>2, <1>5, <1>7 DEF TypeOK, Chain, Process
<1>9. WaitingOK'
  BY <1>2 DEF WaitingOK
<1>10. QED
  BY <1>7, <1>8, <1>9 DEF IInv

(* collect with nothing to do yet. *)
LEMMA CollectLaterStep == ASSUME IInv, NEW r \in Rounds, CollectLater(r) PROVE IInv'
<1>1. Chain /\ Process /\ Core
  BY TypeParts DEF IInv
<1>2. /\ pc = "idle" /\ UNCHANGED <<chain, disk, stray, lost, faults, pc, call>>
      /\ confirmed' \in Rounds \cup {None} /\ ConfirmedIsThere'
  BY WindowSeen DEF CollectLater, InWindow, Idle
<1>3. next' = next /\ intent' = intent /\ header' = header
  BY <1>2 DEF chain
<1>4. \A t \in Flying' : t \in Flying
  BY <1>2 DEF Flying, Unresolved, Pending
<1>5. Core'
  BY <1>1, <1>2, <1>4, SendKeeps
<1>6. TypeOK'
  BY <1>2, <1>3 DEF IInv, TypeOK
<1>7. WaitingOK'
  BY <1>2 DEF WaitingOK
<1>8. QED
  BY <1>5, <1>6, <1>7 DEF IInv

(* What a crash, a lost answer or a lost file leaves. *)
LEMMA FaultSteps ==
    ASSUME IInv, LoseAnswer \/ Crash
    PROVE  IInv'
<1>1. /\ pc' \in {"idle", "down"} /\ call' = NoCall /\ stray' = Flying
      /\ UNCHANGED <<chain, disk, lost>> /\ faults < MaxFaults /\ faults' = faults + 1
      /\ confirmed' \in {confirmed, None}
  BY DEF LoseAnswer, Crash, MayFail, Return, Flying
<1>2. faults' \in 0 .. MaxFaults
  BY <1>1, KeeperAssumption DEF IInv, TypeOK, KeeperAssumption
<1>3. QED
  BY <1>1, <1>2, ReturnStep

(* The state file is lost: nothing was in flight any more. *)
LEMMA LoseStateStep == IInv /\ LoseState => IInv'
<1> SUFFICES ASSUME IInv, LoseState
             PROVE  IInv'
  OBVIOUS
<1>1. /\ Chain /\ Process /\ Core /\ WaitingOK /\ faults \in 0 .. MaxFaults
  BY TypeParts DEF IInv
<1>2. /\ pc = "down" /\ disk'.round = None /\ disk'.done = {} /\ disk' = [round |-> None, done |-> {}]
      /\ stray' = {} /\ lost' = TRUE /\ UNCHANGED <<chain, confirmed, pc, call, faults>>
  BY DEF LoseState, EmptyState
<1>3. next' = next /\ intent' = intent /\ header' = header
  BY <1>2 DEF chain
<1>4. Flying' = {}
  BY <1>2 DEF Flying, Unresolved, Pending
<1>5. Ordered' /\ HeadersFixed' /\ ConfirmedIsThere'
  BY <1>1, <1>2, <1>3 DEF Core, Ordered, HeadersFixed, ConfirmedIsThere, Status
<1>6. SecretSaved' /\ FlyingOK' /\ OpenRoundOK' /\ ClosedRoundOK' /\ BoughtForIsKept' /\ CommittedTracked'
  BY <1>2, <1>4 DEF SecretSaved, FlyingOK, OpenRoundOK, ClosedRoundOK, PastOpen, BoughtForIsKept, CommittedTracked
<1>7. TypeOK'
  BY <1>1, <1>2, <1>3 DEF TypeOK, Chain, Process
<1>8. WaitingOK'
  BY <1>2 DEF WaitingOK
<1>9. QED
  BY <1>5, <1>6, <1>7, <1>8 DEF IInv, Core

(* The keeper is restarted. *)
LEMMA BootStep == IInv /\ Boot => IInv'
<1> SUFFICES ASSUME IInv, Boot
             PROVE  IInv'
  OBVIOUS
<1>1. /\ Process /\ faults \in 0 .. MaxFaults
  BY TypeParts DEF IInv
<1>2. pc = "down" /\ pc' = "idle" /\ UNCHANGED <<chain, disk, confirmed, call, stray, lost, faults>>
  BY DEF Boot
<1>3. call' = NoCall /\ stray' \subseteq Flying
  BY <1>1, <1>2 DEF Process, Flying
<1>4. QED
  BY <1>1, <1>2, <1>3, ReturnStep

----------------------------------------------------------------------------
(* The invariant. *)

(* A fresh distributor and an empty state file. *)
LEMMA InitIInv == Init => IInv
<1> SUFFICES ASSUME Init
             PROVE  IInv
  OBVIOUS
<1>1. /\ next = 0 /\ header = [r \in Rounds |-> None] /\ disk.round = None /\ disk.done = {}
      /\ disk = [round |-> None, done |-> {}]
      /\ confirmed = None /\ pc = "idle" /\ call = NoCall /\ stray = {} /\ lost = FALSE /\ faults = 0
      /\ intent = [r \in Rounds |-> Unwritten]
  BY DEF Init, EmptyState
<1>2. \A r \in Rounds : Status(r) = "none" /\ intent[r].head = << >>
  BY <1>1 DEF Status, Unwritten
<1>3. Flying = {}
  BY <1>1 DEF Flying, Unresolved, Pending
<1>4. TypeOK
  <2>1. Unwritten \in [status : {"none", "open", "closed", "seeded", "committed", "abandoned"},
                       secret : Secrets \cup {None}, head : Snaps,
                       age : {"new", "ripe", "expired", "day", "week"}]
    BY NoSnapshots DEF Unwritten
  <2>2. MaxRounds \in Nat /\ MaxFaults \in Nat
    BY KeeperAssumption DEF KeeperAssumption
  <2>3. next \in 0 .. MaxRounds /\ faults \in 0 .. MaxFaults
    BY <1>1, <2>2
  <2>4. Chain
    BY <1>1, <2>1, <2>3 DEF Chain
  <2>5. disk \in [round : ActiveRound \cup {None}, done : SUBSET Rounds]
    BY <1>1
  <2>6. Process
    BY <1>1 DEF Process
  <2>7. lost \in BOOLEAN
    BY <1>1
  <2>8. QED
    BY <2>3, <2>4, <2>5, <2>6, <2>7, TypeParts
<1>5. Core
  <2>1. Ordered /\ HeadersFixed
    BY <1>1, <1>2 DEF Ordered, HeadersFixed, Rounds
  <2>2. SecretSaved /\ FlyingOK /\ OpenRoundOK /\ ClosedRoundOK
    BY <1>1, <1>2, <1>3 DEF SecretSaved, Status, FlyingOK, OpenRoundOK, ClosedRoundOK, PastOpen
  <2>3. ConfirmedIsThere /\ BoughtForIsKept /\ CommittedTracked
    BY <1>1 DEF ConfirmedIsThere, BoughtForIsKept, CommittedTracked
  <2>4. QED
    BY <2>1, <2>2, <2>3 DEF Core
<1>6. WaitingOK
  BY <1>1 DEF WaitingOK
<1>7. QED
  BY <1>4, <1>5, <1>6 DEF IInv

(* Nothing happens. *)
LEMMA StutterStep == IInv /\ UNCHANGED vars => IInv'
<1> SUFFICES ASSUME IInv, UNCHANGED vars
             PROVE  IInv'
  OBVIOUS
<1>1. /\ Process /\ Core /\ WaitingOK
  BY TypeParts DEF IInv
<1>2. UNCHANGED <<chain, disk, confirmed, pc, call, stray, lost, faults>>
      /\ next' = next /\ intent' = intent /\ header' = header
  BY DEF vars, chain
<1>3. \A t \in Flying' : t \in Flying
  BY <1>2 DEF Flying, Unresolved, Pending
<1>4. TypeOK'
  BY <1>2 DEF IInv, TypeOK
<1>5. ConfirmedIsThere'
  BY <1>1, <1>2 DEF Core, ConfirmedIsThere, Status
<1>6. Core'
  BY <1>1, <1>2, <1>3, <1>5, SendKeeps
<1>7. WaitingOK'
  BY <1>1, <1>2, WaitsOn DEF SameRound, Status
<1>8. QED
  BY <1>4, <1>6, <1>7 DEF IInv

(* One step per action. *)
LEMMA NextIInv == IInv /\ [Next]_vars => IInv'
<1> SUFFICES ASSUME IInv, [Next]_vars
             PROVE  IInv'
  OBVIOUS
<1>1. CASE Work
  <2>1. ASSUME NEW secret \in Secrets, OpenRound(secret)
        PROVE  IInv'
    BY <2>1, OpenRoundStep
  <2>2. CASE AbandonOrphan \/ OpenLanded \/ CloseLanded \/ AbandonLanded \/ SeedRefused \/ Refused
    BY <2>2, AbandonOrphanStep, LearnSteps, CloseLandedStep, AbandonLandedStep, SeedRefusedStep
  <2>3. ASSUME NEW r \in Rounds,
               \/ OpenAgain(r) \/ CloseWindow(r) \/ GiveUpWindow(r) \/ AdoptClosed(r)
               \/ RecordSeed(r) \/ SeedSeen(r) \/ BuyAndReserve(r) \/ Prepare(r)
               \/ Commit(r) \/ Committed(r)
        PROVE  IInv'
    BY <2>3, OpenAgainStep, CloseWindowStep, GiveUpWindowStep, AdoptClosedStep, RecordSeedStep,
       SeedSeenStep, BuyAndReserveStep, PrepareStep, CommitStep, CommittedStep
  <2>4. ASSUME NEW r \in Rounds, NEW reading \in Readings, TakeSnapshot(r, reading)
        PROVE  IInv'
    BY <2>4, TakeSnapshotStep
  <2>5. QED
    BY <1>1, <2>1, <2>2, <2>3, <2>4 DEF Work
<1>2. CASE \E r \in Rounds : CollectLater(r)
  BY <1>2, CollectLaterStep
<1>3. CASE World
  <2>1. CASE Land \/ Refuse \/ LandStray \/ DropStray \/ SnapshotDue
    BY <2>1, LandStep, RefuseStep, LandStrayStep, DropStrayStep, SnapshotDueStep
  <2>2. ASSUME NEW r \in Rounds, AnyoneSeeds(r) \/ SeedBlock(r) \/ AgeOut(r) \/ DayLater(r) \/ WeekLater(r)
        PROVE  IInv'
    BY <2>2, AnyoneSeedsStep, SeedBlockStep, WaitSteps
  <2>3. QED
    BY <1>3, <2>1, <2>2 DEF World
<1>4. CASE LoseAnswer \/ Crash \/ LoseState \/ Boot
  BY <1>4, FaultSteps, LoseStateStep, BootStep
<1>5. CASE UNCHANGED vars
  BY <1>5, StutterStep
<1>6. QED
  BY <1>1, <1>2, <1>3, <1>4, <1>5 DEF Next

(***************************************************************************)
(* What file, chain and the transactions in flight say of each other is    *)
(* inductive: no crash, lost answer, late landing or lost file breaks it.  *)
(***************************************************************************)
THEOREM Inductive == Spec => []IInv
<1>1. Init => IInv
  BY InitIInv
<1>2. IInv /\ [Next]_vars => IInv'
  BY NextIInv
<1>3. QED
  BY <1>1, <1>2, PTL DEF Spec

(***************************************************************************)
(* The secret behind a live intent is on disk, the snapshots beyond OPEN   *)
(* are those the chain fixed, and a committed round is never forgotten nor *)
(* sampled again (engine.ts 20-26, 315, 406-408).                          *)
(***************************************************************************)
THEOREM RoundsAreKept == Spec => []RoundKept
<1>1. IInv => RoundKept
  <2> SUFFICES ASSUME IInv
               PROVE  RoundKept
    OBVIOUS
  <2>1. TypeOK /\ SecretSaved /\ CommittedTracked /\ HeadersFixed /\ ClosedRoundOK
    BY DEF IInv, Core
  <2>2. SnapshotsAreFixed
    BY <2>1 DEF SnapshotsAreFixed, HeadersFixed, ClosedRoundOK
  <2>3. QED
    BY <2>1, <2>2 DEF RoundKept
<1>2. QED
  BY <1>1, Inductive, PTL

(***************************************************************************)
(* A round the keeper has started buying for is not discarded by the chain *)
(* (engine.ts 505).                                                        *)
(***************************************************************************)
THEOREM NeverDiscarded == Spec => []BoughtForIsKept
<1>1. IInv => BoughtForIsKept
  BY DEF IInv, Core
<1>2. QED
  BY <1>1, Inductive, PTL
=============================================================================
